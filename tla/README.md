# TLA+ models of the rt-mbms-mw receiver loop

This directory models `src/src/main.cpp` of rt-mbms-mw, the 5G-MAG MBMS modem
middleware. The modules cover the part of the program that can go wrong in
ways a test rarely reaches:

- the main thread's searching / syncing / processing state machine;
- the RESTful API thread, which calls `set_params()` concurrently with that state machine;
- the thread pool running the CAS and MBSFN decode tasks the main thread pushes;
- the measurement cadence.

## The system

`main()` builds these parts:

- an SDR reader (`sdr`);
- a PHY (`phy`);
- one CAS frame processor and `thread_cnt` MBSFN frame processors;
- a thread pool of `thread_cnt + 1` threads;
- a RESTful API handler.

After that, `main()` runs one loop forever (lines 479-722):

- **searching** (480-525):
  - If `restart` is set, it retunes to `frequency` at the search sample rate.
  - It clears `restart` and runs a cell search.
  - When a cell is found, it sets `mbsfn_nof_prb` from the cell's PRB count. Receiving from the air, it also retunes the SDR to the matching sample rate and filter bandwidth. It then goes to syncing.
- **syncing** (526-564):
  - It makes up to `max_frames` subframe synchronisation attempts.
  - When they are exhausted, it should go back to searching.
  - On success it sets the CAS processor's cell, unlocks every MBSFN processor, reads the TTI and goes to processing.
- **processing** (565-721): every iteration advances the TTI.
  - On a CAS subframe it reads the frame into the CAS processor's buffer and pushes a CAS decode task. If the PHY now reports a wider MBSFN PRB count (learned from SIB13 by an earlier CAS decode), it retunes for the wider bandwidth and goes back to syncing.
  - On every other subframe it takes MBSFN processor `mb_idx` with `get_rx_buffer_and_lock()` and reads the frame into it. If MCCH is configured, it pushes an MBSFN decode task, which unlocks the processor when it is done. Otherwise it unlocks the processor straight away.
  - A failed frame read, or a pending `restart`, retunes to the search rate and goes to searching.
  - Every iteration increments `tick`, and writes a measurement record when `tick % measurement_interval == 0`.

`set_params()` (200-210) runs on the API thread. It writes the `frequency` and
`bandwidth` globals, then sets `restart`. None of this is synchronised with
the main loop.

## Modules

| module | models | source |
|---|---|---|
| `ReceiverLoop` | main loop, `set_params()`, pool tasks, processor locks | main.cpp 168-210, 300-381, 440-663 |
| `MCReceiverLoop` | model values and small constants for TLC | |
| `Telemetry` | `tick`, `measurement_interval` and the record test | main.cpp 468-473, 665-719 |
| `ReceiverStates` | the abstract state machine the loop promises | main.cpp 476-663 (abstracted) |
| `ReceiverLoopProofs` | TLAPS proofs of ReceiverLoop's invariants and refinement | |
| `TelemetryProofs` | TLAPS proofs of Telemetry's invariants | |

### ReceiverLoop

**Variables.** There are three groups.

- `restVars`, shared with the API thread:
  - `restart`, `frequency` and `bandwidth`: the globals of the same name.
  - `restPc`: where the API thread is inside `set_params()`.
- `ctlVars`, the main thread:
  - `state`, `mbsfnPrb` (`mbsfn_nof_prb`), `maxFrames` and `sfnSync` (the syncing block's locals), `tti` and `mbIdx` (`mb_idx`).
  - `pc`: whether the iteration is at its top, between the restart check and the cell search, or inside the sync loop.
- `envVars`, the collaborators:
  - `sdr`: what the SDR is tuned to.
  - `cellFreq`: the frequency the PHY found its cell on.
  - `phyPrb` and `mcch`: `phy.nof_mbsfn_prb()` and `phy.mcch_configured()`.
  - `lock`: each MBSFN processor's buffer lock.
  - `pending`: the decode tasks queued per worker. The CAS processor is worker `NumProcessors`.
  - `cfgPrb`: the MBSFN PRB count each MBSFN processor was configured with by `set_cell` (0 while `mbsfn_configured()` is false).

**Data abstraction.**

- A frequency is a model value.
- A sample rate or bandwidth computed from a PRB count `p` (`srsran_sampling_freq_hz(p)`, `(p * 200000) * 1.2`) is represented by `p`. Both functions are injective on the PRB counts of `PrbSet` ({25, 40} in the runs; 40 is one of the non-LTE MBSFN widths the extension at line 586 handles).
- The search sample rate is the model value `SearchRate`.
- `max_frames` keeps its unsigned width (`UDec`, modulo `2^CounterWidth`).

**Actions.** Each action is a whole branch of one iteration:

- searching: `SearchTop`, `SearchCellFound`, `SearchCellMissed`;
- syncing: `SyncEnter`, `SyncAttempt`, `SyncGiveUp`, `SyncLocked`;
- processing: `CasDecode`, `CasBandwidthExtension`, `CasLost`, `MbsfnDecode`, `MbsfnDiscard`, `MbsfnLost`.

`PROJECT.json` ("map") gives the lines each action models. Splitting the
searching branch at line 486/489 is what makes the lost-request race visible.
The environment's answers are chosen nondeterministically: whether a cell is
found, each sync attempt, each frame read and each PRB count.

The pool is modelled by two actions:

- `CompleteCas`: a CAS decode may deliver SIB13, setting `mcch` and a possibly wider `phyPrb`.
- `CompleteMbsfn(k)`: the decode ends and processor `k`'s lock is released.

The API thread is modelled by three actions, one per store of
`set_params()`: `SetParamsFrequency` (line 202), `SetParamsBandwidth` (line 203),
then `SetParamsRaise` (line 209), which sets `restart`. Between the stores, a
retune of the loop reads the new frequency with the old bandwidth.

**Fairness.** The specification assumes weak fairness of:

- the main thread (`ControlStep`);
- every pool worker (`CompleteCas`, `CompleteMbsfn(k)`): `pool.push` hands the task to a running pool thread.

It assumes no fairness of the API thread, which acts only when a user calls it.

### ReceiverStates (abstract specification)

`ReceiverStates` states what the loop promises about its states and nothing else. Its variables are `state` and `prb`, the MBSFN PRB count the receiver is set up for. Its transitions are:

- `Found`: searching to syncing, learning a PRB count;
- `Locked`: syncing to processing;
- `GiveUp`: syncing to searching;
- `Extend`: processing to syncing, with a *different* PRB count;
- `Lost`: processing to searching.

`ReceiverLoop` instantiates it as `Machine == INSTANCE ReceiverStates WITH prb <- mbsfnPrb`, and `ImplementsReceiverStates == Machine!Spec` is checked by TLC and proved by TLAPS.

### Telemetry

- `tick` is a `TickWidth`-bit counter.
- `sinceLast` counts the subframes since the last record.
- `MeasurementInterval` is `interval_secs * 1000`, computed in the same width.
- `Subframe` is one processing iteration.

## Runs

All runs are on `MCReceiverLoop` unless they say otherwise. The base instance is:

- 2 MBSFN processors;
- PRB counts {25, 40};
- one frequency;
- `MaxFrames = 2` with `CounterWidth = 2`, so the counter wraps;
- `TtiPeriod = CasPeriod = 4`, so there is one CAS subframe and three MBSFN subframes per period;
- at most 2 queued tasks per worker.

These bounds are large enough for the following to happen:

- a decode task to be queued across a bandwidth extension and a resync;
- the dispatch cursor to wrap;
- a second CAS frame to arrive before the first is decoded;
- the sync counter to wrap.

The base run reaches 1,722,412 distinct states in about 15 s; the liveness run takes under two minutes.

| run | cfg | expect | shows |
|---|---|---|---|
| loop_safety | MCReceiverLoop.cfg | pass | `TypeOK`, `NoLeakedLock`, `SearchAtSearchRate`, `RadioSizedForCell` and `ImplementsReceiverStates`: the loop refines ReceiverStates |
| loop_progress | MCProgress.cfg | pass | `ControlProgress`: under the fairness above the main thread never blocks forever |
| telemetry_cadence | Telemetry.cfg (module Telemetry) | pass | `SnapshotsNeverLate` and `EarlySnapshotOnlyAtWrap` (the only early record is the one at the wrap) across the wrap of an 11-bit tick |
| sync_exhaustion | MCSyncExhaustion.cfg | violation | giving up on sync never returns to searching |
| unlock_in_flight | MCMbsfnUnlockAll.cfg | violation | sync success unlocks a processor with a queued decode |
| cas_overrun | MCCasOverrun.cfg | violation | a CAS frame overwrites a buffer still queued for decoding |
| startup_frequency | MCStartupFrequency.cfg | violation | the retune after search leaves the configured frequency |
| request_lost | MCRequestLost.cfg | violation | a `set_params()` between check and clear of `restart` is lost |
| telemetry_wrap | TelemetryWrap.cfg (module Telemetry) | violation | a record is written early at the wrap of `tick` |
| restart_ignored | MCRestartHonoured.cfg | violation | `RestartEventuallyHonoured`: a restart raised while syncing fails is never acted on, under the fairness above |
| stale_mbsfn_config | MCStaleConfig.cfg | violation | `MbsfnDecodeWithCurrentCell`: a processor decodes with the PRB count of its first configuration after SIB13 widened the cell |
| cas_set_cell | MCCasSetCell.cfg | violation | `CasCellSetWhileIdle`: `cas_processor.set_cell()` runs while a CAS decode is queued |

Each violation is listed under "findings" in `PROJECT.json`, at the line where
it bites. Each property of a passing run has a mutant in `PROJECT.json`: a
plausible bug in the modelled code, under which TLC finds that property
violated.

## Proofs

`ReceiverLoopProofs` proves seven theorems for every value of the constants that
satisfies the named assumptions of `ReceiverLoop`. The assumptions are:

- `NumProcessors > 0`;
- PRB counts are positive and distinct from the search rate and the sentinels;
- `2^CounterWidth > MaxFrames`;
- all periods and bounds are positive.

The theorems are:

- `TypeCorrect`: `Spec => []TypeOK`.
  - The proof has one step per action. Each step is split into the groups of variables the action changes.
  - It rests on the lemmas `ModSucc` (the TTI and `mb_idx` wraps), `PushType`, `PopType`, `WorkerIds` and `RecoverType`.
- `NoLeakedLockInvariant`: `Spec => []NoLeakedLock`.
  - `TypeOK` is the only strengthening needed.
  - `SyncLocked` clears every lock. While processing, a lock is only taken together with a push (`MbsfnDecode`), or on the path that leaves processing (`MbsfnLost`).
- `SearchAtSearchRateInvariant`: `Spec => []SearchAtSearchRate`.
  - The `SyncGiveUp` step rests on `UDecZero`: the decrement at zero does not give zero.
  - So, with the code as written, the only ways into searching are start-up and the two recovery paths, and both retune. The give-up branch contributes nothing because it is dead code (the sync_exhaustion finding).
- `RadioSizedForCellInvariant`: `Spec => []RadioSizedForCell`.
  - It is proved through the inductive invariant `RadioInv`, which adds `PcAgreesWithState`: the sync loop position only occurs in syncing, and the search position only in searching.
  - Without it, `SyncLocked` could seem to enter processing from a state whose radio was never sized.
- `Refinement`: `Spec => ImplementsReceiverStates`.
  - The initial state maps to `Machine!Init`.
  - Lemma `StepRefines` shows that every step, under `TypeOK` and `PcAgreesWithState`, is a `Machine!Next` step or leaves `<<state, mbsfnPrb>>` unchanged.
  - `SearchCellFound` and `SyncLocked` need `PcAgreesWithState` to know the state they start from. `CasBandwidthExtension` needs `TypeOK` for the new PRB count.
  - `SyncGiveUp` maps to `GiveUp` or to a stutter, whichever branch it takes; the proof does not depend on the wrap of `max_frames`.
- `SyncingLeftOnlyByLock`: `Spec => [][state = "syncing" /\ state' # "syncing" => state' = "processing"]_vars`.
  - This is the sync_exhaustion finding for every `MaxFrames` and every counter width wider than it: the give-up branch never returns to searching.
  - It rests on the lemma `PcAgreesInvariant` (`Spec => []PcAgreesWithState`, a fact about the model's position variable `pc`: no other step starts in syncing and leaves it) and on `UDecZero`.
- `ConfigurationNeverRefreshed`: once set, a processor's configured PRB count never changes. This is the cause of the stale_mbsfn_config finding, for every value of the constants.

`TelemetryProofs` proves, for every tick width and every non-zero interval:

- `TelemetryTypeCorrect`: `Spec => []TypeOK`.
- `SnapshotsNeverLateInvariant`: `Spec => []SnapshotsNeverLate`.
- `EarlySnapshotOnlyAtWrapProperty`: `Spec => EarlySnapshotOnlyAtWrap`. A record not `measurement_interval` subframes after the previous one is written only at the step where `tick` wraps to 0. Its step lemma `EarlyStep` uses `ModWrap`: an increment that reaches a multiple of n starts from remainder n - 1.

All three rest on the inductive invariant `TInv`: `sinceLast = tick % MeasurementInterval`. It holds because `tick` wraps to 0 and 0 is always due. Its step uses the lemmas `ModUnique` and `ModStep` on remainders. The fact that `2^TickWidth` is positive is the named assumption `ModulusAssumption`, which TLC evaluates, because the SMT backend has no facts about exponentiation.

The following stays with TLC:

- `ControlProgress` and `RestartEventuallyHonoured`: liveness under fairness is beyond TLAPS here;
- the violation runs: a counterexample is a single behaviour, which TLC exhibits. For two of them a theorem states the cause for every value of the constants (`SyncingLeftOnlyByLock`, `ConfigurationNeverRefreshed`).

## Not modelled

- Argument parsing, the config file parse, and logging set-up.
- The measurement record's contents and the file writer. They are pure output.
- The internals of Phy, SdrReader, Rrc, Gw, RestHandler and the frame processors. They are not in this repository's `src/`. Only their interface as `main()` uses it is modelled.
- `sdr.tune()`'s result, which the loop ignores. A failed tune is modelled as a successful one.

## Plan for later work

- **A file-mode run.** Run with `FileMode = TRUE`.
- **Late CAS results.** A CAS decode that finishes after the recovery's `phy.reset()` (hazard at line 615) needs the PHY's contract, which is outside `src/`.
- **Half-applied requests.** A retune between the two stores of `set_params()` (hazard at line 203) uses the new frequency with the old bandwidth. The model reaches this state, but no run states that it must not happen.
