---------------------------- MODULE ReceiverLoop ----------------------------
(***************************************************************************)
(* The receiver control loop of the MBMS modem (src/src/main.cpp, main()): *)
(* the searching / syncing / processing state machine run by the main      *)
(* thread, the dispatch of every subframe to the CAS processor or to one   *)
(* of NumProcessors MBSFN processors, the decode tasks those dispatches    *)
(* push onto the thread pool, and the RESTful API thread calling           *)
(* set_params() concurrently with the loop.                                *)
(*                                                                         *)
(* Data is abstracted to what the properties tell apart: a centre          *)
(* frequency is a model value, a sample rate or filter bandwidth derived   *)
(* from a PRB count p (srsran_sampling_freq_hz(p), (p * 200000) * 1.2) is  *)
(* represented by p itself, the search sample rate by SearchRate.          *)
(***************************************************************************)
EXTENDS Naturals, FiniteSets

CONSTANTS
  NumProcessors,      \* thread_cnt: the number of MBSFN frame processors
  PrbSet,             \* PRB counts the PHY may report (cell search, SIB13)
  PhyInitPrb,         \* PRB count the Phy object is constructed with
  Frequencies,        \* centre frequencies (model values)
  DefaultFrequency,   \* initial value of the global `frequency`
  ConfigFrequencies,  \* <<frequencies[0], frequencies[1]>> from the config
  RestBandwidths,     \* filter bandwidths the RESTful API may request
  InitBandwidth,      \* initial value of the global `bandwidth`
  SearchRate,         \* search_sample_rate
  NoCell,             \* "not yet known / not configured"
  FileMode,           \* arguments.sample_file && arguments.file_bw
  FilePrb,            \* arguments.file_bw * 5
  MaxFrames,          \* max_frames: synchronisation attempts per round
  CounterWidth,       \* bit width of the unsigned max_frames
  TtiPeriod,          \* the TTI wraps modulo this value
  CasPeriod,          \* a CAS subframe every CasPeriod TTIs
  MaxQueued           \* bound: decode tasks queued per processor

ASSUME NumProcessorsAssumption == NumProcessors \in Nat \ {0}
ASSUME PrbAssumption ==
  /\ PrbSet \subseteq Nat \ {0}
  /\ PhyInitPrb \in PrbSet
  /\ FilePrb \in PrbSet
  /\ SearchRate \notin PrbSet
ASSUME FrequencyAssumption ==
  /\ DefaultFrequency \in Frequencies
  /\ ConfigFrequencies \in Frequencies \X Frequencies
  /\ NoCell \notin Frequencies \cup PrbSet
ASSUME BandwidthAssumption ==
  /\ InitBandwidth \notin PrbSet
  /\ RestBandwidths \cap PrbSet = {}
ASSUME FileModeAssumption == FileMode \in BOOLEAN
ASSUME CounterAssumption ==
  /\ MaxFrames \in Nat \ {0}
  /\ CounterWidth \in Nat \ {0}
ASSUME WidthAssumption == 2^CounterWidth > MaxFrames
ASSUME TtiAssumption ==
  /\ TtiPeriod \in Nat \ {0}
  /\ CasPeriod \in Nat \ {0}
ASSUME QueueAssumption == MaxQueued \in Nat \ {0}

Processors == 0 .. NumProcessors - 1
\* The CAS processor is the worker after the MBSFN processors.
Cas == NumProcessors
Workers == 0 .. NumProcessors
States == {"searching", "syncing", "processing"}
Bandwidths == {InitBandwidth} \cup RestBandwidths \cup PrbSet
Rates == {SearchRate} \cup PrbSet
Radios == [freq : Frequencies, rate : Rates, bw : Bandwidths]

\* Shared globals of main.cpp written by the RESTful API thread.
VARIABLES
  restart,      \* the restart flag
  frequency,    \* the global centre frequency
  bandwidth,    \* the global filter bandwidth
  restPc        \* where the API thread is inside set_params()

\* The control (main) thread.
VARIABLES
  state,        \* state_t state
  pc,           \* position inside one iteration of the main loop
  mbsfnPrb,     \* mbsfn_nof_prb
  maxFrames,    \* max_frames of the syncing block
  sfnSync,      \* sfn_sync of the syncing block
  tti,          \* tti
  mbIdx         \* mb_idx, the dispatch cursor

\* The collaborators: SDR, PHY, processors and the thread pool.
VARIABLES
  sdr,          \* what the SDR is tuned to
  cellFreq,     \* the frequency the PHY found its current cell on
  phyPrb,       \* phy.nof_mbsfn_prb()
  mcch,         \* phy.mcch_configured()
  lock,         \* the buffer lock of each MBSFN processor
  pending,      \* decode tasks pushed and not yet finished, per worker
  cfgPrb        \* MBSFN PRB count each processor was configured for (0: not yet)

restVars == <<restart, frequency, bandwidth, restPc>>
ctlVars == <<state, pc, mbsfnPrb, maxFrames, sfnSync, tti, mbIdx>>
envVars == <<sdr, cellFreq, phyPrb, mcch, lock, pending, cfgPrb>>
vars == <<restVars, ctlVars, envVars>>

-----------------------------------------------------------------------------
(* Helpers. *)

\* SdrReader::tune(frequency, rate, bandwidth, ...).
Tune(f, r, b) == sdr' = [freq |-> f, rate |-> r, bw |-> b]

\* `max_frames--` on an unsigned counter of CounterWidth bits.
UDec(x) == IF x = 0 THEN 2^CounterWidth - 1 ELSE x - 1

\* Phy::is_cas_subframe(tti): subframe 0 of every CasPeriod-th TTI.
IsCasSubframe(t) == t % CasPeriod = 0

\* The radio as the startup code leaves it: tuned to frequencies[0], then
\* to frequencies[1]; a failed tune is logged and leaves the previous one.
StartupRadios ==
  {[freq |-> ConfigFrequencies[i], rate |-> SearchRate, bw |-> InitBandwidth] :
     i \in {1, 2}}

Init ==
  /\ restart = FALSE
  /\ frequency = DefaultFrequency
  /\ bandwidth = InitBandwidth
  /\ restPc = "idle"
  /\ state = "searching"
  /\ pc = "top"
  /\ mbsfnPrb = 0
  /\ maxFrames = MaxFrames
  /\ sfnSync = FALSE
  /\ tti = 0
  /\ mbIdx = 0
  /\ sdr \in StartupRadios
  /\ cellFreq = NoCell
  /\ phyPrb = PhyInitPrb
  /\ mcch = FALSE
  /\ lock = [k \in Processors |-> FALSE]
  /\ pending = [w \in Workers |-> 0]
  /\ cfgPrb = [k \in Processors |-> 0]

-----------------------------------------------------------------------------
(* The RESTful API thread: set_params() stores frequency, then bandwidth, *)
(* then raises the restart flag, with no synchronisation with the loop.  *)

\* frequency = fc (main.cpp:202); the sample_rate store before it is
\* overwritten by the loop before every use and is not modelled.
SetParamsFrequency ==
  /\ restPc = "idle"
  /\ \E f \in Frequencies : frequency' = f
  /\ restPc' = "bandwidth"
  /\ UNCHANGED <<restart, bandwidth, ctlVars, envVars>>

\* bandwidth = bw, a separate store after the frequency (main.cpp:203).
SetParamsBandwidth ==
  /\ restPc = "bandwidth"
  /\ \E b \in RestBandwidths : bandwidth' = b
  /\ restPc' = "raise"
  /\ UNCHANGED <<restart, frequency, ctlVars, envVars>>

\* restart = true (main.cpp:209).
SetParamsRaise ==
  /\ restPc = "raise"
  /\ restart' = TRUE
  /\ restPc' = "idle"
  /\ UNCHANGED <<frequency, bandwidth, ctlVars, envVars>>

-----------------------------------------------------------------------------
(* Searching. *)

\* Top of the searching branch: apply a pending restart at the search rate.
SearchTop ==
  /\ state = "searching" /\ pc = "top"
  /\ IF restart THEN Tune(frequency, SearchRate, bandwidth)
                ELSE UNCHANGED sdr
  /\ pc' = "search"
  /\ UNCHANGED <<restVars, state, mbsfnPrb, maxFrames, sfnSync, tti, mbIdx,
                 cellFreq, phyPrb, mcch, lock, pending, cfgPrb>>

\* restart = false; cell search succeeds with p PRB; size the radio for the
\* cell (from the air) or keep the file rate and widen the MBSFN part.
SearchCellFound ==
  /\ pc = "search"
  /\ restart' = FALSE
  /\ \E p \in PrbSet :
       LET prb == IF FileMode THEN FilePrb ELSE p IN
       /\ cellFreq' = sdr.freq
       /\ mbsfnPrb' = prb
       /\ phyPrb' = prb
       /\ IF FileMode
            THEN UNCHANGED <<sdr, bandwidth>>
            ELSE /\ bandwidth' = p
                 /\ Tune(frequency, p, p)
  /\ state' = "syncing"
  /\ pc' = "top"
  /\ UNCHANGED <<frequency, restPc, maxFrames, sfnSync, tti, mbIdx,
                 mcch, lock, pending, cfgPrb>>

\* restart = false; cell search fails; sleep(1) and search again.
SearchCellMissed ==
  /\ pc = "search"
  /\ restart' = FALSE
  /\ pc' = "top"
  /\ UNCHANGED <<frequency, bandwidth, restPc, state, mbsfnPrb, maxFrames,
                 sfnSync, tti, mbIdx, envVars>>

-----------------------------------------------------------------------------
(* Syncing: while (!sfn_sync && max_frames-- > 0) synchronize_subframe(). *)

SyncEnter ==
  /\ state = "syncing" /\ pc = "top"
  /\ maxFrames' = MaxFrames
  /\ sfnSync' = FALSE
  /\ pc' = "sync"
  /\ UNCHANGED <<restVars, state, mbsfnPrb, tti, mbIdx, envVars>>

\* The condition holds: max_frames is decremented, one attempt is made.
SyncAttempt ==
  /\ pc = "sync" /\ ~sfnSync /\ maxFrames > 0
  /\ maxFrames' = maxFrames - 1
  /\ sfnSync' \in BOOLEAN
  /\ UNCHANGED <<restVars, state, pc, mbsfnPrb, tti, mbIdx, envVars>>

\* All attempts failed: the condition decrements max_frames past zero, and
\* the loop goes back to searching only if max_frames is then 0. The
\* block's locals go out of scope (reset to their declared values).
SyncGiveUp ==
  /\ pc = "sync" /\ ~sfnSync /\ maxFrames = 0
  /\ LET left == UDec(maxFrames) IN
       state' = IF left = 0 THEN "searching" ELSE "syncing"
  /\ maxFrames' = MaxFrames
  /\ pc' = "top"
  /\ UNCHANGED <<restVars, mbsfnPrb, sfnSync, tti, mbIdx, envVars>>

\* Variant of SyncLocked that forgets to unlock the processors.
SyncLockedNoUnlock ==
  /\ pc = "sync" /\ sfnSync
  /\ tti' \in 0 .. TtiPeriod - 1
  /\ state' = "processing"
  /\ mbIdx' = 0
  /\ maxFrames' = MaxFrames
  /\ sfnSync' = FALSE
  /\ pc' = "top"
  /\ UNCHANGED <<restVars, mbsfnPrb, sdr, cellFreq, phyPrb, mcch, lock,
                 pending, cfgPrb>>

\* Locked on: unlock every MBSFN processor, seed the TTI, go processing
\* (the processing branch then starts with mb_idx = 0).
SyncLocked ==
  /\ pc = "sync" /\ sfnSync
  /\ lock' = [k \in Processors |-> FALSE]
  /\ tti' \in 0 .. TtiPeriod - 1
  /\ state' = "processing"
  /\ mbIdx' = 0
  /\ maxFrames' = MaxFrames
  /\ sfnSync' = FALSE
  /\ pc' = "top"
  /\ UNCHANGED <<restVars, mbsfnPrb, sdr, cellFreq,
                 phyPrb, mcch, pending, cfgPrb>>

-----------------------------------------------------------------------------
(* Processing: one iteration of the inner loop per subframe.              *)

NextTti == (tti + 1) % TtiPeriod

\* Variant of Recover that goes back to searching without retuning.
RecoverNoRetune ==
  /\ UNCHANGED sdr
  /\ mcch' = FALSE
  /\ state' = "searching"

\* Frame retrieval failed or a restart is pending: retune to the search
\* rate, reset RRC and PHY, sleep(1), back to searching.
Recover ==
  /\ Tune(frequency, SearchRate, bandwidth)
  /\ mcch' = FALSE
  /\ state' = "searching"

Push(w) ==
  /\ pending[w] < MaxQueued
  /\ pending' = [pending EXCEPT ![w] = @ + 1]

Processing == state = "processing" /\ pc = "top"

\* CAS subframe, frame received, PHY agrees on the MBSFN width: decode.
CasDecode ==
  /\ Processing /\ IsCasSubframe(NextTti)
  /\ ~restart
  /\ Push(Cas)
  /\ phyPrb = mbsfnPrb
  /\ tti' = NextTti
  /\ UNCHANGED <<restVars, state, pc, mbsfnPrb, maxFrames, sfnSync, mbIdx,
                 sdr, cellFreq, phyPrb, mcch, lock, cfgPrb>>

\* Variant of CasBandwidthExtension without the test that the PHY's MBSFN
\* PRB count differs from mbsfn_nof_prb.
CasBandwidthExtensionAnyPrb ==
  /\ Processing /\ IsCasSubframe(NextTti)
  /\ ~restart
  /\ Push(Cas)
  /\ mbsfnPrb' = phyPrb
  /\ bandwidth' = mbsfnPrb'
  /\ Tune(frequency, mbsfnPrb', bandwidth')
  /\ state' = "syncing"
  /\ tti' = NextTti
  /\ UNCHANGED <<restart, frequency, restPc, pc, maxFrames, sfnSync, mbIdx,
                 cellFreq, phyPrb, mcch, lock, cfgPrb>>

\* Variant of CasBandwidthExtension that computes the new sample rate
\* from mbsfn_nof_prb before updating it.
CasBandwidthExtensionStaleRate ==
  /\ Processing /\ IsCasSubframe(NextTti)
  /\ ~restart
  /\ Push(Cas)
  /\ phyPrb # mbsfnPrb
  /\ mbsfnPrb' = phyPrb
  /\ bandwidth' = mbsfnPrb'
  /\ Tune(frequency, mbsfnPrb, bandwidth')
  /\ state' = "syncing"
  /\ tti' = NextTti
  /\ UNCHANGED <<restart, frequency, restPc, pc, maxFrames, sfnSync, mbIdx,
                 cellFreq, phyPrb, mcch, lock, cfgPrb>>

\* CAS subframe, frame received, PHY reports a wider MBSFN part: decode,
\* retune the SDR for it, reconfigure the PHY and go back to syncing.
CasBandwidthExtension ==
  /\ Processing /\ IsCasSubframe(NextTti)
  /\ ~restart
  /\ Push(Cas)
  /\ phyPrb # mbsfnPrb
  /\ mbsfnPrb' = phyPrb
  /\ bandwidth' = mbsfnPrb'
  /\ Tune(frequency, mbsfnPrb', bandwidth')
  /\ state' = "syncing"
  /\ tti' = NextTti
  /\ UNCHANGED <<restart, frequency, restPc, pc, maxFrames, sfnSync, mbIdx,
                 cellFreq, phyPrb, mcch, lock, cfgPrb>>

\* CAS subframe with a pending restart or a failed frame retrieval.
CasLost ==
  /\ Processing /\ IsCasSubframe(NextTti)
  /\ Recover
  /\ tti' = NextTti
  /\ UNCHANGED <<restVars, pc, mbsfnPrb, maxFrames, sfnSync, mbIdx,
                 cellFreq, phyPrb, lock, pending, cfgPrb>>

\* MBSFN subframe: lock processor mb_idx (waiting while it is locked),
\* receive the frame; with the MCCH known and an MBSFN subframe, configure
\* the processor once (if !mbsfn_configured(): set_cell with the PHY cell's
\* MBSFN PRB count) and push its decode, keeping the lock.
MbsfnDecode ==
  LET k == mbIdx IN
  /\ Processing /\ ~IsCasSubframe(NextTti)
  /\ ~restart
  /\ ~lock[k]
  /\ mcch
  /\ Push(k)
  /\ lock' = [lock EXCEPT ![k] = TRUE]
  /\ cfgPrb' = IF cfgPrb[k] = 0 THEN [cfgPrb EXCEPT ![k] = phyPrb] ELSE cfgPrb
  /\ mbIdx' = (mbIdx + 1) % NumProcessors
  /\ tti' = NextTti
  /\ UNCHANGED <<restVars, state, pc, mbsfnPrb, maxFrames, sfnSync,
                 sdr, cellFreq, phyPrb, mcch>>

\* Variant of MbsfnDiscard that advances the cursor without the modulo.
MbsfnDiscardNoWrap ==
  LET k == mbIdx IN
  /\ Processing /\ ~IsCasSubframe(NextTti)
  /\ ~restart
  /\ ~lock[k]
  /\ mbIdx' = mbIdx + 1
  /\ tti' = NextTti
  /\ UNCHANGED <<restVars, state, pc, mbsfnPrb, maxFrames, sfnSync, envVars>>

\* MBSFN subframe received but not decodable yet: discard and unlock.
MbsfnDiscard ==
  LET k == mbIdx IN
  /\ Processing /\ ~IsCasSubframe(NextTti)
  /\ ~restart
  /\ ~lock[k]
  /\ mbIdx' = (mbIdx + 1) % NumProcessors
  /\ tti' = NextTti
  /\ UNCHANGED <<restVars, state, pc, mbsfnPrb, maxFrames, sfnSync, envVars>>

\* MBSFN subframe with a pending restart (the processor is not locked), or
\* a failed retrieval into a processor just locked (the lock is kept).
MbsfnLost ==
  LET k == mbIdx IN
  /\ Processing /\ ~IsCasSubframe(NextTti)
  /\ \/ restart /\ UNCHANGED lock
     \/ ~restart /\ ~lock[k] /\ lock' = [lock EXCEPT ![k] = TRUE]
  /\ Recover
  /\ mbIdx' = (mbIdx + 1) % NumProcessors
  /\ tti' = NextTti
  /\ UNCHANGED <<restVars, pc, mbsfnPrb, maxFrames, sfnSync,
                 cellFreq, phyPrb, pending, cfgPrb>>

-----------------------------------------------------------------------------
(* The thread pool runs the pushed tasks, in any order.                    *)

\* The CAS task decodes a subframe; the decode may deliver SIB13 (MCCH
\* configuration and the MBSFN width) to the PHY.
CompleteCas ==
  /\ pending[Cas] > 0
  /\ pending' = [pending EXCEPT ![Cas] = @ - 1]
  /\ \/ UNCHANGED <<mcch, phyPrb>>
     \/ mcch' = TRUE /\ phyPrb' \in PrbSet
  /\ UNCHANGED <<restVars, ctlVars, sdr, cellFreq, lock, cfgPrb>>

\* Variant of CompleteMbsfn whose task does not release the lock.
CompleteMbsfnKeepLock(k) ==
  /\ pending[k] > 0
  /\ pending' = [pending EXCEPT ![k] = @ - 1]
  /\ UNCHANGED <<restVars, ctlVars, sdr, cellFreq, phyPrb, mcch, lock, cfgPrb>>

\* An MBSFN task decodes its processor's buffer and releases its lock.
CompleteMbsfn(k) ==
  /\ pending[k] > 0
  /\ pending' = [pending EXCEPT ![k] = @ - 1]
  /\ lock' = [lock EXCEPT ![k] = FALSE]
  /\ UNCHANGED <<restVars, ctlVars, sdr, cellFreq, phyPrb, mcch, cfgPrb>>

-----------------------------------------------------------------------------

ControlStep ==
  \/ SearchTop \/ SearchCellFound \/ SearchCellMissed
  \/ SyncEnter \/ SyncAttempt \/ SyncGiveUp \/ SyncLocked
  \/ CasDecode \/ CasBandwidthExtension \/ CasLost
  \/ MbsfnDecode \/ MbsfnDiscard \/ MbsfnLost

PoolStep == CompleteCas \/ \E k \in Processors : CompleteMbsfn(k)

RestStep == SetParamsFrequency \/ SetParamsBandwidth \/ SetParamsRaise

Next == ControlStep \/ PoolStep \/ RestStep

\* The main thread and the pool threads are scheduled; the API thread only
\* acts when a request arrives.
Fairness ==
  /\ WF_vars(ControlStep)
  /\ WF_vars(CompleteCas)
  /\ \A k \in Processors : WF_vars(CompleteMbsfn(k))

Spec == Init /\ [][Next]_vars /\ Fairness

-----------------------------------------------------------------------------
(* Properties. *)

TypeOK ==
  /\ restart \in BOOLEAN
  /\ frequency \in Frequencies
  /\ bandwidth \in Bandwidths
  /\ restPc \in {"idle", "bandwidth", "raise"}
  /\ state \in States
  /\ pc \in {"top", "search", "sync"}
  /\ mbsfnPrb \in PrbSet \cup {0}
  /\ maxFrames \in 0 .. MaxFrames
  /\ sfnSync \in BOOLEAN
  /\ tti \in 0 .. TtiPeriod - 1
  /\ mbIdx \in Processors
  /\ sdr \in Radios
  /\ cellFreq \in Frequencies \cup {NoCell}
  /\ phyPrb \in PrbSet
  /\ mcch \in BOOLEAN
  /\ lock \in [Processors -> BOOLEAN]
  /\ pending \in [Workers -> 0 .. MaxQueued]
  /\ cfgPrb \in [Processors -> PrbSet \cup {0}]

\* While processing, every locked MBSFN processor has a decode in flight
\* that will release it: a lock leaked by a failed frame retrieval
\* (MbsfnLost) never survives into the next processing session, so the
\* main thread never waits forever in get_rx_buffer_and_lock().
NoLeakedLock ==
  state = "processing" => \A k \in Processors : lock[k] => pending[k] > 0

\* Cell search always runs at the search sample rate: start-up tunes to
\* it, and both recovery paths (main.cpp:612, 654) retune to it before
\* going back to searching.  (The sync give-up branch at 536 never
\* reaches searching: max_frames-- has wrapped.)
SearchAtSearchRate ==
  state = "searching" => sdr.rate = SearchRate

\* Receiving from the air, whenever the loop syncs or processes, the SDR's
\* sample rate and filter are the ones computed for mbsfn_nof_prb: the
\* retune after cell search and after a bandwidth extension are never
\* skipped or computed from a stale PRB count.
RadioSizedForCell ==
  ~FileMode /\ state \in {"syncing", "processing"} =>
     /\ sdr.rate = mbsfnPrb
     /\ sdr.bw = mbsfnPrb

\* The loop's states and mbsfn_nof_prb, seen through ReceiverStates: the
\* refinement mapping is the identity on state and on the PRB count.
Machine == INSTANCE ReceiverStates WITH prb <- mbsfnPrb

\* The receiver loop implements the abstract state machine: every step of
\* main() either is one of its transitions or leaves state and
\* mbsfn_nof_prb alone (a bandwidth extension always changes the count,
\* and syncing and processing are only entered along its arrows).
ImplementsReceiverStates == Machine!Spec

\* A parameter change requested through the RESTful API is eventually
\* acted on: once set_params() has raised restart, the loop eventually
\* reaches the cell search that consumes it (restart = false).
RestartEventuallyHonoured == restart ~> ~restart

\* Every MBSFN decode runs on a processor configured for the PHY's current
\* cell: the MBSFN PRB count a processor was set up with (once, on its
\* first decode) is the one of the cell being received.
MbsfnDecodeWithCurrentCell ==
  [][MbsfnDecode => cfgPrb'[mbIdx] = phyPrb]_vars

\* The CAS processor is never reconfigured under a running decode: the two
\* cas_processor.set_cell() calls (sync success, bandwidth extension) happen
\* only when no CAS decode task is queued or running.
CasCellSetWhileIdle ==
  [][(SyncLocked \/ CasBandwidthExtension) => pending'[Cas] = 0]_vars

\* The main thread never blocks forever: it always takes another step.
ControlProgress == []<><<ControlStep>>_vars

\* Receiving from the air, once no request is pending the radio is tuned
\* to the frequency the current cell was found on.
CellFrequencyConsistent ==
  ~FileMode /\ state \in {"syncing", "processing"}
            /\ ~restart /\ restPc = "idle" => sdr.freq = cellFreq

\* MaxFrames failed synchronisation attempts take the loop back to
\* searching (spec: "200 consecutive failed attempts always returns to
\* Searching").
SyncExhaustionReturnsToSearching ==
  [][SyncGiveUp => state' = "searching"]_vars

\* A processor whose buffer is being decoded stays locked until the decode
\* finishes, so no frame is written into it mid-decode.
DecodingBufferLocked ==
  \A k \in Processors : pending[k] > 0 => lock[k]

\* At most one decode of the (unlocked) CAS buffer is in flight at a time.
CasSingleDecode == pending[Cas] <= 1

=============================================================================
