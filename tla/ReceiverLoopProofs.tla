------------------------- MODULE ReceiverLoopProofs -------------------------
(***************************************************************************)
(* Proofs about ReceiverLoop for every value of its constants.             *)
(***************************************************************************)
EXTENDS ReceiverLoop, TLAPS

\* x + 1 modulo a positive n stays in 0 .. n - 1 (the tti and mb_idx wraps).
LEMMA ModSucc ==
  ASSUME NEW n \in Nat \ {0}, NEW x \in 0 .. n - 1
  PROVE  (x + 1) % n \in 0 .. n - 1
  OBVIOUS

\* A push onto a worker's queue keeps the queue length within its bound.
LEMMA PushType ==
  ASSUME NEW w \in Workers, pending \in [Workers -> 0 .. MaxQueued], Push(w)
  PROVE  pending' \in [Workers -> 0 .. MaxQueued]
  BY NumProcessorsAssumption, QueueAssumption DEF Push, Workers

\* Finishing a task on a worker with a queued task keeps the length in bounds.
LEMMA PopType ==
  ASSUME NEW w \in Workers, pending \in [Workers -> 0 .. MaxQueued],
         pending[w] > 0, pending' = [pending EXCEPT ![w] = @ - 1]
  PROVE  pending' \in [Workers -> 0 .. MaxQueued]
  BY NumProcessorsAssumption, QueueAssumption DEF Workers

\* The CAS processor and every MBSFN processor are workers of the pool.
LEMMA WorkerIds == Cas \in Workers /\ Processors \subseteq Workers
  BY NumProcessorsAssumption DEF Cas, Workers, Processors

\* The recovery path retunes to a radio configuration and goes searching.
LEMMA RecoverType ==
  ASSUME frequency \in Frequencies, bandwidth \in Bandwidths, Recover
  PROVE  sdr' \in Radios /\ mcch' \in BOOLEAN /\ state' \in States
  BY DEF Recover, Tune, Radios, Rates, States

\* Every step keeps the variables in their types.
THEOREM TypeCorrect == Spec => []TypeOK
<1>1. Init => TypeOK
  <2> SUFFICES ASSUME Init PROVE TypeOK
    OBVIOUS
  <2>1. sdr \in Radios
    BY FrequencyAssumption DEF Init, StartupRadios, Radios, Rates, Bandwidths
  <2>2. lock \in [Processors -> BOOLEAN] /\ pending \in [Workers -> 0 .. MaxQueued]
        /\ cfgPrb \in [Processors -> PrbSet \cup {0}]
    BY QueueAssumption DEF Init
  <2>3. maxFrames \in 0 .. MaxFrames /\ tti \in 0 .. TtiPeriod - 1
        /\ mbIdx \in Processors
    BY CounterAssumption, TtiAssumption, NumProcessorsAssumption
    DEF Init, Processors
  <2>4. QED
    BY <2>1, <2>2, <2>3, PrbAssumption, FrequencyAssumption
    DEF Init, TypeOK, States, Bandwidths
<1>2. TypeOK /\ [Next]_vars => TypeOK'
  <2> SUFFICES ASSUME TypeOK, [Next]_vars PROVE TypeOK'
    OBVIOUS
  <2> USE DEF restVars, ctlVars, envVars, TypeOK
  <2>1. CASE SetParamsFrequency \/ SetParamsBandwidth
    BY <2>1 DEF SetParamsFrequency, SetParamsBandwidth, Bandwidths
  <2>2. CASE SetParamsRaise
    BY <2>2 DEF SetParamsRaise
  <2>3. CASE SearchTop
    BY <2>3 DEF SearchTop, Tune, Radios, Rates
  <2>4. CASE SearchCellFound
    <3>1. PICK p \in PrbSet :
            LET prb == IF FileMode THEN FilePrb ELSE p IN
            /\ cellFreq' = sdr.freq
            /\ mbsfnPrb' = prb
            /\ phyPrb' = prb
            /\ IF FileMode
                 THEN UNCHANGED <<sdr, bandwidth>>
                 ELSE /\ bandwidth' = p
                      /\ Tune(frequency, p, p)
      BY <2>4 DEF SearchCellFound
    <3>2. cellFreq' \in Frequencies \cup {NoCell}
      BY <3>1 DEF Radios
    <3>3. mbsfnPrb' \in PrbSet \cup {0} /\ phyPrb' \in PrbSet
      BY <3>1, PrbAssumption
    <3>4. sdr' \in Radios /\ bandwidth' \in Bandwidths
      BY <3>1, FileModeAssumption DEF Tune, Radios, Rates, Bandwidths
    <3>5. QED
      BY <2>4, <3>2, <3>3, <3>4 DEF SearchCellFound, States
  <2>5. CASE SearchCellMissed
    BY <2>5 DEF SearchCellMissed
  <2>6. CASE SyncEnter
    <3>1. maxFrames' \in 0 .. MaxFrames
      BY <2>6, CounterAssumption DEF SyncEnter
    <3>2. QED
      BY <2>6, <3>1 DEF SyncEnter
  <2>7. CASE SyncAttempt
    BY <2>7, CounterAssumption DEF SyncAttempt
  <2>8. CASE SyncGiveUp
    BY <2>8, CounterAssumption DEF SyncGiveUp, States
  <2>9. CASE SyncLocked
    <3>1. maxFrames' \in 0 .. MaxFrames
      BY <2>9, CounterAssumption DEF SyncLocked
    <3>2. lock' \in [Processors -> BOOLEAN] /\ state' \in States
      BY <2>9 DEF SyncLocked, States
    <3>3. mbIdx' \in Processors /\ tti' \in 0 .. TtiPeriod - 1
      BY <2>9, NumProcessorsAssumption DEF SyncLocked, Processors
    <3>4. QED
      BY <2>9, <3>1, <3>2, <3>3 DEF SyncLocked
  <2>10. CASE CasDecode
    <3>1. pending' \in [Workers -> 0 .. MaxQueued]
      <4>1. Push(Cas)
        BY <2>10 DEF CasDecode
      <4>2. QED
        BY <4>1, WorkerIds, PushType
    <3>2. tti' \in 0 .. TtiPeriod - 1
      BY <2>10, ModSucc, TtiAssumption DEF CasDecode, NextTti
    <3>3. QED
      BY <2>10, <3>1, <3>2 DEF CasDecode
  <2>11. CASE CasBandwidthExtension
    <3>1. pending' \in [Workers -> 0 .. MaxQueued]
      <4>1. Push(Cas)
        BY <2>11 DEF CasBandwidthExtension
      <4>2. QED
        BY <4>1, WorkerIds, PushType
    <3>2. tti' \in 0 .. TtiPeriod - 1
      BY <2>11, ModSucc, TtiAssumption DEF CasBandwidthExtension, NextTti
    <3>3. sdr' \in Radios /\ bandwidth' \in Bandwidths /\ mbsfnPrb' \in PrbSet
      BY <2>11 DEF CasBandwidthExtension, Tune, Radios, Rates, Bandwidths
    <3>4. QED
      BY <2>11, <3>1, <3>2, <3>3 DEF CasBandwidthExtension, States
  <2>12. CASE CasLost
    <3>1. tti' \in 0 .. TtiPeriod - 1
      BY <2>12, ModSucc, TtiAssumption DEF CasLost, NextTti
    <3>2. sdr' \in Radios /\ mcch' \in BOOLEAN /\ state' \in States
      BY <2>12, RecoverType DEF CasLost
    <3>3. QED
      BY <2>12, <3>1, <3>2 DEF CasLost
  <2>13. CASE MbsfnDecode
    <3>1. pending' \in [Workers -> 0 .. MaxQueued]
      <4>1. mbIdx \in Workers /\ Push(mbIdx)
        BY <2>13, WorkerIds DEF MbsfnDecode
      <4>2. QED
        BY <4>1, PushType
    <3>2. tti' \in 0 .. TtiPeriod - 1 /\ mbIdx' \in Processors
      BY <2>13, ModSucc, TtiAssumption, NumProcessorsAssumption
      DEF MbsfnDecode, NextTti, Processors
    <3>3. lock' \in [Processors -> BOOLEAN]
      BY <2>13 DEF MbsfnDecode
    <3>4. cfgPrb' \in [Processors -> PrbSet \cup {0}]
      BY <2>13 DEF MbsfnDecode
    <3>5. QED
      BY <2>13, <3>1, <3>2, <3>3, <3>4 DEF MbsfnDecode
  <2>14. CASE MbsfnDiscard
    <3>1. tti' \in 0 .. TtiPeriod - 1 /\ mbIdx' \in Processors
      BY <2>14, ModSucc, TtiAssumption, NumProcessorsAssumption
      DEF MbsfnDiscard, NextTti, Processors
    <3>2. QED
      BY <2>14, <3>1 DEF MbsfnDiscard
  <2>15. CASE MbsfnLost
    <3>1. tti' \in 0 .. TtiPeriod - 1 /\ mbIdx' \in Processors
      BY <2>15, ModSucc, TtiAssumption, NumProcessorsAssumption
      DEF MbsfnLost, NextTti, Processors
    <3>2. sdr' \in Radios /\ mcch' \in BOOLEAN /\ state' \in States
      BY <2>15, RecoverType DEF MbsfnLost
    <3>3. lock' \in [Processors -> BOOLEAN]
      BY <2>15 DEF MbsfnLost
    <3>4. QED
      BY <2>15, <3>1, <3>2, <3>3 DEF MbsfnLost
  <2>16. CASE CompleteCas
    <3>1. pending' \in [Workers -> 0 .. MaxQueued]
      BY <2>16, PopType DEF CompleteCas, Cas, Workers
    <3>2. phyPrb' \in PrbSet /\ mcch' \in BOOLEAN
      BY <2>16 DEF CompleteCas
    <3>3. QED
      BY <2>16, <3>1, <3>2 DEF CompleteCas
  <2>17. CASE \E k \in Processors : CompleteMbsfn(k)
    <3>1. PICK k \in Processors : CompleteMbsfn(k)
      BY <2>17
    <3>2. pending' \in [Workers -> 0 .. MaxQueued]
      BY <3>1, PopType DEF CompleteMbsfn, Processors, Workers
    <3>3. lock' \in [Processors -> BOOLEAN]
      BY <3>1 DEF CompleteMbsfn
    <3>4. QED
      BY <3>1, <3>2, <3>3 DEF CompleteMbsfn
  <2>18. CASE UNCHANGED vars
    BY <2>18 DEF vars
  <2>19. QED
    BY <2>1, <2>2, <2>3, <2>4, <2>5, <2>6, <2>7, <2>8, <2>9, <2>10, <2>11,
       <2>12, <2>13, <2>14, <2>15, <2>16, <2>17, <2>18
    DEF Next, ControlStep, PoolStep, RestStep
<1>3. QED
  BY <1>1, <1>2, PTL DEF Spec

-----------------------------------------------------------------------------
\* A leaked MBSFN buffer lock (MbsfnLost locks without pushing a decode)
\* never survives into a processing session: SyncLocked's unlock_all()
\* clears every lock, and while processing a lock is only taken with a
\* push, and released with the task.  TypeOK is all the strengthening needed.
THEOREM NoLeakedLockInvariant == Spec => []NoLeakedLock
<1>1. Init => NoLeakedLock
  BY DEF Init, NoLeakedLock
<1>2. TypeOK /\ NoLeakedLock /\ [Next]_vars => NoLeakedLock'
  <2> SUFFICES ASSUME TypeOK, NoLeakedLock, [Next]_vars PROVE NoLeakedLock'
    OBVIOUS
  <2> USE DEF restVars, ctlVars, envVars, NoLeakedLock
  <2>1. CASE RestStep
    BY <2>1 DEF RestStep, SetParamsFrequency, SetParamsBandwidth,
                SetParamsRaise
  <2>2. CASE SearchTop \/ SearchCellFound \/ SearchCellMissed
    BY <2>2 DEF SearchTop, SearchCellFound, SearchCellMissed
  <2>3. CASE SyncEnter \/ SyncAttempt \/ SyncGiveUp
    BY <2>3 DEF SyncEnter, SyncAttempt, SyncGiveUp
  <2>4. CASE SyncLocked
    BY <2>4 DEF SyncLocked
  <2>5. CASE CasDecode
    BY <2>5, WorkerIds DEF CasDecode, Push, TypeOK, Processors, Cas
  <2>6. CASE CasBandwidthExtension \/ CasLost \/ MbsfnLost
    BY <2>6 DEF CasBandwidthExtension, CasLost, MbsfnLost, Recover
  <2>7. CASE MbsfnDecode
    BY <2>7, WorkerIds DEF MbsfnDecode, Push, TypeOK
  <2>8. CASE MbsfnDiscard
    BY <2>8 DEF MbsfnDiscard
  <2>9. CASE CompleteCas
    BY <2>9, WorkerIds DEF CompleteCas, TypeOK, Processors, Cas
  <2>10. CASE \E k \in Processors : CompleteMbsfn(k)
    BY <2>10, WorkerIds DEF CompleteMbsfn, TypeOK
  <2>11. CASE UNCHANGED vars
    BY <2>11 DEF vars
  <2>12. QED
    BY <2>1, <2>2, <2>3, <2>4, <2>5, <2>6, <2>7, <2>8, <2>9, <2>10, <2>11
    DEF Next, ControlStep, PoolStep
<1>3. QED
  BY <1>1, <1>2, TypeCorrect, PTL DEF Spec

-----------------------------------------------------------------------------
\* The unsigned decrement of max_frames at zero wraps to a non-zero value.
LEMMA UDecZero == UDec(0) # 0
  <1>1. 2^CounterWidth \in Nat /\ 2^CounterWidth > 1
    BY CounterAssumption, WidthAssumption
  <1>2. QED
    BY <1>1 DEF UDec

\* Cell search always runs at the search sample rate: start-up tunes to it,
\* every recovery path retunes to it, and the sync give-up path never
\* reaches searching because max_frames-- wraps (UDecZero).
THEOREM SearchAtSearchRateInvariant == Spec => []SearchAtSearchRate
<1>1. Init => SearchAtSearchRate
  BY DEF Init, StartupRadios, SearchAtSearchRate
<1>2. TypeOK /\ SearchAtSearchRate /\ [Next]_vars => SearchAtSearchRate'
  <2> SUFFICES ASSUME TypeOK, SearchAtSearchRate, [Next]_vars
               PROVE  SearchAtSearchRate'
    OBVIOUS
  <2> USE DEF restVars, ctlVars, envVars, SearchAtSearchRate
  <2>1. CASE RestStep
    BY <2>1 DEF RestStep, SetParamsFrequency, SetParamsBandwidth,
                SetParamsRaise
  <2>2. CASE SearchTop
    BY <2>2 DEF SearchTop, Tune
  <2>3. CASE SearchCellFound \/ SearchCellMissed
    BY <2>3 DEF SearchCellFound, SearchCellMissed
  <2>4. CASE SyncEnter \/ SyncAttempt \/ SyncLocked
    BY <2>4 DEF SyncEnter, SyncAttempt, SyncLocked
  <2>5. CASE SyncGiveUp
    BY <2>5, UDecZero DEF SyncGiveUp
  <2>6. CASE CasDecode \/ CasBandwidthExtension \/ MbsfnDecode \/ MbsfnDiscard
    BY <2>6 DEF CasDecode, CasBandwidthExtension, MbsfnDecode, MbsfnDiscard
  <2>7. CASE CasLost \/ MbsfnLost
    BY <2>7 DEF CasLost, MbsfnLost, Recover, Tune
  <2>8. CASE PoolStep
    BY <2>8 DEF PoolStep, CompleteCas, CompleteMbsfn
  <2>9. CASE UNCHANGED vars
    BY <2>9 DEF vars
  <2>10. QED
    BY <2>1, <2>2, <2>3, <2>4, <2>5, <2>6, <2>7, <2>8, <2>9
    DEF Next, ControlStep
<1>3. QED
  BY <1>1, <1>2, TypeCorrect, PTL DEF Spec

-----------------------------------------------------------------------------
\* The position inside an iteration agrees with the state it belongs to:
\* the sync loop is only entered from syncing, cell search from searching.
PcAgreesWithState ==
  /\ pc = "sync" => state = "syncing"
  /\ pc = "search" => state = "searching"

\* The strengthening of RadioSizedForCell that is preserved by every step.
RadioInv == RadioSizedForCell /\ PcAgreesWithState

\* Receiving from the air, syncing and processing always run with the SDR
\* sized for mbsfn_nof_prb: SearchCellFound and CasBandwidthExtension retune
\* together with setting it, and SyncLocked (reached only from syncing)
\* changes neither.
THEOREM RadioSizedForCellInvariant == Spec => []RadioSizedForCell
<1>1. Init => RadioInv
  BY DEF Init, RadioInv, RadioSizedForCell, PcAgreesWithState
<1>2. RadioInv /\ [Next]_vars => RadioInv'
  <2> SUFFICES ASSUME RadioInv, [Next]_vars PROVE RadioInv'
    OBVIOUS
  <2> USE DEF restVars, ctlVars, envVars, RadioInv, RadioSizedForCell,
              PcAgreesWithState
  <2>1. CASE RestStep
    BY <2>1 DEF RestStep, SetParamsFrequency, SetParamsBandwidth,
                SetParamsRaise
  <2>2. CASE SearchTop \/ SearchCellMissed
    BY <2>2 DEF SearchTop, SearchCellMissed
  <2>3. CASE SearchCellFound
    BY <2>3 DEF SearchCellFound, Tune
  <2>4. CASE SyncEnter \/ SyncAttempt \/ SyncGiveUp \/ SyncLocked
    BY <2>4 DEF SyncEnter, SyncAttempt, SyncGiveUp, SyncLocked
  <2>5. CASE CasDecode \/ MbsfnDecode \/ MbsfnDiscard
    BY <2>5 DEF CasDecode, MbsfnDecode, MbsfnDiscard, Processing
  <2>6. CASE CasBandwidthExtension
    BY <2>6 DEF CasBandwidthExtension, Tune, Processing
  <2>7. CASE CasLost \/ MbsfnLost
    BY <2>7 DEF CasLost, MbsfnLost, Recover, Processing
  <2>8. CASE PoolStep
    BY <2>8 DEF PoolStep, CompleteCas, CompleteMbsfn
  <2>9. CASE UNCHANGED vars
    BY <2>9 DEF vars
  <2>10. QED
    BY <2>1, <2>2, <2>3, <2>4, <2>5, <2>6, <2>7, <2>8, <2>9
    DEF Next, ControlStep
<1>3. QED
  BY <1>1, <1>2, PTL DEF Spec, RadioInv

\* The position inside an iteration agrees with the state in every
\* reachable state: nothing but SyncEnter sets pc to "sync" and nothing but
\* SearchTop sets it to "search", and both leave the state as it is.
LEMMA PcAgreesInvariant == Spec => []PcAgreesWithState
<1>1. Init => PcAgreesWithState
  BY DEF Init, PcAgreesWithState
<1>2. PcAgreesWithState /\ [Next]_vars => PcAgreesWithState'
  <2> SUFFICES ASSUME PcAgreesWithState, [Next]_vars
               PROVE  PcAgreesWithState'
    OBVIOUS
  <2> USE DEF restVars, ctlVars, envVars, PcAgreesWithState
  <2>1. CASE RestStep \/ PoolStep
    BY <2>1 DEF RestStep, SetParamsFrequency, SetParamsBandwidth,
                SetParamsRaise, PoolStep,
                CompleteCas, CompleteMbsfn
  <2>2. CASE SearchTop \/ SearchCellFound \/ SearchCellMissed
    BY <2>2 DEF SearchTop, SearchCellFound, SearchCellMissed
  <2>3. CASE SyncEnter \/ SyncAttempt \/ SyncGiveUp \/ SyncLocked
    BY <2>3 DEF SyncEnter, SyncAttempt, SyncGiveUp, SyncLocked
  <2>4. CASE CasDecode \/ CasBandwidthExtension \/ CasLost
    BY <2>4 DEF CasDecode, CasBandwidthExtension, CasLost, Recover, Processing
  <2>5. CASE MbsfnDecode \/ MbsfnDiscard \/ MbsfnLost
    BY <2>5 DEF MbsfnDecode, MbsfnDiscard, MbsfnLost, Recover, Processing
  <2>6. CASE UNCHANGED vars
    BY <2>6 DEF vars
  <2>7. QED
    BY <2>1, <2>2, <2>3, <2>4, <2>5, <2>6 DEF Next, ControlStep
<1>3. QED
  BY <1>1, <1>2, PTL DEF Spec

-----------------------------------------------------------------------------
\* The abstract state machine's variables, as the mapping computes them.
MachineVars == <<state, mbsfnPrb>>

\* Every step of the receiver loop is a step of ReceiverStates under the
\* mapping state <- state, prb <- mbsfnPrb, or leaves both unchanged.
LEMMA StepRefines ==
  ASSUME TypeOK, PcAgreesWithState, [Next]_vars
  PROVE  [Machine!Next]_MachineVars
<1> USE DEF restVars, ctlVars, envVars, MachineVars
<1>1. CASE RestStep \/ PoolStep
  BY <1>1 DEF RestStep, SetParamsFrequency, SetParamsBandwidth,
                SetParamsRaise, PoolStep,
              CompleteCas, CompleteMbsfn
<1>2. CASE SearchTop \/ SearchCellMissed \/ SyncEnter \/ SyncAttempt
  BY <1>2 DEF SearchTop, SearchCellMissed, SyncEnter, SyncAttempt
<1>3. CASE CasDecode \/ MbsfnDecode \/ MbsfnDiscard
  BY <1>3 DEF CasDecode, MbsfnDecode, MbsfnDiscard
<1>4. CASE SearchCellFound
  <2>1. state = "searching"
    BY <1>4 DEF SearchCellFound, PcAgreesWithState
  <2>2. mbsfnPrb' \in PrbSet
    BY <1>4, PrbAssumption, FileModeAssumption DEF SearchCellFound
  <2>3. QED
    BY <1>4, <2>1, <2>2 DEF SearchCellFound, Machine!Next, Machine!Found
<1>5. CASE SyncGiveUp
  <2>1. state = "syncing"
    BY <1>5 DEF SyncGiveUp, PcAgreesWithState
  <2>2. state' \in {"searching", "syncing"} /\ mbsfnPrb' = mbsfnPrb
    BY <1>5 DEF SyncGiveUp
  <2>3. QED
    BY <2>1, <2>2 DEF Machine!Next, Machine!GiveUp
<1>6. CASE SyncLocked
  <2>1. state = "syncing"
    BY <1>6 DEF SyncLocked, PcAgreesWithState
  <2>2. QED
    BY <1>6, <2>1 DEF SyncLocked, Machine!Next, Machine!Locked
<1>7. CASE CasBandwidthExtension
  BY <1>7 DEF CasBandwidthExtension, Processing, TypeOK, Machine!Next,
              Machine!Extend
<1>8. CASE CasLost \/ MbsfnLost
  BY <1>8 DEF CasLost, MbsfnLost, Recover, Processing, Machine!Next,
              Machine!Lost
<1>9. CASE UNCHANGED vars
  BY <1>9 DEF vars
<1>10. QED
  BY <1>1, <1>2, <1>3, <1>4, <1>5, <1>6, <1>7, <1>8, <1>9
  DEF Next, ControlStep

\* main()'s loop implements the abstract receiver state machine
\* ReceiverStates (the property the refinement run checks).
THEOREM Refinement == Spec => ImplementsReceiverStates
<1>1. Init => Machine!Init
  BY DEF Init, Machine!Init
<1>2. TypeOK /\ PcAgreesWithState /\ [Next]_vars => [Machine!Next]_MachineVars
  BY StepRefines
<1>3. QED
  BY <1>1, <1>2, TypeCorrect, PcAgreesInvariant, PTL
  DEF Spec, ImplementsReceiverStates, Machine!Spec, Machine!vars, MachineVars

-----------------------------------------------------------------------------
\* Once a cell is found, the loop leaves syncing only by locking on: for
\* every max_frames and every counter width wider than it, the give-up
\* branch (main.cpp:535-539) never returns to searching, because
\* max_frames-- > 0 has already wrapped max_frames when the test
\* max_frames == 0 runs.  The strengthening is PcAgreesWithState: the only
\* other step that could start in syncing is SearchCellFound, at pc search.
THEOREM SyncingLeftOnlyByLock ==
  Spec => [][state = "syncing" /\ state' # "syncing" => state' = "processing"]_vars
<1>1. PcAgreesWithState /\ [Next]_vars
        => (state = "syncing" /\ state' # "syncing" => state' = "processing")
  <2> SUFFICES ASSUME PcAgreesWithState, [Next]_vars,
                      state = "syncing", state' # "syncing"
               PROVE  state' = "processing"
    OBVIOUS
  <2> USE DEF restVars, ctlVars, envVars, PcAgreesWithState
  <2>1. CASE RestStep \/ PoolStep
    BY <2>1 DEF RestStep, SetParamsFrequency, SetParamsBandwidth,
                SetParamsRaise, PoolStep,
                CompleteCas, CompleteMbsfn
  <2>2. CASE SearchTop \/ SearchCellFound \/ SearchCellMissed
    BY <2>2 DEF SearchTop, SearchCellFound, SearchCellMissed
  <2>3. CASE SyncEnter \/ SyncAttempt \/ SyncLocked
    BY <2>3 DEF SyncEnter, SyncAttempt, SyncLocked
  <2>4. CASE SyncGiveUp
    <3>1. maxFrames = 0
      BY <2>4 DEF SyncGiveUp
    <3>2. state' = "syncing"
      BY <2>4, <3>1, UDecZero DEF SyncGiveUp
    <3>3. QED
      BY <3>2
  <2>5. CASE CasDecode \/ CasBandwidthExtension \/ CasLost
    BY <2>5 DEF CasDecode, CasBandwidthExtension, CasLost, Processing
  <2>6. CASE MbsfnDecode \/ MbsfnDiscard \/ MbsfnLost
    BY <2>6 DEF MbsfnDecode, MbsfnDiscard, MbsfnLost, Processing
  <2>7. CASE UNCHANGED vars
    BY <2>7 DEF vars
  <2>8. QED
    BY <2>1, <2>2, <2>3, <2>4, <2>5, <2>6, <2>7 DEF Next, ControlStep
<1>2. QED
  BY <1>1, PcAgreesInvariant, PTL DEF Spec

\* An MBSFN processor is configured once and never again: set_cell() and
\* configure_mbsfn() run only under !mbsfn_configured() (main.cpp:629), and
\* neither a bandwidth extension, a resync nor a recovery clears that
\* flag, so after SIB13 changes the MBSFN PRB count every processor keeps
\* the count of its first decode (the stale_mbsfn_config run shows one
\* decoding with it).
THEOREM ConfigurationNeverRefreshed ==
  Spec => [][\A k \in Processors : cfgPrb[k] # 0 => cfgPrb'[k] = cfgPrb[k]]_vars
<1>1. TypeOK /\ [Next]_vars
        => \A k \in Processors : cfgPrb[k] # 0 => cfgPrb'[k] = cfgPrb[k]
  <2> SUFFICES ASSUME TypeOK, [Next]_vars, NEW k \in Processors, cfgPrb[k] # 0
               PROVE  cfgPrb'[k] = cfgPrb[k]
    OBVIOUS
  <2>1. CASE MbsfnDecode
    <3>1. cfgPrb' = IF cfgPrb[mbIdx] = 0
                      THEN [cfgPrb EXCEPT ![mbIdx] = phyPrb] ELSE cfgPrb
      BY <2>1 DEF MbsfnDecode
    <3>2. QED
      BY <3>1 DEF TypeOK
  <2>2. CASE ~MbsfnDecode
    <3>1. UNCHANGED cfgPrb
      BY <2>2 DEF Next, ControlStep, PoolStep, RestStep, SetParamsFrequency, SetParamsBandwidth,
         SetParamsRaise, SearchTop, SearchCellFound, SearchCellMissed,
         SyncEnter, SyncAttempt, SyncGiveUp, SyncLocked, CasDecode,
         CasBandwidthExtension, CasLost, MbsfnDiscard, MbsfnLost,
         CompleteCas, CompleteMbsfn, vars, restVars, ctlVars, envVars
    <3>2. QED
      BY <3>1
  <2>3. QED
    BY <2>1, <2>2
<1>2. QED
  BY <1>1, TypeCorrect, PTL DEF Spec
=============================================================================
