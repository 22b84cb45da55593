--------------------------- MODULE ReceiverStates ---------------------------
(***************************************************************************)
(* What the receiver loop of main.cpp promises about its states, with no   *)
(* radio, PHY or threads: it starts searching; a cell found moves it to    *)
(* syncing with the cell's MBSFN PRB count; a sync lock moves it to        *)
(* processing; from processing it either loses the signal and searches     *)
(* again, or learns a different MBSFN PRB count and resyncs; syncing may   *)
(* give up and search again.  The PRB count changes only on the two steps  *)
(* that learn it.                                                          *)
(***************************************************************************)
CONSTANT PrbSet       \* PRB counts a cell may have

VARIABLES
  state,              \* searching, syncing or processing
  prb                 \* the MBSFN PRB count the receiver is set up for

vars == <<state, prb>>

Init ==
  /\ state = "searching"
  /\ prb = 0

\* A cell is found; its PRB count is learned.
Found ==
  /\ state = "searching"
  /\ state' = "syncing"
  /\ prb' \in PrbSet

\* Subframe synchronisation succeeds.
Locked ==
  /\ state = "syncing"
  /\ state' = "processing"
  /\ UNCHANGED prb

\* Synchronisation is given up.
GiveUp ==
  /\ state = "syncing"
  /\ state' = "searching"
  /\ UNCHANGED prb

\* A wider MBSFN PRB count is learned while processing: resync for it.
Extend ==
  /\ state = "processing"
  /\ state' = "syncing"
  /\ prb' \in PrbSet \ {prb}

\* The signal is lost while processing.
Lost ==
  /\ state = "processing"
  /\ state' = "searching"
  /\ UNCHANGED prb

Next == Found \/ Locked \/ GiveUp \/ Extend \/ Lost

Spec == Init /\ [][Next]_vars
=============================================================================
