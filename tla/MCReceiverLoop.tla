--------------------------- MODULE MCReceiverLoop ---------------------------
(***************************************************************************)
(* Small instances of ReceiverLoop for TLC.                                *)
(***************************************************************************)
EXTENDS ReceiverLoop

CONSTANTS f1, f2, fDefault, bwInit, bwRest, srSearch, none

\* frequencies[0], frequencies[1] and the global default all differ.
MCFrequencies == {f1, f2, fDefault}
MCConfigFrequencies == <<f1, f2>>

\* The configured frequencies equal the global default: the start-up
\* retune question does not arise, only the API thread can change it.
MCOneFrequency == {fDefault, f1}
MCSameConfigFrequencies == <<fDefault, fDefault>>

\* One frequency everywhere: the runs about rates, locks and progress.
MCSingleConfig == <<f1, f1>>

\* CAS (25 PRB) and a wider MBSFN part (40 PRB, a 8 MHz carrier).
MCPrbSet == {25, 40}
=============================================================================
