------------------------------ MODULE Telemetry ------------------------------
(***************************************************************************)
(* The measurement cadence of the processing loop (src/src/main.cpp):      *)
(* measurement_interval = interval_secs * 1000, and a uint32 tick that is  *)
(* incremented once per processed subframe, a record being written when    *)
(* tick % measurement_interval == 0. The record's contents (CINR, MCS,     *)
(* BLER, BER per channel) are a passive read and are not modelled.         *)
(***************************************************************************)
EXTENDS Naturals

CONSTANTS
  IntervalSecs,   \* modem.measurement_file.interval_secs
  TickWidth       \* bit width of tick and measurement_interval (uint32)

ASSUME TelemetryAssumption ==
  /\ IntervalSecs \in Nat
  /\ TickWidth \in Nat \ {0}

Modulus == 2^TickWidth

\* 2^TickWidth is a positive natural (a fact of arithmetic, stated for the prover).
ASSUME ModulusAssumption == Modulus \in Nat \ {0}

\* measurement_interval *= 1000, in TickWidth-bit unsigned arithmetic.
MeasurementInterval == (IntervalSecs * 1000) % Modulus

\* A zero interval would make tick % measurement_interval divide by zero.
ASSUME IntervalAssumption == MeasurementInterval # 0

VARIABLES
  tick,        \* tick
  sinceLast,   \* subframes since the last record (or since the start)
  snapshot     \* whether the last subframe wrote a record

vars == <<tick, sinceLast, snapshot>>

Init ==
  /\ tick = 0
  /\ sinceLast = 0
  /\ snapshot = FALSE

\* Variant of Due that compares instead of taking the remainder.
DueOnce(t) == t = MeasurementInterval

\* Variant of Due that tests tick before its increment (the check and the
\* tick++ swapped).
DueBeforeIncrement(t) == (t - 1) % MeasurementInterval = 0

\* The cadence test on the incremented tick.
Due(t) == t % MeasurementInterval = 0

\* Variant of Subframe whose tick does not wrap at 2^TickWidth.
SubframeNoWrap ==
  /\ tick' = tick + 1
  /\ snapshot' = Due(tick')
  /\ sinceLast' = IF snapshot' THEN 0 ELSE sinceLast + 1

\* One iteration of the processing loop, decoded or discarded alike:
\* tick++, and a record when it is due.
Subframe ==
  /\ tick' = (tick + 1) % Modulus
  /\ snapshot' = Due(tick')
  /\ sinceLast' = IF snapshot' THEN 0 ELSE sinceLast + 1

Spec == Init /\ [][Subframe]_vars /\ WF_vars(Subframe)

TypeOK ==
  /\ tick \in 0 .. Modulus - 1
  /\ sinceLast \in Nat
  /\ snapshot \in BOOLEAN

\* No measurement is ever skipped: at most measurement_interval subframes
\* pass between two records, across the wrap of tick as well.
SnapshotsNeverLate == sinceLast < MeasurementInterval

\* A record is never written early except where tick wraps to 0: a
\* record that does not come measurement_interval subframes after the
\* previous one is the one written at the wrap of the uint32 tick.
EarlySnapshotOnlyAtWrap ==
  [][snapshot' => sinceLast + 1 = MeasurementInterval \/ tick' = 0]_vars

\* Records are exactly measurement_interval subframes apart (spec: "the
\* first snapshot fires at tick 5000, and every 5000 ticks thereafter").
SnapshotsEvenlySpaced ==
  [][snapshot' <=> sinceLast + 1 = MeasurementInterval]_vars
=============================================================================
