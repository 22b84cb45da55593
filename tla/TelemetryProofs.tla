--------------------------- MODULE TelemetryProofs ---------------------------
(***************************************************************************)
(* Proofs about Telemetry for every tick width and interval.              *)
(***************************************************************************)
EXTENDS Telemetry, TLAPS

\* The counter modulus 2^TickWidth is a positive natural.
LEMMA ModulusPositive == Modulus \in Nat \ {0}
  BY ModulusAssumption

\* The interval, computed modulo 2^TickWidth and non-zero, is positive.
LEMMA IntervalPositive == MeasurementInterval \in Nat \ {0}
  BY ModulusPositive, TelemetryAssumption, IntervalAssumption
  DEF MeasurementInterval

\* The remainder of n * q + r is r, for r in 0 .. n - 1.
LEMMA ModUnique ==
  ASSUME NEW n \in Nat \ {0}, NEW q \in Nat, NEW r \in 0 .. n - 1
  PROVE  (n * q + r) % n = r
  OBVIOUS

\* Incrementing x either makes it a multiple of n or adds one to x % n.
LEMMA ModStep ==
  ASSUME NEW n \in Nat \ {0}, NEW x \in Nat, (x + 1) % n # 0
  PROVE  (x + 1) % n = (x % n) + 1
<1> DEFINE q == x \div n
<1> DEFINE r == x % n
<1>1. q \in Nat /\ r \in 0 .. n - 1 /\ x = n * q + r
  OBVIOUS
<1>2. CASE r + 1 < n
  <2>1. x + 1 = n * q + (r + 1)
    BY <1>1
  <2>2. QED
    BY <1>1, <1>2, <2>1, ModUnique
<1>3. CASE r + 1 = n
  <2>1. x + 1 = n * (q + 1) + 0
    BY <1>1, <1>3
  <2>2. (n * (q + 1) + 0) % n = 0
    <3>1. q + 1 \in Nat /\ 0 \in 0 .. n - 1
      BY <1>1
    <3>2. QED
      BY <3>1, ModUnique
  <2>3. (x + 1) % n = 0
    BY <2>1, <2>2
  <2>4. QED
    BY <2>3
<1>4. QED
  BY <1>1, <1>2, <1>3

\* An increment that reaches a multiple of n starts from remainder n - 1.
LEMMA ModWrap ==
  ASSUME NEW n \in Nat \ {0}, NEW x \in Nat, (x + 1) % n = 0
  PROVE  (x % n) + 1 = n
<1> DEFINE q == x \div n
<1> DEFINE r == x % n
<1>1. q \in Nat /\ r \in 0 .. n - 1 /\ x = n * q + r
  OBVIOUS
<1>2. SUFFICES ASSUME r + 1 < n PROVE FALSE
  BY <1>1
<1>3. x + 1 = n * q + (r + 1) /\ r + 1 \in 0 .. n - 1
  BY <1>1, <1>2
<1>4. (x + 1) % n = r + 1
  BY <1>1, <1>3, ModUnique
<1>5. QED
  BY <1>1, <1>4

\* The strengthening: the subframes since the last record are exactly the
\* remainder of tick, because tick wraps to 0 and 0 is always due.
TInv ==
  /\ TypeOK
  /\ sinceLast = tick % MeasurementInterval

\* Every step keeps tick within its width and the count equal to the
\* remainder of tick (the record test at main.cpp:666 is the only reset).
LEMMA TInvInductive == TInv /\ [Subframe]_vars => TInv'
<1> SUFFICES ASSUME TInv, [Subframe]_vars PROVE TInv'
  OBVIOUS
<1> DEFINE MI == MeasurementInterval
<1>1. MI \in Nat \ {0} /\ Modulus \in Nat \ {0}
  BY IntervalPositive, ModulusPositive
<1>2. TypeOK
  BY DEF TInv
<1>3. sinceLast = tick % MI
  BY DEF TInv
<1>4. ASSUME tick' \in 0 .. Modulus - 1, sinceLast' \in Nat,
             snapshot' \in BOOLEAN, sinceLast' = tick' % MI
      PROVE  TInv'
  BY <1>4 DEF TInv, TypeOK
<1>5. CASE UNCHANGED vars
  BY <1>2, <1>3, <1>4, <1>5 DEF vars, TypeOK
<1>6. CASE Subframe /\ tick + 1 < Modulus
  <2>1. tick' = tick + 1 /\ tick' \in 0 .. Modulus - 1
    BY <1>1, <1>2, <1>6 DEF Subframe, TypeOK
  <2>2. CASE Due(tick')
    <3>1. snapshot' = TRUE /\ sinceLast' = 0
      BY <1>6, <2>2 DEF Subframe
    <3>2. tick' % MI = 0
      BY <2>2 DEF Due
    <3>3. QED
      BY <1>4, <2>1, <3>1, <3>2
  <2>3. CASE ~Due(tick')
    <3>1. (tick + 1) % MI # 0
      BY <2>1, <2>3 DEF Due
    <3>2. tick \in Nat
      BY <1>2 DEF TypeOK
    <3>3. (tick + 1) % MI = (tick % MI) + 1
      BY <1>1, <3>1, <3>2, ModStep
    <3>4. snapshot' = FALSE /\ sinceLast' = sinceLast + 1
      BY <1>6, <2>3 DEF Subframe
    <3>5. sinceLast' = tick' % MI
      BY <1>3, <2>1, <3>3, <3>4
    <3>6. sinceLast' \in Nat
      BY <1>2, <3>4 DEF TypeOK
    <3>7. QED
      BY <1>4, <2>1, <3>4, <3>5, <3>6
  <2>4. QED
    BY <2>2, <2>3
<1>7. CASE Subframe /\ tick + 1 = Modulus
  <2>1. tick' = 0
    <3>1. Modulus % Modulus = 0
      <4>1. Modulus * 1 + 0 = Modulus /\ 0 \in 0 .. Modulus - 1 /\ 1 \in Nat
        BY <1>1
      <4>2. QED
        BY <1>1, <4>1, ModUnique
    <3>2. QED
      BY <1>7, <3>1 DEF Subframe
  <2>2. Due(tick')
    BY <1>1, <2>1 DEF Due
  <2>3. snapshot' = TRUE /\ sinceLast' = 0
    BY <1>7, <2>2 DEF Subframe
  <2>4. 0 % MI = 0
    BY <1>1
  <2>5. QED
    BY <1>1, <1>4, <2>1, <2>3, <2>4
<1>8. QED
  BY <1>1, <1>2, <1>5, <1>6, <1>7 DEF TypeOK

\* The initial state (tick = 0, nothing counted) satisfies the strengthening.
LEMMA InitTInv == Init => TInv
<1> SUFFICES ASSUME Init PROVE TInv
  OBVIOUS
<1>1. tick \in 0 .. Modulus - 1
  BY ModulusPositive DEF Init
<1>2. 0 % MeasurementInterval = 0
  BY IntervalPositive
<1>3. QED
  BY <1>1, <1>2 DEF Init, TInv, TypeOK

\* Every behaviour keeps tick, the count and the flag in their types.
THEOREM TelemetryTypeCorrect == Spec => []TypeOK
<1>1. Init => TInv
  BY InitTInv
<1>2. QED
  BY <1>1, TInvInductive, PTL DEF Spec, TInv

\* No measurement record is ever skipped: fewer than measurement_interval
\* subframes pass between two records, across the wrap of the uint32 tick.
THEOREM SnapshotsNeverLateInvariant == Spec => []SnapshotsNeverLate
<1>1. Init => TInv
  BY InitTInv
<1>2. TInv => SnapshotsNeverLate
  BY IntervalPositive DEF TInv, TypeOK, SnapshotsNeverLate
<1>3. QED
  BY <1>1, <1>2, TInvInductive, PTL DEF Spec

\* Each step that writes a record either comes measurement_interval
\* subframes after the previous record or is the step where tick wraps.
LEMMA EarlyStep ==
  TInv /\ Subframe /\ snapshot' => sinceLast + 1 = MeasurementInterval \/ tick' = 0
<1> SUFFICES ASSUME TInv, Subframe, snapshot'
             PROVE  sinceLast + 1 = MeasurementInterval \/ tick' = 0
  OBVIOUS
<1> DEFINE MI == MeasurementInterval
<1>1. MI \in Nat \ {0} /\ Modulus \in Nat \ {0}
  BY IntervalPositive, ModulusPositive
<1>2. tick \in 0 .. Modulus - 1
  BY DEF TInv, TypeOK
<1>3. sinceLast = tick % MI
  BY DEF TInv
<1>4. CASE tick + 1 < Modulus
  <2>1. tick' = tick + 1
    BY <1>1, <1>2, <1>4 DEF Subframe
  <2>2. (tick + 1) % MI = 0
    BY <2>1 DEF Subframe, Due
  <2>3. tick \in Nat
    BY <1>2
  <2>4. (tick % MI) + 1 = MI
    BY <1>1, <2>2, <2>3, ModWrap, Zenon
  <2>5. QED
    BY <1>3, <2>4
<1>5. CASE tick + 1 = Modulus
  <2>1. Modulus % Modulus = 0
    <3>1. Modulus * 1 + 0 = Modulus /\ 0 \in 0 .. Modulus - 1 /\ 1 \in Nat
      BY <1>1
    <3>2. QED
      BY <1>1, <3>1, ModUnique
  <2>2. QED
    BY <1>5, <2>1 DEF Subframe
<1>6. QED
  BY <1>1, <1>2, <1>4, <1>5

\* A record is written early only at the wrap of the uint32 tick
\* (main.cpp:665-666): everywhere else records are exactly
\* measurement_interval subframes apart.
THEOREM EarlySnapshotOnlyAtWrapProperty == Spec => EarlySnapshotOnlyAtWrap
<1>1. TInv /\ [Subframe]_vars
        => [snapshot' => sinceLast + 1 = MeasurementInterval \/ tick' = 0]_vars
  BY EarlyStep
<1>2. QED
  BY <1>1, InitTInv, TInvInductive, PTL DEF Spec, EarlySnapshotOnlyAtWrap
=============================================================================
