---------------------- MODULE WrappingIntegers_proofs ----------------------
(***************************************************************************)
(* What wrap and unwrap guarantee for every width.                         *)
(***************************************************************************)
EXTENDS SequenceNumbers, TLAPS

\* Quotient and remainder of a natural number by Mod.
LEMMA DivMod ==
  ASSUME NEW x \in Nat
  PROVE  /\ x % Mod \in 0 .. Mod - 1
         /\ \E q \in Nat : x = q * Mod + (x % Mod)
<1>1. x % Mod \in 0 .. Mod - 1
  BY ModAssumption
<1>2. x \div Mod \in Nat /\ x = (x \div Mod) * Mod + (x % Mod)
  BY ModAssumption
<1> QED BY <1>1, <1>2

\* A remainder is determined by the residue class.
LEMMA ModUnique ==
  ASSUME NEW q \in Int, NEW r \in 0 .. Mod - 1, q * Mod + r \in Nat
  PROVE  (q * Mod + r) % Mod = r
  BY ModAssumption

\* Moving less than one turn from x moves its remainder by the same amount,
\* give or take one turn.
LEMMA ModShift ==
  ASSUME NEW x \in Nat, NEW d \in Int, x + d \in Nat, -Mod < d, d < Mod
  PROVE  (x + d) % Mod = IF (x % Mod) + d < 0 THEN (x % Mod) + d + Mod
                         ELSE IF (x % Mod) + d >= Mod THEN (x % Mod) + d - Mod
                         ELSE (x % Mod) + d
<1>1. PICK q \in Nat, r \in 0 .. Mod - 1 : x = q * Mod + r /\ r = x % Mod
  BY DivMod
<1>2. ASSUME NEW k \in Int, NEW s \in 0 .. Mod - 1, r + d = k * Mod + s
      PROVE  (x + d) % Mod = s
  <2>1. x + d = (q + k) * Mod + s
    <3>1. (q + k) * Mod = q * Mod + k * Mod
      BY ModAssumption
    <3>2. q * Mod \in Int /\ k * Mod \in Int /\ (q + k) * Mod \in Int
      BY ModAssumption
    <3> QED BY <3>1, <3>2, <1>1, <1>2
  <2> QED BY <2>1, ModUnique
<1>3. CASE r + d < 0
  <2>1. r + d = (-1) * Mod + (r + d + Mod) /\ r + d + Mod \in 0 .. Mod - 1
    BY <1>3, ModAssumption
  <2>2. (x + d) % Mod = r + d + Mod
    BY <2>1, <1>2
  <2> QED BY <2>2, <1>1, <1>3, ModAssumption
<1>4. CASE r + d >= Mod
  <2>1. r + d = 1 * Mod + (r + d - Mod) /\ r + d - Mod \in 0 .. Mod - 1
    BY <1>4, ModAssumption
  <2>2. (x + d) % Mod = r + d - Mod
    BY <2>1, <1>2
  <2> QED BY <2>2, <1>1, <1>4, ModAssumption
<1>5. CASE r + d >= 0 /\ r + d < Mod
  <2>1. r + d = 0 * Mod + (r + d) /\ r + d \in 0 .. Mod - 1
    BY <1>5, ModAssumption
  <2>2. (x + d) % Mod = r + d
    BY <2>1, <1>2
  <2> QED BY <2>2, <1>1, <1>5, ModAssumption
<1> QED BY <1>1, <1>3, <1>4, <1>5, ModAssumption

\* unwrap undoes wrap: a sequence number less than half a turn away from the
\* checkpoint comes back from its 32-bit form unchanged, whatever the initial
\* sequence number and however many turns both have made (unwrap,
\* wrapping_integers.cc).
THEOREM UnwrapRecovers ==
  ASSUME NEW x \in Nat, NEW near \in Nat, NEW zero \in WrappingInt32,
         2 * (x - near) < Mod, 2 * (near - x) < Mod, x < AbsMod
  PROVE  unwrap(wrap(x, zero), zero, near) = x
<1> DEFINE cp == wrap(near, zero)
           n == wrap(x, zero)
           d == x - near
<1>1. cp \in 0 .. Mod - 1 /\ n \in 0 .. Mod - 1
  BY DivMod, zero + near \in Nat, zero + x \in Nat DEF wrap, Plus, WrappingInt32
<1>2. n = IF cp + d < 0 THEN cp + d + Mod
          ELSE IF cp + d >= Mod THEN cp + d - Mod ELSE cp + d
  <2>1. zero + near \in Nat /\ d \in Int /\ (zero + near) + d \in Nat
        /\ -Mod < d /\ d < Mod /\ (zero + near) + d = zero + x
    BY ModAssumption DEF WrappingInt32
  <2> QED BY <2>1, ModShift DEF wrap, Plus
<1>3. CASE d > 0
  <2>1. diff_p(n, cp) = d /\ d < diff_n(n, cp)
    <3>1. CASE cp < n
      BY <1>1, <1>2, <1>3, <3>1, ModAssumption DEF diff_p, diff_n
    <3>2. CASE ~(cp < n)
      <4>1. n = cp + d - Mod
        BY <1>1, <1>2, <1>3, <3>2, ModAssumption
      <4>2. Mod - 1 - cp + n + 1 = 0 * Mod + d
        BY <4>1, <1>1, ModAssumption
      <4>3. (Mod - 1 - cp + n + 1) % Mod = d
        BY <4>2, <1>3, ModUnique, ModAssumption
      <4> QED BY <4>1, <4>3, <1>1, <3>2, ModAssumption DEF diff_p, diff_n
    <3> QED BY <3>1, <3>2
  <2>2. unwrap(n, zero, near) = (near + d) % AbsMod
    BY <2>1 DEF unwrap
  <2> QED BY <2>2, AbsModAssumption
<1>4. CASE d <= 0
  <2>1. diff_n(n, cp) = -d /\ ~(diff_p(n, cp) < -d)
    <3>1. CASE cp < n
      BY <1>1, <1>2, <1>4, <3>1, ModAssumption DEF diff_p, diff_n
    <3>2. CASE ~(cp < n)
      <4>1. n = cp + d
        BY <1>1, <1>2, <1>4, <3>2, ModAssumption
      <4>2. CASE d = 0
        <5>1. Mod - 1 - cp + n + 1 = 1 * Mod + 0
          BY <4>1, <4>2, <1>1, ModAssumption
        <5>2. (Mod - 1 - cp + n + 1) % Mod = 0
          BY <5>1, ModUnique, ModAssumption
        <5> QED BY <4>1, <4>2, <5>2, <1>1, <3>2, ModAssumption DEF diff_p, diff_n
      <4>3. CASE d < 0
        <5>1. Mod - 1 - cp + n + 1 = 0 * Mod + (Mod + d)
          BY <4>1, <1>1, ModAssumption
        <5>2. (Mod - 1 - cp + n + 1) % Mod = Mod + d
          BY <5>1, <4>3, ModUnique, ModAssumption
        <5> QED BY <4>1, <4>3, <5>2, <1>1, <3>2, ModAssumption DEF diff_p, diff_n
      <4> QED BY <4>2, <4>3, <1>4
    <3> QED BY <3>1, <3>2
  <2> QED BY <2>1, <1>4 DEF unwrap
<1> QED BY <1>3, <1>4

\* Every state of the walk of SequenceNumbers satisfies RoundTrip: the seqno
\* field of a segment is read back as the number the sender put in, as long
\* as both ends are within half a turn (unwrap, wrapping_integers.cc).
THEOREM SeqnoRoundTrip == Spec => []RoundTrip
<1>1. Init => TypeOK
  BY AbsModAssumption DEF Init, TypeOK, UInt64
<1>2. TypeOK /\ [Next]_vars => TypeOK'
  BY DEF TypeOK, Next, NextSeqno, NextCheckpoint, vars
<1>3. TypeOK => RoundTrip
  BY UnwrapRecovers, ModAssumption, AbsModAssumption DEF TypeOK, RoundTrip, Distance, UInt64
<1> QED BY <1>1, <1>2, <1>3, PTL DEF Spec
=============================================================================
