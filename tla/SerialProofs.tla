---------------------------- MODULE SerialProofs ----------------------------
(***************************************************************************)
(* What serial arithmetic guarantees for every size of the serial space.   *)
(* The difficulty is the modulus: MOD is not a number the provers know, so *)
(* residues are brought back to sums first.                                *)
(***************************************************************************)
EXTENDS Serial, TLAPS

\* A serial is its own residue.
LEMMA ModuloOfSerial ==
  ASSUME NEW s \in Serials
  PROVE  s % MOD = s
BY SerialAssumption DEF Serials, MOD

\* A residue is found by any quotient that leaves a remainder below m.
LEMMA ModuloOfSum ==
  ASSUME NEW s \in Int, NEW k \in Int, NEW m \in Nat \ {0}, 0 <= s, s < m
  PROVE  (s + k * m) % m = s
<1> DEFINE d == s + k * m
           q == d \div m
           r == d % m
<1>1. /\ q \in Int
      /\ r \in Int
      /\ d = m * q + r
      /\ 0 <= r
      /\ r < m
  <2>1. d \in Int
    OBVIOUS
  <2> HIDE DEF d
  <2> QED BY <2>1
<1>2. m * (q - k) = s - r
  <2>1. m * (q - k) = m * q - m * k
    BY <1>1
  <2>2. m * q = s + k * m - r
    BY <1>1
  <2>3. k * m = m * k
    OBVIOUS
  <2> HIDE DEF q, r
  <2> QED BY <1>1, <2>1, <2>2, <2>3
<1>3. q - k = 0
  <2>1. CASE q - k >= 1
    <3>1. m * (q - k) >= m
      BY <1>1, <2>1
    <3> QED BY <1>1, <1>2, <3>1
  <2>2. CASE q - k <= -1
    <3>1. m * (q - k) <= -m
      BY <1>1, <2>2
    <3> QED BY <1>1, <1>2, <3>1
  <2> QED BY <1>1, <2>1, <2>2
<1>4. m * (q - k) = 0
  BY <1>3
<1> QED BY <1>1, <1>2, <1>4

\* The distance between two serials, as a case distinction.
LEMMA DistanceCases ==
  ASSUME NEW a \in Serials, NEW b \in Serials
  PROVE  Distance(a, b) = IF b >= a THEN b - a ELSE b - a + MOD
<1>1. MOD \in Nat \ {0} /\ a \in 0 .. MOD - 1 /\ b \in 0 .. MOD - 1
  BY SerialAssumption DEF Serials, MOD
<1>2. CASE b >= a
  BY <1>1, <1>2 DEF Distance
<1>3. CASE b < a
  <2> DEFINE s == b - a + MOD
  <2>1. s + (-1) * MOD = b - a
    BY <1>1
  <2>2. 0 <= s /\ s < MOD /\ s \in Int /\ -1 \in Int
    BY <1>1, <1>3
  <2>3. (s + (-1) * MOD) % MOD = s
    <3> HIDE DEF s
    <3> QED BY <1>1, <2>2, ModuloOfSum
  <2>4. (b - a) % MOD = s
    BY <2>1, <2>3
  <2> QED BY <1>1, <1>3, <2>4 DEF Distance
<1> QED BY <1>1, <1>2, <1>3

\* compare of two serials as a case distinction without residues.
LEMMA CompareCases ==
  ASSUME NEW a \in Serials, NEW b \in Serials
  PROVE  LET d == IF b >= a THEN b - a ELSE b - a + MOD
         IN  Compare(a, b) = IF a = b THEN "EQUAL"
                             ELSE IF d < HALF THEN "GREATER"
                             ELSE IF d = HALF THEN "UNDECIDABLE"
                             ELSE "LESS"
<1>1. MOD = 2 * HALF /\ HALF \in Nat \ {0} /\ a \in 0 .. MOD - 1 /\ b \in 0 .. MOD - 1
  BY SerialAssumption DEF Serials, MOD
<1>2. a % MOD = a /\ b % MOD = b
  BY ModuloOfSerial
<1>3. Distance(a, b) = IF b >= a THEN b - a ELSE b - a + MOD
  BY DistanceCases
<1> QED BY <1>1, <1>2, <1>3 DEF Compare

(***************************************************************************)
(* The two sides of a comparison agree: exactly one of two different       *)
(* serials is ahead, unless both sides find them undecidable.              *)
(***************************************************************************)
THEOREM CompareIsDual ==
  ASSUME NEW a \in Serials, NEW b \in Serials
  PROVE  /\ Compare(a, b) = "GREATER" <=> Compare(b, a) = "LESS"
         /\ Compare(a, b) = "EQUAL" <=> a = b
         /\ Compare(a, b) = "UNDECIDABLE" <=> Compare(b, a) = "UNDECIDABLE"
<1>1. MOD = 2 * HALF /\ HALF \in Nat \ {0} /\ a \in 0 .. MOD - 1 /\ b \in 0 .. MOD - 1
  BY SerialAssumption DEF Serials, MOD
<1> QED BY <1>1, CompareCases

(***************************************************************************)
(* A publish that is_forward accepts cannot be undone by another one: no   *)
(* zone goes from a to b and straight back to a.                           *)
(***************************************************************************)
THEOREM ForwardIsOneWay ==
  ASSUME NEW a \in Serials, NEW b \in Serials, IsForward(a, b)
  PROVE  a # b /\ ~IsForward(b, a)
BY CompareIsDual DEF IsForward
=============================================================================
