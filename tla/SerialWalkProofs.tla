-------------------------- MODULE SerialWalkProofs --------------------------
(***************************************************************************)
(* The properties of SerialWalk for every size of the serial space and     *)
(* every MaxTravel.                                                        *)
(***************************************************************************)
EXTENDS SerialWalk, SerialProofs

\* Up to whole laps, the zone is where the travelled distance takes it.
OnCourse ==
  /\ origin \in Serials
  /\ serial \in Serials
  /\ travelled \in Nat
  /\ \E k \in Int : origin + travelled = serial + k * MOD

\* A secondary starts where the zone is.
LEMMA OnCourseInit == Init => OnCourse
<1> SUFFICES ASSUME Init PROVE OnCourse
  OBVIOUS
<1>1. origin \in Int /\ MOD \in Int
  BY SerialAssumption DEF Init, Serials, MOD
<1>2. origin + 0 = origin + 0 * MOD
  BY <1>1
<1> QED BY <1>2 DEF Init, OnCourse

\* Publishes and transfers keep count of the way the zone went.
LEMMA OnCourseStep == OnCourse /\ [Next]_vars => OnCourse'
<1> SUFFICES ASSUME OnCourse, [Next]_vars PROVE OnCourse'
  OBVIOUS
<1>1. CASE UNCHANGED vars
  BY <1>1 DEF vars, OnCourse
<1>2. CASE Refresh
  <2>1. serial \in Int /\ MOD \in Int
    BY SerialAssumption DEF OnCourse, Serials, MOD
  <2>2. serial + 0 = serial + 0 * MOD
    BY <2>1
  <2> QED BY <1>2, <2>2 DEF Refresh, OnCourse
<1>3. ASSUME NEW nxt \in Serials, Advance(nxt) PROVE OnCourse'
  <2>1. PICK k \in Int : origin + travelled = serial + k * MOD
    BY DEF OnCourse
  <2>2. MOD \in Nat \ {0} /\ serial \in 0 .. MOD - 1 /\ nxt \in 0 .. MOD - 1
    BY SerialAssumption DEF Serials, MOD, OnCourse
  <2>3. Distance(serial, nxt) = IF nxt >= serial THEN nxt - serial
                                ELSE nxt - serial + MOD
    BY DistanceCases DEF OnCourse
  <2>4. Distance(serial, nxt) \in Nat
    BY <2>2, <2>3
  <2>5. (k + 1) * MOD = k * MOD + MOD /\ k * MOD \in Int
    BY <2>2
  <2>6. \E l \in Int : origin + (travelled + Distance(serial, nxt)) = nxt + l * MOD
    <3>1. origin \in Int /\ travelled \in Int
      BY DEF OnCourse, Serials
    <3>2. CASE nxt >= serial
      <4>1. origin + (travelled + Distance(serial, nxt)) = nxt + k * MOD
        BY <2>1, <2>2, <2>3, <2>5, <3>1, <3>2
      <4> QED BY <4>1
    <3>3. CASE nxt < serial
      <4>1. origin + (travelled + Distance(serial, nxt)) = nxt + (k + 1) * MOD
        BY <2>1, <2>2, <2>3, <2>5, <3>1, <3>3
      <4> QED BY <4>1
    <3> QED BY <2>2, <3>2, <3>3
  <2> QED BY <1>3, <2>4, <2>6 DEF Advance, OnCourse
<1> QED BY <1>1, <1>2, <1>3 DEF Next

(***************************************************************************)
(* The inductive invariant: origin plus the way travelled is the zone's    *)
(* serial, up to whole laps of the serial space.                           *)
(***************************************************************************)
THEOREM CourseInvariant == Spec => []OnCourse
BY OnCourseInit, OnCourseStep, PTL DEF Spec

(***************************************************************************)
(* compare orders any two serials a zone and a secondary can hold as RFC   *)
(* 1982 does, for every size of the serial space.                          *)
(***************************************************************************)
THEOREM RfcInvariant == Spec => []MatchesRFC1982
<1>1. OnCourse => MatchesRFC1982
  <2> SUFFICES ASSUME OnCourse PROVE RfcOrder(origin, serial)
    BY DEF MatchesRFC1982
  <2>1. /\ MOD = 2 * HALF /\ HALF \in Nat \ {0}
        /\ origin \in 0 .. MOD - 1 /\ serial \in 0 .. MOD - 1
    BY SerialAssumption DEF Serials, MOD, OnCourse
  <2> QED BY <2>1, CompareCases DEF RfcOrder, RfcLess, OnCourse
<1> QED BY <1>1, CourseInvariant, PTL

(***************************************************************************)
(* What _decide_ixfr is told by compare follows from how far the zone ran  *)
(* ahead of the client, for every size of the serial space and however far *)
(* it ran.                                                                 *)
(***************************************************************************)
THEOREM TravelInvariant == Spec => []RelationFollowsTravel
<1>1. OnCourse => RelationFollowsTravel
  <2> SUFFICES ASSUME OnCourse
               PROVE  Compare(origin, serial) = SeenAfter(travelled)
    BY DEF RelationFollowsTravel
  <2> DEFINE d == IF serial >= origin THEN serial - origin
                  ELSE serial - origin + MOD
  <2>1. /\ MOD = 2 * HALF /\ HALF \in Nat \ {0}
        /\ origin \in 0 .. MOD - 1 /\ serial \in 0 .. MOD - 1
        /\ travelled \in Nat
    BY SerialAssumption DEF Serials, MOD, OnCourse
  <2>2. PICK k \in Int : origin + travelled = serial + k * MOD
    BY DEF OnCourse
  <2>3. \E l \in Int : travelled = d + l * MOD
    <3>1. (k - 1) * MOD = k * MOD - MOD /\ k * MOD \in Int
      BY <2>1
    <3>2. CASE serial >= origin
      BY <2>1, <2>2, <3>1, <3>2
    <3>3. CASE serial < origin
      <4>1. travelled = (serial - origin + MOD) + (k - 1) * MOD
        BY <2>1, <2>2, <3>1
      <4>2. k - 1 \in Int
        OBVIOUS
      <4> QED BY <2>1, <3>3, <4>1, <4>2
    <3> QED BY <2>1, <3>2, <3>3
  <2>4. d \in Int /\ 0 <= d /\ d < MOD
    BY <2>1
  <2>5. travelled % MOD = d
    <3>1. PICK l \in Int : travelled = d + l * MOD
      BY <2>3
    <3> HIDE DEF d
    <3>2. MOD \in Nat \ {0}
      BY <2>1
    <3> QED BY <2>4, <3>1, <3>2, ModuloOfSum
  <2>6. Compare(origin, serial) = IF origin = serial THEN "EQUAL"
                                  ELSE IF d < HALF THEN "GREATER"
                                  ELSE IF d = HALF THEN "UNDECIDABLE"
                                  ELSE "LESS"
    BY CompareCases DEF OnCourse
  <2>7. d = 0 <=> origin = serial
    BY <2>1
  <2> HIDE DEF d
  <2> QED BY <2>5, <2>6, <2>7 DEF SeenAfter
<1> QED BY <1>1, CourseInvariant, PTL
=============================================================================
