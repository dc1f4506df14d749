----------------------------- MODULE SerialWalk -----------------------------
(***************************************************************************)
(* A zone whose serial moves forward by publishes (is_forward) and a       *)
(* secondary that remembers the serial of its last transfer.  The          *)
(* secondary's serial is what _decide_ixfr compares with the zone's; the   *)
(* way the zone has really gone since then is counted in "travelled".      *)
(***************************************************************************)
EXTENDS Serial

CONSTANT MaxTravel  \* bound: how far the zone may run ahead of the secondary

ASSUME WalkAssumption == MaxTravel \in Nat

VARIABLES
  origin,    \* the serial the secondary holds
  serial,    \* the zone's current serial
  travelled  \* serials the zone has moved since the secondary's transfer

vars == <<origin, serial, travelled>>

Init ==
  /\ origin \in Serials
  /\ serial = origin
  /\ travelled = 0

Advance(nxt) ==
  /\ IsForward(serial, nxt)
  /\ travelled + Distance(serial, nxt) <= MaxTravel
  /\ serial' = nxt
  /\ travelled' = travelled + Distance(serial, nxt)
  /\ UNCHANGED origin

Refresh ==
  /\ origin' = serial
  /\ travelled' = 0
  /\ UNCHANGED serial

Next == Refresh \/ \E nxt \in Serials : Advance(nxt)

Spec == Init /\ [][Next]_vars
-----------------------------------------------------------------------------
\* The order of RFC 1982, section 3.2, word for word.
RfcLess(i1, i2) ==
  \/ i1 < i2 /\ i2 - i1 < HALF
  \/ i1 > i2 /\ i1 - i2 > HALF

(***************************************************************************)
(* compare is the order of RFC 1982, whichever side is asked: the two      *)
(* sides never both believe to be ahead, and they agree on being equal and *)
(* on not being comparable.                                                *)
(***************************************************************************)
RfcOrder(a, b) ==
  /\ Compare(a, b) = "GREATER" <=> RfcLess(a, b)
  /\ Compare(a, b) = "LESS" <=> RfcLess(b, a)
  /\ Compare(a, b) = "EQUAL" <=> a = b

MatchesRFC1982 == RfcOrder(origin, serial)

(***************************************************************************)
(* What the secondary is told follows from how far the zone really went:   *)
(* ahead for less than half the circle, undecidable at exactly half,       *)
(* behind after that, and after a full lap it looks up to date again.      *)
(***************************************************************************)
SeenAfter(distance) ==
  LET lap == distance % MOD
  IN  IF lap = 0 THEN "EQUAL"
      ELSE IF lap < HALF THEN "GREATER"
      ELSE IF lap = HALF THEN "UNDECIDABLE" ELSE "LESS"

RelationFollowsTravel == Compare(origin, serial) = SeenAfter(travelled)
=============================================================================
