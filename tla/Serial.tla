------------------------------- MODULE Serial -------------------------------
(***************************************************************************)
(* RFC 1982 serial number arithmetic (app/serial.py).  The code fixes      *)
(* HALF = 2^31; here HALF is a parameter, so that TLC can wrap around a    *)
(* small serial space and the theorems of SerialProofs hold for every size.*)
(***************************************************************************)
EXTENDS Integers

CONSTANT HALF

ASSUME SerialAssumption == HALF \in Nat \ {0}

MOD == 2 * HALF

\* The values valid_u32 lets through.
Serials == 0 .. (MOD - 1)

\* (s2 - s1) % MOD: how far s2 lies ahead of s1 on the circle.
Distance(s1, s2) == (s2 - s1) % MOD

Relations == {"EQUAL", "GREATER", "LESS", "UNDECIDABLE"}

\* Defects of compare that the properties must notice: integer order ...
CompareIntegers(s1, s2) ==
  IF s1 = s2 THEN "EQUAL" ELSE IF s1 < s2 THEN "GREATER" ELSE "LESS"

\* ... and half the circle away taken for ahead.
CompareClosedHalf(s1, s2) ==
  IF s1 = s2 THEN "EQUAL"
  ELSE IF Distance(s1, s2) <= HALF THEN "GREATER" ELSE "LESS"

\* compare(s1, s2): "GREATER" means that s2 is a forward successor of s1.
Compare(s1, s2) ==
  LET a == s1 % MOD
      b == s2 % MOD
      delta == Distance(a, b)
  IN  CASE a = b -> "EQUAL"
        [] a # b /\ 0 < delta /\ delta < HALF -> "GREATER"
        [] a # b /\ HALF < delta /\ delta < MOD -> "LESS"
        [] OTHER -> "UNDECIDABLE"

\* is_forward(base, nxt): a publish may only move inside the decidable half.
IsForward(base, nxt) == Compare(base, nxt) = "GREATER"

\* The code publish reports when IsForward is false.
NotForwardError(base, nxt) ==
  IF Compare(base, nxt) = "UNDECIDABLE" THEN "SERIAL_UNDECIDABLE"
                                        ELSE "SERIAL_INVALID"
=============================================================================
