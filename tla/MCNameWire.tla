----------------------------- MODULE MCNameWire -----------------------------
(* Small instance of NameWire: a "small" octet is below 4, not 64.          *)
EXTENDS NameWire

SmallAscii == <<"nul", "\n", ".", "-", "a", "A", "b", "B">>

(* Apexes above, beside and below each other, one that ends like another   *)
(* without being inside it, the root, a label ending in a line feed, one    *)
(* that is too long.                                                       *)
SomeZones ==
  {<<".">>, <<"a", ".">>, <<"a">>, <<"A", ".">>, <<"b", ".", "a", ".">>,
   <<"-", "a", ".">>, <<"a", "\n", ".">>, <<"a", "a", "a", "a", ".">>}

SomeNames == BoundedSeq({"a", "B", "-", ".", "\n"}, 4) \cup {<<"@">>, <<"@", "\n">>}

(* The root, labels of one and two octets (line feeds and dots when they    *)
(* are inside a label), a reserved length that inside a label is no ASCII   *)
(* octet, the first octet of a pointer to places 0 to 12.  Five of them     *)
(* hold two jumps in a row.                                                 *)
SomeOctets == {0, 1, 2, 8, 12}
=============================================================================
