------------------------------- MODULE Names -------------------------------
(***************************************************************************)
(* Domain names as text (src/app/canonical.py) and the search for the zone *)
(* a name belongs to (src/app/storage.py).  A text is a sequence of        *)
(* one-character strings; a function that raises is an operator whose      *)
(* value is the empty set, one that returns is a singleton.                *)
(***************************************************************************)
EXTENDS Integers, Sequences, FiniteSets, SequencesExt, FiniteSetsExt, Enumeration

CONSTANTS
  MaxLabel,   \* Config.MAX_LABEL_LEN: octets of a label, 63 in the code
  MaxName     \* Config.MAX_NAME_LEN: octets of a name on the wire, 255

ASSUME NamesAssumption == MaxLabel \in Nat \ {0} /\ MaxName \in Nat \ {0}

Root == <<".">>

Blank == {" ", "\n"}
LabelChars == {"a", "b", "-"}    \* stand for [a-z0-9_-]

(* str.lower, and the case folding of a decoded label.                     *)
LowerOf == [c \in {"A", "B"} |-> IF c = "A" THEN "a" ELSE "b"]
Lower(t) == [i \in DOMAIN t |-> IF t[i] \in DOMAIN LowerOf THEN LowerOf[t[i]] ELSE t[i]]

(* The alphabet; "nul" stands for every character without a role here.     *)
Chars == Blank \cup LabelChars \cup DOMAIN LowerOf \cup {".", "@", "nul"}
Texts == Seq(Chars)

Strip(t) ==
  LET kept == {i \in DOMAIN t : t[i] \notin Blank}
  IN  IF kept = {} THEN <<>> ELSE SubSeq(t, Min(kept), Max(kept))

(* str.split("."): the texts between the dots, empty ones included.        *)
Split(t) ==
  LET cuts == <<0>> \o Enumerated({i \in DOMAIN t : t[i] = "."}) \o <<Len(t) + 1>>
  IN  [k \in 1 .. Len(cuts) - 1 |-> SubSeq(t, cuts[k] + 1, cuts[k + 1] - 1)]

(* name_labels: the labels of an absolute name.                            *)
NameLabels(t) == IF t = Root THEN <<>> ELSE Split(Front(t))

Absolute(t) == IsSuffix(Root, t)

(* _LABEL_RE: the regular expression ends in `$', which also matches       *)
(* before a line feed that ends the label.                                 *)
LabelOK(l) ==
  LET core == IF l # <<>> /\ Last(l) = "\n" THEN Front(l) ELSE l
  IN  core # <<>> /\ Range(core) \subseteq LabelChars

(* Octets the labels take on the wire: a length octet each, and the root.  *)
WireLen(ls) == Len(ls) + Len(FlattenSeq(ls)) + 1

\* A defect: the length of the name is not checked.
CheckNameLabelsOnly(t) ==
  {n \in {t} : LET ls == NameLabels(n) IN
     \A k \in DOMAIN ls : Len(ls[k]) <= MaxLabel /\ LabelOK(ls[k])}

(* _check_name.  Which of the two errors comes first is left out.          *)
CheckName(t) ==
  {n \in {t} : LET ls == NameLabels(n) IN
     /\ \A k \in DOMAIN ls : Len(ls[k]) <= MaxLabel /\ LabelOK(ls[k])
     /\ WireLen(ls) <= MaxName}

(* canonical_zone: the name of a zone to create; it must be absolute.      *)
CanonicalZone(raw) ==
  LET t == Strip(Lower(raw)) IN IF Absolute(t) THEN CheckName(t) ELSE {}

(* canonical_zone_arg: a zone named in a URL, final dot or not.            *)
CanonicalZoneArg(raw) ==
  LET t == Strip(Lower(raw))
  IN  IF t = <<>> THEN {} ELSE CheckName(IF Absolute(t) THEN t ELSE t \o Root)

\* A defect: the zone is appended to absolute names too.
OwnerTextAlways(t, zone) == (IF Absolute(t) THEN t ELSE t \o Root) \o zone

(* The owner name a change writes: relative names get the zone appended.   *)
OwnerText(t, zone) == IF Absolute(t) THEN t ELSE t \o Root \o zone

\* A defect: only the first of the two out-of-zone tests.
WithinByText(t, zone) == IsSuffix(zone, t)

(* The test at a label boundary, so that `ba.' is not inside `a.'.         *)
Within(t, zone) == t = zone \/ IsSuffix(Root \o zone, t)

(* canonical_name.  Its first test, name.endswith(zone), is implied by the *)
(* second.                                                                 *)
CanonicalName(raw, zone) ==
  LET t == Strip(Lower(raw))
      n == OwnerText(t, zone)
  IN  CASE t = <<"@">> -> {zone}
        [] t \in {<<>>, Root} \/ (t # <<"@">> /\ ~Within(n, zone)) -> {}
        [] OTHER -> CheckName(n)

(* canonical_target: a name inside RDATA; it may leave the zone.           *)
CanonicalTarget(raw, zone) ==
  IF raw = <<>> THEN {} ELSE CheckName(OwnerText(Strip(Lower(raw)), zone))

\* A defect: the shortest enclosing zone.
FindZoneShortest(zones, name) ==
  LET enclosing == {z \in zones : Within(Lower(name), z)}
  IN  {z \in enclosing : \A y \in enclosing : Len(z) <= Len(y)}

(* find_zone_by_name: the longest zone that encloses the name, if any.     *)
FindZone(zones, name) ==
  LET enclosing == {z \in zones : Within(Lower(name), z)}
  IN  {z \in enclosing : \A y \in enclosing : Len(y) <= Len(z)}

=============================================================================
