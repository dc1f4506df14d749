------------------------------ MODULE NameWire ------------------------------
(***************************************************************************)
(* A name on its way through the node: stored with a zone or a record,     *)
(* asked for by a client in any case and possibly behind a compression     *)
(* pointer, decoded octet by octet (src/app/dnswire.py, decode_name) and   *)
(* looked up.  Clients may also send any octets at all.                    *)
(*                                                                         *)
(* Octets are scaled: Low stands for 64, so an octet is below 4 * Low, its *)
(* two top bits are n \div Low, and the ASCII octets are those below       *)
(* 2 * Low.  Ascii[k + 1] is the character of octet k; several octets may  *)
(* stand for the character without a role.                                 *)
(***************************************************************************)
EXTENDS Names

CONSTANTS
  Low,          \* 64 in the code: one more than the longest label
  Ascii,        \* the characters of the octets 0 .. 2 * Low - 1
  RawZones,     \* texts sent as a zone's name
  RawNames,     \* texts sent as the name of a record or the target of one
  Octets,       \* octets an arbitrary message is made of
  MaxMessage,   \* bound: octets of an arbitrary message
  MaxLabels,    \* bound: labels kept of a name; more than any message here has
  MaxZones,     \* bound: zones
  MaxRecords    \* bound: records beside those at the apexes

ASSUME NameWireAssumption ==
  /\ Low \in Nat \ {0} /\ MaxLabel < Low
  /\ Ascii \in Seq(Chars) /\ Len(Ascii) = 2 * Low
  /\ LabelChars \cup {"\n"} \subseteq Range(Ascii)
  /\ RawZones \subseteq Texts /\ RawNames \subseteq Texts
  /\ Octets \subseteq 0 .. 4 * Low - 1
  /\ MaxMessage \in Nat /\ MaxLabels \in Nat /\ MaxZones \in Nat /\ MaxRecords \in Nat

VARIABLES
  stored,   \* the names stored: [kind |-> "owner" or "target", zone, name]
  buf,      \* the message being read
  field,    \* [off |-> where its name starts, asked |-> the name meant, if any,
            \*  zone |-> the zone it is answered from, if any]
  reader,   \* the locals of decode_name
  status    \* where its handler is

nvars == <<stored, buf, field, reader, status>>
readVars == <<buf, field>>

Zones == {r.zone : r \in stored}

-----------------------------------------------------------------------------
(* Storing names.                                                          *)

StartAt(off) == [cur |-> off, labels |-> <<>>, seen |-> {}, jumped |-> FALSE, next |-> 0]
NoField == [off |-> 0, asked |-> <<>>, zone |-> {}]

NInit ==
  /\ stored = {}
  /\ buf = <<>> /\ field = NoField
  /\ reader = StartAt(0)
  /\ status = "idle"

(* Bound: no zone is created while an arbitrary message is read.           *)
Quiet == status = "idle" \/ field.asked # <<>>

(* POST /zones: the apex owns the zone's SOA and NS records.               *)
CreateZone ==
  /\ Quiet
  /\ Cardinality(Zones) < MaxZones
  /\ \E raw \in RawZones : \E z \in CanonicalZone(raw) \ Zones :
       stored' = stored \cup {[kind |-> "owner", zone |-> z, name |-> z]}
  /\ UNCHANGED <<readVars, reader, status>>

(* POST /zones/{zone}/publish with one record, whose RDATA may hold a      *)
(* name as well.  Bound: between two messages, which do not read records.  *)
StoreRecord ==
  /\ status = "idle"
  /\ Cardinality(stored) < Cardinality(Zones) + MaxRecords
  /\ \E arg \in RawZones, raw \in RawNames : \E z \in CanonicalZoneArg(arg) \cap Zones :
       \/ \E n \in CanonicalName(raw, z) :
            stored' = stored \cup {[kind |-> "owner", zone |-> z, name |-> n]}
       \/ \E n \in CanonicalTarget(raw, z) :
            stored' = stored \cup {[kind |-> "target", zone |-> z, name |-> n]}
  /\ UNCHANGED <<readVars, reader, status>>

-----------------------------------------------------------------------------
(* Sending names.                                                          *)

Octet(c) == (CHOOSE k \in DOMAIN Ascii : Ascii[k] = c) - 1

\* Or else a WireError or, for a character that is not ASCII, another one.
Encodable(l) == l # <<>> /\ Len(l) < Low /\ Range(l) \subseteq Range(Ascii)

EncodeLabel(l) == <<Len(l)>> \o [i \in DOMAIN l |-> Octet(l[i])]

(* encode_name, for the spelling it is given (its own is lower case).      *)
EncodeName(t) ==
  LET ls == NameLabels(t)
  IN  IF \A k \in DOMAIN ls : Encodable(ls[k])
      THEN {FlattenSeq([k \in DOMAIN ls |-> EncodeLabel(ls[k])]) \o <<0>>}
      ELSE {}

(* Every way to write a name in upper and lower case.                      *)
Spellings(t) ==
  LET Up(c) == IF \E u \in DOMAIN LowerOf : LowerOf[u] = c
               THEN CHOOSE u \in DOMAIN LowerOf : LowerOf[u] = c ELSE c
  IN  {[i \in DOMAIN t |-> IF i \in up THEN Up(t[i]) ELSE t[i]] : up \in SUBSET DOMAIN t}

Receive(b, o, asked) ==
  /\ buf' = b
  /\ field' = [off |-> o, asked |-> asked, zone |-> {}]
  /\ reader' = StartAt(o)
  /\ status' = "reading"
  /\ UNCHANGED stored

(* A client asks for a stored owner name: in the question, or in a later   *)
(* record whose name is a pointer to the question's.                       *)
Ask ==
  /\ status = "idle"
  /\ \E r \in stored : \E s \in Spellings(r.name) : \E b \in EncodeName(s) :
       /\ r.kind = "owner"
       /\ \/ Receive(b, 0, r.name)
          \/ Receive(b \o <<3 * Low, 0>>, Len(b), r.name)

(* Any message at all.  Bound: only before the first zone is created, as   *)
(* decode_name reads nothing but the message.                              *)
Garble ==
  /\ status = "idle"
  /\ stored = {}
  /\ \E b \in BoundedSeq(Octets, MaxMessage) : \E o \in 0 .. Len(b) : Receive(b, o, <<>>)

-----------------------------------------------------------------------------
(* Reading a name: one action per way through the loop of decode_name.     *)

Reading == status = "reading" /\ UNCHANGED <<stored, readVars>>
At(p) == buf[p + 1]
Inside(p) == p < Len(buf)
Here == At(reader.cur)

PointerAt(p) == (At(p) % Low) * 4 * Low + At(p + 1)

\* A defect: a pointer to a place visited before is followed again.
PointsBack(r, ptr) == ptr < r.cur

(* What is checked of a pointer: it points back, and to a new place.       *)
PointerOK(r, ptr) == ptr \notin r.seen /\ ptr < r.cur

WellFormed ==     \* or else a WireError
  /\ Inside(reader.cur)
  /\ Here \div Low \in {0, 3}
  /\ Here \div Low = 3 => Inside(reader.cur + 1) /\ PointerOK(reader, PointerAt(reader.cur))
  /\ Here \div Low = 0 => reader.cur + Here < Len(buf)

ReadEnd ==
  /\ Reading /\ WellFormed
  /\ Here = 0
  /\ reader' = [reader EXCEPT !.cur = @ + 1,
                              !.next = IF reader.jumped THEN @ ELSE reader.cur + 1]
  /\ status' = "read"

\* A defect: every pointer moves the end of the field, not only the first.
JumpMovesEnd(r, ptr) ==
  [r EXCEPT !.seen = @ \cup {ptr}, !.jumped = TRUE, !.cur = ptr, !.next = r.cur + 2]

(* Where the decoder goes on, and what it remembers, after a pointer.      *)
Jump(r, ptr) ==
  [r EXCEPT !.seen = @ \cup {ptr}, !.jumped = TRUE, !.cur = ptr,
            !.next = IF r.jumped THEN @ ELSE r.cur + 2]

ReadPointer ==
  /\ Reading /\ WellFormed
  /\ Here \div Low = 3
  /\ reader' = Jump(reader, PointerAt(reader.cur))
  /\ UNCHANGED status

\* A defect: the labels keep the case they have on the wire.
DecodedCased(octets) == [i \in DOMAIN octets |-> Ascii[octets[i] + 1]]

(* The label's octets; those above ASCII raise UnicodeDecodeError, which   *)
(* is no WireError.                                                        *)
LabelAt(p) == SubSeq(buf, p + 2, p + 1 + At(p))
Decoded(octets) == Lower([i \in DOMAIN octets |-> Ascii[octets[i] + 1]])

ReadLabel ==
  /\ Reading /\ WellFormed
  /\ Here \div Low = 0 /\ Here # 0
  /\ IF \E i \in DOMAIN LabelAt(reader.cur) : LabelAt(reader.cur)[i] >= 2 * Low
     THEN status' = "crashed" /\ UNCHANGED reader
     ELSE /\ reader' = [reader EXCEPT
               !.cur = @ + 1 + Here,
               !.labels = IF Len(@) < MaxLabels
                          THEN Append(@, Decoded(LabelAt(reader.cur))) ELSE @]
          /\ UNCHANGED status

ReadFails == Reading /\ ~WellFormed /\ status' = "formerr" /\ UNCHANGED reader

Read == ReadEnd \/ ReadPointer \/ ReadLabel \/ ReadFails

(* The text decode_name returns.                                           *)
NameRead ==
  IF reader.labels = <<>> THEN Root
  ELSE FlattenSeq([k \in DOMAIN reader.labels |-> reader.labels[k] \o Root])

(* answer_question looks for the zone once the message is read.            *)
Answer ==
  /\ status = "read"
  /\ field' = [field EXCEPT !.zone = FindZone(Zones, NameRead)]
  /\ status' = "answered"
  /\ UNCHANGED <<stored, buf, reader>>

(* The handler has answered, or given up.                                  *)
Finish ==
  /\ status \in {"answered", "formerr", "crashed"}
  /\ buf' = <<>> /\ field' = NoField /\ reader' = StartAt(0) /\ status' = "idle"
  /\ UNCHANGED stored

-----------------------------------------------------------------------------
NNext == CreateZone \/ StoreRecord \/ Ask \/ Garble \/ Read \/ Answer \/ Finish
NSpec == NInit /\ [][NNext]_nvars /\ WF_nvars(Read)

-----------------------------------------------------------------------------
(***************************************************************************)
(* Properties.                                                             *)
(***************************************************************************)

(* Label by label, the zone is the end of the name.                        *)
Encloses(zone, name) == IsSuffix(NameLabels(zone), NameLabels(name))

(* An owner name that was accepted lies inside its zone when the two are   *)
(* compared label by label, though the code compares their texts: a name   *)
(* whose last label merely ends like the zone's first never gets in.       *)
OwnersWithinZone ==
  \A r \in stored : r.kind = "owner" => Encloses(r.zone, r.name)

(* Every name accepted at the API, owner or target, can be put on the wire *)
(* within the limits of a label and of a name: encode_name, which a        *)
(* publish, a query and a transfer all call, never raises for it.  The     *)
(* limits apply to the absolute name, after the zone has been appended.    *)
StoredNamesEncode ==
  \A r \in stored : \E b \in EncodeName(r.name) : Len(b) <= MaxName

(* What the API stored it accepts again, unchanged: a client that reads a  *)
(* record and writes it back changes nothing.  Exception: the apex of the  *)
(* root zone, whose stored owner name "." is refused as a name.            *)
CanonicalFixed ==
  \A r \in stored :
    \/ r.kind = "owner" /\ (CanonicalName(r.name, r.zone) = {r.name} \/ r.name = Root)
    \/ r.kind = "target" /\ CanonicalTarget(r.name, r.zone) = {r.name}

(* A name in a message by the definition of RFC 1035, section 4.1.4:       *)
(* labels, ended by the root or by a pointer to a place before it, which   *)
(* stands for the name written there.  A name is written at a place p of b *)
(* with its labels and the end of its field, which lies behind the root or *)
(* the first pointer.  shorter holds the names of one step less.           *)
Longer(b, shorter) ==
  [p \in Nat |->
     LET n == b[p + 1]
         ptr == (n % Low) * 4 * Low + b[p + 2]
     IN  IF p >= Len(b) THEN {}
         ELSE IF n = 0 THEN {[labels |-> <<>>, end |-> p + 1]}
         ELSE IF n \div Low = 0
           THEN {[labels |-> <<Decoded(SubSeq(b, p + 2, p + 1 + n))>> \o w.labels,
                  end |-> w.end] : w \in shorter[p + 1 + n]}
         ELSE IF n \div Low = 3 /\ p + 1 < Len(b) /\ ptr < p
           THEN {[labels |-> w.labels, end |-> p + 2] : w \in shorter[ptr]}
         ELSE {}]

(* No name takes more labels and pointers: between two pointers there are  *)
(* fewer labels than octets, and no two pointers lead to one place.        *)
Steps(b) == (Len(b) + 1) * (Len(b) + 1)

\* The names of at most k labels and pointers in message b.
Written(b) ==
  LET written[k \in 0 .. Steps(b)] ==
        IF k = 0 THEN [p \in Nat |-> {}] ELSE Longer(b, written[k - 1])
  IN  written

(* When decode_name returns, it returns the name written at the offset and *)
(* the offset after it, however often the name jumped; the fields after it *)
(* (type, class, the next record) are read from the right place.  When it  *)
(* raises a WireError there is no name, so that no answer is denied to a   *)
(* message that has one.  Names are compared as lists of labels; the text  *)
(* made of them is the same for a label with a dot inside as for two.      *)
DecodedAsWritten ==
  LET names == Written(buf)[Steps(buf)][field.off]
  IN  /\ status \in {"read", "answered"} /\ Len(reader.labels) < MaxLabels =>
           names = {[labels |-> reader.labels, end |-> reader.next]}
      /\ status = "formerr" => names = {}

(* A query for a stored owner name, in any case and behind a pointer or    *)
(* not, is answered under that very name and from the deepest zone that    *)
(* encloses it, label by label, at that moment.                            *)
AnsweredFromItsZone ==
  [][status = "read" /\ status' = "answered" /\ field.asked # <<>>
       /\ Len(reader.labels) < MaxLabels =>
       /\ NameRead = field.asked
       /\ \E z \in Zones :
            /\ field'.zone = {z} /\ Encloses(z, field.asked)
            /\ \A y \in Zones : Encloses(y, field.asked) => Encloses(y, z)]_nvars

(* Whatever the octets, the loop of decode_name ends: with a name, a       *)
(* WireError, or the exception for a label that is not ASCII.              *)
DecodingEnds == status = "reading" ~> status # "reading"

=============================================================================
