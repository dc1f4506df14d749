----------------------------- MODULE ChangeSet -----------------------------
(***************************************************************************)
(* How a publish comes from a list of operations to what _materialize      *)
(* writes: the loop of _apply_ops, and the fingerprint by which a retry is *)
(* told from another request.  ZoneStore takes the effect of such a list   *)
(* as given; here it is computed, with the order of operations and of      *)
(* records that the code looks at.                                         *)
(*                                                                         *)
(* The value of an RRset is the sequence of its records (a TTL is part of  *)
(* them); the empty sequence stands for an RRset that is not there.        *)
(***************************************************************************)
EXTENDS Integers, Sequences, FiniteSets, SequencesExt, Enumeration

CONSTANTS
  Keys,      \* <<name, type>> pairs
  Rdata,     \* records; numbers, in the order of their text
  MaxOps,    \* bound: operations of a changeset
  MaxRRset   \* bound: records given for an RRset

ASSUME ChangeSetAssumption ==
  /\ Rdata \subseteq Nat
  /\ MaxOps \in Nat
  /\ MaxRRset \in Nat

INSTANCE Materialize WITH RRKeys <- Keys

Lists == UNION {[1 .. n -> Rdata] : n \in 0 .. MaxRRset}

Delete(k) == [action |-> "delete", key |-> k]
Replace(k, records) == [action |-> "replace", key |-> k, records |-> records]
\* An unknown action, an unsupported type, RDATA that cannot be read.
Unreadable == [action |-> "unreadable"]

Operations ==
  {Delete(k) : k \in Keys}
    \union {Replace(k, records) : k \in Keys, records \in Lists}
    \union {Unreadable}

VARIABLES
  old,      \* _load_rrsets: the current version, each RRset in rdata order
  ops,      \* the operations applied so far
  rrsets,   \* the working copy
  changed,  \* the keys noted as changed
  error     \* the ApiError raised, or "NONE"

vars == <<old, ops, rrsets, changed, error>>

InOrder(s) == \A i, j \in DOMAIN s : i < j => s[i] < s[j]
Stored == {s \in Lists : InOrder(s)}
-----------------------------------------------------------------------------
(* One turn of the loop of _apply_ops.  w is the working state. *)

Begin(rows) == [rrsets |-> rows, changed |-> {}, error |-> "NONE"]

\* A key that an earlier operation has changed is not deleted any more.
Deleted(w, k) ==
  IF w.rrsets[k] # <<>> /\ k \notin w.changed
    THEN [w EXCEPT !.rrsets[k] = <<>>, !.changed = @ \union {k}]
    ELSE w

\* A defect: only an RRset that was there before is noted as changed.
ReplacedIfThere(w, k, records) ==
  IF ~IsInjective(records) THEN [w EXCEPT !.error = "CHANGESET_INVALID"]
  ELSE [w EXCEPT !.rrsets[k] = records,
                 !.changed = IF w.rrsets[k] # <<>> /\ w.rrsets[k] # records
                               THEN @ \union {k} ELSE @]

\* A defect: a key that was changed is not replaced any more, either.
ReplacedOnce(w, k, records) ==
  IF ~IsInjective(records) THEN [w EXCEPT !.error = "CHANGESET_INVALID"]
  ELSE IF k \in w.changed THEN w
  ELSE [w EXCEPT !.rrsets[k] = records,
                 !.changed = IF w.rrsets[k] = <<>> \/ w.rrsets[k] # records
                               THEN @ \union {k} ELSE @]

\* Records are compared in the order given; an absent RRset always differs.
Replaced(w, k, records) ==
  IF ~IsInjective(records) THEN [w EXCEPT !.error = "CHANGESET_INVALID"]
  ELSE [w EXCEPT !.rrsets[k] = records,
                 !.changed = IF w.rrsets[k] = <<>> \/ w.rrsets[k] # records
                               THEN @ \union {k} ELSE @]

ApplyOp(w, op) ==
  IF w.error # "NONE" THEN w
  ELSE CASE op.action = "delete" -> Deleted(w, op.key)
         [] op.action = "replace" -> Replaced(w, op.key, op.records)
         [] OTHER -> [w EXCEPT !.error = "VALIDATION_ERROR"]

Init ==
  /\ old \in [Keys -> Stored]
  /\ ops = <<>>
  /\ rrsets = old
  /\ changed = {}
  /\ error = "NONE"

ApplyNext(op) ==
  /\ error = "NONE"
  /\ Len(ops) < MaxOps
  /\ LET w == ApplyOp([rrsets |-> rrsets, changed |-> changed,
                       error |-> error], op)
     IN  /\ rrsets' = w.rrsets
         /\ changed' = w.changed
         /\ error' = w.error
  /\ ops' = Append(ops, op)
  /\ UNCHANGED old

Next == \E op \in Operations : ApplyNext(op)

Spec == Init /\ [][Next]_vars
-----------------------------------------------------------------------------
(* What the working copy comes to in tables of rows, which know no order. *)

Rows(table) == [k \in Keys |-> ToSet(table[k])]

PlacesOf(list, k) == {i \in DOMAIN list : list[i] # Unreadable /\ list[i].key = k}

\* The changeset as ZoneStore takes it: the RRsets it names, and what it leaves
\* of them.
Result ==
  [k \in {q \in Keys : PlacesOf(ops, q) # {}} |-> Rows(rrsets)[k]]
-----------------------------------------------------------------------------
(* canonical_fingerprint: operations sorted by name, type and action; the  *)
(* sort is stable, and "delete" comes before "replace".                    *)

\* The operations of list at the places of a set, in their order.
Picked(list, at) == [n \in 1 .. Cardinality(at) |-> list[Enumerated(at)[n]]]

OnKey(list, k, action) ==
  Picked(list, {i \in DOMAIN list : list[i].action = action /\ list[i].key = k})

\* A defect: the replacements of a key are sorted too.
SortedFingerprint(list) ==
  [k \in Keys |-> <<Len(OnKey(list, k, "delete")),
                    ToSet(OnKey(list, k, "replace"))>>]

Fingerprint(list) ==
  [k \in Keys |-> <<OnKey(list, k, "delete"), OnKey(list, k, "replace")>>]

\* What list would have made of the current version.
Effect(list) == FoldLeft(ApplyOp, Begin(old), list).rrsets

Reorderings(list) ==
  {[i \in DOMAIN list |-> list[p[i]]] :
     p \in {q \in [DOMAIN list -> DOMAIN list] : IsInjective(q)}}

\* Requests with this fingerprint are taken for retries of list.
Retries(list) ==
  {other \in Reorderings(list) : Fingerprint(other) = Fingerprint(list)}
-----------------------------------------------------------------------------
(* Properties. *)

Mixed(k) == \E i, j \in PlacesOf(ops, k) : ops[i].action # ops[j].action

(***************************************************************************)
(* A changeset is published as ZoneStore has it: RRsets that no operation  *)
(* names stay, no change is missed by the list of changed keys, whatever   *)
(* the order of operations and records, and so the snapshot stored is what *)
(* the operations left in the working copy.                                *)
(***************************************************************************)
ResultIsPublished ==
  error = "NONE" =>
    /\ Rows(rrsets) = Applied(Rows(old), Result)
    /\ changed \in Noted(Rows(old), Result)
    /\ Snapshot(Rows(old), Rows(rrsets), changed) = Rows(rrsets)

(***************************************************************************)
(* In a changeset that is applied, a replacement that is the last          *)
(* operation on its RRset stands, and so does a last deletion unless the   *)
(* RRset was replaced as well: that one may be passed over without an      *)
(* error, no other operation is.                                           *)
(***************************************************************************)
OnlyDeletionsDropped ==
  error = "NONE" =>
    \A k \in Keys : \A i \in PlacesOf(ops, k) :
      (\A j \in PlacesOf(ops, k) : j <= i) =>
        /\ ops[i].action = "replace" => rrsets[k] = ops[i].records
        /\ ops[i].action = "delete" /\ ~Mixed(k) => rrsets[k] = <<>>

(***************************************************************************)
(* A retry that the fingerprint accepts has the effect of the request it   *)
(* is taken for, as long as no RRset is both deleted and replaced.         *)
(***************************************************************************)
RetriesAgree ==
  error = "NONE" /\ (\A k \in Keys : ~Mixed(k))
    => \A other \in Retries(ops) : Effect(other) = rrsets
=============================================================================
