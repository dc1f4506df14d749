---------------------------- MODULE Materialize ----------------------------
(***************************************************************************)
(* What a changeset does to the rows of a zone (_materialize): the tables  *)
(* of a version as functions from RRset keys to sets of rows.  ZoneStore   *)
(* publishes by these operators; ChangeSet computes their arguments from a *)
(* list of operations.                                                     *)
(***************************************************************************)
CONSTANT RRKeys   \* <<name, type>> pairs

\* The RRsets after operations that leave ops[k] as the RRset of k.
Applied(old, ops) ==
  [k \in RRKeys |-> IF k \in DOMAIN ops THEN ops[k] ELSE old[k]]

\* The sets of keys that _apply_ops may report as changed.  An RRset that was
\* replaced by the same records is reported if they came in another order, or
\* if it was different in between.
Noted(old, ops) ==
  {keys \in SUBSET DOMAIN ops : \A k \in DOMAIN ops \ keys : ops[k] = old[k]}

\* Copy the old snapshot, then redo the changed RRsets ...
Snapshot(old, rrsets, changed) ==
  [k \in RRKeys |-> IF k \in changed THEN rrsets[k] ELSE old[k]]

\* A defect: the DEL section is read from the new version.
DeltaOfNewRows(old, rrsets, changed) ==
  [del |-> [k \in RRKeys |-> IF k \in changed THEN rrsets[k] ELSE {}],
   add |-> [k \in RRKeys |-> IF k \in changed THEN rrsets[k] ELSE {}]]

\* ... and record them as a DEL and an ADD section.
Delta(old, rrsets, changed) ==
  [del |-> [k \in RRKeys |-> IF k \in changed THEN old[k] ELSE {}],
   add |-> [k \in RRKeys |-> IF k \in changed THEN rrsets[k] ELSE {}]]
=============================================================================
