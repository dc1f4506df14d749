---------------------------- MODULE MCZoneStore ----------------------------
(***************************************************************************)
(* Instances of ZoneStore for TLC: a serial space of four values, so that  *)
(* 3 -> 0 wraps, 3 -> 1 is undecidable and 3 -> 2 goes back.               *)
(***************************************************************************)
EXTENDS ZoneStore, TLC

CONSTANTS apex, www, ns1, ns2, a1, a2

MCNames == {apex, www}
MCTypes == {"SOA", "NS", "A", "CNAME"}

A == <<www, "A">>
CNAME == <<www, "CNAME">>

MCCreations == {[serial |-> 3, ns |-> {ns1}, retain |-> k] : k \in Retentions}

Request(id, base, next, ops, defect) ==
  [id |-> id, base |-> base, next |-> next, ops |-> ops, defect |-> defect]

\* A well-formed request that sets the SOA's serial and one more RRset.
Change(id, base, next, key, rrset) ==
  Request(id, base, next, (SOAKey :> {next}) @@ (key :> rrset), "NONE")

\* A change that also states an RRset as it already is.
Restating(change, key, rrset) ==
  [change EXCEPT !.ops = @ @@ (key :> rrset)]

\* Races on one base, a dependent publish, reused ids.
RacingRequests ==
  {Change("a", 3, 0, A, {a1}), Change("a", 3, 0, A, {a2}),
   Change("b", 3, 0, A, {a2}), Change("b", 0, 1, A, {a1, a2}),
   Change("c", 3, 1, A, {a1}), Change("c", 0, 1, NSKey, {})}

\* One request per check of publish.
InvalidRequests ==
  {Change("a", 3, 0, A, {a1}), Change("b", 0, 1, CNAME, {a2}),
   Change("b", 3, 2, A, {a1}), Change("c", 3, 0, NSKey, {}),
   Change("c", 3, 0, CNAME, {a1, a2}), Change("d", 3, 0, CNAME, {a1}),
   Request("d", 3, 0, A :> {a1}, "NONE"),
   Request("e", 3, 0, SOAKey :> {}, "NONE"),
   Request("e", 3, 0, A :> {a1}, "VALIDATION_ERROR"),
   Request("e", 3, 0, SOAKey :> {0, 1}, "CHANGESET_INVALID"),
   Change("a", 3, 0, NSKey, {ns1, ns2, a1})}

PublishRequests == RacingRequests \union InvalidRequests

\* A chain of publishes long enough to come back to the first serial; one
\* states the NS again.
WrappingRequests ==
  {Change("a", 3, 0, A, {a1}), Change("b", 0, 1, A, {a2}),
   Change("c", 1, 2, NSKey, {ns2}),
   Restating(Change("d", 2, 3, A, {}), NSKey, {ns2})}

\* Two publishes one after the other, the second states the first one's rows.
TwoPublishes ==
  {Change("a", 3, 0, A, {a1}),
   Restating(Change("b", 0, 1, NSKey, {ns2}), A, {a1})}

Symmetric == Permutations(Clients)
=============================================================================
