----------------------------- MODULE MCQueries -----------------------------
(***************************************************************************)
(* Instances of Queries for TLC.                                           *)
(***************************************************************************)
EXTENDS Queries, MCZoneStore

\* Publishes that add a name and give the apex a second NS.
GrowingRequests ==
  {Change("a", 3, 0, A, {a1}), Change("b", 0, 1, NSKey, {ns1, ns2})}
=============================================================================
