---------------------------- MODULE MCTransfers ----------------------------
(***************************************************************************)
(* Instances of Transfers for TLC.                                         *)
(***************************************************************************)
EXTENDS Transfers, MCZoneStore

SymmetricSessions == Permutations(Clients) \union Permutations(Sessions)
=============================================================================
