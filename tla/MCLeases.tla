------------------------------ MODULE MCLeases ------------------------------
(***************************************************************************)
(* Instances of Leases for TLC.                                            *)
(***************************************************************************)
EXTENDS Leases, MCZoneStore

OnePublish == {Change("a", 3, 0, A, {a1})}
=============================================================================
