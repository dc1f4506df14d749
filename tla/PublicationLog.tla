--------------------------- MODULE PublicationLog ---------------------------
(***************************************************************************)
(* What the publish API promises, with no tables, retries, lost answers or *)
(* cleanup: a zone is a log of request ids that only grows, one entry per  *)
(* accepted publish, each moving the serial forward; a request id is       *)
(* decided once and for ever, either by its one entry or by its refusal.   *)
(* The versions of ZoneStore come and go beneath this log; retries,        *)
(* replays, cleanups and lost answers do not show in it.                   *)
(***************************************************************************)
EXTENDS Serial, Sequences

CONSTANT RequestIds

VARIABLES
  created,  \* whether the zone exists
  serial,   \* its serial
  log,      \* log[v]: the request that made version v
  refused   \* the requests that were refused for good

vars == <<created, serial, log, refused>>

Decided(id) == id \in refused \/ \E v \in DOMAIN log : log[v] = id

Init ==
  /\ created = FALSE
  /\ serial = 0
  /\ log = <<>>
  /\ refused = {}

Create(s) ==
  /\ ~created
  /\ created' = TRUE
  /\ serial' = s
  /\ UNCHANGED <<log, refused>>

Accept(id, s) ==
  /\ created
  /\ ~Decided(id)
  /\ IsForward(serial, s)
  /\ serial' = s
  /\ log' = Append(log, id)
  /\ UNCHANGED <<created, refused>>

Refuse(id) ==
  /\ created
  /\ ~Decided(id)
  /\ refused' = refused \union {id}
  /\ UNCHANGED <<created, serial, log>>

Next ==
  \/ \E s \in Serials : Create(s)
  \/ \E id \in RequestIds :
       \/ \E s \in Serials : Accept(id, s)
       \/ Refuse(id)

Spec == Init /\ [][Next]_vars
=============================================================================
