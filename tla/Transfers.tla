----------------------------- MODULE Transfers -----------------------------
(***************************************************************************)
(* Zone transfers (app/dns_server.py) over the tables of ZoneStore: the    *)
(* version decision and pin in one transaction, the read snapshot opened   *)
(* after it, the stream with its heartbeats, the release, and the cleanup  *)
(* that honours and reaps pins.  Publishes, rotations of retention and     *)
(* cleanups go on meanwhile; connections break and instances die.          *)
(*                                                                         *)
(* Authentication is module TransferKeys.  A session is one transfer that  *)
(* has passed it; ref_id is the session's name.  The rows of a transfer    *)
(* are sent in sections (the opening SOA, the other rows, the closing SOA; *)
(* or the opening SOA and one delta after the other); where DNS messages   *)
(* end inside that sequence is left open.                                  *)
(***************************************************************************)
EXTENDS ZoneStore

CONSTANTS
  Sessions,  \* transfers, each served once
  Stale,     \* REF_STALE_SECONDS, in ticks of the clock
  MaxNow     \* bound: the clock stops there

ASSUME TransferAssumption ==
  /\ MayBePinned
  /\ Stale \in Nat \ {0}
  /\ MaxNow \in Nat

VARIABLES
  refs,     \* table transfer_refs: session -> pin
  session,  \* the connection handlers, and what their clients have received
  now,      \* now_ms(), the same on all instances
  history   \* every version ever published; deleted ones are remembered

tvars == <<vars, refs, session, now, history>>

NoRRs == [k \in RRKeys |-> {}]
NoTables == [versions |-> Empty, records |-> Empty, changes |-> Empty]

\* The plan of authorize_transfer, the snapshot connection, and the client.
Idle == [state |-> "IDLE", mode |-> "AXFR", serial |-> 0, held |-> NoRRs,
         target |-> 0, targetSerial |-> 0, snap |-> NoTables, sent |-> 0,
         copy |-> NoRRs]

\* What a client may hold: a copy of any version, or one from elsewhere.
Holdings ==
  {history[v] : v \in DOMAIN history}
    \union {[serial |-> s, rrsets |-> NoRRs] :
              s \in Serials \ {history[v].serial : v \in DOMAIN history}}

TInit ==
  /\ Init
  /\ refs = Empty
  /\ session = [t \in Sessions |-> Idle]
  /\ now = 0
  /\ history = Empty
-----------------------------------------------------------------------------
(* authorize_transfer *)

\* SELECT version_id FROM versions WHERE serial = s.
VersionsAt(table, s) == {v \in DOMAIN table : table[v].serial = s}
VersionAt(table, s) == CHOOSE v \in VersionsAt(table, s) : TRUE

\* No version between v and the current one is missing.
Unbroken(v) ==
  Cardinality({u \in DOMAIN versions : v < u /\ u <= zone.version})
    = zone.version - v

\* _decide_ixfr for client serial s.
DecideIxfr(s) ==
  LET relation == Compare(s, zone.serial)
  IN  IF relation = "EQUAL" THEN "IXFR"
      ELSE IF relation = "GREATER"
              /\ \E v \in VersionsAt(versions, s) :
                   v < zone.version /\ Unbroken(v)
        THEN "IXFR" ELSE "AXFR"

\* pin_transfer: an IXFR also pins the version its client starts from.
Pin(mode, s) ==
  [version |-> zone.version,
   min |-> IF mode = "IXFR" THEN VersionAt(versions, s) ELSE zone.version,
   lastSeen |-> now, state |-> "OPEN"]

Authorize(t, qtype, h) ==
  LET mode == IF qtype = "AXFR" THEN "AXFR" ELSE DecideIxfr(h.serial)
  IN  /\ session[t].state = "IDLE"
      /\ zone.created
      /\ refs' = Insert(refs, t, Pin(mode, h.serial))
      /\ session' = [session EXCEPT ![t] =
           [Idle EXCEPT !.state = "PINNED", !.mode = mode,
                        !.serial = h.serial, !.held = h.rrsets,
                        !.target = zone.version, !.targetSerial = zone.serial]]
      /\ UNCHANGED <<vars, now, history>>
-----------------------------------------------------------------------------
(* The stream.  x is a session. *)

\* release_transfer: the row may be gone, and an SQLite error is ignored.
Release(t) ==
  \/ refs' = IF t \in DOMAIN refs
               THEN [refs EXCEPT ![t].state = "DONE", ![t].lastSeen = now]
               ELSE refs
  \/ UNCHANGED refs

\* heartbeat_transfer: likewise.
Heartbeat(t) ==
  \/ refs' = IF t \in DOMAIN refs THEN [refs EXCEPT ![t].lastSeen = now]
                                  ELSE refs
  \/ UNCHANGED refs

\* Whether an IXFR carries deltas; if not, the client is up to date.
HasDeltas(x) ==
  x.mode = "IXFR" /\ Compare(x.serial, x.targetSerial) = "GREATER"

\* The rows that the stream builders cannot do without are in the tables.
Readable(x) ==
  /\ x.target \in DOMAIN records
  /\ HasDeltas(x) => VersionsAt(versions, x.serial) # {}

\* The first SELECT fixes what the read transaction of the snapshot
\* connection sees; the rows asked for first are there ...
OpenSnapshot(t) ==
  /\ session[t].state = "PINNED"
  /\ Readable(session[t])
  /\ session' = [session EXCEPT
       ![t].state = "STREAMING",
       ![t].snap = [versions |-> versions, records |-> records,
                    changes |-> changes]]
  /\ UNCHANGED <<vars, refs, now, history>>

\* ... or a query returns no row: the client gets SERVFAIL.
OpenFails(t) ==
  /\ session[t].state = "PINNED"
  /\ ~Readable(session[t])
  /\ session' = [session EXCEPT ![t].state = "REFUSED"]
  /\ Release(t)
  /\ UNCHANGED <<vars, now, history>>

\* Where the delta chain of an IXFR starts, in the snapshot.
Start(x) == VersionAt(x.snap.versions, x.serial)

Sections(x) ==
  IF x.mode = "AXFR" THEN 3
  ELSE IF HasDeltas(x) THEN 1 + AtLeast(0, x.target - Start(x)) ELSE 1

\* The delta of version v in the snapshot; a version without rows adds none.
DeltaOf(x, v) ==
  IF v \in DOMAIN x.snap.changes THEN x.snap.changes[v]
                                 ELSE [del |-> NoRRs, add |-> NoRRs]

WithDelta(rrsets, delta) ==
  [k \in RRKeys |-> (rrsets[k] \ delta.del[k]) \union delta.add[k]]

\* A defect: rows are read from the tables as they are, not the snapshot.
ReceivedLate(x) ==
  IF x.mode = "AXFR"
    THEN [k \in RRKeys |->
            IF (k = SOAKey) = (x.sent # 1) /\ zone.version \in DOMAIN records
              THEN records[zone.version][k] ELSE x.copy[k]]
  ELSE IF x.sent = 0 THEN x.held
  ELSE WithDelta(x.copy, DeltaOf(x, Start(x) + x.sent))

\* What the client has built from the stream after one more section.
Received(x) ==
  IF x.mode = "AXFR"
    THEN [k \in RRKeys |-> IF (k = SOAKey) = (x.sent # 1)
                             THEN x.snap.records[x.target][k] ELSE x.copy[k]]
  ELSE IF x.sent = 0 THEN x.held
  ELSE WithDelta(x.copy, DeltaOf(x, Start(x) + x.sent))

SendSection(t) ==
  /\ session[t].state = "STREAMING"
  /\ session[t].sent < Sections(session[t])
  /\ session' = [session EXCEPT ![t].sent = @ + 1,
                                ![t].copy = Received(session[t])]
  /\ Heartbeat(t)
  /\ UNCHANGED <<vars, now, history>>

\* A message that ends within a section.
SendPart(t) ==
  /\ session[t].state = "STREAMING"
  /\ session[t].sent < Sections(session[t])
  /\ Heartbeat(t)
  /\ UNCHANGED <<vars, session, now, history>>

Finish(t) ==
  /\ session[t].state = "STREAMING"
  /\ session[t].sent = Sections(session[t])
  /\ session' = [session EXCEPT ![t].state = "COMPLETE"]
  /\ Release(t)
  /\ UNCHANGED <<vars, now, history>>

\* The client goes away, the connection idles out, a query fails.
Break(t) ==
  /\ session[t].state \in {"PINNED", "STREAMING"}
  /\ session' = [session EXCEPT ![t].state = "BROKEN"]
  /\ Release(t)
  /\ UNCHANGED <<vars, now, history>>

\* The instance dies: nothing releases the pin.
Die(t) ==
  /\ session[t].state \in {"PINNED", "STREAMING"}
  /\ session' = [session EXCEPT ![t].state = "BROKEN"]
  /\ UNCHANGED <<vars, refs, now, history>>
-----------------------------------------------------------------------------
(* run_cleanup, with the pins *)

\* Pins that hold history back, and rows that are deleted.  A pin last seen
\* exactly at the limit is neither.
Alive == {t \in DOMAIN refs : refs[t].state = "OPEN"
                              /\ refs[t].lastSeen > now - Stale}
Dead == {t \in DOMAIN refs :
           \/ refs[t].state = "DONE"
           \/ refs[t].state = "OPEN" /\ refs[t].lastSeen < now - Stale}

\* A defect: only the versions being sent are protected.
PinnedTargets == {refs[t].version : t \in Alive}

PinnedVersions == {AtMost(refs[t].version, refs[t].min) : t \in Alive}

\* COALESCE(MIN(...), 999999999)
IsHorizon(m) ==
  \/ PinnedVersions = {} /\ m = NoPin
  \/ m \in PinnedVersions /\ \A k \in PinnedVersions : m <= k

RunCleanupWithPins(w) ==
  /\ \E m \in PinnedVersions \union {NoPin} :
       IsHorizon(m) /\ CleanupUpTo(w, m)
  /\ refs' = Restrict(refs, DOMAIN refs \ Dead)
  /\ UNCHANGED <<session, now, history>>
-----------------------------------------------------------------------------
\* The other steps of ZoneStore, which do not touch transfers.
StoreStep ==
  /\ \/ \E z \in Creations : CreateZone(z)
     \/ \E c \in Clients : ClientStep(c)
     \/ \E k \in Retentions : SetRetention(k)
     \/ \E w \in Cleaners : ClaimTask(w) \/ ClaimNothing(w) \/ CleanupAborted(w)
  /\ history' = IF zone'.created
                  THEN Insert(history, zone'.version,
                              [serial |-> zone'.serial,
                               rrsets |-> records'[zone'.version]])
                  ELSE history
  /\ UNCHANGED <<refs, session, now>>

Tick ==
  /\ now < MaxNow
  /\ now' = now + 1
  /\ UNCHANGED <<vars, refs, session, history>>

SessionStep(t) ==
  \/ \E qtype \in {"AXFR", "IXFR"}, h \in Holdings : Authorize(t, qtype, h)
  \/ OpenSnapshot(t) \/ OpenFails(t)
  \/ SendSection(t) \/ SendPart(t) \/ Finish(t)
  \/ Break(t) \/ Die(t)

TNext ==
  \/ StoreStep
  \/ \E w \in Cleaners : RunCleanupWithPins(w)
  \/ \E t \in Sessions : SessionStep(t)
  \/ Tick

TSpec == TInit /\ [][TNext]_tvars
-----------------------------------------------------------------------------
(* Properties. *)

\* The serial names one version of the zone: nobody is a whole lap behind.
Unambiguous(s) ==
  \A v, w \in DOMAIN history :
    history[v].serial = s /\ history[w].serial = s => v = w

(***************************************************************************)
(* A completed transfer leaves the client with exactly the version that    *)
(* was current when the transfer was authorized: never a mix of versions,  *)
(* never a truncated chain, whatever was published, cleaned up or expired  *)
(* meanwhile, and whichever of AXFR and IXFR was chosen.                   *)
(***************************************************************************)
TransferExact ==
  \A t \in Sessions :
    LET x == session[t]
    IN  x.state = "COMPLETE" /\ (x.mode = "IXFR" => Unambiguous(x.serial))
          => x.copy = history[x.target].rrsets

(***************************************************************************)
(* Until its pin could be stale, a transfer that was authorized finds all  *)
(* the versions its stream needs, however late it opens its snapshot.      *)
(***************************************************************************)
FreshPinKeepsRows ==
  \A t \in Sessions :
    LET x == session[t]
    IN  x.state = "PINNED" /\ t \in Alive =>
          /\ Readable(x)
          /\ refs[t].min .. x.target \subseteq DOMAIN versions
=============================================================================
