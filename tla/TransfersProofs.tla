-------------------------- MODULE TransfersProofs --------------------------
(***************************************************************************)
(* Transfers for any number of sessions, any clock and any staleness       *)
(* limit. Since a cleanup that looks at pins meets one of the horizons     *)
(* that ZoneStore allows, Transfers implements ZoneStore and inherits its  *)
(* theorems; with them, pins are shown to protect what they pin, and a     *)
(* completed transfer to be exact.                                         *)
(***************************************************************************)
EXTENDS Transfers, ZoneStoreProofs

\* The pins are rows about versions that the zone has reached.
PinsWellFormed ==
  /\ now \in Nat
  /\ DOMAIN refs \subseteq Sessions
  /\ refs \in [DOMAIN refs -> [version : Nat, min : Nat, lastSeen : Nat,
                               state : {"OPEN", "DONE"}]]
  /\ \A t \in DOMAIN refs :
       zone.created /\ refs[t].version <= zone.version /\ refs[t].min <= zone.version

\* The invariant under which a step of Transfers is one of ZoneStore.
Base == Structure /\ SerialChain /\ PinsWellFormed

\* The remembered versions, and what the sessions hold.
HistoryTyped ==
  /\ DOMAIN history = IF zone.created THEN 0 .. zone.version ELSE {}
  /\ history \in [DOMAIN history -> [serial : Serials, rrsets : RRsets]]

\* They include the retained ones, as they were published.
HistoryKept ==
  /\ HistoryTyped
  /\ \A v \in DOMAIN versions :
       history[v] = [serial |-> versions[v].serial, rrsets |-> records[v]]

\* A step forgets no version.
HistoryGrows ==
  \A v \in DOMAIN history : v \in DOMAIN history' /\ history'[v] = history[v]

\* SELECT ... WHERE serial = s finds a version if there is one.
LEMMA VersionAtFound ==
  ASSUME NEW table, NEW s, VersionsAt(table, s) # {}
  PROVE  /\ VersionAt(table, s) \in DOMAIN table
         /\ table[VersionAt(table, s)].serial = s
<1>1. VersionAt(table, s) \in VersionsAt(table, s)
  BY DEF VersionAt
<1> QED BY <1>1 DEF VersionsAt

\* Serials that compare as equal are equal.
LEMMA EqualSerials ==
  ASSUME NEW s \in Serials, NEW r \in Serials, Compare(s, r) = "EQUAL"
  PROVE  s = r
BY ModuloOfSerial DEF Compare

\* An incremental transfer starts at a retained version that is not ahead.
LEMMA IxfrHasStart ==
  ASSUME Base, zone.created, NEW s \in Serials, DecideIxfr(s) = "IXFR"
  PROVE  /\ VersionsAt(versions, s) # {}
         /\ Compare(s, zone.serial) \in {"EQUAL", "GREATER"}
         /\ VersionAt(versions, s) \in DOMAIN versions
         /\ VersionAt(versions, s) \in Nat
         /\ VersionAt(versions, s) <= zone.version
<1>1. Compare(s, zone.serial) \in {"EQUAL", "GREATER"}
  BY DEF DecideIxfr
<1>2. VersionsAt(versions, s) # {}
  <2>1. CASE Compare(s, zone.serial) = "EQUAL"
    <3>1. s = zone.serial
      BY <2>1, EqualSerials DEF Base, Structure, TypeOK
    <3> QED BY <3>1 DEF Base, Structure, RetainedInterval, SerialChain, VersionsAt
  <2>2. CASE Compare(s, zone.serial) = "GREATER"
    BY <2>2 DEF DecideIxfr
  <2> QED BY <1>1, <2>1, <2>2
<1>3. VersionAt(versions, s) \in DOMAIN versions
  BY <1>2, VersionAtFound
<1> QED BY <1>1, <1>2, <1>3 DEF Base, Structure, TypeOK, RetainedInterval

\* The row that pin_transfer inserts.
LEMMA NewPin ==
  ASSUME Base, zone.created, NEW s \in Serials, NEW mode \in {"AXFR", "IXFR"},
         mode = "IXFR" => DecideIxfr(s) = "IXFR"
  PROVE  /\ Pin(mode, s) \in [version : Nat, min : Nat, lastSeen : Nat,
                              state : {"OPEN", "DONE"}]
         /\ Pin(mode, s).version = zone.version
         /\ Pin(mode, s).min \in DOMAIN versions
         /\ Pin(mode, s).min <= zone.version
         /\ mode = "IXFR" => versions[Pin(mode, s).min].serial = s
<1>1. zone.version \in DOMAIN versions /\ zone.version \in Nat /\ now \in Nat
  BY DEF Base, Structure, TypeOK, RetainedInterval, PinsWellFormed
<1>2. CASE mode = "IXFR"
  <2>1. versions[VersionAt(versions, s)].serial = s
    BY <1>2, IxfrHasStart, VersionAtFound
  <2> QED BY <1>1, <1>2, <2>1, IxfrHasStart DEF Pin
<1>3. CASE mode = "AXFR"
  BY <1>1, <1>3 DEF Pin
<1> QED BY <1>2, <1>3

\* Once created, a zone stays, and its version never goes back.
LEMMA ZoneAdvances ==
  ASSUME Structure, [Next]_vars, zone.created
  PROVE  zone'.created /\ zone'.version >= zone.version
<1>1. zone.version \in Nat
  BY DEF Structure, TypeOK
<1>2. ASSUME NEW c \in Clients, NEW n \in 1 .. MaxAttempts, PublishCommits(c, n)
      PROVE  zone'.created /\ zone'.version >= zone.version
  <2>1. zone'.created /\ zone'.version = zone.version + 1
    BY <1>2, CommitEffect
  <2> QED BY <1>1, <2>1
<1>3. ASSUME NEW w \in Cleaners, RunCleanup(w) PROVE zone' = zone
  BY <1>3, CleanupEffect
<1>4. CASE zone'.created = zone.created /\ zone'.version = zone.version
  BY <1>1, <1>4
<1>5. ASSUME NEW z \in Creations, CreateZone(z) PROVE FALSE
  BY <1>5 DEF CreateZone
<1> QED BY <1>1, <1>2, <1>3, <1>4, <1>5, StepCases

\* A cleanup that looks at the pins meets a horizon of ZoneStore.
LEMMA PinsAreHorizons ==
  ASSUME Base, NEW w \in Cleaners, RunCleanupWithPins(w)
  PROVE  RunCleanup(w)
<1>1. PICK m \in PinnedVersions \union {NoPin} : CleanupUpTo(w, m)
  BY DEF RunCleanupWithPins
<1>2. PinnedVersions \subseteq 0 .. zone.version
  BY DEF PinnedVersions, Alive, AtMost, Base, PinsWellFormed, Structure, TypeOK
<1>3. m \in Horizons
  BY <1>1, <1>2, TransferAssumption DEF Horizons
<1> QED BY <1>1, <1>3 DEF RunCleanup

\* Every step of Transfers is a step of ZoneStore, or leaves its state alone.
LEMMA TransferStepIsStoreStep ==
  ASSUME Base, [TNext]_tvars
  PROVE  [Next]_vars
<1>1. CASE StoreStep
  BY <1>1 DEF StoreStep, Next, CleanerStep
<1>2. ASSUME NEW w \in Cleaners, RunCleanupWithPins(w) PROVE Next
  BY <1>2, PinsAreHorizons DEF Next, CleanerStep
<1>3. ASSUME NEW t \in Sessions, SessionStep(t) PROVE UNCHANGED vars
  BY <1>3 DEF SessionStep, Authorize, OpenSnapshot, OpenFails, SendSection, SendPart,
              Finish, Break, Die
<1>4. CASE Tick \/ UNCHANGED tvars
  BY <1>4 DEF Tick, tvars
<1> QED BY <1>1, <1>2, <1>3, <1>4 DEF TNext

\* What a client holds before a transfer.
LEMMA HoldingsTyped ==
  ASSUME HistoryTyped, NEW h \in Holdings
  PROVE  h.serial \in Serials /\ h.rrsets \in RRsets
BY DEF HistoryTyped, Holdings, NoRRs, RRsets

\* Pins that are inserted, changed as releases and heartbeats do, or deleted.
LEMMA PinsKept ==
  ASSUME Base, NEW t \in Sessions, Release(t) \/ Heartbeat(t) \/ UNCHANGED refs,
         UNCHANGED <<vars, now>>
  PROVE  PinsWellFormed'
<1>1. /\ DOMAIN refs' = DOMAIN refs
      /\ refs' \in [DOMAIN refs -> [version : Nat, min : Nat, lastSeen : Nat,
                                    state : {"OPEN", "DONE"}]]
      /\ \A u \in DOMAIN refs : refs'[u].version = refs[u].version
                                /\ refs'[u].min = refs[u].min
  BY DEF Release, Heartbeat, Base, PinsWellFormed
<1> QED BY <1>1 DEF Base, PinsWellFormed, vars

\* Every step keeps the pins well formed.
LEMMA PinsStep ==
  ASSUME Base, HistoryTyped, [TNext]_tvars
  PROVE  PinsWellFormed'
<1> USE DEF Base
<1>1. ASSUME UNCHANGED refs, now' = now \/ now' = now + 1 PROVE PinsWellFormed'
  <2>1. \A t \in DOMAIN refs : zone'.created /\ zone'.version >= zone.version
    BY TransferStepIsStoreStep, ZoneAdvances DEF PinsWellFormed
  <2>2. Structure'
    BY TransferStepIsStoreStep, StructureStep
  <2>3. zone.version \in Nat /\ zone'.version \in Nat
    BY <2>2 DEF Structure, TypeOK
  <2> QED BY <1>1, <2>1, <2>3 DEF PinsWellFormed
<1>2. CASE StoreStep \/ Tick \/ UNCHANGED tvars
  BY <1>1, <1>2 DEF StoreStep, Tick, tvars
<1>3. ASSUME NEW w \in Cleaners, RunCleanupWithPins(w) PROVE PinsWellFormed'
  <2>1. /\ refs' = Restrict(refs, DOMAIN refs \ Dead)
        /\ zone' = zone
        /\ now' = now
    BY <1>3 DEF RunCleanupWithPins, CleanupUpTo
  <2> QED BY <2>1 DEF PinsWellFormed, Restrict
<1>4. ASSUME NEW t \in Sessions, NEW qtype \in {"AXFR", "IXFR"}, NEW h \in Holdings,
             Authorize(t, qtype, h)
      PROVE  PinsWellFormed'
  <2> DEFINE mode == IF qtype = "AXFR" THEN "AXFR" ELSE DecideIxfr(h.serial)
             pin == Pin(mode, h.serial)
  <2>1. refs' = Insert(refs, t, pin) /\ zone.created /\ UNCHANGED <<vars, now>>
    BY <1>4 DEF Authorize
  <2>2. h.serial \in Serials
    BY HoldingsTyped
  <2>3. mode \in {"AXFR", "IXFR"} /\ (mode = "IXFR" => DecideIxfr(h.serial) = "IXFR")
    BY DEF DecideIxfr
  <2>4. /\ pin \in [version : Nat, min : Nat, lastSeen : Nat, state : {"OPEN", "DONE"}]
        /\ pin.version = zone.version
        /\ pin.min <= zone.version
    <3> HIDE DEF mode
    <3> QED BY <2>1, <2>2, <2>3, NewPin
  <2>5. zone.version \in Nat /\ zone' = zone
    BY <2>1 DEF Structure, TypeOK, vars
  <2> HIDE DEF pin
  <2> QED BY <2>1, <2>4, <2>5 DEF PinsWellFormed, Insert
<1>5. ASSUME NEW t \in Sessions, SessionStep(t),
             ~ \E qtype \in {"AXFR", "IXFR"}, h \in Holdings : Authorize(t, qtype, h)
      PROVE  PinsWellFormed'
  BY <1>5, PinsKept DEF SessionStep, OpenSnapshot, OpenFails, SendSection, SendPart,
                        Finish, Break, Die
<1> QED BY <1>2, <1>3, <1>4, <1>5 DEF TNext, SessionStep
-----------------------------------------------------------------------------
\* What a step can do to the history: nothing, or note the current version.
LEMMA HistoryCases ==
  ASSUME [TNext]_tvars
  PROVE  \/ /\ history' = history
            /\ UNCHANGED vars \/ \E w \in Cleaners : RunCleanupWithPins(w)
         \/ history' = IF zone'.created
                         THEN Insert(history, zone'.version,
                                     [serial |-> zone'.serial,
                                      rrsets |-> records'[zone'.version]])
                         ELSE history
<1>1. ASSUME NEW t \in Sessions, SessionStep(t) PROVE UNCHANGED <<vars, history>>
  BY <1>1 DEF SessionStep, Authorize, OpenSnapshot, OpenFails, SendSection, SendPart,
              Finish, Break, Die
<1> QED BY <1>1 DEF TNext, StoreStep, Tick, tvars, RunCleanupWithPins

\* Every step keeps the history, and what was in it.
LEMMA HistoryStep ==
  ASSUME Base, HistoryKept, [TNext]_tvars
  PROVE  HistoryKept' /\ HistoryGrows
<1> DEFINE noted == IF zone'.created
                      THEN Insert(history, zone'.version,
                                  [serial |-> zone'.serial,
                                   rrsets |-> records'[zone'.version]])
                      ELSE history
<1>1. [Next]_vars /\ Structure /\ Structure'
  BY TransferStepIsStoreStep, StructureStep DEF Base
<1>2. SerialChain'
  BY <1>1, SerialChainStep DEF Base
<1>3. /\ zone.version \in Nat /\ zone'.version \in Nat
      /\ zone'.serial \in Serials
      /\ DOMAIN records' = DOMAIN versions'
      /\ records' \in [DOMAIN versions' -> RRsets]
      /\ zone'.created => /\ zone'.version \in DOMAIN versions'
                          /\ versions'[zone'.version].serial = zone'.serial
      /\ ~zone.created => DOMAIN versions = {} /\ DOMAIN history = {}
      /\ ~zone'.created => DOMAIN versions' = {}
      /\ \A v \in DOMAIN versions : v <= zone.version /\ v \in Nat
      /\ zone.created => zone.version \in DOMAIN versions
  BY <1>1, <1>2 DEF Structure, TypeOK, RetainedInterval, EmptyBeforeCreation, SerialChain,
                    HistoryKept, HistoryTyped
<1>4. ASSUME history' = noted, zone.created, zone'.created,
             zone'.version \in {zone.version, zone.version + 1},
             \A v \in DOMAIN versions' : v = zone'.version \/ v \in DOMAIN versions,
             \A v \in DOMAIN versions' :
               v \in DOMAIN versions => versions'[v] = versions[v] /\ records'[v] = records[v],
             zone'.version = zone.version + 1 \/ zone'.version \in DOMAIN versions
      PROVE  HistoryKept' /\ HistoryGrows
  <2>1. DOMAIN history = 0 .. zone.version
    BY <1>4 DEF HistoryKept, HistoryTyped, HistoryGrows
  <2>2. /\ DOMAIN history' = 0 .. zone'.version
        /\ \A v \in DOMAIN history' :
             history'[v] = IF v = zone'.version
                             THEN [serial |-> zone'.serial, rrsets |-> records'[v]]
                             ELSE history[v]
    BY <1>3, <1>4, <2>1 DEF Insert
  <2>3. HistoryTyped'
    BY <1>3, <1>4, <2>2 DEF HistoryTyped, HistoryKept, Insert
  <2>4. ASSUME NEW v \in DOMAIN history
        PROVE  v \in DOMAIN history' /\ history'[v] = history[v]
    <3>1. CASE v = zone'.version
      <4>1. v <= zone.version /\ v # zone.version + 1
        BY <1>3, <2>1
      <4>2. v \in DOMAIN versions /\ v \in DOMAIN versions'
        BY <1>3, <1>4, <3>1, <4>1
      <4>3. versions[v].serial = zone'.serial /\ records'[v] = records[v]
        BY <1>3, <1>4, <3>1, <4>2
      <4>4. history[v] = [serial |-> versions[v].serial, rrsets |-> records[v]]
        BY <4>2 DEF HistoryKept
      <4>5. v \in DOMAIN history'
        BY <1>3, <2>2, <3>1
      <4>6. history'[v] = [serial |-> zone'.serial, rrsets |-> records'[v]]
        BY <2>2, <3>1, <4>5
      <4> QED BY <4>3, <4>4, <4>5, <4>6
    <3>2. CASE v # zone'.version
      <4>1. v \in DOMAIN history'
        BY <1>3, <1>4, <2>1, <2>2
      <4> QED BY <2>2, <3>2, <4>1
    <3> QED BY <3>1, <3>2
  <2>5. ASSUME NEW v \in DOMAIN versions'
        PROVE  history'[v] = [serial |-> versions'[v].serial, rrsets |-> records'[v]]
    <3>1. CASE v = zone'.version
      BY <1>3, <1>4, <2>2, <3>1
    <3>2. CASE v # zone'.version
      <4>1. v \in DOMAIN versions /\ v \in DOMAIN history'
        BY <1>3, <1>4, <2>2, <3>2
      <4> QED BY <1>4, <2>2, <3>2, <4>1 DEF HistoryKept
    <3> QED BY <3>1, <3>2
  <2> QED BY <2>3, <2>4, <2>5 DEF HistoryKept, HistoryGrows
<1>5. ASSUME history' = noted, NEW z \in Creations, CreateZone(z) PROVE HistoryKept' /\ HistoryGrows
  <2>1. ~zone.created /\ zone'.created /\ zone'.version = 0
    BY <1>5 DEF CreateZone
  <2>2. DOMAIN versions' = {0}
    BY <1>3, <1>5, <2>1 DEF CreateZone, Insert
  <2>3. DOMAIN history' = {0} /\ history'[0] = [serial |-> zone'.serial, rrsets |-> records'[0]]
    BY <1>3, <1>5, <2>1 DEF Insert
  <2>4. HistoryTyped'
    BY <1>3, <2>1, <2>2, <2>3, <1>5 DEF HistoryTyped, Insert
  <2> QED BY <1>3, <2>1, <2>2, <2>3, <2>4 DEF HistoryKept, HistoryGrows
<1>6. ASSUME history' = noted, NEW c \in Clients, NEW n \in 1 .. MaxAttempts,
             PublishCommits(c, n)
      PROVE  HistoryKept' /\ HistoryGrows
  <2>1. /\ zone.created /\ zone'.created /\ zone'.version = zone.version + 1
        /\ zone.version + 1 \notin DOMAIN versions
        /\ DOMAIN records = DOMAIN versions
    BY <1>1, <1>6, CommitFacts, CommitEffect
  <2>2. /\ DOMAIN versions' = DOMAIN versions \union {zone'.version}
        /\ \A v \in DOMAIN versions :
             versions'[v] = versions[v] /\ records'[v] = records[v]
    <3>1. DOMAIN records = DOMAIN versions /\ zone'.version \notin DOMAIN versions
      BY <2>1
    <3>2. PICK s, rows : /\ s = [serial |-> req[c].next, request |-> req[c].id]
                         /\ rows = Applied(records[zone.version], req[c].ops)
      OBVIOUS
    <3>3. /\ versions' = Insert(versions, zone'.version, s)
          /\ records' = Insert(records, zone'.version, rows)
      BY <1>1, <1>6, <2>1, <3>2, CommitEffect
    <3> QED BY ONLY <3>1, <3>3 DEF Insert
  <2> HIDE DEF noted
  <2> QED BY <1>4, <1>6, <2>1, <2>2
<1>7. ASSUME history' = noted, NEW w \in Cleaners, RunCleanup(w) PROVE HistoryKept' /\ HistoryGrows
  <2>1. /\ zone' = zone
        /\ DOMAIN versions' \subseteq DOMAIN versions
        /\ \A v \in DOMAIN versions' :
             versions'[v] = versions[v] /\ records'[v] = records[v]
    BY <1>1, <1>3, <1>7, CleanupEffect
  <2>2. CASE zone.created
    <3> HIDE DEF noted
    <3> QED BY <1>3, <1>4, <1>7, <2>1, <2>2
  <2>3. CASE ~zone.created
    BY <1>3, <1>7, <2>1, <2>3 DEF HistoryKept, HistoryTyped, HistoryGrows
  <2> QED BY <2>2, <2>3
<1>8. ASSUME history' = noted, UNCHANGED <<versions, records>>,
             zone'.created = zone.created, zone'.serial = zone.serial,
             zone'.version = zone.version
      PROVE  HistoryKept' /\ HistoryGrows
  <2>1. CASE zone.created
    <3> HIDE DEF noted
    <3> QED BY <1>3, <1>4, <1>8, <2>1
  <2>2. CASE ~zone.created
    BY <1>3, <1>8, <2>2 DEF HistoryKept, HistoryTyped, HistoryGrows
  <2> QED BY <2>1, <2>2
<1>9. ASSUME history' = history, UNCHANGED vars PROVE HistoryKept' /\ HistoryGrows
  BY <1>9 DEF HistoryKept, HistoryTyped, HistoryGrows, vars
<1>10. ASSUME history' = history, NEW w \in Cleaners, RunCleanupWithPins(w) PROVE HistoryKept' /\ HistoryGrows
  <2>1. /\ zone' = zone
        /\ DOMAIN versions' \subseteq DOMAIN versions
        /\ \A v \in DOMAIN versions' :
             versions'[v] = versions[v] /\ records'[v] = records[v]
    BY <1>1, <1>3, <1>10, PinsAreHorizons, CleanupEffect
  <2> QED BY <1>10, <2>1 DEF HistoryKept, HistoryTyped, HistoryGrows
<1> HIDE DEF noted
<1>11. CASE history' = noted
  BY <1>1, <1>5, <1>6, <1>7, <1>8, <1>11, StepCases
<1> QED BY <1>9, <1>10, <1>11, HistoryCases DEF noted

\* The empty tables have no history.
LEMMA BaseInit == TInit => Base /\ HistoryKept
<1> SUFFICES ASSUME TInit PROVE Base /\ HistoryKept
  OBVIOUS
<1>1. Structure /\ SerialChain
  BY StructureInit DEF TInit, Init, SerialChain
<1>2. /\ now = 0 /\ refs = Empty /\ history = Empty
      /\ ~zone.created /\ DOMAIN versions = {}
  BY DEF TInit, Init, Empty
<1>3. PinsWellFormed /\ HistoryKept
  BY <1>2 DEF Empty, PinsWellFormed, HistoryKept, HistoryTyped
<1> QED BY <1>1, <1>3 DEF Base

\* Base and the history are inductive.
LEMMA BaseStep == Base /\ HistoryKept /\ [TNext]_tvars => Base' /\ HistoryKept'
<1> SUFFICES ASSUME Base, HistoryKept, [TNext]_tvars PROVE Base' /\ HistoryKept'
  OBVIOUS
<1>1. [Next]_vars
  BY TransferStepIsStoreStep
<1>2. Structure' /\ SerialChain'
  BY <1>1, StructureStep, SerialChainStep DEF Base
<1>3. PinsWellFormed' /\ HistoryKept'
  BY PinsStep, HistoryStep DEF HistoryKept
<1> QED BY <1>2, <1>3 DEF Base

\* Base and the history in every behaviour.
LEMMA BaseInvariant == TSpec => [](Base /\ HistoryKept)
BY BaseInit, BaseStep, PTL DEF TSpec

(***************************************************************************)
(* Transfers implements ZoneStore: with the pins as they really are, a     *)
(* cleanup does what ZoneStore allows for some horizon. So every theorem   *)
(* about the store holds while transfers run.                              *)
(***************************************************************************)
THEOREM TransfersImplementStore == TSpec => Spec
<1>1. TInit => Init
  BY DEF TInit
<1>2. Base /\ [TNext]_tvars => [Next]_vars
  BY TransferStepIsStoreStep
<1> QED BY <1>1, <1>2, BaseInvariant, PTL DEF TSpec, Spec
-----------------------------------------------------------------------------
\* The fields of a session that the proofs compute with.
IsSession(x) ==
  /\ x = [state |-> x.state, mode |-> x.mode, serial |-> x.serial, held |-> x.held,
          target |-> x.target, targetSerial |-> x.targetSerial, snap |-> x.snap,
          sent |-> x.sent, copy |-> x.copy]
  /\ x.mode \in {"AXFR", "IXFR"}
  /\ x.serial \in Serials
  /\ x.target \in Nat
  /\ x.targetSerial \in Serials
  /\ x.sent \in Nat

\* session is a table of such sessions.
SessionsTyped ==
  /\ session = [t \in Sessions |-> session[t]]
  /\ \A t \in Sessions : IsSession(session[t])

\* A handler that changes its session leaves the others alone.
LEMMA SetSession ==
  ASSUME SessionsTyped, NEW t \in Sessions, NEW x,
         session' = [session EXCEPT ![t] = x]
  PROVE  /\ session'[t] = x
         /\ \A u \in Sessions : u # t => session'[u] = session[u]
         /\ session' = [u \in Sessions |-> session'[u]]
BY DEF SessionsTyped

\* The decision: its plan and its pin.
LEMMA AuthorizeEffect ==
  ASSUME SessionsTyped, Base, HistoryTyped, NEW t \in Sessions,
         NEW qtype \in {"AXFR", "IXFR"}, NEW h \in Holdings, Authorize(t, qtype, h)
  PROVE  LET x == session'[t]
         IN  /\ IsSession(x)
             /\ session' = [u \in Sessions |-> session'[u]]
             /\ \A u \in Sessions : u # t => session'[u] = session[u]
             /\ zone.created
             /\ x.state = "PINNED" /\ x.sent = 0
             /\ x.serial = h.serial /\ x.held = h.rrsets
             /\ x.target = zone.version /\ x.targetSerial = zone.serial
             /\ x.mode = "IXFR" => DecideIxfr(x.serial) = "IXFR"
             /\ refs' = Insert(refs, t, Pin(x.mode, x.serial))
<1> DEFINE mode == IF qtype = "AXFR" THEN "AXFR" ELSE DecideIxfr(h.serial)
<1>1. PICK y :
        /\ y = [Idle EXCEPT !.state = "PINNED", !.mode = mode,
                            !.serial = h.serial, !.held = h.rrsets,
                            !.target = zone.version, !.targetSerial = zone.serial]
        /\ session' = [session EXCEPT ![t] = y]
  BY DEF Authorize
<1>7. /\ zone.created
      /\ refs' = Insert(refs, t, Pin(mode, h.serial))
  BY DEF Authorize
<1>2. mode \in {"AXFR", "IXFR"} /\ (mode = "IXFR" => DecideIxfr(h.serial) = "IXFR")
  BY DEF DecideIxfr
<1> HIDE DEF mode
<1>3. y = [state |-> "PINNED", mode |-> mode, serial |-> h.serial, held |-> h.rrsets,
           target |-> zone.version, targetSerial |-> zone.serial,
           snap |-> NoTables, sent |-> 0, copy |-> NoRRs]
  BY <1>1 DEF Idle
<1>4. h.serial \in Serials /\ zone.version \in Nat /\ zone.serial \in Serials
  BY HoldingsTyped DEF Base, Structure, TypeOK
<1>5. /\ session'[t] = y
      /\ \A u \in Sessions : u # t => session'[u] = session[u]
      /\ session' = [u \in Sessions |-> session'[u]]
  BY <1>1, SetSession
<1>6. IsSession(y)
  BY <1>2, <1>3, <1>4 DEF IsSession
<1> QED BY <1>2, <1>3, <1>5, <1>6, <1>7

\* x and y are the same transfer, with the same plan.
SamePlan(x, y) ==
  /\ y.mode = x.mode /\ y.serial = x.serial /\ y.held = x.held
  /\ y.target = x.target /\ y.targetSerial = x.targetSerial

\* How a step can write a session.
LEMMA SessionUpdates ==
  ASSUME SessionsTyped, [TNext]_tvars, NEW t \in Sessions
  PROVE  \/ \E qtype \in {"AXFR", "IXFR"}, h \in Holdings : Authorize(t, qtype, h)
         \/ /\ OpenSnapshot(t)
            /\ session'[t] = [session[t] EXCEPT
                 !.state = "STREAMING",
                 !.snap = [versions |-> versions, records |-> records,
                           changes |-> changes]]
         \/ /\ SendSection(t)
            /\ session'[t] = [session[t] EXCEPT !.sent = session[t].sent + 1,
                                                !.copy = Received(session[t])]
         \/ /\ Finish(t)
            /\ session'[t] = [session[t] EXCEPT !.state = "COMPLETE"]
         \/ \E state \in {"REFUSED", "BROKEN"} :
              session'[t] = [session[t] EXCEPT !.state = state]
         \/ session'[t] = session[t]
<1>1. ASSUME NEW u \in Sessions, SessionStep(u), u # t PROVE session'[t] = session[t]
  BY <1>1 DEF SessionStep, Authorize, OpenSnapshot, OpenFails, SendSection, SendPart,
              Finish, Break, Die, SessionsTyped
<1>2. CASE OpenSnapshot(t)
  BY <1>2 DEF OpenSnapshot, SessionsTyped
<1>3. CASE SendSection(t)
  BY <1>3 DEF SendSection, SessionsTyped
<1>4. CASE Finish(t)
  BY <1>4 DEF Finish, SessionsTyped
<1>5. CASE OpenFails(t)
  BY <1>5 DEF OpenFails, SessionsTyped
<1>6. CASE Break(t) \/ Die(t)
  BY <1>6 DEF Break, Die, SessionsTyped
<1>7. CASE SendPart(t)
  BY <1>7 DEF SendPart
<1>8. CASE UNCHANGED session
  BY <1>8
<1>9. StoreStep \/ Tick \/ UNCHANGED tvars \/ (\E w \in Cleaners : RunCleanupWithPins(w))
        => UNCHANGED session
  BY DEF StoreStep, Tick, tvars, RunCleanupWithPins
<1> QED BY <1>1, <1>2, <1>3, <1>4, <1>5, <1>6, <1>7, <1>8, <1>9 DEF TNext, SessionStep

\* What a step can do to a session, field by field.
LEMMA SessionCases ==
  ASSUME SessionsTyped, [TNext]_tvars, NEW t \in Sessions
  PROVE  LET x == session[t]
             y == session'[t]
         IN  \/ \E qtype \in {"AXFR", "IXFR"}, h \in Holdings : Authorize(t, qtype, h)
             \/ y = x
             \/ /\ IsSession(y) /\ SamePlan(x, y)
                /\ \/ /\ OpenSnapshot(t) /\ y.state = "STREAMING"
                      /\ y.snap = [versions |-> versions, records |-> records,
                                   changes |-> changes]
                      /\ y.sent = x.sent /\ y.copy = x.copy
                   \/ /\ SendSection(t) /\ y.state = x.state /\ y.snap = x.snap
                      /\ y.sent = x.sent + 1 /\ y.copy = Received(x)
                   \/ /\ Finish(t) /\ y.state = "COMPLETE" /\ y.snap = x.snap
                      /\ y.sent = x.sent /\ y.copy = x.copy
                   \/ y.state \in {"REFUSED", "BROKEN"}
<1> DEFINE x == session[t]
           y == session'[t]
<1>1. IsSession(x)
  BY DEF SessionsTyped
<1> HIDE DEF x, y
<1>2. ASSUME y = [x EXCEPT !.state = "STREAMING",
                           !.snap = [versions |-> versions, records |-> records,
                                     changes |-> changes]]
      PROVE  /\ IsSession(y) /\ SamePlan(x, y) /\ y.state = "STREAMING"
             /\ y.snap = [versions |-> versions, records |-> records, changes |-> changes]
             /\ y.sent = x.sent /\ y.copy = x.copy
  BY <1>1, <1>2 DEF IsSession, SamePlan
<1>3. ASSUME y = [x EXCEPT !.sent = x.sent + 1, !.copy = Received(x)]
      PROVE  /\ IsSession(y) /\ SamePlan(x, y) /\ y.state = x.state /\ y.snap = x.snap
             /\ y.sent = x.sent + 1 /\ y.copy = Received(x)
  <2> DEFINE n == x.sent + 1
             copy == Received(x)
  <2>1. n \in Nat
    BY <1>1 DEF IsSession
  <2> HIDE DEF n, copy
  <2>2. y = [x EXCEPT !.sent = n, !.copy = copy]
    BY <1>3 DEF n, copy
  <2>3. /\ IsSession(y) /\ SamePlan(x, y) /\ y.state = x.state /\ y.snap = x.snap
        /\ y.sent = n /\ y.copy = copy
    BY <1>1, <2>1, <2>2 DEF IsSession, SamePlan
  <2> QED BY <2>3 DEF n, copy
<1>4. ASSUME NEW state, y = [x EXCEPT !.state = state]
      PROVE  /\ IsSession(y) /\ SamePlan(x, y) /\ y.state = state /\ y.snap = x.snap
             /\ y.sent = x.sent /\ y.copy = x.copy
  BY <1>1, <1>4 DEF IsSession, SamePlan
<1>5. CASE \E state \in {"REFUSED", "BROKEN"} : y = [x EXCEPT !.state = state]
  BY <1>4, <1>5 DEF x, y
<1>6. CASE Finish(t) /\ y = [x EXCEPT !.state = "COMPLETE"]
  BY <1>4, <1>6 DEF x, y
<1>7. CASE SendSection(t) /\ y = [x EXCEPT !.sent = x.sent + 1, !.copy = Received(x)]
  BY <1>3, <1>7 DEF x, y
<1>8. CASE /\ OpenSnapshot(t)
           /\ y = [x EXCEPT !.state = "STREAMING",
                            !.snap = [versions |-> versions, records |-> records,
                                      changes |-> changes]]
  BY <1>2, <1>8 DEF x, y
<1> QED BY <1>5, <1>6, <1>7, <1>8, SessionUpdates DEF x, y

\* Sessions stay well formed.
LEMMA SessionsStep ==
  ASSUME SessionsTyped, Base, HistoryTyped, [TNext]_tvars
  PROVE  SessionsTyped'
<1>1. ASSUME NEW t \in Sessions PROVE IsSession(session'[t])
  <2>1. IsSession(session[t])
    BY DEF SessionsTyped
  <2>2. CASE \E qtype \in {"AXFR", "IXFR"}, h \in Holdings : Authorize(t, qtype, h)
    BY <2>2, AuthorizeEffect
  <2> QED BY <2>1, <2>2, SessionCases
<1>2. session' = [t \in Sessions |-> session'[t]]
  <2>1. ASSUME NEW t \in Sessions, SessionStep(t)
        PROVE  session' = [u \in Sessions |-> session'[u]]
    BY <2>1 DEF SessionStep, Authorize, OpenSnapshot, OpenFails, SendSection, SendPart,
                Finish, Break, Die, SessionsTyped
  <2>2. CASE UNCHANGED session
    BY <2>2 DEF SessionsTyped
  <2>3. StoreStep \/ Tick \/ UNCHANGED tvars \/ (\E w \in Cleaners : RunCleanupWithPins(w))
          => UNCHANGED session
    BY DEF StoreStep, Tick, tvars, RunCleanupWithPins
  <2> QED BY <2>1, <2>2, <2>3 DEF TNext
<1> QED BY <1>1, <1>2 DEF SessionsTyped

\* What the proofs about sessions build on.
Foundation == Base /\ HistoryKept /\ SessionsTyped

\* The sessions start idle.
LEMMA FoundationInit == TInit => Foundation
<1> SUFFICES ASSUME TInit PROVE SessionsTyped
  BY BaseInit DEF Foundation
<1>1. 0 \in Serials
  BY SerialAssumption DEF Serials, MOD
<1> QED BY <1>1 DEF TInit, Idle, SessionsTyped, IsSession

\* Every step keeps the foundation.
LEMMA FoundationStep == Foundation /\ [TNext]_tvars => Foundation'
BY BaseStep, SessionsStep DEF Foundation, HistoryKept

\* The foundation holds in every behaviour.
LEMMA FoundationInvariant == TSpec => []Foundation
BY FoundationInit, FoundationStep, PTL DEF TSpec
-----------------------------------------------------------------------------
\* The pin of t covers what the stream of t needs, and it is all there.
PinHolds(t) ==
  /\ refs[t].version = session[t].target
  /\ refs[t].min <= session[t].target
  /\ refs[t].min .. session[t].target \subseteq DOMAIN versions
  /\ session[t].mode = "IXFR" => versions[refs[t].min].serial = session[t].serial

PinsProtect ==
  \A t \in Sessions : session[t].state = "PINNED" /\ t \in Alive => PinHolds(t)

\* A store step leaves retained versions alone: only cleanup deletes.
LEMMA StoreStepKeeps ==
  ASSUME Base, StoreStep, zone.created, NEW v \in DOMAIN versions
  PROVE  v \in DOMAIN versions' /\ versions'[v] = versions[v]
<1>1. ASSUME NEW c \in Clients, NEW n \in 1 .. MaxAttempts, PublishCommits(c, n)
      PROVE  v \in DOMAIN versions' /\ versions'[v] = versions[v]
  <2>1. zone.version + 1 \notin DOMAIN versions
    BY <1>1, CommitFacts DEF Base
  <2> QED BY <1>1, <2>1 DEF PublishCommits, Insert
<1>2. ASSUME NEW c \in Clients, ClientStep(c),
             ~ \E n \in 1 .. MaxAttempts : PublishCommits(c, n)
      PROVE  UNCHANGED versions
  BY <1>2 DEF ClientStep, Submit, Retry, CallDropped, Publish, PublishNoZone,
              PublishReplayed, PublishRefused, PublishSerialReused
<1>3. ASSUME NEW w \in Cleaners, ClaimTask(w) \/ ClaimNothing(w) \/ CleanupAborted(w)
      PROVE  UNCHANGED versions
  BY <1>3 DEF ClaimTask, ClaimNothing, CleanupAborted, vars
<1>4. ASSUME NEW k \in Retentions, SetRetention(k) PROVE UNCHANGED versions
  BY <1>4 DEF SetRetention
<1>5. ASSUME NEW z \in Creations, CreateZone(z) PROVE FALSE
  BY <1>5 DEF CreateZone
<1> QED BY <1>1, <1>2, <1>3, <1>4, <1>5 DEF StoreStep

\* A cleanup leaves what a live pin covers.
LEMMA CleanupHonoursPins ==
  ASSUME Base, NEW w \in Cleaners, RunCleanupWithPins(w), NEW t \in Alive,
         NEW v \in DOMAIN versions, v >= refs[t].min, refs[t].min <= refs[t].version
  PROVE  v \in DOMAIN versions' /\ versions'[v] = versions[v]
<1>1. PICK m \in PinnedVersions \union {NoPin} : IsHorizon(m) /\ CleanupUpTo(w, m)
  BY DEF RunCleanupWithPins
<1>2. refs[t].min \in PinnedVersions
  BY DEF PinnedVersions, AtMost, Alive, Base, PinsWellFormed
<1>3. m <= refs[t].min /\ m \in Nat
  <2>1. PinnedVersions \subseteq Nat
    BY DEF PinnedVersions, Alive, AtMost, Base, PinsWellFormed
  <2> QED BY <1>1, <1>2, <2>1 DEF IsHorizon
<1>4. DeleteBefore(m) <= m /\ DeleteBefore(m) \in Int
  BY <1>3 DEF DeleteBefore, AtMost, AtLeast, Base, Structure, TypeOK
<1>5. v \in Nat /\ refs[t].min \in Nat
  BY DEF Base, Structure, TypeOK, PinsWellFormed, Alive
<1>6. v >= DeleteBefore(m)
  BY <1>3, <1>4, <1>5
<1>7. versions' = Restrict(versions, {u \in DOMAIN versions : u >= DeleteBefore(m)})
  BY <1>1 DEF CleanupUpTo
<1> QED BY <1>6, <1>7 DEF Restrict

\* Nothing touches the pin of a session that waits for its snapshot, except
\* a cleanup that deletes it.
LEMMA WaitingPin ==
  ASSUME Foundation, [TNext]_tvars, NEW t \in Sessions,
         session[t].state = "PINNED", session'[t] = session[t], t \in DOMAIN refs'
  PROVE  t \in DOMAIN refs /\ refs'[t] = refs[t]
<1> USE DEF Foundation, SessionsTyped
<1>1. ~SessionStep(t)
  <2>1. IsSession(session[t])
    OBVIOUS
  <2>2. OpenSnapshot(t) => session'[t].state = "STREAMING"
    BY <2>1 DEF OpenSnapshot, IsSession
  <2>3. OpenFails(t) => session'[t].state = "REFUSED"
    BY <2>1 DEF OpenFails, IsSession
  <2>4. Break(t) \/ Die(t) => session'[t].state = "BROKEN"
    BY <2>1 DEF Break, Die, IsSession
  <2> QED BY <2>2, <2>3, <2>4 DEF SessionStep, Authorize, SendSection, SendPart, Finish
<1>2. ASSUME NEW u \in Sessions, u # t, SessionStep(u)
      PROVE  t \in DOMAIN refs /\ refs'[t] = refs[t]
  <2>1. CASE \E qtype \in {"AXFR", "IXFR"}, h \in Holdings : Authorize(u, qtype, h)
    BY <1>2, <2>1 DEF Authorize, Insert
  <2>2. Release(u) \/ Heartbeat(u) => t \in DOMAIN refs /\ refs'[t] = refs[t]
    BY <1>2 DEF Release, Heartbeat, Base, PinsWellFormed
  <2>3. CASE OpenSnapshot(u) \/ OpenFails(u) \/ SendSection(u) \/ SendPart(u)
             \/ Finish(u) \/ Break(u) \/ Die(u)
    BY <2>2, <2>3 DEF OpenSnapshot, OpenFails, SendSection, SendPart, Finish, Break, Die
  <2> QED BY <1>2, <2>1, <2>3 DEF SessionStep
<1>3. ASSUME NEW w \in Cleaners, RunCleanupWithPins(w)
      PROVE  t \in DOMAIN refs /\ refs'[t] = refs[t]
  BY <1>3 DEF RunCleanupWithPins, Restrict
<1>4. CASE StoreStep \/ Tick \/ UNCHANGED tvars
  BY <1>4 DEF StoreStep, Tick, tvars
<1> QED BY <1>1, <1>2, <1>3, <1>4 DEF TNext

\* Every step keeps the promise of the pins.
LEMMA PinsProtectStep ==
  ASSUME Foundation, PinsProtect, [TNext]_tvars
  PROVE  PinsProtect'
<1> SUFFICES ASSUME NEW t \in Sessions, session'[t].state = "PINNED", t \in Alive'
             PROVE  PinHolds(t)'
  BY DEF PinsProtect
<1> USE DEF Foundation
<1>1. CASE \E qtype \in {"AXFR", "IXFR"}, h \in Holdings : Authorize(t, qtype, h)
  <2>1. PICK qtype \in {"AXFR", "IXFR"}, h \in Holdings : Authorize(t, qtype, h)
    BY <1>1
  <2> DEFINE x == session'[t]
             pin == Pin(x.mode, x.serial)
  <2>2. /\ zone.created
        /\ x.mode \in {"AXFR", "IXFR"} /\ x.serial \in Serials
        /\ x.target = zone.version
        /\ x.mode = "IXFR" => DecideIxfr(x.serial) = "IXFR"
        /\ refs' = Insert(refs, t, pin)
    BY <2>1, AuthorizeEffect DEF HistoryKept, IsSession
  <2>3. UNCHANGED <<versions, zone>>
    BY <2>1 DEF Authorize, vars
  <2>4. /\ pin.version = zone.version
        /\ pin.min \in DOMAIN versions
        /\ pin.min <= zone.version
        /\ x.mode = "IXFR" => versions[pin.min].serial = x.serial
    <3> HIDE DEF x
    <3> QED BY <2>2, NewPin
  <2>5. pin.min .. zone.version \subseteq DOMAIN versions
    BY <2>2, <2>4 DEF Base, Structure, RetainedInterval
  <2>6. refs'[t] = pin
    BY <2>2 DEF Insert
  <2> HIDE DEF pin, x
  <2> QED BY <2>2, <2>3, <2>4, <2>5, <2>6 DEF PinHolds, x
<1>2. CASE session'[t] = session[t]
  <2>1. t \in DOMAIN refs /\ refs'[t] = refs[t]
    BY <1>2, WaitingPin DEF Alive
  <2>2. t \in Alive
    <3>1. now' = now \/ now' = now + 1
      BY DEF TNext, StoreStep, Tick, tvars, RunCleanupWithPins, SessionStep, Authorize,
             OpenSnapshot, OpenFails, SendSection, SendPart, Finish, Break, Die
    <3>2. now \in Nat /\ refs[t].lastSeen \in Nat /\ Stale \in Nat
      BY <2>1, TransferAssumption DEF Base, PinsWellFormed
    <3> QED BY <2>1, <3>1, <3>2 DEF Alive
  <2>3. PinHolds(t)
    BY <1>2, <2>2 DEF PinsProtect
  <2>4. /\ refs[t].min \in Nat /\ refs[t].version \in Nat /\ zone.created
        /\ DOMAIN versions \subseteq Nat
    BY <2>1 DEF Base, PinsWellFormed, Structure, TypeOK
  <2>5. ASSUME NEW v \in DOMAIN versions, v >= refs[t].min
        PROVE  v \in DOMAIN versions' /\ versions'[v] = versions[v]
    <3>1. CASE StoreStep
      BY <2>4, <3>1, StoreStepKeeps
    <3>2. ASSUME NEW w \in Cleaners, RunCleanupWithPins(w)
          PROVE  v \in DOMAIN versions' /\ versions'[v] = versions[v]
      BY <2>2, <2>3, <2>5, <3>2, CleanupHonoursPins DEF PinHolds
    <3>3. ASSUME NEW u \in Sessions, SessionStep(u) PROVE UNCHANGED versions
      BY <3>3 DEF SessionStep, Authorize, OpenSnapshot, OpenFails, SendSection, SendPart,
                  Finish, Break, Die, vars
    <3>4. CASE Tick \/ UNCHANGED tvars
      BY <3>4 DEF Tick, tvars, vars
    <3> QED BY <3>1, <3>2, <3>3, <3>4 DEF TNext
  <2>6. refs[t].min .. session[t].target \subseteq DOMAIN versions'
    BY <2>3, <2>4, <2>5 DEF PinHolds
  <2>7. versions'[refs[t].min] = versions[refs[t].min]
    BY <2>3, <2>4, <2>5 DEF PinHolds
  <2> QED BY <1>2, <2>1, <2>3, <2>6, <2>7 DEF PinHolds
<1>3. SendSection(t) => session[t].state = "STREAMING"
  BY DEF SendSection
<1> QED BY <1>1, <1>2, <1>3, SessionCases

(***************************************************************************)
(* A transfer whose pin is fresh finds every version its stream needs when *)
(* it opens its snapshot, whatever was cleaned up in the meantime.         *)
(***************************************************************************)
THEOREM FreshPins == TSpec => []FreshPinKeepsRows
<1>1. TInit => PinsProtect
  BY DEF TInit, Idle, PinsProtect
<1>2. Foundation /\ PinsProtect /\ [TNext]_tvars => PinsProtect'
  BY PinsProtectStep
<1>3. Foundation /\ PinsProtect => FreshPinKeepsRows
  <2> SUFFICES ASSUME Foundation, PinsProtect, NEW t \in Sessions,
                      session[t].state = "PINNED", t \in Alive
               PROVE  /\ Readable(session[t])
                      /\ refs[t].min .. session[t].target \subseteq DOMAIN versions
    BY DEF FreshPinKeepsRows
  <2>1. PinHolds(t)
    BY DEF PinsProtect
  <2>2. /\ t \in DOMAIN refs /\ refs[t].min \in Nat /\ session[t].target \in Nat
        /\ DOMAIN records = DOMAIN versions
    BY DEF Alive, Foundation, Base, PinsWellFormed, SessionsTyped, IsSession, Structure,
           TypeOK
  <2>3. /\ session[t].target \in DOMAIN versions
        /\ refs[t].min \in DOMAIN versions
    BY <2>1, <2>2 DEF PinHolds
  <2>4. HasDeltas(session[t]) => VersionsAt(versions, session[t].serial) # {}
    BY <2>1, <2>3 DEF HasDeltas, PinHolds, VersionsAt
  <2> QED BY <2>1, <2>2, <2>3, <2>4 DEF Readable, PinHolds
<1> QED BY <1>1, <1>2, <1>3, FoundationInvariant, PTL DEF TSpec
-----------------------------------------------------------------------------
(* What a session x knows, against the history h of the zone. *)

Grown(h, g) == \A v \in DOMAIN h : v \in DOMAIN g /\ g[v] = h[v]

UniqueIn(s, h) == \A v, w \in DOMAIN h : h[v].serial = s /\ h[w].serial = s => v = w

\* The target was published; an incremental transfer starts at a version that
\* the client holds and that is not ahead of the target.
PlanExact(x, h) ==
  /\ x.target \in DOMAIN h
  /\ h[x.target].serial = x.targetSerial
  /\ x.mode = "IXFR" =>
       /\ Compare(x.serial, x.targetSerial) \in {"EQUAL", "GREATER"}
       /\ \E v \in DOMAIN h : h[v] = [serial |-> x.serial, rrsets |-> x.held]
       /\ \E v \in DOMAIN h : v <= x.target /\ h[v].serial = x.serial

\* The snapshot holds published versions, without a gap up to the target.
SnapExact(x, h) ==
  LET s == x.snap
  IN  /\ DOMAIN s.versions \subseteq DOMAIN h
      /\ DOMAIN s.records = DOMAIN s.versions
      /\ DOMAIN s.changes = DOMAIN s.versions \ {0}
      /\ x.target \in DOMAIN s.versions
      /\ \A v \in DOMAIN s.versions :
           /\ v \in Nat
           /\ v .. x.target \subseteq DOMAIN s.versions
           /\ s.records[v] \in RRsets
           /\ h[v] = [serial |-> s.versions[v].serial, rrsets |-> s.records[v]]
      /\ \A v \in DOMAIN s.changes :
           v - 1 \in DOMAIN s.records =>
             s.records[v] = WithDelta(s.records[v - 1], s.changes[v])
      /\ HasDeltas(x) => VersionsAt(s.versions, x.serial) # {}

\* After n sections the client has the opening SOA (1) or all rows (2) of a
\* full transfer, or the version n - 1 after the one it started from.
CopyExact(x, h) ==
  /\ x.sent <= Sections(x)
  /\ x.mode = "AXFR" =>
       /\ x.sent >= 1 => x.copy[SOAKey] = h[x.target].rrsets[SOAKey]
       /\ x.sent >= 2 => x.copy = h[x.target].rrsets
  /\ x.mode = "IXFR" /\ UniqueIn(x.serial, h) /\ x.sent >= 1 =>
       x.copy = IF HasDeltas(x) THEN h[Start(x) + x.sent - 1].rrsets ELSE x.held

\* A version in the snapshot is as it was published.
LEMMA SnapRow ==
  ASSUME NEW h, NEW x, SnapExact(x, h), NEW v \in DOMAIN x.snap.versions
  PROVE  /\ v \in Nat
         /\ v \in DOMAIN h
         /\ v .. x.target \subseteq DOMAIN x.snap.versions
         /\ h[v].serial = x.snap.versions[v].serial
         /\ h[v].rrsets = x.snap.records[v]
         /\ h[v].rrsets \in RRsets
<1>1. h[v] = [serial |-> x.snap.versions[v].serial, rrsets |-> x.snap.records[v]]
  BY DEF SnapExact
<1>2. h[v].serial = x.snap.versions[v].serial /\ h[v].rrsets = x.snap.records[v]
  BY <1>1
<1>3. /\ v \in Nat
      /\ v \in DOMAIN h
      /\ v .. x.target \subseteq DOMAIN x.snap.versions
      /\ x.snap.records[v] \in RRsets
  BY DEF SnapExact
<1> QED BY <1>2, <1>3

\* _decide_ixfr's starting version is in the snapshot.
LEMMA StartIsThere ==
  ASSUME NEW h, NEW x, SnapExact(x, h), HasDeltas(x)
  PROVE  /\ Start(x) \in DOMAIN x.snap.versions
         /\ x.snap.versions[Start(x)].serial = x.serial
BY VersionAtFound DEF Start, SnapExact

\* The delta chain starts at the version that the client holds.
LEMMA StartIsHeld ==
  ASSUME NEW h, NEW x, IsSession(x), PlanExact(x, h), SnapExact(x, h), HasDeltas(x),
         UniqueIn(x.serial, h)
  PROVE  /\ Start(x) \in DOMAIN x.snap.versions
         /\ Start(x) \in Nat
         /\ Start(x) <= x.target
         /\ h[Start(x)].rrsets = x.held
         /\ Sections(x) = 1 + x.target - Start(x)
<1>1. x.mode = "IXFR"
  BY DEF HasDeltas
<1>2. /\ Start(x) \in DOMAIN x.snap.versions
      /\ x.snap.versions[Start(x)].serial = x.serial
  BY StartIsThere
<1>3. /\ Start(x) \in Nat
      /\ Start(x) \in DOMAIN h
      /\ h[Start(x)].serial = x.serial
  BY <1>2, SnapRow
<1>4. Start(x) <= x.target
  BY <1>1, <1>3 DEF PlanExact, UniqueIn
<1>5. h[Start(x)].rrsets = x.held
  BY <1>1, <1>3 DEF PlanExact, UniqueIn
<1>6. Sections(x) = 1 + x.target - Start(x)
  BY <1>1, <1>3, <1>4 DEF Sections, AtLeast, IsSession
<1> QED BY <1>2, <1>3, <1>4, <1>5, <1>6

\* What holds of a session holds when the zone moves on.
LEMMA ExactWhenGrown ==
  ASSUME NEW h, NEW g, Grown(h, g), NEW x, IsSession(x), PlanExact(x, h)
  PROVE  /\ PlanExact(x, g)
         /\ SnapExact(x, h) => SnapExact(x, g)
         /\ SnapExact(x, h) /\ CopyExact(x, h) => CopyExact(x, g)
<1>1. PlanExact(x, g)
  BY DEF Grown, PlanExact
<1>2. SnapExact(x, h) => SnapExact(x, g)
  BY DEF Grown, SnapExact
<1>3. ASSUME SnapExact(x, h), CopyExact(x, h) PROVE CopyExact(x, g)
  <2>1. h[x.target] = g[x.target]
    BY DEF Grown, PlanExact
  <2>2. ASSUME x.mode = "IXFR", UniqueIn(x.serial, g), x.sent >= 1
        PROVE  x.copy = IF HasDeltas(x) THEN g[Start(x) + x.sent - 1].rrsets ELSE x.held
    <3>1. UniqueIn(x.serial, h)
      BY <2>2 DEF UniqueIn, Grown
    <3>2. ASSUME HasDeltas(x) PROVE h[Start(x) + x.sent - 1] = g[Start(x) + x.sent - 1]
      <4>1. /\ Start(x) \in DOMAIN x.snap.versions
            /\ Start(x) \in Nat
            /\ Sections(x) = 1 + x.target - Start(x)
        BY <1>3, <3>1, <3>2, StartIsHeld
      <4>2. Start(x) + x.sent - 1 \in Start(x) .. x.target
        BY <1>3, <2>2, <4>1 DEF CopyExact, IsSession
      <4>3. Start(x) + x.sent - 1 \in DOMAIN h
        BY <1>3, <4>1, <4>2 DEF SnapExact
      <4> QED BY <4>3 DEF Grown
    <3> QED BY <1>3, <2>2, <3>1, <3>2 DEF CopyExact
  <2> QED BY <1>3, <2>1, <2>2 DEF CopyExact
<1> QED BY <1>1, <1>2, <1>3

\* Sessions with the same plan and snapshot have the same stream.
LEMMA SameStream ==
  ASSUME NEW x, NEW y, SamePlan(x, y), y.snap = x.snap
  PROVE  /\ HasDeltas(y) = HasDeltas(x)
         /\ Start(y) = Start(x)
         /\ Sections(y) = Sections(x)
BY DEF SamePlan, HasDeltas, Start, Sections

\* One more section brings the copy one step further.
LEMMA SectionIsExact ==
  ASSUME NEW h, NEW x, NEW y, IsSession(x), IsSession(y),
         PlanExact(x, h), SnapExact(x, h), CopyExact(x, h),
         SamePlan(x, y), y.snap = x.snap, y.sent = x.sent + 1, y.copy = Received(x),
         x.sent < Sections(x)
  PROVE  CopyExact(y, h)
<1>1. x.sent \in Nat /\ x.target \in Nat /\ x.mode \in {"AXFR", "IXFR"}
  BY DEF IsSession
<1>2. y.sent <= Sections(y)
  <2>1. Sections(x) \in Nat
    <3>1. HasDeltas(x) => Start(x) \in Nat
      BY StartIsThere, SnapRow
    <3> QED BY <1>1, <3>1 DEF Sections, AtLeast
  <2> QED BY <1>1, <2>1, SameStream
<1>3. ASSUME x.mode = "AXFR"
      PROVE  /\ y.sent >= 1 => y.copy[SOAKey] = h[x.target].rrsets[SOAKey]
             /\ y.sent >= 2 => y.copy = h[x.target].rrsets
  <2> DEFINE rows == h[x.target].rrsets
  <2>1. x.snap.records[x.target] = rows /\ rows \in RRsets
    <3>1. x.target \in DOMAIN x.snap.versions
      BY DEF SnapExact
    <3> QED BY <3>1, SnapRow
  <2>2. y.copy = [k \in RRKeys |-> IF (k = SOAKey) = (x.sent # 1)
                                     THEN x.snap.records[x.target][k] ELSE x.copy[k]]
    BY <1>3 DEF Received
  <2>3. x.sent = 1 \/ x.sent >= 2 => x.copy[SOAKey] = rows[SOAKey]
    BY <1>1, <1>3 DEF CopyExact
  <2>4. x.sent >= 2 => x.copy = rows
    BY <1>3 DEF CopyExact
  <2> HIDE DEF rows
  <2>5. y.copy[SOAKey] = rows[SOAKey]
    BY <1>1, <2>1, <2>2, <2>3, KeysInRRKeys
  <2>6. ASSUME x.sent >= 1 PROVE y.copy = rows
    <3>1. \A k \in RRKeys : y.copy[k] = rows[k]
      BY <1>1, <2>1, <2>2, <2>3, <2>4, <2>6
    <3> QED BY <2>1, <2>2, <3>1 DEF RRsets
  <2> QED BY <1>1, <2>5, <2>6 DEF rows
<1>4. ASSUME x.mode = "IXFR", UniqueIn(x.serial, h)
      PROVE  y.copy = IF HasDeltas(x) THEN h[Start(x) + x.sent].rrsets ELSE x.held
  <2>1. CASE x.sent = 0
    <3>1. y.copy = x.held
      BY <1>4, <2>1 DEF Received
    <3>2. HasDeltas(x) => h[Start(x)].rrsets = x.held /\ Start(x) \in Nat
      BY <1>4, StartIsHeld
    <3> QED BY <2>1, <3>1, <3>2
  <2>2. CASE x.sent >= 1 /\ HasDeltas(x)
    <3> DEFINE v == Start(x) + x.sent
    <3>1. /\ Start(x) \in DOMAIN x.snap.versions
          /\ Start(x) \in Nat
          /\ Sections(x) = 1 + x.target - Start(x)
      BY <1>4, <2>2, StartIsHeld
    <3>2. v \in Start(x) .. x.target /\ v - 1 \in Start(x) .. x.target /\ v # 0
      BY <1>1, <2>2, <3>1
    <3>3. /\ v \in DOMAIN x.snap.versions
          /\ v - 1 \in DOMAIN x.snap.versions
      BY <3>1, <3>2 DEF SnapExact
    <3> HIDE DEF v
    <3>4. /\ v \in DOMAIN x.snap.changes
          /\ x.snap.records[v] = WithDelta(x.snap.records[v - 1], x.snap.changes[v])
      BY <3>2, <3>3 DEF SnapExact
    <3>7. /\ h[v].rrsets = x.snap.records[v]
          /\ h[v - 1].rrsets = x.snap.records[v - 1]
      BY <3>3, SnapRow
    <3>5. x.copy = h[v - 1].rrsets
      BY <1>1, <1>4, <2>2, <3>1 DEF CopyExact, v
    <3>6. y.copy = WithDelta(x.copy, x.snap.changes[v])
      BY <1>1, <1>4, <2>2, <3>4 DEF Received, DeltaOf, v
    <3> QED BY <2>2, <3>4, <3>5, <3>6, <3>7 DEF v
  <2>3. CASE x.sent >= 1 /\ ~HasDeltas(x)
    BY <1>1, <1>4, <2>3 DEF Sections
  <2> QED BY <1>1, <2>1, <2>2, <2>3
<1>5. y.sent - 1 = x.sent
  BY <1>1
<1> QED BY <1>1, <1>2, <1>3, <1>4, <1>5, SameStream DEF CopyExact, SamePlan
-----------------------------------------------------------------------------
\* What holds of a session in each of its states.
Exact(x, h) ==
  /\ x.state = "PINNED" => x.sent = 0
  /\ x.state \in {"PINNED", "STREAMING", "COMPLETE"} => PlanExact(x, h)
  /\ x.state \in {"STREAMING", "COMPLETE"} => SnapExact(x, h) /\ CopyExact(x, h)
  /\ x.state = "COMPLETE" => x.sent = Sections(x)

\* The invariant that makes TransferExact inductive.
SessionsExact == \A t \in Sessions : Exact(session[t], history)

\* authorize_transfer makes an exact plan.
LEMMA PlanIsExact ==
  ASSUME Foundation, NEW t \in Sessions, NEW qtype \in {"AXFR", "IXFR"},
         NEW h \in Holdings, Authorize(t, qtype, h)
  PROVE  PlanExact(session'[t], history)
<1> USE DEF Foundation
<1> DEFINE x == session'[t]
<1>1. /\ zone.created /\ x.serial = h.serial /\ x.held = h.rrsets
      /\ x.serial \in Serials
      /\ x.target = zone.version /\ x.targetSerial = zone.serial
      /\ x.mode = "IXFR" => DecideIxfr(x.serial) = "IXFR"
  BY AuthorizeEffect DEF HistoryKept, IsSession
<1> HIDE DEF x
<1>2. ASSUME NEW v \in DOMAIN versions
      PROVE  v \in DOMAIN history /\ history[v].serial = versions[v].serial
  <2>1. v \in 0 .. zone.version
    BY <1>1 DEF Base, Structure, RetainedInterval, TypeOK
  <2>2. history[v] = [serial |-> versions[v].serial, rrsets |-> records[v]]
    BY DEF HistoryKept
  <2> QED BY <1>1, <2>1, <2>2 DEF HistoryKept, HistoryTyped
<1>3. zone.version \in DOMAIN versions /\ versions[zone.version].serial = zone.serial
  BY <1>1 DEF Base, Structure, RetainedInterval, SerialChain
<1>4. ASSUME x.mode = "IXFR"
      PROVE  /\ Compare(x.serial, x.targetSerial) \in {"EQUAL", "GREATER"}
             /\ \E v \in DOMAIN history : v <= x.target /\ history[v].serial = x.serial
  <2>1. /\ Compare(x.serial, zone.serial) \in {"EQUAL", "GREATER"}
        /\ VersionsAt(versions, x.serial) # {}
        /\ VersionAt(versions, x.serial) <= zone.version
    BY <1>1, <1>4, IxfrHasStart
  <2>2. /\ VersionAt(versions, x.serial) \in DOMAIN versions
        /\ versions[VersionAt(versions, x.serial)].serial = x.serial
    BY <2>1, VersionAtFound
  <2> QED BY <1>1, <1>2, <2>1, <2>2
<1>5. ASSUME x.mode = "IXFR"
      PROVE  \E v \in DOMAIN history : history[v] = [serial |-> x.serial, rrsets |-> x.held]
  <2>1. PICK u \in DOMAIN history : history[u].serial = h.serial
    BY <1>1, <1>4, <1>5
  <2>2. h.serial \in {history[v].serial : v \in DOMAIN history}
    BY <2>1
  <2>3. PICK v \in DOMAIN history : h = history[v]
    BY <2>2 DEF Holdings
  <2>4. history[v] = [serial |-> history[v].serial, rrsets |-> history[v].rrsets]
    BY DEF HistoryKept, HistoryTyped
  <2> QED BY <1>1, <2>3, <2>4
<1> QED BY <1>1, <1>2, <1>3, <1>4, <1>5 DEF PlanExact, x

\* The tables hold an exact snapshot.
LEMMA TablesAreExact ==
  ASSUME Foundation, DeltasRebuildSnapshots, NEW x, IsSession(x),
         PlanExact(x, history), Readable(x), NEW y, SamePlan(x, y),
         y.snap = [versions |-> versions, records |-> records, changes |-> changes]
  PROVE  SnapExact(y, history)
<1> USE DEF Foundation
<1>1. zone.created /\ x.target \in 0 .. zone.version /\ DOMAIN history = 0 .. zone.version
  BY DEF PlanExact, HistoryKept, HistoryTyped
<1>2. /\ DOMAIN records = DOMAIN versions
      /\ DOMAIN changes = DOMAIN versions \ {0}
      /\ DOMAIN versions \subseteq 0 .. zone.version
      /\ zone.version \in Nat
      /\ \A v \in DOMAIN versions : records[v] \in RRsets
      /\ \A v \in DOMAIN versions : v .. zone.version \subseteq DOMAIN versions
  BY <1>1 DEF Base, Structure, RetainedInterval, TypeOK
<1>3. \A v \in DOMAIN versions : v .. x.target \subseteq DOMAIN versions
  BY <1>1, <1>2
<1>4. ASSUME NEW v \in DOMAIN changes, v - 1 \in DOMAIN records
      PROVE  records[v] = WithDelta(records[v - 1], changes[v])
  <2>1. \A k \in RRKeys :
          records[v][k] = (records[v - 1][k] \ changes[v].del[k]) \union changes[v].add[k]
    BY <1>4 DEF DeltasRebuildSnapshots
  <2>2. records[v] \in RRsets
    BY <1>2
  <2> QED BY <2>1, <2>2 DEF WithDelta, RRsets
<1>5. y.target = x.target /\ (HasDeltas(y) <=> HasDeltas(x)) /\ y.serial = x.serial
  BY DEF SamePlan, HasDeltas
<1>6. x.target \in DOMAIN versions
  BY <1>2 DEF Readable
<1>7. HasDeltas(x) => VersionsAt(versions, x.serial) # {}
  BY DEF Readable
<1>8. \A v \in DOMAIN versions :
        history[v] = [serial |-> versions[v].serial, rrsets |-> records[v]]
  BY DEF HistoryKept
<1>9. y.snap.versions = versions /\ y.snap.records = records /\ y.snap.changes = changes
  OBVIOUS
<1> QED BY <1>1, <1>2, <1>3, <1>4, <1>5, <1>6, <1>7, <1>8, <1>9 DEF SnapExact

\* Every step keeps the sessions exact.
LEMMA SessionsExactStep ==
  ASSUME Foundation, DeltasRebuildSnapshots, SessionsExact, [TNext]_tvars
  PROVE  SessionsExact'
<1> SUFFICES ASSUME NEW t \in Sessions PROVE Exact(session'[t], history')
  BY DEF SessionsExact
<1> DEFINE x == session[t]
           y == session'[t]
<1>1. Grown(history, history')
  BY HistoryStep DEF Foundation, HistoryGrows, Grown
<1>2. IsSession(x) /\ Exact(x, history)
  BY DEF Foundation, SessionsTyped, SessionsExact
<1>3. CASE \E qtype \in {"AXFR", "IXFR"}, h \in Holdings : Authorize(t, qtype, h)
  <2>1. PICK qtype \in {"AXFR", "IXFR"}, h \in Holdings : Authorize(t, qtype, h)
    BY <1>3
  <2>2. y.state = "PINNED" /\ y.sent = 0
    BY <2>1, AuthorizeEffect DEF Foundation, HistoryKept
  <2>3. PlanExact(y, history) /\ history' = history
    BY <2>1, PlanIsExact DEF Authorize
  <2> QED BY <2>2, <2>3 DEF Exact
<1> HIDE DEF x, y
<1>4. ASSUME y = x PROVE Exact(y, history')
  BY <1>1, <1>2, <1>4, ExactWhenGrown DEF Exact
<1>5. ASSUME IsSession(y), SamePlan(x, y), OpenSnapshot(t), y.state = "STREAMING",
             y.snap = [versions |-> versions, records |-> records, changes |-> changes],
             y.sent = x.sent
      PROVE  Exact(y, history')
  <2>1. x.state = "PINNED" /\ Readable(x) /\ history' = history
    BY <1>5 DEF OpenSnapshot, x
  <2>2. PlanExact(x, history) /\ x.sent = 0
    BY <1>2, <2>1 DEF Exact
  <2>3. PlanExact(y, history)
    BY <1>5, <2>2 DEF PlanExact, SamePlan
  <2>4. SnapExact(y, history)
    BY <1>2, <1>5, <2>1, <2>2, TablesAreExact
  <2>5. CopyExact(y, history)
    <3>1. HasDeltas(y) => Start(y) \in Nat
      BY <2>4, StartIsThere, SnapRow
    <3>2. 0 <= Sections(y)
      BY <1>5, <3>1 DEF Sections, AtLeast, IsSession
    <3> QED BY <1>5, <2>2, <3>2 DEF CopyExact
  <2> QED BY <1>5, <2>1, <2>3, <2>4, <2>5 DEF Exact
<1>6. ASSUME IsSession(y), SamePlan(x, y), SendSection(t), y.state = x.state,
             y.snap = x.snap, y.sent = x.sent + 1, y.copy = Received(x)
      PROVE  Exact(y, history')
  <2>1. x.state = "STREAMING" /\ x.sent < Sections(x) /\ history' = history
    BY <1>6 DEF SendSection, x
  <2>2. PlanExact(x, history) /\ SnapExact(x, history) /\ CopyExact(x, history)
    BY <1>2, <2>1 DEF Exact
  <2>3. CopyExact(y, history)
    BY <1>2, <1>6, <2>1, <2>2, SectionIsExact
  <2>4. PlanExact(y, history) /\ SnapExact(y, history)
    BY <1>6, <2>2, SameStream DEF PlanExact, SnapExact, SamePlan
  <2> QED BY <1>6, <2>1, <2>3, <2>4 DEF Exact
<1>7. ASSUME IsSession(y), SamePlan(x, y), Finish(t), y.state = "COMPLETE",
             y.snap = x.snap, y.sent = x.sent, y.copy = x.copy
      PROVE  Exact(y, history')
  <2>1. x.state = "STREAMING" /\ x.sent = Sections(x) /\ history' = history
    BY <1>7 DEF Finish, x
  <2>2. PlanExact(x, history) /\ SnapExact(x, history) /\ CopyExact(x, history)
    BY <1>2, <2>1 DEF Exact
  <2>3. PlanExact(y, history) /\ SnapExact(y, history) /\ CopyExact(y, history)
    BY <1>7, <2>2, SameStream DEF PlanExact, SnapExact, CopyExact, SamePlan
  <2> QED BY <1>7, <2>1, <2>3, SameStream DEF Exact
<1>8. ASSUME y.state \in {"REFUSED", "BROKEN"} PROVE Exact(y, history')
  BY <1>8 DEF Exact
<1> QED BY <1>3, <1>4, <1>5, <1>6, <1>7, <1>8, SessionCases DEF Foundation, x, y

(***************************************************************************)
(* A completed transfer leaves the client with exactly the version that    *)
(* was current when it was authorized, whatever happened meanwhile.        *)
(***************************************************************************)
THEOREM TransfersAreExact == TSpec => []TransferExact
<1>1. TInit => SessionsExact
  BY DEF TInit, Idle, SessionsExact, Exact
<1>2. Foundation /\ DeltasRebuildSnapshots /\ SessionsExact /\ [TNext]_tvars
        => SessionsExact'
  BY SessionsExactStep
<1>3. Foundation /\ SessionsExact => TransferExact
  <2> SUFFICES ASSUME Foundation, SessionsExact, NEW x, IsSession(x), Exact(x, history),
                      x.state = "COMPLETE",
                      x.mode = "IXFR" => UniqueIn(x.serial, history)
               PROVE  x.copy = history[x.target].rrsets
    BY DEF TransferExact, SessionsExact, Unambiguous, UniqueIn, Foundation, SessionsTyped
  <2>1. /\ PlanExact(x, history) /\ SnapExact(x, history) /\ CopyExact(x, history)
        /\ x.sent = Sections(x)
    BY DEF Exact
  <2>2. CASE x.mode = "AXFR"
    BY <2>1, <2>2 DEF CopyExact, Sections
  <2>3. CASE x.mode = "IXFR" /\ HasDeltas(x)
    <3>1. /\ Start(x) \in Nat /\ Start(x) <= x.target /\ x.target \in Nat
          /\ x.sent = 1 + x.target - Start(x)
      BY <2>1, <2>3, StartIsHeld DEF IsSession
    <3>2. x.sent >= 1 /\ Start(x) + x.sent - 1 = x.target
      BY <3>1
    <3> QED BY <2>1, <2>3, <3>2 DEF CopyExact
  <2>4. CASE x.mode = "IXFR" /\ ~HasDeltas(x)
    <3>1. x.copy = x.held
      BY <2>1, <2>4 DEF CopyExact, Sections
    <3>2. Compare(x.serial, x.targetSerial) = "EQUAL"
      BY <2>1, <2>4 DEF PlanExact, HasDeltas
    <3>3. x.serial = history[x.target].serial
      BY <2>1, <3>2, EqualSerials DEF PlanExact, IsSession
    <3>4. PICK v \in DOMAIN history : history[v] = [serial |-> x.serial, rrsets |-> x.held]
      BY <2>1, <2>4 DEF PlanExact
    <3>5. v = x.target
      BY <2>1, <2>4, <3>3, <3>4 DEF PlanExact, UniqueIn
    <3> QED BY <3>1, <3>4, <3>5
  <2> QED BY <2>2, <2>3, <2>4 DEF IsSession
<1>4. TSpec => []DeltasRebuildSnapshots
  BY TransfersImplementStore, DeltasInvariant, PTL
<1> QED BY <1>1, <1>2, <1>3, <1>4, FoundationInvariant, PTL DEF TSpec
=============================================================================
