----------------------------- MODULE ZoneStore -----------------------------
(***************************************************************************)
(* The shared zone database (app/storage.py) as its writers see it: the    *)
(* tables zones, versions, records, changes, publish_requests and          *)
(* cleanup_tasks of ONE zone, the publish, retention and cleanup           *)
(* transactions, and clients that resend a publish to either edge instance *)
(* when no answer comes back.                                              *)
(*                                                                         *)
(* Every write of the code is one BEGIN IMMEDIATE transaction, so each is  *)
(* one action.  The edge instances keep no state of their own: which one   *)
(* serves a call makes no difference and is not recorded.  A changeset is  *)
(* its effect per RRset; module ChangeSet models how a list of operations  *)
(* comes to that effect, module Materialize what rows it gives.            *)
(***************************************************************************)
EXTENDS Serial, FiniteSets, Sequences, Functions

CONSTANTS
  Names,        \* owner names of the zone
  Apex,         \* the apex, one of Names
  Types,        \* RR types, "SOA", "NS" and "CNAME" among them
  Rdata,        \* RDATA (with its TTL) of records that are not SOA
  MaxRecords,   \* Config.MAX_RECORDS_PER_ZONE
  Creations,    \* zone creation requests: serial, NS targets, retention
  Requests,     \* publish requests that clients may send
  Clients,
  MaxAttempts,  \* bound: times a client sends its request
  Cleaners,     \* cleaner workers
  Retentions,   \* retainVersions values operators set
  MayBePinned,  \* whether transfers may hold history back
  MaxTasks      \* bound: SetRetention stops at this many cleanup tasks

RRKeys == Names \X Types
INSTANCE Materialize

SOAKey == <<Apex, "SOA">>
NSKey == <<Apex, "NS">>
\* An SOA's RDATA is abstracted to its serial.
Data == Serials \union Rdata
RRsets == [RRKeys -> SUBSET Data]

RequestIds == {r.id : r \in Requests}

LedgerableFailures ==
  {"VERSION_CONFLICT", "SERIAL_INVALID", "SERIAL_UNDECIDABLE",
   "ZONE_INVALID", "CHANGESET_INVALID", "LIMIT_EXCEEDED"}

(***************************************************************************)
(* A request: an operation on key k leaves ops[k] as the RRset of k, the   *)
(* empty set deletes it; "defect" is the error _apply_ops raises over the  *)
(* form of the operations ("NONE" when they are well formed).              *)
(***************************************************************************)
IsRequest(r) ==
  /\ r = [id |-> r.id, base |-> r.base, next |-> r.next,
          ops |-> r.ops, defect |-> r.defect]
  /\ r.base \in Serials
  /\ r.next \in Serials
  /\ DOMAIN r.ops \subseteq RRKeys
  /\ \A k \in DOMAIN r.ops : r.ops[k] \subseteq Data
  /\ r.defect \in {"NONE", "VALIDATION_ERROR", "CHANGESET_INVALID",
                   "LIMIT_EXCEEDED"}

ASSUME StoreAssumption ==
  /\ Apex \in Names
  /\ {"SOA", "NS", "CNAME"} \subseteq Types
  /\ MaxRecords \in Nat
  /\ MaxAttempts \in Nat \ {0}
  /\ MaxTasks \in Nat
  /\ Retentions \subseteq Nat \ {0}
  /\ MayBePinned \in BOOLEAN
  /\ Creations \subseteq [serial : Serials, ns : (SUBSET Rdata) \ {{}},
                           retain : Nat \ {0}]
  /\ \A r \in Requests : IsRequest(r)
  /\ "__create__" \notin RequestIds

\* What canonical_fingerprint hashes: all of the request but its id.
Content(r) == [base |-> r.base, next |-> r.next, ops |-> r.ops,
               defect |-> r.defect]

Committed(v, s) == [code |-> "COMMITTED", version |-> v, serial |-> s]
Failed(code) == [code |-> code]
Outcomes == [code : {"COMMITTED"}, version : Nat, serial : Serials]
              \union [code : LedgerableFailures]
Conflict == Failed("IDEMPOTENCY_CONFLICT")

\* States of one attempt that carry no answer.
Unsent == [code |-> "UNSENT"]
Sent == [code |-> "SENT"]
Lost == [code |-> "LOST"]

NoRequest == [id |-> "NONE"]

VARIABLES
  zone,      \* row of table zones; "created" is FALSE while there is none
  versions,  \* table versions: version id -> [serial, request]
  records,   \* table records:  version id -> RRsets of the full snapshot
  changes,   \* table changes:  version id -> DEL and ADD rows per RRset
  ledger,    \* table publish_requests: id -> [content, outcome]
  tasks,     \* table cleanup_tasks: task id -> state
  holds,     \* the task each cleaner has claimed, 0 for none
  req,       \* the request each client sends
  call       \* call[c][n]: what became of attempt n of client c

store == <<zone, versions, records, changes, ledger>>
vars == <<zone, versions, records, changes, ledger, tasks, holds, req, call>>
-----------------------------------------------------------------------------
(* Pure parts of publish. *)

RecordCount(rrsets) ==
  Cardinality(UNION {{k} \X rrsets[k] : k \in RRKeys})

\* A CNAME beside other types, or an RRset of several CNAMEs.
CnameClash(rrsets) ==
  \E n \in Names :
    /\ rrsets[<<n, "CNAME">>] # {}
    /\ \/ \E t \in Types \ {"CNAME"} : rrsets[<<n, t>>] # {}
       \/ Cardinality(rrsets[<<n, "CNAME">>]) > 1

\* A defect: CNAMEs are not looked at.
ZoneErrorWithoutCname(rrsets, next) ==
  IF Cardinality(rrsets[SOAKey]) # 1 THEN "ZONE_INVALID"
  ELSE IF rrsets[SOAKey] # {next} THEN "SERIAL_INVALID"
  ELSE IF rrsets[NSKey] = {} THEN "ZONE_INVALID"
  ELSE IF RecordCount(rrsets) > MaxRecords THEN "LIMIT_EXCEEDED"
  ELSE "NONE"

\* _validate_zone_invariants and the record limit: the first error, or "NONE".
ZoneError(rrsets, next) ==
  IF Cardinality(rrsets[SOAKey]) # 1 THEN "ZONE_INVALID"
  ELSE IF rrsets[SOAKey] # {next} THEN "SERIAL_INVALID"
  ELSE IF rrsets[NSKey] = {} \/ CnameClash(rrsets) THEN "ZONE_INVALID"
  ELSE IF RecordCount(rrsets) > MaxRecords THEN "LIMIT_EXCEEDED"
  ELSE "NONE"

\* A defect: the base serial is not compared with the current one.
RefusalForAnyBase(r, z, rows) ==
  IF ~IsForward(r.base, r.next) THEN NotForwardError(r.base, r.next)
  ELSE IF r.defect # "NONE" THEN r.defect
  ELSE ZoneError(Applied(rows, r.ops), r.next)

\* The first check of publish that r fails on zone row z with RRsets rows.
Refusal(r, z, rows) ==
  IF ~IsForward(r.base, r.next) THEN NotForwardError(r.base, r.next)
  ELSE IF Compare(z.serial, r.base) # "EQUAL" THEN "VERSION_CONFLICT"
  ELSE IF r.defect # "NONE" THEN r.defect
  ELSE ZoneError(Applied(rows, r.ops), r.next)

\* Adding a row to a table.
Insert(table, id, row) ==
  [i \in DOMAIN table \union {id} |-> IF i = id THEN row ELSE table[i]]

Empty == [x \in {} |-> x]
-----------------------------------------------------------------------------
Init ==
  /\ zone = [created |-> FALSE, serial |-> 0, version |-> 0, retain |-> 1]
  /\ versions = Empty
  /\ records = Empty
  /\ changes = Empty
  /\ ledger = Empty
  /\ tasks = <<>>
  /\ holds = [w \in Cleaners |-> 0]
  /\ req = [c \in Clients |-> NoRequest]
  /\ call = [c \in Clients |-> [n \in 1 .. MaxAttempts |-> Unsent]]

\* A defect: the zone may be there already.
CreateZoneAgain(z) ==
  /\ zone' = [created |-> TRUE, serial |-> z.serial, version |-> 0,
              retain |-> z.retain]
  /\ versions' = Insert(versions, 0,
                        [serial |-> z.serial, request |-> "__create__"])
  /\ records' = Insert(records, 0,
                       [k \in RRKeys |-> IF k = SOAKey THEN {z.serial}
                                         ELSE IF k = NSKey THEN z.ns ELSE {}])
  /\ UNCHANGED <<changes, ledger, tasks, holds, req, call>>

\* create_zone: version 0 holds the SOA and the NS records of the request.
CreateZone(z) ==
  /\ ~zone.created
  /\ zone' = [created |-> TRUE, serial |-> z.serial, version |-> 0,
              retain |-> z.retain]
  /\ versions' = Insert(versions, 0,
                        [serial |-> z.serial, request |-> "__create__"])
  /\ records' = Insert(records, 0,
                       [k \in RRKeys |-> IF k = SOAKey THEN {z.serial}
                                         ELSE IF k = NSKey THEN z.ns ELSE {}])
  /\ UNCHANGED <<changes, ledger, tasks, holds, req, call>>

(***************************************************************************)
(* Clients.  A client that has no final answer may send its request again, *)
(* also while an earlier attempt is still on its way.                      *)
(***************************************************************************)
Submit(c, r) ==
  /\ req[c] = NoRequest
  /\ req' = [req EXCEPT ![c] = r]
  /\ call' = [call EXCEPT ![c][1] = Sent]
  /\ UNCHANGED <<zone, versions, records, changes, ledger, tasks, holds>>

Retry(c, n) ==
  /\ n < MaxAttempts
  /\ call[c][n] \notin Outcomes \union {Unsent, Conflict}
  /\ call[c][n + 1] = Unsent
  /\ call' = [call EXCEPT ![c][n + 1] = Sent]
  /\ UNCHANGED <<zone, versions, records, changes, ledger, tasks, holds, req>>

\* The answer reaches the client, or is lost after the transaction ended.
Answer(c, n, a) ==
  \E heard \in {a, Lost} : call' = [call EXCEPT ![c][n] = heard]

\* The instance dies, or waits too long for the write lock, before commit.
CallDropped(c, n) ==
  /\ call[c][n] = Sent
  /\ call' = [call EXCEPT ![c][n] = Lost]
  /\ UNCHANGED <<zone, versions, records, changes, ledger, tasks, holds, req>>
-----------------------------------------------------------------------------
(* publish: one action per way the transaction can end. *)

PublishNoZone(c, n) ==
  /\ call[c][n] = Sent
  /\ ~zone.created
  /\ Answer(c, n, Failed("ZONE_NOT_FOUND"))
  /\ UNCHANGED <<zone, versions, records, changes, ledger, tasks, holds, req>>

\* A defect: the fingerprints are not compared.
PublishReplayedUnchecked(c, n) ==
  /\ call[c][n] = Sent
  /\ zone.created
  /\ req[c].id \in DOMAIN ledger
  /\ Answer(c, n, ledger[req[c].id].outcome)
  /\ UNCHANGED <<zone, versions, records, changes, ledger, tasks, holds, req>>

PublishReplayed(c, n) ==
  /\ call[c][n] = Sent
  /\ zone.created
  /\ req[c].id \in DOMAIN ledger
  /\ Answer(c, n, IF ledger[req[c].id].content = Content(req[c])
                    THEN ledger[req[c].id].outcome
                    ELSE Conflict)
  /\ UNCHANGED <<zone, versions, records, changes, ledger, tasks, holds, req>>

\* Defects: every refusal rolls back ...
PublishRefusedUnrecorded(c, n) ==
  LET error == Refusal(req[c], zone, records[zone.version])
  IN  /\ call[c][n] = Sent
      /\ zone.created
      /\ req[c].id \notin DOMAIN ledger
      /\ error # "NONE"
      /\ Answer(c, n, Failed(error))
      /\ UNCHANGED <<zone, versions, records, changes, ledger, tasks, holds,
                     req>>

\* ... every refusal is recorded, input errors too ...
PublishRefusedRecorded(c, n) ==
  LET r == req[c]
      error == Refusal(r, zone, records[zone.version])
  IN  /\ call[c][n] = Sent
      /\ zone.created
      /\ r.id \notin DOMAIN ledger
      /\ error # "NONE"
      /\ ledger' = Insert(ledger, r.id, [content |-> Content(r),
                                         outcome |-> Failed(error)])
      /\ Answer(c, n, Failed(error))
      /\ UNCHANGED <<zone, versions, records, changes, tasks, holds, req>>

\* ... a refusal replaces the row that is there.
PublishRefusedAgain(c, n) ==
  LET r == req[c]
      error == Refusal(r, zone, records[zone.version])
  IN  /\ call[c][n] = Sent
      /\ zone.created
      /\ error \in LedgerableFailures
      /\ ledger' = Insert(ledger, r.id, [content |-> Content(r),
                                         outcome |-> Failed(error)])
      /\ Answer(c, n, Failed(error))
      /\ UNCHANGED <<zone, versions, records, changes, tasks, holds, req>>

\* Semantic refusals enter the ledger, input errors roll back.
PublishRefused(c, n) ==
  LET r == req[c]
      error == Refusal(r, zone, records[zone.version])
  IN  /\ call[c][n] = Sent
      /\ zone.created
      /\ r.id \notin DOMAIN ledger
      /\ error # "NONE"
      /\ ledger' = IF error \in LedgerableFailures
                     THEN Insert(ledger, r.id, [content |-> Content(r),
                                                outcome |-> Failed(error)])
                     ELSE ledger
      /\ Answer(c, n, Failed(error))
      /\ UNCHANGED <<zone, versions, records, changes, tasks, holds, req>>

\* A request that passes every check publish makes itself.
Acceptable(r) ==
  /\ zone.created
  /\ r.id \notin DOMAIN ledger
  /\ Refusal(r, zone, records[zone.version]) = "NONE"

\* A defect: no UNIQUE (zone, serial).
SerialNeverInUse(s) == FALSE

\* UNIQUE (zone, serial) over the versions that are still retained.
SerialInUse(s) == \E v \in DOMAIN versions : versions[v].serial = s

\* The INSERT INTO versions fails: all is rolled back, nothing is recorded.
PublishSerialReused(c, n) ==
  /\ call[c][n] = Sent
  /\ Acceptable(req[c])
  /\ SerialInUse(req[c].next)
  /\ Answer(c, n, Failed("INTERNAL"))
  /\ UNCHANGED <<zone, versions, records, changes, ledger, tasks, holds, req>>

PublishCommits(c, n) ==
  LET r == req[c]
      old == records[zone.version]
      rrsets == Applied(old, r.ops)
      new == zone.version + 1
      outcome == Committed(new, r.next)
  IN  /\ call[c][n] = Sent
      /\ Acceptable(r)
      /\ ~SerialInUse(r.next)
      /\ zone' = [zone EXCEPT !.serial = r.next, !.version = new]
      /\ versions' = Insert(versions, new,
                            [serial |-> r.next, request |-> r.id])
      /\ \E changed \in Noted(old, r.ops) :
           /\ records' = Insert(records, new, Snapshot(old, rrsets, changed))
           /\ changes' = Insert(changes, new, Delta(old, rrsets, changed))
      /\ ledger' = Insert(ledger, r.id, [content |-> Content(r),
                                         outcome |-> outcome])
      /\ tasks' = Append(tasks, "PENDING")
      /\ Answer(c, n, outcome)
      /\ UNCHANGED <<holds, req>>

Publish(c, n) ==
  \/ PublishNoZone(c, n)
  \/ PublishReplayed(c, n)
  \/ PublishRefused(c, n)
  \/ PublishSerialReused(c, n)
  \/ PublishCommits(c, n)
-----------------------------------------------------------------------------
\* A defect: no cleanup is enqueued.
SetRetentionOnly(k) ==
  /\ zone.created
  /\ zone' = [zone EXCEPT !.retain = k]
  /\ UNCHANGED <<versions, records, changes, ledger, tasks, holds, req, call>>

SetRetention(k) ==
  /\ zone.created
  /\ Len(tasks) < MaxTasks
  /\ zone' = [zone EXCEPT !.retain = k]
  /\ tasks' = Append(tasks, "PENDING")
  /\ UNCHANGED <<versions, records, changes, ledger, holds, req, call>>

Pending == {t \in DOMAIN tasks : tasks[t] = "PENDING"}
Running == {t \in DOMAIN tasks : tasks[t] = "RUNNING"}

\* The oldest PENDING task; with none, a RUNNING one whose lease ran out
\* (which may have happened to any of them: module Leases has the time).
Claimable ==
  IF Pending # {} THEN {t \in Pending : \A u \in Pending : t <= u} ELSE Running

ClaimTask(w) ==
  /\ holds[w] = 0
  /\ \E t \in Claimable :
       /\ tasks' = [tasks EXCEPT ![t] = "RUNNING"]
       /\ holds' = [holds EXCEPT ![w] = t]
  /\ UNCHANGED <<zone, versions, records, changes, ledger, req, call>>

ClaimNothing(w) ==
  /\ holds[w] = 0
  /\ Claimable = {}
  /\ UNCHANGED vars

AtMost(a, b) == IF a <= b THEN a ELSE b
AtLeast(a, b) == IF a >= b THEN a ELSE b

\* A defect: one version too many goes.
DeleteBeforeOneMore(m) ==
  AtMost(zone.version - AtLeast(1, zone.retain) + 2, m)

\* The first version that a cleanup meeting pin horizon m leaves in place.
DeleteBefore(m) == AtMost(zone.version - AtLeast(1, zone.retain) + 1, m)

\* The worker does not look whether its lease is still its own.
CleanupUpTo(w, m) ==
  LET kept(table) == {v \in DOMAIN table : v >= DeleteBefore(m)}
  IN  /\ holds[w] # 0
      /\ versions' = Restrict(versions, kept(versions))
      /\ records' = Restrict(records, kept(records))
      /\ changes' = Restrict(changes, kept(changes))
      /\ tasks' = [tasks EXCEPT ![holds[w]] = "DONE"]
      /\ holds' = [holds EXCEPT ![w] = 0]
      /\ UNCHANGED <<zone, ledger, req, call>>

\* The horizon where no pin is found, and those that pins can set: module
\* Transfers has the pins themselves.
NoPin == 999999999
Horizons == {NoPin} \union (IF MayBePinned THEN 0 .. zone.version ELSE {})

RunCleanup(w) == \E m \in Horizons : CleanupUpTo(w, m)

\* A defect: a cleanup that fails is DONE.
CleanupAbortedDone(w) ==
  /\ holds[w] # 0
  /\ tasks' = [tasks EXCEPT ![holds[w]] = "DONE"]
  /\ holds' = [holds EXCEPT ![w] = 0]
  /\ UNCHANGED <<zone, versions, records, changes, ledger, req, call>>

\* The worker dies or its transaction fails: the task stays RUNNING.
CleanupAborted(w) ==
  /\ holds[w] # 0
  /\ holds' = [holds EXCEPT ![w] = 0]
  /\ UNCHANGED <<zone, versions, records, changes, ledger, tasks, req, call>>
-----------------------------------------------------------------------------
ClientStep(c) ==
  \/ \E r \in Requests : Submit(c, r)
  \/ \E n \in 1 .. MaxAttempts :
       Retry(c, n) \/ Publish(c, n) \/ CallDropped(c, n)

CleanerStep(w) ==
  ClaimTask(w) \/ ClaimNothing(w) \/ RunCleanup(w) \/ CleanupAborted(w)

Next ==
  \/ \E z \in Creations : CreateZone(z)
  \/ \E c \in Clients : ClientStep(c)
  \/ \E k \in Retentions : SetRetention(k)
  \/ \E w \in Cleaners : CleanerStep(w)

Spec == Init /\ [][Next]_vars
-----------------------------------------------------------------------------
(* Properties. *)

LedgerRows ==
  [content : {Content(r) : r \in Requests}, outcome : Outcomes]

CallStates ==
  Outcomes \union {Conflict, Unsent, Sent, Lost}
    \union {Failed(e) : e \in {"ZONE_NOT_FOUND", "VALIDATION_ERROR",
                               "INTERNAL"}}

\* The type invariant; a table is a function on the keys of its rows.
TypeOK ==
  /\ zone \in [created : BOOLEAN, serial : Serials, version : Nat,
               retain : Nat \ {0}]
  /\ DOMAIN versions \subseteq Nat
  /\ versions \in [DOMAIN versions ->
                     [serial : Serials,
                      request : RequestIds \union {"__create__"}]]
  /\ records \in [DOMAIN versions -> RRsets]
  /\ DOMAIN changes \subseteq Nat
  /\ changes \in [DOMAIN changes -> [del : RRsets, add : RRsets]]
  /\ DOMAIN ledger \subseteq RequestIds
  /\ ledger \in [DOMAIN ledger -> LedgerRows]
  /\ tasks \in Seq({"PENDING", "RUNNING", "DONE"})
  /\ holds \in [Cleaners -> {0} \union DOMAIN tasks]
  /\ req \in [Clients -> Requests \union {NoRequest}]
  /\ call \in [Clients -> [1 .. MaxAttempts -> CallStates]]

(***************************************************************************)
(* Cleanup and publish keep the retained versions an unbroken interval     *)
(* that ends at the current one, each with its snapshot and (except        *)
(* version 0) its delta: the gap _decide_ixfr looks for never appears, and *)
(* a version is never left without the rows a transfer of it reads.        *)
(***************************************************************************)
RetainedInterval ==
  zone.created =>
    /\ zone.version \in DOMAIN versions
    /\ \A v \in DOMAIN versions : v .. zone.version \subseteq DOMAIN versions
    /\ \A v \in DOMAIN versions : v <= zone.version
    /\ DOMAIN records = DOMAIN versions
    /\ DOMAIN changes = DOMAIN versions \ {0}

(***************************************************************************)
(* Each retained version carries a serial forward of the one before it,    *)
(* the last is the zone's, and no two are equal, also after the serial     *)
(* space has wrapped around: a client's serial names one starting point.   *)
(***************************************************************************)
SerialChain ==
  zone.created =>
    /\ versions[zone.version].serial = zone.serial
    /\ \A v \in DOMAIN versions :
         v + 1 \in DOMAIN versions =>
           IsForward(versions[v].serial, versions[v + 1].serial)
    /\ \A v, w \in DOMAIN versions :
         versions[v].serial = versions[w].serial => v = w

(***************************************************************************)
(* The delta of a version turns the snapshot before it into its own, and   *)
(* it deletes only rows that were there and adds none that stayed: what an *)
(* IXFR client rebuilds from deltas is what an AXFR client receives.       *)
(***************************************************************************)
DeltasRebuildSnapshots ==
  \A v \in DOMAIN changes :
    (v - 1) \in DOMAIN records =>
      \A k \in RRKeys :
        LET del == changes[v].del[k]
            add == changes[v].add[k]
            old == records[v - 1][k]
        IN  /\ del \subseteq old
            /\ add \intersect (old \ del) = {}
            /\ records[v][k] = (old \ del) \union add

(***************************************************************************)
(* Every retained snapshot, not only the current one, is a zone that can   *)
(* be served: one SOA, with that version's serial, an NS, no CNAME beside  *)
(* other data.                                                             *)
(***************************************************************************)
SnapshotsAreZones ==
  \A v \in DOMAIN records :
    /\ records[v][SOAKey] = {versions[v].serial}
    /\ records[v][NSKey] # {}
    /\ ~CnameClash(records[v])

CommittedIds == {id \in DOMAIN ledger : ledger[id].outcome.code = "COMMITTED"}

(***************************************************************************)
(* The idempotency ledger and the versions tell the same story: every      *)
(* version ever created (deleted ones too) belongs to exactly one          *)
(* COMMITTED request, and a retained version names that request.           *)
(***************************************************************************)
LedgerMatchesVersions ==
  /\ {ledger[id].outcome.version : id \in CommittedIds} = 1 .. zone.version
  /\ \A i, j \in CommittedIds :
       ledger[i].outcome.version = ledger[j].outcome.version => i = j
  /\ \A v \in DOMAIN versions \ {0} :
       /\ versions[v].request \in CommittedIds
       /\ ledger[versions[v].request].outcome = Committed(v, versions[v].serial)

Final == Outcomes \union {Conflict}

(***************************************************************************)
(* However often a request is sent, through whichever instance, and        *)
(* whatever happens in between, the final answers that clients hear for    *)
(* the same requestId and content are all the same.                        *)
(***************************************************************************)
OneOutcome ==
  \A c, d \in Clients : \A n, m \in 1 .. MaxAttempts :
    req[c] = req[d] /\ call[c][n] \in Final /\ call[d][m] \in Final
      => call[c][n] = call[d][m]

(***************************************************************************)
(* An outcome a client has heard is the one on record, for its own content.*)
(* This is why OneOutcome holds.                                           *)
(***************************************************************************)
AnswersOnRecord ==
  \A c \in Clients : \A n \in 1 .. MaxAttempts :
    /\ call[c][n] \in Outcomes =>
         /\ req[c].id \in DOMAIN ledger
         /\ ledger[req[c].id] = [content |-> Content(req[c]),
                                 outcome |-> call[c][n]]
    /\ call[c][n] = Conflict =>
         /\ req[c].id \in DOMAIN ledger
         /\ ledger[req[c].id].content # Content(req[c])

(***************************************************************************)
(* A version, once written, is never altered, and its number is never      *)
(* given to another version after it was cleaned up.                       *)
(***************************************************************************)
VersionsImmutable ==
  [][ /\ \A v \in DOMAIN versions \intersect DOMAIN versions' :
           /\ versions'[v] = versions[v]
           /\ records'[v] = records[v]
           /\ v # 0 => changes'[v] = changes[v]
      /\ \A v \in DOMAIN versions' \ DOMAIN versions :
           zone.created => v > zone.version ]_vars

(***************************************************************************)
(* Cleanup never takes one of the newest retain_versions versions.         *)
(***************************************************************************)
NewestVersionsKept ==
  [][ \A v \in DOMAIN versions :
        v > zone.version - zone.retain => v \in DOMAIN versions' ]_vars

(***************************************************************************)
(* The publish API keeps the promise of PublicationLog: the log is read    *)
(* off the ledger, where every version ever made names its request.        *)
(***************************************************************************)
RefusedIds == DOMAIN ledger \ CommittedIds

CommitLog ==
  [v \in 1 .. zone.version |->
     CHOOSE id \in CommittedIds : ledger[id].outcome.version = v]

Promise == INSTANCE PublicationLog
             WITH created <- zone.created, serial <- zone.serial,
                  log <- CommitLog, refused <- RefusedIds

PublicationPromise == Promise!Spec
=============================================================================
