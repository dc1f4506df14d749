--------------------------- MODULE ZoneStoreProofs ---------------------------
(***************************************************************************)
(* The tables of ZoneStore, for every set of requests, clients and         *)
(* cleaners and every size of the serial space. Structure is the inductive *)
(* invariant the others rest on: the versions a publish reads are there    *)
(* only because cleanups leave an unbroken interval that ends at the       *)
(* current version.                                                        *)
(***************************************************************************)
EXTENDS ZoneStore, SerialProofs

(* Lemmas about the operators. *)

\* The fields of a publish request.
LEMMA RequestFields ==
  ASSUME NEW r \in Requests
  PROVE  /\ r.id \in RequestIds
         /\ r.base \in Serials
         /\ r.next \in Serials
         /\ DOMAIN r.ops \subseteq RRKeys
         /\ \A k \in DOMAIN r.ops : r.ops[k] \subseteq Data
         /\ r.defect \in {"NONE", "VALIDATION_ERROR", "CHANGESET_INVALID",
                         "LIMIT_EXCEEDED"}
BY StoreAssumption DEF IsRequest, RequestIds

\* Applying operations to RRsets gives RRsets.
LEMMA AppliedType ==
  ASSUME NEW r \in Requests, NEW old \in RRsets
  PROVE  Applied(old, r.ops) \in RRsets
BY RequestFields DEF Applied, RRsets

\* The rows that _materialize writes have the shape of their tables.
LEMMA SnapshotType ==
  ASSUME NEW old \in RRsets, NEW rrsets \in RRsets, NEW changed
  PROVE  /\ Snapshot(old, rrsets, changed) \in RRsets
         /\ Delta(old, rrsets, changed) \in [del : RRsets, add : RRsets]
BY DEF Snapshot, Delta, RRsets

\* The DEL and ADD sections of a delta, RRset by RRset.
LEMMA DeltaFields ==
  ASSUME NEW old, NEW rrsets, NEW changed, NEW k \in RRKeys
  PROVE  /\ Delta(old, rrsets, changed).del[k] = IF k \in changed THEN old[k] ELSE {}
         /\ Delta(old, rrsets, changed).add[k] = IF k \in changed THEN rrsets[k] ELSE {}
BY DEF Delta

\* The SOA and the NS RRset of the apex are among the RRsets.
LEMMA KeysInRRKeys == SOAKey \in RRKeys /\ NSKey \in RRKeys
BY StoreAssumption DEF SOAKey, NSKey, RRKeys

\* A refusal is ledgerable, or it is VALIDATION_ERROR.
LEMMA RefusalValues ==
  ASSUME NEW r \in Requests, NEW z, NEW rows
  PROVE  Refusal(r, z, rows) \in
           LedgerableFailures \union {"NONE", "VALIDATION_ERROR"}
BY RequestFields DEF Refusal, NotForwardError, ZoneError, LedgerableFailures

\* A cleanup never reaches the newest retain_versions versions.
LEMMA DeleteBeforeBound ==
  ASSUME NEW m \in Nat, zone.version \in Nat, zone.retain \in Nat \ {0}
  PROVE  /\ DeleteBefore(m) \in Int
         /\ DeleteBefore(m) <= zone.version
         /\ DeleteBefore(m) <= zone.version - zone.retain + 1
BY DEF DeleteBefore, AtMost, AtLeast

\* Setting one attempt of one client leaves the others alone.
LEMMA CallUpdate ==
  ASSUME call \in [Clients -> [1 .. MaxAttempts -> CallStates]],
         NEW c \in Clients, NEW n \in 1 .. MaxAttempts, NEW a \in CallStates,
         call' = [call EXCEPT ![c][n] = a]
  PROVE  /\ call' \in [Clients -> [1 .. MaxAttempts -> CallStates]]
         /\ \A d \in Clients : \A m \in 1 .. MaxAttempts :
              call'[d][m] = IF d = c /\ m = n THEN a ELSE call[d][m]
OBVIOUS

\* An answered attempt has the answer or has lost it.
LEMMA AnswerEffect ==
  ASSUME call \in [Clients -> [1 .. MaxAttempts -> CallStates]],
         NEW c \in Clients, NEW n \in 1 .. MaxAttempts, NEW a \in CallStates,
         Answer(c, n, a)
  PROVE  /\ call' \in [Clients -> [1 .. MaxAttempts -> CallStates]]
         /\ \A d \in Clients : \A m \in 1 .. MaxAttempts :
              \/ call'[d][m] = call[d][m]
              \/ d = c /\ m = n /\ call'[d][m] \in {a, Lost}
<1>1. PICK heard \in {a, Lost} : call' = [call EXCEPT ![c][n] = heard]
  BY DEF Answer
<1>2. heard \in CallStates
  BY DEF CallStates
<1> QED BY <1>1, <1>2, CallUpdate
-----------------------------------------------------------------------------
\* Before the zone is created its tables are empty.
EmptyBeforeCreation ==
  ~zone.created =>
    /\ zone.version = 0
    /\ DOMAIN versions = {}
    /\ DOMAIN changes = {}
    /\ DOMAIN ledger = {}

\* A client that has not chosen a request has made no attempt.
CallsHaveRequests ==
  \A c \in Clients :
    req[c] = NoRequest => \A n \in 1 .. MaxAttempts : call[c][n] = Unsent

\* The inductive invariant.
Structure ==
  /\ TypeOK
  /\ EmptyBeforeCreation
  /\ CallsHaveRequests
  /\ RetainedInterval

\* A client with an attempt on its way has chosen a request.
LEMMA SentHasRequest ==
  ASSUME Structure, NEW c \in Clients, NEW n \in 1 .. MaxAttempts,
         call[c][n] # Unsent
  PROVE  req[c] \in Requests
BY DEF Structure, TypeOK, CallsHaveRequests

\* Structure holds before the zone exists.
LEMMA StructureInit == Init => Structure
<1> SUFFICES ASSUME Init PROVE Structure
  OBVIOUS
<1>1. TypeOK
  BY StoreAssumption, SerialAssumption DEF Init, TypeOK, Empty, CallStates, Serials, MOD
<1> QED BY <1>1 DEF Init, Structure, EmptyBeforeCreation, CallsHaveRequests, RetainedInterval, Empty

\* create_zone starts the interval at version 0.
LEMMA StructureCreateZone ==
  ASSUME Structure, NEW z \in Creations, CreateZone(z)
  PROVE  Structure'
<1> USE StoreAssumption DEF Structure
<1>1. z.serial \in Serials /\ z.ns \subseteq Rdata /\ z.retain \in Nat \ {0}
  OBVIOUS
<1>2. \A k \in RRKeys : (IF k = SOAKey THEN {z.serial} ELSE IF k = NSKey THEN z.ns ELSE {}) \subseteq Data
  BY <1>1 DEF Data
<1>3. DOMAIN versions = {} /\ DOMAIN records = {} /\ DOMAIN changes = {} /\ DOMAIN ledger = {}
  BY DEF CreateZone, EmptyBeforeCreation, TypeOK
<1>4. TypeOK'
  BY <1>1, <1>2, <1>3 DEF CreateZone, TypeOK, Insert, RRsets
<1>5. RetainedInterval'
  BY <1>3 DEF CreateZone, RetainedInterval, Insert
<1> QED BY <1>4, <1>5 DEF CreateZone, EmptyBeforeCreation, CallsHaveRequests

\* A step that only touches the calls of a client that has sent its request.
LEMMA StructureCallOnly ==
  ASSUME Structure, NEW c \in Clients, NEW n \in 1 .. MaxAttempts,
         call[c][n] # Unsent, NEW a \in CallStates, Answer(c, n, a),
         UNCHANGED <<zone, versions, records, changes, ledger, tasks, holds,
                     req>>
  PROVE  Structure'
<1> USE DEF Structure
<1>1. /\ call' \in [Clients -> [1 .. MaxAttempts -> CallStates]]
      /\ \A d \in Clients : \A m \in 1 .. MaxAttempts :
           call'[d][m] # call[d][m] => d = c
  BY AnswerEffect DEF TypeOK
<1>2. req[c] # NoRequest
  BY DEF CallsHaveRequests
<1>3. TypeOK'
  BY <1>1 DEF TypeOK
<1>4. CallsHaveRequests'
  BY <1>1, <1>2 DEF CallsHaveRequests
<1> QED BY <1>3, <1>4 DEF EmptyBeforeCreation, RetainedInterval

\* A client's first attempt keeps Structure.
LEMMA StructureSubmit ==
  ASSUME Structure, NEW c \in Clients, NEW r \in Requests, Submit(c, r)
  PROVE  Structure'
<1> USE DEF Structure
<1>1. 1 \in 1 .. MaxAttempts /\ Sent \in CallStates
  BY StoreAssumption DEF CallStates
<1>2. /\ call' \in [Clients -> [1 .. MaxAttempts -> CallStates]]
      /\ \A d \in Clients : \A m \in 1 .. MaxAttempts :
           d # c => call'[d][m] = call[d][m]
  BY <1>1, CallUpdate DEF TypeOK, Submit
<1>3. r # NoRequest
  BY StoreAssumption DEF IsRequest, NoRequest
<1>4. req' = [req EXCEPT ![c] = r]
  BY DEF Submit
<1>5. TypeOK'
  BY <1>2, <1>4 DEF TypeOK, Submit
<1>6. CallsHaveRequests'
  BY <1>2, <1>3, <1>4 DEF CallsHaveRequests, TypeOK
<1> QED BY <1>5, <1>6 DEF EmptyBeforeCreation, RetainedInterval, Submit

\* A further attempt keeps Structure.
LEMMA StructureRetry ==
  ASSUME Structure, NEW c \in Clients, NEW n \in 1 .. MaxAttempts, Retry(c, n)
  PROVE  Structure'
<1> USE DEF Structure
<1>1. n + 1 \in 1 .. MaxAttempts /\ Sent \in CallStates
  BY StoreAssumption DEF CallStates, Retry
<1>2. /\ call' \in [Clients -> [1 .. MaxAttempts -> CallStates]]
      /\ \A d \in Clients : \A m \in 1 .. MaxAttempts :
           d # c => call'[d][m] = call[d][m]
  BY <1>1, CallUpdate DEF TypeOK, Retry
<1>3. req[c] # NoRequest
  BY DEF CallsHaveRequests, Retry
<1>4. TypeOK'
  BY <1>2 DEF TypeOK, Retry
<1>5. CallsHaveRequests'
  BY <1>2, <1>3 DEF CallsHaveRequests, Retry
<1> QED BY <1>4, <1>5 DEF EmptyBeforeCreation, RetainedInterval, Retry

\* An attempt that never reached the database keeps Structure.
LEMMA StructureCallDropped ==
  ASSUME Structure, NEW c \in Clients, NEW n \in 1 .. MaxAttempts,
         CallDropped(c, n)
  PROVE  Structure'
<1>1. Answer(c, n, Lost)
  BY DEF CallDropped, Answer
<1>2. Lost \in CallStates /\ call[c][n] # Unsent
  BY DEF CallStates, CallDropped, Sent, Unsent
<1> QED BY <1>1, <1>2, StructureCallOnly DEF CallDropped

\* A publish without a zone keeps Structure.
LEMMA StructurePublishNoZone ==
  ASSUME Structure, NEW c \in Clients, NEW n \in 1 .. MaxAttempts,
         PublishNoZone(c, n)
  PROVE  Structure'
<1>1. Failed("ZONE_NOT_FOUND") \in CallStates /\ call[c][n] # Unsent
  BY DEF CallStates, PublishNoZone, Sent, Unsent
<1> QED BY <1>1, StructureCallOnly DEF PublishNoZone

\* A replay only answers.
LEMMA StructurePublishReplayed ==
  ASSUME Structure, NEW c \in Clients, NEW n \in 1 .. MaxAttempts,
         PublishReplayed(c, n)
  PROVE  Structure'
<1> DEFINE a == IF ledger[req[c].id].content = Content(req[c])
                  THEN ledger[req[c].id].outcome ELSE Conflict
<1>1. a \in CallStates /\ call[c][n] # Unsent
  BY DEF CallStates, PublishReplayed, Sent, Unsent, Structure, TypeOK, LedgerRows
<1>2. Answer(c, n, a)
  BY DEF PublishReplayed
<1> HIDE DEF a
<1> QED BY <1>1, <1>2, StructureCallOnly DEF PublishReplayed

\* A rolled back publish only answers.
LEMMA StructurePublishSerialReused ==
  ASSUME Structure, NEW c \in Clients, NEW n \in 1 .. MaxAttempts,
         PublishSerialReused(c, n)
  PROVE  Structure'
<1>1. Failed("INTERNAL") \in CallStates /\ call[c][n] # Unsent
  BY DEF CallStates, PublishSerialReused, Sent, Unsent
<1> QED BY <1>1, StructureCallOnly DEF PublishSerialReused

\* A refusal adds a well-formed row to the ledger.
LEMMA StructurePublishRefused ==
  ASSUME Structure, NEW c \in Clients, NEW n \in 1 .. MaxAttempts,
         PublishRefused(c, n)
  PROVE  Structure'
<1> USE DEF Structure
<1> DEFINE r == req[c]
           error == Refusal(r, zone, records[zone.version])
           row == [content |-> Content(r), outcome |-> Failed(error)]
<1>1. call[c][n] # Unsent /\ r \in Requests
  BY SentHasRequest DEF PublishRefused, Sent, Unsent
<1>2. error \in LedgerableFailures \union {"VALIDATION_ERROR"}
  BY <1>1, RefusalValues DEF PublishRefused
<1>3. Failed(error) \in CallStates
  BY <1>2 DEF CallStates, Failed, Outcomes
<1>4. /\ call' \in [Clients -> [1 .. MaxAttempts -> CallStates]]
      /\ \A d \in Clients : \A m \in 1 .. MaxAttempts :
           call'[d][m] # call[d][m] => d = c
  <2>1. Answer(c, n, Failed(error))
    BY DEF PublishRefused
  <2> HIDE DEF error
  <2> QED BY <1>3, <2>1, AnswerEffect DEF TypeOK
<1>5. /\ DOMAIN ledger' \subseteq RequestIds
      /\ ledger' \in [DOMAIN ledger' -> LedgerRows]
  <2>1. CASE error \in LedgerableFailures
    <3>1. ledger' = Insert(ledger, r.id, row)
      BY <2>1 DEF PublishRefused
    <3>2. row \in LedgerRows /\ r.id \in RequestIds
      BY <1>1, <2>1, RequestFields DEF LedgerRows, Failed, Outcomes
    <3>3. ledger \in [DOMAIN ledger -> LedgerRows] /\ DOMAIN ledger \subseteq RequestIds
      BY DEF TypeOK
    <3> HIDE DEF row, r
    <3>4. /\ DOMAIN Insert(ledger, r.id, row) = DOMAIN ledger \union {r.id}
          /\ Insert(ledger, r.id, row) \in [DOMAIN ledger \union {r.id} -> LedgerRows]
      BY <3>2, <3>3 DEF Insert
    <3> QED BY <3>1, <3>2, <3>3, <3>4
  <2>2. CASE error \notin LedgerableFailures
    BY <2>2 DEF PublishRefused, TypeOK
  <2> QED BY <2>1, <2>2
<1>6. TypeOK'
  BY <1>4, <1>5 DEF TypeOK, PublishRefused
<1>7. CallsHaveRequests'
  BY <1>1, <1>4 DEF CallsHaveRequests, PublishRefused
<1> QED BY <1>6, <1>7 DEF EmptyBeforeCreation, RetainedInterval, PublishRefused

\* What the requests and tables look like when a publish commits.
LEMMA CommitFacts ==
  ASSUME Structure, NEW c \in Clients, NEW n \in 1 .. MaxAttempts,
         PublishCommits(c, n)
  PROVE  /\ req[c] \in Requests
         /\ call[c][n] # Unsent
         /\ zone.created
         /\ zone.version \in DOMAIN versions
         /\ DOMAIN records = DOMAIN versions
         /\ records[zone.version] \in RRsets
         /\ zone.version + 1 \notin DOMAIN versions
         /\ zone.version + 1 \notin DOMAIN changes
<1>1. call[c][n] # Unsent /\ zone.created
  BY DEF PublishCommits, Acceptable, Sent, Unsent
<1>2. zone.version \in Nat
  BY DEF Structure, TypeOK
<1>3. zone.version + 1 > zone.version
  BY <1>2
<1> QED
  BY <1>1, <1>2, <1>3, SentHasRequest DEF Structure, TypeOK, RetainedInterval

\* A commit extends the interval at its end.
LEMMA StructurePublishCommits ==
  ASSUME Structure, NEW c \in Clients, NEW n \in 1 .. MaxAttempts,
         PublishCommits(c, n)
  PROVE  Structure'
<1> USE DEF Structure
<1> DEFINE r == req[c]
           old == records[zone.version]
           rrsets == Applied(old, r.ops)
           new == zone.version + 1
           outcome == Committed(new, r.next)
           row == [content |-> Content(r), outcome |-> outcome]
<1>0. PICK changed \in Noted(old, r.ops) :
        /\ records' = Insert(records, new, Snapshot(old, rrsets, changed))
        /\ changes' = Insert(changes, new, Delta(old, rrsets, changed))
  BY DEF PublishCommits
<1> DEFINE snapshot == Snapshot(old, rrsets, changed)
           delta == Delta(old, rrsets, changed)
<1>1. /\ zone' = [zone EXCEPT !.serial = r.next, !.version = new]
      /\ versions' = Insert(versions, new,
                            [serial |-> r.next, request |-> r.id])
      /\ records' = Insert(records, new, snapshot)
      /\ changes' = Insert(changes, new, delta)
      /\ ledger' = Insert(ledger, r.id, row)
      /\ tasks' = Append(tasks, "PENDING")
      /\ Answer(c, n, outcome)
      /\ UNCHANGED <<holds, req>>
  BY <1>0 DEF PublishCommits
<1>2. /\ r \in Requests
      /\ call[c][n] # Unsent
      /\ zone.created
      /\ zone.version \in DOMAIN versions
      /\ DOMAIN records = DOMAIN versions
      /\ old \in RRsets
  BY CommitFacts
<1>3. /\ r.id \in RequestIds
      /\ r.next \in Serials
      /\ new \in Nat \ {0}
  BY <1>2, RequestFields DEF TypeOK
<1>4. snapshot \in RRsets /\ delta \in [del : RRsets, add : RRsets]
  BY <1>2, AppliedType, SnapshotType
<1>5. outcome \in Outcomes /\ row \in LedgerRows
  BY <1>2, <1>3 DEF Outcomes, Committed, LedgerRows
<1>6. /\ call' \in [Clients -> [1 .. MaxAttempts -> CallStates]]
      /\ \A d \in Clients : \A m \in 1 .. MaxAttempts :
           call'[d][m] # call[d][m] => d = c
  <2>1. outcome \in CallStates
    BY <1>5 DEF CallStates
  <2> HIDE DEF outcome
  <2> QED BY <1>1, <2>1, AnswerEffect DEF TypeOK
<1>7. TypeOK'
  <2> HIDE DEF r, new, row, snapshot, delta, outcome
  <2>1. zone' \in [created : BOOLEAN, serial : Serials, version : Nat,
                   retain : Nat \ {0}]
    BY <1>1, <1>3 DEF TypeOK
  <2>2. /\ DOMAIN versions' \subseteq Nat
        /\ versions' \in [DOMAIN versions' ->
                            [serial : Serials,
                             request : RequestIds \union {"__create__"}]]
    BY <1>1, <1>3 DEF TypeOK, Insert
  <2>3. records' \in [DOMAIN versions' -> RRsets]
    BY <1>1, <1>4 DEF TypeOK, Insert
  <2>4. /\ DOMAIN changes' \subseteq Nat
        /\ changes' \in [DOMAIN changes' -> [del : RRsets, add : RRsets]]
    BY <1>1, <1>3, <1>4 DEF TypeOK, Insert
  <2>5. /\ DOMAIN ledger' \subseteq RequestIds
        /\ ledger' \in [DOMAIN ledger' -> LedgerRows]
    BY <1>1, <1>3, <1>5 DEF TypeOK, Insert
  <2>6. /\ tasks' \in Seq({"PENDING", "RUNNING", "DONE"})
        /\ DOMAIN tasks \subseteq DOMAIN tasks'
    BY <1>1 DEF TypeOK
  <2>7. holds' \in [Cleaners -> {0} \union DOMAIN tasks']
    BY <1>1, <2>6 DEF TypeOK
  <2> QED BY <1>1, <1>6, <2>1, <2>2, <2>3, <2>4, <2>5, <2>6, <2>7 DEF TypeOK
<1>8. EmptyBeforeCreation'
  BY <1>1, <1>2 DEF EmptyBeforeCreation, TypeOK
<1>9. CallsHaveRequests'
  <2>1. req[c] # NoRequest
    BY <1>2 DEF CallsHaveRequests
  <2> QED BY <1>1, <1>6, <2>1 DEF CallsHaveRequests
<1>10. RetainedInterval'
  <2> HIDE DEF r, row, snapshot, delta, outcome
  <2>1. /\ DOMAIN versions' = DOMAIN versions \union {new}
        /\ DOMAIN records' = DOMAIN records \union {new}
        /\ DOMAIN changes' = DOMAIN changes \union {new}
        /\ zone'.version = new
    BY <1>1 DEF Insert, TypeOK
  <2>2. zone.version \in Nat /\ DOMAIN versions \subseteq Nat
    BY DEF TypeOK
  <2>3. \A v \in DOMAIN versions : v .. new \subseteq DOMAIN versions \union {new}
    BY <1>2, <2>2 DEF RetainedInterval
  <2>4. new .. new = {new}
    BY <1>3
  <2> QED BY <1>2, <1>3, <2>1, <2>2, <2>3, <2>4 DEF RetainedInterval
<1> QED BY <1>7, <1>8, <1>9, <1>10

\* A change of retention keeps Structure.
LEMMA StructureSetRetention ==
  ASSUME Structure, NEW k \in Retentions, SetRetention(k)
  PROVE  Structure'
<1> USE StoreAssumption DEF Structure
<1>1. /\ tasks' \in Seq({"PENDING", "RUNNING", "DONE"})
      /\ DOMAIN tasks \subseteq DOMAIN tasks'
  BY DEF TypeOK, SetRetention
<1>2. holds' \in [Cleaners -> {0} \union DOMAIN tasks']
  BY <1>1 DEF TypeOK, SetRetention
<1>3. zone' \in [created : BOOLEAN, serial : Serials, version : Nat,
                 retain : Nat \ {0}]
      /\ zone'.created = zone.created /\ zone'.version = zone.version
  BY DEF TypeOK, SetRetention
<1>4. TypeOK'
  BY <1>1, <1>2, <1>3 DEF TypeOK, SetRetention
<1> QED BY <1>3, <1>4 DEF EmptyBeforeCreation, CallsHaveRequests,
                          RetainedInterval, SetRetention

\* Claiming a task keeps Structure.
LEMMA StructureClaimTask ==
  ASSUME Structure, NEW w \in Cleaners, ClaimTask(w)
  PROVE  Structure'
<1> USE DEF Structure
<1>1. PICK t \in Claimable : /\ tasks' = [tasks EXCEPT ![t] = "RUNNING"]
                             /\ holds' = [holds EXCEPT ![w] = t]
  BY DEF ClaimTask
<1>2. t \in DOMAIN tasks
  BY DEF Claimable, Pending, Running
<1>3. tasks' \in Seq({"PENDING", "RUNNING", "DONE"}) /\ DOMAIN tasks' = DOMAIN tasks
  BY <1>1, <1>2 DEF TypeOK
<1>4. holds' \in [Cleaners -> {0} \union DOMAIN tasks']
  BY <1>1, <1>2, <1>3 DEF TypeOK
<1>5. TypeOK'
  BY <1>3, <1>4 DEF TypeOK, ClaimTask
<1> QED BY <1>5 DEF EmptyBeforeCreation, CallsHaveRequests, RetainedInterval,
                    ClaimTask

\* The horizons a cleanup may meet are numbers.
LEMMA HorizonsAreVersions ==
  ASSUME Structure
  PROVE  Horizons \subseteq Nat
BY DEF Horizons, NoPin, Structure, TypeOK

\* A cleanup shortens the interval at its start.
LEMMA StructureRunCleanup ==
  ASSUME Structure, NEW w \in Cleaners, RunCleanup(w)
  PROVE  Structure'
<1> USE StoreAssumption DEF Structure
<1>1. PICK m \in Nat :
        /\ versions' = Restrict(versions, {v \in DOMAIN versions : v >= DeleteBefore(m)})
        /\ records' = Restrict(records, {v \in DOMAIN records : v >= DeleteBefore(m)})
        /\ changes' = Restrict(changes, {v \in DOMAIN changes : v >= DeleteBefore(m)})
  BY HorizonsAreVersions DEF RunCleanup, CleanupUpTo
<1> DEFINE d == DeleteBefore(m)
<1>2. d \in Int /\ d <= zone.version
  BY DeleteBeforeBound DEF TypeOK
<1>3. holds[w] \in DOMAIN tasks
  BY DEF RunCleanup, CleanupUpTo, TypeOK
<1>4. tasks' \in Seq({"PENDING", "RUNNING", "DONE"}) /\ DOMAIN tasks' = DOMAIN tasks
  BY <1>3 DEF RunCleanup, CleanupUpTo, TypeOK
<1> HIDE DEF d
<1>5. TypeOK'
  BY <1>1, <1>4 DEF TypeOK, RunCleanup, CleanupUpTo, Restrict
<1>6. /\ DOMAIN versions' = {v \in DOMAIN versions : v >= d}
      /\ DOMAIN records' = {v \in DOMAIN records : v >= d}
      /\ DOMAIN changes' = {v \in DOMAIN changes : v >= d}
      /\ zone' = zone
  BY <1>1 DEF Restrict, RunCleanup, CleanupUpTo, d
<1>7. RetainedInterval'
  BY <1>2, <1>6 DEF RetainedInterval, TypeOK
<1>8. EmptyBeforeCreation'
  BY <1>6 DEF EmptyBeforeCreation, RunCleanup, CleanupUpTo
<1> QED BY <1>5, <1>7, <1>8 DEF CallsHaveRequests, RunCleanup, CleanupUpTo

\* An aborted cleanup keeps Structure.
LEMMA StructureCleanupAborted ==
  ASSUME Structure, NEW w \in Cleaners, CleanupAborted(w)
  PROVE  Structure'
BY DEF Structure, CleanupAborted, TypeOK, EmptyBeforeCreation,
       CallsHaveRequests, RetainedInterval

\* Structure is inductive.
LEMMA StructureStep == Structure /\ [Next]_vars => Structure'
<1> SUFFICES ASSUME Structure, [Next]_vars PROVE Structure'
  OBVIOUS
<1>1. CASE UNCHANGED vars
  BY <1>1 DEF vars, Structure, TypeOK, EmptyBeforeCreation, CallsHaveRequests,
              RetainedInterval
<1>2. ASSUME NEW z \in Creations, CreateZone(z) PROVE Structure'
  BY <1>2, StructureCreateZone
<1>3. ASSUME NEW c \in Clients, ClientStep(c) PROVE Structure'
  BY <1>3, StructureSubmit, StructureRetry, StructureCallDropped,
     StructurePublishNoZone, StructurePublishReplayed, StructurePublishRefused,
     StructurePublishSerialReused, StructurePublishCommits
     DEF ClientStep, Publish
<1>4. ASSUME NEW k \in Retentions, SetRetention(k) PROVE Structure'
  BY <1>4, StructureSetRetention
<1>5. ASSUME NEW w \in Cleaners, CleanerStep(w) PROVE Structure'
  BY <1>1, <1>5, StructureClaimTask, StructureRunCleanup,
     StructureCleanupAborted DEF CleanerStep, ClaimNothing
<1> QED BY <1>1, <1>2, <1>3, <1>4, <1>5 DEF Next

(***************************************************************************)
(* Structure is an invariant: the tables are well typed, the retained      *)
(* versions are an unbroken interval that ends at the current one.         *)
(***************************************************************************)
THEOREM StructureInvariant == Spec => []Structure
BY StructureInit, StructureStep, PTL DEF Spec
(***************************************************************************)
(* The type invariant of ZoneStore.                                        *)
(***************************************************************************)
THEOREM TypeInvariant == Spec => []TypeOK
BY StructureInvariant, PTL DEF Structure

(***************************************************************************)
(* Every retained version has its snapshot and its delta, and there is no  *)
(* gap between retained versions, whatever publishes and cleanups did.     *)
(***************************************************************************)
THEOREM IntervalInvariant == Spec => []RetainedInterval
BY StructureInvariant, PTL DEF Structure
-----------------------------------------------------------------------------
(* The four ways a step can treat the version tables. *)

\* A step leaves the version tables alone, creates the zone, commits a
\* publish or runs a cleanup.
LEMMA StepCases ==
  ASSUME [Next]_vars
  PROVE  \/ \E z \in Creations : CreateZone(z)
         \/ \E c \in Clients, n \in 1 .. MaxAttempts : PublishCommits(c, n)
         \/ \E w \in Cleaners : RunCleanup(w)
         \/ /\ UNCHANGED <<versions, records, changes>>
            /\ zone'.created = zone.created
            /\ zone'.serial = zone.serial
            /\ zone'.version = zone.version
<1> USE DEF Next
<1>1. CASE UNCHANGED vars
  BY <1>1 DEF vars
<1>2. ASSUME NEW c \in Clients, ClientStep(c),
             ~ \E n \in 1 .. MaxAttempts : PublishCommits(c, n)
      PROVE  UNCHANGED <<zone, versions, records, changes>>
  BY <1>2 DEF ClientStep, Submit, Retry, CallDropped, Publish, PublishNoZone,
              PublishReplayed, PublishRefused, PublishSerialReused
<1>3. ASSUME NEW w \in Cleaners, CleanerStep(w), ~ RunCleanup(w)
      PROVE  UNCHANGED <<zone, versions, records, changes>>
  BY <1>3 DEF CleanerStep, ClaimTask, ClaimNothing, CleanupAborted, vars
<1>4. ASSUME NEW k \in Retentions, SetRetention(k)
      PROVE  /\ UNCHANGED <<versions, records, changes>>
             /\ zone'.created = zone.created
             /\ zone'.serial = zone.serial
             /\ zone'.version = zone.version
  <2>1. UNCHANGED <<versions, records, changes>>
    BY <1>4 DEF SetRetention
  <2>2. zone' = [zone EXCEPT !.retain = k]
    BY <1>4 DEF SetRetention
  <2> QED BY <2>1, <2>2
<1> QED BY <1>1, <1>2, <1>3, <1>4

\* What passing every check of publish means.
LEMMA AcceptedRequest ==
  ASSUME NEW r \in Requests, NEW old \in RRsets, zone.serial \in Serials,
         Refusal(r, zone, old) = "NONE"
  PROVE  /\ IsForward(zone.serial, r.next)
         /\ r.base = zone.serial
         /\ Applied(old, r.ops)[SOAKey] = {r.next}
         /\ Applied(old, r.ops)[NSKey] # {}
         /\ ~CnameClash(Applied(old, r.ops))
<1>1. /\ IsForward(r.base, r.next)
      /\ Compare(zone.serial, r.base) = "EQUAL"
      /\ ZoneError(Applied(old, r.ops), r.next) = "NONE"
  BY RequestFields DEF Refusal, NotForwardError
<1>2. r.base = zone.serial
  BY <1>1, RequestFields, ModuloOfSerial DEF Compare
<1> QED BY <1>1, <1>2 DEF ZoneError

\* Copying the snapshot and redoing the changed RRsets applies all operations.
LEMMA SnapshotIsApplied ==
  ASSUME NEW r \in Requests, NEW old \in RRsets, NEW changed \in Noted(old, r.ops)
  PROVE  Snapshot(old, Applied(old, r.ops), changed) = Applied(old, r.ops)
BY RequestFields DEF Snapshot, Applied, Noted, RRsets

\* What a commit does to the version tables.
LEMMA CommitEffect ==
  ASSUME Structure, NEW c \in Clients, NEW n \in 1 .. MaxAttempts,
         PublishCommits(c, n)
  PROVE  /\ req[c].next \in Serials
         /\ IsForward(zone.serial, req[c].next)
         /\ zone' = [zone EXCEPT !.serial = req[c].next,
                                 !.version = zone.version + 1]
         /\ zone'.created /\ zone'.serial = req[c].next
         /\ zone'.version = zone.version + 1
         /\ versions' = Insert(versions, zone.version + 1,
                               [serial |-> req[c].next, request |-> req[c].id])
         /\ records' = Insert(records, zone.version + 1,
                              Applied(records[zone.version], req[c].ops))
         /\ \E changed \in Noted(records[zone.version], req[c].ops) :
              changes' = Insert(changes, zone.version + 1,
                                Delta(records[zone.version],
                                      Applied(records[zone.version], req[c].ops),
                                      changed))
         /\ \A v \in DOMAIN versions : versions[v].serial # req[c].next
         /\ Applied(records[zone.version], req[c].ops)[SOAKey] = {req[c].next}
         /\ Applied(records[zone.version], req[c].ops)[NSKey] # {}
         /\ ~CnameClash(Applied(records[zone.version], req[c].ops))
<1>1. /\ req[c] \in Requests
      /\ records[zone.version] \in RRsets
      /\ zone.created
  BY CommitFacts
<1>2. zone \in [created : BOOLEAN, serial : Serials, version : Nat,
                retain : Nat \ {0}]
  BY DEF Structure, TypeOK
<1>3. Refusal(req[c], zone, records[zone.version]) = "NONE"
  BY DEF PublishCommits, Acceptable
<1>4. zone' = [zone EXCEPT !.serial = req[c].next, !.version = zone.version + 1]
  BY DEF PublishCommits
<1>5. zone'.created /\ zone'.serial = req[c].next /\ zone'.version = zone.version + 1
  BY <1>1, <1>2, <1>4
<1>6. \A v \in DOMAIN versions : versions[v].serial # req[c].next
  BY DEF PublishCommits, SerialInUse
<1>7. /\ versions' = Insert(versions, zone.version + 1,
                            [serial |-> req[c].next, request |-> req[c].id])
      /\ records' = Insert(records, zone.version + 1,
                           Applied(records[zone.version], req[c].ops))
      /\ \E changed \in Noted(records[zone.version], req[c].ops) :
           changes' = Insert(changes, zone.version + 1,
                             Delta(records[zone.version],
                                   Applied(records[zone.version], req[c].ops),
                                   changed))
  BY <1>1, SnapshotIsApplied DEF PublishCommits
<1> QED
  BY <1>1, <1>2, <1>3, <1>4, <1>5, <1>6, <1>7, AcceptedRequest, RequestFields

\* What a cleanup does to the version tables.
LEMMA CleanupEffect ==
  ASSUME Structure, NEW w \in Cleaners, RunCleanup(w)
  PROVE  /\ \E d \in Int :
              /\ d <= zone.version - zone.retain + 1
              /\ DOMAIN versions' = {v \in DOMAIN versions : v >= d}
              /\ DOMAIN records' = {v \in DOMAIN records : v >= d}
              /\ DOMAIN changes' = {v \in DOMAIN changes : v >= d}
         /\ \A v \in DOMAIN versions' : versions'[v] = versions[v]
         /\ \A v \in DOMAIN records' : records'[v] = records[v]
         /\ \A v \in DOMAIN changes' : changes'[v] = changes[v]
         /\ zone' = zone
<1>1. PICK m \in Nat :
        /\ versions' = Restrict(versions, {v \in DOMAIN versions : v >= DeleteBefore(m)})
        /\ records' = Restrict(records, {v \in DOMAIN records : v >= DeleteBefore(m)})
        /\ changes' = Restrict(changes, {v \in DOMAIN changes : v >= DeleteBefore(m)})
  BY HorizonsAreVersions DEF RunCleanup, CleanupUpTo
<1>2. DeleteBefore(m) \in Int /\ DeleteBefore(m) <= zone.version - zone.retain + 1
  BY DeleteBeforeBound, StoreAssumption DEF Structure, TypeOK
<1>3. zone' = zone
  BY DEF RunCleanup, CleanupUpTo
<1> QED BY <1>1, <1>2, <1>3 DEF Restrict
-----------------------------------------------------------------------------
\* A commit links a new serial to the chain's end, a cleanup drops links at
\* its start.
LEMMA SerialChainStep ==
  ASSUME Structure, SerialChain, [Next]_vars
  PROVE  SerialChain'
<1>1. ASSUME NEW z \in Creations, CreateZone(z) PROVE SerialChain'
  <2>1. DOMAIN versions = {}
    BY <1>1 DEF CreateZone, Structure, EmptyBeforeCreation
  <2> QED BY <1>1, <2>1 DEF CreateZone, SerialChain, Insert
<1>2. ASSUME NEW c \in Clients, NEW n \in 1 .. MaxAttempts, PublishCommits(c, n)
      PROVE  SerialChain'
  <2> DEFINE new == zone.version + 1
  <2>1. /\ versions' = Insert(versions, new,
                              [serial |-> req[c].next, request |-> req[c].id])
        /\ zone'.version = new
        /\ zone'.serial = req[c].next
        /\ IsForward(zone.serial, req[c].next)
        /\ \A v \in DOMAIN versions : versions[v].serial # req[c].next
    BY <1>2, CommitEffect
  <2>2. /\ zone.created
        /\ zone.version \in Nat
        /\ new \notin DOMAIN versions
        /\ DOMAIN versions \subseteq Nat
        /\ \A v \in DOMAIN versions : v <= zone.version
    BY <1>2, CommitFacts DEF Structure, TypeOK, RetainedInterval
  <2>3. /\ DOMAIN versions' = DOMAIN versions \union {new}
        /\ versions'[new].serial = req[c].next
        /\ \A v \in DOMAIN versions : versions'[v] = versions[v]
    BY <2>1, <2>2 DEF Insert
  <2>4. ASSUME NEW v \in DOMAIN versions', v + 1 \in DOMAIN versions'
        PROVE  IsForward(versions'[v].serial, versions'[v + 1].serial)
    <3>1. CASE v + 1 = new
      <4>1. v = zone.version /\ v \in DOMAIN versions
        BY <2>2, <2>3, <2>4, <3>1
      <4> QED BY <2>1, <2>2, <2>3, <3>1, <4>1 DEF SerialChain
    <3>2. CASE v + 1 # new
      <4>1. v \in DOMAIN versions /\ v + 1 \in DOMAIN versions
        BY <2>2, <2>3, <2>4, <3>2
      <4> QED BY <2>2, <2>3, <4>1 DEF SerialChain
    <3> QED BY <3>1, <3>2
  <2>5. \A v, u \in DOMAIN versions' :
          versions'[v].serial = versions'[u].serial => v = u
    BY <2>1, <2>2, <2>3 DEF SerialChain
  <2> QED BY <2>1, <2>3, <2>4, <2>5 DEF SerialChain
<1>3. ASSUME NEW w \in Cleaners, RunCleanup(w) PROVE SerialChain'
  <2>1. PICK d \in Int :
          /\ d <= zone.version - zone.retain + 1
          /\ DOMAIN versions' = {v \in DOMAIN versions : v >= d}
    BY <1>3, CleanupEffect
  <2>2. /\ \A v \in DOMAIN versions' : versions'[v] = versions[v]
        /\ zone' = zone
    BY <1>3, CleanupEffect
  <2>3. zone.created => zone.version \in DOMAIN versions'
    BY <2>1 DEF Structure, RetainedInterval, TypeOK
  <2> QED BY <2>1, <2>2, <2>3 DEF SerialChain
<1>4. CASE UNCHANGED versions /\ zone'.created = zone.created
           /\ zone'.serial = zone.serial /\ zone'.version = zone.version
  BY <1>4 DEF SerialChain
<1> QED BY <1>1, <1>2, <1>3, <1>4, StepCases

(***************************************************************************)
(* Serials of consecutive retained versions move forward and no two        *)
(* retained versions share a serial, although the space wraps around: the  *)
(* order check keeps the first, UNIQUE (zone, serial) the second.          *)
(***************************************************************************)
THEOREM SerialChainInvariant == Spec => []SerialChain
<1>1. Init => SerialChain
  BY DEF Init, SerialChain
<1>2. Structure /\ SerialChain /\ [Next]_vars => SerialChain'
  BY SerialChainStep
<1> QED BY <1>1, <1>2, StructureInvariant, PTL DEF Spec
-----------------------------------------------------------------------------
\* Every step keeps the deltas exact.
LEMMA DeltasStep ==
  ASSUME Structure, DeltasRebuildSnapshots, [Next]_vars
  PROVE  DeltasRebuildSnapshots'
<1>1. ASSUME NEW z \in Creations, CreateZone(z)
      PROVE  DeltasRebuildSnapshots'
  BY <1>1 DEF CreateZone, Structure, EmptyBeforeCreation,
              DeltasRebuildSnapshots
<1>2. ASSUME NEW c \in Clients, NEW n \in 1 .. MaxAttempts, PublishCommits(c, n)
      PROVE  DeltasRebuildSnapshots'
  <2> DEFINE new == zone.version + 1
             old == records[zone.version]
             after == Applied(old, req[c].ops)
  <2>0. PICK changed \in Noted(old, req[c].ops) :
          changes' = Insert(changes, new, Delta(old, after, changed))
    BY <1>2, CommitEffect
  <2>1. /\ records' = Insert(records, new, after)
        /\ changes' = Insert(changes, new, Delta(old, after, changed))
    BY <1>2, <2>0, CommitEffect
  <2>2. /\ zone.version \in Nat
        /\ zone.version \in DOMAIN records
        /\ new \notin DOMAIN records
        /\ new \notin DOMAIN changes
        /\ DOMAIN records \subseteq Nat
        /\ DOMAIN changes \subseteq DOMAIN records
        /\ \A v \in DOMAIN records : v <= zone.version
        /\ old \in RRsets
        /\ req[c] \in Requests
    BY <1>2, CommitFacts DEF Structure, TypeOK, RetainedInterval
  <2>3. /\ DOMAIN records' = DOMAIN records \union {new}
        /\ DOMAIN changes' = DOMAIN changes \union {new}
        /\ records'[new] = after
        /\ changes'[new] = Delta(old, after, changed)
        /\ \A v \in DOMAIN records : records'[v] = records[v]
        /\ \A v \in DOMAIN changes : changes'[v] = changes[v]
    BY <2>1, <2>2 DEF Insert
  <2>4. ASSUME NEW v \in DOMAIN changes', v - 1 \in DOMAIN records',
               NEW k \in RRKeys
        PROVE  LET del == changes'[v].del[k]
                   add == changes'[v].add[k]
                   before == records'[v - 1][k]
               IN  /\ del \subseteq before
                   /\ add \intersect (before \ del) = {}
                   /\ records'[v][k] = (before \ del) \union add
    <3>1. CASE v = new
      <4>1. records'[v - 1] = old
        BY <2>2, <2>3, <3>1
      <4>2. /\ changes'[v].del[k] = IF k \in changed THEN old[k] ELSE {}
            /\ changes'[v].add[k] = IF k \in changed THEN after[k] ELSE {}
            /\ records'[v][k] = after[k]
        <5>1. changes'[v] = Delta(old, after, changed) /\ records'[v] = after
          BY <2>3, <3>1
        <5> HIDE DEF old, after
        <5> QED BY <5>1, DeltaFields
      <4>3. k \notin changed => after[k] = old[k]
        BY <2>0 DEF Applied, Noted
      <4> HIDE DEF old, after
      <4> QED BY <4>1, <4>2, <4>3
    <3>2. CASE v # new
      <4>1. v \in DOMAIN changes /\ v \in DOMAIN records /\ v - 1 # new
        BY <2>2, <2>3, <3>2
      <4>2. v - 1 \in DOMAIN records
        BY <2>3, <2>4, <4>1
      <4> QED BY <2>3, <4>1, <4>2 DEF DeltasRebuildSnapshots
    <3> QED BY <3>1, <3>2
  <2> QED BY <2>4 DEF DeltasRebuildSnapshots
<1>3. ASSUME NEW w \in Cleaners, RunCleanup(w) PROVE DeltasRebuildSnapshots'
  <2>1. PICK d \in Int :
          /\ DOMAIN records' = {v \in DOMAIN records : v >= d}
          /\ DOMAIN changes' = {v \in DOMAIN changes : v >= d}
    BY <1>3, CleanupEffect
  <2>2. /\ \A v \in DOMAIN records' : records'[v] = records[v]
        /\ \A v \in DOMAIN changes' : changes'[v] = changes[v]
    BY <1>3, CleanupEffect
  <2>3. DOMAIN changes \subseteq DOMAIN records
    BY DEF Structure, EmptyBeforeCreation, RetainedInterval
  <2> QED BY <2>1, <2>2, <2>3 DEF DeltasRebuildSnapshots
<1>4. CASE UNCHANGED <<records, changes>>
  BY <1>4 DEF DeltasRebuildSnapshots
<1> QED BY <1>1, <1>2, <1>3, <1>4, StepCases

(***************************************************************************)
(* Each retained delta turns the snapshot before it into its own, with no  *)
(* row deleted that was not there and none added that stayed.              *)
(***************************************************************************)
THEOREM DeltasInvariant == Spec => []DeltasRebuildSnapshots
<1>1. Init => DeltasRebuildSnapshots
  BY DEF Init, Empty, DeltasRebuildSnapshots
<1>2. Structure /\ DeltasRebuildSnapshots /\ [Next]_vars
        => DeltasRebuildSnapshots'
  BY DeltasStep
<1> QED BY <1>1, <1>2, StructureInvariant, PTL DEF Spec
-----------------------------------------------------------------------------
\* Every step keeps each retained snapshot servable.
LEMMA SnapshotsStep ==
  ASSUME Structure, SnapshotsAreZones, [Next]_vars
  PROVE  SnapshotsAreZones'
<1>1. ASSUME NEW z \in Creations, CreateZone(z) PROVE SnapshotsAreZones'
  <2> DEFINE first == [k \in RRKeys |-> IF k = SOAKey THEN {z.serial}
                                        ELSE IF k = NSKey THEN z.ns ELSE {}]
  <2>1. DOMAIN records = {} /\ DOMAIN versions = {}
    BY <1>1 DEF CreateZone, Structure, EmptyBeforeCreation, TypeOK
  <2>2. /\ DOMAIN records' = {0}
        /\ records'[0] = first
        /\ versions'[0].serial = z.serial
    BY <1>1, <2>1 DEF CreateZone, Insert
  <2>3. z.ns # {}
    BY StoreAssumption
  <2>4. SOAKey # NSKey /\ SOAKey \in RRKeys /\ NSKey \in RRKeys
    BY KeysInRRKeys DEF SOAKey, NSKey
  <2>5. first[SOAKey] = {z.serial} /\ first[NSKey] # {}
    BY <2>3, <2>4
  <2>6. \A n \in Names : first[<<n, "CNAME">>] = {}
    BY StoreAssumption DEF RRKeys, SOAKey, NSKey
  <2>7. ~CnameClash(first)
    BY <2>6 DEF CnameClash
  <2> HIDE DEF first
  <2> QED BY <2>2, <2>5, <2>7 DEF SnapshotsAreZones
<1>2. ASSUME NEW c \in Clients, NEW n \in 1 .. MaxAttempts, PublishCommits(c, n)
      PROVE  SnapshotsAreZones'
  <2> DEFINE new == zone.version + 1
             after == Applied(records[zone.version], req[c].ops)
  <2>1. /\ records' = Insert(records, new, after)
        /\ versions' = Insert(versions, new,
                              [serial |-> req[c].next, request |-> req[c].id])
        /\ after[SOAKey] = {req[c].next}
        /\ after[NSKey] # {}
        /\ ~CnameClash(after)
    BY <1>2, CommitEffect
  <2>2. DOMAIN records = DOMAIN versions /\ new \notin DOMAIN versions
    BY <1>2, CommitFacts
  <2>3. /\ DOMAIN records' = DOMAIN records \union {new}
        /\ records'[new] = after
        /\ versions'[new].serial = req[c].next
        /\ \A v \in DOMAIN records :
             records'[v] = records[v] /\ versions'[v] = versions[v]
    BY <2>1, <2>2 DEF Insert
  <2> HIDE DEF after, new
  <2> QED BY <2>1, <2>3 DEF SnapshotsAreZones
<1>3. ASSUME NEW w \in Cleaners, RunCleanup(w) PROVE SnapshotsAreZones'
  <2>1. PICK d \in Int :
          /\ DOMAIN records' = {v \in DOMAIN records : v >= d}
          /\ DOMAIN versions' = {v \in DOMAIN versions : v >= d}
    BY <1>3, CleanupEffect
  <2>2. /\ \A v \in DOMAIN records' : records'[v] = records[v]
        /\ \A v \in DOMAIN versions' : versions'[v] = versions[v]
    BY <1>3, CleanupEffect
  <2>3. DOMAIN records = DOMAIN versions
    BY DEF Structure, TypeOK
  <2> QED BY <2>1, <2>2, <2>3 DEF SnapshotsAreZones
<1>4. CASE UNCHANGED <<versions, records>>
  BY <1>4 DEF SnapshotsAreZones
<1> QED BY <1>1, <1>2, <1>3, <1>4, StepCases

(***************************************************************************)
(* Every retained snapshot holds one SOA, with its own version's serial,   *)
(* an NS, and no CNAME beside other data.                                  *)
(***************************************************************************)
THEOREM SnapshotsInvariant == Spec => []SnapshotsAreZones
<1>1. Init => SnapshotsAreZones
  BY DEF Init, Empty, SnapshotsAreZones
<1>2. Structure /\ SnapshotsAreZones /\ [Next]_vars => SnapshotsAreZones'
  BY SnapshotsStep
<1> QED BY <1>1, <1>2, StructureInvariant, PTL DEF Spec
-----------------------------------------------------------------------------
(***************************************************************************)
(* No step alters a retained version or gives its number away again.       *)
(***************************************************************************)
THEOREM VersionsNeverChange == Spec => VersionsImmutable
<1> DEFINE A == /\ \A v \in DOMAIN versions \intersect DOMAIN versions' :
                     /\ versions'[v] = versions[v]
                     /\ records'[v] = records[v]
                     /\ v # 0 => changes'[v] = changes[v]
                /\ \A v \in DOMAIN versions' \ DOMAIN versions :
                     zone.created => v > zone.version
<1>1. ASSUME Structure, Structure', [Next]_vars PROVE A
  <2>0. /\ DOMAIN records = DOMAIN versions
        /\ DOMAIN records' = DOMAIN versions'
        /\ DOMAIN versions \ {0} = DOMAIN changes \ {0}
        /\ DOMAIN versions' \ {0} = DOMAIN changes' \ {0}
        /\ zone.version \in Nat
    BY <1>1 DEF Structure, TypeOK, EmptyBeforeCreation, RetainedInterval
  <2>1. ASSUME NEW z \in Creations, CreateZone(z) PROVE A
    BY <1>1, <2>1 DEF CreateZone, Structure, EmptyBeforeCreation
  <2>2. ASSUME NEW c \in Clients, NEW n \in 1 .. MaxAttempts,
               PublishCommits(c, n)
        PROVE  A
    <3> DEFINE new == zone.version + 1
               row == [serial |-> req[c].next, request |-> req[c].id]
               after == Applied(records[zone.version], req[c].ops)
    <3>0. PICK delta : changes' = Insert(changes, new, delta)
      BY <1>1, <2>2, CommitEffect
    <3>1. /\ versions' = Insert(versions, new, row)
          /\ records' = Insert(records, new, after)
          /\ changes' = Insert(changes, new, delta)
      BY <1>1, <2>2, <3>0, CommitEffect
    <3>2. new \notin DOMAIN versions /\ new > zone.version /\ new # 0
      BY <1>1, <2>2, <2>0, CommitFacts
    <3> HIDE DEF new, row, after
    <3> QED BY <2>0, <3>1, <3>2 DEF Insert
  <2>3. ASSUME NEW w \in Cleaners, RunCleanup(w) PROVE A
    <3>1. PICK d \in Int : DOMAIN versions' = {v \in DOMAIN versions : v >= d}
      BY <1>1, <2>3, CleanupEffect
    <3>2. /\ \A v \in DOMAIN versions' : versions'[v] = versions[v]
          /\ \A v \in DOMAIN records' : records'[v] = records[v]
          /\ \A v \in DOMAIN changes' : changes'[v] = changes[v]
      BY <1>1, <2>3, CleanupEffect
    <3> QED BY <2>0, <3>1, <3>2
  <2>4. CASE UNCHANGED <<versions, records, changes>>
    BY <2>4
  <2> QED BY <1>1, <2>1, <2>2, <2>3, <2>4, StepCases
<1>2. Spec => [][A]_vars
  <2>1. Structure /\ Structure' /\ [Next]_vars => [A]_vars
    BY <1>1
  <2> QED BY <2>1, StructureInvariant, PTL DEF Spec
<1> QED BY <1>2 DEF VersionsImmutable

(***************************************************************************)
(* No step deletes one of the newest retain_versions versions, whatever    *)
(* the pins are.                                                           *)
(***************************************************************************)
THEOREM CleanupKeepsNewest == Spec => NewestVersionsKept
<1> DEFINE A == \A v \in DOMAIN versions :
                  v > zone.version - zone.retain => v \in DOMAIN versions'
<1>1. ASSUME Structure, [Next]_vars PROVE A
  <2>1. ASSUME NEW z \in Creations, CreateZone(z) PROVE A
    BY <1>1, <2>1 DEF CreateZone, Structure, EmptyBeforeCreation
  <2>2. ASSUME NEW c \in Clients, NEW n \in 1 .. MaxAttempts,
               PublishCommits(c, n)
        PROVE  A
    BY <2>2 DEF PublishCommits, Insert
  <2>3. ASSUME NEW w \in Cleaners, RunCleanup(w) PROVE A
    <3>1. PICK d \in Int :
            /\ d <= zone.version - zone.retain + 1
            /\ DOMAIN versions' = {v \in DOMAIN versions : v >= d}
      BY <1>1, <2>3, CleanupEffect
    <3>2. DOMAIN versions \subseteq Nat /\ zone.version \in Nat /\ zone.retain \in Nat
      BY <1>1 DEF Structure, TypeOK
    <3> QED BY <3>1, <3>2
  <2>4. CASE UNCHANGED <<versions, records, changes>>
    BY <2>4
  <2> QED BY <1>1, <2>1, <2>2, <2>3, <2>4, StepCases
<1>2. Spec => [][A]_vars
  <2>1. Structure /\ [Next]_vars => [A]_vars
    BY <1>1
  <2> QED BY <2>1, StructureInvariant, PTL DEF Spec
<1> QED BY <1>2 DEF NewestVersionsKept
-----------------------------------------------------------------------------
(***************************************************************************)
(* The idempotency ledger. Its rows are only added and only in the         *)
(* transaction that decides their request; from that the answers clients   *)
(* hear are shown to be on record, and ZoneStore to implement              *)
(* PublicationLog.                                                         *)
(***************************************************************************)
\* How a step can treat the ledger.
LEMMA LedgerCases ==
  ASSUME [Next]_vars
  PROVE  \/ \E c \in Clients, n \in 1 .. MaxAttempts :
              PublishCommits(c, n) \/ PublishRefused(c, n)
         \/ ledger' = ledger
<1> USE DEF Next
<1>1. CASE UNCHANGED vars
  BY <1>1 DEF vars
<1>2. ASSUME NEW c \in Clients, ClientStep(c),
             ~ \E n \in 1 .. MaxAttempts : PublishCommits(c, n) \/ PublishRefused(c, n)
      PROVE  ledger' = ledger
  BY <1>2 DEF ClientStep, Submit, Retry, CallDropped, Publish, PublishNoZone,
              PublishReplayed, PublishSerialReused
<1>3. ASSUME NEW w \in Cleaners, CleanerStep(w) PROVE ledger' = ledger
  BY <1>3 DEF CleanerStep, ClaimTask, ClaimNothing, RunCleanup, CleanupUpTo, CleanupAborted,
              vars
<1> QED BY <1>1, <1>2, <1>3 DEF CreateZone, SetRetention

\* A refusal leaves the versions and adds at most one FAILED row.
LEMMA RefusalEffect ==
  ASSUME Structure, NEW c \in Clients, NEW n \in 1 .. MaxAttempts,
         PublishRefused(c, n)
  PROVE  /\ req[c] \in Requests
         /\ req[c].id \notin DOMAIN ledger
         /\ zone.created
         /\ UNCHANGED <<zone, versions, records, changes, tasks, holds, req>>
         /\ \E error \in LedgerableFailures \union {"VALIDATION_ERROR"} :
              /\ Answer(c, n, Failed(error))
              /\ ledger' = IF error \in LedgerableFailures
                             THEN Insert(ledger, req[c].id,
                                         [content |-> Content(req[c]),
                                          outcome |-> Failed(error)])
                             ELSE ledger
<1> DEFINE error == Refusal(req[c], zone, records[zone.version])
<1>1. req[c] \in Requests
  BY SentHasRequest DEF PublishRefused, Sent, Unsent
<1>2. error \in LedgerableFailures \union {"VALIDATION_ERROR"}
  BY <1>1, RefusalValues DEF PublishRefused
<1>3. /\ Answer(c, n, Failed(error))
      /\ ledger' = IF error \in LedgerableFailures
                     THEN Insert(ledger, req[c].id,
                                 [content |-> Content(req[c]),
                                  outcome |-> Failed(error)])
                     ELSE ledger
  BY DEF PublishRefused
<1> HIDE DEF error
<1> QED BY <1>1, <1>2, <1>3 DEF PublishRefused

\* Rows of the ledger are only ever added.
LEMMA LedgerGrows ==
  ASSUME Structure, [Next]_vars
  PROVE  \A id \in DOMAIN ledger :
           id \in DOMAIN ledger' /\ ledger'[id] = ledger[id]
<1>1. ASSUME NEW c \in Clients, NEW n \in 1 .. MaxAttempts, PublishCommits(c, n)
      PROVE  \A id \in DOMAIN ledger :
               id \in DOMAIN ledger' /\ ledger'[id] = ledger[id]
  BY <1>1 DEF PublishCommits, Acceptable, Insert
<1>2. ASSUME NEW c \in Clients, NEW n \in 1 .. MaxAttempts, PublishRefused(c, n)
      PROVE  \A id \in DOMAIN ledger :
               id \in DOMAIN ledger' /\ ledger'[id] = ledger[id]
  BY <1>2, RefusalEffect DEF Insert
<1> QED BY <1>1, <1>2, LedgerCases
-----------------------------------------------------------------------------
\* No refusal carries the code of a commit.
LEMMA FailedIsNotCommitted ==
  ASSUME NEW e \in LedgerableFailures
  PROVE  Failed(e).code # "COMMITTED"
BY DEF LedgerableFailures, Failed

\* A commit adds the next version with its ledger row, and no other step
\* moves either.
LEMMA LedgerStep ==
  ASSUME Structure, LedgerMatchesVersions, [Next]_vars
  PROVE  LedgerMatchesVersions'
<1>1. ASSUME NEW c \in Clients, NEW n \in 1 .. MaxAttempts, PublishCommits(c, n)
      PROVE  LedgerMatchesVersions'
  <2> DEFINE new == zone.version + 1
             id == req[c].id
             row == [content |-> Content(req[c]),
                     outcome |-> Committed(new, req[c].next)]
  <2>1. /\ ledger' = Insert(ledger, id, row)
        /\ id \notin DOMAIN ledger
    BY <1>1 DEF PublishCommits, Acceptable
  <2>2. /\ versions' = Insert(versions, new,
                              [serial |-> req[c].next, request |-> id])
        /\ zone'.version = new
    BY <1>1, CommitEffect
  <2>3. new \notin DOMAIN versions /\ zone.version \in Nat
    BY <1>1, CommitFacts DEF Structure, TypeOK
  <2>4. /\ row.outcome.code = "COMMITTED"
        /\ row.outcome.version = new
        /\ row.outcome = Committed(new, req[c].next)
    BY DEF Committed
  <2>5. /\ DOMAIN ledger' = DOMAIN ledger \union {id}
        /\ ledger'[id] = row
        /\ \A i \in DOMAIN ledger : ledger'[i] = ledger[i]
    <3> HIDE DEF row, id
    <3> QED BY <2>1 DEF Insert
  <2>6. CommittedIds' = CommittedIds \union {id}
    <3> HIDE DEF row, id
    <3> QED BY <2>4, <2>5 DEF CommittedIds
  <2>7. /\ DOMAIN versions' = DOMAIN versions \union {new}
        /\ versions'[new] = [serial |-> req[c].next, request |-> id]
        /\ \A v \in DOMAIN versions : versions'[v] = versions[v]
    BY <2>2, <2>3 DEF Insert
  <2>8. \A i \in CommittedIds : /\ i \in DOMAIN ledger
                                /\ ledger[i].outcome.version \in 1 .. zone.version
    BY DEF LedgerMatchesVersions, CommittedIds
  <2>9. {ledger'[i].outcome.version : i \in CommittedIds'} = 1 .. zone'.version
    <3>1. {ledger'[i].outcome.version : i \in CommittedIds'}
            = {ledger[i].outcome.version : i \in CommittedIds} \union {new}
      <4> HIDE DEF row, id, new
      <4> QED BY <2>4, <2>5, <2>6, <2>8
    <3>2. (1 .. zone.version) \union {new} = 1 .. new
      BY <2>3
    <3> QED BY <2>2, <3>1, <3>2 DEF LedgerMatchesVersions
  <2>10. \A i, j \in CommittedIds' :
           ledger'[i].outcome.version = ledger'[j].outcome.version => i = j
    <3>1. new \notin 1 .. zone.version
      BY <2>3
    <3> HIDE DEF row, id, new
    <3> QED BY <2>4, <2>5, <2>6, <2>8, <3>1 DEF LedgerMatchesVersions
  <2>11. ASSUME NEW v \in DOMAIN versions' \ {0}
         PROVE  /\ versions'[v].request \in CommittedIds'
                /\ ledger'[versions'[v].request].outcome
                     = Committed(v, versions'[v].serial)
    <3>1. CASE v = new
      <4>1. versions'[v].request = id /\ versions'[v].serial = req[c].next
        BY <2>7, <3>1
      <4> HIDE DEF row, id
      <4> QED BY <2>4, <2>5, <2>6, <3>1, <4>1
    <3>2. CASE v # new
      <4>1. v \in DOMAIN versions \ {0} /\ versions'[v] = versions[v]
        BY <2>7, <3>2
      <4>2. /\ versions[v].request \in CommittedIds
            /\ ledger[versions[v].request].outcome
                 = Committed(v, versions[v].serial)
        BY <4>1 DEF LedgerMatchesVersions
      <4> HIDE DEF row, id
      <4> QED BY <2>5, <2>6, <2>8, <4>1, <4>2
    <3> QED BY <3>1, <3>2
  <2> QED BY <2>9, <2>10, <2>11 DEF LedgerMatchesVersions
<1>2. ASSUME NEW c \in Clients, NEW n \in 1 .. MaxAttempts, PublishRefused(c, n)
      PROVE  LedgerMatchesVersions'
  <2>1. PICK error \in LedgerableFailures \union {"VALIDATION_ERROR"} :
          ledger' = IF error \in LedgerableFailures
                      THEN Insert(ledger, req[c].id,
                                  [content |-> Content(req[c]),
                                   outcome |-> Failed(error)])
                      ELSE ledger
    BY <1>2, RefusalEffect
  <2>2. UNCHANGED <<zone, versions>> /\ req[c].id \notin DOMAIN ledger
    BY <1>2, RefusalEffect
  <2>3. CommittedIds' = CommittedIds
    BY <2>1, <2>2, FailedIsNotCommitted DEF CommittedIds, Insert
  <2>4. \A i \in CommittedIds : ledger'[i] = ledger[i]
    BY LedgerGrows DEF CommittedIds
  <2> QED BY <2>2, <2>3, <2>4 DEF LedgerMatchesVersions
<1>3. CASE ledger' = ledger /\ \E z \in Creations : CreateZone(z)
  <2>1. PICK z \in Creations : CreateZone(z)
    BY <1>3
  <2>2. DOMAIN versions = {} /\ zone.version = 0
    BY <2>1 DEF CreateZone, Structure, EmptyBeforeCreation
  <2>3. DOMAIN versions' = {0} /\ zone'.version = 0
    BY <2>1, <2>2 DEF CreateZone, Insert
  <2>4. CommittedIds' = CommittedIds
    BY <1>3 DEF CommittedIds
  <2> QED BY <1>3, <2>2, <2>3, <2>4 DEF LedgerMatchesVersions
<1>4. CASE ledger' = ledger /\ \E w \in Cleaners : RunCleanup(w)
  <2>1. PICK w \in Cleaners : RunCleanup(w)
    BY <1>4
  <2>2. /\ DOMAIN versions' \subseteq DOMAIN versions
        /\ \A v \in DOMAIN versions' : versions'[v] = versions[v]
        /\ zone' = zone
    BY <2>1, CleanupEffect
  <2>3. CommittedIds' = CommittedIds
    BY <1>4 DEF CommittedIds
  <2> QED BY <1>4, <2>2, <2>3 DEF LedgerMatchesVersions
<1>5. CASE ledger' = ledger /\ UNCHANGED versions
           /\ zone'.version = zone.version
  <2>1. CommittedIds' = CommittedIds
    BY <1>5 DEF CommittedIds
  <2> QED BY <1>5, <2>1 DEF LedgerMatchesVersions
<1> QED BY <1>1, <1>2, <1>3, <1>4, <1>5, LedgerCases, StepCases

(***************************************************************************)
(* Every version ever created belongs to exactly one COMMITTED row of the  *)
(* ledger, however often requests are resent.                              *)
(***************************************************************************)
THEOREM LedgerInvariant == Spec => []LedgerMatchesVersions
<1>1. Init => LedgerMatchesVersions
  <2> SUFFICES ASSUME Init PROVE LedgerMatchesVersions
    OBVIOUS
  <2>1. CommittedIds = {} /\ DOMAIN versions = {} /\ zone.version = 0
    BY DEF Init, Empty, CommittedIds
  <2>2. 1 .. 0 = {}
    OBVIOUS
  <2> QED BY <2>1, <2>2 DEF LedgerMatchesVersions
<1>2. Structure /\ LedgerMatchesVersions /\ [Next]_vars
        => LedgerMatchesVersions'
  BY LedgerStep
<1> QED BY <1>1, <1>2, StructureInvariant, PTL DEF Spec
-----------------------------------------------------------------------------
\* Codes that are not answers on record.
LEMMA CallMarks ==
  /\ Unsent \notin Outcomes /\ Unsent # Conflict
  /\ Sent \notin Outcomes /\ Sent # Conflict /\ Sent # Unsent
  /\ Lost \notin Outcomes /\ Lost # Conflict /\ Lost # Unsent
  /\ Conflict \notin Outcomes
  /\ \A e \in {"ZONE_NOT_FOUND", "VALIDATION_ERROR", "INTERNAL"} :
       Failed(e) \notin Outcomes /\ Failed(e) # Conflict
  /\ \A e \in LedgerableFailures : Failed(e) # Conflict
BY DEF Unsent, Sent, Lost, Conflict, Failed, Outcomes, LedgerableFailures

\* The record is right for attempt n of client c.
OnRecord(c, n) ==
  /\ call[c][n] \in Outcomes =>
       /\ req[c].id \in DOMAIN ledger
       /\ ledger[req[c].id] = [content |-> Content(req[c]),
                               outcome |-> call[c][n]]
  /\ call[c][n] = Conflict =>
       /\ req[c].id \in DOMAIN ledger
       /\ ledger[req[c].id].content # Content(req[c])

\* An attempt whose state a step leaves alone stays on record.
LEMMA OnRecordKept ==
  ASSUME Structure, [Next]_vars, NEW c \in Clients, NEW n \in 1 .. MaxAttempts,
         OnRecord(c, n), call'[c][n] = call[c][n], req'[c] = req[c]
  PROVE  OnRecord(c, n)'
BY LedgerGrows DEF OnRecord

\* Answering one attempt with what is on record keeps all on record.
LEMMA AnswerKeepsRecord ==
  ASSUME Structure, AnswersOnRecord, [Next]_vars,
         NEW c \in Clients, NEW n \in 1 .. MaxAttempts, NEW a \in CallStates,
         Answer(c, n, a), req' = req,
         a \in Outcomes =>
           /\ req[c].id \in DOMAIN ledger'
           /\ ledger'[req[c].id] = [content |-> Content(req[c]), outcome |-> a],
         a = Conflict =>
           /\ req[c].id \in DOMAIN ledger'
           /\ ledger'[req[c].id].content # Content(req[c])
  PROVE  AnswersOnRecord'
<1>1. \A d \in Clients : \A m \in 1 .. MaxAttempts : OnRecord(d, m)
  BY DEF AnswersOnRecord, OnRecord
<1>2. \A d \in Clients : \A m \in 1 .. MaxAttempts :
        \/ call'[d][m] = call[d][m]
        \/ d = c /\ m = n /\ call'[d][m] \in {a, Lost}
  BY AnswerEffect DEF Structure, TypeOK
<1>3. ASSUME NEW d \in Clients, NEW m \in 1 .. MaxAttempts
      PROVE  OnRecord(d, m)'
  <2>1. CASE call'[d][m] = call[d][m]
    BY <1>1, <2>1, OnRecordKept
  <2>2. CASE d = c /\ m = n /\ call'[d][m] \in {a, Lost}
    BY <2>2, CallMarks DEF OnRecord
  <2> QED BY <1>2, <2>1, <2>2
<1> QED BY <1>3 DEF AnswersOnRecord, OnRecord

\* Every step keeps the answers on record.
LEMMA AnswersStep ==
  ASSUME Structure, AnswersOnRecord, [Next]_vars
  PROVE  AnswersOnRecord'
<1>1. \A d \in Clients : \A m \in 1 .. MaxAttempts : OnRecord(d, m)
  BY DEF AnswersOnRecord, OnRecord
<1>2. CASE call' = call /\ req' = req
  <2>1. \A d \in Clients : \A m \in 1 .. MaxAttempts : OnRecord(d, m)'
    BY <1>1, <1>2, OnRecordKept
  <2> QED BY <2>1 DEF AnswersOnRecord, OnRecord
<1>3. ASSUME NEW c \in Clients, NEW r \in Requests, Submit(c, r)
      PROVE  AnswersOnRecord'
  <2>1. 1 \in 1 .. MaxAttempts /\ Sent \in CallStates
    BY StoreAssumption DEF CallStates
  <2>2. \A d \in Clients : \A m \in 1 .. MaxAttempts :
          call'[d][m] = IF d = c /\ m = 1 THEN Sent ELSE call[d][m]
    <3>1. PICK n \in 1 .. MaxAttempts, a \in CallStates : n = 1 /\ a = Sent
      BY <2>1
    <3>2. call' = [call EXCEPT ![c][n] = a]
      BY <1>3, <3>1 DEF Submit
    <3>3. call \in [Clients -> [1 .. MaxAttempts -> CallStates]]
      BY DEF Structure, TypeOK
    <3>4. \A d \in Clients : \A m \in 1 .. MaxAttempts :
            call'[d][m] = IF d = c /\ m = n THEN a ELSE call[d][m]
      BY ONLY <3>2, <3>3, CallUpdate
    <3> QED BY <3>1, <3>4
  <2>3. \A m \in 1 .. MaxAttempts : call[c][m] = Unsent
    BY <1>3 DEF Structure, CallsHaveRequests, Submit
  <2>4. \A d \in Clients : d # c => req'[d] = req[d]
    BY <1>3 DEF Submit, Structure, TypeOK
  <2>5. ASSUME NEW d \in Clients, NEW m \in 1 .. MaxAttempts
        PROVE  OnRecord(d, m)'
    <3>1. CASE d = c
      <4>1. call'[d][m] \in {Sent, Unsent}
        BY <2>2, <2>3, <3>1
      <4> QED BY <4>1, CallMarks DEF OnRecord
    <3>2. CASE d # c
      BY <1>1, <2>2, <2>4, <3>2, OnRecordKept
    <3> QED BY <3>1, <3>2
  <2> QED BY <2>5 DEF AnswersOnRecord, OnRecord
<1>4. ASSUME NEW c \in Clients, NEW n \in 1 .. MaxAttempts, Retry(c, n)
      PROVE  AnswersOnRecord'
  <2>1. n + 1 \in 1 .. MaxAttempts /\ Sent \in CallStates
    BY <1>4, StoreAssumption DEF CallStates, Retry
  <2>2. Answer(c, n + 1, Sent) /\ req' = req
    BY <1>4 DEF Retry, Answer
  <2> QED BY <2>1, <2>2, CallMarks, AnswerKeepsRecord
<1>5. ASSUME NEW c \in Clients, NEW n \in 1 .. MaxAttempts, CallDropped(c, n)
      PROVE  AnswersOnRecord'
  <2>1. Answer(c, n, Lost) /\ req' = req /\ Lost \in CallStates
    BY <1>5 DEF CallDropped, Answer, CallStates
  <2> QED BY <2>1, CallMarks, AnswerKeepsRecord
<1>6. ASSUME NEW c \in Clients, NEW n \in 1 .. MaxAttempts, PublishNoZone(c, n)
      PROVE  AnswersOnRecord'
  <2>1. /\ Answer(c, n, Failed("ZONE_NOT_FOUND"))
        /\ req' = req
        /\ Failed("ZONE_NOT_FOUND") \in CallStates
    BY <1>6 DEF PublishNoZone, CallStates
  <2> QED BY <2>1, CallMarks, AnswerKeepsRecord
<1>7. ASSUME NEW c \in Clients, NEW n \in 1 .. MaxAttempts,
             PublishReplayed(c, n)
      PROVE  AnswersOnRecord'
  <2> DEFINE row == ledger[req[c].id]
             a == IF row.content = Content(req[c]) THEN row.outcome ELSE Conflict
  <2>1. /\ Answer(c, n, a)
        /\ req' = req
        /\ ledger' = ledger
        /\ req[c].id \in DOMAIN ledger
    BY <1>7 DEF PublishReplayed
  <2>2. row \in LedgerRows
    BY <2>1 DEF Structure, TypeOK
  <2>3. /\ row = [content |-> row.content, outcome |-> row.outcome]
        /\ row.outcome \in Outcomes
    BY <2>2 DEF LedgerRows
  <2>4. a \in CallStates
    BY <2>3 DEF CallStates
  <2>5. /\ a \in Outcomes => row = [content |-> Content(req[c]), outcome |-> a]
        /\ a = Conflict => row.content # Content(req[c])
    BY <2>3, CallMarks
  <2> HIDE DEF a
  <2> QED BY <2>1, <2>4, <2>5, AnswerKeepsRecord
<1>8. ASSUME NEW c \in Clients, NEW n \in 1 .. MaxAttempts,
             PublishRefused(c, n)
      PROVE  AnswersOnRecord'
  <2>1. req' = req /\ req[c].id \notin DOMAIN ledger
    BY <1>8, RefusalEffect
  <2>2. PICK error \in LedgerableFailures \union {"VALIDATION_ERROR"} :
          /\ Answer(c, n, Failed(error))
          /\ ledger' = IF error \in LedgerableFailures
                         THEN Insert(ledger, req[c].id,
                                     [content |-> Content(req[c]),
                                      outcome |-> Failed(error)])
                         ELSE ledger
    BY <1>8, RefusalEffect
  <2>3. Failed(error) \in CallStates
    BY DEF CallStates, Failed, Outcomes
  <2>4. Failed(error) # Conflict
    BY CallMarks
  <2>5. Failed(error) \in Outcomes =>
          /\ req[c].id \in DOMAIN ledger'
          /\ ledger'[req[c].id] = [content |-> Content(req[c]),
                                   outcome |-> Failed(error)]
    BY <2>2, CallMarks DEF Insert
  <2> QED BY <2>1, <2>2, <2>3, <2>4, <2>5, AnswerKeepsRecord
<1>9. ASSUME NEW c \in Clients, NEW n \in 1 .. MaxAttempts,
             PublishSerialReused(c, n)
      PROVE  AnswersOnRecord'
  <2>1. /\ Answer(c, n, Failed("INTERNAL"))
        /\ req' = req
        /\ Failed("INTERNAL") \in CallStates
    BY <1>9 DEF PublishSerialReused, CallStates
  <2> QED BY <2>1, CallMarks, AnswerKeepsRecord
<1>10. ASSUME NEW c \in Clients, NEW n \in 1 .. MaxAttempts,
              PublishCommits(c, n)
       PROVE  AnswersOnRecord'
  <2> DEFINE a == Committed(zone.version + 1, req[c].next)
  <2>1. /\ Answer(c, n, a)
        /\ req' = req
        /\ ledger' = Insert(ledger, req[c].id, [content |-> Content(req[c]),
                                                outcome |-> a])
    BY <1>10 DEF PublishCommits
  <2>2. a \in Outcomes
    <3>1. req[c].next \in Serials
      BY <1>10, CommitEffect
    <3>2. zone.version + 1 \in Nat
      BY DEF Structure, TypeOK
    <3> QED BY <3>1, <3>2 DEF Outcomes, Committed
  <2>3. a \in CallStates /\ a # Conflict
    BY <2>2, CallMarks DEF CallStates
  <2> HIDE DEF a
  <2>4. /\ req[c].id \in DOMAIN ledger'
        /\ ledger'[req[c].id] = [content |-> Content(req[c]), outcome |-> a]
    BY <2>1 DEF Insert
  <2> QED BY <2>1, <2>3, <2>4, AnswerKeepsRecord
<1>11. (\E c \in Clients : ClientStep(c)) \/ (call' = call /\ req' = req)
  BY DEF Next, CreateZone, SetRetention, CleanerStep, ClaimTask, ClaimNothing,
         RunCleanup, CleanupUpTo, CleanupAborted, vars
<1> QED
  BY <1>2, <1>3, <1>4, <1>5, <1>6, <1>7, <1>8, <1>9, <1>10, <1>11
     DEF ClientStep, Publish

(***************************************************************************)
(* Every final answer a client has heard is the ledger's outcome for its   *)
(* own content, or a conflict with other content.                          *)
(***************************************************************************)
THEOREM AnswersInvariant == Spec => []AnswersOnRecord
<1>1. Init => AnswersOnRecord
  BY CallMarks DEF Init, AnswersOnRecord
<1>2. Structure /\ AnswersOnRecord /\ [Next]_vars => AnswersOnRecord'
  BY AnswersStep
<1> QED BY <1>1, <1>2, StructureInvariant, PTL DEF Spec

(***************************************************************************)
(* The final answers heard for the same request are all equal.             *)
(***************************************************************************)
THEOREM OneOutcomeInvariant == Spec => []OneOutcome
<1>1. Structure /\ AnswersOnRecord => OneOutcome
  <2> SUFFICES ASSUME AnswersOnRecord,
                      NEW c \in Clients, NEW n \in 1 .. MaxAttempts,
                      NEW d \in Clients, NEW m \in 1 .. MaxAttempts,
                      req[c] = req[d], call[c][n] \in Final,
                      call[d][m] \in Final
               PROVE  call[c][n] = call[d][m]
    BY DEF OneOutcome
  <2> DEFINE row == ledger[req[c].id]
  <2>1. /\ call[c][n] # Conflict =>
             row = [content |-> Content(req[c]), outcome |-> call[c][n]]
        /\ call[c][n] = Conflict => row.content # Content(req[c])
    BY DEF AnswersOnRecord, Final
  <2>2. /\ call[d][m] # Conflict =>
             row = [content |-> Content(req[c]), outcome |-> call[d][m]]
        /\ call[d][m] = Conflict => row.content # Content(req[c])
    BY DEF AnswersOnRecord, Final
  <2> HIDE DEF row
  <2> QED BY <2>1, <2>2
<1> QED BY <1>1, AnswersInvariant, StructureInvariant, PTL
-----------------------------------------------------------------------------
(* ZoneStore implements PublicationLog. *)

\* CommitLog is a sequence that lists the COMMITTED ids by version.
LogFacts ==
  /\ CommitLog \in Seq(RequestIds)
  /\ Len(CommitLog) = zone.version
  /\ DOMAIN CommitLog = 1 .. zone.version
  /\ \A v \in 1 .. zone.version :
       /\ CommitLog[v] \in CommittedIds
       /\ ledger[CommitLog[v]].outcome.version = v

\* The log read off the ledger is well defined.
LEMMA CommitLogFacts == Structure /\ LedgerMatchesVersions => LogFacts
<1> SUFFICES ASSUME Structure, LedgerMatchesVersions PROVE LogFacts
  OBVIOUS
<1>1. zone.version \in Nat /\ CommittedIds \subseteq RequestIds
  BY DEF Structure, TypeOK, CommittedIds
<1>2. ASSUME NEW v \in 1 .. zone.version
      PROVE  /\ CommitLog[v] \in CommittedIds
             /\ ledger[CommitLog[v]].outcome.version = v
  <2>1. \E id \in CommittedIds : ledger[id].outcome.version = v
    BY DEF LedgerMatchesVersions
  <2> QED BY <2>1 DEF CommitLog
<1>3. CommitLog \in [1 .. zone.version -> RequestIds]
  BY <1>1, <1>2 DEF CommitLog
<1> QED BY <1>1, <1>2, <1>3 DEF LogFacts

\* A request without a row in the ledger is undecided in the log.
LEMMA UndecidedIsFresh ==
  ASSUME LogFacts, NEW id, id \notin DOMAIN ledger
  PROVE  ~Promise!Decided(id)
<1>1. id \notin RefusedIds
  BY DEF RefusedIds
<1>2. \A v \in DOMAIN CommitLog : CommitLog[v] # id
  BY DEF LogFacts, CommittedIds
<1> QED BY <1>1, <1>2 DEF Promise!Decided

\* The commit log only depends on the COMMITTED rows of the ledger.
LEMMA SameCommitLog ==
  ASSUME zone'.version = zone.version, CommittedIds' = CommittedIds,
         \A i \in CommittedIds : ledger'[i] = ledger[i]
  PROVE  CommitLog' = CommitLog
BY DEF CommitLog

\* The instance counts serials as ZoneStore does.
LEMMA PromiseSerials ==
  /\ Promise!Serials = Serials
  /\ \A a, b : Promise!IsForward(a, b) <=> IsForward(a, b)
BY DEF Promise!Serials, Serials, Promise!MOD, MOD, Promise!IsForward, IsForward,
       Promise!Compare, Compare, Promise!Distance, Distance

\* Every step of ZoneStore is a step of PublicationLog or a stutter.
LEMMA PromiseStep ==
  ASSUME Structure, LedgerMatchesVersions, LogFacts, LogFacts', [Next]_vars
  PROVE  [Promise!Next]_(Promise!vars)
<1>1. ASSUME NEW c \in Clients, NEW n \in 1 .. MaxAttempts, PublishCommits(c, n)
      PROVE  Promise!Next
  <2> DEFINE new == zone.version + 1
             id == req[c].id
             row == [content |-> Content(req[c]),
                     outcome |-> Committed(new, req[c].next)]
  <2>1. /\ ledger' = Insert(ledger, id, row)
        /\ id \notin DOMAIN ledger
        /\ zone.created
    BY <1>1 DEF PublishCommits, Acceptable
  <2>2. /\ zone'.version = new /\ zone'.created /\ zone'.serial = req[c].next
        /\ IsForward(zone.serial, req[c].next)
        /\ req[c].next \in Serials
    BY <1>1, CommitEffect
  <2>3. id \in RequestIds /\ zone.version \in Nat
    BY <1>1, CommitFacts, RequestFields DEF Structure, TypeOK
  <2>4. row.outcome.code = "COMMITTED" /\ row.outcome.version = new
    BY DEF Committed
  <2>5. /\ DOMAIN ledger' = DOMAIN ledger \union {id}
        /\ ledger'[id] = row
        /\ \A i \in DOMAIN ledger : ledger'[i] = ledger[i]
    <3> HIDE DEF row, id
    <3> QED BY <2>1 DEF Insert
  <2>6. CommittedIds' = CommittedIds \union {id} /\ id \notin CommittedIds
    <3> HIDE DEF row, id
    <3> QED BY <2>1, <2>4, <2>5 DEF CommittedIds
  <2>7. RefusedIds' = RefusedIds
    <3> HIDE DEF row, id
    <3> QED BY <2>1, <2>5, <2>6 DEF RefusedIds
  <2>8. \A v \in 1 .. zone.version : CommitLog'[v] = CommitLog[v]
    <3>1. SUFFICES ASSUME NEW v \in 1 .. zone.version
                   PROVE  CommitLog'[v] = CommitLog[v]
      OBVIOUS
    <3>2. v \in 1 .. new /\ v # new
      BY <2>3
    <3>3. /\ CommitLog'[v] \in CommittedIds'
          /\ ledger'[CommitLog'[v]].outcome.version = v
      BY <2>2, <3>2 DEF LogFacts
    <3>4. CommitLog'[v] # id
      <4> HIDE DEF row, id, new
      <4> QED BY <2>4, <2>5, <3>2, <3>3
    <3>5. /\ CommitLog'[v] \in CommittedIds
          /\ ledger[CommitLog'[v]].outcome.version = v
      <4>1. CommitLog'[v] \in CommittedIds
        BY <2>6, <3>3, <3>4
      <4> QED BY <2>5, <3>3, <4>1 DEF CommittedIds
    <3>6. /\ CommitLog[v] \in CommittedIds
          /\ ledger[CommitLog[v]].outcome.version = v
      BY DEF LogFacts
    <3> QED BY <3>5, <3>6 DEF LedgerMatchesVersions
  <2>9. CommitLog'[new] = id
    <3>1. new \in 1 .. new
      BY <2>3
    <3>2. /\ CommitLog'[new] \in CommittedIds'
          /\ ledger'[CommitLog'[new]].outcome.version = new
      BY <2>2, <3>1 DEF LogFacts
    <3>3. \A i \in CommittedIds : ledger'[i].outcome.version # new
      BY <2>3, <2>5 DEF LedgerMatchesVersions, CommittedIds
    <3> QED BY <2>6, <3>2, <3>3
  <2>10. CommitLog' = Append(CommitLog, id)
    <3>1. CommitLog \in Seq(RequestIds) /\ Len(CommitLog) = zone.version
      BY DEF LogFacts
    <3>2. CommitLog' \in Seq(RequestIds) /\ Len(CommitLog') = zone.version + 1
      BY <2>2 DEF LogFacts
    <3> HIDE DEF id
    <3> QED BY <2>3, <2>8, <2>9, <3>1, <3>2
  <2>11. ~Promise!Decided(id)
    BY <2>1, UndecidedIsFresh
  <2>12. Promise!Accept(id, req[c].next)
    <3> HIDE DEF id
    <3> QED BY <2>1, <2>2, <2>7, <2>10, <2>11, PromiseSerials
         DEF Promise!Accept
  <2> QED BY <2>2, <2>3, <2>12, PromiseSerials DEF Promise!Next
<1>2. ASSUME NEW c \in Clients, NEW n \in 1 .. MaxAttempts, PublishRefused(c, n)
      PROVE  [Promise!Next]_(Promise!vars)
  <2>1. PICK error \in LedgerableFailures \union {"VALIDATION_ERROR"} :
          ledger' = IF error \in LedgerableFailures
                      THEN Insert(ledger, req[c].id,
                                  [content |-> Content(req[c]),
                                   outcome |-> Failed(error)])
                      ELSE ledger
    BY <1>2, RefusalEffect
  <2>2. /\ zone' = zone
        /\ zone.created
        /\ req[c].id \notin DOMAIN ledger
        /\ req[c].id \in RequestIds
    BY <1>2, RefusalEffect, RequestFields
  <2>3. CommittedIds' = CommittedIds
    BY <2>1, <2>2, FailedIsNotCommitted DEF CommittedIds, Insert
  <2>4. CommitLog' = CommitLog
    BY <2>2, <2>3, LedgerGrows, SameCommitLog DEF CommittedIds
  <2>5. CASE error \in LedgerableFailures
    <3>1. DOMAIN ledger' = DOMAIN ledger \union {req[c].id}
      BY <2>1, <2>5 DEF Insert
    <3>2. RefusedIds' = RefusedIds \union {req[c].id}
      BY <2>2, <2>3, <3>1 DEF RefusedIds, CommittedIds
    <3>3. Promise!Refuse(req[c].id)
      BY <2>2, <2>4, <3>2, UndecidedIsFresh DEF Promise!Refuse
    <3> QED BY <2>2, <3>3 DEF Promise!Next
  <2>6. CASE error \notin LedgerableFailures
    <3>1. RefusedIds' = RefusedIds
      BY <2>1, <2>3, <2>6 DEF RefusedIds
    <3> QED BY <2>2, <2>4, <3>1 DEF Promise!vars
  <2> QED BY <2>5, <2>6
<1>3. CASE ledger' = ledger
  <2>1. CommittedIds' = CommittedIds /\ RefusedIds' = RefusedIds
    BY <1>3 DEF CommittedIds, RefusedIds
  <2>2. ASSUME NEW z \in Creations, CreateZone(z) PROVE Promise!Next
    <3>1. /\ zone'.created /\ zone'.serial = z.serial /\ zone'.version = 0
          /\ ~zone.created /\ z.serial \in Serials
      BY <2>2, StoreAssumption DEF CreateZone
    <3>2. zone.version = 0
      BY <3>1 DEF Structure, EmptyBeforeCreation
    <3>3. CommitLog' = CommitLog
      BY <1>3, <2>1, <3>1, <3>2, SameCommitLog
    <3>4. Promise!Create(z.serial)
      BY <2>1, <3>1, <3>3, <2>2 DEF Promise!Create, CreateZone
    <3> QED BY <3>1, <3>4, PromiseSerials DEF Promise!Next
  <2>3. CASE /\ zone'.created = zone.created
             /\ zone'.serial = zone.serial
             /\ zone'.version = zone.version
    <3>1. CommitLog' = CommitLog
      BY <1>3, <2>1, <2>3, SameCommitLog
    <3> QED BY <2>1, <2>3, <3>1 DEF Promise!vars
  <2>4. ASSUME NEW w \in Cleaners, RunCleanup(w)
        PROVE  [Promise!Next]_(Promise!vars)
    <3>1. zone' = zone
      BY <2>4 DEF RunCleanup, CleanupUpTo
    <3> QED BY <2>3, <3>1
  <2> QED BY <1>1, <2>2, <2>3, <2>4, StepCases
<1> QED BY <1>1, <1>2, <1>3, LedgerCases

(***************************************************************************)
(* ZoneStore implements PublicationLog: a zone is a log of requests, each  *)
(* decided once, beneath all retries, lost answers and cleanups.           *)
(***************************************************************************)
THEOREM PublicationRefinement == Spec => PublicationPromise
<1>1. Init => Promise!Init
  <2> SUFFICES ASSUME Init PROVE Promise!Init
    OBVIOUS
  <2>1. /\ zone.created = FALSE /\ zone.serial = 0 /\ zone.version = 0
        /\ DOMAIN ledger = {}
    BY DEF Init, Empty
  <2>2. RefusedIds = {}
    BY <2>1 DEF RefusedIds
  <2>3. CommitLog = <<>>
    BY <2>1 DEF CommitLog
  <2> QED BY <2>1, <2>2, <2>3 DEF Promise!Init
<1>2. Structure /\ LedgerMatchesVersions => LogFacts
  BY CommitLogFacts
<1>3. Structure /\ LedgerMatchesVersions /\ LogFacts /\ LogFacts' /\ [Next]_vars
        => [Promise!Next]_(Promise!vars)
  BY PromiseStep
<1> QED
  BY <1>1, <1>2, <1>3, StructureInvariant, LedgerInvariant, PTL
     DEF Spec, PublicationPromise, Promise!Spec
=============================================================================
