---------------------------- MODULE QueriesProofs ----------------------------
(***************************************************************************)
(* Readers without a transaction, for any number of them beside any number *)
(* of clients and cleaners. What a reader sees is tied to the version it   *)
(* looked up by three facts: a version is never altered while it is there, *)
(* it never comes back once it is gone, and it stays for as many publishes *)
(* as the smallest retention in use.                                       *)
(***************************************************************************)
EXTENDS Queries, ZoneStoreProofs, WellFoundedInduction

(***************************************************************************)
(* Readers change nothing that ZoneStore speaks of: Queries implements it, *)
(* and every theorem about ZoneStore holds of Queries.                     *)
(***************************************************************************)
THEOREM QueriesImplementStore == QSpec => Spec
<1>1. QInit => Init
  BY DEF QInit
<1>2. [QNext]_qvars => [Next]_vars
  <2> SUFFICES ASSUME [QNext]_qvars PROVE [Next]_vars
    OBVIOUS
  <2>1. ASSUME NEW a \in Askers, QuestionStep(a) PROVE UNCHANGED vars
    BY <2>1 DEF QuestionStep, LookUp, AskUnknownType, SelectRows, SelectExists, ReadFails
  <2>2. ASSUME NEW v \in Viewers, ViewStep(v) PROVE UNCHANGED vars
    BY <2>2 DEF ViewStep, ViewZone, ViewSoa, ViewNs
  <2> QED BY <2>1, <2>2 DEF QNext, WriterStep, qvars
<1> QED BY <1>1, <1>2, PTL DEF QSpec, Spec
-----------------------------------------------------------------------------
(* The smallest retention. *)

RetentionsInUse == Retentions \union {c.retain : c \in Creations}

\* Once a zone has a retention there is a least one.
LEMMA LeastRetentionExists ==
  ASSUME NEW k \in RetentionsInUse
  PROVE  /\ LeastRetention \in Nat \ {0}
         /\ \A j \in RetentionsInUse : LeastRetention <= j
<1>1. RetentionsInUse \subseteq Nat \ {0}
  BY StoreAssumption DEF RetentionsInUse
<1>2. IsWellFoundedOn(OpToRel(<, Nat), Nat)
  BY NatLessThanWellFounded
<1>3. PICK least \in RetentionsInUse :
        \A j \in RetentionsInUse : <<j, least>> \notin OpToRel(<, Nat)
  <2> DEFINE R == OpToRel(<, Nat)
  <2>1. RetentionsInUse \subseteq Nat /\ IsWellFoundedOn(R, Nat)
    BY <1>1, <1>2
  <2> HIDE DEF R
  <2>2. \E i \in RetentionsInUse : \A j \in RetentionsInUse : <<j, i>> \notin R
    BY <2>1, WFMin
  <2> QED BY <2>2 DEF R
<1>4. ASSUME NEW j \in RetentionsInUse PROVE least <= j
  <2>1. ~(j < least)
    BY <1>1, <1>3 DEF OpToRel
  <2> QED BY <1>1, <2>1
<1>5. LeastRetention \in RetentionsInUse /\ \A j \in RetentionsInUse : LeastRetention <= j
  <2> DEFINE P(i) == \A j \in RetentionsInUse : i <= j
  <2>1. LeastRetention = CHOOSE i \in RetentionsInUse : P(i)
    BY DEF LeastRetention, RetentionsInUse
  <2>2. \E i \in RetentionsInUse : P(i)
    BY <1>4
  <2> HIDE DEF P
  <2>3. LeastRetention \in RetentionsInUse /\ P(LeastRetention)
    BY <2>1, <2>2
  <2> QED BY <2>3 DEF P
<1> QED BY <1>1, <1>5

\* The retention of a zone is one that somebody asked for, and the versions
\* that any retention in use protects are there.
Retained ==
  zone.created =>
    /\ zone.retain \in RetentionsInUse
    /\ \A v \in 0 .. zone.version :
         v > zone.version - LeastRetention => v \in DOMAIN versions

\* A cleanup that follows any retention in use keeps what the least keeps.
LEMMA RetainedStep ==
  ASSUME Structure, Retained, [Next]_vars
  PROVE  Retained'
<1> USE DEF Retained
<1>1. /\ zone.version \in Nat /\ zone.retain \in Nat \ {0}
      /\ zone \in [created : BOOLEAN, serial : Serials, version : Nat, retain : Nat \ {0}]
  BY DEF Structure, TypeOK
<1>2. ASSUME NEW z \in Creations, CreateZone(z) PROVE Retained'
  <2>1. zone'.retain = z.retain /\ zone'.version = 0 /\ 0 \in DOMAIN versions'
    BY <1>2 DEF CreateZone, Insert
  <2> QED BY <2>1 DEF RetentionsInUse
<1>3. ASSUME NEW c \in Clients, NEW n \in 1 .. MaxAttempts, PublishCommits(c, n)
      PROVE  Retained'
  <2>1. /\ zone'.retain = zone.retain /\ zone'.version = zone.version + 1
        /\ DOMAIN versions' = DOMAIN versions \union {zone.version + 1}
        /\ zone.created
    BY <1>1, <1>3, CommitEffect, CommitFacts DEF Insert
  <2>2. LeastRetention \in Nat \ {0}
    BY <2>1, LeastRetentionExists
  <2>3. ASSUME NEW v \in 0 .. zone'.version, v > zone'.version - LeastRetention
        PROVE  v \in DOMAIN versions'
    <3>1. CASE v = zone.version + 1
      BY <2>1, <3>1
    <3>2. CASE v # zone.version + 1
      <4>1. v \in 0 .. zone.version /\ v > zone.version - LeastRetention
        BY <1>1, <2>1, <2>2, <2>3, <3>2
      <4> QED BY <2>1, <4>1
    <3> QED BY <3>1, <3>2
  <2> QED BY <2>1, <2>3
<1>4. ASSUME NEW w \in Cleaners, RunCleanup(w) PROVE Retained'
  <2>1. PICK d \in Int :
          /\ d <= zone.version - zone.retain + 1
          /\ DOMAIN versions' = {v \in DOMAIN versions : v >= d}
    BY <1>4, CleanupEffect
  <2>2. zone' = zone
    BY <1>4, CleanupEffect
  <2>3. SUFFICES ASSUME zone.created, NEW v \in 0 .. zone.version,
                        v > zone.version - LeastRetention
                 PROVE  v \in DOMAIN versions'
    BY <2>2
  <2>4. LeastRetention \in Nat /\ LeastRetention <= zone.retain
    BY <2>3, LeastRetentionExists
  <2>5. v >= d
    BY <1>1, <2>1, <2>3, <2>4
  <2> QED BY <2>1, <2>3, <2>5
<1>5. ASSUME NEW k \in Retentions, SetRetention(k) PROVE Retained'
  BY <1>1, <1>5 DEF SetRetention, RetentionsInUse
<1>6. CASE UNCHANGED <<zone, versions>>
  BY <1>6
<1>7. ASSUME ~ \E z \in Creations : CreateZone(z),
             ~ \E c \in Clients, n \in 1 .. MaxAttempts : PublishCommits(c, n),
             ~ \E w \in Cleaners : RunCleanup(w),
             ~ \E k \in Retentions : SetRetention(k)
      PROVE  UNCHANGED <<zone, versions>>
  BY <1>7 DEF Next, ClientStep, Submit, Retry, CallDropped, Publish, PublishNoZone,
     PublishReplayed, PublishRefused, PublishSerialReused, CleanerStep, ClaimTask,
     ClaimNothing, CleanupAborted, vars
<1> QED BY <1>2, <1>3, <1>4, <1>5, <1>6, <1>7
-----------------------------------------------------------------------------
(* What was published. *)

\* Every version ever made is remembered, and a retained one is as it was.
Remembered ==
  /\ DOMAIN published = IF zone.created THEN 0 .. zone.version ELSE {}
  /\ DOMAIN records \subseteq DOMAIN published
  /\ \A v \in DOMAIN records : records[v] = published[v]

\* What a step does to the versions and their snapshots: some go, and at
\* most one comes, with a number that was never used.
TablesMove ==
  /\ zone.created => zone'.created
  /\ zone.version \in Nat /\ zone'.version \in Nat
  /\ \/ /\ zone'.version = zone.version
        /\ \A v \in DOMAIN records' : zone.created =>
             v \in DOMAIN records /\ records'[v] = records[v]
     \/ /\ zone.created /\ zone'.version = zone.version + 1
        /\ \A v \in DOMAIN records' :
             v = zone'.version \/ (v \in DOMAIN records /\ records'[v] = records[v])
  /\ zone'.created => zone'.version \in DOMAIN records'
  /\ \A v \in DOMAIN records' : v \in 0 .. zone'.version
  /\ ~zone'.created => DOMAIN records' = {}
  /\ ~zone.created => zone.version = 0 /\ (zone'.created => DOMAIN records' = {0})

\* Every step moves the tables in this way.
LEMMA TablesMoveStep ==
  ASSUME Structure, Structure', [Next]_vars
  PROVE  TablesMove
<1>1. /\ zone.version \in Nat /\ zone'.version \in Nat
      /\ DOMAIN records = DOMAIN versions /\ DOMAIN records' = DOMAIN versions'
      /\ DOMAIN versions' \subseteq Nat
      /\ zone'.created => zone'.version \in DOMAIN versions'
      /\ zone'.created => \A v \in DOMAIN versions' : v <= zone'.version
      /\ ~zone'.created => DOMAIN versions' = {}
      /\ ~zone.created => zone.version = 0 /\ DOMAIN versions = {}
  BY DEF Structure, TypeOK, EmptyBeforeCreation, RetainedInterval
<1>2. ASSUME NEW z \in Creations, CreateZone(z) PROVE TablesMove
  <2>1. /\ ~zone.created /\ zone'.created /\ zone'.version = 0
        /\ DOMAIN versions' = {0}
    BY <1>1, <1>2 DEF CreateZone, Insert
  <2> QED BY <1>1, <2>1 DEF TablesMove
<1>3. ASSUME NEW c \in Clients, NEW n \in 1 .. MaxAttempts, PublishCommits(c, n)
      PROVE  TablesMove
  <2>1. /\ zone.created /\ zone'.created /\ zone'.version = zone.version + 1
        /\ \A v \in DOMAIN records' :
             v = zone'.version \/ (v \in DOMAIN records /\ records'[v] = records[v])
    <3>1. /\ zone.created /\ zone'.created /\ zone'.version = zone.version + 1
          /\ records' = Insert(records, zone.version + 1,
                               Applied(records[zone.version], req[c].ops))
      BY <1>3, CommitEffect, CommitFacts
    <3> QED BY <3>1 DEF Insert
  <2> QED BY <1>1, <2>1 DEF TablesMove
<1>4. ASSUME NEW w \in Cleaners, RunCleanup(w) PROVE TablesMove
  <2>1. /\ zone' = zone
        /\ \A v \in DOMAIN records' : v \in DOMAIN records /\ records'[v] = records[v]
    BY <1>4, CleanupEffect
  <2> QED BY <1>1, <2>1 DEF TablesMove
<1>5. CASE /\ records' = records
           /\ zone'.created = zone.created
           /\ zone'.version = zone.version
  BY <1>1, <1>5 DEF TablesMove
<1> QED BY <1>2, <1>3, <1>4, <1>5, StepCases

\* The versions published before are still so known.
Kept == \A v \in DOMAIN published : v \in DOMAIN published' /\ published'[v] = published[v]

\* No version that is gone comes back.
GoneForGood == \A v \in DOMAIN published : v \in DOMAIN records' => v \in DOMAIN records
\* The record of what was published only grows.
LEMMA RememberedStep ==
  ASSUME Remembered, TablesMove,
         published' = IF zone'.created
                        THEN Insert(published, zone'.version, records'[zone'.version])
                        ELSE published
  PROVE  Remembered' /\ Kept /\ GoneForGood
<1> USE DEF Remembered, TablesMove
<1>1. CASE ~zone'.created
  BY <1>1 DEF Kept, GoneForGood
<1>2. CASE zone'.created
  <2> DEFINE new == zone'.version
  <2>1. /\ DOMAIN published' = DOMAIN published \union {new}
        /\ published'[new] = records'[new]
        /\ \A v \in DOMAIN published : v # new => published'[v] = published[v]
    BY <1>2 DEF Insert
  <2>2. CASE ~zone.created
    BY <1>2, <2>1, <2>2 DEF Kept, GoneForGood
  <2>3. CASE zone.created /\ new = zone.version
    <3>1. DOMAIN published' = 0 .. new
      BY <2>1, <2>3
    <3>2. \A v \in DOMAIN records' : v \in DOMAIN records /\ records'[v] = records[v]
      BY <2>3
    <3>3. published'[new] = published[new]
      BY <1>2, <2>1, <3>2
    <3> QED BY <1>2, <2>1, <2>3, <3>1, <3>2, <3>3 DEF Kept, GoneForGood
  <2>4. CASE zone.created /\ new = zone.version + 1
    <3>1. DOMAIN published' = 0 .. new /\ new \notin DOMAIN published
      <4>1. /\ DOMAIN published = 0 .. zone.version
            /\ zone.version \in Nat /\ new = zone.version + 1
        BY <2>4
      <4>2. DOMAIN published' = (0 .. zone.version) \union {new}
        BY <2>1, <4>1
      <4>3. ASSUME NEW m \in Nat
            PROVE  (0 .. m) \union {m + 1} = 0 .. (m + 1) /\ m + 1 \notin 0 .. m
        OBVIOUS
      <4> HIDE DEF new, Remembered, TablesMove
      <4> QED BY <4>1, <4>2, <4>3
    <3>2. \A v \in DOMAIN records' :
            v = new \/ (v \in DOMAIN records /\ records'[v] = records[v])
      BY <2>4
    <3> QED BY <1>2, <2>1, <2>4, <3>1, <3>2 DEF Kept, GoneForGood
  <2> QED BY <2>2, <2>3, <2>4
<1> QED BY <1>1, <1>2
-----------------------------------------------------------------------------
(* What a reader knows. *)

Rcodes == {"NONE", "NOERROR", "NXDOMAIN", "REFUSED", "NOTIMP", "SERVFAIL"}
ReplyRow == [rcode : Rcodes, tc : BOOLEAN, ancount : {0, 1}, rows : SUBSET (RRKeys \X Data)]
QuestionRow ==
  [state : {"IDLE", "LOOKED_UP", "EMPTY", "DONE"}, transport : {"UDP", "TCP"},
   name : Names, type : Types \union {"ANY"}, version : Nat, reply : ReplyRow,
   behind : Int]
ViewRow ==
  [state : {"IDLE", "FOUND", "NOT_FOUND", "SOA_READ", "INTERNAL", "OK"},
   version : Nat, serial : Serials, ns : SUBSET Data, behind : Int]

\* RowsIn, for one version's rows.
RowsOf(keys, rows) == UNION {{k} \X rows[k] : k \in keys}

\* A question that is under way or answered from rows is about a version
\* that was published; if its rows were not found, the version is gone or
\* had none; and the answer is exact, a negative one if the version was
\* still protected.  history is what was published, there what is retained.
QuestionExact(x, history, there) ==
  LET mine == RowsOf(KeysAsked(x), history[x.version])
      any == RowsOf({x.name} \X Types, history[x.version])
  IN  /\ x.state \in {"LOOKED_UP", "EMPTY"} \/ Answered(x) => x.version \in DOMAIN history
      /\ x.state = "EMPTY" /\ x.version \in there => mine = {}
      /\ Answered(x) /\ x.reply.rcode = "NOERROR" => any # {} /\ x.reply.rows = mine
      /\ Answered(x) /\ x.reply.rcode = "NXDOMAIN" /\ x.behind < LeastRetention => any = {}

\* A view is about a published version, whose serial it has; if it misses
\* rows, the version was no longer protected.
ViewExact(x, history) ==
  /\ x.state \in {"FOUND", "SOA_READ", "OK"} =>
       x.version \in DOMAIN history /\ history[x.version][SOAKey] = {x.serial}
  /\ x.state = "INTERNAL" => ~(x.behind < LeastRetention)
  /\ x.state = "OK" /\ x.ns = {} => ~(x.behind < LeastRetention)
  /\ x.state = "OK" /\ x.ns # {} => x.ns = history[x.version][NSKey]

\* Publishes and cleanups do not disturb what readers know.
LEMMA WriterKeepsReaders ==
  ASSUME Kept, GoneForGood, NEW x
  PROVE  /\ QuestionExact(x, published, DOMAIN records)
              => QuestionExact(x, published', DOMAIN records')
         /\ ViewExact(x, published) => ViewExact(x, published')
<1>1. x.version \in DOMAIN published =>
        x.version \in DOMAIN published' /\ published'[x.version] = published[x.version]
  BY DEF Kept
<1>2. x.version \in DOMAIN published /\ x.version \in DOMAIN records'
        => x.version \in DOMAIN records
  BY DEF GoneForGood
<1> QED BY <1>1, <1>2 DEF QuestionExact, ViewExact

\* What a SELECT finds in a version.
LEMMA SelectedRows ==
  ASSUME Remembered, NEW keys, NEW v
  PROVE  /\ v \in DOMAIN records => Selected(keys, v) = RowsOf(keys, published[v])
         /\ v \notin DOMAIN records => Selected(keys, v) = {}
         /\ RowsIn(keys, v) = RowsOf(keys, published[v])
BY DEF Selected, RowsIn, RowsOf, Remembered

\* The rows asked for are among those of the name.
LEMMA AskedOfName ==
  ASSUME NEW x \in QuestionRow, NEW rows
  PROVE  /\ KeysAsked(x) \subseteq {x.name} \X Types
         /\ {x.name} \X Types \subseteq RRKeys
         /\ RowsOf(KeysAsked(x), rows) \subseteq RowsOf({x.name} \X Types, rows)
<1>1. x.name \in Names /\ x.type \in Types \union {"ANY"}
  BY DEF QuestionRow
<1>2. KeysAsked(x) \subseteq {x.name} \X Types
  BY <1>1 DEF KeysAsked
<1> QED BY <1>1, <1>2 DEF RRKeys, RowsOf

\* Selected rows are data.
LEMMA SelectedType ==
  ASSUME Structure, NEW keys, keys \subseteq RRKeys, NEW v
  PROVE  Selected(keys, v) \subseteq RRKeys \X Data
<1>1. CASE v \in DOMAIN records
  <2>1. records[v] \in RRsets
    BY <1>1 DEF Structure, TypeOK
  <2>2. \A k \in keys : records[v][k] \subseteq Data
    BY <2>1 DEF RRsets
  <2> QED BY <1>1, <2>2 DEF Selected
<1>2. CASE v \notin DOMAIN records
  BY <1>2 DEF Selected
<1> QED BY <1>1, <1>2

\* A version less than the least retention behind is still there.
LEMMA StillThere ==
  ASSUME Structure, Retained, Remembered, NEW v \in DOMAIN published,
         zone.version - v < LeastRetention
  PROVE  v \in DOMAIN records
<1>1. zone.created /\ v \in 0 .. zone.version /\ zone.version \in Nat
  BY DEF Remembered, Structure, TypeOK
<1>2. LeastRetention \in Nat
  BY <1>1, LeastRetentionExists DEF Retained
<1>3. v > zone.version - LeastRetention
  BY <1>1, <1>2
<1> QED BY <1>1, <1>3 DEF Retained, Structure, TypeOK

\* What make_simple_response is given.
LEMMA ReplyFields ==
  ASSUME NEW rcode \in Rcodes, NEW rows, rows \subseteq RRKeys \X Data
  PROVE  /\ Reply(rcode, rows) \in ReplyRow
         /\ Reply(rcode, rows).tc = FALSE
         /\ Reply(rcode, rows).rcode = rcode
         /\ Reply(rcode, rows).rows = rows
<1> DEFINE n == IF rows = {} THEN 0 ELSE 1
<1>1. n \in {0, 1}
  OBVIOUS
<1>2. Reply(rcode, rows) = [rcode |-> rcode, tc |-> FALSE, ancount |-> n, rows |-> rows]
  BY DEF Reply
<1> HIDE DEF n
<1> QED BY <1>1, <1>2 DEF ReplyRow

\* The same for an answer without records.
LEMMA EmptyReplyFields ==
  ASSUME NEW rcode \in Rcodes
  PROVE  /\ Reply(rcode, {}) \in ReplyRow
         /\ Reply(rcode, {}).tc = FALSE
         /\ Reply(rcode, {}).rcode = rcode
         /\ Reply(rcode, {}).rows = {}
<1>1. {} \subseteq RRKeys \X Data
  OBVIOUS
<1> QED BY <1>1, ReplyFields

\* The handler of a's question comes into state y.
Becomes(a, y) == question' = [question EXCEPT ![a] = y]

\* What is answered.
LEMMA RespondEffect ==
  ASSUME Structure, question \in [Askers -> QuestionRow], NEW a \in Askers,
         NEW reply \in ReplyRow, reply.tc = FALSE, Respond(a, reply)
  PROVE  \E y \in QuestionRow :
           /\ Becomes(a, y)
           /\ y.state = "DONE"
           /\ y.name = question[a].name /\ y.type = question[a].type
           /\ y.version = question[a].version
           /\ y.behind = zone.version - question[a].version
           /\ Answered(y) => y.reply = reply
<1> DEFINE r == Fitted(question[a].transport, reply)
           b == zone.version - question[a].version
<1>1. /\ question[a] \in QuestionRow /\ zone.version \in Nat
      /\ question[a].version \in Nat /\ question[a].transport \in {"UDP", "TCP"}
  BY DEF Structure, TypeOK, QuestionRow
<1>2. r \in ReplyRow /\ b \in Int
  <2>1. b \in Int
    BY <1>1
  <2>2. reply.rcode \in Rcodes
    BY DEF ReplyRow
  <2>3. /\ [NoReply EXCEPT !.rcode = reply.rcode, !.tc = TRUE] \in ReplyRow
        /\ [NoReply EXCEPT !.rcode = "SERVFAIL"] \in ReplyRow
    BY <2>2 DEF ReplyRow, NoReply, Rcodes
  <2> QED BY <2>1, <2>3 DEF Fitted
<1>3. r.rcode \in {"NOERROR", "NXDOMAIN"} /\ ~r.tc => r = reply
  BY DEF Fitted, ReplyRow, NoReply
<1>4. question' = [question EXCEPT ![a].state = "DONE", ![a].reply = r, ![a].behind = b]
  BY DEF Respond
<1> HIDE DEF r, b
<1>5. PICK x : x = question[a]
  OBVIOUS
<1>6. PICK y : y = [x EXCEPT !.state = "DONE", !.reply = r, !.behind = b]
  OBVIOUS
<1>7. Becomes(a, y)
  <2>1. question' = [question EXCEPT ![a] =
                       [question[a] EXCEPT !.state = "DONE", !.reply = r, !.behind = b]]
    <3>1. a \in DOMAIN question
      OBVIOUS
    <3> QED BY <1>4, <3>1
  <2> QED BY <1>5, <1>6, <2>1 DEF Becomes
<1>8. /\ y \in QuestionRow
      /\ y.state = "DONE" /\ y.name = x.name /\ y.type = x.type
      /\ y.version = x.version /\ y.behind = b /\ y.reply = r
  BY <1>1, <1>2, <1>5, <1>6 DEF QuestionRow
<1>9. Answered(y) => y.reply = reply
  BY <1>3, <1>8 DEF Answered
<1> QED BY <1>5, <1>7, <1>8, <1>9 DEF b

\* The questions are typed and exact.
Questions ==
  /\ question \in [Askers -> QuestionRow]
  /\ \A a \in Askers : QuestionExact(question[a], published, DOMAIN records)

\* One handler's step is exact if its new state is.
LEMMA QuestionSet ==
  ASSUME Questions, NEW a \in Askers, NEW y \in QuestionRow,
         QuestionExact(y, published, DOMAIN records),
         Becomes(a, y),
         published' = published, records' = records
  PROVE  Questions'
<1>1. /\ question' \in [Askers -> QuestionRow]
      /\ \A b \in Askers : question'[b] = y \/ question'[b] = question[b]
  BY DEF Questions, Becomes
<1>2. \A b \in Askers : QuestionExact(question'[b], published, DOMAIN records)
  BY <1>1 DEF Questions
<1> QED BY <1>1, <1>2 DEF Questions

\* The answers that are given are exact.
LEMMA QuestionsStep ==
  ASSUME Structure, Retained, Remembered, Questions,
         NEW a \in Askers, QuestionStep(a)
  PROVE  Questions'
<1> DEFINE x == question[a]
           any == RowsOf({x.name} \X Types, published[x.version])
           mine == RowsOf(KeysAsked(x), published[x.version])
<1>1. /\ x \in QuestionRow /\ question \in [Askers -> QuestionRow]
      /\ QuestionExact(x, published, DOMAIN records)
      /\ zone.version \in Nat
  BY DEF Questions, Structure, TypeOK
<1>2. published' = published /\ records' = records
  BY DEF QuestionStep, LookUp, AskUnknownType, SelectRows, SelectExists, ReadFails, vars
<1>3. /\ KeysAsked(x) \subseteq RRKeys
      /\ mine \subseteq any
  BY <1>1, AskedOfName
<1>4. "NOERROR" \in Rcodes /\ "NXDOMAIN" \in Rcodes
  BY DEF Rcodes
<1>5. ASSUME NEW rcode \in Rcodes \ {"NOERROR", "NXDOMAIN"},
             Respond(a, Reply(rcode, {}))
      PROVE  Questions'
  <2>1. PICK y \in QuestionRow :
          /\ Becomes(a, y)
          /\ y.state = "DONE"
          /\ Answered(y) => y.reply = Reply(rcode, {})
    <3>1. Reply(rcode, {}) \in ReplyRow /\ Reply(rcode, {}).tc = FALSE
      BY EmptyReplyFields
    <3>2. PICK reply \in ReplyRow : reply = Reply(rcode, {}) /\ reply.tc = FALSE
      BY <3>1
    <3>3. Respond(a, reply)
      BY <1>5, <3>2
    <3> QED BY <1>1, <3>2, <3>3, RespondEffect
  <2>2. ~Answered(y)
    BY <2>1, EmptyReplyFields DEF Answered
  <2> QED BY <1>2, <2>1, <2>2, QuestionSet DEF QuestionExact
<1>6. ASSUME NEW transport \in {"UDP", "TCP"}, NEW name \in Names,
             NEW type \in Types \union {"ANY"}, LookUp(a, transport, name, type)
      PROVE  Questions'
  <2> DEFINE state == IF zone.created THEN "LOOKED_UP" ELSE "DONE"
             reply == IF zone.created THEN NoReply ELSE Reply("REFUSED", {})
  <2>1. reply \in ReplyRow /\ reply.rcode \in {"NONE", "REFUSED"}
    BY DEF Reply, ReplyRow, NoReply, Rcodes
  <2>2. state \in {"LOOKED_UP", "DONE"} /\ (state = "LOOKED_UP" => zone.created)
    OBVIOUS
  <2> HIDE DEF state, reply
  <2>3. PICK y : y = [NotAsked EXCEPT !.transport = transport, !.name = name,
                        !.type = type, !.version = zone.version,
                        !.state = state, !.reply = reply]
    OBVIOUS
  <2>4. Becomes(a, y)
    BY <1>6, <2>3 DEF Becomes, LookUp, state, reply
  <2>5. y = [state |-> state, transport |-> transport, name |-> name, type |-> type,
             version |-> zone.version, reply |-> reply, behind |-> 0]
    BY <2>3 DEF NotAsked
  <2>6. y \in QuestionRow
    BY <1>1, <2>1, <2>2, <2>5 DEF QuestionRow
  <2>7. ~Answered(y)
    BY <2>1, <2>5 DEF Answered
  <2>8. zone.created => zone.version \in DOMAIN published
    BY <1>1 DEF Remembered
  <2>9. QuestionExact(y, published, DOMAIN records)
    BY <2>2, <2>5, <2>7, <2>8 DEF QuestionExact
  <2> QED BY <1>2, <2>4, <2>6, <2>9, QuestionSet
<1>7. ASSUME SelectRows(a) PROVE Questions'
  <2> DEFINE rows == Selected(KeysAsked(x), x.version)
  <2>1. x.state = "LOOKED_UP" /\ x.version \in DOMAIN published
    BY <1>1, <1>7 DEF SelectRows, QuestionExact
  <2>2. x.version \in DOMAIN records => rows = mine
    BY SelectedRows
  <2>3. x.version \notin DOMAIN records => rows = {}
    BY SelectedRows
  <2>4. CASE rows = {}
    <3>1. PICK y : y = [x EXCEPT !.state = "EMPTY"]
      OBVIOUS
    <3>2. Becomes(a, y)
      BY <1>1, <1>7, <2>4, <3>1 DEF Becomes, SelectRows
    <3>3. /\ y \in QuestionRow /\ y.state = "EMPTY"
          /\ y.version = x.version /\ y.name = x.name /\ y.type = x.type
      BY <1>1, <3>1 DEF QuestionRow
    <3>4. ~Answered(y) /\ KeysAsked(y) = KeysAsked(x)
      BY <3>3 DEF Answered, KeysAsked
    <3>5. QuestionExact(y, published, DOMAIN records)
      BY <2>1, <2>2, <2>4, <3>3, <3>4 DEF QuestionExact
    <3> QED BY <1>2, <3>2, <3>3, <3>5, QuestionSet
  <2>5. CASE rows # {}
    <3>1. Respond(a, Reply("NOERROR", rows)) /\ rows \subseteq RRKeys \X Data
      BY <1>3, <1>7, <2>5, SelectedType DEF SelectRows
    <3>2. PICK y \in QuestionRow :
            /\ Becomes(a, y)
            /\ y.state = "DONE"
            /\ y.name = x.name /\ y.type = x.type /\ y.version = x.version
            /\ Answered(y) => y.reply = Reply("NOERROR", rows)
      <4>1. Reply("NOERROR", rows) \in ReplyRow /\ Reply("NOERROR", rows).tc = FALSE
        <5> HIDE DEF rows
        <5> QED BY <1>4, <3>1, ReplyFields
      <4>2. PICK reply \in ReplyRow : reply = Reply("NOERROR", rows) /\ reply.tc = FALSE
        BY <4>1
      <4>3. Respond(a, reply)
        BY <3>1, <4>2
      <4> QED BY <1>1, <4>2, <4>3, RespondEffect
    <3>3. KeysAsked(y) = KeysAsked(x)
      BY <3>2 DEF KeysAsked
    <3>4. rows = mine /\ any # {}
      BY <1>3, <2>2, <2>3, <2>5
    <3>5. Answered(y) => y.reply.rcode = "NOERROR" /\ y.reply.rows = mine
      <4> HIDE DEF rows, mine
      <4>1. Reply("NOERROR", rows).rcode = "NOERROR" /\ Reply("NOERROR", rows).rows = rows
        BY <1>4, <3>1, ReplyFields
      <4>2. rows = mine
        BY <3>4
      <4> QED BY <3>2, <4>1, <4>2
    <3>6. QuestionExact(y, published, DOMAIN records)
      BY <2>1, <3>2, <3>3, <3>4, <3>5 DEF QuestionExact
    <3> QED BY <1>2, <3>2, <3>6, QuestionSet
  <2> QED BY <2>4, <2>5
<1>8. ASSUME SelectExists(a) PROVE Questions'
  <2> DEFINE rcode == IF NameExists(x) THEN "NOERROR" ELSE "NXDOMAIN"
  <2>1. /\ x.state = "EMPTY" /\ x.version \in DOMAIN published
        /\ x.version \in DOMAIN records => mine = {}
        /\ Respond(a, Reply(rcode, {}))
    BY <1>1, <1>8 DEF SelectExists, QuestionExact
  <2>2. PICK y \in QuestionRow :
          /\ Becomes(a, y)
          /\ y.state = "DONE"
          /\ y.name = x.name /\ y.type = x.type /\ y.version = x.version
          /\ y.behind = zone.version - x.version
          /\ Answered(y) => y.reply = Reply(rcode, {})
    <3>1. Reply(rcode, {}) \in ReplyRow /\ Reply(rcode, {}).tc = FALSE
      BY <1>4, EmptyReplyFields
    <3>2. PICK reply \in ReplyRow : reply = Reply(rcode, {}) /\ reply.tc = FALSE
      BY <3>1
    <3>3. Respond(a, reply)
      BY <2>1, <3>2
    <3> QED BY <1>1, <3>2, <3>3, RespondEffect
  <2>3. KeysAsked(y) = KeysAsked(x)
    BY <2>2 DEF KeysAsked
  <2>4. /\ x.version \in DOMAIN records => (NameExists(x) <=> any # {})
        /\ x.version \notin DOMAIN records => ~NameExists(x)
    BY SelectedRows DEF NameExists
  <2>5. Answered(y) => y.reply.rcode = rcode /\ y.reply.rows = {}
    BY <1>4, <2>2, EmptyReplyFields
  <2>6. y.behind < LeastRetention => x.version \in DOMAIN records
    BY <2>1, <2>2, StillThere
  <2>7. QuestionExact(y, published, DOMAIN records)
    BY <2>1, <2>2, <2>3, <2>4, <2>5, <2>6 DEF QuestionExact
  <2> QED BY <1>2, <2>2, <2>7, QuestionSet
<1> QED
  BY <1>5, <1>6, <1>7, <1>8 DEF QuestionStep, AskUnknownType, ReadFails, Rcodes
-----------------------------------------------------------------------------
\* The views are typed and exact.
Views ==
  /\ view \in [Viewers -> ViewRow]
  /\ \A v \in Viewers : ViewExact(view[v], published)

\* The handler of v's request comes into state y.
Shows(v, y) == view' = [view EXCEPT ![v] = y]

\* One handler's step is exact if its new state is.
LEMMA ViewSet ==
  ASSUME Views, NEW v \in Viewers, NEW y \in ViewRow, ViewExact(y, published),
         Shows(v, y), published' = published
  PROVE  Views'
<1>1. /\ view' \in [Viewers -> ViewRow]
      /\ \A b \in Viewers : view'[b] = y \/ view'[b] = view[b]
  BY DEF Views, Shows
<1>2. \A b \in Viewers : ViewExact(view'[b], published)
  BY <1>1 DEF Views
<1> QED BY <1>1, <1>2 DEF Views

\* get_soa and the SELECT for the name servers, in a version that is there.
LEMMA SoaAndNs ==
  ASSUME Remembered, NEW x
  PROVE  /\ x.version \in DOMAIN records =>
              /\ Selected({SOAKey}, x.version) = {SOAKey} \X published[x.version][SOAKey]
              /\ NsOf(x) = published[x.version][NSKey]
         /\ x.version \notin DOMAIN records => NsOf(x) = {}
<1> DEFINE rows == published[x.version]
<1>1. \A k : RowsOf({k}, rows) = {k} \X rows[k]
  BY DEF RowsOf
<1>2. ASSUME NEW S, NEW k PROVE {row[2] : row \in {k} \X S} = S
  <2>1. \A row \in {k} \X S : row[2] \in S
    OBVIOUS
  <2>2. ASSUME NEW e \in S PROVE e \in {row[2] : row \in {k} \X S}
    <3>1. <<k, e>> \in {k} \X S /\ <<k, e>>[2] = e
      OBVIOUS
    <3> QED BY <3>1
  <2> QED BY <2>1, <2>2
<1> HIDE DEF rows
<1>3. CASE x.version \in DOMAIN records
  <2>1. \A keys : Selected(keys, x.version) = RowsOf(keys, rows)
    BY <1>3, SelectedRows DEF rows
  <2>2. NsOf(x) = {row[2] : row \in {NSKey} \X rows[NSKey]}
    BY <1>1, <2>1 DEF NsOf
  <2> QED BY <1>1, <1>2, <1>3, <2>1, <2>2 DEF rows
<1>4. CASE x.version \notin DOMAIN records
  BY <1>4, SelectedRows DEF NsOf
<1> QED BY <1>3, <1>4

\* The views that are shown are exact.
LEMMA ViewsStep ==
  ASSUME Structure, SerialChain, SnapshotsAreZones, Retained, Remembered, Views,
         NEW v \in Viewers, ViewStep(v)
  PROVE  Views'
<1>1. /\ view[v] \in ViewRow /\ view \in [Viewers -> ViewRow]
      /\ ViewExact(view[v], published)
      /\ zone.version \in Nat /\ zone.serial \in Serials
  BY DEF Views, Structure, TypeOK
<1>2. published' = published
  BY DEF ViewStep, ViewZone, ViewSoa, ViewNs
<1>3. view[v].version \in Nat /\ zone.version - view[v].version \in Int
  BY <1>1 DEF ViewRow
<1>4. view[v].version \in DOMAIN records => published[view[v].version][NSKey] # {}
  BY DEF SnapshotsAreZones, Remembered
<1>5. ASSUME ViewZone(v) PROVE Views'
  <2> DEFINE state == IF zone.created THEN "FOUND" ELSE "NOT_FOUND"
  <2>1. PICK y : y = [NotViewed EXCEPT !.state = state, !.version = zone.version,
                                       !.serial = zone.serial]
    OBVIOUS
  <2>2. Shows(v, y)
    BY <1>5, <2>1 DEF Shows, ViewZone
  <2>3. state \in {"FOUND", "NOT_FOUND"} /\ (state = "FOUND" => zone.created)
    OBVIOUS
  <2> HIDE DEF state
  <2>4. y = [state |-> state, version |-> zone.version, serial |-> zone.serial,
             ns |-> {}, behind |-> 0]
    BY <2>1 DEF NotViewed
  <2>5. y \in ViewRow
    BY <1>1, <2>3, <2>4 DEF ViewRow
  <2>6. zone.created => /\ zone.version \in DOMAIN published
                        /\ published[zone.version][SOAKey] = {zone.serial}
    BY DEF Structure, TypeOK, RetainedInterval, SerialChain, SnapshotsAreZones, Remembered
  <2>7. ViewExact(y, published)
    BY <2>3, <2>4, <2>6 DEF ViewExact
  <2> QED BY <1>2, <2>2, <2>5, <2>7, ViewSet
<1>6. ASSUME ViewSoa(v) PROVE Views'
  <2> DEFINE state == IF Selected({SOAKey}, view[v].version) = {} THEN "INTERNAL"
                      ELSE "SOA_READ"
             b == zone.version - view[v].version
  <2>1. /\ view[v].state = "FOUND" /\ view[v].version \in DOMAIN published
        /\ published[view[v].version][SOAKey] = {view[v].serial}
    BY <1>1, <1>6 DEF ViewExact, ViewSoa
  <2>2. /\ state \in {"INTERNAL", "SOA_READ"}
        /\ state = "INTERNAL" => view[v].version \notin DOMAIN records
    <3>1. ASSUME view[v].version \in DOMAIN records
          PROVE  Selected({SOAKey}, view[v].version) # {}
      <4>1. Selected({SOAKey}, view[v].version) = {SOAKey} \X {view[v].serial}
        BY <2>1, <3>1, SoaAndNs
      <4>2. <<SOAKey, view[v].serial>> \in {SOAKey} \X {view[v].serial}
        OBVIOUS
      <4> QED BY <4>1, <4>2
    <3> QED BY <3>1
  <2>3. view' = [view EXCEPT ![v].state = state, ![v].behind = b]
    BY <1>6 DEF ViewSoa
  <2> HIDE DEF state
  <2>4. PICK y : y = [view[v] EXCEPT !.state = state, !.behind = b]
    OBVIOUS
  <2>5. Shows(v, y)
    BY <1>1, <2>3, <2>4 DEF Shows
  <2>6. /\ y \in ViewRow /\ y.state = state /\ y.behind = b
        /\ y.version = view[v].version /\ y.serial = view[v].serial
    BY <1>1, <1>3, <2>2, <2>4 DEF ViewRow
  <2>7. b < LeastRetention => view[v].version \in DOMAIN records
    BY <2>1, StillThere
  <2>8. ViewExact(y, published)
    BY <2>1, <2>2, <2>6, <2>7 DEF ViewExact
  <2> QED BY <1>2, <2>5, <2>6, <2>8, ViewSet
<1>7. ASSUME ViewNs(v) PROVE Views'
  <2> DEFINE ns == NsOf(view[v])
             b == zone.version - view[v].version
  <2>1. /\ view[v].state = "SOA_READ" /\ view[v].version \in DOMAIN published
        /\ published[view[v].version][SOAKey] = {view[v].serial}
    BY <1>1, <1>7 DEF ViewExact, ViewNs
  <2>2. /\ ns # {} => view[v].version \in DOMAIN records
                      /\ ns = published[view[v].version][NSKey]
        /\ ns = {} => view[v].version \notin DOMAIN records
    <3> HIDE DEF ns
    <3>1. /\ view[v].version \in DOMAIN records => ns = published[view[v].version][NSKey]
          /\ view[v].version \notin DOMAIN records => ns = {}
      BY SoaAndNs DEF ns
    <3> QED BY <1>4, <3>1
  <2>3. ns \subseteq Data
    <3>1. ASSUME view[v].version \in DOMAIN records
          PROVE  published[view[v].version] \in RRsets
      BY <3>1 DEF Structure, TypeOK, Remembered
    <3>2. CASE ns = {}
      BY <3>2
    <3>3. CASE ns # {}
      <4>1. published[view[v].version] \in RRsets /\ ns = published[view[v].version][NSKey]
        BY <2>2, <3>1, <3>3
      <4> QED BY <4>1, KeysInRRKeys DEF RRsets
    <3> QED BY <3>2, <3>3
  <2>4. view' = [view EXCEPT ![v].state = "OK", ![v].ns = ns, ![v].behind = b]
    BY <1>7 DEF ViewNs
  <2> HIDE DEF ns
  <2>5. PICK y : y = [view[v] EXCEPT !.state = "OK", !.ns = ns, !.behind = b]
    OBVIOUS
  <2>6. Shows(v, y)
    BY <1>1, <2>4, <2>5 DEF Shows
  <2>7. /\ y \in ViewRow /\ y.state = "OK" /\ y.ns = ns /\ y.behind = b
        /\ y.version = view[v].version /\ y.serial = view[v].serial
    BY <1>1, <1>3, <2>3, <2>5 DEF ViewRow
  <2>8. b < LeastRetention => view[v].version \in DOMAIN records
    BY <2>1, StillThere
  <2>9. ViewExact(y, published)
    BY <2>1, <2>2, <2>7, <2>8 DEF ViewExact
  <2> QED BY <1>2, <2>6, <2>7, <2>9, ViewSet
<1> QED BY <1>5, <1>6, <1>7 DEF ViewStep
-----------------------------------------------------------------------------
\* The inductive invariant, beside those of ZoneStore.
QInv == Retained /\ Remembered /\ Questions /\ Views

\* It holds before anything is asked.
LEMMA QInvInit == QInit => QInv
<1> SUFFICES ASSUME QInit PROVE QInv
  OBVIOUS
<1>1. zone.created = FALSE /\ DOMAIN records = {} /\ DOMAIN published = {}
  BY DEF QInit, Init, Empty
<1>2. Retained /\ Remembered
  BY <1>1 DEF Retained, Remembered
<1>3. Questions
  <2>1. NotAsked \in QuestionRow
    BY StoreAssumption DEF NotAsked, NoReply, QuestionRow, ReplyRow, Rcodes
  <2>2. QuestionExact(NotAsked, published, DOMAIN records)
    BY DEF NotAsked, QuestionExact, Answered
  <2> QED BY <2>1, <2>2 DEF QInit, Questions
<1>4. Views
  <2>1. NotViewed \in ViewRow
    BY SerialAssumption DEF NotViewed, ViewRow, Serials, MOD
  <2>2. ViewExact(NotViewed, published)
    BY DEF NotViewed, ViewExact
  <2> QED BY <2>1, <2>2 DEF QInit, Views
<1> QED BY <1>2, <1>3, <1>4 DEF QInv

\* Writers and readers keep it.
LEMMA QInvStep ==
  ASSUME Structure, Structure', SerialChain, SnapshotsAreZones, QInv, [QNext]_qvars
  PROVE  QInv'
<1> USE DEF QInv
<1>1. CASE WriterStep
  <2>1. /\ [Next]_vars /\ question' = question /\ view' = view
        /\ published' = IF zone'.created
                          THEN Insert(published, zone'.version, records'[zone'.version])
                          ELSE published
    BY <1>1 DEF WriterStep
  <2>2. Retained' /\ Remembered' /\ Kept /\ GoneForGood
    BY <2>1, RetainedStep, TablesMoveStep, RememberedStep
  <2>3. Questions'
    BY <2>1, <2>2, WriterKeepsReaders DEF Questions
  <2>4. Views'
    BY <2>1, <2>2, WriterKeepsReaders DEF Views
  <2> QED BY <2>2, <2>3, <2>4
<1>2. ASSUME NEW a \in Askers, QuestionStep(a) PROVE QInv'
  <2>1. UNCHANGED <<zone, versions, records, view, published>>
    BY <1>2 DEF QuestionStep, LookUp, AskUnknownType, SelectRows, SelectExists, ReadFails,
       vars
  <2>2. Questions'
    BY <1>2, QuestionsStep
  <2> QED BY <2>1, <2>2 DEF Retained, Remembered, Views
<1>3. ASSUME NEW v \in Viewers, ViewStep(v) PROVE QInv'
  <2>1. UNCHANGED <<zone, versions, records, question, published>>
    BY <1>3 DEF ViewStep, ViewZone, ViewSoa, ViewNs, vars
  <2>2. Views'
    BY <1>3, ViewsStep
  <2> QED BY <2>1, <2>2 DEF Retained, Remembered, Questions
<1>4. CASE UNCHANGED qvars
  BY <1>4 DEF qvars, vars, Retained, Remembered, Questions, Views
<1> QED BY <1>1, <1>2, <1>3, <1>4 DEF QNext

(***************************************************************************)
(* What readers know of the version they looked up stays true, whatever is *)
(* published, retained and cleaned up between their SELECTs.               *)
(***************************************************************************)
THEOREM ReadersInvariant == QSpec => []QInv
<1>1. QInit => QInv
  BY QInvInit
<1>2. Structure /\ Structure' /\ SerialChain /\ SnapshotsAreZones /\ QInv
        /\ [QNext]_qvars => QInv'
  BY QInvStep
<1> QED
  BY <1>1, <1>2, QueriesImplementStore, StructureInvariant, SerialChainInvariant,
     SnapshotsInvariant, PTL DEF QSpec

(***************************************************************************)
(* A positive answer, and a view with name servers, is that of the one     *)
(* version that was current when the question came in.                     *)
(***************************************************************************)
THEOREM PositiveAnswersInvariant == QSpec => []PositiveAnswersExact
<1>1. QInv => PositiveAnswersExact
  <2> SUFFICES ASSUME QInv PROVE PositiveAnswersExact
    OBVIOUS
  <2>1. ASSUME NEW a \in Askers,
               Answered(question[a]), question[a].reply.rcode = "NOERROR"
        PROVE  /\ TrueRcode(question[a]) = "NOERROR"
               /\ question[a].reply.rows
                    = RowsIn(KeysAsked(question[a]), question[a].version)
    <3> DEFINE x == question[a]
    <3>1. /\ RowsOf({x.name} \X Types, published[x.version]) # {}
          /\ x.reply.rows = RowsOf(KeysAsked(x), published[x.version])
      BY <2>1 DEF QInv, Questions, QuestionExact
    <3>2. \A keys : RowsIn(keys, x.version) = RowsOf(keys, published[x.version])
      BY SelectedRows DEF QInv
    <3> HIDE DEF x
    <3>3. TrueRcode(x) = "NOERROR" /\ x.reply.rows = RowsIn(KeysAsked(x), x.version)
      BY <3>1, <3>2 DEF TrueRcode
    <3> QED BY <3>3 DEF x
  <2>2. ASSUME NEW v \in Viewers, view[v].state = "OK", view[v].ns # {}
        PROVE  /\ published[view[v].version][SOAKey] = {view[v].serial}
               /\ published[view[v].version][NSKey] = view[v].ns
    BY <2>2 DEF QInv, Views, ViewExact
  <2> QED BY <2>1, <2>2 DEF PositiveAnswersExact
<1> QED BY <1>1, ReadersInvariant, PTL

(***************************************************************************)
(* A negative answer or a view that misses rows is wrong only if at least  *)
(* as many versions as the smallest retention came meanwhile.              *)
(***************************************************************************)
THEOREM ExactAnswersInvariant == QSpec => []ExactWithinRetention
<1>1. QInv => ExactWithinRetention
  <2> SUFFICES ASSUME QInv PROVE ExactWithinRetention
    OBVIOUS
  <2>1. ASSUME NEW a \in Askers,
               Answered(question[a]), question[a].behind < LeastRetention
        PROVE  question[a].reply.rcode = TrueRcode(question[a])
    <3>1. question[a].reply.rcode \in {"NOERROR", "NXDOMAIN"}
      BY <2>1 DEF Answered
    <3> DEFINE x == question[a]
               any == RowsOf({x.name} \X Types, published[x.version])
    <3>2. /\ x.reply.rcode = "NOERROR" => any # {}
          /\ x.reply.rcode = "NXDOMAIN" => any = {}
      BY <2>1 DEF QInv, Questions, QuestionExact
    <3>3. RowsIn({x.name} \X Types, x.version) = any
      BY SelectedRows DEF QInv
    <3> HIDE DEF x, any
    <3>4. x.reply.rcode \in {"NOERROR", "NXDOMAIN"} => x.reply.rcode = TrueRcode(x)
      BY <3>2, <3>3 DEF TrueRcode
    <3> QED BY <3>1, <3>4 DEF x
  <2>2. ASSUME NEW v \in Viewers, view[v].behind < LeastRetention
        PROVE  /\ view[v].state # "INTERNAL"
               /\ view[v].state = "OK" => view[v].ns # {}
    BY <2>2 DEF QInv, Views, ViewExact
  <2> QED BY <2>1, <2>2 DEF ExactWithinRetention
<1> QED BY <1>1, ReadersInvariant, PTL
=============================================================================
