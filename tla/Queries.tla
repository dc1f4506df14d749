------------------------------ MODULE Queries ------------------------------
(***************************************************************************)
(* Readers of the zone database that hold no transaction: the answer to a  *)
(* DNS question (answer_question and the UDP and TCP handlers around it)   *)
(* and the view of a zone in the management API (zone_metadata).  Each     *)
(* first reads the zone's row and then, in SELECTs of their own, rows of   *)
(* the version found there; publishes, changes of retention and cleanups   *)
(* may commit between any two of them.                                     *)
(***************************************************************************)
EXTENDS ZoneStore

CONSTANTS
  Askers,     \* DNS clients, each asks one question
  Viewers,    \* API clients, each looks at the zone once
  UdpRoom,    \* records that fit an answer of MAX_UDP_PAYLOAD octets
  TcpRoom     \* records that fit an answer of MAX_TCP_MESSAGE octets

ASSUME QueriesAssumption ==
  /\ UdpRoom \in Nat
  /\ TcpRoom \in Nat

VARIABLES
  question,  \* the handler of each asker's question
  view,      \* the handler of each viewer's request
  published  \* every version ever published; deleted ones are remembered

qvars == <<vars, question, view, published>>

NoReply == [rcode |-> "NONE", tc |-> FALSE, ancount |-> 0, rows |-> {}]
NotAsked == [state |-> "IDLE", transport |-> "UDP", name |-> Apex,
             type |-> "ANY", version |-> 0, reply |-> NoReply, behind |-> 0]
NotViewed == [state |-> "IDLE", version |-> 0, serial |-> 0, ns |-> {},
              behind |-> 0]

QInit ==
  /\ Init
  /\ question = [a \in Askers |-> NotAsked]
  /\ view = [v \in Viewers |-> NotViewed]
  /\ published = Empty
-----------------------------------------------------------------------------
(* answer_question *)

KeysAsked(x) == IF x.type = "ANY" THEN {x.name} \X Types
                                  ELSE {<<x.name, x.type>>}

\* SELECT ... FROM records WHERE version_id = v, for the given keys.
Selected(keys, v) ==
  IF v \in DOMAIN records THEN UNION {{k} \X records[v][k] : k \in keys} ELSE {}

\* make_simple_response.  All records of an answer are handed over as one
\* string of octets, which counts as one record in the header.
Reply(rcode, rows) ==
  [rcode |-> rcode, tc |-> FALSE, ancount |-> IF rows = {} THEN 0 ELSE 1,
   rows |-> rows]

\* An answer that is too long is truncated on UDP, a failure on TCP.
Fitted(transport, reply) ==
  IF transport = "UDP" /\ Cardinality(reply.rows) > UdpRoom
    THEN [NoReply EXCEPT !.rcode = reply.rcode, !.tc = TRUE]
  ELSE IF transport = "TCP" /\ Cardinality(reply.rows) > TcpRoom
    THEN [NoReply EXCEPT !.rcode = "SERVFAIL"]
  ELSE reply

Respond(a, reply) ==
  question' = [question EXCEPT
    ![a].state = "DONE",
    ![a].reply = Fitted(question[a].transport, reply),
    ![a].behind = zone.version - question[a].version]

\* find_zone_by_name; there is one zone, and all names are in it.
LookUp(a, transport, name, type) ==
  /\ question[a].state = "IDLE"
  /\ question' = [question EXCEPT ![a] =
       [NotAsked EXCEPT
          !.transport = transport, !.name = name, !.type = type,
          !.version = zone.version,
          !.state = IF zone.created THEN "LOOKED_UP" ELSE "DONE",
          !.reply = IF zone.created THEN NoReply ELSE Reply("REFUSED", {})]]
  /\ UNCHANGED <<vars, view, published>>

\* A type the server does not know is refused before any row is read.
AskUnknownType(a) ==
  /\ question[a].state = "LOOKED_UP"
  /\ Respond(a, Reply("NOTIMP", {}))
  /\ UNCHANGED <<vars, view, published>>

SelectRows(a) ==
  LET x == question[a]
      rows == Selected(KeysAsked(x), x.version)
  IN  /\ x.state = "LOOKED_UP"
      /\ IF rows = {} THEN question' = [question EXCEPT ![a].state = "EMPTY"]
                      ELSE Respond(a, Reply("NOERROR", rows))
      /\ UNCHANGED <<vars, view, published>>

\* A defect: whether the name exists is looked up in the newest version.
NameExistsNow(x) == Selected({x.name} \X Types, zone.version) # {}

\* SELECT 1 FROM records WHERE name = ... LIMIT 1
NameExists(x) == Selected({x.name} \X Types, x.version) # {}

SelectExists(a) ==
  /\ question[a].state = "EMPTY"
  /\ Respond(a, Reply(IF NameExists(question[a]) THEN "NOERROR"
                                                 ELSE "NXDOMAIN", {}))
  /\ UNCHANGED <<vars, view, published>>

\* A SELECT fails: both handlers catch the exception.
ReadFails(a) ==
  /\ question[a].state \in {"IDLE", "LOOKED_UP", "EMPTY"}
  /\ Respond(a, Reply("SERVFAIL", {}))
  /\ UNCHANGED <<vars, view, published>>
-----------------------------------------------------------------------------
(* zone_metadata *)

\* get_zone_row
ViewZone(v) ==
  /\ view[v].state = "IDLE"
  /\ view' = [view EXCEPT ![v] =
       [NotViewed EXCEPT
          !.state = IF zone.created THEN "FOUND" ELSE "NOT_FOUND",
          !.version = zone.version, !.serial = zone.serial]]
  /\ UNCHANGED <<vars, question, published>>

\* get_soa; without a row, "SOA missing in snapshot".
ViewSoa(v) ==
  /\ view[v].state = "FOUND"
  /\ view' = [view EXCEPT
       ![v].state = IF Selected({SOAKey}, view[v].version) = {}
                      THEN "INTERNAL" ELSE "SOA_READ",
       ![v].behind = zone.version - view[v].version]
  /\ UNCHANGED <<vars, question, published>>

NsOf(x) == {row[2] : row \in Selected({NSKey}, x.version)}

ViewNs(v) ==
  /\ view[v].state = "SOA_READ"
  /\ view' = [view EXCEPT ![v].state = "OK", ![v].ns = NsOf(view[v]),
                          ![v].behind = zone.version - view[v].version]
  /\ UNCHANGED <<vars, question, published>>
-----------------------------------------------------------------------------
QuestionStep(a) ==
  \/ \E transport \in {"UDP", "TCP"}, name \in Names, type \in Types \union {"ANY"} :
       LookUp(a, transport, name, type)
  \/ AskUnknownType(a) \/ SelectRows(a) \/ SelectExists(a) \/ ReadFails(a)

ViewStep(v) == ViewZone(v) \/ ViewSoa(v) \/ ViewNs(v)

\* The steps of ZoneStore, with a record of what was published.
WriterStep ==
  /\ Next
  /\ published' = IF zone'.created
                    THEN Insert(published, zone'.version, records'[zone'.version])
                    ELSE published
  /\ UNCHANGED <<question, view>>

QNext ==
  \/ WriterStep
  \/ \E a \in Askers : QuestionStep(a)
  \/ \E v \in Viewers : ViewStep(v)

QSpec == QInit /\ [][QNext]_qvars
-----------------------------------------------------------------------------
(* Properties. *)

\* What the version that was looked up has to say to a question.
RowsIn(keys, v) == UNION {{k} \X published[v][k] : k \in keys}
TrueRcode(x) ==
  IF RowsIn({x.name} \X Types, x.version) = {} THEN "NXDOMAIN" ELSE "NOERROR"

Answered(x) ==
  x.state = "DONE" /\ x.reply.rcode \in {"NOERROR", "NXDOMAIN"} /\ ~x.reply.tc

(***************************************************************************)
(* Whatever is published or cleaned up between the SELECTs of a question   *)
(* or a view, an answer that is not negative is that of the one version    *)
(* that was current when the question came in: all of its records, and an  *)
(* empty NOERROR only for a name that is there without the type.           *)
(***************************************************************************)
PositiveAnswersExact ==
  /\ \A a \in Askers :
       LET x == question[a]
       IN  Answered(x) /\ x.reply.rcode = "NOERROR" =>
             /\ TrueRcode(x) = "NOERROR"
             /\ x.reply.rows = RowsIn(KeysAsked(x), x.version)
  /\ \A v \in Viewers :
       view[v].state = "OK" /\ view[v].ns # {} =>
         /\ published[view[v].version][SOAKey] = {view[v].serial}
         /\ published[view[v].version][NSKey] = view[v].ns

(***************************************************************************)
(* A negative answer, a view without name servers or an INTERNAL error is  *)
(* wrong only when at least as many versions as the smallest retention in  *)
(* use were published during the question: retention shields readers that  *)
(* hold no pin for that long.                                              *)
(***************************************************************************)
LeastRetention ==
  CHOOSE k \in Retentions \union {c.retain : c \in Creations} :
    \A j \in Retentions \union {c.retain : c \in Creations} : k <= j

ExactWithinRetention ==
  /\ \A a \in Askers :
       LET x == question[a]
       IN  Answered(x) /\ x.behind < LeastRetention =>
             x.reply.rcode = TrueRcode(x)
  /\ \A v \in Viewers :
       view[v].behind < LeastRetention =>
         /\ view[v].state # "INTERNAL"
         /\ view[v].state = "OK" => view[v].ns # {}

(***************************************************************************)
(* README: SOA is answered over UDP and TCP, with authority.  An asker is  *)
(* never told that the apex of a zone that is there does not exist.        *)
(***************************************************************************)
SoaIsAnswered ==
  \A a \in Askers :
    LET x == question[a]
    IN  Answered(x) /\ <<x.name, x.type>> = SOAKey => x.reply.rows # {}

(***************************************************************************)
(* README: NS, A and the other types are answered like SOA.  A client      *)
(* reads as many records as the header counts, so that it gets the RRset.  *)
(***************************************************************************)
AllRecordsCounted ==
  \A a \in Askers :
    Answered(question[a]) =>
      question[a].reply.ancount = Cardinality(question[a].reply.rows)
=============================================================================
