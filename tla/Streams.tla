------------------------------ MODULE Streams ------------------------------
(***************************************************************************)
(* The messages of a transfer, between the rows its cursor yields and the  *)
(* verdict of the secondary: the greedy packing (_rr_batches), the         *)
(* one-message lookahead that signs the first and the last                 *)
(* (_stream_signed_transfer), the connection, and the client of            *)
(* dnsclient.py with the checks of verify.py.                              *)
(*                                                                         *)
(* Every step of TransferKeys goes on around it, and sending is its        *)
(* SendMessage, so a behaviour of this module is one of TransferKeys.      *)
(* The connection delivers what it delivers in order, but may end at any   *)
(* octet.                                                                  *)
(***************************************************************************)
EXTENDS TransferKeys

CONSTANTS
  RowStreams,  \* what cursors may yield: [mode |-> , ends |-> ]; ends[k] is
               \* the number of octets of the first k rows
  Header,      \* octets of the header and the question
  Budget,      \* _transfer_budget(), 65000 unless it is configured lower
  TsigSpace,   \* octets the packing leaves free for the TSIG record, 400
  TsigSize,    \* octets it takes
  MaxRow,      \* the longest row that rr_fits_message lets in
  MaxFrame,    \* what the two octets of a frame's length can say, 65535
  Window       \* frames the socket buffers hold

SizeOf(ends, k) == ends[k] - (IF k = 1 THEN 0 ELSE ends[k - 1])

RowStreamOK(s) ==
  /\ s.mode \in {"AXFR", "IXFR"}
  /\ s.ends \in Seq(Nat) \ {<<>>}
  /\ \A k \in DOMAIN s.ends : SizeOf(s.ends, k) \in 0 .. MaxRow

ASSUME StreamAssumption ==
  /\ {Header, Budget, TsigSpace, TsigSize, MaxRow, MaxFrame} \subseteq Nat
  /\ TsigSize <= TsigSpace /\ Budget <= MaxFrame
  /\ Header + MaxRow + TsigSize <= MaxFrame
  /\ Window \in Nat \ {0}
  /\ \A s \in RowStreams : RowStreamOK(s)

VARIABLE stream  \* per connection: the handler's locals, the socket, the client

svars == <<vars, stream>>

NoRows == [lo |-> 0, hi |-> 0]
NotOpen == [state |-> "NONE", mode |-> "AXFR", ends |-> <<0>>, taken |-> 0,
            pending |-> NoRows, wire |-> <<>>, got |-> 0, client |-> "READING"]

SInit ==
  /\ Init
  /\ stream = [c \in Conns |-> NotOpen]

\* authorize_transfer, and the cursor over the snapshot.
Begin(c, g, skew) ==
  /\ Accept(c, g, skew)
  /\ \E s \in RowStreams :
       stream' = [stream EXCEPT ![c] =
         [NotOpen EXCEPT !.state = "OPEN", !.mode = s.mode, !.ends = s.ends]]
-----------------------------------------------------------------------------
(* Packing and sending.  x is a stream. *)

\* Octets of the message with rows lo .. hi, before it is signed.
Length(x, lo, hi) == Header + x.ends[hi] - x.ends[lo] + SizeOf(x.ends, lo)

\* A defect: no room is left for the TSIG record.
WholeBudget == Budget

Room == Budget - TsigSpace

Fits(x, lo, hi) == lo = hi \/ Length(x, lo, hi) <= Room

\* The rows of the next message: all up to the first that does not fit.
Greedy(x) ==
  LET lo == x.taken + 1
  IN  [lo |-> lo,
       hi |-> CHOOSE h \in lo .. Len(x.ends) :
                /\ \A k \in lo .. h : Fits(x, lo, k)
                /\ h = Len(x.ends) \/ ~Fits(x, lo, h + 1)]

\* A defect: the rows of the message before stay in the batch.
BatchNotEmptied(x) == [Greedy(x) EXCEPT !.lo = 1]

Batch(x) == Greedy(x)

Frame(x, signed) ==
  [kind |-> "DATA", lo |-> x.pending.lo, hi |-> x.pending.hi,
   octets |-> Length(x, x.pending.lo, x.pending.hi)
                + (IF signed THEN TsigSize ELSE 0)]

HasRoom(x) == Len(x.wire) - x.got < Window

\* send_indexed for the pending message.
Send(c, last) ==
  /\ HasRoom(stream[c])
  /\ SendMessage(c, last)

\* _rr_batches yields a message; the one before it was not the last.
Produce(c) ==
  LET x == stream[c]
      next == [x EXCEPT !.pending = Batch(x), !.taken = Batch(x).hi]
  IN  /\ x.state = "OPEN"
      /\ x.taken < Len(x.ends)
      /\ IF x.pending = NoRows
           THEN stream' = [stream EXCEPT ![c] = next] /\ UNCHANGED vars
           ELSE /\ Send(c, FALSE)
                /\ stream' = [stream EXCEPT ![c] =
                     [next EXCEPT !.wire = Append(@, Frame(x, x.wire = <<>>))]]

\* The rows are exhausted: the pending message is the last.
SendLast(c) ==
  LET x == stream[c]
  IN  /\ x.state = "OPEN"
      /\ x.taken = Len(x.ends)
      /\ Send(c, TRUE)
      /\ stream' = [stream EXCEPT ![c].state = "CLOSED",
                                  ![c].wire = Append(@, Frame(x, TRUE))]

\* A defect: the socket has no timeout.
BlocksForever(c) == FALSE

\* sendall blocks for XFER_IDLE_TIMEOUT.
IdleOut(c) ==
  /\ stream[c].state = "OPEN"
  /\ ~HasRoom(stream[c])
  /\ stream' = [stream EXCEPT ![c].state = "CLOSED"]
  /\ UNCHANGED vars

\* The handler's exceptions: an OSError closes the connection at once; any
\* other (a query of the snapshot fails) appends a header with SERVFAIL.
Servfail == [kind |-> "SERVFAIL", lo |-> 0, hi |-> 0, octets |-> Header]

Break(c) ==
  /\ stream[c].state = "OPEN"
  /\ \/ stream' = [stream EXCEPT ![c].state = "CLOSED"]
     \/ HasRoom(stream[c])
        /\ stream' = [stream EXCEPT ![c].state = "CLOSED",
                                    ![c].wire = Append(@, Servfail)]
  /\ UNCHANGED vars
-----------------------------------------------------------------------------
(* The client: tcp_transfer, then verify_tsig_chain and the checks of an   *)
(* AXFR's first and last record.                                           *)

ReadFrame(c) ==
  /\ stream[c].client = "READING"
  /\ stream[c].got < Len(stream[c].wire)
  /\ stream' = [stream EXCEPT ![c].got = @ + 1]
  /\ UNCHANGED vars

\* Frames 1 .. n are taken for the whole transfer.
ChainAccepted(c, n) ==
  LET m == conn[c].messages
  IN  /\ \A i \in 1 .. n : stream[c].wire[i].kind = "DATA"
      /\ m[1].mac = Sign(c, RequestMac(c), 1)
      /\ n > 1 => m[n].mac = Sign(c, m[1].mac, n)
      /\ \A i \in 2 .. n - 1 : ~m[i].signed

\* Rows 1 and Len(ends) of an AXFR are the SOA.
EndsLikeAnAXFR(x, n) == x.wire[n].hi \in {1, Len(x.ends)}

\* The connection ends for the client: at the server's end of file, at a
\* reset or at its timeout.
ReadEnd(c) ==
  LET x == stream[c]
  IN  /\ x.client = "READING" /\ x.state # "NONE"
      /\ stream' = [stream EXCEPT ![c].client =
           IF /\ x.got > 0
              /\ ChainAccepted(c, x.got)
              /\ x.mode = "AXFR" => EndsLikeAnAXFR(x, x.got)
             THEN "ACCEPTED" ELSE "REJECTED"]
      /\ UNCHANGED vars

\* It ends within a frame, which then does not parse.
ReadPart(c) ==
  /\ stream[c].client = "READING"
  /\ stream[c].got < Len(stream[c].wire)
  /\ stream' = [stream EXCEPT ![c].client = "REJECTED"]
  /\ UNCHANGED vars
-----------------------------------------------------------------------------
\* The steps of TransferKeys outside streams.
KeyStep ==
  \/ Tick
  \/ \E a \in Installers :
       \/ \E id \in KeyIds, name \in KeyNames, lifetime \in Lifetimes :
            InstallStart(a, id, name, lifetime)
       \/ InstallCommits(a)
       \/ InstallFails(a)
  \/ \E g \in DOMAIN keys : Revoke(g)
  \/ \E c \in Conns, g \in DOMAIN keys, skew \in Skews : Deny(c, g, skew)

Serve(c) == Produce(c) \/ SendLast(c) \/ IdleOut(c)

SNext ==
  \/ KeyStep /\ UNCHANGED stream
  \/ \E c \in Conns :
       \/ \E g \in DOMAIN keys, skew \in Skews : Begin(c, g, skew)
       \/ Serve(c) \/ Break(c)
       \/ ReadFrame(c) \/ ReadEnd(c) \/ ReadPart(c)

SSpec == SInit /\ [][SNext]_svars

\* The handler's thread runs; its client need not do anything.
SFairness == \A c \in Conns : WF_svars(Serve(c))
SFairSpec == SSpec /\ SFairness
-----------------------------------------------------------------------------
(* Properties. *)

(***************************************************************************)
(* Whatever the sizes of the rows, the length of every message, signature  *)
(* included, can be written in a frame.  A longer one would raise in       *)
(* _frame, in the middle of a stream whose first messages are out.         *)
(***************************************************************************)
FramesFit ==
  \A c \in Conns : \A i \in DOMAIN stream[c].wire :
    stream[c].wire[i].octets <= MaxFrame

\* Frames 1 .. n hold rows 1 .. k in their order, none of them twice.
HoldsRows(wire, n, k) ==
  /\ n > 0 => wire[1].lo = 1 /\ wire[n].hi = k
  /\ \A i \in 1 .. n : wire[i].lo <= wire[i].hi
  /\ \A i \in 1 .. n - 1 : wire[i + 1].lo = wire[i].hi + 1

(***************************************************************************)
(* Packing and lookahead lose, repeat and reorder nothing: a stream that   *)
(* was sent to its end holds every row of the cursor, in its order, and no *)
(* message is empty.                                                       *)
(***************************************************************************)
SentIsWhole ==
  \A c \in Conns :
    LET x == stream[c]
    IN  conn[c].state = "SENT" => HoldsRows(x.wire, Len(x.wire), Len(x.ends))

(***************************************************************************)
(* A client never takes part of a stream for all of it, though it knows    *)
(* neither its length nor the middle messages' authenticity: only the last *)
(* message is signed over the first, and middle messages must not be       *)
(* signed.  The exception is a stream that ends after its first message,   *)
(* which nothing tells from a stream of one message; of an AXFR that       *)
(* message must then hold the opening SOA and nothing else.                *)
(***************************************************************************)
AcceptedIsWhole ==
  \A c \in Conns :
    LET x == stream[c]
    IN  x.client = "ACCEPTED" =>
          \/ HoldsRows(x.wire, x.got, Len(x.ends))
          \/ x.got = 1 /\ (x.mode = "AXFR" => x.wire[1].hi = 1)

(***************************************************************************)
(* And it takes every stream that was sent to its end and arrived: signer  *)
(* and verifier agree on which of one, two or more messages are signed and *)
(* what each MAC goes over, whatever happens to the keys meanwhile, and    *)
(* the rows of an AXFR end at a message's end as its client expects.       *)
(***************************************************************************)
WholeIsAccepted ==
  \A c \in Conns :
    LET x == stream[c]
    IN  conn[c].state = "SENT" /\ x.got = Len(x.wire)
          => x.client \in {"READING", "ACCEPTED"}

(***************************************************************************)
(* A transfer that was authorized comes to an end, even if its secondary   *)
(* stops reading and says nothing: handler, snapshot and pin are released. *)
(***************************************************************************)
TransferEnds ==
  \A c \in Conns : stream[c].state = "OPEN" ~> stream[c].state = "CLOSED"
=============================================================================
