---------------------------- MODULE TransferKeys ----------------------------
(***************************************************************************)
(* The transfer keys of one zone: installation (which retires the key in   *)
(* force), revocation, the choice and check of a key when a transfer is    *)
(* authorized, and the signatures over the messages of its stream.         *)
(*                                                                         *)
(* Rows of table keys are never deleted and gen counts them, so the table  *)
(* is a sequence and a row's gen its place.  A secret is its key's gen: a  *)
(* MAC is right when both sides used the same one.                         *)
(***************************************************************************)
EXTENDS Integers, Sequences, FiniteSets

CONSTANTS
  KeyIds, KeyNames,
  Installers,    \* calls of the key API that install a key
  Lifetimes,     \* retireInSeconds, in milliseconds
  Conns,         \* TCP connections that ask for a transfer
  Second,        \* milliseconds in a second
  Skews,         \* seconds a client's clock may be off
  Fudge,         \* the fudge clients send (1 .. 300)
  MaxMessages,   \* bound: messages of a stream
  MaxNow         \* bound: the clock stops there

ASSUME KeysAssumption ==
  /\ Second \in Nat \ {0}
  /\ Lifetimes \subseteq Nat \ {0}
  /\ Fudge \in 1 .. 300
  /\ Skews \subseteq Int
  /\ MaxMessages \in Nat \ {0}
  /\ MaxNow \in Nat

VARIABLES
  keys,     \* table keys, by gen
  install,  \* what each installer has computed before its transaction
  conn,     \* the connection handlers
  now       \* now_ms()

vars == <<keys, install, conn, now>>

States == {"ACTIVE", "RETIRING", "REVOKED"}
Key(id, name) == [id |-> id, name |-> name, state |-> "ACTIVE", expires |-> 0]

NotStarted == [state |-> "IDLE"]
Waiting == [state |-> "IDLE", error |-> "NONE", key |-> 0, expires |-> 0,
            at |-> 0, messages |-> <<>>]

Init ==
  /\ keys = <<>>
  /\ install = [a \in Installers |-> NotStarted]
  /\ conn = [c \in Conns |-> Waiting]
  /\ now = 0

Tick ==
  /\ now < MaxNow
  /\ now' = now + 1
  /\ UNCHANGED <<keys, install, conn>>
-----------------------------------------------------------------------------
(* The key API *)

\* The expiry of the key to be retired is computed before the write lock is
\* waited for; retireInSeconds is at least 1, so it lies ahead.
InstallStart(a, id, name, lifetime) ==
  /\ install[a].state = "IDLE"
  /\ install' = [install EXCEPT ![a] =
       [state |-> "STARTED", id |-> id, name |-> name,
        expires |-> now + lifetime]]
  /\ UNCHANGED <<keys, conn, now>>

\* A defect: only the names of retiring keys are taken.
NameTakenByRetiring(name) ==
  \E g \in DOMAIN keys : keys[g].name = name /\ keys[g].state = "RETIRING"

NameTaken(name) ==
  \E g \in DOMAIN keys : keys[g].name = name /\ keys[g].state # "REVOKED"

\* A defect: all keys are retired, whatever their state.
AllRetired(expires) ==
  [g \in DOMAIN keys |-> [keys[g] EXCEPT !.state = "RETIRING", !.expires = expires]]

\* A defect: the key in force stays in force.
NothingRetired(expires) == keys

\* UPDATE keys SET state='RETIRING', expires_at=? WHERE state='ACTIVE'
Retired(expires) ==
  [g \in DOMAIN keys |->
     IF keys[g].state = "ACTIVE"
       THEN [keys[g] EXCEPT !.state = "RETIRING", !.expires = expires]
       ELSE keys[g]]

InstallCommits(a) ==
  LET k == install[a]
  IN  /\ k.state = "STARTED"
      /\ ~NameTaken(k.name)
      /\ \A g \in DOMAIN keys : keys[g].id # k.id
      /\ keys' = Append(Retired(k.expires), Key(k.id, k.name))
      /\ install' = [install EXCEPT ![a] = [state |-> "DONE"]]
      /\ UNCHANGED <<conn, now>>

\* KEY_STATE_INVALID, or the write lock is not had in time.
InstallFails(a) ==
  /\ install[a].state = "STARTED"
  /\ install' = [install EXCEPT ![a] = [state |-> "DONE"]]
  /\ UNCHANGED <<keys, conn, now>>

Revoke(g) ==
  /\ keys[g].state # "REVOKED"
  /\ keys' = [keys EXCEPT ![g].state = "REVOKED", ![g].expires = 0]
  /\ UNCHANGED <<install, conn, now>>
-----------------------------------------------------------------------------
(* authorize_transfer: _resolve_in_tx and the MAC *)

Live(name) ==
  {g \in DOMAIN keys : keys[g].name = name /\ keys[g].state # "REVOKED"}

\* utcnow() has whole seconds only; expires_at has milliseconds.
UtcNow == now \div Second

\* A defect: the current second is not brought to milliseconds.
UsableInSeconds(g) ==
  \/ keys[g].state = "ACTIVE"
  \/ UtcNow < keys[g].expires

Usable(g) ==
  \/ keys[g].state = "ACTIVE"
  \/ UtcNow * Second < keys[g].expires

\* max(usable, key=gen)
Newest(name) ==
  LET usable == {g \in Live(name) : Usable(g)}
  IN  CHOOSE g \in usable : \A h \in usable : h <= g

\* verify_tsig_time
TimeAccepted(time) ==
  LET ahead == time - UtcNow
  IN  ahead <= Fudge /\ -ahead <= Fudge

\* The TSIG error for a request that names "name", is signed at "time" with
\* the secret of generation g, and "NONE" if the transfer may start.
TsigError(name, g, time) ==
  IF Live(name) = {} THEN "BADKEY"
  ELSE IF ~TimeAccepted(time) THEN "BADTIME"
  ELSE IF \A h \in Live(name) : ~Usable(h) THEN "BADKEY"
  ELSE IF Newest(name) # g THEN "BADSIG" ELSE "NONE"

\* A client signs with a key it was given, under that key's name.
Deny(c, g, skew) ==
  LET error == TsigError(keys[g].name, g, UtcNow + skew)
  IN  /\ conn[c].state = "IDLE"
      /\ error # "NONE"
      /\ conn' = [conn EXCEPT ![c].state = "DENIED", ![c].error = error]
      /\ UNCHANGED <<keys, install, now>>

Accept(c, g, skew) ==
  /\ conn[c].state = "IDLE"
  /\ TsigError(keys[g].name, g, UtcNow + skew) = "NONE"
  /\ conn' = [conn EXCEPT ![c].state = "OPEN", ![c].key = g, ![c].at = now,
                          ![c].expires = keys[g].expires]
  /\ UNCHANGED <<keys, install, now>>
-----------------------------------------------------------------------------
(* _stream_signed_transfer.  A MAC is its secret and what it was computed  *)
(* over; the request is message 0.                                         *)

NoMac == [key |-> 0, over |-> <<>>]
RequestMac(c) == [key |-> conn[c].key, over |-> <<0>>]

\* sign_response: the prior MAC and the message itself.
Sign(c, prior, n) ==
  [key |-> conn[c].key, over |-> Append(prior.over, n)]

\* A defect: the last message is signed as if it were the first.
PriorIsRequest(c) == RequestMac(c)

\* The first message chains from the request, the last from the first.
PriorMac(c) ==
  IF conn[c].messages = <<>> THEN RequestMac(c) ELSE conn[c].messages[1].mac

\* A defect: every message is signed, over the first one.
SignedAlways(n, last) == TRUE

Signed(n, last) == n = 1 \/ last

SendMessage(c, last) ==
  LET n == Len(conn[c].messages) + 1
      signed == Signed(n, last)
  IN  /\ conn[c].state = "OPEN"
      /\ n < MaxMessages \/ last
      /\ conn' = [conn EXCEPT
           ![c].state = IF last THEN "SENT" ELSE "OPEN",
           ![c].messages = Append(@,
             [signed |-> signed,
              mac |-> IF signed THEN Sign(c, PriorMac(c), n) ELSE NoMac])]
      /\ UNCHANGED <<keys, install, now>>

Next ==
  \/ Tick
  \/ \E a \in Installers :
       \/ \E id \in KeyIds, name \in KeyNames, lifetime \in Lifetimes :
            InstallStart(a, id, name, lifetime)
       \/ InstallCommits(a)
       \/ InstallFails(a)
  \/ \E g \in DOMAIN keys : Revoke(g)
  \/ \E c \in Conns :
       \/ \E g \in DOMAIN keys, skew \in Skews :
            Deny(c, g, skew) \/ Accept(c, g, skew)
       \/ \E last \in BOOLEAN : SendMessage(c, last)

Spec == Init /\ [][Next]_vars
-----------------------------------------------------------------------------
(* Properties. *)

\* Whether the rules of the README let key g start a transfer now.
InForce(g) ==
  \/ keys[g].state = "ACTIVE"
  \/ keys[g].state = "RETIRING" /\ now < keys[g].expires

(***************************************************************************)
(* However installations race, at most one key is ACTIVE, and it is the    *)
(* newest one: rotation has retired all that came before it.               *)
(***************************************************************************)
NewestIsActive ==
  \A g \in DOMAIN keys : keys[g].state = "ACTIVE" => g = Len(keys)

(***************************************************************************)
(* A key that is in force works: a request signed with it, by a clock that *)
(* agrees, is resolved to it by its name and not to an older or newer key, *)
(* so secondaries may move to a new key at any time of the old one's grace.*)
(***************************************************************************)
KeysInForceWork ==
  \A g \in DOMAIN keys :
    InForce(g) => TsigError(keys[g].name, g, UtcNow) = "NONE"

(***************************************************************************)
(* A transfer starts at most one second after its key's expiry: the clock  *)
(* of the check drops the milliseconds of the current time.                *)
(***************************************************************************)
AcceptedWithinSecond ==
  \A c \in Conns :
    conn[c].state \in {"OPEN", "SENT"} /\ conn[c].expires # 0
      => conn[c].at < conn[c].expires + Second

(***************************************************************************)
(* The expiry of a retiring key is hard: nothing but revocation touches a  *)
(* key that is no longer ACTIVE, and nothing at all a revoked one.         *)
(***************************************************************************)
RetirementIsFinal ==
  [][ \A g \in DOMAIN keys :
        /\ keys[g].state = "RETIRING" =>
             keys'[g] = keys[g] \/ keys'[g].state = "REVOKED"
        /\ keys[g].state = "REVOKED" => keys'[g] = keys[g] ]_vars

\* Whether a MAC was computed over message i, or over a MAC that was.
Covers(mac, i) == \E k \in DOMAIN mac.over : mac.over[k] = i

(***************************************************************************)
(* sign_response: the running MAC that a message is signed over "already   *)
(* incorporates every message, signed or unsigned, that preceded this      *)
(* one", so that the signature at the end of a stream vouches for all of   *)
(* it.                                                                     *)
(***************************************************************************)
MacsCoverWhatPrecedes ==
  \A c \in Conns :
    LET m == conn[c].messages
    IN  \A n \in DOMAIN m :
          m[n].signed => \A i \in 1 .. n - 1 : Covers(m[n].mac, i)
=============================================================================
