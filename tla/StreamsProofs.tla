--------------------------- MODULE StreamsProofs ---------------------------
(***************************************************************************)
(* What TransferKeys promises for any number of installers, connections    *)
(* and keys: one key in force, expiries that are hard, transfers that      *)
(* start no later than a second after them, and chains that verify.  Then  *)
(* Streams implements TransferKeys, so that all this holds of it; and for  *)
(* rows of any sizes, whatever the limits of the code are set to: frames   *)
(* fit, nothing is lost, and part of a stream is not taken for all of it.  *)
(***************************************************************************)
EXTENDS Streams, TLAPS, SequenceTheorems, WellFoundedInduction


KeyRow == [id : KeyIds, name : KeyNames, state : States, expires : Nat]

\* An installer that has started knows its key and an expiry.
InstallTyped ==
  /\ DOMAIN install = Installers
  /\ \A a \in Installers :
       install[a].state = "STARTED" =>
         /\ install[a].id \in KeyIds
         /\ install[a].name \in KeyNames
         /\ install[a].expires \in Nat

\* The part of the state that keys are chosen from.  Only a key that was
\* retired has an expiry.
Table ==
  /\ keys \in Seq(KeyRow)
  /\ now \in Nat
  /\ InstallTyped
  /\ NewestIsActive
  /\ \A g \in DOMAIN keys : keys[g].state = "ACTIVE" => keys[g].expires = 0

\* How a step can treat table keys.
LEMMA KeysCases ==
  ASSUME [Next]_vars
  PROVE  \/ \E a \in Installers : InstallCommits(a)
         \/ \E g \in DOMAIN keys : Revoke(g)
         \/ keys' = keys
<1>1. ASSUME Tick \/ UNCHANGED vars PROVE keys' = keys
  BY <1>1 DEF Tick, vars
<1>2. ASSUME NEW a \in Installers,
             \/ \E id \in KeyIds, name \in KeyNames, lifetime \in Lifetimes :
                  InstallStart(a, id, name, lifetime)
             \/ InstallFails(a)
      PROVE  keys' = keys
  BY <1>2 DEF InstallStart, InstallFails
<1>3. ASSUME NEW c \in Conns,
             \/ \E g \in DOMAIN keys, skew \in Skews :
                  Deny(c, g, skew) \/ Accept(c, g, skew)
             \/ \E last \in BOOLEAN : SendMessage(c, last)
      PROVE  keys' = keys
  BY <1>3 DEF Deny, Accept, SendMessage
<1> QED BY <1>1, <1>2, <1>3 DEF Next

LEMMA RetiredRows ==
  ASSUME keys \in Seq(KeyRow), NEW expires \in Nat
  PROVE  /\ Retired(expires) \in Seq(KeyRow)
         /\ Len(Retired(expires)) = Len(keys)
         /\ \A g \in DOMAIN keys :
              /\ keys[g].state = "ACTIVE" => Retired(expires)[g].state = "RETIRING"
              /\ keys[g].state # "ACTIVE" => Retired(expires)[g] = keys[g]
              /\ Retired(expires)[g].name = keys[g].name
<1> DEFINE r == Retired(expires)
<1>1. DOMAIN r = 1 .. Len(keys) /\ DOMAIN keys = 1 .. Len(keys) /\ Len(keys) \in Nat
  BY DEF Retired
<1>2. ASSUME NEW g \in DOMAIN keys
      PROVE  /\ r[g] \in KeyRow
             /\ keys[g].state = "ACTIVE" => r[g].state = "RETIRING"
             /\ keys[g].state # "ACTIVE" => r[g] = keys[g]
             /\ r[g].name = keys[g].name
  <2>1. keys[g] \in KeyRow
    BY <1>1, ElementOfSeq
  <2>2. CASE keys[g].state = "ACTIVE"
    <3>1. r[g] = [keys[g] EXCEPT !.state = "RETIRING", !.expires = expires]
      BY <2>2 DEF Retired
    <3> QED BY <3>1, <2>1, <2>2 DEF KeyRow, States
  <2>3. CASE keys[g].state # "ACTIVE"
    BY <2>1, <2>3 DEF Retired
  <2> QED BY <2>2, <2>3
<1>3. r = [g \in 1 .. Len(keys) |-> r[g]]
  BY <1>1 DEF Retired
<1> HIDE DEF r
<1>4. r \in Seq(KeyRow)
  BY <1>1, <1>2, <1>3, IsASeq
<1>5. Len(r) = Len(keys)
  BY <1>1, <1>4, LenProperties
<1> QED BY <1>2, <1>4, <1>5 DEF r

\* An installation appends the one ACTIVE key and retires the one before it.
LEMMA InstallEffect ==
  ASSUME Table, NEW a \in Installers, InstallCommits(a)
  PROVE  /\ keys' \in Seq(KeyRow)
         /\ Len(keys') = Len(keys) + 1
         /\ keys'[Len(keys) + 1].state = "ACTIVE"
         /\ keys'[Len(keys) + 1].expires = 0
         /\ keys'[Len(keys) + 1].name = install[a].name
         /\ \A g \in DOMAIN keys :
              /\ keys'[g].state # "ACTIVE"
              /\ keys[g].state # "ACTIVE" => keys'[g] = keys[g]
              /\ keys'[g].name = keys[g].name
<1> DEFINE k == install[a]
           new == Key(k.id, k.name)
           r == Retired(k.expires)
<1>1. k.id \in KeyIds /\ k.name \in KeyNames /\ k.expires \in Nat
  BY DEF Table, InstallTyped, InstallCommits
<1>2. new \in KeyRow /\ new.state = "ACTIVE" /\ new.expires = 0
      /\ new.name = install[a].name
  BY <1>1 DEF Key, KeyRow, States
<1>3. keys' = Append(r, new)
  BY DEF InstallCommits
<1>4. /\ r \in Seq(KeyRow)
      /\ Len(r) = Len(keys)
      /\ \A g \in DOMAIN keys :
           /\ keys[g].state = "ACTIVE" => r[g].state = "RETIRING"
           /\ keys[g].state # "ACTIVE" => r[g] = keys[g]
           /\ r[g].name = keys[g].name
  BY <1>1, RetiredRows DEF Table
<1> HIDE DEF new, r, k
<1>5. /\ keys' \in Seq(KeyRow)
      /\ Len(keys') = Len(keys) + 1
      /\ keys'[Len(keys) + 1] = new
      /\ \A g \in 1 .. Len(keys) : keys'[g] = r[g]
  BY <1>2, <1>3, <1>4, AppendProperties
<1>6. DOMAIN keys = 1 .. Len(keys)
  BY DEF Table
<1> QED BY <1>2, <1>4, <1>5, <1>6

LEMMA RevokeEffect ==
  ASSUME Table, NEW g \in DOMAIN keys, Revoke(g)
  PROVE  /\ keys' \in Seq(KeyRow)
         /\ Len(keys') = Len(keys)
         /\ keys'[g].state = "REVOKED"
         /\ \A h \in DOMAIN keys : h # g => keys'[h] = keys[h]
<1>1. keys[g] \in KeyRow /\ g \in 1 .. Len(keys) /\ DOMAIN keys = 1 .. Len(keys)
  BY ElementOfSeq DEF Table
<1>2. PICK new : new = [keys[g] EXCEPT !.state = "REVOKED", !.expires = 0]
  OBVIOUS
<1>3. new \in KeyRow /\ new.state = "REVOKED"
  BY <1>1, <1>2 DEF KeyRow, States
<1>4. keys' = [keys EXCEPT ![g] = new]
  BY <1>1, <1>2 DEF Revoke
<1> QED BY <1>1, <1>3, <1>4, ExceptSeq DEF Table

LEMMA InstallTypedStep ==
  ASSUME InstallTyped, now \in Nat, [Next]_vars
  PROVE  InstallTyped' /\ now' \in Nat
<1> USE DEF InstallTyped
<1>1. ASSUME NEW a \in Installers, NEW id \in KeyIds, NEW name \in KeyNames,
             NEW lifetime \in Lifetimes, InstallStart(a, id, name, lifetime)
      PROVE  InstallTyped' /\ now' \in Nat
  BY <1>1, KeysAssumption DEF InstallStart
<1>2. ASSUME NEW a \in Installers, InstallCommits(a) \/ InstallFails(a)
      PROVE  InstallTyped' /\ now' \in Nat
  BY <1>2 DEF InstallCommits, InstallFails
<1>3. CASE UNCHANGED install /\ now' \in Nat
  BY <1>3
<1>4. CASE Tick
  BY <1>3, <1>4 DEF Tick
<1>5. ASSUME NEW g \in DOMAIN keys, Revoke(g) PROVE InstallTyped' /\ now' \in Nat
  BY <1>3, <1>5 DEF Revoke
<1>6. ASSUME NEW c \in Conns, \/ \E g \in DOMAIN keys, skew \in Skews :
                                    Deny(c, g, skew) \/ Accept(c, g, skew)
                              \/ \E last \in BOOLEAN : SendMessage(c, last)
      PROVE  InstallTyped' /\ now' \in Nat
  BY <1>3, <1>6 DEF Deny, Accept, SendMessage
<1> QED BY <1>1, <1>2, <1>3, <1>4, <1>5, <1>6 DEF Next, vars

LEMMA TableInit == Init => Table
BY DEF Init, Table, InstallTyped, NotStarted, NewestIsActive

LEMMA TableStep == Table /\ [Next]_vars => Table'
<1> SUFFICES ASSUME Table, [Next]_vars PROVE Table'
  OBVIOUS
<1>1. InstallTyped' /\ now' \in Nat
  BY InstallTypedStep DEF Table
<1>2. DOMAIN keys = 1 .. Len(keys) /\ Len(keys) \in Nat
  BY DEF Table
<1>3. ASSUME NEW a \in Installers, InstallCommits(a) PROVE Table'
  <2>1. DOMAIN keys' = 1 .. (Len(keys) + 1)
    BY <1>3, InstallEffect
  <2> QED BY <1>1, <1>2, <1>3, <2>1, InstallEffect DEF Table, NewestIsActive
<1>4. ASSUME NEW g \in DOMAIN keys, Revoke(g) PROVE Table'
  <2>1. DOMAIN keys' = 1 .. Len(keys)
    BY <1>4, RevokeEffect
  <2> QED BY <1>1, <1>2, <1>4, <2>1, RevokeEffect DEF Table, NewestIsActive
<1>5. CASE keys' = keys
  BY <1>1, <1>5 DEF Table, NewestIsActive
<1> QED BY <1>3, <1>4, <1>5, KeysCases

LEMMA TableInvariant == Spec => []Table
BY TableInit, TableStep, PTL DEF Spec

(***************************************************************************)
(* Installation retires whatever was in force, in the transaction that     *)
(* adds the new key, so that two ACTIVE keys cannot be.                    *)
(***************************************************************************)
THEOREM NewestKeyIsActive == Spec => []NewestIsActive
<1>1. Table => NewestIsActive
  BY DEF Table
<1> QED BY <1>1, TableInvariant, PTL

\* A name stands for one key at a time, until that one is revoked.
NamesUnique ==
  \A g, h \in DOMAIN keys :
    /\ keys[g].state # "REVOKED" /\ keys[h].state # "REVOKED"
    /\ keys[g].name = keys[h].name
    => g = h

LEMMA NamesUniqueStep == Table /\ NamesUnique /\ [Next]_vars => NamesUnique'
<1> SUFFICES ASSUME Table, NamesUnique, [Next]_vars PROVE NamesUnique'
  OBVIOUS
<1>1. DOMAIN keys = 1 .. Len(keys) /\ Len(keys) \in Nat
  BY DEF Table
<1>2. ASSUME NEW a \in Installers, InstallCommits(a) PROVE NamesUnique'
  <2>1. DOMAIN keys' = 1 .. (Len(keys) + 1)
    BY <1>2, InstallEffect
  <2>2. \A g \in DOMAIN keys :
          keys[g].state # "REVOKED" => keys[g].name # install[a].name
    BY <1>2 DEF InstallCommits, NameTaken
  <2>3. \A g \in DOMAIN keys : keys'[g].state # "REVOKED" => keys[g].state # "REVOKED"
    BY <1>2, InstallEffect
  <2> QED BY <1>1, <1>2, <2>1, <2>2, <2>3, InstallEffect DEF NamesUnique
<1>3. ASSUME NEW g \in DOMAIN keys, Revoke(g) PROVE NamesUnique'
  <2>1. DOMAIN keys' = 1 .. Len(keys)
    BY <1>3, RevokeEffect
  <2> QED BY <1>1, <1>3, <2>1, RevokeEffect DEF NamesUnique
<1>4. CASE keys' = keys
  BY <1>4 DEF NamesUnique
<1> QED BY <1>2, <1>3, <1>4, KeysCases

LEMMA NamesUniqueInvariant == Spec => []NamesUnique
<1>1. Init => NamesUnique
  BY DEF Init, NamesUnique
<1> QED BY <1>1, NamesUniqueStep, TableInvariant, PTL DEF Spec

(***************************************************************************)
(* A key in force is the only one its name can resolve to, and the clock   *)
(* of the check, which runs up to a second behind, still finds it usable.  *)
(***************************************************************************)
THEOREM KeysInForceAlwaysWork == Spec => []KeysInForceWork
<1>1. Table /\ NamesUnique => KeysInForceWork
  <2> SUFFICES ASSUME Table, NamesUnique, NEW g \in DOMAIN keys, InForce(g)
               PROVE  TsigError(keys[g].name, g, UtcNow) = "NONE"
    BY DEF KeysInForceWork
  <2>1. keys[g].state # "REVOKED"
    BY DEF InForce
  <2>2. Live(keys[g].name) = {g}
    BY <2>1 DEF Live, NamesUnique
  <2>3. UtcNow \in Int /\ UtcNow * Second <= now
    BY KeysAssumption, Z3 DEF UtcNow, Table
  <2>4. TimeAccepted(UtcNow)
    BY <2>3, KeysAssumption DEF TimeAccepted
  <2>5. Usable(g)
    <3>1. CASE keys[g].state = "ACTIVE"
      BY <3>1 DEF Usable
    <3>2. CASE keys[g].state = "RETIRING" /\ now < keys[g].expires
      <4>1. keys[g] \in KeyRow
        BY ElementOfSeq DEF Table
      <4>2. keys[g].expires \in Nat /\ now \in Nat
        BY <4>1 DEF KeyRow, Table
      <4>3. UtcNow * Second \in Int
        BY <2>3, KeysAssumption
      <4>4. UtcNow * Second < keys[g].expires
        BY <2>3, <3>2, <4>2, <4>3
      <4> QED BY <4>4 DEF Usable
    <3> QED BY <3>1, <3>2 DEF InForce
  <2>6. Newest(keys[g].name) = g
    <3>1. {h \in Live(keys[g].name) : Usable(h)} = {g}
      BY <2>2, <2>5
    <3>2. g <= g
      BY DEF Table
    <3> QED BY <3>1, <3>2 DEF Newest
  <2> QED BY <2>2, <2>4, <2>5, <2>6 DEF TsigError
<1> QED BY <1>1, TableInvariant, NamesUniqueInvariant, PTL

\* One step's part of RetirementIsFinal.
OldKeysStay ==
  \A g \in DOMAIN keys :
    /\ keys[g].state = "RETIRING" => keys'[g] = keys[g] \/ keys'[g].state = "REVOKED"
    /\ keys[g].state = "REVOKED" => keys'[g] = keys[g]

(***************************************************************************)
(* A later installation does not move the expiry of a key that is retiring *)
(* already, and no step brings a key back.                                 *)
(***************************************************************************)
THEOREM RetirementStands == Spec => RetirementIsFinal
<1>1. ASSUME Table, [Next]_vars PROVE OldKeysStay
  <2>1. ASSUME NEW a \in Installers, InstallCommits(a) PROVE OldKeysStay
    BY <1>1, <2>1, InstallEffect DEF OldKeysStay
  <2>2. ASSUME NEW g \in DOMAIN keys, Revoke(g) PROVE OldKeysStay
    <3>1. keys[g].state # "REVOKED"
      BY <2>2 DEF Revoke
    <3> QED BY <1>1, <2>2, <3>1, RevokeEffect DEF OldKeysStay
  <2>3. CASE keys' = keys
    BY <2>3 DEF OldKeysStay
  <2> QED BY <1>1, <2>1, <2>2, <2>3, KeysCases
<1> QED BY <1>1, TableInvariant, PTL DEF Spec, RetirementIsFinal, OldKeysStay
-----------------------------------------------------------------------------
(* Streams and their MAC chains. *)

\* A set of keys of the table has a newest one.
LEMMA HasNewest ==
  ASSUME NEW n \in Nat, NEW T, T \subseteq 1 .. n, T # {}
  PROVE  \E g \in T : \A h \in T : h <= g
<1> DEFINE D == {n - g : g \in T}
<1>1. D \subseteq Nat /\ D # {}
  <2>1. ASSUME NEW g \in T PROVE n - g \in Nat
    <3>1. g \in 1 .. n
      OBVIOUS
    <3> QED BY <3>1
  <2> QED BY <2>1
<1> DEFINE R == OpToRel(<, Nat)
<1>2. IsWellFoundedOn(R, Nat)
  BY NatLessThanWellFounded
<1> HIDE DEF R, D
<1>3. PICK x \in D : \A y \in D : <<y, x>> \notin R
  BY <1>1, <1>2, WFMin
<1> USE DEF D
<1>4. PICK g \in T : x = n - g
  BY <1>3
<1>5. ASSUME NEW h \in T PROVE h <= g
  <2>1. ~(n - h < n - g)
    BY <1>1, <1>3, <1>4 DEF R, OpToRel
  <2>2. h \in Int /\ g \in Int
    BY DEF D
  <2> QED BY <2>1, <2>2
<1> QED BY <1>5

\* Only a usable key lets a transfer start.
LEMMA AcceptedIsUsable ==
  ASSUME Table, NEW g \in DOMAIN keys, NEW time \in Int,
         TsigError(keys[g].name, g, time) = "NONE"
  PROVE  Usable(g)
<1> DEFINE name == keys[g].name
           usable == {h \in Live(name) : Usable(h)}
<1>1. usable # {}
  BY DEF TsigError
<1>2. usable \subseteq 1 .. Len(keys) /\ Len(keys) \in Nat
  BY DEF Table, Live
<1>3. \E h \in usable : \A k \in usable : k <= h
  <2> HIDE DEF usable
  <2> QED BY <1>1, <1>2, HasNewest
<1>4. Newest(name) = g
  BY DEF TsigError
<1>5. Newest(name) \in usable
  BY <1>3 DEF Newest
<1> QED BY <1>4, <1>5

\* The expiry a connection has copied is less than a second behind.
LEMMA UsableWithinSecond ==
  ASSUME Table, NEW g \in DOMAIN keys, Usable(g), keys[g].expires # 0
  PROVE  now < keys[g].expires + Second
<1>1. keys[g] \in KeyRow
  BY ElementOfSeq DEF Table
<1>2. keys[g].expires \in Nat /\ keys[g].state # "ACTIVE"
  BY <1>1 DEF KeyRow, Table
<1>3. UtcNow * Second < keys[g].expires
  BY <1>2 DEF Usable
<1>4. now < UtcNow * Second + Second /\ UtcNow \in Int
  BY KeysAssumption, Z3 DEF UtcNow, Table
<1> QED BY <1>2, <1>3, <1>4, KeysAssumption DEF Table

Mac(key, over) == [key |-> key, over |-> over]
Message == [signed : BOOLEAN, mac : [key : Nat, over : Seq(Nat)]]

\* What a connection has accepted and sent.  Until the last message only the
\* first one is signed; both chain as the client expects.
StreamOk(x) ==
  LET m == x.messages
      n == Len(m)
  IN  /\ x.state \in {"IDLE", "DENIED", "OPEN", "SENT"}
      /\ m \in Seq(Message)
      /\ x.key \in Nat /\ x.at \in Nat /\ x.expires \in Nat
      /\ x.state = "IDLE" => m = <<>>
      /\ x.state \in {"OPEN", "SENT"} =>
           /\ x.expires # 0 => x.at < x.expires + Second
           /\ n > 0 => m[1].mac = Mac(x.key, Append(<<0>>, 1))
      /\ x.state = "OPEN" => \A i \in 2 .. n : ~m[i].signed
      /\ x.state = "SENT" =>
           /\ n > 0
           /\ \A i \in 2 .. (n - 1) : ~m[i].signed
           /\ n > 1 => m[n].mac = Mac(x.key, Append(m[1].mac.over, n))

Streams ==
  /\ DOMAIN conn = Conns
  /\ \A c \in Conns : StreamOk(conn[c])

\* The message to send next on the connection x.
NextMessage(x, last, new) ==
  /\ new \in Message
  /\ new.signed = (x.messages = <<>> \/ last)
  /\ x.messages = <<>> => new.mac = Mac(x.key, Append(<<0>>, 1))
  /\ x.messages # <<>> /\ last =>
       new.mac = Mac(x.key, Append(x.messages[1].mac.over, Len(x.messages) + 1))

\* x after that message.
Sent(x, last, new, y) ==
  /\ y.state = IF last THEN "SENT" ELSE "OPEN"
  /\ y.messages = Append(x.messages, new)
  /\ y.key = x.key /\ y.at = x.at /\ y.expires = x.expires

\* A message more, the last one or not.
LEMMA StreamGrows ==
  ASSUME NEW x, StreamOk(x), x.state = "OPEN", NEW last \in BOOLEAN, NEW new,
         NextMessage(x, last, new), NEW y, Sent(x, last, new, y)
  PROVE  StreamOk(y)
<1> USE DEF NextMessage, Sent
<1> DEFINE m == x.messages
           n == Len(m)
           k == y.messages
<1>1. m \in Seq(Message) /\ n \in Nat /\ (m = <<>> <=> n = 0)
  BY EmptySeq DEF StreamOk
<1>2. /\ k \in Seq(Message)
      /\ Len(k) = n + 1
      /\ k[n + 1] = new
      /\ \A i \in 1 .. n : k[i] = m[i]
  BY <1>1, AppendProperties
<1>3. k[1].mac = Mac(y.key, Append(<<0>>, 1))
  <2>1. CASE n = 0
    BY <2>1, <1>1, <1>2
  <2>2. CASE n > 0
    BY <2>2, <1>1, <1>2 DEF StreamOk
  <2> QED BY <2>1, <2>2, <1>1
<1>4. ASSUME NEW i \in 2 .. n PROVE ~k[i].signed
  BY <1>1, <1>2 DEF StreamOk
<1>5. ~last => (n = 0 \/ ~k[n + 1].signed)
  BY <1>1, <1>2
<1>6. last /\ n > 0 => k[n + 1].mac = Mac(y.key, Append(k[1].mac.over, n + 1))
  BY <1>1, <1>2
<1>7. /\ y.key \in Nat /\ y.at \in Nat /\ y.expires \in Nat
      /\ y.expires # 0 => y.at < y.expires + Second
  BY DEF StreamOk
<1>8. /\ y.state \in {"OPEN", "SENT"}
      /\ y.state = "OPEN" <=> ~last
  OBVIOUS
<1> HIDE DEF k, n, m
<1>9. y.state = "OPEN" => \A i \in 2 .. (n + 1) : ~k[i].signed
  BY <1>1, <1>4, <1>5, <1>8
<1>10. y.state = "SENT" =>
         /\ \A i \in 2 .. (n + 1) - 1 : ~k[i].signed
         /\ n + 1 > 1 => k[n + 1].mac = Mac(y.key, Append(k[1].mac.over, n + 1))
  BY <1>1, <1>4, <1>6, <1>8
<1> QED BY <1>1, <1>2, <1>3, <1>7, <1>8, <1>9, <1>10 DEF StreamOk, k

LEMMA MacFields ==
  ASSUME NEW key, NEW over
  PROVE  /\ Mac(key, over).key = key /\ Mac(key, over).over = over
         /\ key \in Nat /\ over \in Seq(Nat) =>
              Mac(key, over) \in [key : Nat, over : Seq(Nat)]
BY DEF Mac

\* A message sent is one that StreamGrows speaks of.
LEMMA SendEffect ==
  ASSUME Streams, NEW c \in Conns, NEW last \in BOOLEAN, SendMessage(c, last)
  PROVE  StreamOk(conn'[c])
<1> DEFINE x == conn[c]
           n == Len(x.messages) + 1
           signed == Signed(n, last)
           mac == IF signed THEN Sign(c, PriorMac(c), n) ELSE NoMac
           new == [signed |-> signed, mac |-> mac]
<1>1. StreamOk(x) /\ x.state = "OPEN"
  BY DEF Streams, SendMessage
<1>2. /\ x.messages \in Seq(Message)
      /\ Len(x.messages) \in Nat
      /\ x.messages = <<>> <=> Len(x.messages) = 0
      /\ x.key \in Nat
  BY <1>1, EmptySeq DEF StreamOk
<1>3. PICK y :
        /\ y = [conn[c] EXCEPT !.state = IF last THEN "SENT" ELSE "OPEN",
                               !.messages = Append(@, new)]
        /\ conn' = [conn EXCEPT ![c] = y]
  BY DEF SendMessage
<1> USE DEF Signed
<1>4. x.messages = <<>> => PriorMac(c) = Mac(x.key, <<0>>)
  BY DEF PriorMac, RequestMac, Mac
<1>5. x.messages # <<>> => /\ PriorMac(c) = x.messages[1].mac
                           /\ x.messages[1] \in Message
  BY <1>2, ElementOfSeq DEF PriorMac
<1>6. PriorMac(c).over \in Seq(Nat)
  <2>1. <<0>> \in Seq(Nat)
    OBVIOUS
  <2>2. CASE x.messages = <<>>
    BY <1>4, <2>1, <2>2, MacFields
  <2>3. CASE x.messages # <<>>
    BY <1>5, <2>3 DEF Message
  <2> QED BY <2>2, <2>3
<1>7. Sign(c, PriorMac(c), n) = Mac(x.key, Append(PriorMac(c).over, n))
  BY DEF Sign, Mac
<1>8. Append(PriorMac(c).over, n) \in Seq(Nat)
  BY <1>2, <1>6, AppendProperties
<1>9. new \in Message
  <2>1. mac \in [key : Nat, over : Seq(Nat)]
    <3>1. NoMac \in [key : Nat, over : Seq(Nat)]
      BY EmptySeq DEF NoMac
    <3>2. Sign(c, PriorMac(c), n) \in [key : Nat, over : Seq(Nat)]
      <4> DEFINE over == Append(PriorMac(c).over, n)
      <4>1. Mac(x.key, over) \in [key : Nat, over : Seq(Nat)]
        <5> HIDE DEF over
        <5> QED BY <1>2, <1>8, MacFields DEF over
      <4> QED BY <1>7, <4>1
    <3> QED BY <3>1, <3>2
  <2>2. signed \in BOOLEAN
    OBVIOUS
  <2> HIDE DEF mac, signed
  <2> QED BY <2>1, <2>2 DEF Message
<1>10. /\ x.messages = <<>> => mac = Mac(x.key, Append(<<0>>, 1))
       /\ x.messages # <<>> /\ last =>
            mac = Mac(x.key, Append(x.messages[1].mac.over, Len(x.messages) + 1))
  <2>1. signed => mac = Mac(x.key, Append(PriorMac(c).over, n))
    BY <1>7
  <2>2. x.messages = <<>> => n = 1 /\ signed
    BY <1>2
  <2>3. last => signed
    OBVIOUS
  <2>4. x.messages = <<>> => PriorMac(c).over = <<0>>
    BY <1>4 DEF Mac
  <2>5. n = Len(x.messages) + 1
    OBVIOUS
  <2> HIDE DEF mac, signed, n
  <2> QED BY <1>5, <2>1, <2>2, <2>3, <2>4, <2>5
<1>11. new.signed = (x.messages = <<>> \/ last) /\ new.mac = mac
  BY <1>2
<1> HIDE DEF new, mac
<1>12. /\ y.state = IF last THEN "SENT" ELSE "OPEN"
       /\ y.messages = Append(x.messages, new)
       /\ y.key = x.key /\ y.at = x.at /\ y.expires = x.expires
  BY <1>1, <1>3
<1>13. conn'[c] = y
  BY <1>3 DEF Streams
<1> HIDE DEF x
<1>14. StreamOk(y)
  BY <1>1, <1>9, <1>10, <1>11, <1>12, StreamGrows DEF NextMessage, Sent
<1> QED BY <1>13, <1>14

\* How a step can write a connection.
LEMMA ConnUpdates ==
  ASSUME [Next]_vars, NEW c \in Conns, DOMAIN conn = Conns
  PROVE  \/ \E g \in DOMAIN keys, skew \in Skews :
              Deny(c, g, skew) \/ Accept(c, g, skew)
         \/ \E last \in BOOLEAN : SendMessage(c, last)
         \/ conn'[c] = conn[c]
<1>1. ASSUME NEW d \in Conns, d # c,
             \/ \E g \in DOMAIN keys, skew \in Skews :
                  Deny(d, g, skew) \/ Accept(d, g, skew)
             \/ \E last \in BOOLEAN : SendMessage(d, last)
      PROVE  conn'[c] = conn[c]
  BY <1>1 DEF Deny, Accept, SendMessage
<1>2. CASE conn' = conn
  BY <1>2
<1> QED BY <1>1, <1>2 DEF Next, vars, Tick, InstallStart, InstallCommits, InstallFails, Revoke

LEMMA StreamsInit == Init => Streams
<1> SUFFICES ASSUME Init PROVE Streams
  OBVIOUS
<1>1. <<>> \in Seq(Message) /\ Len(<<>>) = 0
  BY EmptySeq
<1>2. ASSUME NEW c \in Conns PROVE StreamOk(conn[c])
  BY <1>1 DEF Init, StreamOk, Waiting
<1> QED BY <1>2 DEF Streams, Init

LEMMA StreamsStep == Table /\ Streams /\ [Next]_vars => Streams'
<1> SUFFICES ASSUME Table, Streams, [Next]_vars PROVE Streams'
  OBVIOUS
<1>1. DOMAIN conn' = Conns
  <2>1. CASE conn' = conn
    BY <2>1 DEF Streams
  <2>2. ASSUME NEW d \in Conns,
               \/ \E g \in DOMAIN keys, skew \in Skews :
                    Deny(d, g, skew) \/ Accept(d, g, skew)
               \/ \E last \in BOOLEAN : SendMessage(d, last)
        PROVE  DOMAIN conn' = Conns
    BY <2>2 DEF Streams, Deny, Accept, SendMessage
  <2>3. CASE \/ Tick \/ UNCHANGED vars
             \/ \E a \in Installers :
                  \/ \E id \in KeyIds, name \in KeyNames, lifetime \in Lifetimes :
                       InstallStart(a, id, name, lifetime)
                  \/ InstallCommits(a) \/ InstallFails(a)
             \/ \E g \in DOMAIN keys : Revoke(g)
    <3>1. conn' = conn
      BY <2>3 DEF vars, Tick, InstallStart, InstallCommits, InstallFails, Revoke
    <3> QED BY <2>1, <3>1
  <2> QED BY <2>2, <2>3 DEF Next
<1>2. ASSUME NEW c \in Conns PROVE StreamOk(conn'[c])
  <2> DEFINE x == conn[c]
  <2>1. StreamOk(x)
    BY DEF Streams
  <2>2. ASSUME NEW g \in DOMAIN keys, NEW skew \in Skews, Deny(c, g, skew)
        PROVE  StreamOk(conn'[c])
    <3> DEFINE error == TsigError(keys[g].name, g, UtcNow + skew)
    <3>1. PICK y : /\ y = [x EXCEPT !.state = "DENIED", !.error = error]
                   /\ conn' = [conn EXCEPT ![c] = y]
      BY <2>2 DEF Deny
    <3>2. /\ y.state = "DENIED" /\ y.messages = x.messages
          /\ y.key = x.key /\ y.at = x.at /\ y.expires = x.expires
      BY <3>1
    <3>3. conn'[c] = y
      BY <3>1 DEF Streams
    <3> QED BY <2>1, <3>2, <3>3 DEF StreamOk
  <2>3. ASSUME NEW g \in DOMAIN keys, NEW skew \in Skews, Accept(c, g, skew)
        PROVE  StreamOk(conn'[c])
    <3>1. PICK y : /\ y = [x EXCEPT !.state = "OPEN", !.key = g, !.at = now,
                                     !.expires = keys[g].expires]
                   /\ conn' = [conn EXCEPT ![c] = y]
      BY <2>3 DEF Accept
    <3>2. /\ y.state = "OPEN" /\ y.messages = x.messages
          /\ y.key = g /\ y.at = now /\ y.expires = keys[g].expires
      BY <3>1
    <3>3. x.messages = <<>> /\ x.messages \in Seq(Message) /\ Len(x.messages) = 0
      BY <2>1, <2>3, EmptySeq DEF StreamOk, Accept
    <3>4. g \in Nat /\ now \in Nat /\ keys[g] \in KeyRow
      BY ElementOfSeq DEF Table
    <3>5. UtcNow + skew \in Int
      BY <3>4, KeysAssumption, Z3 DEF UtcNow
    <3>6. keys[g].expires # 0 => now < keys[g].expires + Second
      BY <2>3, <3>5, AcceptedIsUsable, UsableWithinSecond DEF Accept
    <3>7. conn'[c] = y
      BY <3>1 DEF Streams
    <3>8. keys[g].expires \in Nat
      BY <3>4 DEF KeyRow
    <3> HIDE DEF x
    <3>9. StreamOk(y)
      BY <3>2, <3>3, <3>4, <3>6, <3>8 DEF StreamOk
    <3> QED BY <3>7, <3>9
  <2>4. ASSUME NEW last \in BOOLEAN, SendMessage(c, last) PROVE StreamOk(conn'[c])
    BY <2>4, SendEffect
  <2> QED BY <2>1, <2>2, <2>3, <2>4, ConnUpdates DEF Streams
<1> QED BY <1>1, <1>2 DEF Streams

LEMMA StreamsInvariant == Spec => []Streams
BY TableInvariant, StreamsInit, StreamsStep, PTL DEF Spec

(***************************************************************************)
(* Although the check drops the milliseconds of the clock, no transfer     *)
(* starts with a key whose expiry is a second past, whatever keys of that  *)
(* name there are besides.                                                 *)
(***************************************************************************)
THEOREM AcceptanceIsTimely == Spec => []AcceptedWithinSecond
<1>1. Streams => AcceptedWithinSecond
  BY DEF Streams, StreamOk, AcceptedWithinSecond
<1> QED BY <1>1, StreamsInvariant, PTL
-----------------------------------------------------------------------------
(* Packing and the frames of a stream. *)

(***************************************************************************)
(* Packing, the connection and the client change nothing of what           *)
(* TransferKeys speaks of but by its own steps.                            *)
(***************************************************************************)
THEOREM StreamsImplementKeys == SSpec => Spec
<1>1. SInit => Init
  BY DEF SInit
<1>2. [SNext]_svars => [Next]_vars
  <2> SUFFICES ASSUME [SNext]_svars PROVE [Next]_vars
    OBVIOUS
  <2>1. CASE KeyStep
    BY <2>1 DEF KeyStep, Next
  <2>2. ASSUME NEW c \in Conns, NEW g \in DOMAIN keys, NEW skew \in Skews,
               Begin(c, g, skew)
        PROVE  Next
    BY <2>2 DEF Begin, Next
  <2>3. ASSUME NEW c \in Conns, Serve(c) PROVE [Next]_vars
    BY <2>3 DEF Serve, Produce, SendLast, IdleOut, Send, Next
  <2>4. ASSUME NEW c \in Conns, Break(c) \/ ReadFrame(c) \/ ReadEnd(c) \/ ReadPart(c)
        PROVE  UNCHANGED vars
    BY <2>4 DEF Break, ReadFrame, ReadEnd, ReadPart
  <2>5. CASE UNCHANGED svars
    BY <2>5 DEF svars
  <2> QED BY <2>1, <2>2, <2>3, <2>4, <2>5 DEF SNext
<1> QED BY <1>1, <1>2, PTL DEF SSpec, Spec
-----------------------------------------------------------------------------
(* Packing. *)

\* The least place of a set of places.
LEMMA HasLeast ==
  ASSUME NEW T, T \subseteq Nat, T # {}
  PROVE  \E k \in T : \A j \in T : k <= j
<1> DEFINE R == OpToRel(<, Nat)
<1>1. IsWellFoundedOn(R, Nat)
  BY NatLessThanWellFounded
<1> HIDE DEF R
<1>2. PICK k \in T : \A j \in T : <<j, k>> \notin R
  BY <1>1, WFMin
<1>3. ASSUME NEW j \in T PROVE k <= j
  <2>1. ~(j < k)
    BY <1>2 DEF R, OpToRel
  <2> QED BY <2>1
<1> QED BY <1>3

\* The rows of a stream and how far they are packed.
Rows(x) ==
  /\ x.ends \in Seq(Nat) /\ Len(x.ends) \in Nat \ {0}
  /\ \A k \in 1 .. Len(x.ends) : SizeOf(x.ends, k) \in 0 .. MaxRow
  /\ x.taken \in 0 .. Len(x.ends)

\* A set of rows that one message may hold.
Message1(x, b) ==
  /\ b.lo \in 1 .. Len(x.ends)
  /\ b.hi \in b.lo .. Len(x.ends)
  /\ Fits(x, b.lo, b.hi)

\* There is a next message while there are rows.
LEMMA BatchIsMessage ==
  ASSUME NEW x, Rows(x), x.taken < Len(x.ends)
  PROVE  Message1(x, Batch(x)) /\ Batch(x).lo = x.taken + 1
<1> DEFINE lo == x.taken + 1
           n == Len(x.ends)
           P(h) == /\ \A k \in lo .. h : Fits(x, lo, k)
                   /\ h = n \/ ~Fits(x, lo, h + 1)
           T == {k \in lo .. n : ~Fits(x, lo, k)}
<1>1. lo \in 1 .. n /\ n \in Nat
  BY DEF Rows
<1>2. Fits(x, lo, lo)
  BY DEF Fits
<1>3. \E h \in lo .. n : P(h)
  <2>1. CASE T = {}
    BY <1>1, <2>1
  <2>2. CASE T # {}
    <3>1. PICK k \in T : \A j \in T : k <= j
      <4>1. T \subseteq Nat
        BY <1>1
      <4> HIDE DEF T
      <4> QED BY <2>2, <4>1, HasLeast
    <3>2. k # lo
      BY <1>2, <3>1
    <3>3. k - 1 \in lo .. n /\ (k - 1) + 1 = k
      BY <1>1, <3>1, <3>2
    <3>4. P(k - 1)
      <4>1. ASSUME NEW j \in lo .. (k - 1) PROVE Fits(x, lo, j)
        <5>1. j \in lo .. n /\ ~(k <= j)
          BY <1>1, <3>1
        <5> QED BY <3>1, <5>1
      <4>2. ~Fits(x, lo, (k - 1) + 1)
        BY <3>1, <3>3
      <4> QED BY <4>1, <4>2
    <3> QED BY <3>3, <3>4
  <2> QED BY <2>1, <2>2
<1>4. Batch(x) = [lo |-> lo, hi |-> CHOOSE h \in lo .. n : P(h)]
  BY DEF Batch, Greedy
<1> HIDE DEF P
<1>5. PICK h : h = (CHOOSE i \in lo .. n : P(i))
  OBVIOUS
<1>6. h \in lo .. n /\ P(h)
  BY <1>3, <1>5
<1>7. Batch(x).lo = lo /\ Batch(x).hi = h
  BY <1>4, <1>5
<1>8. Fits(x, lo, h)
  BY <1>1, <1>6 DEF P
<1> QED BY <1>1, <1>6, <1>7, <1>8 DEF Message1

\* Its length, signed or not.
LEMMA MessageFits ==
  ASSUME NEW x, Rows(x), NEW b, Message1(x, b)
  PROVE  /\ Length(x, b.lo, b.hi) \in Int
         /\ Length(x, b.lo, b.hi) + TsigSize <= MaxFrame
         /\ Length(x, b.lo, b.hi) <= MaxFrame
<1>1. /\ b.lo \in 1 .. Len(x.ends) /\ b.hi \in 1 .. Len(x.ends)
      /\ SizeOf(x.ends, b.lo) \in 0 .. MaxRow
  BY DEF Rows, Message1
<1>2. x.ends[b.lo] \in Nat /\ x.ends[b.hi] \in Nat
  BY <1>1, ElementOfSeq DEF Rows
<1>3. /\ Header \in Nat /\ Budget \in Nat /\ TsigSpace \in Nat /\ TsigSize \in Nat
      /\ MaxRow \in Nat /\ MaxFrame \in Nat
      /\ TsigSize <= TsigSpace /\ Budget <= MaxFrame
      /\ Header + MaxRow + TsigSize <= MaxFrame
  BY StreamAssumption
<1> DEFINE size == SizeOf(x.ends, b.lo)
<1> HIDE DEF size
<1>4. Length(x, b.lo, b.hi) = Header + x.ends[b.hi] - x.ends[b.lo] + size
  BY DEF Length, size
<1>5. size \in 0 .. MaxRow
  BY <1>1 DEF size
<1>6. Length(x, b.lo, b.hi) \in Int
  BY <1>2, <1>3, <1>4, <1>5
<1>7. CASE b.lo = b.hi
  BY <1>2, <1>3, <1>4, <1>5, <1>7
<1>8. CASE Length(x, b.lo, b.hi) <= Budget - TsigSpace
  BY <1>3, <1>6, <1>8
<1> QED BY <1>6, <1>7, <1>8 DEF Message1, Fits, Room
-----------------------------------------------------------------------------
(* The invariant.  x is stream[c] and q is conn[c].                        *)

FrameType == [kind : {"DATA", "SERVFAIL"}, lo : Nat, hi : Nat, octets : Int]

\* What is on the wire fits and is in order; a header with SERVFAIL ends it.
WireOk(wire) ==
  /\ wire \in Seq(FrameType)
  /\ Len(wire) \in Nat
  /\ \A i \in 1 .. Len(wire) :
       /\ wire[i].octets <= MaxFrame
       /\ wire[i].kind = "DATA" =>
            /\ wire[i].lo <= wire[i].hi
            /\ i = 1 => wire[i].lo = 1
            /\ i > 1 => wire[i].lo = wire[i - 1].hi + 1

\* The wire holds data only, up to row k.
UpTo(wire, k) ==
  /\ \A i \in 1 .. Len(wire) : wire[i].kind = "DATA"
  /\ Len(wire) > 0 => wire[Len(wire)].hi = k
  /\ Len(wire) = 0 => k = 0

\* A message without a signature has no MAC to be taken for one.
Unsigned(q) ==
  \A i \in 1 .. Len(q.messages) : ~q.messages[i].signed => q.messages[i].mac = NoMac

\* What a client that has accepted has got.
GotOk(x) ==
  x.client = "ACCEPTED" =>
    \/ HoldsRows(x.wire, x.got, Len(x.ends))
    \/ x.got = 1 /\ (x.mode = "AXFR" => x.wire[1].hi = 1)

HandlerOk(x, q) ==
  /\ x.state = "NONE" =>
       /\ q.state \in {"IDLE", "DENIED"}
       /\ x.wire = <<>> /\ x.client = "READING"
  /\ x.state = "OPEN" =>
       /\ q.state = "OPEN" /\ Len(q.messages) = Len(x.wire)
       /\ x.pending = NoRows => x.taken = 0 /\ UpTo(x.wire, 0)
       /\ x.pending # NoRows =>
            /\ Message1(x, x.pending) /\ x.pending.hi = x.taken
            /\ UpTo(x.wire, x.pending.lo - 1)
  /\ x.state = "CLOSED" =>
       /\ q.state \in {"OPEN", "SENT"}
       /\ \A i \in 1 .. Len(x.wire) : x.wire[i].kind = "DATA" => i <= Len(q.messages)
       /\ q.state = "SENT" =>
            /\ Len(q.messages) = Len(x.wire)
            /\ UpTo(x.wire, Len(x.ends))

ConnOk(x, q) ==
  /\ x.state \in {"NONE", "OPEN", "CLOSED"}
  /\ Rows(x)
  /\ WireOk(x.wire)
  /\ x.got \in 0 .. Len(x.wire)
  /\ GotOk(x)
  /\ Unsigned(q)
  /\ HandlerOk(x, q)

SInv ==
  /\ DOMAIN stream = Conns
  /\ \A c \in Conns : ConnOk(stream[c], conn[c])

\* Data in order is what HoldsRows says.
LEMMA WireHolds ==
  ASSUME NEW wire, WireOk(wire), NEW n \in 1 .. Len(wire),
         \A i \in 1 .. n : wire[i].kind = "DATA"
  PROVE  HoldsRows(wire, n, wire[n].hi)
<1>1. \A i \in 1 .. n : i \in 1 .. Len(wire)
  BY DEF WireOk
<1>2. ASSUME NEW i \in 1 .. (n - 1) PROVE wire[i + 1].lo = wire[i].hi + 1
  <2>1. i + 1 \in 1 .. n /\ i + 1 > 1 /\ (i + 1) - 1 = i
    BY DEF WireOk
  <2> DEFINE j == i + 1
  <2>2. j \in 1 .. Len(wire) /\ j > 1 /\ wire[j].kind = "DATA" /\ j - 1 = i
    BY <1>1, <2>1
  <2> HIDE DEF j
  <2>3. wire[j].lo = wire[j - 1].hi + 1
    BY <2>2 DEF WireOk
  <2> QED BY <2>2, <2>3 DEF j
<1>3. wire[1].lo = 1 /\ \A i \in 1 .. n : wire[i].lo <= wire[i].hi
  BY <1>1 DEF WireOk
<1> QED BY <1>2, <1>3 DEF HoldsRows

\* A frame more.
LEMMA WireGrows ==
  ASSUME NEW wire, WireOk(wire), NEW f \in FrameType, f.octets <= MaxFrame,
         f.kind = "DATA" => /\ f.lo <= f.hi
                            /\ UpTo(wire, f.lo - 1)
  PROVE  LET w == Append(wire, f)
         IN  /\ WireOk(w)
             /\ Len(w) = Len(wire) + 1
             /\ w[Len(wire) + 1] = f
             /\ \A i \in 1 .. Len(wire) : w[i] = wire[i]
<1> DEFINE w == Append(wire, f)
           n == Len(wire)
<1>1. n \in Nat /\ wire \in Seq(FrameType)
  BY DEF WireOk
<1>2. /\ w \in Seq(FrameType)
      /\ Len(w) = n + 1
      /\ w[n + 1] = f
      /\ \A i \in 1 .. n : w[i] = wire[i]
  BY <1>1, AppendProperties
<1> HIDE DEF w
<1>3. ASSUME NEW i \in 1 .. n
      PROVE  /\ w[i].octets <= MaxFrame
             /\ w[i].kind = "DATA" =>
                  /\ w[i].lo <= w[i].hi
                  /\ i = 1 => w[i].lo = 1
                  /\ i > 1 => w[i].lo = w[i - 1].hi + 1
  <2>1. i > 1 => w[i - 1] = wire[i - 1]
    BY <1>1, <1>2
  <2> QED BY <1>2, <2>1 DEF WireOk
<1>4. /\ w[n + 1].octets <= MaxFrame
      /\ w[n + 1].kind = "DATA" =>
           /\ w[n + 1].lo <= w[n + 1].hi
           /\ n + 1 = 1 => w[n + 1].lo = 1
           /\ n + 1 > 1 => w[n + 1].lo = w[(n + 1) - 1].hi + 1
  <2>1. f.lo \in Nat
    BY DEF FrameType
  <2>2. n > 0 => w[(n + 1) - 1] = wire[n]
    BY <1>1, <1>2
  <2> QED BY <1>1, <1>2, <2>1, <2>2 DEF UpTo
<1>5. WireOk(w)
  <2>1. \A i \in 1 .. (n + 1) : i \in 1 .. n \/ i = n + 1
    BY <1>1
  <2>2. Len(w) \in Nat
    BY <1>1, <1>2
  <2> QED BY <1>1, <1>2, <1>3, <1>4, <2>1, <2>2 DEF WireOk
<1> QED BY <1>2, <1>5 DEF w
-----------------------------------------------------------------------------
(* The effect of each step on the stream x and the connection q, which     *)
(* become y and r.                                                         *)

\* The client's part of a stream, and its rows.
Keeps(x, y) ==
  y.mode = x.mode /\ y.ends = x.ends /\ y.got = x.got /\ y.client = x.client

\* The frames of w are frames of v.
Prefix(w, v) == Len(w) <= Len(v) /\ \A i \in 1 .. Len(w) : v[i] = w[i]

\* More frames do not change what was accepted.
LEMMA GotStays ==
  ASSUME NEW x, NEW y, WireOk(x.wire), x.got \in 0 .. Len(x.wire), GotOk(x),
         Keeps(x, y), Prefix(x.wire, y.wire), Len(y.wire) \in Nat
  PROVE  y.got \in 0 .. Len(y.wire) /\ GotOk(y)
<1> DEFINE w == x.wire
           v == y.wire
           n == x.got
           k == Len(x.ends)
<1>1. Len(w) \in Nat /\ Len(v) \in Nat /\ Len(w) <= Len(v) /\ n \in 0 .. Len(w)
  BY DEF WireOk, Prefix
<1>2. \A i \in 1 .. n : v[i] = w[i]
  BY <1>1 DEF Prefix
<1>3. HoldsRows(w, n, k) => HoldsRows(v, n, k)
  <2> HIDE DEF w, v, n, k
  <2> QED BY <1>1, <1>2 DEF HoldsRows
<1>4. n = 1 => v[1].hi = w[1].hi
  BY <1>2
<1>5. n \in 0 .. Len(v)
  BY <1>1
<1> QED BY <1>3, <1>4, <1>5 DEF GotOk, Keeps

\* The handler's pending message as a frame more.
LEMMA FrameMore ==
  ASSUME NEW x, NEW q, ConnOk(x, q), x.state = "OPEN", x.pending # NoRows,
         NEW signed \in BOOLEAN, NEW y, y.wire = Append(x.wire, Frame(x, signed))
  PROVE  /\ WireOk(y.wire) /\ UpTo(y.wire, x.pending.hi)
         /\ Prefix(x.wire, y.wire) /\ Len(y.wire) = Len(x.wire) + 1
<1> DEFINE b == x.pending
           f == Frame(x, signed)
           w == x.wire
           v == Append(w, f)
<1>1. Message1(x, b) /\ UpTo(w, b.lo - 1) /\ WireOk(w) /\ Rows(x)
  BY DEF ConnOk, HandlerOk
<1>2. b.lo \in Nat /\ b.hi \in Nat /\ b.lo <= b.hi
  BY <1>1 DEF Message1, Rows
<1>3. /\ Length(x, b.lo, b.hi) \in Int
      /\ Length(x, b.lo, b.hi) + TsigSize <= MaxFrame
      /\ Length(x, b.lo, b.hi) <= MaxFrame
  <2> HIDE DEF b
  <2> QED BY <1>1, MessageFits
<1> DEFINE octets == Length(x, b.lo, b.hi) + (IF signed THEN TsigSize ELSE 0)
<1>4. octets \in Int /\ octets <= MaxFrame
  <2> DEFINE len == Length(x, b.lo, b.hi)
  <2>1. TsigSize \in Nat /\ MaxFrame \in Nat
    BY StreamAssumption
  <2>2. len \in Int /\ len + TsigSize <= MaxFrame /\ len <= MaxFrame
    BY <1>3
  <2>3. octets = len + (IF signed THEN TsigSize ELSE 0)
    OBVIOUS
  <2> HIDE DEF len, octets
  <2> QED BY <2>1, <2>2, <2>3
<1>5. f = [kind |-> "DATA", lo |-> b.lo, hi |-> b.hi, octets |-> octets]
  BY DEF Frame
<1> HIDE DEF octets
<1>6. f \in FrameType /\ f.kind = "DATA" /\ f.lo = b.lo /\ f.hi = b.hi
      /\ f.octets <= MaxFrame
  BY <1>2, <1>4, <1>5 DEF FrameType
<1> HIDE DEF f, b, w
<1>7. /\ WireOk(v)
      /\ Len(v) = Len(w) + 1
      /\ v[Len(w) + 1] = f
      /\ \A i \in 1 .. Len(w) : v[i] = w[i]
  BY <1>1, <1>2, <1>6, WireGrows
<1> HIDE DEF v
<1>8. Len(w) \in Nat
  BY <1>1 DEF WireOk
<1>9. UpTo(v, b.hi)
  <2>1. \A i \in 1 .. Len(v) : i \in 1 .. Len(w) \/ i = Len(w) + 1
    BY <1>7, <1>8
  <2>2. \A i \in 1 .. Len(v) : v[i].kind = "DATA"
    BY <1>1, <1>6, <1>7, <2>1 DEF UpTo
  <2>3. Len(v) > 0 /\ v[Len(v)].hi = b.hi
    BY <1>6, <1>7, <1>8
  <2> QED BY <2>2, <2>3 DEF UpTo
<1>10. Prefix(w, v)
  BY <1>7, <1>8 DEF Prefix
<1>11. y.wire = v
  BY DEF v, w, f
<1> QED BY <1>7, <1>9, <1>10, <1>11 DEF w, b

\* Rows are what messages are judged by.
LEMMA SameRows ==
  ASSUME NEW x, NEW y, y.ends = x.ends
  PROVE  /\ \A b : Message1(x, b) => Message1(y, b)
         /\ Rows(x) /\ y.taken \in 0 .. Len(x.ends) => Rows(y)
BY DEF Message1, Fits, Length, SizeOf, Rows

\* A batch becomes the pending message.
Packed(x, y) ==
  Keeps(x, y) /\ y.state = "OPEN" /\ y.pending = Batch(x) /\ y.taken = Batch(x).hi

LEMMA PackedOk ==
  ASSUME NEW x, Rows(x), x.taken < Len(x.ends), NEW y, Packed(x, y)
  PROVE  /\ Rows(y) /\ Message1(y, y.pending) /\ y.pending.hi = y.taken
         /\ y.pending.lo - 1 = x.taken /\ y.pending # NoRows
<1> DEFINE b == Batch(x)
<1>1. Message1(x, b) /\ b.lo = x.taken + 1
  BY BatchIsMessage
<1>2. y.ends = x.ends /\ y.pending = b /\ y.taken = b.hi
  BY DEF Packed, Keeps
<1> HIDE DEF b
<1>3. b.hi \in 0 .. Len(x.ends) /\ x.taken \in Nat
  BY <1>1 DEF Message1, Rows
<1>4. Message1(y, b) /\ Rows(y)
  BY <1>1, <1>2, <1>3, SameRows
<1>5. b # NoRows
  BY <1>1, <1>3 DEF NoRows
<1> QED BY <1>1, <1>2, <1>3, <1>4, <1>5

\* A message more on the connection q.
Sent1(q, last, r) ==
  /\ r.state = IF last THEN "SENT" ELSE "OPEN"
  /\ Len(r.messages) = Len(q.messages) + 1
  /\ Unsigned(q) => Unsigned(r)

LEMMA SendUnsigned ==
  ASSUME Streams, NEW c \in Conns, NEW last \in BOOLEAN, SendMessage(c, last)
  PROVE  Sent1(conn[c], last, conn'[c])
<1> DEFINE x == conn[c]
           n == Len(x.messages) + 1
           signed == Signed(n, last)
           mac == IF signed THEN Sign(c, PriorMac(c), n) ELSE NoMac
           new == [signed |-> signed, mac |-> mac]
<1>1. StreamOk(x) /\ StreamOk(conn'[c])
  BY SendEffect DEF Streams
<1>2. x.messages \in Seq(Message) /\ Len(x.messages) \in Nat
  BY <1>1, LenProperties DEF StreamOk
<1>3. PICK y :
        /\ y = [conn[c] EXCEPT !.state = IF last THEN "SENT" ELSE "OPEN",
                               !.messages = Append(@, new)]
        /\ conn' = [conn EXCEPT ![c] = y]
  BY DEF SendMessage
<1>4. /\ y.state = IF last THEN "SENT" ELSE "OPEN"
      /\ y.messages = Append(x.messages, new)
      /\ conn'[c] = y
  BY <1>3 DEF Streams
<1>5. ~new.signed => new.mac = NoMac
  <2> HIDE DEF signed
  <2> QED OBVIOUS
<1> HIDE DEF new, x
<1>6. /\ Len(y.messages) = Len(x.messages) + 1
      /\ y.messages[Len(x.messages) + 1] = new
      /\ \A i \in 1 .. Len(x.messages) : y.messages[i] = x.messages[i]
  <2>1. y.messages \in Seq(Message)
    BY <1>1, <1>4 DEF StreamOk
  <2> QED BY <1>2, <1>4, <2>1
<1>7. Unsigned(x) => Unsigned(y)
  <2>1. \A i \in 1 .. Len(y.messages) :
          i \in 1 .. Len(x.messages) \/ i = Len(x.messages) + 1
    BY <1>2, <1>6
  <2> QED BY <1>5, <1>6, <2>1 DEF Unsigned
<1> QED BY <1>4, <1>6, <1>7 DEF Sent1, x

(* One lemma for each kind of step. *)

LEMMA NothingSent ==
  ASSUME NEW w, w = <<>>
  PROVE  WireOk(w) /\ UpTo(w, 0) /\ Len(w) = 0
<1>1. w \in Seq(FrameType) /\ Len(w) = 0
  BY EmptySeq
<1>2. \A i \in 1 .. Len(w) : FALSE
  BY <1>1
<1> QED BY <1>1, <1>2 DEF WireOk, UpTo

LEMMA OpenOk ==
  ASSUME NEW x, NEW q, ConnOk(x, q), q.state = "IDLE", NEW s \in RowStreams,
         NEW y, y = [NotOpen EXCEPT !.state = "OPEN", !.mode = s.mode, !.ends = s.ends],
         NEW r, r.state = "OPEN", r.messages = q.messages, q.messages = <<>>
  PROVE  ConnOk(y, r)
<1>1. /\ y.state = "OPEN" /\ y.ends = s.ends /\ y.taken = 0 /\ y.pending = NoRows
      /\ y.wire = <<>> /\ y.got = 0 /\ y.client = "READING"
  BY DEF NotOpen
<1>2. RowStreamOK(s) /\ s.ends \in Seq(Nat) /\ s.ends # <<>>
  BY StreamAssumption DEF RowStreamOK
<1>3. Len(s.ends) \in Nat \ {0} /\ DOMAIN s.ends = 1 .. Len(s.ends)
  BY <1>2, EmptySeq, LenProperties
<1>4. Rows(y)
  BY <1>1, <1>2, <1>3 DEF Rows, RowStreamOK
<1>5. <<>> \in Seq(FrameType) /\ Len(<<>>) = 0
  BY EmptySeq
<1>6. WireOk(y.wire) /\ UpTo(y.wire, 0) /\ Len(y.wire) = 0
  BY <1>1, NothingSent
<1>7. GotOk(y) /\ y.got \in 0 .. Len(y.wire)
  BY <1>1, <1>6 DEF GotOk
<1>8. Unsigned(r)
  BY <1>5 DEF Unsigned
<1>9. HandlerOk(y, r)
  BY <1>1, <1>5, <1>6 DEF HandlerOk
<1> QED BY <1>1, <1>4, <1>6, <1>7, <1>8, <1>9 DEF ConnOk

LEMMA ProduceOk ==
  ASSUME NEW x, NEW q, ConnOk(x, q), x.state = "OPEN", x.taken < Len(x.ends),
         x.pending = NoRows, NEW y, Packed(x, y), y.wire = x.wire
  PROVE  ConnOk(y, q)
<1>1. Rows(x) /\ HandlerOk(x, q) /\ WireOk(x.wire) /\ GotOk(x)
      /\ x.got \in 0 .. Len(x.wire) /\ Unsigned(q)
  BY DEF ConnOk
<1>2. /\ Rows(y) /\ Message1(y, y.pending) /\ y.pending.hi = y.taken
      /\ y.pending.lo - 1 = x.taken /\ y.pending # NoRows
  BY <1>1, PackedOk
<1>3. UpTo(y.wire, y.pending.lo - 1)
  BY <1>1, <1>2 DEF HandlerOk
<1>4. y.state = "OPEN" /\ q.state = "OPEN" /\ Len(q.messages) = Len(y.wire)
  BY <1>1 DEF Packed, HandlerOk
<1>5. HandlerOk(y, q)
  BY <1>2, <1>3, <1>4 DEF HandlerOk
<1>6. Prefix(x.wire, y.wire) /\ Len(y.wire) \in Nat /\ Keeps(x, y)
  BY <1>1 DEF Prefix, WireOk, Packed
<1>7. GotOk(y) /\ y.got \in 0 .. Len(y.wire)
  BY <1>1, <1>6, GotStays
<1> QED BY <1>1, <1>2, <1>4, <1>5, <1>7 DEF ConnOk

LEMMA SendOk ==
  ASSUME NEW x, NEW q, ConnOk(x, q), x.state = "OPEN", x.pending # NoRows,
         NEW signed \in BOOLEAN,
         NEW y, y.wire = Append(x.wire, Frame(x, signed)), Keeps(x, y),
         NEW r, NEW last \in BOOLEAN, Sent1(q, last, r),
         ~last => Packed(x, y) /\ x.taken < Len(x.ends),
         last => y.state = "CLOSED" /\ y.taken = x.taken /\ x.taken = Len(x.ends)
  PROVE  ConnOk(y, r)
<1>1. Rows(x) /\ HandlerOk(x, q) /\ WireOk(x.wire) /\ GotOk(x)
      /\ x.got \in 0 .. Len(x.wire) /\ Unsigned(q)
  BY DEF ConnOk
<1>2. /\ WireOk(y.wire) /\ UpTo(y.wire, x.taken)
      /\ Prefix(x.wire, y.wire) /\ Len(y.wire) = Len(x.wire) + 1
  BY <1>1, FrameMore DEF HandlerOk
<1>3. Len(r.messages) = Len(y.wire) /\ Unsigned(r)
  BY <1>1, <1>2 DEF HandlerOk, Sent1
<1>4. GotOk(y) /\ y.got \in 0 .. Len(y.wire)
  BY <1>1, <1>2, GotStays DEF WireOk
<1>5. CASE ~last
  <2>1. /\ Rows(y) /\ Message1(y, y.pending) /\ y.pending.hi = y.taken
        /\ y.pending.lo - 1 = x.taken /\ y.pending # NoRows
    BY <1>1, <1>5, PackedOk
  <2>2. y.state = "OPEN" /\ r.state = "OPEN"
    BY <1>5 DEF Packed, Sent1
  <2>3. HandlerOk(y, r)
    BY <1>2, <1>3, <2>1, <2>2 DEF HandlerOk
  <2> QED BY <1>2, <1>3, <1>4, <2>1, <2>2, <2>3 DEF ConnOk
<1>6. CASE last
  <2>1. y.ends = x.ends
    BY DEF Keeps
  <2>2. Rows(y)
    BY <1>1, <1>6, <2>1 DEF Rows, SizeOf
  <2>3. y.state = "CLOSED" /\ r.state = "SENT"
    BY <1>6 DEF Sent1
  <2>4. UpTo(y.wire, Len(y.ends))
    BY <1>2, <1>6, <2>1
  <2>5. HandlerOk(y, r)
    BY <1>2, <1>3, <2>3, <2>4 DEF HandlerOk
  <2> QED BY <1>2, <1>3, <1>4, <2>2, <2>3, <2>5 DEF ConnOk
<1> QED BY <1>5, <1>6

\* The handler ends the stream before its last message.
LEMMA CutOk ==
  ASSUME NEW x, NEW q, ConnOk(x, q), x.state = "OPEN",
         NEW y, y.state = "CLOSED", y.taken = x.taken, Keeps(x, y),
         y.wire = x.wire \/ y.wire = Append(x.wire, Servfail)
  PROVE  ConnOk(y, q)
<1> DEFINE w == x.wire
           v == Append(w, Servfail)
<1>1. Rows(x) /\ HandlerOk(x, q) /\ WireOk(w) /\ GotOk(x)
      /\ x.got \in 0 .. Len(w) /\ Unsigned(q)
  BY DEF ConnOk
<1>2. Len(w) \in Nat /\ Len(q.messages) = Len(w) /\ q.state = "OPEN"
  BY <1>1 DEF WireOk, HandlerOk
<1>3. Servfail \in FrameType /\ Servfail.octets <= MaxFrame /\ Servfail.kind # "DATA"
  BY StreamAssumption DEF Servfail, FrameType
<1> HIDE DEF w
<1>4. /\ WireOk(v) /\ Prefix(w, v) /\ Len(v) = Len(w) + 1
      /\ v[Len(w) + 1] = Servfail
  BY <1>1, <1>2, <1>3, WireGrows DEF Prefix
<1> HIDE DEF v
<1>5. PICK u : u = y.wire
  OBVIOUS
<1>6. u = w \/ u = v
  BY <1>5 DEF w, v
<1>7. WireOk(u) /\ Prefix(w, u) /\ Len(u) \in Nat
  BY <1>1, <1>2, <1>4, <1>6 DEF Prefix
<1>8. \A i \in 1 .. Len(u) : u[i].kind = "DATA" => i <= Len(q.messages)
  <2>1. CASE u = w
    BY <1>2, <2>1
  <2>2. CASE u = v
    BY <1>2, <1>3, <1>4, <2>2
  <2> QED BY <1>6, <2>1, <2>2
<1>9. GotOk(y) /\ y.got \in 0 .. Len(y.wire)
  BY <1>1, <1>5, <1>7, GotStays DEF w
<1>10. HandlerOk(y, q)
  BY <1>2, <1>5, <1>8 DEF HandlerOk
<1>11. Rows(y)
  BY <1>1 DEF Rows, SizeOf, Keeps
<1> QED BY <1>1, <1>5, <1>7, <1>9, <1>10, <1>11 DEF ConnOk

\* The client's steps leave the handler's part alone.
HandlerSame(x, y) ==
  /\ y.state = x.state /\ y.mode = x.mode /\ y.ends = x.ends
  /\ y.taken = x.taken /\ y.pending = x.pending /\ y.wire = x.wire

LEMMA ClientOk ==
  ASSUME NEW x, NEW q, ConnOk(x, q), NEW y, HandlerSame(x, y),
         x.state # "NONE", y.got \in 0 .. Len(x.wire), GotOk(y)
  PROVE  ConnOk(y, q)
<1>1. Rows(y)
  BY DEF ConnOk, HandlerSame, Rows, SizeOf
<1>2. x.pending # NoRows /\ Message1(x, x.pending) => Message1(y, y.pending)
  BY DEF HandlerSame, Message1, Fits, Length, SizeOf
<1>3. HandlerOk(y, q)
  BY <1>2 DEF ConnOk, HandlerSame, HandlerOk
<1> QED BY <1>1, <1>3 DEF ConnOk, HandlerSame

\* No MAC is over nothing.
LEMMA NotNoMac ==
  ASSUME NEW key, NEW over \in Seq(Nat), NEW n \in Nat
  PROVE  Mac(key, Append(over, n)) # NoMac
<1>1. Len(Append(over, n)) = Len(over) + 1 /\ Len(over) \in Nat /\ Len(<<>>) = 0
  BY AppendProperties, LenProperties, EmptySeq
<1> DEFINE new == Append(over, n)
<1>2. new # <<>>
  BY <1>1
<1> HIDE DEF new
<1>3. Mac(key, new).over = new /\ NoMac.over = <<>>
  BY MacFields DEF NoMac
<1>4. Mac(key, new) # NoMac
  BY <1>2, <1>3
<1> QED BY <1>4 DEF new

\* What a client accepts: the last of several frames is signed, and that is
\* the last message of a stream that was sent to its end.
LEMMA AcceptedOk ==
  ASSUME NEW c \in Conns, StreamOk(conn[c]), ConnOk(stream[c], conn[c]),
         stream[c].state # "NONE", stream[c].got > 0,
         ChainAccepted(c, stream[c].got),
         stream[c].mode = "AXFR" => EndsLikeAnAXFR(stream[c], stream[c].got)
  PROVE  \/ HoldsRows(stream[c].wire, stream[c].got, Len(stream[c].ends))
         \/ stream[c].got = 1 /\ (stream[c].mode = "AXFR" => stream[c].wire[1].hi = 1)
<1> DEFINE x == stream[c]
           q == conn[c]
           n == x.got
           m == q.messages
<1>1. /\ n \in 1 .. Len(x.wire) /\ Len(x.wire) \in Nat /\ WireOk(x.wire)
      /\ \A i \in 1 .. n : x.wire[i].kind = "DATA"
  BY DEF ConnOk, WireOk, ChainAccepted
<1>2. HoldsRows(x.wire, n, x.wire[n].hi)
  <2> HIDE DEF x, n
  <2> QED BY <1>1, WireHolds
<1>3. CASE n = 1
  <2>1. x.mode = "AXFR" => x.wire[1].hi \in {1, Len(x.ends)}
    BY <1>3 DEF EndsLikeAnAXFR
  <2> HIDE DEF x, n
  <2> QED BY <1>2, <1>3, <2>1 DEF x, n
<1>4. CASE n > 1
  <2>1. n \in 1 .. Len(m) /\ Len(m) \in Nat /\ m \in Seq(Message)
    <3>1. Len(m) \in Nat /\ m \in Seq(Message)
      BY LenProperties DEF StreamOk
    <3>2. x.state \in {"OPEN", "CLOSED"}
      BY DEF ConnOk
    <3>3. n <= Len(m)
      BY <1>1, <3>2 DEF ConnOk, HandlerOk
    <3> QED BY <1>1, <3>1, <3>3
  <2>2. m[n].mac = Mac(q.key, Append(m[1].mac.over, n))
    BY <1>4 DEF ChainAccepted, Sign, Mac
  <2>3. m[1].mac.over \in Seq(Nat) /\ m[n] \in Message
    <3>1. m[1] \in Message /\ m[n] \in Message
      BY <1>4, <2>1, ElementOfSeq
    <3> QED BY <3>1 DEF Message
  <2>4. m[n].signed
    <3>1. m[n].mac # NoMac
      BY <2>1, <2>2, <2>3, NotNoMac
    <3> QED BY <2>1, <3>1 DEF ConnOk, Unsigned
  <2>5. q.state = "SENT" /\ n = Len(m)
    <3>1. q.state \in {"OPEN", "SENT"} /\ n \in 2 .. Len(m)
      BY <1>4, <2>1 DEF ConnOk, HandlerOk
    <3>2. q.state # "OPEN"
      BY <2>4, <3>1 DEF StreamOk
    <3>3. n \notin 2 .. (Len(m) - 1)
      BY <2>4, <3>1, <3>2 DEF StreamOk
    <3> QED BY <2>1, <3>1, <3>2, <3>3
  <2>6. Len(m) = Len(x.wire) /\ UpTo(x.wire, Len(x.ends))
    BY <2>5 DEF ConnOk, HandlerOk
  <2>7. x.wire[n].hi = Len(x.ends)
    BY <1>1, <2>5, <2>6 DEF UpTo
  <2> QED BY <1>2, <2>7
<1> QED BY <1>1, <1>3, <1>4
-----------------------------------------------------------------------------
(* The invariant holds. *)

LEMMA SInvInit == SInit => SInv
<1> SUFFICES ASSUME SInit PROVE SInv
  OBVIOUS
<1>1. ASSUME NEW c \in Conns PROVE ConnOk(stream[c], conn[c])
  <2> DEFINE x == stream[c]
             q == conn[c]
  <2>1. /\ x.state = "NONE" /\ x.ends = <<0>> /\ x.taken = 0 /\ x.wire = <<>>
        /\ x.got = 0 /\ x.client = "READING"
    BY <1>1 DEF SInit, NotOpen
  <2>2. q.state = "IDLE" /\ q.messages = <<>>
    BY <1>1 DEF SInit, Init, Waiting
  <2> HIDE DEF x, q
  <2>3. Rows(x)
    BY <2>1, StreamAssumption DEF Rows, SizeOf
  <2>4. WireOk(x.wire) /\ Len(x.wire) = 0
    BY <2>1, NothingSent
  <2>5. Unsigned(q)
    BY <2>2, NothingSent DEF Unsigned
  <2>6. HandlerOk(x, q) /\ GotOk(x)
    BY <2>1, <2>2 DEF HandlerOk, GotOk
  <2>7. ConnOk(x, q)
    BY <2>1, <2>3, <2>4, <2>5, <2>6 DEF ConnOk
  <2> QED BY <2>7 DEF x, q
<1> QED BY <1>1 DEF SInv, SInit

\* How a step can write a connection.
LEMMA ConnSteps ==
  ASSUME SInv, Streams, [SNext]_svars, NEW c \in Conns
  PROVE  \/ \E g \in DOMAIN keys, skew \in Skews : Begin(c, g, skew)
         \/ UNCHANGED stream /\ \E g \in DOMAIN keys, skew \in Skews : Deny(c, g, skew)
         \/ Serve(c) \/ Break(c) \/ ReadFrame(c) \/ ReadEnd(c) \/ ReadPart(c)
         \/ stream'[c] = stream[c] /\ conn'[c] = conn[c]
<1>1. ASSUME KeyStep, UNCHANGED stream
      PROVE  \/ \E g \in DOMAIN keys, skew \in Skews : Deny(c, g, skew)
             \/ conn'[c] = conn[c]
  <2>1. ASSUME NEW d \in Conns, d # c, NEW g \in DOMAIN keys, NEW skew \in Skews,
               Deny(d, g, skew)
        PROVE  conn'[c] = conn[c]
    BY <2>1 DEF Deny, Streams
  <2>2. CASE conn' = conn
    BY <1>1, <2>2
  <2> QED BY <1>1, <2>1, <2>2
          DEF KeyStep, Tick, InstallStart, InstallCommits, InstallFails, Revoke
<1>2. ASSUME NEW d \in Conns, d # c,
             \/ \E g \in DOMAIN keys, skew \in Skews : Begin(d, g, skew)
             \/ Serve(d) \/ Break(d) \/ ReadFrame(d) \/ ReadEnd(d) \/ ReadPart(d)
      PROVE  stream'[c] = stream[c] /\ conn'[c] = conn[c]
  <2>1. stream'[c] = stream[c]
    BY <1>2 DEF Begin, Serve, Produce, SendLast, IdleOut, Break, ReadFrame, ReadEnd,
                ReadPart, SInv
  <2>2. conn'[c] = conn[c]
    BY <1>2 DEF Begin, Accept, Serve, Produce, SendLast, IdleOut, Break, ReadFrame,
                ReadEnd, ReadPart, Send, SendMessage, Streams, vars
  <2> QED BY <2>1, <2>2
<1>3. CASE UNCHANGED svars
  BY <1>3 DEF svars, vars
<1> QED BY <1>1, <1>2, <1>3 DEF SNext

LEMMA SInvStep == Streams /\ SInv /\ [SNext]_svars => SInv'
<1> SUFFICES ASSUME Streams, SInv, [SNext]_svars PROVE SInv'
  OBVIOUS
<1>1. DOMAIN stream' = Conns
  BY DEF SInv, SNext, svars, Begin, Serve, Produce, SendLast, IdleOut, Break, ReadFrame,
         ReadEnd, ReadPart
<1>2. ASSUME NEW c \in Conns PROVE ConnOk(stream'[c], conn'[c])
  <2> DEFINE x == stream[c]
             q == conn[c]
  <2>1. ConnOk(x, q) /\ StreamOk(q)
    BY DEF SInv, Streams
  <2>2. ASSUME NEW g \in DOMAIN keys, NEW skew \in Skews, Begin(c, g, skew)
        PROVE  ConnOk(stream'[c], conn'[c])
    <3>0. PICK s \in RowStreams :
            stream' = [stream EXCEPT ![c] = [NotOpen EXCEPT !.state = "OPEN",
                                                            !.mode = s.mode,
                                                            !.ends = s.ends]]
      BY <2>2 DEF Begin
    <3>1. PICK y :
            /\ y = [NotOpen EXCEPT !.state = "OPEN", !.mode = s.mode, !.ends = s.ends]
            /\ stream' = [stream EXCEPT ![c] = y]
      BY <3>0
    <3>2. PICK r : /\ r = [q EXCEPT !.state = "OPEN", !.key = g, !.at = now,
                                    !.expires = keys[g].expires]
                   /\ conn' = [conn EXCEPT ![c] = r]
      BY <2>2 DEF Begin, Accept
    <3>3. stream'[c] = y /\ conn'[c] = r
      BY <3>1, <3>2 DEF SInv, Streams
    <3>4. q.state = "IDLE" /\ q.messages = <<>>
      BY <2>1, <2>2 DEF Begin, Accept, StreamOk
    <3>5. r.state = "OPEN" /\ r.messages = q.messages
      BY <3>2
    <3> HIDE DEF x, q
    <3>6. ConnOk(y, r)
      BY <2>1, <3>1, <3>4, <3>5, OpenOk
    <3> QED BY <3>3, <3>6
  <2>3. ASSUME UNCHANGED stream,
               NEW g \in DOMAIN keys, NEW skew \in Skews, Deny(c, g, skew)
        PROVE  ConnOk(stream'[c], conn'[c])
    <3> DEFINE error == TsigError(keys[g].name, g, UtcNow + skew)
    <3>1. PICK r : /\ r = [q EXCEPT !.state = "DENIED", !.error = error]
                   /\ conn' = [conn EXCEPT ![c] = r]
      BY <2>3 DEF Deny
    <3>2. stream'[c] = x /\ conn'[c] = r
      BY <2>3, <3>1 DEF Streams
    <3>3. q.state = "IDLE"
      BY <2>3 DEF Deny
    <3>4. r.state = "DENIED" /\ r.messages = q.messages
      BY <3>1
    <3> HIDE DEF x, q
    <3>5. ConnOk(x, r)
      BY <2>1, <3>3, <3>4 DEF ConnOk, HandlerOk, Unsigned
    <3> QED BY <3>2, <3>5
  <2>4. ASSUME Produce(c) PROVE ConnOk(stream'[c], conn'[c])
    <3> DEFINE b == Batch(x)
    <3>1. x.state = "OPEN" /\ x.taken < Len(x.ends)
      BY <2>4 DEF Produce
    <3>2. CASE x.pending = NoRows
      <4>1. PICK y : /\ y = [x EXCEPT !.pending = b, !.taken = b.hi]
                     /\ stream' = [stream EXCEPT ![c] = y]
        BY <2>4, <3>2 DEF Produce
      <4>2. stream'[c] = y /\ conn'[c] = q
        BY <2>4, <3>2, <4>1 DEF Produce, vars, SInv
      <4>3. Packed(x, y) /\ y.wire = x.wire
        BY <3>1, <4>1 DEF Packed, Keeps
      <4> HIDE DEF x, q
      <4>4. ConnOk(y, q)
        BY <2>1, <3>1, <3>2, <4>3, ProduceOk
      <4> QED BY <4>2, <4>4
    <3>3. CASE x.pending # NoRows
      <4> DEFINE signed == x.wire = <<>>
      <4>1. PICK y : /\ y = [x EXCEPT !.pending = b, !.taken = b.hi,
                                      !.wire = Append(@, Frame(x, signed))]
                     /\ stream' = [stream EXCEPT ![c] = y]
        BY <2>4, <3>3 DEF Produce
      <4>2. stream'[c] = y
        BY <4>1 DEF SInv
      <4>3. Sent1(q, FALSE, conn'[c])
        BY <2>4, <3>3, SendUnsigned DEF Produce, Send
      <4>4. Packed(x, y) /\ y.wire = Append(x.wire, Frame(x, signed))
        BY <3>1, <4>1 DEF Packed, Keeps
      <4>5. signed \in BOOLEAN
        OBVIOUS
      <4> HIDE DEF x, q, signed
      <4>6. ConnOk(y, conn'[c])
        BY <2>1, <3>1, <3>3, <4>3, <4>4, <4>5, SendOk DEF Packed
      <4> QED BY <4>2, <4>6
    <3> QED BY <3>2, <3>3
  <2>5. ASSUME SendLast(c) PROVE ConnOk(stream'[c], conn'[c])
    <3> DEFINE f == Frame(x, TRUE)
    <3>1. PICK y : /\ y = [x EXCEPT !.state = "CLOSED", !.wire = Append(@, f)]
                   /\ stream' = [stream EXCEPT ![c] = y]
      BY <2>5 DEF SendLast
    <3>2. x.state = "OPEN" /\ x.taken = Len(x.ends)
      BY <2>5 DEF SendLast
    <3>3. stream'[c] = y
      BY <3>1 DEF SInv
    <3>4. /\ y.state = "CLOSED" /\ y.taken = x.taken /\ Keeps(x, y)
          /\ y.wire = Append(x.wire, Frame(x, TRUE))
      <4>1. y.state = "CLOSED" /\ y.taken = x.taken /\ Keeps(x, y)
        BY <3>1 DEF Keeps
      <4>2. y.wire = Append(x.wire, f)
        <5> HIDE DEF f
        <5> QED BY <3>1
      <4> QED BY <4>1, <4>2
    <3>5. Sent1(q, TRUE, conn'[c])
      BY <2>5, SendUnsigned DEF SendLast, Send
    <3> HIDE DEF x, q
    <3>6. x.pending # NoRows
      BY <2>1, <3>2 DEF ConnOk, HandlerOk, Rows
    <3>7. ConnOk(y, conn'[c])
      BY <2>1, <3>2, <3>4, <3>5, <3>6, SendOk
    <3> QED BY <3>3, <3>7
  <2>6. ASSUME IdleOut(c) \/ Break(c) PROVE ConnOk(stream'[c], conn'[c])
    <3>1. PICK y :
            /\ \/ y = [x EXCEPT !.state = "CLOSED"]
               \/ y = [x EXCEPT !.state = "CLOSED", !.wire = Append(@, Servfail)]
            /\ stream' = [stream EXCEPT ![c] = y]
      BY <2>6 DEF IdleOut, Break
    <3>2. stream'[c] = y
      BY <3>1 DEF SInv
    <3>3. conn'[c] = q /\ x.state = "OPEN"
      BY <2>6 DEF IdleOut, Break, vars
    <3>4. /\ y.state = "CLOSED" /\ y.taken = x.taken /\ Keeps(x, y)
          /\ y.wire = x.wire \/ y.wire = Append(x.wire, Servfail)
      <4>1. CASE y = [x EXCEPT !.state = "CLOSED"]
        BY <4>1 DEF Keeps
      <4>2. CASE y = [x EXCEPT !.state = "CLOSED", !.wire = Append(@, Servfail)]
        <5>1. y.state = "CLOSED" /\ y.taken = x.taken /\ Keeps(x, y)
          BY <4>2 DEF Keeps
        <5>2. y.wire = Append(x.wire, Servfail)
          BY <4>2
        <5> QED BY <5>1, <5>2
      <4> QED BY <3>1, <4>1, <4>2
    <3> HIDE DEF x, q
    <3>5. ConnOk(y, q)
      BY <2>1, <3>3, <3>4, CutOk
    <3> QED BY <3>2, <3>3, <3>5
  <2>7. ASSUME ReadFrame(c) \/ ReadPart(c) PROVE ConnOk(stream'[c], conn'[c])
    <3>1. PICK y :
            /\ \/ y = [x EXCEPT !.got = @ + 1]
               \/ y = [x EXCEPT !.client = "REJECTED"]
            /\ stream' = [stream EXCEPT ![c] = y]
      BY <2>7 DEF ReadFrame, ReadPart
    <3>2. stream'[c] = y
      BY <3>1 DEF SInv
    <3>3. conn'[c] = q /\ x.client = "READING" /\ x.got < Len(x.wire)
      BY <2>7 DEF ReadFrame, ReadPart, vars
    <3>4. /\ HandlerSame(x, y) /\ y.got \in {x.got, x.got + 1}
          /\ y.client \in {"READING", "REJECTED"}
      <4>1. CASE y = [x EXCEPT !.got = @ + 1]
        BY <3>3, <4>1 DEF HandlerSame
      <4>2. CASE y = [x EXCEPT !.client = "REJECTED"]
        BY <4>2 DEF HandlerSame
      <4> QED BY <3>1, <4>1, <4>2
    <3> HIDE DEF x, q
    <3>5. x.got \in 0 .. Len(x.wire) /\ Len(x.wire) \in Nat
      BY <2>1 DEF ConnOk, WireOk
    <3>6. x.state # "NONE"
      BY <2>1, <3>3, <3>5, NothingSent DEF ConnOk, HandlerOk
    <3>7. y.got \in 0 .. Len(x.wire) /\ GotOk(y)
      BY <3>3, <3>4, <3>5 DEF GotOk
    <3>8. ConnOk(y, q)
      BY <2>1, <3>4, <3>6, <3>7, ClientOk
    <3> QED BY <3>2, <3>3, <3>8
  <2>8. ASSUME ReadEnd(c) PROVE ConnOk(stream'[c], conn'[c])
    <3> DEFINE ok == /\ x.got > 0
                     /\ ChainAccepted(c, x.got)
                     /\ x.mode = "AXFR" => EndsLikeAnAXFR(x, x.got)
    <3>1. PICK y : /\ y = [x EXCEPT !.client = IF ok THEN "ACCEPTED" ELSE "REJECTED"]
                   /\ stream' = [stream EXCEPT ![c] = y]
      BY <2>8 DEF ReadEnd
    <3>2. stream'[c] = y
      BY <3>1 DEF SInv
    <3>3. conn'[c] = q /\ x.state # "NONE"
      BY <2>8 DEF ReadEnd, vars
    <3>4. /\ HandlerSame(x, y) /\ y.got = x.got
          /\ y.client = IF ok THEN "ACCEPTED" ELSE "REJECTED"
      BY <3>1 DEF HandlerSame
    <3>5. ok => \/ HoldsRows(x.wire, x.got, Len(x.ends))
                \/ x.got = 1 /\ (x.mode = "AXFR" => x.wire[1].hi = 1)
      BY <2>1, <3>3, AcceptedOk
    <3> HIDE DEF x, q, ok
    <3>6. GotOk(y)
      BY <3>4, <3>5 DEF GotOk, HandlerSame
    <3>7. ConnOk(y, q)
      BY <2>1, <3>3, <3>4, <3>6, ClientOk DEF ConnOk
    <3> QED BY <3>2, <3>3, <3>7
  <2> QED BY <2>1, <2>2, <2>3, <2>4, <2>5, <2>6, <2>7, <2>8, ConnSteps DEF Serve
<1> QED BY <1>1, <1>2 DEF SInv

LEMMA SInvInvariant == SSpec => []SInv
<1>1. SSpec => []Streams
  BY StreamsImplementKeys, StreamsInvariant, PTL
<1> QED BY <1>1, SInvInit, SInvStep, PTL DEF SSpec
-----------------------------------------------------------------------------
(***************************************************************************)
(* No packing of rows yields a message whose length a frame cannot say,    *)
(* provided a single row of the longest kind fits beside header and TSIG.  *)
(***************************************************************************)
THEOREM EveryFrameFits == SSpec => []FramesFit
<1>1. SInv => FramesFit
  <2> SUFFICES ASSUME SInv, NEW c \in Conns, NEW i \in DOMAIN stream[c].wire
               PROVE  stream[c].wire[i].octets <= MaxFrame
    BY DEF FramesFit
  <2>1. WireOk(stream[c].wire)
    BY DEF SInv, ConnOk
  <2>2. DOMAIN stream[c].wire = 1 .. Len(stream[c].wire)
    BY <2>1, LenProperties DEF WireOk
  <2> QED BY <2>1, <2>2 DEF WireOk
<1> QED BY <1>1, SInvInvariant, PTL

(***************************************************************************)
(* A stream sent to its end is all rows of its cursor, in their order.     *)
(***************************************************************************)
THEOREM SentStreamsAreWhole == SSpec => []SentIsWhole
<1>1. SInv /\ Streams => SentIsWhole
  <2> SUFFICES ASSUME SInv, Streams, NEW c \in Conns, conn[c].state = "SENT"
               PROVE  HoldsRows(stream[c].wire, Len(stream[c].wire), Len(stream[c].ends))
    BY DEF SentIsWhole
  <2> DEFINE w == stream[c].wire
             k == Len(stream[c].ends)
  <2>1. WireOk(w) /\ UpTo(w, k) /\ k \in Nat \ {0}
    BY DEF SInv, ConnOk, HandlerOk, Rows
  <2> HIDE DEF w, k
  <2>2. Len(w) \in 1 .. Len(w)
    BY <2>1 DEF WireOk, UpTo
  <2>3. HoldsRows(w, Len(w), w[Len(w)].hi)
    BY <2>1, <2>2, WireHolds DEF UpTo
  <2>4. w[Len(w)].hi = k
    BY <2>1, <2>2 DEF UpTo
  <2>5. HoldsRows(w, Len(w), k)
    BY <2>3, <2>4
  <2> QED BY <2>5 DEF w, k
<1>2. SSpec => []Streams
  BY StreamsImplementKeys, StreamsInvariant, PTL
<1> QED BY <1>1, <1>2, SInvInvariant, PTL

(***************************************************************************)
(* Wherever a stream is cut, the client takes what it has for the whole    *)
(* only if it is, or if it is a first message alone.                       *)
(***************************************************************************)
THEOREM AcceptedStreamsAreWhole == SSpec => []AcceptedIsWhole
<1>1. SInv => AcceptedIsWhole
  BY DEF SInv, ConnOk, GotOk, AcceptedIsWhole
<1> QED BY <1>1, SInvInvariant, PTL
-----------------------------------------------------------------------------
(* The client takes what it should. *)

\* A stream that was sent to its end passes all checks of the client.
LEMMA WholePasses ==
  ASSUME NEW c \in Conns, StreamOk(conn[c]), ConnOk(stream[c], conn[c]),
         conn[c].state = "SENT", stream[c].got = Len(stream[c].wire)
  PROVE  /\ stream[c].got > 0
         /\ ChainAccepted(c, stream[c].got)
         /\ EndsLikeAnAXFR(stream[c], stream[c].got)
<1> DEFINE x == stream[c]
           q == conn[c]
           n == x.got
           m == q.messages
<1>1. Len(m) = Len(x.wire) /\ UpTo(x.wire, Len(x.ends))
  BY DEF ConnOk, HandlerOk
<1>2. n = Len(m) /\ n \in Nat \ {0}
  BY <1>1, LenProperties DEF StreamOk
<1>3. x.wire[n].hi = Len(x.ends) /\ \A i \in 1 .. n : x.wire[i].kind = "DATA"
  BY <1>1, <1>2 DEF UpTo
<1>4. m[1].mac = Sign(c, RequestMac(c), 1)
  <2>1. m[1].mac = Mac(q.key, Append(<<0>>, 1))
    BY <1>2 DEF StreamOk
  <2> QED BY <2>1 DEF Sign, RequestMac, Mac
<1>5. n > 1 => m[n].mac = Sign(c, m[1].mac, n)
  BY <1>2 DEF StreamOk, Sign, Mac
<1>6. \A i \in 2 .. n - 1 : ~m[i].signed
  BY <1>2 DEF StreamOk
<1>7. EndsLikeAnAXFR(x, n)
  BY <1>3 DEF EndsLikeAnAXFR
<1> QED BY <1>2, <1>3, <1>4, <1>5, <1>6, <1>7 DEF ChainAccepted

\* What WholeIsAccepted says of the stream x and the connection q.
WholeOk(x, q) ==
  q.state = "SENT" /\ x.got = Len(x.wire) => x.client \in {"READING", "ACCEPTED"}

LEMMA WholeStep ==
  ASSUME SInv, Streams, WholeIsAccepted, [SNext]_svars, NEW c \in Conns
  PROVE  WholeOk(stream'[c], conn'[c])
<1> DEFINE x == stream[c]
           q == conn[c]
<1>1. ConnOk(x, q) /\ StreamOk(q) /\ WholeOk(x, q)
  BY DEF SInv, Streams, WholeIsAccepted, WholeOk
<1>2. x.state = "OPEN" => q.state = "OPEN"
  BY <1>1 DEF ConnOk, HandlerOk
<1>3. x.got \in 0 .. Len(x.wire) /\ Len(x.wire) \in Nat
  BY <1>1 DEF ConnOk, WireOk
<1>4. ASSUME NEW g \in DOMAIN keys, NEW skew \in Skews,
             Begin(c, g, skew) \/ Deny(c, g, skew)
      PROVE  WholeOk(stream'[c], conn'[c])
  <2>1. CASE Deny(c, g, skew)
    <3> DEFINE error == TsigError(keys[g].name, g, UtcNow + skew)
    <3>1. PICK r : /\ r = [q EXCEPT !.state = "DENIED", !.error = error]
                   /\ conn' = [conn EXCEPT ![c] = r]
      BY <2>1 DEF Deny
    <3>2. r.state = "DENIED"
      BY <3>1
    <3>3. conn'[c] = r
      BY <3>1 DEF Streams
    <3> QED BY <3>2, <3>3 DEF WholeOk
  <2>2. CASE Begin(c, g, skew)
    <3>1. PICK r : /\ r = [q EXCEPT !.state = "OPEN", !.key = g, !.at = now,
                                    !.expires = keys[g].expires]
                   /\ conn' = [conn EXCEPT ![c] = r]
      BY <2>2 DEF Begin, Accept
    <3>2. r.state = "OPEN"
      BY <3>1
    <3>3. conn'[c] = r
      BY <3>1 DEF Streams
    <3> QED BY <3>2, <3>3 DEF WholeOk
  <2> QED BY <1>4, <2>1, <2>2
<1>5. ASSUME Produce(c) \/ IdleOut(c) \/ Break(c)
      PROVE  WholeOk(stream'[c], conn'[c])
  <2>1. x.state = "OPEN" /\ (conn' = conn \/ SendMessage(c, FALSE))
    BY <1>5 DEF Produce, IdleOut, Break, Send, vars
  <2>2. conn'[c].state = "OPEN"
    <3>1. CASE conn' = conn
      BY <1>2, <2>1, <3>1
    <3>2. CASE SendMessage(c, FALSE)
      BY <3>2, SendUnsigned DEF Sent1
    <3> QED BY <2>1, <3>1, <3>2
  <2> QED BY <2>2 DEF WholeOk
<1>6. ASSUME SendLast(c) PROVE WholeOk(stream'[c], conn'[c])
  <2> DEFINE f == Frame(x, TRUE)
  <2>1. PICK y : /\ y = [x EXCEPT !.state = "CLOSED", !.wire = Append(@, f)]
                 /\ stream' = [stream EXCEPT ![c] = y]
    BY <1>6 DEF SendLast
  <2>2. stream'[c] = y
    BY <2>1 DEF SInv
  <2>3. y.got = x.got /\ Len(y.wire) = Len(x.wire) + 1
    <3>1. x.wire \in Seq(FrameType) /\ x.state = "OPEN" /\ x.taken = Len(x.ends)
      BY <1>1, <1>6 DEF ConnOk, WireOk, SendLast
    <3>2. x.pending # NoRows
      BY <1>1, <3>1 DEF ConnOk, HandlerOk, Rows
    <3>3. y.wire = Append(x.wire, Frame(x, TRUE)) /\ y.got = x.got
      <4> HIDE DEF f
      <4>1. y.wire = Append(x.wire, f) /\ y.got = x.got
        BY <2>1
      <4> QED BY <4>1 DEF f
    <3> HIDE DEF x, q
    <3>4. Len(y.wire) = Len(x.wire) + 1
      BY <1>1, <3>1, <3>2, <3>3, FrameMore
    <3> QED BY <3>3, <3>4
  <2> HIDE DEF x
  <2>4. y.got # Len(y.wire)
    BY <1>3, <2>3
  <2> QED BY <2>2, <2>4 DEF WholeOk
<1>7. ASSUME ReadFrame(c) \/ ReadPart(c) PROVE WholeOk(stream'[c], conn'[c])
  <2>1. PICK y :
          /\ \/ y = [x EXCEPT !.got = @ + 1]
             \/ y = [x EXCEPT !.client = "REJECTED"]
          /\ stream' = [stream EXCEPT ![c] = y]
    BY <1>7 DEF ReadFrame, ReadPart
  <2>2. stream'[c] = y
    BY <2>1 DEF SInv
  <2>3. x.client = "READING" /\ x.got < Len(x.wire)
    BY <1>7 DEF ReadFrame, ReadPart
  <2>4. \/ y.client = "READING"
        \/ y.got = x.got /\ y.wire = x.wire
    <3>1. CASE y = [x EXCEPT !.got = @ + 1]
      BY <2>3, <3>1
    <3>2. CASE y = [x EXCEPT !.client = "REJECTED"]
      BY <3>2
    <3> QED BY <2>1, <3>1, <3>2
  <2> HIDE DEF x
  <2>5. y.client = "READING" \/ y.got # Len(y.wire)
    BY <1>3, <2>3, <2>4
  <2> QED BY <2>2, <2>5 DEF WholeOk
<1>8. ASSUME ReadEnd(c) PROVE WholeOk(stream'[c], conn'[c])
  <2> DEFINE ok == /\ x.got > 0
                   /\ ChainAccepted(c, x.got)
                   /\ x.mode = "AXFR" => EndsLikeAnAXFR(x, x.got)
  <2>1. PICK y : /\ y = [x EXCEPT !.client = IF ok THEN "ACCEPTED" ELSE "REJECTED"]
                 /\ stream' = [stream EXCEPT ![c] = y]
    BY <1>8 DEF ReadEnd
  <2>2. stream'[c] = y /\ conn'[c] = q
    BY <1>8, <2>1 DEF SInv, ReadEnd, vars
  <2>3. y.got = x.got /\ y.wire = x.wire
        /\ y.client = IF ok THEN "ACCEPTED" ELSE "REJECTED"
    <3> HIDE DEF ok
    <3> QED BY <1>1, <1>8, <2>1 DEF ReadEnd
  <2>4. q.state = "SENT" /\ x.got = Len(x.wire) => ok
    BY <1>1, WholePasses
  <2> QED BY <2>2, <2>3, <2>4 DEF WholeOk
<1>9. ASSUME stream'[c] = stream[c], conn'[c] = conn[c]
      PROVE  WholeOk(stream'[c], conn'[c])
  BY <1>1, <1>9
<1> QED BY <1>4, <1>5, <1>6, <1>7, <1>8, <1>9, ConnSteps DEF Serve

(***************************************************************************)
(* A stream of any number of messages that was sent to its end and arrived *)
(* is accepted: its MACs, the messages between, and its last record are    *)
(* what the client checks for.                                             *)
(***************************************************************************)
THEOREM WholeStreamsAreAccepted == SSpec => []WholeIsAccepted
<1>1. SInit => WholeIsAccepted
  BY DEF SInit, Init, Waiting, WholeIsAccepted
<1>2. SInv /\ Streams /\ WholeIsAccepted /\ [SNext]_svars => WholeIsAccepted'
  BY WholeStep DEF WholeOk, WholeIsAccepted
<1>3. SSpec => []Streams
  BY StreamsImplementKeys, StreamsInvariant, PTL
<1> QED BY <1>1, <1>2, <1>3, SInvInvariant, PTL DEF SSpec
=============================================================================
