---------------------------- MODULE LeasesProofs ----------------------------
(***************************************************************************)
(* The cleanup queue with its leases, for any number of workers and tasks  *)
(* and any length of a lease. A lease excludes other workers because the   *)
(* clock one compares it with is never ahead of the true time, however     *)
(* long ago it was read; the holder's own reading only makes the lease     *)
(* shorter.                                                                *)
(***************************************************************************)
EXTENDS Leases, ZoneStoreProofs

Holding == {"CLAIMED", "RUNNING"}
NotHolding == {"POLLING", "CLAIMING"}

LeaseRows == [token : Cleaners \union {OLD}, left : Int]
WorkerRows == [state : Holding \union NotHolding, waited : Nat, mine : Int]

\* Types of the variables that Leases adds.
WorkersTyped ==
  /\ lease \in [DOMAIN tasks -> LeaseRows]
  /\ worker \in [Cleaners -> WorkerRows]

\* A worker holds a task exactly between its claim and the end of the task.
HoldsWhatItClaimed ==
  \A w \in Cleaners :
    /\ holds[w] = 0 <=> worker[w].state \in NotHolding
    /\ holds[w] # 0 => tasks[holds[w]] # "PENDING"

\* While its lease lasts a worker has its token on its task, and the task,
\* if not DONE, has as much of the lease left.
OwnLease ==
  \A w \in Cleaners :
    holds[w] # 0 /\ worker[w].mine >= 0 =>
      /\ lease[holds[w]].token = w
      /\ tasks[holds[w]] = "RUNNING" => lease[holds[w]].left >= worker[w].mine

\* The inductive invariant.
LInv ==
  /\ Structure
  /\ WorkersTyped
  /\ HoldsWhatItClaimed
  /\ OwnLease

\* Nobody holds a task before there are any.
LEMMA LInvInit == LInit => LInv
BY StructureInit DEF LInit, Init, LInv, WorkersTyped, HoldsWhatItClaimed, OwnLease,
                     Polling, Holding, NotHolding, WorkerRows, LeaseRows

\* Writing one worker's place leaves the others theirs.
LEMMA PlaceChanges ==
  ASSUME WorkersTyped, NEW w \in Cleaners, NEW r \in WorkerRows,
         worker' = [worker EXCEPT ![w] = r]
  PROVE  /\ worker' \in [Cleaners -> WorkerRows]
         /\ worker'[w] = r
         /\ \A u \in Cleaners \ {w} : worker'[u] = worker[u]
BY DEF WorkersTyped

\* The fields of a worker's place and of a lease.
LEMMA PlaceFields ==
  ASSUME WorkersTyped, NEW w \in Cleaners
  PROVE  /\ worker[w] \in WorkerRows
         /\ worker[w].state \in Holding \union NotHolding
         /\ worker[w].waited \in Nat
         /\ worker[w].mine \in Int
BY DEF WorkersTyped, WorkerRows

\* A worker that has ended its turn.
LEMMA PollingPlace ==
  Polling \in WorkerRows /\ Polling.state \in NotHolding
BY DEF Polling, WorkerRows, NotHolding
-----------------------------------------------------------------------------
(* Every step is a step of ZoneStore. *)

\* A claim takes a task that ZoneStore lets it take.
LEMMA ClaimIsClaim ==
  ASSUME LInv, NEW w \in Cleaners, ClaimCommits(w)
  PROVE  ClaimTask(w)
<1>1. holds[w] = 0
  BY DEF ClaimCommits, LInv, HoldsWhatItClaimed, NotHolding
<1>2. NextTask(w) \subseteq Claimable
  BY DEF NextTask, Claimable, Expired
<1> QED BY <1>1, <1>2 DEF ClaimCommits, ClaimTask

\* Clocks, polling and looking up are stutters of the store.
LEMMA LeaseStepIsStoreStep ==
  ASSUME LInv, [LNext]_lvars
  PROVE  [Next]_vars
<1>1. CASE StoreStep
  BY <1>1 DEF StoreStep, Next
<1>2. ASSUME NEW w \in Cleaners, WorkerStep(w) PROVE [Next]_vars
  <2>1. CASE ClaimCommits(w)
    BY <2>1, ClaimIsClaim DEF Next, CleanerStep
  <2>2. CASE LookUpFails(w) \/ WorkerFails(w)
    BY <2>2 DEF LookUpFails, WorkerFails, Next, CleanerStep
  <2>3. CASE RunClaimed(w)
    BY <2>3 DEF RunClaimed, RunCleanup, Next, CleanerStep
  <2>4. CASE ReadClock(w) \/ ClaimEnds(w) \/ LookUp(w)
    BY <2>4 DEF ReadClock, ClaimEnds, LookUp
  <2> QED BY <1>2, <2>1, <2>2, <2>3, <2>4 DEF WorkerStep
<1>3. CASE Tick \/ UNCHANGED lvars
  BY <1>3 DEF Tick, lvars
<1> QED BY <1>1, <1>2, <1>3 DEF LNext
-----------------------------------------------------------------------------
(* The invariant is inductive. *)

\* The store's own steps append PENDING tasks and claim none.
LEMMA StoreTasks ==
  ASSUME StoreStep
  PROVE  /\ holds' = holds
         /\ tasks' = tasks \/ tasks' = Append(tasks, "PENDING")
<1>1. ASSUME NEW z \in Creations, CreateZone(z)
      PROVE  holds' = holds /\ tasks' = tasks
  BY <1>1 DEF CreateZone
<1>2. ASSUME NEW c \in Clients, ClientStep(c)
      PROVE  holds' = holds /\ (tasks' = tasks \/ tasks' = Append(tasks, "PENDING"))
  BY <1>2 DEF ClientStep, Submit, Retry, CallDropped, Publish, PublishNoZone,
              PublishReplayed, PublishRefused, PublishSerialReused, PublishCommits
<1>3. ASSUME NEW k \in Retentions, SetRetention(k)
      PROVE  holds' = holds /\ tasks' = Append(tasks, "PENDING")
  BY <1>3 DEF SetRetention
<1> QED BY <1>1, <1>2, <1>3 DEF StoreStep

\* New tasks come without a lease and leave the others' alone.
LEMMA StoreKeepsLeases ==
  ASSUME LInv, StoreStep
  PROVE  WorkersTyped' /\ HoldsWhatItClaimed' /\ OwnLease'
<1> USE DEF LInv, Structure, TypeOK
<1>1. /\ holds' = holds /\ worker' = worker
      /\ DOMAIN tasks \subseteq DOMAIN tasks'
      /\ \A t \in DOMAIN tasks : tasks'[t] = tasks[t]
  <2>1. holds' = holds /\ worker' = worker
    BY StoreTasks DEF StoreStep
  <2>2. CASE tasks' = tasks
    BY <2>1, <2>2
  <2>3. CASE tasks' = Append(tasks, "PENDING")
    BY <2>1, <2>3
  <2> QED BY <2>2, <2>3, StoreTasks
<1>2. DOMAIN lease = DOMAIN tasks
  BY DEF WorkersTyped
<1>3. /\ DOMAIN lease' = DOMAIN tasks'
      /\ \A t \in DOMAIN tasks : lease'[t] = lease[t]
      /\ \A t \in DOMAIN tasks' : t \in DOMAIN tasks \/ lease'[t] = NoLease
  BY <1>1, <1>2 DEF StoreStep
<1>4. NoLease \in LeaseRows
  BY LeaseAssumption DEF NoLease, Spent, LeaseRows
<1>5. lease' \in [DOMAIN tasks' -> LeaseRows]
  <2>1. lease' = [t \in DOMAIN tasks' |-> lease'[t]]
    BY <1>3 DEF StoreStep
  <2> QED BY <1>3, <1>4, <2>1 DEF WorkersTyped
<1>6. \A w \in Cleaners : holds[w] # 0 => holds[w] \in DOMAIN tasks
  OBVIOUS
<1> QED BY <1>1, <1>3, <1>5, <1>6 DEF WorkersTyped, HoldsWhatItClaimed, OwnLease

\* A claim: the new holder's lease is as long as it thinks, and no other
\* worker's lease was still running on that task.
LEMMA ClaimKeepsLeases ==
  ASSUME LInv, NEW w \in Cleaners, ClaimCommits(w)
  PROVE  WorkersTyped' /\ HoldsWhatItClaimed' /\ OwnLease'
<1> USE DEF LInv, Structure, TypeOK
<1>1. PICK t \in NextTask(w) :
        /\ tasks' = [tasks EXCEPT ![t] = "RUNNING"]
        /\ holds' = [holds EXCEPT ![w] = t]
        /\ lease' = Leased(w, t)
  BY DEF ClaimCommits
<1> DEFINE mine == Lease - worker[w].waited
<1> DEFINE place == [worker[w] EXCEPT !.state = "CLAIMED", !.mine = mine]
<1>2. /\ worker' = [worker EXCEPT ![w] = place]
      /\ worker[w].waited \in Nat
      /\ mine \in Int
  <2>1. worker[w].waited \in Nat
    BY PlaceFields
  <2>2. mine \in Int
    BY <2>1, LeaseAssumption
  <2>3. worker' = [worker EXCEPT ![w].state = "CLAIMED", ![w].mine = mine]
    BY DEF ClaimCommits
  <2> HIDE DEF mine
  <2>4. worker' = [worker EXCEPT ![w] = place]
    BY <2>3 DEF WorkersTyped
  <2> QED BY <2>1, <2>2, <2>4 DEF mine
<1>2a. place \in WorkerRows /\ place.state = "CLAIMED" /\ place.mine = mine
  <2> HIDE DEF mine
  <2> QED BY <1>2, PlaceFields DEF WorkerRows, Holding
<1>3. t \in DOMAIN tasks /\ t # 0 /\ DOMAIN tasks' = DOMAIN tasks
  BY <1>1 DEF NextTask, Pending, Expired, Running
<1>4. t \in Pending \/ lease[t].left < 0
  BY <1>2, <1>3 DEF NextTask, Expired, WorkersTyped, LeaseRows
<1>5. /\ DOMAIN lease' = DOMAIN tasks
      /\ lease'[t] = [token |-> w, left |-> mine]
      /\ \A u \in DOMAIN tasks \ {t} :
           lease[u].token # w => lease'[u] = lease[u]
  <2>1. DOMAIN lease = DOMAIN tasks
    BY DEF WorkersTyped
  <2>2. DOMAIN lease' = DOMAIN tasks
    BY <1>1, <2>1 DEF Leased
  <2>3. lease'[t] = [token |-> w, left |-> mine]
    BY <1>1, <1>3, <2>1 DEF Leased
  <2>4. ASSUME NEW u \in DOMAIN tasks \ {t}, lease[u].token # w
        PROVE  lease'[u] = lease[u]
    BY <1>1, <2>1, <2>4 DEF Leased
  <2> QED BY <2>2, <2>3, <2>4
<1> HIDE DEF mine, place
<1>6. WorkersTyped'
  <2>1. lease' \in [DOMAIN tasks' -> LeaseRows]
    <3>1. ASSUME NEW u \in DOMAIN tasks PROVE lease'[u] \in LeaseRows
      <4>1. lease[u] \in LeaseRows /\ u \in DOMAIN lease
        BY DEF WorkersTyped
      <4>2. CASE u = t
        BY <1>2, <1>5, <4>2 DEF LeaseRows
      <4>3. CASE u # t /\ lease[u].token = w
        <5>1. lease'[u] = [lease[u] EXCEPT !.token = OLD]
          BY <1>1, <4>1, <4>3 DEF Leased
        <5> QED BY <4>1, <5>1 DEF LeaseRows
      <4>4. CASE u # t /\ lease[u].token # w
        BY <1>5, <4>1, <4>4
      <4> QED BY <4>2, <4>3, <4>4
    <3>2. lease' = [u \in DOMAIN lease |-> lease'[u]]
      BY <1>1 DEF Leased
    <3> QED BY <1>3, <1>5, <3>1, <3>2 DEF WorkersTyped
  <2>2. worker' \in [Cleaners -> WorkerRows]
    BY <1>2, <1>2a, PlaceChanges
  <2> QED BY <2>1, <2>2 DEF WorkersTyped
<1>7. ASSUME NEW u \in Cleaners, u # w
      PROVE  holds'[u] = holds[u] /\ worker'[u] = worker[u]
  BY <1>1, <1>2, <1>2a, <1>7, PlaceChanges
<1>8. holds'[w] = t /\ worker'[w].state = "CLAIMED" /\ worker'[w].mine = mine
  BY <1>1, <1>2, <1>2a, PlaceChanges
<1>9. HoldsWhatItClaimed'
  BY <1>1, <1>3, <1>7, <1>8 DEF HoldsWhatItClaimed, NotHolding
<1>10. OwnLease'
  <2> SUFFICES ASSUME NEW u \in Cleaners, holds'[u] # 0, worker'[u].mine >= 0
               PROVE  /\ lease'[holds'[u]].token = u
                      /\ tasks'[holds'[u]] = "RUNNING"
                           => lease'[holds'[u]].left >= worker'[u].mine
    BY DEF OwnLease
  <2>1. CASE u = w
    BY <1>2, <1>5, <1>8, <2>1
  <2>2. CASE u # w
    <3>1. /\ holds'[u] = holds[u] /\ worker'[u] = worker[u]
          /\ holds[u] \in DOMAIN tasks
      BY <1>7, <2>2
    <3>2. /\ lease[holds[u]].token = u
          /\ tasks[holds[u]] # "PENDING"
          /\ tasks[holds[u]] = "RUNNING" => lease[holds[u]].left >= worker[u].mine
      BY <3>1 DEF OwnLease, HoldsWhatItClaimed
    <3>3. holds[u] # t
      <4> SUFFICES ASSUME holds[u] = t PROVE FALSE
        OBVIOUS
      <4>1. t \in Running
        BY <1>1, <3>2 DEF NextTask, Expired, Pending
      <4>2. lease[t].left \in Int /\ worker[u].mine \in Int
        BY <1>3, PlaceFields DEF WorkersTyped, LeaseRows
      <4> QED BY <1>4, <3>1, <3>2, <4>1, <4>2 DEF Pending, Running
    <3> QED BY <1>1, <1>5, <2>2, <3>1, <3>2, <3>3
  <2> QED BY <2>1, <2>2
<1> QED BY <1>6, <1>9, <1>10

\* A worker that ends its turn gives up what it holds, a task it ran is DONE.
LEMMA RunKeepsLeases ==
  ASSUME LInv, NEW w \in Cleaners, RunClaimed(w)
  PROVE  WorkersTyped' /\ HoldsWhatItClaimed' /\ OwnLease'
<1> USE DEF LInv, Structure, TypeOK
<1> DEFINE t == holds[w]
<1>1. /\ t \in DOMAIN tasks
      /\ tasks' = [tasks EXCEPT ![t] = "DONE"]
      /\ holds' = [holds EXCEPT ![w] = 0]
      /\ lease' = [lease EXCEPT ![t].left = Spent]
      /\ worker' = [worker EXCEPT ![w] = Polling]
  BY DEF RunClaimed, CleanupUpTo
<1>2. Spent \in Int
  BY LeaseAssumption DEF Spent
<1>3. WorkersTyped'
  <2>1. lease' \in [DOMAIN tasks' -> LeaseRows]
    <3>1. lease[t] \in LeaseRows /\ lease \in [DOMAIN tasks -> LeaseRows]
      BY <1>1 DEF WorkersTyped
    <3>2. [lease[t] EXCEPT !.left = Spent] \in LeaseRows
      BY <1>2, <3>1 DEF LeaseRows
    <3>3. lease' = [lease EXCEPT ![t] = [lease[t] EXCEPT !.left = Spent]]
      BY <1>1, <3>1
    <3>4. DOMAIN tasks' = DOMAIN tasks
      BY <1>1
    <3> QED BY <3>1, <3>2, <3>3, <3>4
  <2>2. worker' \in [Cleaners -> WorkerRows]
    BY <1>1, PlaceChanges, PollingPlace
  <2> QED BY <2>1, <2>2 DEF WorkersTyped
<1>4. HoldsWhatItClaimed'
  BY <1>1, PlaceChanges, PollingPlace DEF HoldsWhatItClaimed
<1>5. OwnLease'
  <2> SUFFICES ASSUME NEW u \in Cleaners, holds'[u] # 0, worker'[u].mine >= 0
               PROVE  /\ lease'[holds'[u]].token = u
                      /\ tasks'[holds'[u]] = "RUNNING"
                           => lease'[holds'[u]].left >= worker'[u].mine
    BY DEF OwnLease
  <2>1. u # w /\ holds'[u] = holds[u] /\ worker'[u] = worker[u]
    BY <1>1, PlaceChanges, PollingPlace
  <2>2. /\ lease[holds[u]].token = u
        /\ tasks[holds[u]] = "RUNNING" => lease[holds[u]].left >= worker[u].mine
        /\ holds[u] \in DOMAIN tasks
    BY <2>1 DEF OwnLease
  <2>3. lease'[holds[u]].token = lease[holds[u]].token
    BY <1>1, <2>2 DEF WorkersTyped, LeaseRows
  <2>4. CASE holds[u] = t
    BY <1>1, <2>1, <2>2, <2>3, <2>4
  <2>5. CASE holds[u] # t
    BY <1>1, <2>1, <2>2, <2>3, <2>5
  <2> QED BY <2>4, <2>5
<1> QED BY <1>3, <1>4, <1>5

\* Reading the clock, looking up and giving up change one worker, no lease.
LEMMA TurnsKeepLeases ==
  ASSUME LInv, NEW w \in Cleaners,
         ReadClock(w) \/ ClaimEnds(w) \/ LookUp(w) \/ LookUpFails(w) \/ WorkerFails(w)
  PROVE  WorkersTyped' /\ HoldsWhatItClaimed' /\ OwnLease'
<1> USE DEF LInv, Structure, TypeOK
<1>1. lease' = lease /\ tasks' = tasks
  BY DEF ReadClock, ClaimEnds, LookUp, LookUpFails, WorkerFails, CleanupAborted, vars
<1>2. CASE ReadClock(w) \/ ClaimEnds(w)
  <2> DEFINE claiming == [Polling EXCEPT !.state = "CLAIMING"]
  <2>1. claiming \in WorkerRows /\ claiming.state \in NotHolding
    BY DEF Polling, WorkerRows, NotHolding
  <2>2. /\ holds' = holds
        /\ worker[w].state \in NotHolding
        /\ \E r \in {claiming, Polling} : worker' = [worker EXCEPT ![w] = r]
    BY <1>2 DEF ReadClock, ClaimEnds, vars, NotHolding
  <2>3. /\ worker' \in [Cleaners -> WorkerRows]
        /\ worker'[w].state \in NotHolding
        /\ \A u \in Cleaners \ {w} : worker'[u] = worker[u]
    <3> HIDE DEF claiming
    <3> QED BY <2>1, <2>2, PlaceChanges, PollingPlace
  <2> QED BY <1>1, <2>2, <2>3 DEF HoldsWhatItClaimed, OwnLease, WorkersTyped
<1>3. CASE LookUp(w)
  <2> DEFINE place == [worker[w] EXCEPT !.state = "RUNNING"]
  <2>1. /\ place \in WorkerRows /\ place.state \notin NotHolding
        /\ place.mine = worker[w].mine
    BY PlaceFields DEF WorkerRows, Holding, NotHolding
  <2>2. /\ holds' = holds
        /\ worker[w].state \notin NotHolding
        /\ worker' = [worker EXCEPT ![w] = place]
    BY <1>3 DEF LookUp, vars, NotHolding
  <2> HIDE DEF place
  <2>3. /\ worker' \in [Cleaners -> WorkerRows]
        /\ worker'[w] = place
        /\ \A u \in Cleaners \ {w} : worker'[u] = worker[u]
    BY <2>1, <2>2, PlaceChanges
  <2> QED BY <1>1, <2>1, <2>2, <2>3 DEF HoldsWhatItClaimed, OwnLease, WorkersTyped
<1>4. CASE LookUpFails(w) \/ WorkerFails(w)
  <2>1. /\ holds' = [holds EXCEPT ![w] = 0]
        /\ worker' = [worker EXCEPT ![w] = Polling]
    BY <1>4 DEF LookUpFails, WorkerFails, CleanupAborted
  <2>2. /\ worker' \in [Cleaners -> WorkerRows]
        /\ worker'[w].state \in NotHolding
        /\ \A u \in Cleaners \ {w} : worker'[u] = worker[u]
    BY <2>1, PlaceChanges, PollingPlace
  <2>3. holds'[w] = 0 /\ \A u \in Cleaners \ {w} : holds'[u] = holds[u]
    BY <2>1
  <2> QED BY <1>1, <2>2, <2>3 DEF HoldsWhatItClaimed, OwnLease, WorkersTyped
<1> QED BY <1>2, <1>3, <1>4

\* Leases and what their holders have left of them run down together.
LEMMA TickKeepsLeases ==
  ASSUME LInv, Tick
  PROVE  WorkersTyped' /\ HoldsWhatItClaimed' /\ OwnLease'
<1> USE DEF LInv, Structure, TypeOK
<1>1. tasks' = tasks /\ holds' = holds
  BY DEF Tick, vars
<1>2. Spent \in Int
  BY LeaseAssumption DEF Spent
<1>3. ASSUME NEW t \in DOMAIN tasks
      PROVE  /\ lease'[t] \in LeaseRows
             /\ lease'[t].token = lease[t].token
             /\ lease'[t].left >= lease[t].left - 1
             /\ lease[t].left \in Int
  <2> DEFINE l == lease[t]
             n == AtLeast(Spent, l.left - 1)
  <2>1. l \in LeaseRows /\ l.left \in Int
    BY DEF WorkersTyped, LeaseRows
  <2>2. lease'[t] = [l EXCEPT !.left = n]
    BY DEF Tick, WorkersTyped
  <2>3. n \in Int /\ n >= l.left - 1
    BY <1>2, <2>1 DEF AtLeast
  <2> HIDE DEF l, n
  <2>4. lease'[t] \in LeaseRows /\ lease'[t].token = l.token /\ lease'[t].left = n
    BY <2>1, <2>2, <2>3 DEF LeaseRows
  <2> QED BY <2>1, <2>3, <2>4 DEF l
<1>4. ASSUME NEW w \in Cleaners
      PROVE  /\ worker'[w] \in WorkerRows
             /\ worker'[w].state = worker[w].state
             /\ worker'[w].mine >= 0 => worker'[w].mine = worker[w].mine - 1
             /\ worker[w].mine \in Int
  <2> DEFINE p == worker[w]
             m == AtLeast(-1, p.mine - 1)
             a == IF p.state = "CLAIMING" THEN p.waited + 1 ELSE p.waited
  <2>1. worker'[w] = [p EXCEPT !.waited = a, !.mine = m]
    BY DEF Tick
  <2>2. p \in WorkerRows /\ p.waited \in Nat /\ p.mine \in Int
    BY PlaceFields
  <2>3. a \in Nat /\ m \in Int /\ (m >= 0 => m = p.mine - 1)
    BY <2>2 DEF AtLeast
  <2> HIDE DEF p, m, a
  <2>4. /\ worker'[w] \in WorkerRows
        /\ worker'[w].state = p.state /\ worker'[w].mine = m
    BY <2>1, <2>2, <2>3 DEF WorkerRows
  <2> QED BY <2>2, <2>3, <2>4 DEF p
<1>5. WorkersTyped'
  <2>1. lease' \in [DOMAIN tasks' -> LeaseRows]
    <3>1. lease' = [t \in DOMAIN tasks' |-> lease'[t]]
      BY <1>1 DEF Tick, WorkersTyped
    <3> QED BY <1>1, <1>3, <3>1
  <2>2. worker' \in [Cleaners -> WorkerRows]
    <3>1. worker' = [w \in Cleaners |-> worker'[w]]
      BY DEF Tick
    <3> QED BY <1>4, <3>1
  <2> QED BY <2>1, <2>2 DEF WorkersTyped
<1>6. HoldsWhatItClaimed'
  BY <1>1, <1>4 DEF HoldsWhatItClaimed
<1>7. OwnLease'
  <2> SUFFICES ASSUME NEW w \in Cleaners, holds[w] # 0, worker'[w].mine >= 0
               PROVE  /\ lease'[holds[w]].token = w
                      /\ tasks[holds[w]] = "RUNNING"
                           => lease'[holds[w]].left >= worker'[w].mine
    BY <1>1 DEF OwnLease
  <2>1. holds[w] \in DOMAIN tasks /\ worker[w].mine >= 0
    BY <1>4
  <2>2. /\ lease[holds[w]].token = w
        /\ tasks[holds[w]] = "RUNNING" => lease[holds[w]].left >= worker[w].mine
    BY <2>1 DEF OwnLease
  <2>3. /\ lease'[holds[w]].token = lease[holds[w]].token
        /\ lease'[holds[w]].left >= lease[holds[w]].left - 1
        /\ lease[holds[w]].left \in Int
    BY <1>3, <2>1
  <2>4. lease'[holds[w]].left \in Int
    BY <1>3, <2>1 DEF LeaseRows
  <2> QED BY <1>4, <2>2, <2>3, <2>4
<1> QED BY <1>5, <1>6, <1>7

\* LInv is inductive.
LEMMA LInvStep == LInv /\ [LNext]_lvars => LInv'
<1> SUFFICES ASSUME LInv, [LNext]_lvars PROVE LInv'
  OBVIOUS
<1>1. Structure'
  BY LeaseStepIsStoreStep, StructureStep DEF LInv
<1>2. WorkersTyped' /\ HoldsWhatItClaimed' /\ OwnLease'
  <2>1. CASE StoreStep
    BY <2>1, StoreKeepsLeases
  <2>2. ASSUME NEW w \in Cleaners, WorkerStep(w)
        PROVE  WorkersTyped' /\ HoldsWhatItClaimed' /\ OwnLease'
    BY <2>2, ClaimKeepsLeases, RunKeepsLeases, TurnsKeepLeases DEF WorkerStep
  <2>3. CASE Tick
    BY <2>3, TickKeepsLeases
  <2>4. CASE UNCHANGED lvars
    BY <2>4 DEF lvars, vars, LInv, WorkersTyped, HoldsWhatItClaimed, OwnLease
  <2> QED BY <2>1, <2>2, <2>3, <2>4 DEF LNext
<1> QED BY <1>1, <1>2 DEF LInv

\* LInv is an invariant of the queue.
LEMMA LInvInvariant == LSpec => []LInv
BY LInvInit, LInvStep, PTL DEF LSpec
-----------------------------------------------------------------------------
(***************************************************************************)
(* Leases implements ZoneStore: whatever tokens, clocks and dead workers   *)
(* do, the tables take steps of ZoneStore only, so that every theorem      *)
(* about the store holds with the queue as it really is.                   *)
(***************************************************************************)
THEOREM LeasesImplementStore == LSpec => StoreKept
<1>1. LInit => Init
  BY DEF LInit
<1>2. LInv /\ [LNext]_lvars => [Next]_vars
  BY LeaseStepIsStoreStep
<1> QED BY <1>1, <1>2, LInvInvariant, PTL DEF LSpec, Spec, StoreKept

(***************************************************************************)
(* No worker takes over a task while the lease of another lasts, however   *)
(* long either has waited for the write lock with a clock already read.    *)
(***************************************************************************)
THEOREM LeasesExclude == LSpec => []LeaseIsExclusive
<1>1. LInv => LeaseIsExclusive
  BY DEF LInv, OwnLease, LeaseIsExclusive
<1> QED BY <1>1, LInvInvariant, PTL
-----------------------------------------------------------------------------
(* When the queue is empty, history is pruned but for what pins held back. *)

AllDone == \A t \in DOMAIN tasks : tasks[t] = "DONE"

\* What is beyond retention is not below a horizon that a cleanup has met
\* since the zone last changed; and if no task is left there was a cleanup,
\* unless nothing is beyond retention.
HeldOrDue ==
  /\ met \in {NoneMet} \union Nat
  /\ \A v \in Surplus : met <= v
  /\ AllDone => met # NoneMet \/ Surplus = {}

\* A task that is claimed or added is one that is not done.
LEMMA NotAllDone ==
  ASSUME Structure,
         \/ \E w \in Cleaners : ClaimTask(w)
         \/ tasks' = Append(tasks, "PENDING")
  PROVE  ~AllDone'
<1> USE DEF Structure, TypeOK
<1>1. CASE tasks' = Append(tasks, "PENDING")
  <2>1. Len(tasks) + 1 \in DOMAIN tasks' /\ tasks'[Len(tasks) + 1] = "PENDING"
    BY <1>1
  <2> QED BY <2>1 DEF AllDone
<1>2. ASSUME NEW w \in Cleaners, ClaimTask(w) PROVE ~AllDone'
  <2>1. PICK t \in Claimable : tasks' = [tasks EXCEPT ![t] = "RUNNING"]
    BY <1>2 DEF ClaimTask
  <2>2. t \in DOMAIN tasks
    BY DEF Claimable, Pending, Running
  <2> QED BY <2>1, <2>2 DEF AllDone
<1> QED BY <1>1, <1>2

\* A cleanup leaves no surplus below its horizon.
LEMMA CleanupLeavesHeld ==
  ASSUME Structure, HeldOrDue, NEW w \in Cleaners, RunClaimed(w)
  PROVE  HeldOrDue'
<1> USE DEF Structure, TypeOK
<1>1. PICK m \in Horizons : CleanupUpTo(w, m) /\ met' = AtLeast(met, m)
  BY DEF RunClaimed
<1>2. m \in Nat
  BY DEF Horizons, NoPin
<1>3. met' \in Nat /\ met' # NoneMet /\ (met' = met \/ met' = m)
  BY <1>1, <1>2 DEF HeldOrDue, NoneMet, AtLeast
<1>4. zone' = zone /\ DOMAIN versions' \subseteq {v \in DOMAIN versions : v >= DeleteBefore(m)}
  BY <1>1 DEF CleanupUpTo, Restrict
<1>5. ASSUME NEW v \in Surplus' PROVE met' <= v
  <2>1. v \in Surplus /\ v \in Nat /\ v >= DeleteBefore(m) /\ v <= zone.version - zone.retain
    BY <1>4 DEF Surplus
  <2>2. m <= v
    BY <1>2, <2>1 DEF DeleteBefore, AtMost, AtLeast
  <2>3. met <= v
    BY <2>1 DEF HeldOrDue
  <2> QED BY <1>3, <2>2, <2>3
<1> QED BY <1>3, <1>5 DEF HeldOrDue

\* A step of the store that changes the zone makes the cleanups so far
\* forgotten, and adds a task, unless it creates the zone.
LEMMA StoreLeavesDue ==
  ASSUME Structure, HeldOrDue, StoreStep
  PROVE  HeldOrDue'
<1> USE DEF Structure, TypeOK
<1>1. met' \in {met, NoneMet} /\ (zone' # zone => met' = NoneMet)
  BY DEF StoreStep
<1>2. ASSUME NEW z \in Creations, CreateZone(z) PROVE Surplus' = {}
  <2>1. /\ zone'.version = 0 /\ zone'.retain = z.retain
        /\ DOMAIN versions' = {0}
    BY <1>2 DEF CreateZone, Insert, EmptyBeforeCreation
  <2>2. z.retain \in Nat \ {0}
    BY StoreAssumption
  <2> QED BY <2>1, <2>2 DEF Surplus
<1>3. \/ \E z \in Creations : CreateZone(z)
      \/ UNCHANGED <<zone, versions, tasks>>
      \/ /\ tasks' = Append(tasks, "PENDING")
         /\ zone' = zone => versions' = versions
  <2>1. ASSUME NEW c \in Clients, ClientStep(c)
        PROVE  \/ UNCHANGED <<zone, versions, tasks>>
               \/ tasks' = Append(tasks, "PENDING") /\ zone' # zone
    <3>1. ASSUME NEW n \in 1 .. MaxAttempts, PublishCommits(c, n)
          PROVE  tasks' = Append(tasks, "PENDING") /\ zone' # zone
      <4>1. zone'.version = zone.version + 1
        BY <3>1 DEF PublishCommits
      <4>2. zone.version \in Nat
        OBVIOUS
      <4>3. tasks' = Append(tasks, "PENDING")
        BY <3>1 DEF PublishCommits
      <4> QED BY <4>1, <4>2, <4>3
    <3> QED BY <2>1, <3>1 DEF ClientStep, Submit, Retry, CallDropped, Publish,
                PublishNoZone, PublishReplayed, PublishRefused, PublishSerialReused
  <2>2. ASSUME NEW k \in Retentions, SetRetention(k)
        PROVE  tasks' = Append(tasks, "PENDING") /\ versions' = versions
    BY <2>2 DEF SetRetention
  <2> QED BY <2>1, <2>2 DEF StoreStep
<1>4. \A v \in DOMAIN versions' : v \in Nat
  BY StructureStep DEF StoreStep, Next
<1>5. CASE \E z \in Creations : CreateZone(z)
  BY <1>1, <1>2, <1>5 DEF HeldOrDue
<1>6. CASE UNCHANGED <<zone, versions, tasks>>
  BY <1>1, <1>6 DEF StoreStep, HeldOrDue, Surplus, AllDone
<1>7. CASE tasks' = Append(tasks, "PENDING") /\ (zone' = zone => versions' = versions)
  <2>1. ~AllDone'
    BY <1>7, NotAllDone
  <2>2. CASE zone' = zone
    BY <1>7, <2>1, <2>2 DEF StoreStep, HeldOrDue, Surplus
  <2>3. CASE zone' # zone
    BY <1>1, <1>4, <2>1, <2>3 DEF HeldOrDue, Surplus, NoneMet
  <2> QED BY <2>2, <2>3
<1> QED BY <1>3, <1>5, <1>6, <1>7

LEMMA HeldOrDueStep == LInv /\ HeldOrDue /\ [LNext]_lvars => HeldOrDue'
<1> SUFFICES ASSUME LInv, HeldOrDue, [LNext]_lvars PROVE HeldOrDue'
  OBVIOUS
<1>1. ASSUME UNCHANGED <<zone, versions, tasks, met>> PROVE HeldOrDue'
  BY <1>1 DEF HeldOrDue, Surplus, AllDone
<1>2. CASE StoreStep
  BY <1>2, StoreLeavesDue DEF LInv
<1>3. ASSUME NEW w \in Cleaners, WorkerStep(w) PROVE HeldOrDue'
  <2>1. CASE RunClaimed(w)
    BY <2>1, CleanupLeavesHeld DEF LInv
  <2>2. CASE ClaimCommits(w)
    <3>1. ~AllDone'
      BY <2>2, ClaimIsClaim, NotAllDone DEF LInv
    <3> QED BY <2>2, <3>1 DEF ClaimCommits, HeldOrDue, Surplus
  <2>3. CASE LookUpFails(w) \/ WorkerFails(w)
    BY <1>1, <2>3 DEF LookUpFails, WorkerFails, CleanupAborted
  <2>4. CASE ReadClock(w) \/ ClaimEnds(w) \/ LookUp(w)
    BY <1>1, <2>4 DEF ReadClock, ClaimEnds, LookUp, vars
  <2> QED BY <1>3, <2>1, <2>2, <2>3, <2>4 DEF WorkerStep
<1>4. CASE Tick \/ UNCHANGED lvars
  BY <1>1, <1>4 DEF Tick, lvars, vars
<1> QED BY <1>2, <1>3, <1>4 DEF LNext

(***************************************************************************)
(* When every cleanup task is done, a version that retention lets go is    *)
(* there only because pins held it back in every cleanup since the zone    *)
(* last changed, and there was one: in whatever order the tasks ran,       *)
(* whatever pins they met and however often workers died with one.         *)
(***************************************************************************)
THEOREM NoCleanupForgotten == LSpec => []DoneMeansPruned
<1>1. LInit => HeldOrDue
  BY DEF LInit, Init, HeldOrDue, Surplus, Empty
<1>2. LInv /\ HeldOrDue => DoneMeansPruned
  <2> SUFFICES ASSUME LInv, HeldOrDue, AllDone, NEW v \in Surplus
               PROVE  met \in 0 .. v
    BY DEF DoneMeansPruned, AllDone, HeldBack
  <2>1. v \in Nat
    BY DEF LInv, Structure, TypeOK, Surplus
  <2>2. met \in Nat /\ met <= v
    BY DEF HeldOrDue
  <2> QED BY <2>1, <2>2
<1> QED BY <1>1, <1>2, LInvInvariant, HeldOrDueStep, PTL DEF LSpec
=============================================================================
