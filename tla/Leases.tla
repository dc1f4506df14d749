------------------------------- MODULE Leases -------------------------------
(***************************************************************************)
(* The workers of the cleanup queue (app/cleaner.py) over the tables of    *)
(* ZoneStore, with the tokens and timed leases of claim_cleanup_task: a    *)
(* claim reads the clock, waits for the write lock, commits, and then      *)
(* looks its task up again by token; run_cleanup asks for neither token    *)
(* nor lease.  Workers fail and die at any of these points.                *)
(*                                                                         *)
(* Time is relative: a lease is the seconds it has left (lease_expires     *)
(* less the current time), so the clock itself needs no bound.  A token is *)
(* the worker that made it; one that nobody will look up any more is OLD.  *)
(***************************************************************************)
EXTENDS ZoneStore

CONSTANTS
  Lease,    \* CLEANUP_LEASE_SECONDS
  LockWait  \* seconds that BEGIN IMMEDIATE waits (busy_timeout)

ASSUME LeaseAssumption ==
  /\ Lease \in Nat
  /\ LockWait \in Nat
  /\ LockWait <= Lease

VARIABLES
  lease,  \* token and lease of each task, columns of table cleanup_tasks
  worker, \* the workers' place in run_once
  met     \* history: the highest pin horizon that a cleanup has met since the
          \* zone last changed, or NoneMet

lvars == <<vars, lease, worker, met>>

OLD == "OLD"

\* "waited" is the age of a worker's clock reading; "mine" is what is left of
\* the lease it took, which the code does not keep.
Polling == [state |-> "POLLING", waited |-> 0, mine |-> -1]

\* Below this a lease need not be counted down: everybody sees it expired.
Spent == -(LockWait + 1)
NoLease == [token |-> OLD, left |-> Spent]

NoneMet == -1

LInit ==
  /\ Init
  /\ lease = <<>>
  /\ worker = [w \in Cleaners |-> Polling]
  /\ met = NoneMet
-----------------------------------------------------------------------------
(* claim_cleanup_task *)

ReadClock(w) ==
  /\ worker[w].state = "POLLING"
  /\ worker' = [worker EXCEPT ![w] = [Polling EXCEPT !.state = "CLAIMING"]]
  /\ UNCHANGED <<vars, lease, met>>

\* A defect: a lease counts as expired in its last second.
ExpiredEarly(w) == {t \in Running : lease[t].left <= -worker[w].waited}

\* lease_expires < now, where now is what the worker has read.
Expired(w) == {t \in Running : lease[t].left < -worker[w].waited}

\* A defect: work that was abandoned comes before work not begun.
AbandonedFirst(w) ==
  LET candidates == IF Expired(w) # {} THEN Expired(w) ELSE Pending
  IN  {t \in candidates : \A u \in candidates : t <= u}

\* A defect: abandoned tasks are not taken over.
PendingOnly(w) == {t \in Pending : \A u \in Pending : t <= u}

\* The oldest PENDING task; with none, the oldest whose lease ran out.
NextTask(w) ==
  LET candidates == IF Pending # {} THEN Pending ELSE Expired(w)
  IN  {t \in candidates : \A u \in candidates : t <= u}

\* The new token is on task t alone.
Leased(w, t) ==
  [u \in DOMAIN lease |->
     IF u = t THEN [token |-> w, left |-> Lease - worker[w].waited]
     ELSE IF lease[u].token = w THEN [lease[u] EXCEPT !.token = OLD]
     ELSE lease[u]]

ClaimCommits(w) ==
  /\ worker[w].state = "CLAIMING"
  /\ \E t \in NextTask(w) :
       /\ tasks' = [tasks EXCEPT ![t] = "RUNNING"]
       /\ holds' = [holds EXCEPT ![w] = t]
       /\ lease' = Leased(w, t)
  /\ worker' = [worker EXCEPT ![w].state = "CLAIMED",
                              ![w].mine = Lease - worker[w].waited]
  /\ UNCHANGED <<zone, versions, records, changes, ledger, req, call, met>>

\* There is nothing to do, the lock is not had in time, or the worker dies.
ClaimEnds(w) ==
  /\ worker[w].state = "CLAIMING"
  /\ worker' = [worker EXCEPT ![w] = Polling]
  /\ UNCHANGED <<vars, lease, met>>

\* SELECT ... WHERE token = ?, after the commit.
LookUp(w) ==
  /\ worker[w].state = "CLAIMED"
  /\ lease[holds[w]].token = w
  /\ worker' = [worker EXCEPT ![w].state = "RUNNING"]
  /\ UNCHANGED <<vars, lease, met>>

\* Another worker has claimed the task meanwhile: run_once returns False.
LookUpFails(w) ==
  /\ worker[w].state = "CLAIMED"
  /\ lease[holds[w]].token # w
  /\ CleanupAborted(w)
  /\ worker' = [worker EXCEPT ![w] = Polling]
  /\ UNCHANGED <<lease, met>>
-----------------------------------------------------------------------------
(* run_cleanup *)

\* The task is DONE even if pins held back what it was to delete, and no one
\* enqueues another when they are released.  The lease of a task that is DONE
\* is not looked at any more.
RunClaimed(w) ==
  /\ worker[w].state = "RUNNING"
  /\ \E m \in Horizons : CleanupUpTo(w, m) /\ met' = AtLeast(met, m)
  /\ worker' = [worker EXCEPT ![w] = Polling]
  /\ lease' = [lease EXCEPT ![holds[w]].left = Spent]

\* The transaction fails, or the worker dies holding a task.
WorkerFails(w) ==
  /\ worker[w].state \in {"CLAIMED", "RUNNING"}
  /\ CleanupAborted(w)
  /\ worker' = [worker EXCEPT ![w] = Polling]
  /\ UNCHANGED <<lease, met>>

WorkerStep(w) ==
  \/ ReadClock(w) \/ ClaimCommits(w) \/ ClaimEnds(w)
  \/ LookUp(w) \/ LookUpFails(w) \/ RunClaimed(w) \/ WorkerFails(w)
-----------------------------------------------------------------------------
\* A second goes by.  None waits for the lock longer than LockWait.
Tick ==
  /\ \A w \in Cleaners :
       worker[w].state = "CLAIMING" => worker[w].waited < LockWait
  /\ lease' = [t \in DOMAIN lease |->
       [lease[t] EXCEPT !.left = AtLeast(Spent, @ - 1)]]
  /\ worker' = [w \in Cleaners |->
       [worker[w] EXCEPT
          !.waited = IF worker[w].state = "CLAIMING" THEN @ + 1 ELSE @,
          !.mine = AtLeast(-1, @ - 1)]]
  /\ UNCHANGED <<vars, met>>

\* Publishes and retention changes enqueue tasks that nobody has claimed.
StoreStep ==
  /\ \/ \E z \in Creations : CreateZone(z)
     \/ \E c \in Clients : ClientStep(c)
     \/ \E k \in Retentions : SetRetention(k)
  /\ lease' = [t \in DOMAIN tasks' |->
                 IF t \in DOMAIN lease THEN lease[t] ELSE NoLease]
  /\ met' = IF zone' = zone THEN met ELSE NoneMet
  /\ UNCHANGED worker

LNext ==
  \/ StoreStep
  \/ \E w \in Cleaners : WorkerStep(w)
  \/ Tick

LSpec == LInit /\ [][LNext]_lvars

(***************************************************************************)
(* Workers poll for ever, survive exceptions and are restarted; time goes  *)
(* on.  A step that needs the database may fail, but not every time it is  *)
(* tried again: a transaction takes much less than busy_timeout or Lease.  *)
(***************************************************************************)
LFairness ==
  /\ WF_lvars(Tick)
  /\ \A w \in Cleaners :
       /\ WF_lvars(ReadClock(w)) /\ WF_lvars(ClaimEnds(w))
       /\ SF_lvars(ClaimCommits(w)) /\ SF_lvars(LookUp(w))
       /\ SF_lvars(RunClaimed(w))

LFairSpec == LSpec /\ LFairness
-----------------------------------------------------------------------------
(* Properties. *)

(***************************************************************************)
(* As long as a worker's lease lasts, its task carries its token: no other *)
(* worker has claimed the task, although the lease was counted from a      *)
(* clock that was read before the wait for the write lock and others may   *)
(* compare it with a clock as old as that.  So two workers run one task    *)
(* only after the first has outlived its lease.                            *)
(***************************************************************************)
LeaseIsExclusive ==
  \A w \in Cleaners :
    holds[w] # 0 /\ worker[w].mine >= 0 => lease[holds[w]].token = w

(***************************************************************************)
(* Whatever leases, tokens and dead workers do, the tables go through      *)
(* steps of ZoneStore only, so that its invariants hold.                   *)
(***************************************************************************)
StoreKept == Spec

(***************************************************************************)
(* Every cleanup task is eventually DONE, although workers die with tasks  *)
(* claimed and two may run the same one.                                   *)
(***************************************************************************)
TasksDrain ==
  \A t \in 1 .. (MaxTasks + Cardinality(Clients)) :
    (t \in Pending \union Running) ~> (t \in DOMAIN tasks /\ tasks[t] = "DONE")

\* Versions that retention lets go, and those that pins hold back: a cleanup
\* has run since the zone last changed, and none found the version below the
\* pin horizon.
Surplus == {v \in DOMAIN versions : v <= zone.version - zone.retain}
HeldBack(v) == met \in 0 .. v

(***************************************************************************)
(* No cleanup that is needed is forgotten, pins or no pins: when no task   *)
(* is left, a version beyond retention is there only because every cleanup *)
(* since the zone last changed met a pin that needs it, though workers     *)
(* died with tasks half done or ran them twice.  Such a version stays when *)
(* the pin is released, until the next publish or retention change.        *)
(***************************************************************************)
DoneMeansPruned ==
  (\A t \in DOMAIN tasks : tasks[t] = "DONE") => \A v \in Surplus : HeldBack(v)

(***************************************************************************)
(* History shrinks, though workers die and tasks are taken over: in the    *)
(* end only the newest retain_versions versions are there, and what a pin  *)
(* held back in every cleanup since the zone last changed.  When no pin    *)
(* was in the way of one of them, the zone is down to retain_versions.     *)
(***************************************************************************)
HistoryConverges == <>[](\A v \in Surplus : HeldBack(v))
=============================================================================
