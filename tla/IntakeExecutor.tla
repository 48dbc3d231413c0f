--------------------------- MODULE IntakeExecutor ----------------------------
(* The off-intake executor of the session supervisor (exec.rs): one ordered   *)
(* queue of deferred command bodies per session key, drained by one spawned   *)
(* worker, heavy (launch) bodies bounded by a semaphore, and the reservations *)
(* that keep a launching session addressable while its body runs.             *)
(*                                                                            *)
(* The mutex sections of the code are the atomic steps: enqueue, the pop, the *)
(* settle.  Between them a worker waits for a permit and for its body.        *)
EXTENDS Integers, FiniteSets, SequencesExt

CONSTANTS Keys,          \* queue keys
          Ids,           \* session ids a job may reserve as pending routes
          Delegations,   \* peer-delegation ids
          Jobs,          \* every job that may be enqueued
          NoKey, NoJob, NoDelegation,
          MAX_CONCURRENT_LAUNCH_BODIES

ASSUME LaunchBoundAssumption ==
         MAX_CONCURRENT_LAUNCH_BODIES \in Nat \ {0}
ASSUME JobsAssumption == IsFiniteSet(Jobs)
ASSUME AbsentAssumption ==
         /\ NoKey \notin Keys
         /\ NoJob \notin Jobs
         /\ NoDelegation \notin Delegations

VARIABLES
  job,            \* the IntakeJob as enqueued
  stage,          \* where that job is: new, queued, taken by a worker, settled
  queues,         \* key -> QueueEntry
  routes,         \* session id -> Reservation
  delegations,    \* delegation id -> Reservation
  pendingHeavy,   \* queue keys of unsettled heavy jobs, in enqueue order
  permits,        \* free launch permits
  waiters,        \* workers waiting for a permit, first come first served
  workers,        \* the spawned worker tasks, named for the job that spawned them
  submitted       \* history: the jobs in enqueue order

queueVars == <<job, stage, queues, submitted>>
holdVars  == <<routes, delegations, pendingHeavy>>
workVars  == <<permits, waiters, workers>>
vars == <<queueVars, holdVars, workVars>>

IntakeJob == [key : Keys \cup {NoKey}, heavy : BOOLEAN, routes : SUBSET Ids,
              delegation : Delegations \cup {NoDelegation}]
QueueEntry == [present : BOOLEAN, jobs : Seq(Jobs), worker_running : BOOLEAN]
Reservation == [key : Keys \cup {NoKey}, refs : Nat]
Worker == [pc : {"none", "pop", "permit", "run", "settle", "gone"},
           key : Keys \cup {NoKey}, job : Jobs \cup {NoJob}]

NoEntry == [present |-> FALSE, jobs |-> <<>>, worker_running |-> FALSE]
NoReservation == [key |-> NoKey, refs |-> 0]

Light(k) == [key |-> k, heavy |-> FALSE, routes |-> {}, delegation |-> NoDelegation]
Heavy(k, R, d) == [key |-> k, heavy |-> TRUE, routes |-> R, delegation |-> d]

------------------------------------------------------------------------------
(* Reservations and the read side of the executor. *)

\* A second reservation only counts up: the key of the first one stays.
Reserve(m, S, k) ==
  [id \in DOMAIN m |->
     IF id \notin S THEN m[id]
     ELSE IF m[id].refs = 0 THEN [key |-> k, refs |-> 1]
     ELSE [m[id] EXCEPT !.refs = @ + 1]]

\* Mutant: the entry goes with the first of its holders.
ReleaseAll(m, S, k) ==
  [id \in DOMAIN m |->
     IF id \notin S \/ m[id].refs = 0 \/ m[id].key # k THEN m[id] ELSE NoReservation]

\* A release by another key is ignored.
Release(m, S, k) ==
  [id \in DOMAIN m |->
     IF id \notin S \/ m[id].refs = 0 \/ m[id].key # k THEN m[id]
     ELSE IF m[id].refs = 1 THEN NoReservation
     ELSE [m[id] EXCEPT !.refs = @ - 1]]

QueueBusy(k) == queues[k].present
HasRoute(id) == routes[id].refs > 0
RouteKey(id) == routes[id].key
PendingDelegationKey(d) == delegations[d].key
LatestPendingHeavyKey == IF pendingHeavy = <<>> THEN NoKey ELSE Last(pendingHeavy)

\* Mutant: every enqueue spawns a worker.
AlwaysSpawn(k) == TRUE

NeedsWorker(k) == ~queues[k].worker_running

\* Mutants: the permit outlives the body; a light body frees a permit too.
NoPermitFreed(j) == 0
AnyBodyFreesPermit(j) == 1

PermitsFreed(j) == IF job[j].heavy THEN 1 ELSE 0

\* Mutant: retain(|k| k != key) instead of removing one position.
DropEveryKey(j) == SelectSeq(pendingHeavy, LAMBDA k : k # job[j].key)

\* Only the first entry of the settled job's key goes.
HeavyKeysWithout(j) == RemoveFirst(pendingHeavy, job[j].key)

------------------------------------------------------------------------------
Init ==
  /\ job = [j \in Jobs |-> Light(NoKey)]
  /\ stage = [j \in Jobs |-> "new"]
  /\ queues = [k \in Keys |-> NoEntry]
  /\ routes = [id \in Ids |-> NoReservation]
  /\ delegations = [d \in Delegations |-> NoReservation]
  /\ pendingHeavy = <<>>
  /\ permits = MAX_CONCURRENT_LAUNCH_BODIES
  /\ waiters = <<>>
  /\ workers = [w \in Jobs |-> [pc |-> "none", key |-> NoKey, job |-> NoJob]]
  /\ submitted = <<>>

\* enqueue: reservations, queue entry and the decision to spawn are one section.
Enqueue(j, ij) ==
  /\ stage[j] = "new"
  /\ stage' = [stage EXCEPT ![j] = "queued"]
  /\ job' = [job EXCEPT ![j] = ij]
  /\ submitted' = Append(submitted, j)
  /\ routes' = Reserve(routes, ij.routes, ij.key)
  /\ delegations' = Reserve(delegations, {ij.delegation}, ij.key)
  /\ pendingHeavy' = IF ij.heavy THEN Append(pendingHeavy, ij.key) ELSE pendingHeavy
  /\ queues' = [queues EXCEPT ![ij.key] = [present |-> TRUE,
                                           jobs |-> Append(@.jobs, j),
                                           worker_running |-> TRUE]]
  /\ workers' = IF NeedsWorker(ij.key)
                THEN [workers EXCEPT ![j] = [pc |-> "pop", key |-> ij.key, job |-> NoJob]]
                ELSE workers
  /\ UNCHANGED <<permits, waiters>>

\* run_worker's pop, with a job: a heavy one goes for a permit, a light one runs.
Pop(w) ==
  LET k == workers[w].key
      j == Head(queues[k].jobs)
  IN /\ workers[w].pc = "pop"
     /\ queues[k].jobs # <<>>
     /\ queues' = [queues EXCEPT ![k].jobs = Tail(@)]
     /\ stage' = [stage EXCEPT ![j] = "taken"]
     /\ workers' = [workers EXCEPT ![w].job = j,
                                   ![w].pc = IF job[j].heavy THEN "permit" ELSE "run"]
     /\ waiters' = IF job[j].heavy THEN Append(waiters, w) ELSE waiters
     /\ UNCHANGED <<job, submitted, holdVars, permits>>

\* run_worker's pop on an empty queue: the entry goes and so does the worker.
Retire(w) ==
  /\ workers[w].pc = "pop"
  /\ queues[workers[w].key].jobs = <<>>
  /\ queues' = [queues EXCEPT ![workers[w].key] = NoEntry]
  /\ workers' = [workers EXCEPT ![w].pc = "gone"]
  /\ UNCHANGED <<job, stage, submitted, holdVars, permits, waiters>>

\* The semaphore serves its waiters in arrival order.
AcquirePermit(w) ==
  /\ workers[w].pc = "permit"
  /\ permits > 0
  /\ waiters # <<>> /\ Head(waiters) = w
  /\ waiters' = Tail(waiters)
  /\ permits' = permits - 1
  /\ workers' = [workers EXCEPT ![w].pc = "run"]
  /\ UNCHANGED <<queueVars, holdVars>>

\* The body returns or panics; either way its task drops the permit.
BodyEnds(w) ==
  /\ workers[w].pc = "run"
  /\ permits' = permits + PermitsFreed(workers[w].job)
  /\ workers' = [workers EXCEPT ![w].pc = "settle"]
  /\ UNCHANGED <<queueVars, holdVars, waiters>>

\* Reservations release when the job settles.
Settle(w) ==
  LET k == workers[w].key
      j == workers[w].job
  IN /\ workers[w].pc = "settle"
     /\ routes' = Release(routes, job[j].routes, k)
     /\ delegations' = Release(delegations, {job[j].delegation}, k)
     /\ pendingHeavy' = IF job[j].heavy THEN HeavyKeysWithout(j) ELSE pendingHeavy
     /\ stage' = [stage EXCEPT ![j] = "settled"]
     /\ workers' = [workers EXCEPT ![w].pc = "pop", ![w].job = NoJob]
     /\ UNCHANGED <<job, queues, submitted, permits, waiters>>

\* What reserve's comment asks of the dispatcher: an id or a delegation that is
\* already reserved is only reserved again under the key that holds it.
KeysAgree(ij) ==
  /\ \A id \in ij.routes : HasRoute(id) => RouteKey(id) = ij.key
  /\ \A d \in {ij.delegation} \ {NoDelegation} :
        delegations[d].refs > 0 => delegations[d].key = ij.key

Submissions ==
  {Light(k) : k \in Keys} \cup
  {Heavy(k, R, d) : k \in Keys, R \in SUBSET Ids, d \in Delegations \cup {NoDelegation}}

WorkerStep(w) == Pop(w) \/ Retire(w) \/ AcquirePermit(w) \/ Settle(w)

Next ==
  \/ \E j \in Jobs, ij \in Submissions : KeysAgree(ij) /\ Enqueue(j, ij)
  \/ \E w \in Jobs : WorkerStep(w) \/ BodyEnds(w)

Spec == Init /\ [][Next]_vars

\* The runtime polls every runnable worker; nothing makes a body end.
FairSpec == Spec /\ \A w \in Jobs : WF_vars(WorkerStep(w))
------------------------------------------------------------------------------
(* Correctness. *)

TypeOK ==
  /\ job \in [Jobs -> IntakeJob]
  /\ stage \in [Jobs -> {"new", "queued", "taken", "settled"}]
  /\ queues \in [Keys -> QueueEntry]
  /\ routes \in [Ids -> Reservation]
  /\ delegations \in [Delegations -> Reservation]
  /\ pendingHeavy \in Seq(Keys)
  /\ permits \in 0..MAX_CONCURRENT_LAUNCH_BODIES
  /\ waiters \in Seq(Jobs)
  /\ workers \in [Jobs -> Worker]
  /\ submitted \in Seq(Jobs)

Unsettled(j) == stage[j] \in {"queued", "taken"}
Active(w) == workers[w].pc \notin {"none", "gone"}
Running(w) == workers[w].pc = "run"
RunningHeavy == {w \in Jobs : Running(w) /\ job[workers[w].job].heavy}

\* The doc of ExecState.queues: "An entry exists exactly while the key is busy
\* (worker running or jobs pending)".  A queue is never left with jobs and no
\* worker, and never drained by two.
BusyKeyHasOneWorker ==
  \A k \in Keys :
    LET W == {w \in Jobs : Active(w) /\ workers[w].key = k}
    IN IF QueueBusy(k) THEN \E w \in W : W = {w} ELSE W = {}

\* Permits are neither leaked nor minted, whatever becomes of a body: the free
\* ones and the heavy bodies in progress always add up to the bound.
PermitsConserved ==
  permits + Cardinality(RunningHeavy) = MAX_CONCURRENT_LAUNCH_BODIES

\* a route stands for exactly the unsettled jobs that reserved it, under their
\* key: no job's release takes another job's route away, none is left behind.
RoutesPairUp ==
  \A id \in Ids :
    LET holders == {j \in Jobs : Unsettled(j) /\ id \in job[j].routes}
    IN /\ routes[id].refs = Cardinality(holders)
       /\ \A j \in holders : routes[id].key = job[j].key

\* the same for pending peer delegations, which is what lets a duplicate
\* delivery find the launch that already has the delegation.
DelegationsPairUp ==
  \A d \in Delegations :
    LET holders == {j \in Jobs : Unsettled(j) /\ job[j].delegation = d}
    IN /\ delegations[d].refs = Cardinality(holders)
       /\ \A j \in holders : delegations[d].key = job[j].key

\* Reservations are neither leaked nor taken away by another job's release.
ReservationsPairUp == RoutesPairUp /\ DelegationsPairUp

\* The places of the unsettled launches in submission order, and how many of them
\* come up to one.
OpenLaunches == {p \in 1..Len(submitted) : Unsettled(submitted[p]) /\ job[submitted[p]].heavy}
LaunchRank(p) == Cardinality({q \in OpenLaunches : q <= p})

\* An untargeted command chases the newest unsettled launch: removing the first
\* equal key at settle always removes the settled job's own entry.
PendingHeavyInOrder ==
  /\ Len(pendingHeavy) = Cardinality(OpenLaunches)
  /\ \A p \in OpenLaunches : pendingHeavy[LaunchRank(p)] = job[submitted[p]].key

\* What the ordering contract sees: the job in progress under a key and the queued
\* ones behind it, the bodies that run, the bodies that are over.
InProgress(k) == {w \in Jobs : workers[w].pc \in {"permit", "run"} /\ workers[w].key = k}
PendingUnder(k) ==
  (IF InProgress(k) = {} THEN <<>> ELSE <<workers[CHOOSE w \in InProgress(k) : TRUE].job>>)
    \o queues[k].jobs
PendingJobs == [k \in Keys |-> PendingUnder(k)]
RunningJobs == {workers[w].job : w \in {x \in Jobs : Running(x)}}
EndedJobs == {j \in Jobs : \/ stage[j] = "settled"
                           \/ \E w \in Jobs : workers[w].pc = "settle" /\ workers[w].job = j}

\* The executor implements the ordering contract of the module's doc.
Ordered == INSTANCE OrderedExecutor
             WITH pending <- PendingJobs, running <- RunningJobs, ended <- EndedJobs
OrderedSpec == Ordered!Spec

\* One session's stuck launch does not hold another session's commands: a job
\* that never starts has a never-ending body ahead of it in its own queue, or
\* every launch permit is held by a body that never ends (a permit that changed
\* hands would be free for a moment).
OnlyStuckBodiesDelay ==
  \A j \in Jobs :
    stage[j] = "queued" ~>
      \/ \E w \in Jobs : workers[w].job = j /\ workers[w].pc \in {"run", "settle"}
      \/ [](\E w \in Jobs : Running(w) /\ workers[w].key = job[j].key)
      \/ [](Cardinality(RunningHeavy) = MAX_CONCURRENT_LAUNCH_BODIES)

------------------------------------------------------------------------------
(* The strengthening the safety invariants are inductive with. *)

\* A worker is named for the job that spawned it; an enqueued job has a key.
JobsKeyed ==
  \A j \in Jobs : IF stage[j] = "new" THEN workers[j].pc = "none" ELSE job[j].key \in Keys

\* worker_running is set exactly on existing entries; an absent one is empty.
EntriesServed ==
  \A k \in Keys : /\ queues[k].present = queues[k].worker_running
                  /\ ~queues[k].present => queues[k].jobs = <<>>

\* A queue holds jobs of its key that nobody has taken, each of them once.
QueuedJobsWait ==
  \A k \in Keys :
    /\ \A i \in 1..Len(queues[k].jobs) :
         stage[queues[k].jobs[i]] = "queued" /\ job[queues[k].jobs[i]].key = k
    /\ \A i, h \in 1..Len(queues[k].jobs) :
         queues[k].jobs[i] = queues[k].jobs[h] => i = h

\* An active worker serves an existing entry, with at most one taken job of it.
WorkersServe ==
  \A w \in Jobs : Active(w) =>
    /\ workers[w].key \in Keys
    /\ queues[workers[w].key].present
    /\ workers[w].pc # "pop" => /\ workers[w].job \in Jobs
                               /\ stage[workers[w].job] = "taken"
                               /\ job[workers[w].job].key = workers[w].key
    /\ workers[w].pc = "permit" => job[workers[w].job].heavy

OneWorkerPerKey ==
  \A v, w \in Jobs : Active(v) /\ Active(w) /\ workers[v].key = workers[w].key => v = w

EveryEntryHasWorker ==
  \A k \in Keys : QueueBusy(k) => \E w \in Jobs : Active(w) /\ workers[w].key = k

IInv == /\ TypeOK
        /\ JobsKeyed
        /\ EntriesServed
        /\ QueuedJobsWait
        /\ WorkersServe
        /\ OneWorkerPerKey
        /\ EveryEntryHasWorker
        /\ PermitsConserved
        /\ RoutesPairUp
        /\ DelegationsPairUp
==============================================================================
