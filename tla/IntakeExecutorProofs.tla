------------------------ MODULE IntakeExecutorProofs -------------------------
(* Safety of the intake executor for every number of keys, ids, delegations,  *)
(* jobs and launch permits, and the ordering contract of its doc: each step   *)
(* is a submission, a start or an end of OrderedExecutor, or changes nothing  *)
(* it can see.                                                                *)
EXTENDS IntakeExecutor, SequenceTheorems, FiniteSetTheorems, FunctionTheorems,
        WellFoundedInduction, TLAPS

------------------------------------------------------------------------------
(* Lemmas about the operators the model is built from. *)

\* A non-empty set of positions has a least element, the one Min picks.  (By
\* well-foundedness of strict inclusion between its initial segments.)
LEMMA MinInSet ==
  ASSUME NEW n \in Nat, NEW S \in SUBSET (1..n), S # {}
  PROVE  Min(S) \in S
<1> DEFINE Upto(x) == {y \in S : y <= x}
           T == {Upto(x) : x \in S}
<1>1. IsFiniteSet(1..n)
  BY FS_Interval
<1>2. T \in SUBSET (SUBSET (1..n)) /\ T # {}
  OBVIOUS
<1>3. \E A \in T : \A B \in T : ~ (<<B, A>> \in StrictSubsetOrdering(1..n))
  <2>1. IsWellFoundedOn(StrictSubsetOrdering(1..n), SUBSET (1..n))
    BY <1>1, FS_StrictSubsetOrderingWellFounded, FS_FiniteSubsetsOfFinite
  <2> HIDE DEF T
  <2> QED
    BY <1>2, <2>1, WFMin
<1>4. PICK x \in S : \A B \in T : ~ (<<B, Upto(x)>> \in StrictSubsetOrdering(1..n))
  BY <1>3
<1>5. ASSUME NEW y \in S, y < x  PROVE FALSE
  <2>1. Upto(y) \in T /\ Upto(y) \in SUBSET (1..n) /\ Upto(x) \in SUBSET (1..n)
    OBVIOUS
  <2>2. x \in Int /\ y \in Int /\ \A z \in S : z \in Int
    BY SMT
  <2>3. x \in Upto(x) /\ x \notin Upto(y)
    BY <1>5, <2>2
  <2>4. ASSUME NEW z \in S, z <= y  PROVE z <= x
    <3>1. z \in Int
      BY <2>2
    <3> QED
      BY <1>5, <2>2, <2>4, <3>1
  <2> QED
    BY <1>4, <2>1, <2>3, <2>4 DEF StrictSubsetOrdering
<1>6. \A y \in S : x <= y
  BY <1>5
<1> QED
  BY <1>6 DEF Min

\* Settling a heavy job leaves a sequence of queue keys.
LEMMA RemoveFirstType ==
  ASSUME NEW S, NEW s \in Seq(S), NEW e
  PROVE  RemoveFirst(s, e) \in Seq(S)
<1> DEFINE I == {i \in 1..Len(s) : s[i] = e}
<1>1. CASE I = {}
  BY <1>1 DEF RemoveFirst
<1>2. CASE I # {}
  <2>1. Min(I) \in 1..Len(s)
    <3>1. Len(s) \in Nat /\ I \in SUBSET (1..Len(s))
      OBVIOUS
    <3> HIDE DEF I
    <3> QED
      BY <1>2, <3>1, MinInSet
  <2>2. SelectInSeq(s, LAMBDA v : v = e) = Min(I)
    BY <1>2 DEF SelectInSeq
  <2>3. RemoveFirst(s, e) = SubSeq(s, 1, Min(I) - 1) \o SubSeq(s, Min(I) + 1, Len(s))
    BY <1>2, <2>2 DEF RemoveFirst, RemoveAt
  <2> DEFINE m == Min(I)
  <2>4. \A a, b \in Int : 1 <= a /\ b <= Len(s) => SubSeq(s, a, b) \in Seq(S)
    BY SMT
  <2>5. Len(s) \in Nat /\ m \in 1..Len(s)
    BY <2>1
  <2> HIDE DEF m
  <2>6. SubSeq(s, 1, m - 1) \in Seq(S) /\ SubSeq(s, m + 1, Len(s)) \in Seq(S)
    BY <2>4, <2>5
  <2> QED
    BY <2>3, <2>6 DEF m
<1> QED
  BY <1>1, <1>2

\* Reserving and releasing keep reservations well formed.
LEMMA ReserveType ==
  ASSUME NEW D, NEW m \in [D -> Reservation], NEW S, NEW k \in Keys
  PROVE  Reserve(m, S, k) \in [D -> Reservation]
BY DEF Reserve, Reservation

\* Releasing a reservation keeps a reservation map's type.
LEMMA ReleaseType ==
  ASSUME NEW D, NEW m \in [D -> Reservation], NEW S, NEW k
  PROVE  Release(m, S, k) \in [D -> Reservation]
BY DEF Release, Reservation, NoReservation

\* What the dispatcher submits is an IntakeJob with a real key.
LEMMA SubmissionType ==
  ASSUME NEW ij \in Submissions
  PROVE  ij \in IntakeJob /\ ij.key \in Keys
<1>1. ASSUME NEW k \in Keys, ij = Light(k)
      PROVE  ij \in IntakeJob /\ ij.key \in Keys
  BY <1>1 DEF Light, IntakeJob
<1>2. ASSUME NEW k \in Keys, NEW R \in SUBSET Ids, NEW d \in Delegations \cup {NoDelegation},
             ij = Heavy(k, R, d)
      PROVE  ij \in IntakeJob /\ ij.key \in Keys
  BY <1>2 DEF Heavy, IntakeJob
<1> QED
  BY <1>1, <1>2 DEF Submissions

------------------------------------------------------------------------------
(* Each part of the inductive invariant is preserved by every action.         *)

\* The type invariant but for the permit bound, which needs conservation.
Typed ==
  /\ job \in [Jobs -> IntakeJob]
  /\ stage \in [Jobs -> {"new", "queued", "taken", "settled"}]
  /\ queues \in [Keys -> QueueEntry]
  /\ routes \in [Ids -> Reservation]
  /\ delegations \in [Delegations -> Reservation]
  /\ pendingHeavy \in Seq(Keys)
  /\ permits \in Nat
  /\ waiters \in Seq(Jobs)
  /\ workers \in [Jobs -> Worker]
  /\ submitted \in Seq(Jobs)

\* The type invariant, without the bound on permits.
LEMMA Types ==
  ASSUME IInv
  PROVE  Typed
BY DEF IInv, TypeOK, Typed

\* Workers are workers.
LEMMA WorkersType ==
  ASSUME IInv
  PROVE  workers \in [Jobs -> Worker]
BY DEF IInv, TypeOK

\* Queues are queue entries.
LEMMA QueuesType ==
  ASSUME IInv
  PROVE  queues \in [Keys -> QueueEntry]
BY DEF IInv, TypeOK

\* What a worker's step makes of the workers: only its own record changes.
LEMMA WorkersUpdated ==
  ASSUME workers \in [Jobs -> Worker], NEW w \in Jobs, NEW j \in Jobs \cup {NoJob},
         NEW c \in {"none", "pop", "permit", "run", "settle", "gone"},
         workers' = [workers EXCEPT ![w].job = j, ![w].pc = c]
  PROVE  /\ workers' \in [Jobs -> Worker]
         /\ workers'[w].pc = c /\ workers'[w].job = j /\ workers'[w].key = workers[w].key
         /\ \A v \in Jobs \ {w} : workers'[v] = workers[v]
<1>1. /\ workers' = [workers EXCEPT ![w] = [workers[w] EXCEPT !.job = j, !.pc = c]]
      /\ workers[w] \in Worker
  OBVIOUS
<1>2. \A x \in Worker :
        LET y == [x EXCEPT !.job = j, !.pc = c]
        IN y \in Worker /\ y.pc = c /\ y.job = j /\ y.key = x.key
  BY DEF Worker
<1> QED
  BY <1>1, <1>2

\* A worker that moves on keeps its job and its key.
LEMMA WorkersMoved ==
  ASSUME workers \in [Jobs -> Worker], NEW w \in Jobs,
         NEW c \in {"none", "pop", "permit", "run", "settle", "gone"},
         workers' = [workers EXCEPT ![w].pc = c]
  PROVE  /\ workers' \in [Jobs -> Worker]
         /\ workers'[w].pc = c /\ workers'[w].job = workers[w].job
         /\ workers'[w].key = workers[w].key
         /\ \A v \in Jobs \ {w} : workers'[v] = workers[v]
<1>1. /\ workers' = [workers EXCEPT ![w] = [workers[w] EXCEPT !.pc = c]]
      /\ workers[w] \in Worker
  OBVIOUS
<1>2. \A x \in Worker :
        LET y == [x EXCEPT !.pc = c]
        IN y \in Worker /\ y.pc = c /\ y.job = x.job /\ y.key = x.key
  BY DEF Worker
<1> QED
  BY <1>1, <1>2

\* A step of a worker is a step from one stage to a later one of the same key.
LEMMA WorkerAdvances ==
  ASSUME IInv, NEW w \in Jobs,
         Pop(w) \/ Retire(w) \/ AcquirePermit(w) \/ BodyEnds(w) \/ Settle(w)
  PROVE  /\ workers' \in [Jobs -> Worker]
         /\ Active(w) /\ workers'[w].key = workers[w].key
         /\ \A v \in Jobs \ {w} : workers'[v] = workers[v]
<1>1. workers \in [Jobs -> Worker]
  BY WorkersType
<1>2. Active(w)
  BY DEF Pop, Retire, AcquirePermit, BodyEnds, Settle, Active
<1>3. CASE Pop(w)
  <2> DEFINE j == Head(queues[workers[w].key].jobs)
  <2>1. workers[w].key \in Keys
    BY <1>2 DEF IInv, WorkersServe
  <2>2. j \in Jobs
    <3>1. queues[workers[w].key] \in QueueEntry
      BY <2>1, QueuesType
    <3>2. /\ queues[workers[w].key].jobs \in Seq(Jobs)
          /\ queues[workers[w].key].jobs # <<>>
      BY <1>3, <3>1 DEF Pop, QueueEntry
    <3> QED
      BY ONLY <3>2
  <2>3. workers' = [workers EXCEPT ![w].job = j,
                                   ![w].pc = IF job[j].heavy THEN "permit" ELSE "run"]
    BY <1>3 DEF Pop
  <2>4. (IF job[j].heavy THEN "permit" ELSE "run")
           \in {"none", "pop", "permit", "run", "settle", "gone"}
    OBVIOUS
  <2> HIDE DEF j
  <2> QED
    BY <1>1, <1>2, <2>2, <2>3, <2>4, WorkersUpdated
<1>4. CASE Retire(w) \/ AcquirePermit(w) \/ BodyEnds(w)
  <2>1. PICK c \in {"gone", "run", "settle"} : workers' = [workers EXCEPT ![w].pc = c]
    BY <1>4 DEF Retire, AcquirePermit, BodyEnds
  <2> QED
    BY <1>1, <1>2, <2>1, WorkersMoved
<1>5. CASE Settle(w)
  <2>1. workers' = [workers EXCEPT ![w] = [workers[w] EXCEPT !.pc = "pop", !.job = NoJob]]
    BY <1>5 DEF Settle
  <2>2. \A x \in Worker : LET y == [x EXCEPT !.pc = "pop", !.job = NoJob]
                           IN y \in Worker /\ y.key = x.key
    BY DEF Worker
  <2> QED
    BY <1>1, <1>2, <2>1, <2>2
<1> QED
  BY <1>3, <1>4, <1>5

\* No step leaves the types.
LEMMA TypedStep ==
  ASSUME IInv, Next
  PROVE  Typed'
<1> USE DEF Typed
<1>1. ASSUME NEW j \in Jobs, NEW ij \in Submissions, Enqueue(j, ij)
      PROVE  Typed'
  <2>1. ij \in IntakeJob /\ ij.key \in Keys
    BY SubmissionType
  <2>2. routes' \in [Ids -> Reservation] /\ delegations' \in [Delegations -> Reservation]
    BY <1>1, <2>1, Types, ReserveType DEF Enqueue
  <2>3. job' \in [Jobs -> IntakeJob] /\ submitted' \in Seq(Jobs)
    BY <1>1, <2>1, Types DEF Enqueue
  <2>4. stage' \in [Jobs -> {"new", "queued", "taken", "settled"}]
    BY <1>1, Types DEF Enqueue
  <2>5. queues' \in [Keys -> QueueEntry]
    BY <1>1, <2>1, QueuesType DEF Enqueue, QueueEntry
  <2>6. workers' \in [Jobs -> Worker]
    BY <1>1, <2>1, WorkersType DEF Enqueue, Worker
  <2>7. pendingHeavy' \in Seq(Keys)
    BY <1>1, <2>1, Types DEF Enqueue
  <2>8. UNCHANGED <<permits, waiters>>
    BY <1>1, Types DEF Enqueue
  <2> QED
    BY <2>2, <2>3, <2>4, <2>5, <2>6, <2>7, <2>8, Types
<1>2. ASSUME NEW w \in Jobs, Pop(w)
      PROVE  Typed'
  <2> DEFINE k == workers[w].key
             j == Head(queues[k].jobs)
  <2>1. k \in Keys
    BY <1>2 DEF Pop, IInv, WorkersServe, Active
  <2>2. queues[k].jobs \in Seq(Jobs) /\ queues[k].jobs # <<>>
    BY <1>2, <2>1, QueuesType DEF Pop, QueueEntry
  <2>3. j \in Jobs /\ Tail(queues[k].jobs) \in Seq(Jobs)
    BY <2>2
  <2>4. queues' \in [Keys -> QueueEntry]
    BY <1>2, <2>1, <2>3, QueuesType DEF Pop, QueueEntry
  <2>5. workers' \in [Jobs -> Worker]
    BY <1>2, WorkerAdvances
  <2>6. /\ stage' = [stage EXCEPT ![j] = "taken"] /\ waiters' \in {Append(waiters, w), waiters}
        /\ UNCHANGED <<job, submitted, routes, delegations, pendingHeavy, permits>>
    BY <1>2 DEF Pop, holdVars
  <2> HIDE DEF j
  <2>7. stage' \in [Jobs -> {"new", "queued", "taken", "settled"}]
    BY <2>6, Types
  <2>8. waiters' \in Seq(Jobs)
    <3>1. waiters \in Seq(Jobs)
      BY Types DEF Typed
    <3> QED
      BY ONLY <2>6, <3>1, w \in Jobs
  <2> QED
    BY <2>4, <2>5, <2>6, <2>7, <2>8, Types
<1>3. ASSUME NEW w \in Jobs, Retire(w)
      PROVE  Typed'
  <2>1. queues' \in [Keys -> QueueEntry]
    BY <1>3, QueuesType DEF Retire, QueueEntry, NoEntry
  <2>2. workers' \in [Jobs -> Worker]
    BY <1>3, WorkerAdvances
  <2> QED
    BY <1>3, <2>1, <2>2, Types DEF Retire, holdVars
<1>4. ASSUME NEW w \in Jobs, AcquirePermit(w)
      PROVE  Typed'
  <2>1. workers' \in [Jobs -> Worker]
    BY <1>4, WorkerAdvances
  <2>2. waiters' \in Seq(Jobs)
    BY <1>4, Types DEF AcquirePermit
  <2> QED
    BY <1>4, <2>1, <2>2, Types DEF AcquirePermit, queueVars, holdVars
<1>5. ASSUME NEW w \in Jobs, BodyEnds(w)
      PROVE  Typed'
  <2>1. workers' \in [Jobs -> Worker]
    BY <1>5, WorkerAdvances
  <2> QED
    BY <1>5, <2>1, Types DEF BodyEnds, PermitsFreed, queueVars, holdVars
<1>6. ASSUME NEW w \in Jobs, Settle(w)
      PROVE  Typed'
  <2>1. routes' \in [Ids -> Reservation] /\ delegations' \in [Delegations -> Reservation]
    BY <1>6, Types, ReleaseType DEF Settle
  <2>2. pendingHeavy' \in Seq(Keys)
    BY <1>6, Types, RemoveFirstType DEF Settle, HeavyKeysWithout
  <2>3. workers' \in [Jobs -> Worker]
    BY <1>6, WorkerAdvances
  <2>4. stage' \in [Jobs -> {"new", "queued", "taken", "settled"}]
    BY <1>6, Types DEF Settle
  <2>5. UNCHANGED <<job, queues, submitted, permits, waiters>>
    BY <1>6 DEF Settle
  <2> QED
    BY <2>1, <2>2, <2>3, <2>4, <2>5, Types
<1> QED
  BY <1>1, <1>2, <1>3, <1>4, <1>5, <1>6 DEF Next, WorkerStep

\* The job a worker pops: it was waiting in the worker's own queue.
LEMMA Popped ==
  ASSUME IInv, NEW w \in Jobs, workers[w].pc = "pop",
         queues[workers[w].key].jobs # <<>>
  PROVE  LET k == workers[w].key
             q == queues[k].jobs
         IN /\ k \in Keys /\ queues[k].present
            /\ q \in Seq(Jobs) /\ Len(q) \in Nat /\ Len(q) > 0
            /\ Head(q) = q[1] /\ q[1] \in Jobs
            /\ stage[q[1]] = "queued" /\ job[q[1]].key = k
            /\ Tail(q) \in Seq(Jobs) /\ Len(Tail(q)) = Len(q) - 1
            /\ \A i \in 1..Len(Tail(q)) : Tail(q)[i] = q[i + 1] /\ q[i + 1] # q[1]
<1> DEFINE k == workers[w].key
           q == queues[k].jobs
<1>1. k \in Keys /\ queues[k].present
  BY DEF IInv, WorkersServe, Active
<1>2. q \in Seq(Jobs) /\ q # <<>>
  BY <1>1 DEF IInv, TypeOK, QueueEntry
<1>3. /\ \A i \in 1..Len(q) : stage[q[i]] = "queued" /\ job[q[i]].key = k
      /\ \A i, h \in 1..Len(q) : q[i] = q[h] => i = h
  BY <1>1 DEF IInv, QueuedJobsWait
<1> HIDE DEF q
<1>4. /\ Len(q) \in Nat /\ Len(q) > 0 /\ Head(q) = q[1] /\ q[1] \in Jobs
      /\ Tail(q) \in Seq(Jobs) /\ Len(Tail(q)) = Len(q) - 1
      /\ \A i \in 1..Len(Tail(q)) : Tail(q)[i] = q[i + 1]
  BY <1>2
<1>5. \A i \in 1..Len(Tail(q)) : q[i + 1] # q[1]
  BY <1>3, <1>4
<1>6. \A i \in 1..Len(Tail(q)) : Tail(q)[i] = q[i + 1] /\ q[i + 1] # q[1]
  BY <1>4, <1>5
<1>7. stage[q[1]] = "queued" /\ job[q[1]].key = k
  BY <1>3, <1>4
<1> QED
  BY <1>1, <1>2, <1>4, <1>6, <1>7, Zenon DEF q

\* Of the queues, a pop only shortens the worker's own.
LEMMA PopKeepsEntries ==
  ASSUME IInv, NEW w \in Jobs, Pop(w), workers[w].key \in Keys
  PROVE  \A k \in Keys : /\ queues'[k].present = queues[k].present
                         /\ queues'[k].worker_running = queues[k].worker_running
                         /\ k # workers[w].key => queues'[k] = queues[k]
<1> DEFINE p == workers[w].key
<1>1. queues' = [queues EXCEPT ![p] = [queues[p] EXCEPT !.jobs = Tail(queues[p].jobs)]]
  BY DEF Pop
<1>2. \A x \in QueueEntry : \A q :
        LET y == [x EXCEPT !.jobs = q]
        IN y.present = x.present /\ y.worker_running = x.worker_running
  BY DEF QueueEntry
<1> QED
  BY <1>1, <1>2, QueuesType

\* A submitted job carries the key it was submitted under.
LEMMA JobsKeyedStep ==
  ASSUME IInv, Next
  PROVE  JobsKeyed'
<1> USE DEF JobsKeyed
<1>1. ASSUME NEW j \in Jobs, NEW ij \in Submissions, Enqueue(j, ij)
      PROVE  JobsKeyed'
  BY <1>1, SubmissionType DEF Enqueue, IInv, TypeOK
<1>2. ASSUME NEW w \in Jobs, Pop(w)
      PROVE  JobsKeyed'
  <2>1. /\ queues[workers[w].key].jobs # <<>>
        /\ Head(queues[workers[w].key].jobs) \in Jobs
        /\ stage[Head(queues[workers[w].key].jobs)] = "queued"
    BY <1>2, Popped DEF Pop
  <2> QED
    BY <1>2, <2>1 DEF Pop, IInv, TypeOK
<1>3. ASSUME NEW w \in Jobs, Retire(w)
      PROVE  JobsKeyed'
  BY <1>3 DEF Retire, IInv, TypeOK
<1>4. ASSUME NEW w \in Jobs, AcquirePermit(w) \/ BodyEnds(w)
      PROVE  JobsKeyed'
  BY <1>4 DEF AcquirePermit, BodyEnds, queueVars, IInv, TypeOK
<1>5. ASSUME NEW w \in Jobs, Settle(w)
      PROVE  JobsKeyed'
  <2>1. workers[w].job \in Jobs /\ stage[workers[w].job] = "taken"
    BY <1>5 DEF Settle, IInv, WorkersServe, Active
  <2> QED
    BY <1>5, <2>1 DEF Settle, IInv, TypeOK
<1> QED
  BY <1>1, <1>2, <1>3, <1>4, <1>5 DEF Next, WorkerStep

\* An entry that exists has its worker_running flag set.
LEMMA EntriesServedStep ==
  ASSUME IInv, Next
  PROVE  EntriesServed'
<1> USE DEF EntriesServed
<1>1. ASSUME NEW j \in Jobs, NEW ij \in Submissions, Enqueue(j, ij)
      PROVE  EntriesServed'
  BY <1>1, SubmissionType DEF Enqueue, IInv, TypeOK, QueueEntry
<1>2. ASSUME NEW w \in Jobs, Pop(w)
      PROVE  EntriesServed'
  <2>1. workers[w].key \in Keys /\ queues[workers[w].key].present
    BY <1>2, Popped DEF Pop
  <2>2. \A k \in Keys :
          /\ queues'[k].present = queues[k].present
          /\ queues'[k].worker_running = queues[k].worker_running
          /\ k # workers[w].key => queues'[k] = queues[k]
    BY <1>2, <2>1, PopKeepsEntries
  <2> QED
    BY <2>1, <2>2 DEF IInv
<1>3. ASSUME NEW w \in Jobs, Retire(w)
      PROVE  EntriesServed'
  BY <1>3 DEF Retire, NoEntry, IInv, TypeOK, QueueEntry
<1>4. ASSUME NEW w \in Jobs, AcquirePermit(w) \/ BodyEnds(w) \/ Settle(w)
      PROVE  EntriesServed'
  BY <1>4 DEF AcquirePermit, BodyEnds, Settle, queueVars, IInv
<1> QED
  BY <1>1, <1>2, <1>3, <1>4 DEF Next, WorkerStep

\* A job is in one queue, once, exactly until a worker takes it.
LEMMA QueuedJobsWaitStep ==
  ASSUME IInv, Next
  PROVE  QueuedJobsWait'
<1> USE DEF QueuedJobsWait
<1>1. ASSUME NEW j \in Jobs, NEW ij \in Submissions, Enqueue(j, ij)
      PROVE  QueuedJobsWait'
  <2> DEFINE q == queues[ij.key].jobs
  <2>1. /\ ij.key \in Keys /\ q \in Seq(Jobs) /\ stage[j] = "new"
        /\ queues'[ij.key].jobs = Append(q, j)
        /\ stage' = [stage EXCEPT ![j] = "queued"]
        /\ job' = [job EXCEPT ![j] = ij]
        /\ \A k \in Keys \ {ij.key} : queues'[k] = queues[k]
    BY <1>1, SubmissionType DEF Enqueue, IInv, TypeOK, QueueEntry
  <2>2. \A k \in Keys : \A i \in 1..Len(queues[k].jobs) : queues[k].jobs[i] # j
    BY <2>1 DEF IInv
  <2>3. /\ Len(q) \in Nat /\ Len(Append(q, j)) = Len(q) + 1
        /\ Append(q, j)[Len(q) + 1] = j
        /\ \A i \in 1..Len(q) : Append(q, j)[i] = q[i] /\ q[i] \in Jobs
    BY <2>1
  <2>4. ASSUME NEW k \in Keys
        PROVE  /\ \A i \in 1..Len(queues'[k].jobs) :
                    stage'[queues'[k].jobs[i]] = "queued" /\ job'[queues'[k].jobs[i]].key = k
               /\ \A i, h \in 1..Len(queues'[k].jobs) :
                    queues'[k].jobs[i] = queues'[k].jobs[h] => i = h
    <3>1. CASE k = ij.key
      <4> HIDE DEF q
      <4>1. /\ \A i \in 1..Len(q) : stage[q[i]] = "queued" /\ job[q[i]].key = k /\ q[i] # j
            /\ \A i, h \in 1..Len(q) : q[i] = q[h] => i = h
        BY <2>2, <3>1 DEF IInv, q
      <4>2. \A i \in 1..Len(Append(q, j)) : i = Len(q) + 1 \/ i \in 1..Len(q)
        BY <2>3
      <4>3. stage'[j] = "queued" /\ job'[j].key = k
        BY <2>1, <3>1 DEF IInv, TypeOK
      <4>4. \A i \in 1..Len(q) : stage'[q[i]] = "queued" /\ job'[q[i]].key = k
        BY <2>1, <2>3, <4>1 DEF IInv, TypeOK
      <4>5. queues'[k].jobs = Append(q, j)
        BY <2>1, <3>1 DEF q
      <4>6. \A i \in 1..Len(Append(q, j)) :
              stage'[Append(q, j)[i]] = "queued" /\ job'[Append(q, j)[i]].key = k
        BY <2>3, <4>2, <4>3, <4>4
      <4>7. \A i, h \in 1..Len(Append(q, j)) : Append(q, j)[i] = Append(q, j)[h] => i = h
        BY <2>3, <4>1, <4>2
      <4> QED
        BY <4>5, <4>6, <4>7
    <3>2. CASE k # ij.key
      <4>1. queues'[k] = queues[k] /\ queues[k].jobs \in Seq(Jobs)
        BY <2>1, <3>2 DEF IInv, TypeOK, QueueEntry
      <4> QED
        BY <2>1, <2>2, <4>1 DEF IInv, TypeOK
    <3> QED
      BY <3>1, <3>2
  <2> QED
    BY <2>4
<1>2. ASSUME NEW w \in Jobs, Pop(w)
      PROVE  QueuedJobsWait'
  <2> DEFINE p == workers[w].key
             q == queues[p].jobs
  <2>1. /\ p \in Keys /\ q \in Seq(Jobs) /\ Len(q) \in Nat /\ Len(q) > 0
        /\ q[1] \in Jobs /\ job[q[1]].key = p /\ Len(Tail(q)) = Len(q) - 1
        /\ \A i \in 1..Len(Tail(q)) : Tail(q)[i] = q[i + 1] /\ q[i + 1] # q[1]
    BY <1>2, Popped DEF Pop
  <2>2. /\ stage' = [stage EXCEPT ![q[1]] = "taken"]
        /\ queues' = [queues EXCEPT ![p].jobs = Tail(q)]
        /\ job' = job
    BY <1>2, Popped DEF Pop
  <2>3. ASSUME NEW k \in Keys
        PROVE  /\ \A i \in 1..Len(queues'[k].jobs) :
                    stage'[queues'[k].jobs[i]] = "queued" /\ job'[queues'[k].jobs[i]].key = k
               /\ \A i, h \in 1..Len(queues'[k].jobs) :
                    queues'[k].jobs[i] = queues'[k].jobs[h] => i = h
    <3>1. CASE k = p
      <4>1. queues'[k].jobs = Tail(q)
        <5>1. queues[p] \in QueueEntry /\ p \in DOMAIN queues
          BY <2>1, QueuesType
        <5>2. queues'[p] = [queues[p] EXCEPT !.jobs = Tail(q)]
          BY <2>2, <5>1
        <5> QED
          BY <3>1, <5>1, <5>2 DEF QueueEntry
      <4>2. /\ \A i \in 1..Len(q) : stage[q[i]] = "queued" /\ job[q[i]].key = k
            /\ \A i, h \in 1..Len(q) : q[i] = q[h] => i = h
        <5>1. QueuedJobsWait
          BY DEF IInv
        <5> QED
          BY ONLY <3>1, <2>1, <5>1 DEF QueuedJobsWait
      <4>3. \A i \in 1..Len(Tail(q)) : i + 1 \in 1..Len(q) /\ q[i + 1] \in Jobs
        BY <2>1
      <4> HIDE DEF q
      <4>4. \A i \in 1..Len(Tail(q)) : stage'[q[i + 1]] = "queued"
        BY <2>1, <2>2, <4>2, <4>3 DEF IInv, TypeOK
      <4>5. \A i, h \in 1..Len(Tail(q)) : q[i + 1] = q[h + 1] => i = h
        BY <4>2, <4>3
      <4>6. \A i \in 1..Len(Tail(q)) :
              stage'[Tail(q)[i]] = "queued" /\ job'[Tail(q)[i]].key = k
        BY <2>1, <2>2, <4>2, <4>3, <4>4
      <4>7. \A i, h \in 1..Len(Tail(q)) : Tail(q)[i] = Tail(q)[h] => i = h
        BY <2>1, <4>5
      <4> QED
        BY <4>1, <4>6, <4>7
    <3>2. CASE k # p
      <4>1. queues'[k] = queues[k] /\ queues[k].jobs \in Seq(Jobs)
        <5>1. queues \in [Keys -> QueueEntry] /\ queues[k] \in QueueEntry
          BY QueuesType
        <5>2. queues'[k] = queues[k]
          BY <2>2, <3>2, <5>1
        <5> QED
          BY <5>1, <5>2 DEF QueueEntry
      <4>2. \A i \in 1..Len(queues[k].jobs) : queues[k].jobs[i] # q[1]
        <5>1. \A i \in 1..Len(queues[k].jobs) : job[queues[k].jobs[i]].key = k
          BY DEF IInv, QueuedJobsWait
        <5> QED
          BY ONLY <2>1, <3>2, <5>1
      <4>3. \A i \in 1..Len(queues[k].jobs) :
              /\ queues[k].jobs[i] \in Jobs
              /\ stage[queues[k].jobs[i]] = "queued" /\ job[queues[k].jobs[i]].key = k
        BY <4>1 DEF IInv
      <4>4. \A i \in 1..Len(queues[k].jobs) : stage'[queues[k].jobs[i]] = "queued"
        BY <2>2, <4>2, <4>3 DEF IInv, TypeOK
      <4>5. \A i, h \in 1..Len(queues[k].jobs) :
              queues[k].jobs[i] = queues[k].jobs[h] => i = h
        BY DEF IInv
      <4>6. queues'[k].jobs = queues[k].jobs /\ job' = job
        BY <2>2, <4>1
      <4> QED
        BY <4>3, <4>4, <4>5, <4>6
    <3> QED
      BY <3>1, <3>2
  <2> QED
    BY <2>3
<1>3. ASSUME NEW w \in Jobs, Retire(w)
      PROVE  QueuedJobsWait'
  BY <1>3 DEF Retire, NoEntry, IInv, TypeOK, QueueEntry
<1>4. ASSUME NEW w \in Jobs, AcquirePermit(w) \/ BodyEnds(w)
      PROVE  QueuedJobsWait'
  BY <1>4 DEF AcquirePermit, BodyEnds, queueVars, IInv
<1>5. ASSUME NEW w \in Jobs, Settle(w)
      PROVE  QueuedJobsWait'
  <2>1. workers[w].job \in Jobs /\ stage[workers[w].job] = "taken"
    BY <1>5 DEF Settle, IInv, WorkersServe, Active
  <2>2. stage' = [stage EXCEPT ![workers[w].job] = "settled"] /\ UNCHANGED <<job, queues>>
    BY <1>5 DEF Settle
  <2>3. \A k \in Keys : queues[k].jobs \in Seq(Jobs)
    BY DEF IInv, TypeOK, QueueEntry
  <2> QED
    BY <2>1, <2>2, <2>3 DEF IInv, TypeOK
<1> QED
  BY <1>1, <1>2, <1>3, <1>4, <1>5 DEF Next, WorkerStep

\* An active worker's entry stays, and what it runs is a taken job of its key.
LEMMA WorkersServeStep ==
  ASSUME IInv, Next
  PROVE  WorkersServe'
<1> USE DEF WorkersServe, Active
<1>1. ASSUME NEW j \in Jobs, NEW ij \in Submissions, Enqueue(j, ij)
      PROVE  WorkersServe'
  <2>1. /\ ij.key \in Keys /\ stage[j] = "new" /\ workers[j].pc = "none"
        /\ queues'[ij.key].present /\ \A k \in Keys \ {ij.key} : queues'[k] = queues[k]
        /\ stage' = [stage EXCEPT ![j] = "queued"]
        /\ job' = [job EXCEPT ![j] = ij]
        /\ \/ workers' = workers
           \/ workers' = [workers EXCEPT ![j] = [pc |-> "pop", key |-> ij.key, job |-> NoJob]]
    BY <1>1, SubmissionType DEF Enqueue, IInv, TypeOK, JobsKeyed
  <2>2. ASSUME NEW w \in Jobs, Active(w)'
        PROVE  /\ workers'[w].key \in Keys
               /\ queues'[workers'[w].key].present
               /\ workers'[w].pc # "pop" => /\ workers'[w].job \in Jobs
                                           /\ stage'[workers'[w].job] = "taken"
                                           /\ job'[workers'[w].job].key = workers'[w].key
               /\ workers'[w].pc = "permit" => job'[workers'[w].job].heavy
    <3>1. CASE workers'[w] = workers[w]
      BY <2>1, <2>2, <3>1 DEF IInv, TypeOK
    <3>2. CASE workers'[w] = [pc |-> "pop", key |-> ij.key, job |-> NoJob]
      BY <2>1, <3>2
    <3> QED
      BY <2>1, <3>1, <3>2 DEF IInv, TypeOK
  <2> QED
    BY <2>2
<1>2. ASSUME NEW w \in Jobs, Pop(w)
      PROVE  WorkersServe'
  <2> DEFINE p == workers[w].key
             j == queues[p].jobs[1]
  <2>1. /\ p \in Keys /\ queues[p].present /\ j \in Jobs
        /\ stage[j] = "queued" /\ job[j].key = p
        /\ stage' = [stage EXCEPT ![j] = "taken"]
        /\ workers' = [workers EXCEPT ![w].job = j,
                                     ![w].pc = IF job[j].heavy THEN "permit" ELSE "run"]
        /\ job' = job
    BY <1>2, Popped DEF Pop
  <2>2. \A k \in Keys : queues'[k].present = queues[k].present
    BY <1>2, <2>1, PopKeepsEntries
  <2> HIDE DEF j
  <2> QED
    BY <2>1, <2>2 DEF IInv, TypeOK, Worker
<1>3. ASSUME NEW w \in Jobs, Retire(w)
      PROVE  WorkersServe'
  <2>1. \A v \in Jobs : Active(v)' => v # w /\ Active(v) /\ workers'[v] = workers[v]
    BY <1>3 DEF Retire, IInv, TypeOK, Worker
  <2>2. \A v \in Jobs : Active(v)' => queues'[workers[v].key] = queues[workers[v].key]
    BY <1>3, <2>1 DEF Retire, IInv, TypeOK, OneWorkerPerKey
  <2> QED
    BY <1>3, <2>1, <2>2 DEF Retire, IInv
<1>4. ASSUME NEW w \in Jobs, AcquirePermit(w) \/ BodyEnds(w)
      PROVE  WorkersServe'
  <2>1. UNCHANGED <<job, stage, queues>>
    BY <1>4 DEF AcquirePermit, BodyEnds, queueVars
  <2>2. \A v \in Jobs : /\ workers'[v].key = workers[v].key /\ workers'[v].job = workers[v].job
                        /\ workers[v].pc = "pop" => workers'[v].pc = "pop"
                        /\ Active(v)' => Active(v)
                        /\ workers'[v].pc = "permit" => workers[v].pc = "permit"
                        /\ workers'[v].pc # "pop" => workers[v].pc # "pop"
    BY <1>4 DEF AcquirePermit, BodyEnds, IInv, TypeOK, Worker
  <2> QED
    BY <2>1, <2>2 DEF IInv
<1>5. ASSUME NEW w \in Jobs, Settle(w)
      PROVE  WorkersServe'
  <2>1. /\ workers[w].job \in Jobs /\ job[workers[w].job].key = workers[w].key
        /\ stage' = [stage EXCEPT ![workers[w].job] = "settled"]
        /\ workers' = [workers EXCEPT ![w].pc = "pop", ![w].job = NoJob]
        /\ UNCHANGED <<job, queues>>
    BY <1>5 DEF Settle, IInv
  <2>2. \A v \in Jobs \ {w} : Active(v) /\ workers[v].pc # "pop" => workers[v].job # workers[w].job
    BY <1>5, <2>1 DEF Settle, IInv, OneWorkerPerKey
  <2>3. workers'[w].pc = "pop" /\ workers'[w].key = workers[w].key
    BY <2>1 DEF IInv, TypeOK, Worker
  <2>4. \A v \in Jobs \ {w} : workers'[v] = workers[v]
    BY <2>1 DEF IInv, TypeOK
  <2>5. ASSUME NEW v \in Jobs \ {w}, Active(v), workers[v].pc # "pop"
        PROVE  stage'[workers[v].job] = "taken"
    BY <2>1, <2>2, <2>5 DEF IInv, TypeOK
  <2>6. workers[w].key \in Keys /\ queues[workers[w].key].present
    BY <1>5 DEF Settle, IInv
  <2>7. ASSUME NEW v \in Jobs \ {w}, Active(v)'
        PROVE  /\ workers[v].key \in Keys /\ queues[workers[v].key].present
               /\ workers[v].pc # "pop" => /\ workers[v].job \in Jobs
                                          /\ stage'[workers[v].job] = "taken"
                                          /\ job[workers[v].job].key = workers[v].key
               /\ workers[v].pc = "permit" => job[workers[v].job].heavy
    BY <2>4, <2>5, <2>7 DEF IInv
  <2>8. job' = job /\ queues' = queues
    BY <2>1
  <2> QED
    BY <2>3, <2>4, <2>6, <2>7, <2>8
<1> QED
  BY <1>1, <1>2, <1>3, <1>4, <1>5 DEF Next, WorkerStep

\* Two active workers never share a key.
LEMMA OneWorkerPerKeyStep ==
  ASSUME IInv, Next
  PROVE  OneWorkerPerKey'
<1> USE DEF OneWorkerPerKey, Active
<1>1. ASSUME NEW j \in Jobs, NEW ij \in Submissions, Enqueue(j, ij)
      PROVE  OneWorkerPerKey'
  <2>1. ij.key \in Keys /\ workers[j].pc = "none"
    BY <1>1, SubmissionType DEF Enqueue, IInv, JobsKeyed
  <2>2. CASE queues[ij.key].worker_running
    BY <1>1, <2>2 DEF Enqueue, NeedsWorker, IInv
  <2>3. CASE ~queues[ij.key].worker_running
    <3>1. \A w \in Jobs : Active(w) => workers[w].key # ij.key
      BY <2>1, <2>3 DEF IInv, WorkersServe, EntriesServed
    <3>2. workers' = [workers EXCEPT ![j] = [pc |-> "pop", key |-> ij.key, job |-> NoJob]]
      BY <1>1, <2>3 DEF Enqueue, NeedsWorker
    <3> QED
      BY <3>1, <3>2 DEF IInv, TypeOK
  <2> QED
    BY <2>2, <2>3
<1>2. ASSUME NEW w \in Jobs, Pop(w) \/ Retire(w) \/ AcquirePermit(w) \/ BodyEnds(w) \/ Settle(w)
      PROVE  OneWorkerPerKey'
  <2>1. \A v \in Jobs : workers'[v].key = workers[v].key
    BY <1>2, WorkerAdvances
  <2>2. \A v \in Jobs : Active(v)' => Active(v)
    BY <1>2, WorkerAdvances
  <2> QED
    BY <2>1, <2>2 DEF IInv
<1> QED
  BY <1>1, <1>2 DEF Next, WorkerStep

\* A busy key has an active worker.
LEMMA EveryEntryHasWorkerStep ==
  ASSUME IInv, Next
  PROVE  EveryEntryHasWorker'
<1> USE DEF EveryEntryHasWorker, Active, QueueBusy
<1>1. ASSUME NEW j \in Jobs, NEW ij \in Submissions, Enqueue(j, ij)
      PROVE  EveryEntryHasWorker'
  <2>1. /\ ij.key \in Keys /\ workers[j].pc = "none"
        /\ \A k \in Keys \ {ij.key} : queues'[k] = queues[k]
    BY <1>1, SubmissionType DEF Enqueue, IInv, TypeOK, JobsKeyed
  <2>2. CASE queues[ij.key].worker_running
    BY <1>1, <2>1, <2>2 DEF Enqueue, NeedsWorker, IInv, EntriesServed
  <2>3. CASE ~queues[ij.key].worker_running
    <3>1. workers' = [workers EXCEPT ![j] = [pc |-> "pop", key |-> ij.key, job |-> NoJob]]
      BY <1>1, <2>3 DEF Enqueue, NeedsWorker
    <3>2. \A w \in Jobs : Active(w) => workers'[w] = workers[w]
      BY <2>1, <3>1 DEF IInv, TypeOK
    <3>3. workers'[j].pc = "pop" /\ workers'[j].key = ij.key
      BY <3>1 DEF IInv, TypeOK
    <3> QED
      BY <2>1, <3>2, <3>3 DEF IInv
  <2> QED
    BY <2>2, <2>3
<1>2. ASSUME NEW w \in Jobs, Pop(w) \/ AcquirePermit(w) \/ BodyEnds(w) \/ Settle(w)
      PROVE  EveryEntryHasWorker'
  <2>1. \A v \in Jobs : workers'[v].key = workers[v].key /\ (Active(v) => Active(v)')
    <3>1. CASE Pop(w)
      <4>1. PICK c \in {"permit", "run"} :
              workers' = [workers EXCEPT ![w].job = Head(queues[workers[w].key].jobs),
                                         ![w].pc = c]
        BY <3>1 DEF Pop
      <4> QED
        BY <4>1 DEF IInv, TypeOK, Worker
    <3>2. CASE AcquirePermit(w) \/ BodyEnds(w)
      <4>1. \E c \in {"run", "settle"} : workers' = [workers EXCEPT ![w].pc = c]
        BY <3>2 DEF AcquirePermit, BodyEnds
      <4> QED
        BY <4>1 DEF IInv, TypeOK, Worker
    <3>3. CASE Settle(w)
      <4>1. workers' = [workers EXCEPT ![w].pc = "pop", ![w].job = NoJob]
        BY <3>3 DEF Settle
      <4> QED
        BY <4>1 DEF IInv, TypeOK, Worker
    <3> QED
      BY <1>2, <3>1, <3>2, <3>3
  <2>2. \A k \in Keys : queues'[k].present = queues[k].present
    <3>1. CASE Pop(w)
      <4>1. workers[w].key \in Keys
        BY <3>1, Popped DEF Pop
      <4> QED
        BY <3>1, <4>1, PopKeepsEntries
    <3>2. CASE AcquirePermit(w) \/ BodyEnds(w) \/ Settle(w)
      BY <3>2 DEF AcquirePermit, BodyEnds, Settle, queueVars
    <3> QED
      BY <1>2, <3>1, <3>2
  <2> QED
    BY <2>1, <2>2 DEF IInv
<1>3. ASSUME NEW w \in Jobs, Retire(w)
      PROVE  EveryEntryHasWorker'
  <2>1. \A k \in Keys : queues'[k].present => k # workers[w].key /\ queues[k].present
    BY <1>3 DEF Retire, NoEntry, IInv, TypeOK, QueueEntry
  <2>2. \A v \in Jobs \ {w} : workers'[v] = workers[v]
    BY <1>3 DEF Retire, IInv, TypeOK
  <2> QED
    BY <2>1, <2>2 DEF IInv
<1> QED
  BY <1>1, <1>2, <1>3 DEF Next, WorkerStep

\* A step that moves a permit moves a running heavy body with it.
LEMMA PermitsConservedStep ==
  ASSUME IInv, Next
  PROVE  PermitsConserved'
<1> USE DEF RunningHeavy, Running
<1>1. IsFiniteSet(RunningHeavy)
  BY JobsAssumption, FS_Subset
<1>2. permits + Cardinality(RunningHeavy) = MAX_CONCURRENT_LAUNCH_BODIES /\ permits \in Int
  BY DEF IInv, TypeOK, PermitsConserved
<1>3. Cardinality(RunningHeavy) \in Nat
  BY <1>1, FS_CardinalityType
<1>4. ASSUME RunningHeavy' = RunningHeavy, permits' = permits
      PROVE  PermitsConserved'
  BY <1>2, <1>4 DEF PermitsConserved
<1>5. ASSUME NEW j \in Jobs, NEW ij \in Submissions, Enqueue(j, ij)
      PROVE  PermitsConserved'
  <2>1. \A w \in Jobs : Running(w) => workers[w].job \in Jobs \ {j}
    BY <1>5 DEF Enqueue, IInv, WorkersServe, Active
  <2>2. workers[j].pc = "none"
    BY <1>5 DEF Enqueue, IInv, JobsKeyed
  <2>3. \A w \in Jobs : Running(w)' <=> Running(w)
    BY <1>5, <2>2 DEF Enqueue, IInv, TypeOK
  <2>4. \A w \in Jobs : Running(w) => workers'[w] = workers[w] /\ job'[workers[w].job] = job[workers[w].job]
    BY <1>5, <2>1, <2>2 DEF Enqueue, IInv, TypeOK
  <2> QED
    BY <1>4, <1>5, <2>3, <2>4 DEF Enqueue
<1>6. ASSUME NEW w \in Jobs, Pop(w)
      PROVE  PermitsConserved'
  <2> DEFINE j == Head(queues[workers[w].key].jobs)
  <2>1. /\ workers' = [workers EXCEPT ![w].job = j,
                                     ![w].pc = IF job[j].heavy THEN "permit" ELSE "run"]
        /\ job' = job /\ permits' = permits
    BY <1>6 DEF Pop
  <2> HIDE DEF j
  <2>2. ~Running(w) /\ (workers'[w].pc = "run" => ~job[workers'[w].job].heavy)
    <3>1. workers' = [workers EXCEPT ![w] = [workers[w] EXCEPT !.job = j,
                        !.pc = IF job[j].heavy THEN "permit" ELSE "run"]]
      BY <2>1
    <3>2. \A x \in Worker : \A c, h : LET y == [x EXCEPT !.job = h, !.pc = c]
                                 IN y.pc = c /\ y.job = h
      BY DEF Worker
    <3>3. /\ workers'[w].job = j
          /\ workers'[w].pc = IF job[j].heavy THEN "permit" ELSE "run"
      BY <3>1, <3>2, WorkersType
    <3>4. workers[w].pc = "pop"
      BY <1>6 DEF Pop
    <3> QED
      BY <3>3, <3>4
  <2>3. \A v \in Jobs \ {w} : workers'[v] = workers[v]
    BY <1>6, WorkerAdvances
  <2> QED
    BY <1>4, <2>1, <2>2, <2>3
<1>7. ASSUME NEW w \in Jobs, Retire(w) \/ Settle(w)
      PROVE  PermitsConserved'
  <2>1. \E c \in {"pop", "gone"} : \E j :
          workers' = [workers EXCEPT ![w].pc = c, ![w].job = j]
    <3>1. CASE Retire(w)
      <4>1. workers' = [workers EXCEPT ![w].pc = "gone", ![w].job = workers[w].job]
        BY <3>1 DEF Retire, IInv, TypeOK, Worker
      <4> QED
        BY <4>1
    <3>2. CASE Settle(w)
      BY <3>2 DEF Settle
    <3> QED
      BY <1>7, <3>1, <3>2
  <2>2. ~Running(w) /\ job' = job /\ permits' = permits
    BY <1>7 DEF Retire, Settle
  <2>3. ~Running(w)' /\ \A v \in Jobs \ {w} : workers'[v] = workers[v]
    BY <2>1 DEF IInv, TypeOK, Worker
  <2> QED
    BY <1>4, <2>2, <2>3
<1>8. ASSUME NEW w \in Jobs, AcquirePermit(w)
      PROVE  PermitsConserved'
  <2>1. w \notin RunningHeavy /\ job[workers[w].job].heavy
    BY <1>8 DEF AcquirePermit, IInv, WorkersServe, Active
  <2>2. RunningHeavy' = RunningHeavy \cup {w}
    BY <1>8, <2>1 DEF AcquirePermit, queueVars, IInv, TypeOK, Worker
  <2>3. Cardinality(RunningHeavy') = Cardinality(RunningHeavy) + 1
    BY <1>1, <2>1, <2>2, FS_AddElement
  <2>4. permits' = permits - 1
    BY <1>8 DEF AcquirePermit
  <2> QED
    BY <1>2, <1>3, <2>3, <2>4 DEF PermitsConserved
<1>9. ASSUME NEW w \in Jobs, BodyEnds(w)
      PROVE  PermitsConserved'
  <2>1. job' = job /\ permits' = permits + PermitsFreed(workers[w].job)
    BY <1>9 DEF BodyEnds, queueVars
  <2>2. RunningHeavy' = RunningHeavy \ {w}
    BY <1>9 DEF BodyEnds, queueVars, IInv, TypeOK, Worker
  <2>3. CASE job[workers[w].job].heavy
    <3>1. w \in RunningHeavy
      BY <1>9, <2>3 DEF BodyEnds
    <3>2. Cardinality(RunningHeavy') = Cardinality(RunningHeavy) - 1
      BY <1>1, <2>2, <3>1, FS_RemoveElement
    <3> QED
      BY <1>2, <1>3, <2>1, <2>3, <3>2 DEF PermitsConserved, PermitsFreed
  <2>4. CASE ~job[workers[w].job].heavy
    BY <1>2, <1>4, <2>1, <2>2, <2>4 DEF PermitsFreed
  <2> QED
    BY <2>3, <2>4
<1> QED
  BY <1>5, <1>6, <1>7, <1>8, <1>9 DEF Next, WorkerStep

\* One more holder: the count goes up and the key of the holders stays.
LEMMA ReserveCounts ==
  ASSUME NEW D, NEW m \in [D -> Reservation], NEW S, NEW k \in Keys, NEW id \in D,
         NEW H \in SUBSET Jobs, m[id].refs = Cardinality(H),
         NEW j \in Jobs \ H, id \in S, m[id].refs > 0 => m[id].key = k
  PROVE  /\ Reserve(m, S, k)[id].refs = Cardinality(H \cup {j})
         /\ Reserve(m, S, k)[id].key = k
         /\ H # {} => m[id].key = k
<1>1. IsFiniteSet(H)
  BY JobsAssumption, FS_Subset
<1>2. Cardinality(H) \in Nat /\ (H # {} => Cardinality(H) # 0)
  BY <1>1, FS_CardinalityType, FS_EmptySet
<1>3. Cardinality(H \cup {j}) = Cardinality(H) + 1
  BY <1>1, FS_AddElement
<1>4. m[id].refs > 0 => [m[id] EXCEPT !.refs = @ + 1].key = k
                        /\ [m[id] EXCEPT !.refs = @ + 1].refs = m[id].refs + 1
  BY DEF Reservation
<1>5. m[id].refs \in Nat
  BY DEF Reservation
<1> QED
  BY <1>2, <1>3, <1>4, <1>5 DEF Reserve

\* One holder less: the count goes down and the key stays while any is left.
LEMMA ReleaseCounts ==
  ASSUME NEW D, NEW m \in [D -> Reservation], NEW S, NEW k, NEW id \in D,
         NEW H \in SUBSET Jobs, m[id].refs = Cardinality(H),
         NEW j \in H, id \in S, m[id].key = k
  PROVE  /\ Release(m, S, k)[id].refs = Cardinality(H \ {j})
         /\ H \ {j} # {} => Release(m, S, k)[id].key = k
<1>1. IsFiniteSet(H) /\ IsFiniteSet(H \ {j})
  BY JobsAssumption, FS_Subset
<1>2. Cardinality(H) \in Nat /\ Cardinality(H \ {j}) \in Nat
  BY <1>1, FS_CardinalityType
<1>3. Cardinality(H \ {j}) = Cardinality(H) - 1
  BY <1>1, FS_RemoveElement
<1>4. H \ {j} # {} => Cardinality(H \ {j}) # 0
  BY <1>1, FS_EmptySet
<1>5. m[id].refs \in Nat
  BY DEF Reservation
<1>6. m[id].refs # 0
  BY <1>2, <1>3
<1>7. CASE m[id].refs = 1
  <2>1. Release(m, S, k)[id] = NoReservation
    BY <1>7 DEF Release
  <2>2. Cardinality(H \ {j}) = 0
    BY <1>3, <1>7
  <2> QED
    BY <1>4, <2>1, <2>2 DEF NoReservation
<1>8. CASE m[id].refs # 1
  <2>1. Release(m, S, k)[id] = [m[id] EXCEPT !.refs = @ - 1]
    BY <1>6, <1>8 DEF Release
  <2> QED
    BY <1>3, <1>5, <2>1 DEF Reservation
<1> QED
  BY <1>7, <1>8

\* The unsettled jobs that reserved an id, and those that carry a delegation.
Holders(id) == {j \in Jobs : Unsettled(j) /\ id \in job[j].routes}
Carriers(d) == {j \in Jobs : Unsettled(j) /\ job[j].delegation = d}

\* The steps that neither enqueue nor settle leave every reservation alone.
LEMMA OtherStepsHold ==
  ASSUME IInv, NEW w \in Jobs, Pop(w) \/ Retire(w) \/ AcquirePermit(w) \/ BodyEnds(w)
  PROVE  /\ job' = job /\ routes' = routes /\ delegations' = delegations
         /\ \A j \in Jobs : Unsettled(j)' <=> Unsettled(j)
<1>1. CASE Pop(w)
  <2>1. /\ stage[queues[workers[w].key].jobs[1]] = "queued"
        /\ stage' = [stage EXCEPT ![queues[workers[w].key].jobs[1]] = "taken"]
    BY <1>1, Popped DEF Pop
  <2> QED
    BY <1>1, <2>1 DEF Pop, holdVars, Unsettled, IInv, TypeOK
<1>2. CASE Retire(w) \/ AcquirePermit(w) \/ BodyEnds(w)
  BY <1>2 DEF Retire, AcquirePermit, BodyEnds, queueVars, holdVars, Unsettled
<1> QED
  BY <1>1, <1>2

\* What an enqueue and a settle do to the set of unsettled jobs.
LEMMA EnqueueUnsettled ==
  ASSUME IInv, NEW j \in Jobs, NEW ij \in Submissions, Enqueue(j, ij)
  PROVE  /\ ~Unsettled(j) /\ Unsettled(j)' /\ job'[j] = ij
         /\ \A h \in Jobs \ {j} : job'[h] = job[h] /\ (Unsettled(h)' <=> Unsettled(h))
BY DEF Enqueue, Unsettled, IInv, TypeOK

\* Settling ends one job of the worker's own key and no other.
LEMMA SettleUnsettled ==
  ASSUME IInv, NEW w \in Jobs, Settle(w)
  PROVE  LET j == workers[w].job
         IN /\ j \in Jobs /\ Unsettled(j) /\ stage'[j] = "settled" /\ job' = job
            /\ job[j].key = workers[w].key
            /\ \A h \in Jobs \ {j} : Unsettled(h)' <=> Unsettled(h)
<1>1. /\ workers[w].job \in Jobs /\ stage[workers[w].job] = "taken"
      /\ job[workers[w].job].key = workers[w].key
  BY DEF Settle, IInv, WorkersServe, Active
<1>2. job' = job /\ stage' = [stage EXCEPT ![workers[w].job] = "settled"]
  BY DEF Settle
<1>3. stage'[workers[w].job] = "settled" /\ \A h \in Jobs \ {workers[w].job} : stage'[h] = stage[h]
  BY <1>1, <1>2 DEF IInv, TypeOK
<1>4. Unsettled(workers[w].job)
  BY <1>1 DEF Unsettled
<1>5. \A h \in Jobs \ {workers[w].job} : Unsettled(h)' <=> Unsettled(h)
  BY <1>3 DEF Unsettled
<1> QED
  BY <1>1, <1>2, <1>3, <1>4, <1>5

\* A step that changes a route's count changes its holders alike.
LEMMA RoutesPairUpStep ==
  ASSUME IInv, Next
  PROVE  RoutesPairUp'
<1> USE DEF Holders
<1>1. /\ routes \in [Ids -> Reservation]
      /\ \A id \in Ids : /\ routes[id].refs = Cardinality(Holders(id))
                         /\ \A j \in Holders(id) : routes[id].key = job[j].key
  BY DEF IInv, TypeOK, RoutesPairUp
<1>2. SUFFICES ASSUME NEW id \in Ids
               PROVE  /\ routes'[id].refs = Cardinality(Holders(id)')
                      /\ \A j \in Holders(id)' : routes'[id].key = job'[j].key
  BY DEF RoutesPairUp
<1>3. ASSUME Holders(id)' = Holders(id), routes'[id] = routes[id],
             \A j \in Holders(id) : job'[j] = job[j]
      PROVE  /\ routes'[id].refs = Cardinality(Holders(id)')
             /\ \A j \in Holders(id)' : routes'[id].key = job'[j].key
  BY <1>1, <1>3
<1>4. ASSUME NEW j \in Jobs, NEW ij \in Submissions, KeysAgree(ij), Enqueue(j, ij)
      PROVE  /\ routes'[id].refs = Cardinality(Holders(id)')
             /\ \A h \in Holders(id)' : routes'[id].key = job'[h].key
  <2>1. routes' = Reserve(routes, ij.routes, ij.key) /\ ij.key \in Keys
    BY <1>4, SubmissionType DEF Enqueue
  <2>2. CASE id \in ij.routes
    <3>1. Holders(id)' = Holders(id) \cup {j} /\ j \notin Holders(id)
      BY <1>4, <2>2, EnqueueUnsettled
    <3>2. routes[id].refs > 0 => routes[id].key = ij.key
      BY <1>4, <2>2 DEF KeysAgree, HasRoute, RouteKey
    <3> HIDE DEF Holders
    <3>3. /\ Holders(id) \in SUBSET Jobs /\ j \in Jobs \ Holders(id)
          /\ routes \in [Ids -> Reservation] /\ routes[id].refs = Cardinality(Holders(id))
      BY <1>1, <3>1 DEF Holders
    <3>4. /\ routes'[id].refs = Cardinality(Holders(id) \cup {j})
          /\ routes'[id].key = ij.key
          /\ Holders(id) # {} => routes[id].key = ij.key
      BY <2>1, <2>2, <3>2, <3>3, ReserveCounts
    <3>5. job'[j] = ij /\ \A h \in Holders(id) : job'[h] = job[h]
      BY <1>4, <3>1, <3>3, EnqueueUnsettled
    <3>6. \A h \in Holders(id) : job'[h].key = ij.key
      BY <1>1, <3>4, <3>5
    <3> QED
      BY <3>1, <3>4, <3>5, <3>6
  <2>3. CASE id \notin ij.routes
    <3>1. routes'[id] = routes[id]
      BY <1>1, <2>1, <2>3 DEF Reserve
    <3>2. Holders(id)' = Holders(id) /\ \A h \in Holders(id) : job'[h] = job[h]
      BY <1>4, <2>3, EnqueueUnsettled
    <3> QED
      BY <1>3, <3>1, <3>2
  <2> QED
    BY <2>2, <2>3
<1>5. ASSUME NEW w \in Jobs, Settle(w)
      PROVE  /\ routes'[id].refs = Cardinality(Holders(id)')
             /\ \A h \in Holders(id)' : routes'[id].key = job'[h].key
  <2> DEFINE j == workers[w].job
  <2>1. routes' = Release(routes, job[j].routes, workers[w].key)
    BY <1>5 DEF Settle
  <2>2. CASE id \in job[j].routes
    <3>0. /\ j \in Jobs /\ Unsettled(j) /\ stage'[j] = "settled" /\ job' = job
          /\ \A h \in Jobs \ {j} : Unsettled(h)' <=> Unsettled(h)
      BY <1>5, SettleUnsettled
    <3>1. Holders(id)' = Holders(id) \ {j} /\ j \in Holders(id) /\ job' = job
      BY <2>2, <3>0 DEF Unsettled
    <3>2. routes[id].key = workers[w].key
      BY <1>1, <1>5, <3>1, SettleUnsettled
    <3> HIDE DEF Holders, j
    <3>3. Holders(id) \in SUBSET Jobs
      BY DEF Holders
    <3>4. /\ routes'[id].refs = Cardinality(Holders(id) \ {j})
          /\ Holders(id) \ {j} # {} => routes'[id].key = workers[w].key
      BY <1>1, <2>1, <2>2, <3>1, <3>2, <3>3, ReleaseCounts
    <3> QED
      BY <1>1, <3>1, <3>2, <3>4
  <2>3. CASE id \notin job[j].routes
    <3>1. routes'[id] = routes[id]
      BY <1>1, <2>1, <2>3 DEF Release
    <3>2. Holders(id)' = Holders(id) /\ job' = job
      BY <1>5, <2>3, SettleUnsettled
    <3> QED
      BY <1>3, <3>1, <3>2
  <2> QED
    BY <2>2, <2>3
<1>6. ASSUME NEW w \in Jobs, Pop(w) \/ Retire(w) \/ AcquirePermit(w) \/ BodyEnds(w)
      PROVE  /\ routes'[id].refs = Cardinality(Holders(id)')
             /\ \A j \in Holders(id)' : routes'[id].key = job'[j].key
  <2>1. /\ job' = job /\ routes' = routes
        /\ \A j \in Jobs : Unsettled(j)' <=> Unsettled(j)
    BY <1>6, OtherStepsHold
  <2>2. Holders(id)' = Holders(id)
    BY <2>1
  <2> QED
    BY <1>3, <2>1, <2>2
<1> QED
  BY <1>4, <1>5, <1>6 DEF Next, WorkerStep

\* A step that changes a delegation's count changes its holders alike.
LEMMA DelegationsPairUpStep ==
  ASSUME IInv, Next
  PROVE  DelegationsPairUp'
<1> USE DEF Carriers
<1>1. /\ delegations \in [Delegations -> Reservation]
      /\ \A d \in Delegations : /\ delegations[d].refs = Cardinality(Carriers(d))
                         /\ \A j \in Carriers(d) : delegations[d].key = job[j].key
  BY DEF IInv, TypeOK, DelegationsPairUp
<1>2. SUFFICES ASSUME NEW d \in Delegations
               PROVE  /\ delegations'[d].refs = Cardinality(Carriers(d)')
                      /\ \A j \in Carriers(d)' : delegations'[d].key = job'[j].key
  BY DEF DelegationsPairUp
<1>3. ASSUME Carriers(d)' = Carriers(d), delegations'[d] = delegations[d],
             \A j \in Carriers(d) : job'[j] = job[j]
      PROVE  /\ delegations'[d].refs = Cardinality(Carriers(d)')
             /\ \A j \in Carriers(d)' : delegations'[d].key = job'[j].key
  BY <1>1, <1>3
<1>4. ASSUME NEW j \in Jobs, NEW ij \in Submissions, KeysAgree(ij), Enqueue(j, ij)
      PROVE  /\ delegations'[d].refs = Cardinality(Carriers(d)')
             /\ \A h \in Carriers(d)' : delegations'[d].key = job'[h].key
  <2>1. delegations' = Reserve(delegations, {ij.delegation}, ij.key) /\ ij.key \in Keys
    BY <1>4, SubmissionType DEF Enqueue
  <2>2. CASE d \in {ij.delegation}
    <3>1. Carriers(d)' = Carriers(d) \cup {j} /\ j \notin Carriers(d)
      BY <1>4, <2>2, EnqueueUnsettled
    <3>2. delegations[d].refs > 0 => delegations[d].key = ij.key
      BY <1>4, <2>2, AbsentAssumption DEF KeysAgree
    <3> HIDE DEF Carriers
    <3>3. /\ Carriers(d) \in SUBSET Jobs /\ j \in Jobs \ Carriers(d)
          /\ delegations \in [Delegations -> Reservation] /\ delegations[d].refs = Cardinality(Carriers(d))
      BY <1>1, <3>1 DEF Carriers
    <3> DEFINE S == {ij.delegation}
               k == ij.key
    <3>7. delegations' = Reserve(delegations, S, k) /\ k \in Keys /\ d \in S
      BY <2>1, <2>2
    <3> HIDE DEF S, k
    <3>8. /\ delegations'[d].refs = Cardinality(Carriers(d) \cup {j})
          /\ delegations'[d].key = k
          /\ Carriers(d) # {} => delegations[d].key = k
      BY <3>2, <3>3, <3>7, ReserveCounts DEF k
    <3>4. /\ delegations'[d].refs = Cardinality(Carriers(d) \cup {j})
          /\ delegations'[d].key = ij.key
          /\ Carriers(d) # {} => delegations[d].key = ij.key
      BY <3>8 DEF k
    <3>5. job'[j] = ij /\ \A h \in Carriers(d) : job'[h] = job[h]
      BY <1>4, <3>1, <3>3, EnqueueUnsettled
    <3>6. \A h \in Carriers(d) : job'[h].key = ij.key
      BY <1>1, <3>4, <3>5
    <3> QED
      BY <3>1, <3>4, <3>5, <3>6
  <2>3. CASE d \notin {ij.delegation}
    <3>1. delegations'[d] = delegations[d]
      BY <1>1, <2>1, <2>3 DEF Reserve
    <3>2. Carriers(d)' = Carriers(d) /\ \A h \in Carriers(d) : job'[h] = job[h]
      BY <1>4, <2>3, EnqueueUnsettled
    <3> QED
      BY <1>3, <3>1, <3>2
  <2> QED
    BY <2>2, <2>3
<1>5. ASSUME NEW w \in Jobs, Settle(w)
      PROVE  /\ delegations'[d].refs = Cardinality(Carriers(d)')
             /\ \A h \in Carriers(d)' : delegations'[d].key = job'[h].key
  <2> DEFINE j == workers[w].job
  <2>1. delegations' = Release(delegations, {job[j].delegation}, workers[w].key)
    BY <1>5 DEF Settle
  <2>2. CASE d \in {job[j].delegation}
    <3>0. /\ j \in Jobs /\ Unsettled(j) /\ stage'[j] = "settled" /\ job' = job
          /\ \A h \in Jobs \ {j} : Unsettled(h)' <=> Unsettled(h)
      BY <1>5, SettleUnsettled
    <3>1. Carriers(d)' = Carriers(d) \ {j} /\ j \in Carriers(d) /\ job' = job
      BY <2>2, <3>0 DEF Unsettled
    <3>2. delegations[d].key = workers[w].key
      BY <1>1, <1>5, <3>1, SettleUnsettled
    <3> HIDE DEF Carriers, j
    <3>3. Carriers(d) \in SUBSET Jobs
      BY DEF Carriers
    <3>4. /\ delegations'[d].refs = Cardinality(Carriers(d) \ {j})
          /\ Carriers(d) \ {j} # {} => delegations'[d].key = workers[w].key
      BY <1>1, <2>1, <2>2, <3>1, <3>2, <3>3, ReleaseCounts
    <3> QED
      BY <1>1, <3>1, <3>2, <3>4
  <2>3. CASE d \notin {job[j].delegation}
    <3>1. delegations'[d] = delegations[d]
      BY <1>1, <2>1, <2>3 DEF Release
    <3>2. Carriers(d)' = Carriers(d) /\ job' = job
      BY <1>5, <2>3, SettleUnsettled
    <3> QED
      BY <1>3, <3>1, <3>2
  <2> QED
    BY <2>2, <2>3
<1>6. ASSUME NEW w \in Jobs, Pop(w) \/ Retire(w) \/ AcquirePermit(w) \/ BodyEnds(w)
      PROVE  /\ delegations'[d].refs = Cardinality(Carriers(d)')
             /\ \A j \in Carriers(d)' : delegations'[d].key = job'[j].key
  <2>1. /\ job' = job /\ delegations' = delegations
        /\ \A j \in Jobs : Unsettled(j)' <=> Unsettled(j)
    BY <1>6, OtherStepsHold
  <2>2. Carriers(d)' = Carriers(d)
    BY <2>1
  <2> QED
    BY <1>3, <2>1, <2>2
<1> QED
  BY <1>4, <1>5, <1>6 DEF Next, WorkerStep

------------------------------------------------------------------------------
(* The theorems. *)

\* The empty executor satisfies the invariant.
LEMMA InitIInv == Init => IInv
<1> SUFFICES ASSUME Init PROVE IInv
  OBVIOUS
<1>1. TypeOK
  BY LaunchBoundAssumption DEF Init, TypeOK, Light, IntakeJob, NoEntry, QueueEntry,
     NoReservation, Reservation, Worker
<1>2. JobsKeyed /\ EntriesServed /\ QueuedJobsWait /\ WorkersServe /\ OneWorkerPerKey /\ EveryEntryHasWorker
  <2>1. \A k \in Keys : /\ queues[k].present = FALSE /\ queues[k].worker_running = FALSE
                        /\ queues[k].jobs = <<>>
    BY DEF Init, NoEntry
  <2>2. \A w \in Jobs : workers[w].pc = "none" /\ ~Active(w) /\ stage[w] = "new"
    BY DEF Init, Active
  <2>3. JobsKeyed /\ WorkersServe /\ OneWorkerPerKey
    BY <2>2 DEF JobsKeyed, WorkersServe, OneWorkerPerKey
  <2>6. \A k \in Keys : 1..Len(queues[k].jobs) = {}
    BY <2>1
  <2>4. EntriesServed /\ QueuedJobsWait
    BY <2>1, <2>6 DEF EntriesServed, QueuedJobsWait
  <2>5. EveryEntryHasWorker
    BY <2>1 DEF EveryEntryHasWorker, QueueBusy
  <2> QED
    BY <2>3, <2>4, <2>5
<1>3. PermitsConserved
  <2>1. RunningHeavy = {}
    BY DEF Init, RunningHeavy, Running
  <2> QED
    BY <2>1, FS_EmptySet, LaunchBoundAssumption DEF Init, PermitsConserved
<1>4. RoutesPairUp
  <2>1. \A id \in Ids : {j \in Jobs : Unsettled(j) /\ id \in job[j].routes} = {}
    BY DEF Init, Unsettled
  <2> QED
    BY <2>1, FS_EmptySet DEF Init, RoutesPairUp, NoReservation
<1>5. DelegationsPairUp
  <2>1. \A d \in Delegations : {j \in Jobs : Unsettled(j) /\ job[j].delegation = d} = {}
    BY DEF Init, Unsettled
  <2> QED
    BY <2>1, FS_EmptySet DEF Init, DelegationsPairUp, NoReservation
<1> QED
  BY <1>1, <1>2, <1>3, <1>4, <1>5 DEF IInv

\* The free permits stay within the bound because they are conserved.
LEMMA PermitBound == Typed /\ PermitsConserved => TypeOK
<1>1. IsFiniteSet(RunningHeavy) /\ Cardinality(RunningHeavy) \in Nat
  BY JobsAssumption, FS_Subset, FS_CardinalityType DEF RunningHeavy
<1>2. ASSUME permits \in Nat, PermitsConserved
      PROVE  permits \in 0..MAX_CONCURRENT_LAUNCH_BODIES
  BY <1>1, <1>2, LaunchBoundAssumption DEF PermitsConserved
<1> QED
  BY <1>2 DEF Typed, TypeOK

\* Every step keeps the invariant.
LEMMA StepIInv == IInv /\ [Next]_vars => IInv'
<1> SUFFICES ASSUME IInv, [Next]_vars PROVE IInv'
  OBVIOUS
<1>1. CASE Next
  <2>1. Typed' /\ PermitsConserved'
    BY <1>1, TypedStep, PermitsConservedStep
  <2>2. TypeOK'
    BY <2>1, PermitBound, PTL
  <2> QED
    BY <1>1, <2>1, <2>2, JobsKeyedStep, EntriesServedStep, QueuedJobsWaitStep,
       WorkersServeStep, OneWorkerPerKeyStep, EveryEntryHasWorkerStep,
       RoutesPairUpStep, DelegationsPairUpStep DEF IInv
<1>2. CASE UNCHANGED vars
  <2>1. UNCHANGED <<job, stage, queues, routes, delegations, pendingHeavy, permits, waiters,
                    workers, submitted>>
    BY <1>2 DEF vars, queueVars, holdVars, workVars
  <2>2. TypeOK' /\ JobsKeyed' /\ EntriesServed' /\ QueuedJobsWait'
    BY <2>1 DEF IInv, TypeOK, JobsKeyed, EntriesServed, QueuedJobsWait
  <2>3. WorkersServe' /\ OneWorkerPerKey' /\ EveryEntryHasWorker'
    BY <2>1 DEF IInv, WorkersServe, OneWorkerPerKey, EveryEntryHasWorker, Active, QueueBusy
  <2>4. RunningHeavy' = RunningHeavy /\ \A j \in Jobs : Unsettled(j)' <=> Unsettled(j)
    BY <2>1 DEF RunningHeavy, Running, Unsettled
  <2>5. PermitsConserved'
    BY <2>1, <2>4 DEF IInv, PermitsConserved
  <2>6. RoutesPairUp' /\ DelegationsPairUp'
    <3>1. \A id : {j \in Jobs : Unsettled(j)' /\ id \in job[j].routes}
                    = {j \in Jobs : Unsettled(j) /\ id \in job[j].routes}
      BY <2>4
    <3>2. \A d : {j \in Jobs : Unsettled(j)' /\ job[j].delegation = d}
                   = {j \in Jobs : Unsettled(j) /\ job[j].delegation = d}
      BY <2>4
    <3>3. RoutesPairUp'
      BY <2>1, <3>1 DEF IInv, RoutesPairUp
    <3>4. DelegationsPairUp'
      BY <2>1, <3>2 DEF IInv, DelegationsPairUp
    <3> QED
      BY <3>3, <3>4
  <2> QED
    BY <2>2, <2>3, <2>5, <2>6 DEF IInv
<1> QED
  BY <1>1, <1>2

\* The strengthened invariant of the executor holds in every reachable state.
THEOREM Invariance == Spec => []IInv
BY InitIInv, StepIInv, PTL DEF Spec

\* The executor's state stays well formed and the free permits within the bound.
THEOREM TypeCorrect == Spec => []TypeOK
BY Invariance, PTL DEF IInv

\* A key is busy exactly while one worker drains it: no queue is stranded and
\* no queue is drained by two workers.
THEOREM BusyKeyServed == Spec => []BusyKeyHasOneWorker
<1>1. IInv => BusyKeyHasOneWorker
  BY DEF IInv, WorkersServe, OneWorkerPerKey, EveryEntryHasWorker, BusyKeyHasOneWorker, QueueBusy
<1> QED
  BY <1>1, Invariance, PTL

\* No panic or early end of a launch body leaks or mints a launch permit.
THEOREM PermitsNeverLeak == Spec => []PermitsConserved
BY Invariance, PTL DEF IInv

\* A pending route is held by exactly the unsettled jobs that reserved it, and a
\* pending delegation by exactly the unsettled launch that carries it.
THEOREM ReservationsNeverLeak == Spec => []ReservationsPairUp
<1>1. IInv => ReservationsPairUp
  BY DEF IInv, ReservationsPairUp
<1> QED
  BY <1>1, Invariance, PTL

------------------------------------------------------------------------------
(* Sequences. *)

\* A job put before a queue is its head, and the queue is the tail.
LEMMA Before ==
  ASSUME NEW S, NEW x \in S, NEW s \in Seq(S)
  PROVE  /\ <<x>> \o s \in Seq(S) /\ <<x>> \o s # <<>>
         /\ Head(<<x>> \o s) = x /\ Tail(<<x>> \o s) = s
<1>1. <<x>> \in Seq(S) /\ Len(<<x>>) = 1 /\ <<x>>[1] = x
  OBVIOUS
<1>2. /\ <<x>> \o s \in Seq(S) /\ Len(<<x>> \o s) = 1 + Len(s)
      /\ \A i \in 1..(1 + Len(s)) : (<<x>> \o s)[i] = IF i = 1 THEN x ELSE s[i - 1]
  BY <1>1
<1>3. Tail(<<x>> \o s) = s
  BY <1>2
<1> QED
  BY <1>2, <1>3

\* A non-empty queue is its head before its tail.
LEMMA HeadFirst ==
  ASSUME NEW S, NEW s \in Seq(S), s # <<>>
  PROVE  Head(s) \in S /\ Tail(s) \in Seq(S) /\ <<Head(s)>> \o Tail(s) = s
<1>1. Head(s) \in S /\ Tail(s) \in Seq(S) /\ Len(Tail(s)) = Len(s) - 1
  OBVIOUS
<1>2. <<Head(s)>> \in Seq(S)
  BY <1>1
<1>3. <<Head(s)>> \o Tail(s) = s
  BY <1>1, <1>2
<1> QED
  BY <1>1, <1>3

\* Appending to what follows a job appends to the whole.
LEMMA AppendBehind ==
  ASSUME NEW S, NEW x \in S, NEW y \in S, NEW s \in Seq(S)
  PROVE  <<x>> \o Append(s, y) = Append(<<x>> \o s, y)
<1>1. <<x>> \in Seq(S) /\ Append(s, y) \in Seq(S)
  OBVIOUS
<1> QED
  BY <1>1

------------------------------------------------------------------------------
(* What the contract sees of a state. *)

\* The worker in progress under a key is the only one there.
LEMMA OneInProgress ==
  ASSUME IInv, NEW w \in Jobs, workers[w].pc \in {"permit", "run"}
  PROVE  /\ workers[w].key \in Keys /\ InProgress(workers[w].key) = {w}
         /\ workers[w].job \in Jobs /\ stage[workers[w].job] = "taken"
         /\ PendingJobs[workers[w].key] = <<workers[w].job>> \o queues[workers[w].key].jobs
<1> DEFINE k == workers[w].key
<1>1. Active(w) /\ k \in Keys /\ workers[w].job \in Jobs /\ stage[workers[w].job] = "taken"
  BY DEF IInv, WorkersServe, Active
<1>2. \A v \in InProgress(k) : v = w
  BY <1>1 DEF IInv, OneWorkerPerKey, InProgress, Active
<1>3. InProgress(k) = {w}
  BY <1>2 DEF InProgress
<1>4. (CHOOSE v \in InProgress(k) : TRUE) = w
  BY <1>3
<1> QED
  BY <1>1, <1>3, <1>4 DEF PendingJobs, PendingUnder

\* Under a key whose worker pops or settles, or that has none, only the queue is pending.
LEMMA NothingInProgress ==
  ASSUME IInv, NEW k \in Keys, InProgress(k) = {}
  PROVE  PendingJobs[k] = queues[k].jobs
<1>1. queues[k].jobs \in Seq(Jobs)
  BY DEF IInv, TypeOK, QueueEntry
<1>2. <<>> \o queues[k].jobs = queues[k].jobs
  BY <1>1
<1> QED
  BY <1>2 DEF PendingJobs, PendingUnder

\* A worker that pops or settles has no other in progress beside it.
LEMMA OthersNotInProgress ==
  ASSUME IInv, NEW w \in Jobs, workers[w].pc \in {"pop", "settle"}
  PROVE  workers[w].key \in Keys /\ InProgress(workers[w].key) = {}
<1>1. Active(w) /\ workers[w].key \in Keys
  BY DEF IInv, WorkersServe, Active
<1>2. \A v \in InProgress(workers[w].key) : v = w
  BY <1>1 DEF IInv, OneWorkerPerKey, InProgress, Active
<1> QED
  BY <1>1, <1>2 DEF InProgress

\* What waits under a key is unsettled: taken by its worker, or queued.
LEMMA WaitingIsUnsettled ==
  ASSUME IInv, NEW k \in Keys
  PROVE  \A j \in Ordered!Waiting(k) : j \in Jobs /\ stage[j] \in {"queued", "taken"}
<1> DEFINE q == queues[k].jobs
<1>1. q \in Seq(Jobs) /\ \A i \in 1..Len(q) : q[i] \in Jobs /\ stage[q[i]] = "queued"
  BY DEF IInv, TypeOK, QueueEntry, QueuedJobsWait
<1>2. CASE InProgress(k) = {}
  BY <1>1, <1>2, NothingInProgress DEF Ordered!Waiting
<1>3. CASE InProgress(k) # {}
  <2>1. PICK w \in Jobs : workers[w].pc \in {"permit", "run"} /\ workers[w].key = k
    BY <1>3 DEF InProgress
  <2>2. /\ workers[w].job \in Jobs /\ stage[workers[w].job] = "taken"
        /\ PendingJobs[k] = <<workers[w].job>> \o q
    BY <2>1, OneInProgress
  <2>3. /\ <<workers[w].job>> \o q \in Seq(Jobs)
        /\ Len(<<workers[w].job>> \o q) = 1 + Len(q)
        /\ \A i \in 1..(1 + Len(q)) :
             (<<workers[w].job>> \o q)[i] = IF i = 1 THEN workers[w].job ELSE q[i - 1]
    BY <1>1, <2>2
  <2> QED
    BY <1>1, <2>2, <2>3 DEF Ordered!Waiting
<1> QED
  BY <1>2, <1>3

------------------------------------------------------------------------------
(* Steps. *)

\* What is pending under each key, as a predicate of the state.
PendingFacts ==
  \A k \in Keys :
    /\ InProgress(k) = {} => PendingJobs[k] = queues[k].jobs
    /\ \A w \in InProgress(k) : PendingJobs[k] = <<workers[w].job>> \o queues[k].jobs

\* It holds in every state of the invariant.
LEMMA PendingForms == IInv => PendingFacts
<1> SUFFICES ASSUME IInv, NEW k \in Keys
             PROVE  /\ InProgress(k) = {} => PendingJobs[k] = queues[k].jobs
                    /\ \A w \in InProgress(k) :
                          PendingJobs[k] = <<workers[w].job>> \o queues[k].jobs
  BY DEF PendingFacts
<1> QED
  BY OneInProgress, NothingInProgress DEF InProgress

\* A key whose queue and whose worker in progress stay has the same pending jobs.
LEMMA PendingStays ==
  ASSUME PendingFacts, PendingFacts', NEW k \in Keys,
         InProgress(k)' = InProgress(k),
         queues'[k].jobs = queues[k].jobs,
         \A w \in InProgress(k) : workers'[w].job = workers[w].job
  PROVE  PendingJobs'[k] = PendingJobs[k]
<1>1. CASE InProgress(k) = {}
  BY <1>1 DEF PendingFacts
<1>2. CASE InProgress(k) # {}
  <2>1. PICK w \in InProgress(k) : TRUE
    BY <1>2
  <2>2. PendingJobs[k] = <<workers[w].job>> \o queues[k].jobs
    BY <2>1 DEF PendingFacts
  <2>3. PendingJobs'[k] = <<workers'[w].job>> \o queues'[k].jobs
    BY <2>1 DEF PendingFacts
  <2> QED
    BY <2>1, <2>2, <2>3
<1> QED
  BY <1>1, <1>2

\* A function that changes in one place.
LEMMA OneValueChanges ==
  ASSUME NEW D, NEW f, NEW g, f = [x \in D |-> f[x]], g = [x \in D |-> g[x]],
         NEW k \in D, \A x \in D \ {k} : g[x] = f[x]
  PROVE  g = [f EXCEPT ![k] = g[k]]
OBVIOUS

\* The pending jobs are a function of the key, whatever the state.
LEMMA PendingIsFunction == PendingJobs = [k \in Keys |-> PendingJobs[k]]
BY DEF PendingJobs

\* The pending jobs of one key change.
LEMMA PendingOneChanges ==
  ASSUME NEW k \in Keys, \A q \in Keys \ {k} : PendingJobs'[q] = PendingJobs[q],
         NEW s, PendingJobs'[k] = s
  PROVE  PendingJobs' = [PendingJobs EXCEPT ![k] = s]
<1>1. PendingJobs' = [q \in Keys |-> PendingJobs'[q]]
  BY DEF PendingJobs
<1> QED
  BY <1>1, PendingIsFunction, OneValueChanges

\* All keys' pending jobs stay.
LEMMA PendingUnchanged ==
  ASSUME \A q \in Keys : PendingJobs'[q] = PendingJobs[q]
  PROVE  PendingJobs' = PendingJobs
BY DEF PendingJobs

\* enqueue submits the job under its key.
LEMMA EnqueueSubmits ==
  ASSUME IInv, IInv', PendingFacts, PendingFacts',
         NEW j \in Jobs, NEW ij \in Submissions, Enqueue(j, ij)
  PROVE  ij.key \in Keys /\ Ordered!Submit(j, ij.key)
<1> DEFINE k == ij.key
<1>1. k \in Keys /\ stage[j] = "new" /\ workers[j].pc = "none"
  BY SubmissionType DEF Enqueue, IInv, JobsKeyed
<1>2. /\ queues \in [Keys -> QueueEntry] /\ workers \in [Jobs -> Worker]
      /\ stage \in [Jobs -> {"new", "queued", "taken", "settled"}]
  BY DEF IInv, TypeOK
<1>3. /\ \A w \in Jobs \ {j} : workers'[w] = workers[w]
      /\ workers'[j].pc \in {"none", "pop"}
  BY <1>1, <1>2 DEF Enqueue, Worker
<1>4. \A q \in Keys : InProgress(q)' = InProgress(q)
  BY <1>1, <1>3 DEF InProgress
<1>5. /\ queues'[k].jobs = Append(queues[k].jobs, j)
      /\ \A q \in Keys \ {k} : queues'[q] = queues[q]
  BY <1>1, <1>2 DEF Enqueue, QueueEntry
<1>6. \A q \in Keys \ {k} : PendingJobs'[q] = PendingJobs[q]
  BY <1>1, <1>3, <1>4, <1>5, PendingStays DEF InProgress
<1>7. PendingJobs'[k] = Append(PendingJobs[k], j)
  <2>1. queues[k].jobs \in Seq(Jobs)
    BY <1>1, <1>2 DEF QueueEntry
  <2>2. CASE InProgress(k) = {}
    BY <1>1, <1>4, <1>5, <2>2 DEF PendingFacts
  <2>3. CASE InProgress(k) # {}
    <3>1. PICK w \in InProgress(k) : TRUE
      BY <2>3
    <3>2. w \in Jobs /\ workers[w].pc \in {"permit", "run"} /\ workers'[w] = workers[w]
      BY <1>1, <1>3, <3>1 DEF InProgress
    <3>3. workers[w].job \in Jobs
      BY <3>2, OneInProgress
    <3>4. PendingJobs[k] = <<workers[w].job>> \o queues[k].jobs
      BY <1>1, <3>1 DEF PendingFacts
    <3>5. PendingJobs'[k] = <<workers[w].job>> \o Append(queues[k].jobs, j)
      BY <1>1, <1>4, <1>5, <3>1, <3>2 DEF PendingFacts
    <3>6. <<workers[w].job>> \o Append(queues[k].jobs, j)
            = Append(<<workers[w].job>> \o queues[k].jobs, j)
      BY <2>1, <3>3, AppendBehind
    <3> QED
      BY <3>4, <3>5, <3>6, Zenon
  <2> QED
    BY <2>2, <2>3
<1>8. PendingJobs' = [PendingJobs EXCEPT ![k] = Append(@, j)]
  BY <1>1, <1>6, <1>7, PendingOneChanges
<1>9. RunningJobs' = RunningJobs
  BY <1>1, <1>3 DEF RunningJobs, Running
<1>10. \A w \in Jobs : workers[w].pc = "settle" => stage[workers[w].job] = "taken"
  BY DEF IInv, WorkersServe, Active
<1>11. EndedJobs' = EndedJobs /\ j \notin EndedJobs
  BY <1>1, <1>2, <1>3, <1>10 DEF EndedJobs, Enqueue
<1>12. \A q \in Keys : j \notin Ordered!Waiting(q)
  BY <1>1, WaitingIsUnsettled
<1> QED
  BY <1>1, <1>8, <1>9, <1>11, <1>12 DEF Ordered!Submit

\* The jobs in progress keep their key and worker while another key's worker moves.
LEMMA OtherKeysStay ==
  ASSUME IInv, PendingFacts, PendingFacts', NEW w \in Jobs, workers[w].key \in Keys,
         \A v \in Jobs \ {w} : workers'[v] = workers[v],
         workers'[w].key = workers[w].key,
         \A q \in Keys \ {workers[w].key} : queues'[q].jobs = queues[q].jobs
  PROVE  \A q \in Keys \ {workers[w].key} : PendingJobs'[q] = PendingJobs[q]
<1> SUFFICES ASSUME NEW q \in Keys \ {workers[w].key} PROVE PendingJobs'[q] = PendingJobs[q]
  OBVIOUS
<1>1. \A v \in InProgress(q) : v \in Jobs \ {w}
  BY DEF InProgress
<1>2. InProgress(q)' = InProgress(q)
  BY DEF InProgress
<1> QED
  BY <1>1, <1>2, PendingStays

\* A light job's pop starts it; a heavy one's is not seen.
LEMMA PopStarts ==
  ASSUME IInv, IInv', PendingFacts, PendingFacts', NEW w \in Jobs, Pop(w)
  PROVE  Ordered!Start(workers[w].key) \/ UNCHANGED <<PendingJobs, RunningJobs, EndedJobs>>
<1> DEFINE k == workers[w].key
           j == Head(queues[k].jobs)
<1>1. k \in Keys /\ InProgress(k) = {}
  BY OthersNotInProgress DEF Pop
<1>2. /\ queues[k].jobs \in Seq(Jobs) /\ queues[k].jobs # <<>>
      /\ j \in Jobs /\ stage[j] = "queued" /\ Tail(queues[k].jobs) \in Seq(Jobs)
      /\ <<j>> \o Tail(queues[k].jobs) = queues[k].jobs
  <2>1. queues[k].jobs \in Seq(Jobs) /\ queues[k].jobs # <<>>
    BY <1>1 DEF IInv, TypeOK, QueueEntry, Pop
  <2>2. Len(queues[k].jobs) \in Nat \ {0} /\ j = queues[k].jobs[1]
    BY <2>1
  <2>3. stage[j] = "queued"
    BY <1>1, <2>2 DEF IInv, QueuedJobsWait
  <2> QED
    BY <2>1, <2>3, HeadFirst
<1>3. /\ workers'[w].key = k /\ workers'[w].job = j
      /\ workers'[w].pc = IF job[j].heavy THEN "permit" ELSE "run"
      /\ workers[w].pc = "pop"
      /\ \A v \in Jobs \ {w} : workers'[v] = workers[v]
      /\ queues'[k].jobs = Tail(queues[k].jobs)
      /\ \A q \in Keys \ {k} : queues'[q] = queues[q]
  <2>1. queues \in [Keys -> QueueEntry] /\ workers \in [Jobs -> Worker]
    BY DEF IInv, TypeOK
  <2>2. /\ queues'[k].jobs = Tail(queues[k].jobs)
        /\ \A q \in Keys \ {k} : queues'[q] = queues[q]
    BY <1>1, <2>1 DEF Pop, QueueEntry
  <2>3. /\ workers'[w].key = k /\ workers'[w].job = j
        /\ workers'[w].pc = IF job[j].heavy THEN "permit" ELSE "run"
        /\ \A v \in Jobs \ {w} : workers'[v] = workers[v]
    <3>1. workers[w] \in Worker /\ j \in Jobs \cup {NoJob}
          /\ (IF job[j].heavy THEN "permit" ELSE "run") \in {"permit", "run"}
      BY <1>2, <2>1
    <3> DEFINE c == IF job[j].heavy THEN "permit" ELSE "run"
    <3>2. workers' = [workers EXCEPT ![w].job = j, ![w].pc = c]
      BY DEF Pop
    <3>3. c \in {"none", "pop", "permit", "run", "settle", "gone"}
      BY <3>1
    <3> HIDE DEF c, j, k
    <3>4. /\ workers'[w].pc = c /\ workers'[w].job = j /\ workers'[w].key = workers[w].key
          /\ \A v \in Jobs \ {w} : workers'[v] = workers[v]
      BY ONLY <2>1, <3>1, <3>2, <3>3, w \in Jobs, WorkersUpdated, ZenonT(60)
    <3> QED
      BY <3>4 DEF k, c
  <2>4. workers[w].pc = "pop"
    BY DEF Pop
  <2> QED
    BY <2>2, <2>3, <2>4
<1>4. PendingJobs' = PendingJobs
  <2>1. w \in InProgress(k)'
    BY <1>3 DEF InProgress
  <2>2. PendingJobs'[k] = <<j>> \o Tail(queues[k].jobs)
    <3>1. \A q \in Keys : \A v \in InProgress(q)' :
              PendingJobs'[q] = <<workers'[v].job>> \o queues'[q].jobs
      BY Zenon DEF PendingFacts
    <3>2. PendingJobs'[k] = <<workers'[w].job>> \o queues'[k].jobs
      <4>1. k' = k
        BY <1>3
      <4>2. k' \in Keys
        BY <1>1, <4>1
      <4>3. PendingJobs'[k'] = <<workers'[w].job>> \o queues'[k'].jobs
        BY <2>1, <3>1, <4>2, Zenon
      <4> QED
        BY <4>1, <4>3, Zenon
    <3> QED
      BY <1>3, <3>2, Zenon
  <2>3. PendingJobs[k] = queues[k].jobs
    BY <1>1 DEF PendingFacts
  <2>4. PendingJobs'[k] = PendingJobs[k]
    BY <1>2, <2>2, <2>3, Zenon
  <2>5. \A q \in Keys \ {k} : PendingJobs'[q] = PendingJobs[q]
    BY <1>1, <1>3, OtherKeysStay
  <2> QED
    BY <2>4, <2>5, PendingUnchanged
<1>5. EndedJobs' = EndedJobs
  <2>1. \A i \in Jobs : stage'[i] = "settled" <=> stage[i] = "settled"
    BY <1>2 DEF Pop, IInv, TypeOK
  <2>2. \A v \in Jobs : workers'[v].pc = "settle" <=> workers[v].pc = "settle"
    BY <1>3
  <2>3. \A v \in Jobs : workers[v].pc = "settle" => workers'[v] = workers[v]
    BY <1>3
  <2> QED
    BY <2>1, <2>2, <2>3 DEF EndedJobs
<1>6. CASE job[j].heavy
  <2>1. RunningJobs' = RunningJobs
    BY <1>3, <1>6 DEF RunningJobs, Running
  <2> QED
    BY <1>4, <1>5, <2>1
<1>7. CASE ~job[j].heavy
  <2>1. RunningJobs' = RunningJobs \cup {j}
    <3>1. \A v \in Jobs : Running(v)' <=> Running(v) \/ v = w
      BY <1>3, <1>7 DEF Running
    <3>2. \A v \in Jobs : Running(v) => workers'[v] = workers[v]
      BY <1>3 DEF Running
    <3>3. w \in Jobs /\ ~Running(w) /\ workers'[w].job = j
      BY <1>3 DEF Running
    <3>4. \A x : x \in RunningJobs' <=> \E v \in Jobs : Running(v)' /\ x = workers'[v].job
      BY DEF RunningJobs
    <3>5. \A x : x \in RunningJobs <=> \E v \in Jobs : Running(v) /\ x = workers[v].job
      BY DEF RunningJobs
    <3> QED
      BY ONLY <3>1, <3>2, <3>3, <3>4, <3>5
  <2>2. \A i \in RunningJobs : stage[i] = "taken"
    BY DEF RunningJobs, Running, IInv, WorkersServe, Active
  <2>3. PendingJobs[k] = queues[k].jobs
    BY <1>1 DEF PendingFacts
  <2> QED
    BY <1>1, <1>2, <1>4, <1>5, <2>1, <2>2, <2>3 DEF Ordered!Start
<1> QED
  BY <1>6, <1>7

\* A worker that retires leaves nothing pending and is not seen.
LEMMA RetireUnseen ==
  ASSUME IInv, IInv', PendingFacts, PendingFacts', NEW w \in Jobs, Retire(w)
  PROVE  UNCHANGED <<PendingJobs, RunningJobs, EndedJobs>>
<1> DEFINE k == workers[w].key
<1>1. k \in Keys /\ InProgress(k) = {}
  BY OthersNotInProgress DEF Retire
<1>2. /\ workers'[w].key = k /\ workers'[w].pc = "gone" /\ workers[w].pc = "pop"
      /\ \A v \in Jobs \ {w} : workers'[v] = workers[v]
      /\ \A q \in Keys : queues'[q].jobs = queues[q].jobs
  BY <1>1 DEF Retire, IInv, TypeOK, Worker, QueueEntry, NoEntry
<1>3. \A q \in Keys : InProgress(q)' = InProgress(q)
  BY <1>2 DEF InProgress
<1>4. \A q \in Keys : \A v \in InProgress(q) : workers'[v].job = workers[v].job
  BY <1>2 DEF InProgress
<1>5. PendingJobs' = PendingJobs
  BY <1>2, <1>3, <1>4, PendingStays, PendingUnchanged
<1>6. RunningJobs' = RunningJobs
  BY <1>2 DEF RunningJobs, Running
<1>7. EndedJobs' = EndedJobs
  BY <1>2 DEF EndedJobs, Retire
<1> QED
  BY <1>5, <1>6, <1>7

\* A permit starts the heavy body.
LEMMA AcquireStarts ==
  ASSUME IInv, IInv', PendingFacts, PendingFacts', NEW w \in Jobs, AcquirePermit(w)
  PROVE  Ordered!Start(workers[w].key)
<1> DEFINE k == workers[w].key
           j == workers[w].job
<1>1. /\ k \in Keys /\ j \in Jobs /\ InProgress(k) = {w}
      /\ PendingJobs[k] = <<j>> \o queues[k].jobs
  BY OneInProgress DEF AcquirePermit
<1>2. /\ workers[w].pc = "permit" /\ workers'[w].pc = "run"
      /\ workers'[w].key = k /\ workers'[w].job = j
      /\ \A v \in Jobs \ {w} : workers'[v] = workers[v]
      /\ queues' = queues /\ stage' = stage
  <2>1. workers \in [Jobs -> Worker]
    BY DEF IInv, TypeOK
  <2>2. /\ workers[w].pc = "permit" /\ queues' = queues /\ stage' = stage
        /\ workers' = [workers EXCEPT ![w].pc = "run"]
    BY DEF AcquirePermit, queueVars
  <2> QED
    BY <2>1, <2>2, WorkersMoved
<1>3. PendingJobs' = PendingJobs
  <2>1. \A q \in Keys : InProgress(q)' = InProgress(q)
    BY <1>2 DEF InProgress
  <2>2. \A q \in Keys : \A v \in InProgress(q) : workers'[v].job = workers[v].job
    BY <1>2 DEF InProgress
  <2> QED
    BY <1>2, <2>1, <2>2, PendingStays, PendingUnchanged
<1>4. EndedJobs' = EndedJobs
  BY <1>2 DEF EndedJobs
<1>5. RunningJobs' = RunningJobs \cup {j}
  <2>1. \A v \in Jobs : Running(v)' <=> Running(v) \/ v = w
    BY <1>2 DEF Running
  <2>2. \A v \in Jobs : workers'[v].job = workers[v].job
    BY <1>2
  <2> QED
    BY <2>1, <2>2 DEF RunningJobs
<1>6. j \notin RunningJobs
  <2>1. SUFFICES ASSUME NEW v \in Jobs, Running(v), workers[v].job = j
                 PROVE  FALSE
    BY DEF RunningJobs
  <2>2. v # w /\ Active(v) /\ Active(w)
    BY <1>2, <2>1 DEF Running, Active
  <2>3. workers[v].key = workers[w].key
    BY <2>1, <2>2, <1>2 DEF IInv, WorkersServe, Running
  <2> QED
    BY <2>2, <2>3 DEF IInv, OneWorkerPerKey
<1>7. Head(PendingJobs[k]) = j /\ PendingJobs[k] # <<>>
  <2>1. queues[k].jobs \in Seq(Jobs)
    BY <1>1 DEF IInv, TypeOK, QueueEntry
  <2> QED
    BY <1>1, <2>1, Before
<1> QED
  BY <1>3, <1>4, <1>5, <1>6, <1>7 DEF Ordered!Start

\* The end of a body ends its job.
LEMMA BodyEndEnds ==
  ASSUME IInv, IInv', PendingFacts, PendingFacts', NEW w \in Jobs, BodyEnds(w)
  PROVE  workers[w].key \in Keys /\ Ordered!End(workers[w].key)
<1> DEFINE k == workers[w].key
           j == workers[w].job
<1>1. /\ k \in Keys /\ j \in Jobs /\ InProgress(k) = {w}
      /\ PendingJobs[k] = <<j>> \o queues[k].jobs
  BY OneInProgress DEF BodyEnds
<1>2. /\ workers[w].pc = "run" /\ workers'[w].pc = "settle"
      /\ workers'[w].key = k /\ workers'[w].job = j
      /\ \A v \in Jobs \ {w} : workers'[v] = workers[v]
      /\ queues' = queues /\ stage' = stage
  <2>1. workers \in [Jobs -> Worker]
    BY DEF IInv, TypeOK
  <2>2. /\ workers[w].pc = "run" /\ queues' = queues /\ stage' = stage
        /\ workers' = [workers EXCEPT ![w].pc = "settle"]
    BY DEF BodyEnds, queueVars
  <2> QED
    BY <2>1, <2>2, WorkersMoved
<1>3. queues[k].jobs \in Seq(Jobs)
  BY <1>1 DEF IInv, TypeOK, QueueEntry
<1>4. /\ Head(PendingJobs[k]) = j /\ PendingJobs[k] # <<>>
      /\ Tail(PendingJobs[k]) = queues[k].jobs
  BY <1>1, <1>3, Before
<1>5. PendingJobs' = [PendingJobs EXCEPT ![k] = Tail(@)]
  <2>1. InProgress(k)' = {}
    <3>1. \A v \in Jobs : v # w => ~(workers[v].pc \in {"permit", "run"} /\ workers[v].key = k)
      BY <1>1 DEF InProgress
    <3> QED
      BY <1>2, <3>1 DEF InProgress
  <2>2. PendingJobs'[k] = queues[k].jobs
    BY <1>1, <1>2, <2>1 DEF PendingFacts
  <2>3. \A q \in Keys \ {k} : PendingJobs'[q] = PendingJobs[q]
    BY <1>1, <1>2, OtherKeysStay
  <2> QED
    BY <1>1, <1>4, <2>2, <2>3, PendingOneChanges
<1>6. \A v \in Jobs : Running(v) /\ workers[v].job = j => v = w
  <2>1. SUFFICES ASSUME NEW v \in Jobs, Running(v), workers[v].job = j
                 PROVE  v = w
    OBVIOUS
  <2>2. Active(v) /\ Active(w)
    BY <1>2, <2>1 DEF Running, Active
  <2>3. workers[v].key = workers[w].key
    BY <2>1, <2>2, <1>2 DEF IInv, WorkersServe, Running
  <2> QED
    BY <2>2, <2>3 DEF IInv, OneWorkerPerKey
<1>7. RunningJobs' = RunningJobs \ {j} /\ j \in RunningJobs
  <2>1. \A v \in Jobs : Running(v)' <=> Running(v) /\ v # w
    BY <1>2 DEF Running
  <2>2. \A v \in Jobs : workers'[v].job = workers[v].job
    BY <1>2
  <2>3. Running(w)
    BY <1>2 DEF Running
  <2> QED
    BY <1>6, <2>1, <2>2, <2>3 DEF RunningJobs
<1>8. EndedJobs' = EndedJobs \cup {j}
  <2>1. \A v \in Jobs : workers'[v].pc = "settle" <=> workers[v].pc = "settle" \/ v = w
    BY <1>2
  <2>2. \A v \in Jobs : workers'[v].job = workers[v].job
    BY <1>2
  <2> QED
    BY <1>1, <1>2, <2>1, <2>2 DEF EndedJobs
<1> QED
  BY <1>1, <1>4, <1>5, <1>7, <1>8 DEF Ordered!End

\* What a settle does, the contract saw at the end of the body.
LEMMA SettleUnseen ==
  ASSUME IInv, IInv', PendingFacts, PendingFacts', NEW w \in Jobs, Settle(w)
  PROVE  UNCHANGED <<PendingJobs, RunningJobs, EndedJobs>>
<1> DEFINE k == workers[w].key
           j == workers[w].job
<1>1. k \in Keys /\ InProgress(k) = {} /\ j \in Jobs /\ stage[j] = "taken"
  BY OthersNotInProgress DEF Settle, IInv, WorkersServe, Active
<1>2. /\ workers[w].pc = "settle" /\ workers'[w].pc = "pop" /\ workers'[w].key = k
      /\ \A v \in Jobs \ {w} : workers'[v] = workers[v]
      /\ queues' = queues /\ stage' = [stage EXCEPT ![j] = "settled"]
  <2>1. workers \in [Jobs -> Worker]
    BY DEF IInv, TypeOK
  <2>2. /\ workers[w].pc = "settle" /\ queues' = queues
        /\ stage' = [stage EXCEPT ![j] = "settled"]
        /\ workers' = [workers EXCEPT ![w].pc = "pop", ![w].job = NoJob]
    BY DEF Settle
  <2> QED
    BY <2>1, <2>2 DEF Worker
<1>3. PendingJobs' = PendingJobs
  <2>1. \A q \in Keys : InProgress(q)' = InProgress(q)
    BY <1>2 DEF InProgress
  <2>2. \A q \in Keys : \A v \in InProgress(q) : workers'[v].job = workers[v].job
    BY <1>2 DEF InProgress
  <2> QED
    BY <1>2, <2>1, <2>2, PendingStays, PendingUnchanged
<1>4. RunningJobs' = RunningJobs
  <2>1. \A v \in Jobs : Running(v)' <=> Running(v)
    BY <1>2 DEF Running
  <2>2. \A v \in Jobs : Running(v) => workers'[v] = workers[v]
    BY <1>2 DEF Running
  <2> QED
    BY <2>1, <2>2 DEF RunningJobs
<1>5. EndedJobs' = EndedJobs
  <2>1. \A i \in Jobs : stage'[i] = "settled" <=> stage[i] = "settled" \/ i = j
    BY <1>1, <1>2 DEF IInv, TypeOK
  <2>2. \A v \in Jobs : workers'[v].pc = "settle" <=> workers[v].pc = "settle" /\ v # w
    BY <1>2
  <2>3. \A v \in Jobs \ {w} : workers'[v].job = workers[v].job
    BY <1>2
  <2> QED
    BY <1>1, <1>2, <2>1, <2>2, <2>3 DEF EndedJobs
<1> QED
  BY <1>3, <1>4, <1>5

------------------------------------------------------------------------------
(* The refinement. *)

\* At the start nothing is pending, runs or has ended.
LEMMA OrderedInit == Init => Ordered!Init
<1> SUFFICES ASSUME Init PROVE Ordered!Init
  OBVIOUS
<1>1. IInv /\ PendingFacts
  BY InitIInv, PendingForms
<1>2. \A w \in Jobs : workers[w].pc = "none"
  BY DEF Init
<1>3. \A k \in Keys : InProgress(k) = {} /\ queues[k].jobs = <<>>
  BY <1>2 DEF Init, InProgress, NoEntry
<1>4. \A k \in Keys : PendingJobs[k] = <<>>
  BY <1>1, <1>3 DEF PendingFacts
<1>5. PendingJobs = [k \in Keys |-> <<>>]
  BY <1>4, PendingIsFunction
<1>6. RunningJobs = {} /\ EndedJobs = {}
  BY <1>2 DEF Init, RunningJobs, Running, EndedJobs
<1> QED
  BY <1>5, <1>6 DEF Ordered!Init

\* Every step of the executor is a step of the contract or not seen by it.
LEMMA OrderedStep == IInv /\ [Next]_vars => [Ordered!Next]_(Ordered!vars)
<1> SUFFICES ASSUME IInv, [Next]_vars
             PROVE  Ordered!Next \/ UNCHANGED <<PendingJobs, RunningJobs, EndedJobs>>
  BY DEF Ordered!vars
<1>1. IInv' /\ PendingFacts
  BY StepIInv, PendingForms
<1>2. PendingFacts'
  BY <1>1, PendingForms, PTL
<1>3. ASSUME NEW j \in Jobs, NEW ij \in Submissions, Enqueue(j, ij)
      PROVE  Ordered!Next
  BY <1>1, <1>2, <1>3, EnqueueSubmits DEF Ordered!Next
<1>4. ASSUME NEW w \in Jobs, Pop(w)
      PROVE  Ordered!Next \/ UNCHANGED <<PendingJobs, RunningJobs, EndedJobs>>
  <2>1. workers[w].key \in Keys
    BY <1>4, OthersNotInProgress DEF Pop
  <2> QED
    BY <1>1, <1>2, <1>4, <2>1, PopStarts DEF Ordered!Next
<1>5. ASSUME NEW w \in Jobs, Retire(w) \/ Settle(w)
      PROVE  UNCHANGED <<PendingJobs, RunningJobs, EndedJobs>>
  BY <1>1, <1>2, <1>5, RetireUnseen, SettleUnseen
<1>6. ASSUME NEW w \in Jobs, AcquirePermit(w)
      PROVE  Ordered!Next
  <2>1. workers[w].key \in Keys
    BY <1>6, OneInProgress DEF AcquirePermit
  <2> QED
    BY <1>1, <1>2, <1>6, <2>1, AcquireStarts DEF Ordered!Next
<1>7. ASSUME NEW w \in Jobs, BodyEnds(w)
      PROVE  Ordered!Next
  BY <1>1, <1>2, <1>7, BodyEndEnds DEF Ordered!Next
<1>8. CASE UNCHANGED vars
  <2>1. UNCHANGED <<stage, queues, workers>>
    BY <1>8 DEF vars, queueVars, workVars
  <2> QED
    BY <2>1 DEF PendingJobs, PendingUnder, InProgress, RunningJobs, Running, EndedJobs
<1> QED
  BY <1>3, <1>4, <1>5, <1>6, <1>7, <1>8 DEF Next, WorkerStep

\* The module's doc, "jobs under one key run strictly in order, one at a time, different
\* keys independently", holds of the executor with its locks, workers and permits.
THEOREM ExecutorIsOrdered == Spec => OrderedSpec
<1>1. Spec => Ordered!Init /\ [][Ordered!Next]_(Ordered!vars)
  BY OrderedInit, OrderedStep, Invariance, PTL DEF Spec
<1> QED
  BY <1>1 DEF OrderedSpec, Ordered!Spec

------------------------------------------------------------------------------
(* Ranks in a set of positions.                                               *)

Rank(P, p) == Cardinality({q \in P : q <= p})

\* The ranks in a set count it from one, upwards, and leave no number out.
LEMMA Ranks ==
  ASSUME NEW n \in Nat, NEW P \in SUBSET (1..n)
  PROVE  /\ IsFiniteSet(P) /\ Cardinality(P) \in Nat
         /\ \A p \in P : Rank(P, p) \in 1..Cardinality(P)
         /\ \A p, q \in P : p < q => Rank(P, p) < Rank(P, q)
         /\ \A y \in 1..Cardinality(P) : \E p \in P : Rank(P, p) = y
<1> DEFINE Upto(p) == {q \in P : q <= p}
           c == Cardinality(P)
           f == [p \in P |-> Rank(P, p)]
<1>0. \A p \in P : p \in Int
  OBVIOUS
<1>1. IsFiniteSet(P) /\ c \in Nat /\ \A p \in P : p \in Int
  <2>1. IsFiniteSet(1..n)
    BY FS_Interval
  <2>2. IsFiniteSet(P)
    BY <2>1, FS_Subset
  <2> QED
    BY <1>0, <2>2, FS_CardinalityType
<1>2. \A p \in P : /\ IsFiniteSet(Upto(p)) /\ Cardinality(Upto(p)) \in Nat
                   /\ Cardinality(Upto(p)) <= c
  BY <1>1, FS_Subset, FS_CardinalityType
<1>3. \A p \in P : Rank(P, p) \in 1..c
  <2>1. SUFFICES ASSUME NEW p \in P
                 PROVE  Rank(P, p) \in 1..c
    OBVIOUS
  <2>2. p \in Upto(p)
    BY <1>1
  <2>3. Cardinality(Upto(p)) # 0
    BY <1>2, <2>2, FS_EmptySet
  <2> QED
    BY <1>1, <1>2, <2>3 DEF Rank
<1>4. ASSUME NEW p \in P, NEW q \in P, p < q
      PROVE  Rank(P, p) < Rank(P, q)
  <2>1. Upto(p) \in SUBSET Upto(q)
    <3>1. ASSUME NEW r \in P, r <= p
          PROVE  r <= q
      <4>1. r \in Int /\ p \in Int /\ q \in Int
        BY <1>0
      <4> QED
        BY <1>4, <3>1, <4>1
    <3> QED
      BY <3>1
  <2>2. q \in Upto(q) /\ q \notin Upto(p)
    BY <1>1, <1>4
  <2>3. Upto(p) # Upto(q)
    BY <2>2
  <2>4. Cardinality(Upto(p)) <= Cardinality(Upto(q)) /\ Cardinality(Upto(p)) # Cardinality(Upto(q))
    BY <1>2, <2>1, <2>3, FS_Subset
  <2> QED
    BY <1>2, <2>4 DEF Rank
<1>5. \A y \in 1..c : \E p \in P : Rank(P, p) = y
  <2>1. f \in [P -> 1..c]
    BY <1>3
  <2>2. \A p, q \in P : f[p] = f[q] => p = q
    <3>1. SUFFICES ASSUME NEW p \in P, NEW q \in P, Rank(P, p) = Rank(P, q), p # q
                   PROVE  FALSE
      OBVIOUS
    <3>2. p < q \/ q < p
      BY <1>1, <3>1
    <3> QED
      BY <1>3, <1>4, <3>1, <3>2
  <2>3. IsFiniteSet(1..c) /\ Cardinality(1..c) = c
    BY <1>1, FS_Interval
  <2> HIDE DEF f
  <2>4. f \in Injection(P, 1..c)
    BY <2>1, <2>2, Fun_IsInj
  <2>5. f \in Surjection(P, 1..c)
    <3> DEFINE T == 1..c
    <3>1. f \in Injection(P, T) /\ IsFiniteSet(T) /\ Cardinality(P) = Cardinality(T)
      BY <2>3, <2>4
    <3> HIDE DEF T
    <3>2. f \in Surjection(P, T)
      BY <3>1, FS_Injection
    <3> QED
      BY <3>2 DEF T
  <2>6. \A y \in 1..c : \E p \in P : f[p] = y
    BY <2>5 DEF Surjection
  <2> QED
    BY <2>6 DEF f
<1> QED
  BY <1>1, <1>3, <1>4, <1>5

\* A position behind all others gets the last rank and moves no other.
LEMMA RankBehind ==
  ASSUME NEW n \in Nat, NEW P \in SUBSET (1..n)
  PROVE  LET Q == P \cup {n + 1}
         IN /\ Cardinality(Q) = Cardinality(P) + 1
            /\ Rank(Q, n + 1) = Cardinality(P) + 1
            /\ \A p \in P : Rank(Q, p) = Rank(P, p)
<1> DEFINE Q == P \cup {n + 1}
<1>0. \A p \in P : p \in Int /\ p <= n
  OBVIOUS
<1>1. IsFiniteSet(P) /\ n + 1 \notin P
  <2>1. n + 1 \notin P
    BY <1>0
  <2> QED
    BY <2>1, Ranks
<1>2. Cardinality(Q) = Cardinality(P) + 1
  BY <1>1, FS_AddElement
<1>3. {q \in Q : q <= n + 1} = Q
  <2>1. \A q \in Q : q \in Int /\ q <= n + 1
    BY <1>0
  <2> QED
    BY <2>1
<1>4. \A p \in P : {q \in Q : q <= p} = {q \in P : q <= p}
  <2>1. \A p \in P : ~(n + 1 <= p)
    BY <1>0
  <2> QED
    BY <2>1
<1> QED
  BY <1>2, <1>3, <1>4 DEF Rank

\* Without one position those behind it move up by one.
LEMMA RankWithout ==
  ASSUME NEW n \in Nat, NEW P \in SUBSET (1..n), NEW x \in P
  PROVE  LET Q == P \ {x}
         IN /\ Cardinality(Q) = Cardinality(P) - 1
            /\ \A p \in Q : Rank(Q, p) = IF p < x THEN Rank(P, p) ELSE Rank(P, p) - 1
<1> DEFINE Q == P \ {x}
           Upto(p) == {q \in P : q <= p}
<1>0. \A p \in P : p \in Int
  OBVIOUS
<1>1. IsFiniteSet(P)
  BY Ranks
<1>2. Cardinality(Q) = Cardinality(P) - 1
  BY <1>1, FS_RemoveElement
<1>3. ASSUME NEW p \in Q
      PROVE  Rank(Q, p) = IF p < x THEN Rank(P, p) ELSE Rank(P, p) - 1
  <2>1. IsFiniteSet(Upto(p))
    BY <1>1, FS_Subset
  <2>2. {q \in Q : q <= p} = Upto(p) \ {x}
    OBVIOUS
  <2>3. Cardinality(Upto(p) \ {x}) = IF x \in Upto(p) THEN Cardinality(Upto(p)) - 1
                                     ELSE Cardinality(Upto(p))
    BY <2>1, FS_RemoveElement
  <2>4. x \in Upto(p) <=> ~(p < x)
    BY <1>0
  <2> QED
    BY <2>2, <2>3, <2>4 DEF Rank
<1> QED
  BY <1>2, <1>3

\* RemoveFirst takes out the first occurrence, and those behind it move up by one.
LEMMA RemoveFirstIs ==
  ASSUME NEW S, NEW s \in Seq(S), NEW y \in 1..Len(s), \A i \in 1..Len(s) : i < y => s[i] # s[y]
  PROVE  LET r == RemoveFirst(s, s[y])
         IN /\ Len(r) = Len(s) - 1
            /\ \A i \in 1..(Len(s) - 1) : r[i] = IF i < y THEN s[i] ELSE s[i + 1]
<1> DEFINE e == s[y]
           I == {i \in 1..Len(s) : s[i] = e}
<1>1. Len(s) \in Nat /\ I \in SUBSET (1..Len(s)) /\ y \in I
  OBVIOUS
<1>2. \A i \in I : y <= i
  OBVIOUS
<1> HIDE DEF I
<1>3. Min(I) = y
  <2>1. \A x \in I : x \in Int
    BY <1>1
  <2>2. \A x \in I : (\A z \in I : x <= z) => x = y
    BY <1>1, <1>2, <2>1
  <2> QED
    BY <1>1, <1>2, <2>2 DEF Min
<1>4. SelectInSeq(s, LAMBDA v : v = e) = y
  BY <1>1, <1>3 DEF SelectInSeq, I
<1>5. RemoveFirst(s, e) = SubSeq(s, 1, y - 1) \o SubSeq(s, y + 1, Len(s))
  BY <1>1, <1>4 DEF RemoveFirst, RemoveAt
<1>6. y \in Int /\ 1 <= y /\ y <= Len(s)
  BY <1>1
<1> HIDE DEF e
<1> DEFINE a == SubSeq(s, 1, y - 1)
           b == SubSeq(s, y + 1, Len(s))
<1>7. /\ a \in Seq(S) /\ Len(a) = y - 1 /\ \A i \in 1..(y - 1) : a[i] = s[i]
      /\ b \in Seq(S) /\ Len(b) = Len(s) - y /\ \A i \in 1..(Len(s) - y) : b[i] = s[y + i]
  BY <1>1, <1>6
<1> HIDE DEF a, b
<1>8. /\ Len(a \o b) = Len(a) + Len(b)
      /\ \A i \in 1..(Len(a) + Len(b)) : (a \o b)[i] = IF i <= Len(a) THEN a[i] ELSE b[i - Len(a)]
  BY <1>7, ConcatProperties
<1>10. /\ Len(a \o b) = Len(s) - 1
      /\ \A i \in 1..(Len(s) - 1) : (a \o b)[i] = IF i <= y - 1 THEN a[i] ELSE b[i - (y - 1)]
  BY <1>1, <1>6, <1>7, <1>8
<1>9. \A i \in 1..(Len(s) - 1) : IF i < y THEN (a \o b)[i] = s[i] ELSE (a \o b)[i] = s[i + 1]
  BY <1>1, <1>6, <1>7, <1>10
<1> QED
  BY <1>5, <1>10, <1>9 DEF e, a, b

------------------------------------------------------------------------------
(* Launches settle in the order of their keys.                                *)

\* The history has every submitted job, once.
SubmittedOnce ==
  /\ \A j \in Jobs : stage[j] # "new" <=> \E p \in 1..Len(submitted) : submitted[p] = j
  /\ \A p, q \in 1..Len(submitted) : submitted[p] = submitted[q] => p = q

\* A job taken has its worker until it is settled.
TakenAreServed ==
  \A j \in Jobs : stage[j] = "taken" =>
    \E w \in Jobs : workers[w].pc \in {"permit", "run", "settle"} /\ workers[w].job = j

\* A queued job is in the queue of its key, behind those submitted before it.
QueuedInTurn ==
  /\ \A j \in Jobs : stage[j] = "queued" =>
       \E i \in 1..Len(queues[job[j].key].jobs) : queues[job[j].key].jobs[i] = j
  /\ \A k \in Keys : \A i, h \in 1..Len(queues[k].jobs) : \A p, q \in 1..Len(submitted) :
       submitted[p] = queues[k].jobs[i] /\ submitted[q] = queues[k].jobs[h] /\ p < q => i < h

\* A job is taken only when those submitted before it under its key are settled.
TakenInTurn ==
  \A p, q \in 1..Len(submitted) :
    /\ p < q /\ job[submitted[p]].key = job[submitted[q]].key
    /\ stage[submitted[q]] \in {"taken", "settled"}
    => stage[submitted[p]] = "settled"

OrderInv == SubmittedOnce /\ TakenAreServed /\ QueuedInTurn /\ TakenInTurn /\ PendingHeavyInOrder

\* What an enqueue changes of the jobs, the queues and the history.
Enqueued(j, ij) ==
  /\ ij \in IntakeJob /\ ij.key \in Keys
  /\ stage[j] = "new"
  /\ \A i \in Jobs : stage'[i] = IF i = j THEN "queued" ELSE stage[i]
  /\ \A i \in Jobs : job'[i] = IF i = j THEN ij ELSE job[i]
  /\ Len(submitted') = Len(submitted) + 1
  /\ \A p \in 1..Len(submitted') : submitted'[p] = IF p = Len(submitted) + 1 THEN j ELSE submitted[p]
  /\ \A k \in Keys : k # ij.key => queues'[k].jobs = queues[k].jobs
  /\ Len(queues'[ij.key].jobs) = Len(queues[ij.key].jobs) + 1
  /\ \A i \in 1..Len(queues'[ij.key].jobs) :
       queues'[ij.key].jobs[i] = IF i = Len(queues[ij.key].jobs) + 1 THEN j
                                 ELSE queues[ij.key].jobs[i]

\* The lengths of the sequences and their elements.
LEMMA Lengths ==
  ASSUME IInv
  PROVE  /\ Len(submitted) \in Nat /\ \A p \in 1..Len(submitted) : submitted[p] \in Jobs
         /\ \A k \in Keys : /\ Len(queues[k].jobs) \in Nat
                            /\ \A i \in 1..Len(queues[k].jobs) : queues[k].jobs[i] \in Jobs
<1>1. submitted \in Seq(Jobs) /\ \A k \in Keys : queues[k].jobs \in Seq(Jobs)
  BY DEF IInv, TypeOK, QueueEntry
<1> QED
  BY <1>1

\* enqueue appends the job to the history and to the queue of its key.
LEMMA EnqueueIs ==
  ASSUME IInv, NEW j \in Jobs, NEW ij \in Submissions, Enqueue(j, ij)
  PROVE  Enqueued(j, ij)
<1> DEFINE q == queues[ij.key].jobs
<1>1. /\ ij \in IntakeJob /\ ij.key \in Keys /\ q \in Seq(Jobs) /\ stage[j] = "new"
      /\ queues'[ij.key].jobs = Append(q, j)
      /\ stage' = [stage EXCEPT ![j] = "queued"]
      /\ job' = [job EXCEPT ![j] = ij]
      /\ submitted' = Append(submitted, j) /\ submitted \in Seq(Jobs)
      /\ \A k \in Keys \ {ij.key} : queues'[k] = queues[k]
  BY SubmissionType DEF Enqueue, IInv, TypeOK, QueueEntry
<1>2. /\ Len(submitted') = Len(submitted) + 1
      /\ \A p \in 1..Len(submitted') : submitted'[p] = IF p = Len(submitted) + 1 THEN j ELSE submitted[p]
  BY <1>1
<1>3. /\ Len(queues'[ij.key].jobs) = Len(q) + 1
      /\ \A i \in 1..Len(queues'[ij.key].jobs) :
           queues'[ij.key].jobs[i] = IF i = Len(q) + 1 THEN j ELSE q[i]
  <2> HIDE DEF q
  <2> QED
    BY <1>1
<1>4. /\ \A i \in Jobs : stage'[i] = IF i = j THEN "queued" ELSE stage[i]
      /\ \A i \in Jobs : job'[i] = IF i = j THEN ij ELSE job[i]
  BY <1>1 DEF IInv, TypeOK
<1> QED
  BY <1>1, <1>2, <1>3, <1>4 DEF Enqueued

\* A pop takes the head of the worker's own queue.
Taken(w, k, j) ==
  /\ k \in Keys /\ j \in Jobs /\ workers[w].key = k /\ workers[w].pc = "pop"
  /\ stage[j] = "queued" /\ job[j].key = k
  /\ Len(queues[k].jobs) > 0 /\ queues[k].jobs[1] = j
  /\ UNCHANGED <<job, submitted>>
  /\ \A i \in Jobs : stage'[i] = IF i = j THEN "taken" ELSE stage[i]
  /\ \A x \in Keys : x # k => queues'[x].jobs = queues[x].jobs
  /\ Len(queues'[k].jobs) = Len(queues[k].jobs) - 1
  /\ \A i \in 1..Len(queues'[k].jobs) : queues'[k].jobs[i] = queues[k].jobs[i + 1]
  /\ \A v \in Jobs : v # w => workers'[v] = workers[v]
  /\ workers'[w].pc \in {"permit", "run"} /\ workers'[w].job = j

\* What a worker pops was at the head of its key's queue.
LEMMA PopIs ==
  ASSUME IInv, NEW w \in Jobs, Pop(w)
  PROVE  \E k \in Keys, j \in Jobs : Taken(w, k, j)
<1> DEFINE k == workers[w].key
           q == queues[k].jobs
           j == q[1]
<1>1. /\ k \in Keys /\ q \in Seq(Jobs) /\ Len(q) \in Nat /\ Len(q) > 0 /\ Head(q) = j
      /\ j \in Jobs /\ stage[j] = "queued" /\ job[j].key = k /\ Len(Tail(q)) = Len(q) - 1
      /\ \A i \in 1..Len(Tail(q)) : Tail(q)[i] = q[i + 1]
      /\ workers[w].pc = "pop"
  BY Popped DEF Pop
<1>2. /\ stage' = [stage EXCEPT ![j] = "taken"]
      /\ queues' = [queues EXCEPT ![k].jobs = Tail(q)]
      /\ UNCHANGED <<job, submitted>>
      /\ workers' = [workers EXCEPT ![w].job = j,
                                    ![w].pc = IF job[j].heavy THEN "permit" ELSE "run"]
  BY <1>1 DEF Pop
<1>3. queues'[k].jobs = Tail(q) /\ \A x \in Keys : x # k => queues'[x].jobs = queues[x].jobs
  BY <1>1, <1>2, QueuesType DEF QueueEntry
<1>4. /\ \A v \in Jobs : v # w => workers'[v] = workers[v]
      /\ workers'[w].pc \in {"permit", "run"} /\ workers'[w].job = j
  BY <1>2, WorkersType DEF Worker
<1>5. \A i \in Jobs : stage'[i] = IF i = j THEN "taken" ELSE stage[i]
  BY <1>1, <1>2 DEF IInv, TypeOK
<1>6. Len(queues'[k].jobs) = Len(q) - 1 /\ \A i \in 1..Len(queues'[k].jobs) : queues'[k].jobs[i] = q[i + 1]
  BY <1>1, <1>3
<1> HIDE DEF k, q, j
<1>7. Taken(w, k, j)
  BY <1>1, <1>2, <1>3, <1>4, <1>5, <1>6 DEF Taken, k, q, j
<1> QED
  BY <1>1, <1>7

\* A worker settles the job it took.
Settled(w, j) ==
  /\ j \in Jobs /\ workers[w].pc = "settle" /\ workers[w].job = j /\ stage[j] = "taken"
  /\ UNCHANGED <<job, submitted, queues>>
  /\ \A i \in Jobs : stage'[i] = IF i = j THEN "settled" ELSE stage[i]
  /\ \A v \in Jobs : v # w => workers'[v] = workers[v]

\* The job settled is the worker's.
LEMMA SettleIs ==
  ASSUME IInv, NEW w \in Jobs, Settle(w)
  PROVE  Settled(w, workers[w].job)
<1>1. workers[w].job \in Jobs /\ stage[workers[w].job] = "taken" /\ workers[w].pc = "settle"
  BY DEF Settle, IInv, WorkersServe, Active
<1>2. \A i \in Jobs : stage'[i] = IF i = workers[w].job THEN "settled" ELSE stage[i]
  BY <1>1 DEF Settle, IInv, TypeOK
<1>3. \A v \in Jobs : v # w => workers'[v] = workers[v]
  BY WorkersType DEF Settle
<1> QED
  BY <1>1, <1>2, <1>3 DEF Settle, Settled

\* The other steps of a worker leave the jobs, the queued ones and the history alone.
Aside(w) ==
  /\ UNCHANGED <<job, submitted, stage, pendingHeavy>>
  /\ \A k \in Keys : queues'[k].jobs = queues[k].jobs
  /\ \A v \in Jobs : v # w => workers'[v] = workers[v]
  /\ workers'[w].job = workers[w].job
  /\ workers[w].pc \in {"permit", "run", "settle"} => workers'[w].pc \in {"permit", "run", "settle"}

\* Retiring, taking a permit and the end of a body are such steps.
LEMMA AsideIs ==
  ASSUME IInv, NEW w \in Jobs, Retire(w) \/ AcquirePermit(w) \/ BodyEnds(w)
  PROVE  Aside(w)
<1>1. CASE Retire(w)
  <2>1. /\ UNCHANGED <<job, submitted, stage, pendingHeavy>>
        /\ workers[w].pc = "pop" /\ queues[workers[w].key].jobs = <<>>
        /\ queues' = [queues EXCEPT ![workers[w].key] = NoEntry]
        /\ workers' = [workers EXCEPT ![w].pc = "gone"]
    BY <1>1 DEF Retire, holdVars
  <2>2. \A k \in Keys : queues'[k].jobs = queues[k].jobs
    BY <2>1, QueuesType DEF NoEntry
  <2>3. (\A v \in Jobs : v # w => workers'[v] = workers[v]) /\ workers'[w].job = workers[w].job
    BY <2>1, WorkersType DEF Worker
  <2> QED
    BY <2>1, <2>2, <2>3 DEF Aside
<1>2. CASE AcquirePermit(w) \/ BodyEnds(w)
  <2>1. UNCHANGED <<job, submitted, stage, pendingHeavy, queues>>
    BY <1>2 DEF AcquirePermit, BodyEnds, queueVars, holdVars
  <2>2. \E pc \in {"run", "settle"} : workers' = [workers EXCEPT ![w].pc = pc]
    BY <1>2 DEF AcquirePermit, BodyEnds
  <2>3. /\ \A v \in Jobs : v # w => workers'[v] = workers[v]
        /\ workers'[w].job = workers[w].job /\ workers'[w].pc \in {"run", "settle"}
    BY <2>2, WorkersType DEF Worker
  <2> QED
    BY <2>1, <2>3 DEF Aside
<1> QED
  BY <1>1, <1>2

\* A job enters the history when it is submitted.
LEMMA SubmittedOnceStep ==
  ASSUME IInv, OrderInv, Next
  PROVE  SubmittedOnce'
<1>0. /\ Len(submitted) \in Nat /\ \A p \in 1..Len(submitted) : submitted[p] \in Jobs
      /\ SubmittedOnce
  BY Lengths DEF OrderInv
<1>1. ASSUME NEW j \in Jobs, NEW ij \in Submissions, Enqueue(j, ij)
      PROVE  SubmittedOnce'
  <2> DEFINE n == Len(submitted)
  <2>1. /\ stage[j] = "new" /\ Len(submitted') = n + 1
        /\ \A i \in Jobs : stage'[i] = IF i = j THEN "queued" ELSE stage[i]
        /\ \A p \in 1..(n + 1) : submitted'[p] = IF p = n + 1 THEN j ELSE submitted[p]
    BY <1>1, EnqueueIs DEF Enqueued
  <2>2. \A p \in 1..n : submitted[p] # j
    BY <1>0, <2>1 DEF SubmittedOnce
  <2>3. \A p \in 1..(n + 1) : p = n + 1 \/ p \in 1..n
    BY <1>0
  <2>4. n + 1 \in 1..(n + 1) /\ \A p \in 1..n : p \in 1..(n + 1) /\ p # n + 1
    BY <1>0
  <2>5. \A i \in Jobs : stage'[i] # "new" <=> \E p \in 1..Len(submitted') : submitted'[p] = i
    <3>1. SUFFICES ASSUME NEW i \in Jobs
                   PROVE  stage'[i] # "new" <=> \E p \in 1..(n + 1) : submitted'[p] = i
      BY <2>1
    <3>2. CASE i = j
      BY <2>1, <2>4, <3>2
    <3>3. CASE i # j
      <4>1. (\E p \in 1..(n + 1) : submitted'[p] = i) <=> \E p \in 1..n : submitted[p] = i
        BY <2>1, <2>3, <2>4, <3>3
      <4> QED
        BY <1>0, <2>1, <3>3, <4>1 DEF SubmittedOnce
    <3> QED
      BY <3>2, <3>3
  <2>6. \A p, q \in 1..Len(submitted') : submitted'[p] = submitted'[q] => p = q
    BY <1>0, <2>1, <2>2, <2>3 DEF SubmittedOnce
  <2> QED
    BY <2>5, <2>6 DEF SubmittedOnce
<1>2. ASSUME UNCHANGED submitted, \A i \in Jobs : stage'[i] # "new" <=> stage[i] # "new"
      PROVE  SubmittedOnce'
  BY <1>0, <1>2 DEF SubmittedOnce
<1>3. ASSUME NEW w \in Jobs, Pop(w)
      PROVE  SubmittedOnce'
  <2>1. PICK k \in Keys, j \in Jobs : Taken(w, k, j)
    BY <1>3, PopIs
  <2> QED
    BY <1>2, <2>1 DEF Taken
<1>4. ASSUME NEW w \in Jobs, Settle(w)
      PROVE  SubmittedOnce'
  BY <1>2, <1>4, SettleIs DEF Settled
<1>5. ASSUME NEW w \in Jobs, Retire(w) \/ AcquirePermit(w) \/ BodyEnds(w)
      PROVE  SubmittedOnce'
  BY <1>2, <1>5, AsideIs DEF Aside
<1> QED
  BY <1>1, <1>3, <1>4, <1>5 DEF Next, WorkerStep

\* The worker that takes a job keeps it until it settles it.
LEMMA TakenAreServedStep ==
  ASSUME IInv, OrderInv, Next
  PROVE  TakenAreServed'
<1>0. TakenAreServed
  BY DEF OrderInv
<1>1. ASSUME NEW j \in Jobs, NEW ij \in Submissions, Enqueue(j, ij)
      PROVE  TakenAreServed'
  <2>1. /\ \A i \in Jobs : stage'[i] = IF i = j THEN "queued" ELSE stage[i]
        /\ stage[j] = "new"
    BY <1>1, EnqueueIs DEF Enqueued
  <2>2. workers[j].pc = "none"
    BY <2>1 DEF IInv, JobsKeyed
  <2>3. \A w \in Jobs \ {j} : workers'[w] = workers[w]
    BY <1>1, WorkersType DEF Enqueue
  <2> QED
    BY <1>0, <2>1, <2>2, <2>3 DEF TakenAreServed
<1>2. ASSUME NEW w \in Jobs, Pop(w)
      PROVE  TakenAreServed'
  <2>1. PICK k \in Keys, j \in Jobs : Taken(w, k, j)
    BY <1>2, PopIs
  <2> QED
    BY <1>0, <2>1 DEF Taken, TakenAreServed
<1>3. ASSUME NEW w \in Jobs, Settle(w)
      PROVE  TakenAreServed'
  <2>1. Settled(w, workers[w].job)
    BY <1>3, SettleIs
  <2> QED
    BY <1>0, <2>1 DEF Settled, TakenAreServed
<1>4. ASSUME NEW w \in Jobs, Retire(w) \/ AcquirePermit(w) \/ BodyEnds(w)
      PROVE  TakenAreServed'
  <2>1. Aside(w)
    BY <1>4, AsideIs
  <2>2. \A v \in Jobs : workers[v].pc \in {"permit", "run", "settle"} =>
          workers'[v].pc \in {"permit", "run", "settle"} /\ workers'[v].job = workers[v].job
    BY <2>1 DEF Aside
  <2> QED
    BY <1>0, <2>1, <2>2 DEF Aside, TakenAreServed
<1> QED
  BY <1>1, <1>2, <1>3, <1>4 DEF Next, WorkerStep

\* Queues are first in, first out: an append goes behind, a pop takes the front.
LEMMA QueuedInTurnStep ==
  ASSUME IInv, OrderInv, Next
  PROVE  QueuedInTurn'
<1>0. /\ Len(submitted) \in Nat /\ \A p \in 1..Len(submitted) : submitted[p] \in Jobs
      /\ \A k \in Keys : /\ Len(queues[k].jobs) \in Nat
                         /\ \A i \in 1..Len(queues[k].jobs) : queues[k].jobs[i] \in Jobs
      /\ SubmittedOnce /\ QueuedInTurn
      /\ \A i \in Jobs : stage[i] # "new" => job[i].key \in Keys
  BY Lengths DEF OrderInv, IInv, JobsKeyed
<1>1. ASSUME NEW j \in Jobs, NEW ij \in Submissions, Enqueue(j, ij)
      PROVE  QueuedInTurn'
  <2> DEFINE n == Len(submitted)
             m == Len(queues[ij.key].jobs)
  <2>1. Enqueued(j, ij)
    BY <1>1, EnqueueIs
  <2>2. /\ ij.key \in Keys /\ stage[j] = "new" /\ Len(submitted') = n + 1
        /\ \A i \in Jobs : stage'[i] = IF i = j THEN "queued" ELSE stage[i]
        /\ \A i \in Jobs : job'[i] = IF i = j THEN ij ELSE job[i]
        /\ \A p \in 1..(n + 1) : submitted'[p] = IF p = n + 1 THEN j ELSE submitted[p]
        /\ \A k \in Keys : k # ij.key => queues'[k].jobs = queues[k].jobs
        /\ Len(queues'[ij.key].jobs) = m + 1
        /\ \A i \in 1..(m + 1) :
             queues'[ij.key].jobs[i] = IF i = m + 1 THEN j ELSE queues[ij.key].jobs[i]
    BY <2>1 DEF Enqueued
  <2>3. \A k \in Keys : \A i \in 1..Len(queues[k].jobs) : queues[k].jobs[i] # j
    BY <2>2 DEF IInv, QueuedJobsWait
  <2>4. \A p \in 1..n : submitted[p] # j
    BY <1>0, <2>2 DEF SubmittedOnce
  <2>5. n \in Nat /\ m \in Nat
    BY <1>0, <2>2
  <2> HIDE DEF n, m
  <2>6. \A i \in Jobs : stage'[i] = "queued" =>
          \E h \in 1..Len(queues'[job'[i].key].jobs) : queues'[job'[i].key].jobs[h] = i
    <3>1. SUFFICES ASSUME NEW i \in Jobs, stage'[i] = "queued"
                   PROVE  \E h \in 1..Len(queues'[job'[i].key].jobs) : queues'[job'[i].key].jobs[h] = i
      OBVIOUS
    <3>2. CASE i = j
      BY <2>2, <2>5, <3>2
    <3>3. CASE i # j
      <4>1. stage[i] = "queued" /\ job'[i] = job[i] /\ job[i].key \in Keys
        BY <1>0, <2>2, <3>1, <3>3
      <4>2. PICK h \in 1..Len(queues[job[i].key].jobs) : queues[job[i].key].jobs[h] = i
        BY <1>0, <4>1 DEF QueuedInTurn
      <4>3. CASE job[i].key = ij.key
        <5>1. h \in 1..(m + 1) /\ h # m + 1
          BY <2>5, <4>2, <4>3 DEF m
        <5> QED
          BY <2>2, <4>1, <4>2, <4>3, <5>1
      <4>4. CASE job[i].key # ij.key
        BY <2>2, <4>1, <4>2, <4>4
      <4> QED
        BY <4>3, <4>4
    <3> QED
      BY <3>2, <3>3
  <2>8. ASSUME NEW k \in Keys, NEW i \in 1..Len(queues'[k].jobs)
        PROVE  \/ /\ i \in 1..Len(queues[k].jobs)
                  /\ queues'[k].jobs[i] = queues[k].jobs[i] /\ queues[k].jobs[i] # j
               \/ k = ij.key /\ i = m + 1 /\ queues'[k].jobs[i] = j
    <3>1. CASE k = ij.key
      <4>1. i \in 1..(m + 1)
        BY <2>2, <2>8, <3>1
      <4>2. queues'[ij.key].jobs[i] = IF i = m + 1 THEN j ELSE queues[ij.key].jobs[i]
        BY <2>2, <4>1
      <4>3. i # m + 1 => i \in 1..m
        BY <2>5, <4>1
      <4> QED
        BY <2>3, <3>1, <4>2, <4>3 DEF m
    <3>2. CASE k # ij.key
      BY <2>2, <2>3, <2>8, <3>2
    <3> QED
      BY <3>1, <3>2
  <2>7. \A k \in Keys : \A i, h \in 1..Len(queues'[k].jobs) : \A p, q \in 1..Len(submitted') :
          submitted'[p] = queues'[k].jobs[i] /\ submitted'[q] = queues'[k].jobs[h] /\ p < q => i < h
    <3>1. SUFFICES ASSUME NEW k \in Keys,
                          NEW i \in 1..Len(queues'[k].jobs), NEW h \in 1..Len(queues'[k].jobs),
                          NEW p \in 1..Len(submitted'), NEW q \in 1..Len(submitted'),
                          submitted'[p] = queues'[k].jobs[i], submitted'[q] = queues'[k].jobs[h], p < q
                   PROVE  i < h
      OBVIOUS
    <3>2. p \in 1..n /\ submitted'[p] = submitted[p] /\ submitted[p] # j
      BY <2>2, <2>4, <2>5, <3>1
    <3>3. i \in 1..Len(queues[k].jobs) /\ queues'[k].jobs[i] = queues[k].jobs[i]
      BY <2>8, <3>1, <3>2
    <3>4. CASE q = n + 1
      <4>1. queues'[k].jobs[h] = j
        BY <2>2, <3>1, <3>4
      <4>2. k = ij.key /\ h = m + 1
        BY <2>8, <4>1
      <4>3. i \in 1..m
        BY <3>3, <4>2 DEF m
      <4> QED
        BY <2>5, <4>2, <4>3
    <3>5. CASE q # n + 1
      <4>1. q \in 1..n /\ submitted'[q] = submitted[q] /\ submitted[q] # j
        BY <2>2, <2>4, <2>5, <3>1, <3>5
      <4>2. h \in 1..Len(queues[k].jobs) /\ queues'[k].jobs[h] = queues[k].jobs[h]
        BY <2>8, <3>1, <4>1
      <4> QED
        BY <1>0, <3>1, <3>2, <3>3, <4>1, <4>2 DEF QueuedInTurn, n
    <3> QED
      BY <3>4, <3>5
  <2> QED
    BY <2>6, <2>7 DEF QueuedInTurn
<1>2. ASSUME NEW w \in Jobs, Pop(w)
      PROVE  QueuedInTurn'
  <2>1. PICK k \in Keys, j \in Jobs : Taken(w, k, j)
    BY <1>2, PopIs
  <2> DEFINE m == Len(queues[k].jobs)
  <2>2. /\ job[j].key = k /\ m \in Nat /\ m > 0 /\ queues[k].jobs[1] = j
        /\ UNCHANGED <<job, submitted>>
        /\ \A i \in Jobs : stage'[i] = IF i = j THEN "taken" ELSE stage[i]
        /\ \A x \in Keys : x # k => queues'[x].jobs = queues[x].jobs
        /\ Len(queues'[k].jobs) = m - 1
        /\ \A i \in 1..(m - 1) : queues'[k].jobs[i] = queues[k].jobs[i + 1]
    BY <1>0, <2>1 DEF Taken
  <2>3. \A i \in Jobs : stage'[i] = "queued" =>
          \E h \in 1..Len(queues'[job'[i].key].jobs) : queues'[job'[i].key].jobs[h] = i
    <3>1. SUFFICES ASSUME NEW i \in Jobs, stage'[i] = "queued"
                   PROVE  \E h \in 1..Len(queues'[job'[i].key].jobs) : queues'[job'[i].key].jobs[h] = i
      OBVIOUS
    <3>2. i # j /\ stage[i] = "queued" /\ job'[i] = job[i] /\ job[i].key \in Keys
      BY <1>0, <2>2, <3>1
    <3>3. PICK h \in 1..Len(queues[job[i].key].jobs) : queues[job[i].key].jobs[h] = i
      BY <1>0, <3>2 DEF QueuedInTurn
    <3>4. CASE job[i].key = k
      <4>1. h # 1
        BY <2>2, <3>2, <3>3, <3>4
      <4>2. h - 1 \in 1..(m - 1) /\ (h - 1) + 1 = h
        BY <2>2, <3>3, <3>4, <4>1
      <4>3. queues'[k].jobs[h - 1] = queues[k].jobs[h]
        BY <2>2, <4>2
      <4> QED
        BY <2>2, <3>2, <3>3, <3>4, <4>2, <4>3
    <3>5. CASE job[i].key # k
      BY <2>2, <3>2, <3>3, <3>5
    <3> QED
      BY <3>4, <3>5
  <2>4. \A x \in Keys : \A i, h \in 1..Len(queues'[x].jobs) : \A p, q \in 1..Len(submitted') :
          submitted'[p] = queues'[x].jobs[i] /\ submitted'[q] = queues'[x].jobs[h] /\ p < q => i < h
    <3>1. SUFFICES ASSUME NEW x \in Keys,
                          NEW i \in 1..Len(queues'[x].jobs), NEW h \in 1..Len(queues'[x].jobs),
                          NEW p \in 1..Len(submitted), NEW q \in 1..Len(submitted),
                          submitted[p] = queues'[x].jobs[i], submitted[q] = queues'[x].jobs[h], p < q
                   PROVE  i < h
      BY <2>2
    <3>2. CASE x = k
      <4>0. i \in 1..(m - 1) /\ h \in 1..(m - 1)
        BY <2>2, <3>1, <3>2
      <4>1. /\ i \in Int /\ h \in Int /\ i + 1 \in 1..m /\ h + 1 \in 1..m
            /\ submitted[p] = queues[k].jobs[i + 1] /\ submitted[q] = queues[k].jobs[h + 1]
        BY <2>2, <3>1, <3>2, <4>0
      <4>2. i + 1 < h + 1
        BY <1>0, <3>1, <4>1 DEF QueuedInTurn
      <4> QED
        BY ONLY <4>1, <4>2
    <3>3. CASE x # k
      <4>1. queues'[x].jobs = queues[x].jobs
        BY <2>2, <3>3
      <4> QED
        BY <1>0, <3>1, <4>1 DEF QueuedInTurn
    <3> QED
      BY <3>2, <3>3
  <2> QED
    BY <2>3, <2>4 DEF QueuedInTurn
<1>3. ASSUME UNCHANGED <<submitted, job>>, \A k \in Keys : queues'[k].jobs = queues[k].jobs,
             \A i \in Jobs : stage'[i] = "queued" => stage[i] = "queued"
      PROVE  QueuedInTurn'
  <2>1. submitted' = submitted /\ job' = job
    BY ONLY <1>3
  <2>2. ASSUME NEW i \in Jobs, stage'[i] = "queued"
        PROVE  \E h \in 1..Len(queues'[job'[i].key].jobs) : queues'[job'[i].key].jobs[h] = i
    <3>1. stage[i] = "queued" /\ job[i].key \in Keys
      BY <1>0, <1>3, <2>2
    <3>2. queues'[job[i].key].jobs = queues[job[i].key].jobs
      BY <1>3, <3>1
    <3> QED
      BY ONLY <1>0, <2>1, <3>1, <3>2 DEF QueuedInTurn
  <2>3. ASSUME NEW k \in Keys, NEW i \in 1..Len(queues'[k].jobs), NEW h \in 1..Len(queues'[k].jobs),
               NEW p \in 1..Len(submitted'), NEW q \in 1..Len(submitted'),
               submitted'[p] = queues'[k].jobs[i], submitted'[q] = queues'[k].jobs[h], p < q
        PROVE  i < h
    <3>1. queues'[k].jobs = queues[k].jobs
      BY <1>3
    <3> QED
      BY ONLY <1>0, <2>1, <2>3, <3>1 DEF QueuedInTurn
  <2> QED
    BY <2>2, <2>3 DEF QueuedInTurn
<1>4. ASSUME NEW w \in Jobs, Settle(w)
      PROVE  QueuedInTurn'
  <2>1. Settled(w, workers[w].job)
    BY <1>4, SettleIs
  <2>2. /\ UNCHANGED <<submitted, job>> /\ queues' = queues
        /\ \A i \in Jobs : stage'[i] = "queued" => stage[i] = "queued"
    BY ONLY <2>1 DEF Settled
  <2> QED
    BY <1>3, <2>2
<1>5. ASSUME NEW w \in Jobs, Retire(w) \/ AcquirePermit(w) \/ BodyEnds(w)
      PROVE  QueuedInTurn'
  BY <1>3, <1>5, AsideIs DEF Aside
<1> QED
  BY <1>1, <1>2, <1>4, <1>5 DEF Next, WorkerStep

\* What a worker pops is the oldest job of its key that is not settled: older ones are
\* neither in the queue, which has them in order, nor with another worker.
LEMMA TakenInTurnStep ==
  ASSUME IInv, OrderInv, Next
  PROVE  TakenInTurn'
<1>0. /\ Len(submitted) \in Nat /\ \A p \in 1..Len(submitted) : submitted[p] \in Jobs
      /\ \A k \in Keys : /\ Len(queues[k].jobs) \in Nat
                         /\ \A i \in 1..Len(queues[k].jobs) : queues[k].jobs[i] \in Jobs
      /\ SubmittedOnce /\ TakenAreServed /\ QueuedInTurn /\ TakenInTurn
  BY Lengths DEF OrderInv
<1>1. ASSUME NEW j \in Jobs, NEW ij \in Submissions, Enqueue(j, ij)
      PROVE  TakenInTurn'
  <2> DEFINE n == Len(submitted)
  <2>1. /\ stage[j] = "new" /\ Len(submitted') = n + 1
        /\ \A i \in Jobs : stage'[i] = IF i = j THEN "queued" ELSE stage[i]
        /\ \A i \in Jobs : job'[i] = IF i = j THEN ij ELSE job[i]
        /\ \A p \in 1..(n + 1) : submitted'[p] = IF p = n + 1 THEN j ELSE submitted[p]
    BY <1>1, EnqueueIs DEF Enqueued
  <2>2. \A p \in 1..n : submitted[p] # j
    BY <1>0, <2>1 DEF SubmittedOnce
  <2>3. SUFFICES ASSUME NEW p \in 1..(n + 1), NEW q \in 1..(n + 1), p < q,
                        job'[submitted'[p]].key = job'[submitted'[q]].key,
                        stage'[submitted'[q]] \in {"taken", "settled"}
                 PROVE  stage'[submitted'[p]] = "settled"
    BY <2>1 DEF TakenInTurn
  <2>4. q # n + 1
    BY <2>1, <2>3
  <2>5. p \in 1..n /\ q \in 1..n
    BY ONLY <1>0, <2>3, <2>4
  <2>6. submitted'[p] = submitted[p] /\ submitted'[q] = submitted[q]
    <3>1. p \in 1..(n + 1) /\ q \in 1..(n + 1) /\ p # n + 1 /\ q # n + 1
      BY ONLY <1>0, <2>5
    <3> QED
      BY ONLY <2>1, <3>1
  <2>7. /\ submitted[p] \in Jobs \ {j} /\ submitted[q] \in Jobs \ {j}
    BY ONLY <1>0, <2>2, <2>5
  <2>8. /\ job[submitted[p]].key = job[submitted[q]].key
        /\ stage[submitted[q]] \in {"taken", "settled"}
        /\ stage'[submitted[p]] = stage[submitted[p]]
    BY ONLY <2>1, <2>3, <2>6, <2>7
  <2> QED
    BY ONLY <1>0, <2>3, <2>5, <2>6, <2>8 DEF TakenInTurn
<1>2. ASSUME NEW w \in Jobs, Pop(w)
      PROVE  TakenInTurn'
  <2>1. PICK k \in Keys, j \in Jobs : Taken(w, k, j)
    BY <1>2, PopIs
  <2>2. /\ workers[w].key = k /\ workers[w].pc = "pop" /\ stage[j] = "queued" /\ job[j].key = k
        /\ Len(queues[k].jobs) > 0 /\ queues[k].jobs[1] = j /\ UNCHANGED <<job, submitted>>
        /\ \A i \in Jobs : stage'[i] = IF i = j THEN "taken" ELSE stage[i]
    BY <2>1 DEF Taken
  <2>3. SUFFICES ASSUME NEW p \in 1..Len(submitted), NEW q \in 1..Len(submitted), p < q,
                        job[submitted[p]].key = job[submitted[q]].key,
                        stage'[submitted[q]] \in {"taken", "settled"}
                 PROVE  stage'[submitted[p]] = "settled"
    BY <2>2 DEF TakenInTurn
  <2>4. CASE submitted[q] # j
    <3>1. stage[submitted[p]] = "settled"
      BY <1>0, <2>2, <2>3, <2>4 DEF TakenInTurn
    <3> QED
      BY <1>0, <2>2, <3>1
  <2>5. CASE submitted[q] = j
    <3> DEFINE i == submitted[p]
    <3>1. i \in Jobs /\ i # j /\ job[i].key = k /\ stage[i] # "new"
      BY <1>0, <2>2, <2>3, <2>5 DEF SubmittedOnce
    <3>2. stage[i] # "queued"
      <4>1. SUFFICES ASSUME stage[i] = "queued"
                     PROVE  FALSE
        OBVIOUS
      <4>2. PICK h \in 1..Len(queues[k].jobs) : queues[k].jobs[h] = i
        BY <1>0, <3>1, <4>1 DEF QueuedInTurn
      <4>3. Len(queues[k].jobs) \in Nat /\ 1 \in 1..Len(queues[k].jobs)
        BY <1>0, <2>2
      <4>4. submitted[p] = queues[k].jobs[h] /\ submitted[q] = queues[k].jobs[1] /\ p < q
        BY <2>2, <2>3, <2>5, <4>2
      <4>5. h < 1
        BY <1>0, <4>3, <4>4 DEF QueuedInTurn
      <4> QED
        BY <4>2, <4>3, <4>5
    <3>3. stage[i] # "taken"
      <4>1. SUFFICES ASSUME stage[i] = "taken"
                     PROVE  FALSE
        OBVIOUS
      <4>2. PICK v \in Jobs : workers[v].pc \in {"permit", "run", "settle"} /\ workers[v].job = i
        BY <1>0, <3>1, <4>1 DEF TakenAreServed
      <4>3. workers[v].key = k /\ Active(v) /\ Active(w)
        BY <2>2, <3>1, <4>2 DEF IInv, WorkersServe, Active
      <4> QED
        BY <2>2, <4>2, <4>3 DEF IInv, OneWorkerPerKey
    <3>4. stage[i] = "settled"
      BY <3>1, <3>2, <3>3 DEF IInv, TypeOK
    <3> QED
      BY <2>2, <3>1, <3>4
  <2> QED
    BY <2>4, <2>5
<1>3. ASSUME NEW w \in Jobs, Settle(w)
      PROVE  TakenInTurn'
  <2> DEFINE j == workers[w].job
  <2>1. /\ j \in Jobs /\ stage[j] = "taken" /\ UNCHANGED <<job, submitted>>
        /\ \A i \in Jobs : stage'[i] = IF i = j THEN "settled" ELSE stage[i]
    BY <1>3, SettleIs DEF Settled
  <2>2. \A i \in Jobs : /\ stage'[i] \in {"taken", "settled"} => stage[i] \in {"taken", "settled"}
                        /\ stage[i] = "settled" => stage'[i] = "settled"
    BY <2>1
  <2> QED
    BY <1>0, <2>1, <2>2 DEF TakenInTurn
<1>4. ASSUME NEW w \in Jobs, Retire(w) \/ AcquirePermit(w) \/ BodyEnds(w)
      PROVE  TakenInTurn'
  <2>1. UNCHANGED <<job, submitted, stage>>
    BY <1>4, AsideIs DEF Aside
  <2> QED
    BY <1>0, <2>1 DEF TakenInTurn
<1> QED
  BY <1>1, <1>2, <1>3, <1>4 DEF Next, WorkerStep

\* A settled launch is the oldest one open under its key: the first equal key is its own.
LEMMA PendingHeavyStep ==
  ASSUME IInv, OrderInv, Next
  PROVE  PendingHeavyInOrder'
<1> DEFINE n == Len(submitted)
           P == OpenLaunches
<1>0. /\ n \in Nat /\ \A p \in 1..n : submitted[p] \in Jobs
      /\ SubmittedOnce /\ TakenInTurn
      /\ pendingHeavy \in Seq(Keys) /\ Len(pendingHeavy) = Cardinality(P)
      /\ \A p \in P : pendingHeavy[Rank(P, p)] = job[submitted[p]].key
  BY Lengths DEF OrderInv, PendingHeavyInOrder, LaunchRank, Rank, IInv, TypeOK
<1>1. P \in SUBSET (1..n)
  BY DEF OpenLaunches
<1>2. /\ Cardinality(P) \in Nat /\ \A p \in P : Rank(P, p) \in 1..Cardinality(P)
      /\ \A p, q \in P : p < q => Rank(P, p) < Rank(P, q)
      /\ \A y \in 1..Cardinality(P) : \E p \in P : Rank(P, p) = y
  BY <1>0, <1>1, Ranks
<1>3. ASSUME NEW Q, OpenLaunches' = Q, Len(pendingHeavy') = Cardinality(Q),
             \A p \in Q : pendingHeavy'[Rank(Q, p)] = job'[submitted'[p]].key
      PROVE  PendingHeavyInOrder'
  BY <1>3 DEF PendingHeavyInOrder, LaunchRank, Rank
<1>4. ASSUME UNCHANGED <<submitted, job, pendingHeavy>>,
             \A i \in Jobs : Unsettled(i)' /\ job[i].heavy <=> Unsettled(i) /\ job[i].heavy
      PROVE  PendingHeavyInOrder'
  <2>1. OpenLaunches' = P
    BY <1>0, <1>4 DEF OpenLaunches
  <2> QED
    BY <1>0, <1>3, <1>4, <2>1
<1>5. ASSUME NEW j \in Jobs, NEW ij \in Submissions, Enqueue(j, ij)
      PROVE  PendingHeavyInOrder'
  <2>1. /\ ij \in IntakeJob /\ stage[j] = "new" /\ Len(submitted') = n + 1
        /\ \A i \in Jobs : stage'[i] = IF i = j THEN "queued" ELSE stage[i]
        /\ \A i \in Jobs : job'[i] = IF i = j THEN ij ELSE job[i]
        /\ \A p \in 1..(n + 1) : submitted'[p] = IF p = n + 1 THEN j ELSE submitted[p]
    BY <1>5, EnqueueIs DEF Enqueued
  <2>2. pendingHeavy' = IF ij.heavy THEN Append(pendingHeavy, ij.key) ELSE pendingHeavy
    BY <1>5 DEF Enqueue
  <2>3. \A p \in 1..n : submitted[p] # j /\ submitted'[p] = submitted[p]
    BY <1>0, <2>1 DEF SubmittedOnce
  <2>4. \A i \in Jobs : Unsettled(i)' <=> Unsettled(i) \/ i = j
    BY <2>1 DEF Unsettled
  <2>5. \A p \in 1..n : p \in OpenLaunches' <=> p \in P
    BY <1>0, <2>1, <2>3, <2>4 DEF OpenLaunches
  <2>6. n + 1 \in OpenLaunches' <=> ij.heavy
    BY <1>0, <2>1, <2>4 DEF OpenLaunches
  <2>7. \A p \in OpenLaunches' : p \in 1..n \/ p = n + 1
    BY <1>0, <2>1 DEF OpenLaunches
  <2>8. \A p \in P : job'[submitted'[p]].key = job[submitted[p]].key
    BY <1>0, <1>1, <2>1, <2>3
  <2>9. CASE ij.heavy
    <3> DEFINE Q == P \cup {n + 1}
    <3>1. OpenLaunches' = Q
      BY <1>1, <2>5, <2>6, <2>7, <2>9
    <3>2. /\ Cardinality(Q) = Cardinality(P) + 1 /\ Rank(Q, n + 1) = Cardinality(P) + 1
          /\ \A p \in P : Rank(Q, p) = Rank(P, p)
      BY <1>0, <1>1, RankBehind
    <3>3. /\ ij.key \in Keys /\ Len(pendingHeavy') = Cardinality(P) + 1
          /\ pendingHeavy'[Cardinality(P) + 1] = ij.key
          /\ \A y \in 1..Cardinality(P) : pendingHeavy'[y] = pendingHeavy[y]
      <4>1. ij.key \in Keys
        BY SubmissionType
      <4> HIDE DEF P
      <4> QED
        BY <1>0, <2>2, <2>9, <4>1
    <3>4. ASSUME NEW p \in P PROVE pendingHeavy'[Rank(Q, p)] = job'[submitted'[p]].key
      <4>1. Rank(Q, p) = Rank(P, p)
        BY <3>2
      <4>2. pendingHeavy'[Rank(P, p)] = pendingHeavy[Rank(P, p)]
        BY <1>2, <3>3
      <4>3. pendingHeavy[Rank(P, p)] = job[submitted[p]].key
        BY <1>0
      <4> QED
        BY <2>8, <4>1, <4>2, <4>3
    <3>5. job'[submitted'[n + 1]].key = ij.key
      BY <1>0, <2>1
    <3>6. \A p \in Q : pendingHeavy'[Rank(Q, p)] = job'[submitted'[p]].key
      BY <3>2, <3>3, <3>4, <3>5
    <3> HIDE DEF Q
    <3> QED
      BY <1>3, <3>1, <3>2, <3>3, <3>6
  <2>10. CASE ~ij.heavy
    <3>1. OpenLaunches' = P
      BY <1>1, <2>5, <2>6, <2>7, <2>10
    <3> QED
      BY <1>0, <1>3, <2>2, <2>8, <2>10, <3>1
  <2> QED
    BY <2>9, <2>10
<1>6. ASSUME NEW w \in Jobs, Pop(w)
      PROVE  PendingHeavyInOrder'
  <2>1. PICK k \in Keys, j \in Jobs : Taken(w, k, j)
    BY <1>6, PopIs
  <2>2. UNCHANGED <<submitted, job, pendingHeavy>>
    BY <1>6 DEF Pop, holdVars
  <2>3. \A i \in Jobs : Unsettled(i)' <=> Unsettled(i)
    BY <2>1 DEF Taken, Unsettled
  <2> QED
    BY <1>4, <2>2, <2>3
<1>7. ASSUME NEW w \in Jobs, Settle(w)
      PROVE  PendingHeavyInOrder'
  <2> DEFINE j == workers[w].job
  <2>1. /\ j \in Jobs /\ stage[j] = "taken" /\ UNCHANGED <<job, submitted>>
        /\ \A i \in Jobs : stage'[i] = IF i = j THEN "settled" ELSE stage[i]
    BY <1>7, SettleIs DEF Settled
  <2>2. pendingHeavy' = IF job[j].heavy THEN RemoveFirst(pendingHeavy, job[j].key) ELSE pendingHeavy
    BY <1>7 DEF Settle, HeavyKeysWithout
  <2>3. \A i \in Jobs : Unsettled(i)' <=> Unsettled(i) /\ i # j
    BY <2>1 DEF Unsettled
  <2>4. CASE ~job[j].heavy
    BY <1>4, <2>1, <2>2, <2>3, <2>4
  <2>5. CASE job[j].heavy
    <3>1. PICK x \in 1..n : submitted[x] = j
      BY <1>0, <2>1 DEF SubmittedOnce
    <3>2. x \in P
      BY <2>1, <2>5, <3>1 DEF OpenLaunches, Unsettled
    <3> DEFINE Q == P \ {x}
               c == Cardinality(P)
               y == Rank(P, x)
    <3>3. OpenLaunches' = Q
      BY <1>0, <2>1, <2>3, <3>1 DEF OpenLaunches, SubmittedOnce
    <3>4. /\ Cardinality(Q) = c - 1
          /\ \A p \in Q : Rank(Q, p) = IF p < x THEN Rank(P, p) ELSE Rank(P, p) - 1
      BY <1>0, <1>1, <3>2, RankWithout
    <3>5. y \in 1..c /\ pendingHeavy[y] = job[j].key
      BY <1>0, <1>2, <3>1, <3>2
    <3>6. \A p \in P : p \in Int
      BY <1>1
    <3>7. \A i \in 1..c : i < y => pendingHeavy[i] # job[j].key
      <4>1. SUFFICES ASSUME NEW i \in 1..c, i < y, pendingHeavy[i] = job[j].key
                     PROVE  FALSE
        OBVIOUS
      <4>2. PICK p \in P : Rank(P, p) = i
        BY <1>2
      <4>3. p < x
        <5>1. ~(x < p) /\ p # x
          BY <1>2, <3>2, <4>1, <4>2
        <5> QED
          BY <3>2, <3>6, <5>1
      <4>4. job[submitted[p]].key = job[submitted[x]].key
        BY <1>0, <3>1, <4>1, <4>2
      <4>5. stage[submitted[p]] = "settled"
        BY <1>0, <1>1, <2>1, <3>1, <4>3, <4>4 DEF TakenInTurn
      <4> QED
        BY <4>5 DEF OpenLaunches, Unsettled
    <3>8. /\ Len(pendingHeavy') = c - 1
          /\ \A i \in 1..(c - 1) : pendingHeavy'[i] = IF i < y THEN pendingHeavy[i] ELSE pendingHeavy[i + 1]
      <4> HIDE DEF P, c, y, j
      <4>1. y \in 1..Len(pendingHeavy) /\ Len(pendingHeavy) = c /\ pendingHeavy \in Seq(Keys)
        BY <1>0, <3>5 DEF c
      <4>2. \A i \in 1..Len(pendingHeavy) : i < y => pendingHeavy[i] # pendingHeavy[y]
        BY <3>5, <3>7, <4>1
      <4>3. pendingHeavy' = RemoveFirst(pendingHeavy, pendingHeavy[y])
        BY <2>2, <2>5, <3>5
      <4> QED
        BY <4>1, <4>2, <4>3, RemoveFirstIs
    <3>9. ASSUME NEW p \in Q
          PROVE  pendingHeavy'[Rank(Q, p)] = job'[submitted'[p]].key
      <4> DEFINE r == Rank(P, p)
      <4>1. /\ p \in P /\ p # x /\ p \in Int /\ x \in Int /\ r \in 1..c /\ c \in Nat
            /\ pendingHeavy[r] = job[submitted[p]].key
        BY <1>0, <1>2, <3>2, <3>6
      <4>2. CASE p < x
        <5>1. r < y /\ Rank(Q, p) = r
          BY <1>2, <3>2, <3>4, <4>1, <4>2
        <5>2. r \in 1..(c - 1)
          BY <3>5, <4>1, <5>1
        <5> QED
          BY <2>1, <3>8, <4>1, <5>1, <5>2
      <4>3. CASE x < p
        <5>0. ~(p < x)
          BY <4>1, <4>3
        <5>1. y < r /\ Rank(Q, p) = r - 1
          BY <1>2, <3>2, <3>4, <3>9, <4>1, <4>3, <5>0
        <5>2. r - 1 \in 1..(c - 1) /\ ~(r - 1 < y) /\ (r - 1) + 1 = r
          BY <3>5, <4>1, <5>1
        <5> QED
          BY <2>1, <3>8, <4>1, <5>1, <5>2
      <4> QED
        BY <4>1, <4>2, <4>3
    <3> HIDE DEF Q
    <3> QED
      BY <1>3, <3>3, <3>4, <3>8, <3>9
  <2> QED
    BY <2>4, <2>5
<1>8. ASSUME NEW w \in Jobs, Retire(w) \/ AcquirePermit(w) \/ BodyEnds(w)
      PROVE  PendingHeavyInOrder'
  <2>1. UNCHANGED <<job, submitted, stage, pendingHeavy>>
    BY <1>8, AsideIs DEF Aside
  <2>2. \A i \in Jobs : Unsettled(i)' <=> Unsettled(i)
    BY <2>1 DEF Unsettled
  <2> QED
    BY <1>4, <2>1, <2>2
<1> QED
  BY <1>5, <1>6, <1>7, <1>8 DEF Next, WorkerStep

\* Before anything is submitted there is no order to break.
LEMMA InitOrderInv == Init => OrderInv
<1>1. SUFFICES ASSUME Init PROVE OrderInv
  OBVIOUS
<1>2. submitted = <<>> /\ 1..Len(submitted) = {} /\ \A j \in Jobs : stage[j] = "new"
  BY <1>1 DEF Init
<1>3. \A k \in Keys : 1..Len(queues[k].jobs) = {}
  BY <1>1 DEF Init, NoEntry
<1>4. OpenLaunches = {} /\ pendingHeavy = <<>>
  BY <1>1, <1>2 DEF OpenLaunches, Init
<1>5. PendingHeavyInOrder
  BY <1>4, FS_EmptySet DEF PendingHeavyInOrder
<1> QED
  BY <1>2, <1>3, <1>5 DEF OrderInv, SubmittedOnce, TakenAreServed, QueuedInTurn, TakenInTurn

\* No step of the executor disturbs the order.
LEMMA StepOrderInv == IInv /\ OrderInv /\ [Next]_vars => OrderInv'
<1>1. SUFFICES ASSUME IInv, OrderInv, [Next]_vars PROVE OrderInv'
  OBVIOUS
<1>2. CASE Next
  BY <1>1, <1>2, SubmittedOnceStep, TakenAreServedStep, QueuedInTurnStep, TakenInTurnStep,
     PendingHeavyStep DEF OrderInv
<1>3. CASE UNCHANGED vars
  <2>1. UNCHANGED <<job, stage, queues, submitted, pendingHeavy, workers>>
    BY <1>3 DEF vars, queueVars, holdVars, workVars
  <2>2. OpenLaunches' = OpenLaunches
    BY <2>1 DEF OpenLaunches, Unsettled
  <2>3. PendingHeavyInOrder'
    BY <1>1, <2>1, <2>2 DEF OrderInv, PendingHeavyInOrder, LaunchRank
  <2> QED
    BY <1>1, <2>1, <2>3 DEF OrderInv, SubmittedOnce, TakenAreServed, QueuedInTurn, TakenInTurn
<1> QED
  BY <1>1, <1>2, <1>3

\* However workers, permits and settles interleave, the pending launches are listed in the
\* order of their submission, each under its own key: a command with no target chases
\* the newest launch still open, and a settle never drops another launch's entry.
THEOREM PendingHeavyInOrderAlways == Spec => []PendingHeavyInOrder
<1>1. OrderInv => PendingHeavyInOrder
  BY DEF OrderInv
<1> QED
  BY <1>1, InitOrderInv, StepOrderInv, Invariance, PTL DEF Spec
==============================================================================
