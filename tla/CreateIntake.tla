----------------------------- MODULE CreateIntake -----------------------------
(* The intake of session creates: the receive loop that mints an identity and *)
(* enqueues the launch (dispatch.rs), the body with its drain gate, capacity  *)
(* gate, duplicate check, launch and acknowledgement, and the queue of        *)
(* deferred admissions (capacity_gate.rs).  Bodies run on the intake executor *)
(* of IntakeExecutor, whose variables and actions these are built on.         *)
(*                                                                            *)
(* A message is named for the session id minted for it, which is also its     *)
(* queue key and its pending route.  Peers deliver at least once: a duplicate *)
(* delivery is another message with the same delegation.                      *)
EXTENDS IntakeExecutor

CONSTANTS Messages,
          DelegationOf,                  \* message -> its delegation or NoDelegation
          BOUND,                         \* resident sessions admitted
          ADMISSION_QUEUE_CAP,
          MAX_DELEGATION_RECEIPTS,
          PressureTurns,                 \* bound: changes of memory pressure
          MayDrain                       \* may the daemon enter its drain

ASSUME NamesAssumption == Keys = Messages /\ Ids = Messages
ASSUME CreateAssumption ==
         /\ DelegationOf \in [Messages -> Delegations \cup {NoDelegation}]
         /\ BOUND \in Nat \ {0} /\ ADMISSION_QUEUE_CAP \in Nat
         /\ MAX_DELEGATION_RECEIPTS \in Nat \ {0}
         /\ PressureTurns \in Nat /\ MayDrain \in BOOLEAN

VARIABLES
  at,              \* message -> where it is on its way
  keyOf,           \* message -> the queue key the loop chose for it
  carries,         \* job -> the message its body still has in hand
  inline,          \* the message the receive loop handles itself
  sessions,        \* the registered sessions
  receipts,        \* delegation_receipts with their order, oldest first
  acks,            \* history: the TaskReceived events
  capacity_queue,  \* deferred admissions
  pressure,        \* the capacity stage is Defer or worse
  turns,           \* changes of pressure so far
  draining

msgVars == <<at, keyOf, carries, inline>>
stateVars == <<sessions, receipts, acks, capacity_queue>>
worldVars == <<pressure, turns, draining>>
createVars == <<vars, msgVars, stateVars, worldVars>>

Places == {"unsent", "checked", "keyed", "body", "capacity", "arm", "launch", "ack",
           "parked", "released", "started", "reacked", "refused", "failed"}
Answered == {"started", "reacked", "refused", "failed"}

CreateTypeOK ==
  /\ TypeOK
  /\ at \in [Messages -> Places]
  /\ keyOf \in [Messages -> Messages \cup {NoKey}]
  /\ carries \in [Jobs -> Messages \cup {NoKey}]
  /\ inline \in Messages \cup {NoKey}
  /\ sessions \subseteq Messages
  /\ receipts \in Seq([delegation : Delegations, session : Messages])
  /\ Len(receipts) <= MAX_DELEGATION_RECEIPTS
  /\ acks \subseteq [delegation : Delegations, session : Messages]
  /\ capacity_queue \in Seq(Messages) /\ Len(capacity_queue) <= ADMISSION_QUEUE_CAP
  /\ pressure \in BOOLEAN /\ turns \in 0..PressureTurns /\ draining \in BOOLEAN

CreateInit ==
  /\ Init
  /\ at = [m \in Messages |-> "unsent"]
  /\ keyOf = [m \in Messages |-> NoKey]
  /\ carries = [j \in Jobs |-> NoKey]
  /\ inline = NoKey
  /\ sessions = {} /\ receipts = <<>> /\ acks = {}
  /\ capacity_queue = <<>>
  /\ pressure = FALSE /\ turns = 0 /\ draining = FALSE

------------------------------------------------------------------------------
Recorded(d) == \E r \in ToSet(receipts) : r.delegation = d
OriginalSession(d) == (CHOOSE r \in ToSet(receipts) : r.delegation = d).session

\* Mutant: no receipt is kept.
ForgetReceipt(d, s) == receipts

\* record_delegation: the first writer wins, the oldest receipt is evicted.
RecordDelegation(d, s) ==
  IF Recorded(d) THEN receipts
  ELSE Append(IF Len(receipts) < MAX_DELEGATION_RECEIPTS THEN receipts ELSE Tail(receipts),
              [delegation |-> d, session |-> s])

\* Mutant: one resident too many is admitted.
AdmitAtBound == ~pressure /\ Cardinality(sessions) <= BOUND

\* admission_check.
Admit == ~pressure /\ Cardinality(sessions) < BOUND

QueueHasRoom == Len(capacity_queue) < ADMISSION_QUEUE_CAP

\* Mutant: a duplicate gets a queue of its own.
OwnKey(m) == m

\* A duplicate of a delegation still being launched joins the launch's queue.
QueueKey(m) ==
  IF DelegationOf[m] # NoDelegation /\ PendingDelegationKey(DelegationOf[m]) # NoKey
  THEN PendingDelegationKey(DelegationOf[m]) ELSE m

------------------------------------------------------------------------------
(* The receive loop: one message at a time.                                   *)

LoopFree == inline = NoKey /\ \A m \in Messages : at[m] \notin {"checked", "keyed"}

\* enqueue_create_control's first look at the ledger, under the state lock.
Take(m) ==
  /\ at[m] = "unsent" /\ LoopFree
  /\ IF Recorded(DelegationOf[m])
     THEN at' = [at EXCEPT ![m] = "body"] /\ inline' = m
     ELSE at' = [at EXCEPT ![m] = "checked"] /\ UNCHANGED inline
  /\ UNCHANGED <<vars, keyOf, carries, stateVars, worldVars>>

\* The pending delegation is read under the executor's lock ...
ChooseKey(m) ==
  /\ at[m] = "checked"
  /\ keyOf' = [keyOf EXCEPT ![m] = QueueKey(m)]
  /\ at' = [at EXCEPT ![m] = "keyed"]
  /\ UNCHANGED <<vars, carries, inline, stateVars, worldVars>>

FreshJobs == {j \in Jobs : stage[j] = "new"}
Submit(m, k, d) ==
  LET j == CHOOSE x \in FreshJobs : TRUE
  IN /\ FreshJobs # {}
     /\ Enqueue(j, Heavy(k, {m}, d))
     /\ carries' = [carries EXCEPT ![j] = m]
     /\ at' = [at EXCEPT ![m] = "body"]
     /\ UNCHANGED inline

\* ... and the job is enqueued in another section of it.
EnqueueCreate(m) ==
  /\ at[m] = "keyed"
  /\ Submit(m, keyOf[m], DelegationOf[m])
  /\ UNCHANGED <<keyOf, stateVars, worldVars>>

------------------------------------------------------------------------------
(* The body, run by a worker of the executor or inline by the receive loop.   *)

Served(m) == inline = m \/ \E w \in Jobs : /\ workers[w].pc = "run"
                                           /\ carries[workers[w].job] = m

Go(m, place) == at' = [at EXCEPT ![m] = place] /\ UNCHANGED <<carries, inline>>

\* Mutant: the body answers but never returns.
AnswerOnly(m, place) ==
  /\ at' = [at EXCEPT ![m] = place]
  /\ inline' = IF inline = m THEN NoKey ELSE inline
  /\ UNCHANGED carries

\* The body is through with the message.
Leave(m, place) ==
  /\ at' = [at EXCEPT ![m] = place]
  /\ carries' = [j \in Jobs |-> IF carries[j] = m THEN NoKey ELSE carries[j]]
  /\ inline' = IF inline = m THEN NoKey ELSE inline

DrainGate(m) ==
  /\ at[m] = "body" /\ Served(m)
  /\ IF draining THEN Leave(m, "refused") ELSE Go(m, "capacity")
  /\ UNCHANGED <<vars, keyOf, stateVars, worldVars>>

\* Mutant: a recorded duplicate is gated like anything else.
NeverPasses(m) == FALSE

PassesGate(m) == Recorded(DelegationOf[m])

\* capacity_gate, all of it under the state lock.
CapacityGate(m) ==
  /\ at[m] = "capacity" /\ Served(m)
  /\ \/ (PassesGate(m) \/ Admit) /\ Go(m, "arm") /\ UNCHANGED capacity_queue
     \/ /\ ~PassesGate(m) /\ ~Admit
        /\ DelegationOf[m] # NoDelegation \/ ~QueueHasRoom
        /\ Leave(m, "refused") /\ UNCHANGED capacity_queue
     \/ /\ ~PassesGate(m) /\ ~Admit
        /\ DelegationOf[m] = NoDelegation /\ QueueHasRoom
        /\ Leave(m, "parked")
        /\ capacity_queue' = Append(capacity_queue, m)
  /\ UNCHANGED <<vars, keyOf, sessions, receipts, acks, worldVars>>

\* The StartTask arm re-checks the ledger and re-acks the original session.
DuplicateCheck(m) ==
  /\ at[m] = "arm" /\ Served(m)
  /\ IF Recorded(DelegationOf[m])
     THEN /\ acks' = acks \cup {[delegation |-> DelegationOf[m],
                                 session |-> OriginalSession(DelegationOf[m])]}
          /\ Leave(m, "reacked")
     ELSE Go(m, "launch") /\ UNCHANGED acks
  /\ UNCHANGED <<vars, keyOf, sessions, receipts, capacity_queue, worldVars>>

LaunchRegisters(m) ==
  /\ at[m] = "launch" /\ Served(m)
  /\ sessions' = sessions \cup {m}
  /\ IF DelegationOf[m] = NoDelegation THEN Leave(m, "started") ELSE Go(m, "ack")
  /\ UNCHANGED <<vars, keyOf, receipts, acks, capacity_queue, worldVars>>

LaunchFails(m) ==
  /\ at[m] = "launch" /\ Served(m)
  /\ Leave(m, "failed")
  /\ UNCHANGED <<vars, keyOf, stateVars, worldVars>>

\* acknowledge_delegation.
Acknowledge(m) ==
  /\ at[m] = "ack" /\ Served(m)
  /\ receipts' = RecordDelegation(DelegationOf[m], m)
  /\ acks' = acks \cup {[delegation |-> DelegationOf[m], session |-> m]}
  /\ Leave(m, "started")
  /\ UNCHANGED <<vars, keyOf, sessions, capacity_queue, worldVars>>

------------------------------------------------------------------------------
(* The deferred admissions and the world. *)

\* Mutant: the entry is read but not removed.
PeekHead == capacity_queue

PopHead == Tail(capacity_queue)

\* drain_capacity_queue: on every session end and every monitor tick.
DrainCapacityQueue ==
  /\ capacity_queue # <<>> /\ Admit
  /\ capacity_queue' = PopHead
  /\ at' = [at EXCEPT ![Head(capacity_queue)] = "released"]
  /\ UNCHANGED <<vars, keyOf, carries, inline, sessions, receipts, acks, worldVars>>

\* enqueue_reserved_create: under the identity minted at the first intake.
EnqueueReserved(m) ==
  /\ at[m] = "released"
  /\ Submit(m, m, NoDelegation)
  /\ UNCHANGED <<keyOf, stateVars, worldVars>>

SessionEnds(s) ==
  /\ s \in sessions
  /\ sessions' = sessions \ {s}
  /\ UNCHANGED <<vars, msgVars, receipts, acks, capacity_queue, worldVars>>

PressureChanges ==
  /\ turns < PressureTurns
  /\ turns' = turns + 1 /\ pressure' = ~pressure
  /\ UNCHANGED <<vars, msgVars, stateVars, draining>>

EnterDrain ==
  /\ MayDrain /\ ~draining
  /\ draining' = TRUE
  /\ UNCHANGED <<vars, msgVars, stateVars, pressure, turns>>

\* The executor goes on; a body ends only once it is through with its message.
ExecutorStep(w) ==
  /\ \/ WorkerStep(w)
     \/ BodyEnds(w) /\ carries[workers[w].job] = NoKey
  /\ UNCHANGED <<msgVars, stateVars, worldVars>>

LoopStep(m) == Take(m) \/ ChooseKey(m) \/ EnqueueCreate(m)
BodyStep(m) == DrainGate(m) \/ CapacityGate(m) \/ DuplicateCheck(m)
                 \/ LaunchRegisters(m) \/ LaunchFails(m) \/ Acknowledge(m)

CreateNext ==
  \/ \E m \in Messages : LoopStep(m) \/ BodyStep(m) \/ EnqueueReserved(m) \/ SessionEnds(m)
  \/ \E w \in Jobs : ExecutorStep(w)
  \/ DrainCapacityQueue \/ PressureChanges \/ EnterDrain

CreateSpec == CreateInit /\ [][CreateNext]_createVars

\* The loop, the bodies, the workers and the capacity monitor get on.  Sessions
\* need not end and pressure need not ease.
FairCreateSpec ==
  /\ CreateSpec
  /\ \A m \in Messages : /\ WF_createVars(LoopStep(m)) /\ WF_createVars(BodyStep(m))
                         /\ WF_createVars(EnqueueReserved(m))
  /\ \A w \in Jobs : WF_createVars(ExecutorStep(w))
  /\ WF_createVars(DrainCapacityQueue)

------------------------------------------------------------------------------
(* Correctness. *)

\* However the two ledgers (pending delegations, receipts), three locks and the
\* deliveries interleave, a delegation is launched successfully once at most.
OneSessionPerDelegation ==
  \A m, n \in Messages :
    /\ DelegationOf[m] = DelegationOf[n] /\ DelegationOf[m] # NoDelegation
    /\ at[m] \in {"ack", "started"} /\ at[n] \in {"ack", "started"}
    => m = n

\* "duplicates re-ack the ORIGINAL session": all receipts sent for a delegation
\* name one session, the one that was launched for it.
AcksAgree ==
  \A a, b \in acks :
    /\ a.delegation = b.delegation => a.session = b.session
    /\ DelegationOf[a.session] = a.delegation /\ at[a.session] = "started"

\* "a burst of freed slots cannot overshoot the bound by more than the intake's
\* own launch concurrency" (an admission sees fewer than BOUND residents).
OvershootIsBounded ==
  Cardinality(sessions) <= BOUND - 1 + MAX_CONCURRENT_LAUNCH_BODIES

\* A create is in one place: waiting or being handled in one body, or deferred
\* once, or in the hands of whoever popped it.  None is lost, none runs twice.
OneCustodian ==
  \A m \in Messages :
    LET bodies == {j \in Jobs : carries[j] = m /\ stage[j] \in {"queued", "taken"}}
        entries == {i \in 1..Len(capacity_queue) : capacity_queue[i] = m}
    IN /\ Cardinality({j \in Jobs : carries[j] = m}) + (IF inline = m THEN 1 ELSE 0)
            = (IF at[m] \in {"body", "capacity", "arm", "launch", "ack"} THEN 1 ELSE 0)
       /\ bodies = {j \in Jobs : carries[j] = m}
       /\ Cardinality(entries) = (IF at[m] = "parked" THEN 1 ELSE 0)

\* What the create path asks of the executor is what IntakeExecutor lets its
\* clients ask, reservations included: what is proved there holds here.
DrivesExecutor == Spec

\* "must reach the arm's re-ack branch, never a refusal": a delivery whose
\* delegation is on record is not refused.
RecordedNotRefused ==
  [][\A m \in Messages : Recorded(DelegationOf[m]) /\ at'[m] = "refused" => at[m] = "refused"]_createVars

\* Every create that was taken is answered, unless the gate closes again and
\* again: none is stuck in a deferred state while there is room.
CreatesAnswered ==
  \A m \in Messages : at[m] # "unsent" ~> (at[m] \in Answered \/ []<>(~Admit))
==============================================================================
