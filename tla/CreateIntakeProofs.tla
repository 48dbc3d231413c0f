------------------------- MODULE CreateIntakeProofs --------------------------
(* Safety of the create intake for every number of messages, delegations,     *)
(* jobs, launch permits, resident sessions and deferred admissions.           *)
EXTENDS CreateIntake, IntakeExecutorProofs

------------------------------------------------------------------------------
(* What the intake asks of the executor.                                      *)

BeforeJob == {"unsent", "checked", "keyed"}
InLoop == {"checked", "keyed"}
InBody == {"body", "capacity", "arm", "launch", "ack"}
PastDrainGate == {"capacity", "arm", "launch", "ack"}

\* The reservations of a create that is yet to be enqueued.
Submitting ==
  /\ \A m \in Messages : at[m] \in BeforeJob => routes[m].refs = 0
  /\ \A m \in Messages :
       DelegationOf[m] = NoDelegation /\ routes[m].refs > 0 => routes[m].key = m
  /\ \A m \in Messages : at[m] = "keyed" =>
       /\ keyOf[m] \in Messages
       /\ DelegationOf[m] = NoDelegation => keyOf[m] = m
       /\ DelegationOf[m] # NoDelegation /\ delegations[DelegationOf[m]].refs > 0
            => delegations[DelegationOf[m]].key = keyOf[m]
  /\ \A m \in Messages : at[m] \in {"parked", "released"} => DelegationOf[m] = NoDelegation
  /\ \A m, n \in Messages : at[m] \in InLoop /\ at[n] \in InLoop => m = n

\* Every body in hand has one handler, and only messages inside a body have one.
Custody ==
  /\ \A j \in Jobs : carries[j] # NoKey =>
       /\ stage[j] \in {"queued", "taken"}
       /\ job[j].heavy
       /\ job[j].delegation = DelegationOf[carries[j]]
       /\ carries[j] # inline
       /\ at[carries[j]] \in InBody
  /\ \A w \in Jobs : workers[w].pc = "settle" => carries[workers[w].job] = NoKey
  /\ \A i, j \in Jobs : carries[i] = carries[j] /\ carries[i] # NoKey => i = j
  /\ inline # NoKey => at[inline] \in InBody
  /\ \A m \in Messages : at[m] \in InBody => inline = m \/ \E j \in Jobs : carries[j] = m
  /\ \A m \in Messages : at[m] \in PastDrainGate => Served(m)

\* A deferred admission is deferred once, and nothing else is in the queue.
Parked ==
  /\ \A m \in Messages :
       at[m] = "parked" <=> \E i \in 1..Len(capacity_queue) : capacity_queue[i] = m
  /\ \A i, h \in 1..Len(capacity_queue) : capacity_queue[i] = capacity_queue[h] => i = h

\* A receipt names a session that was started for its delegation.
Ledger ==
  /\ \A i \in 1..Len(receipts) :
       /\ DelegationOf[receipts[i].session] = receipts[i].delegation
       /\ at[receipts[i].session] = "started"
  /\ \A i, h \in 1..Len(receipts) : receipts[i].delegation = receipts[h].delegation => i = h
  /\ \A a \in acks : /\ DelegationOf[a.session] = a.delegation
                     /\ at[a.session] = "started"
  /\ \A m \in Messages : at[m] = "ack" => DelegationOf[m] # NoDelegation

IntakeInv ==
  IInv /\ CreateTypeOK /\ Submitting /\ Custody /\ Parked /\ Ledger /\ (draining => MayDrain)

\* No message is named like the absent key, no delegation like the absent one.
LEMMA Names ==
  /\ Keys = Messages /\ Ids = Messages /\ NoKey \notin Messages
  /\ NoJob \notin Jobs /\ NoDelegation \notin Delegations
  /\ DelegationOf \in [Messages -> Delegations \cup {NoDelegation}]
BY NamesAssumption, AbsentAssumption, CreateAssumption

------------------------------------------------------------------------------
(* The steps of a message, point by point. *)

Moves(m, p) == \A x \in Messages : at'[x] = IF x = m THEN p ELSE at[x]
Drops(m) == /\ \A j \in Jobs : carries'[j] = IF carries[j] = m THEN NoKey ELSE carries[j]
            /\ inline' = IF inline = m THEN NoKey ELSE inline
Keeps == UNCHANGED <<carries, inline>>

\* The body of a message goes on to its next place.
LEMMA GoMoves ==
  ASSUME CreateTypeOK, NEW m \in Messages, NEW p, Go(m, p)
  PROVE  Moves(m, p) /\ Keeps
BY DEF CreateTypeOK, Go, Moves, Keeps

\* The body is through with its message: nothing carries it any more.
LEMMA LeaveMoves ==
  ASSUME CreateTypeOK, NEW m \in Messages, NEW p, Leave(m, p)
  PROVE  Moves(m, p) /\ Drops(m)
BY DEF CreateTypeOK, Leave, Moves, Drops

\* The body of a message goes on, or is through with it; the executor waits.
BodyMoves(m, p) ==
  /\ Moves(m, p)
  /\ UNCHANGED vars
  /\ capacity_queue' = IF p = "parked" THEN Append(capacity_queue, m) ELSE capacity_queue
  /\ \/ p \in PastDrainGate /\ Keeps
     \/ p \notin InBody \cup BeforeJob \cup {"parked", "released"} /\ Drops(m)
     \/ p = "parked" /\ Drops(m) /\ DelegationOf[m] = NoDelegation

\* A body step moves the one message it serves, and defers it, keeps it in hand or
\* lets it go.
LEMMA BodySteps ==
  ASSUME CreateTypeOK, NEW m \in Messages, BodyStep(m)
  PROVE  /\ at[m] \in InBody /\ Served(m)
         /\ \E p \in Places : BodyMoves(m, p)
         /\ UNCHANGED keyOf
<1>0. /\ {"refused", "capacity", "arm", "parked", "launch", "reacked", "failed", "ack", "started"} \subseteq Places
      /\ {"body", "capacity", "arm", "launch", "ack"} \subseteq InBody
  BY DEF Places, InBody
<1>1. CASE DrainGate(m)
  <2>1. at[m] = "body" /\ Served(m) /\ UNCHANGED keyOf
    BY <1>1 DEF DrainGate
  <2>2. BodyMoves(m, "refused") \/ BodyMoves(m, "capacity")
    BY <1>1, GoMoves, LeaveMoves
       DEF DrainGate, BodyMoves, InBody, BeforeJob, PastDrainGate, stateVars
  <2> QED
    BY <2>1, <2>2, <1>0
<1>2. CASE CapacityGate(m)
  <2>1. at[m] = "capacity" /\ Served(m) /\ UNCHANGED <<vars, keyOf>>
    BY <1>2 DEF CapacityGate
  <2>2. \/ Go(m, "arm") /\ UNCHANGED capacity_queue
        \/ Leave(m, "refused") /\ UNCHANGED capacity_queue
        \/ /\ Leave(m, "parked") /\ DelegationOf[m] = NoDelegation
           /\ capacity_queue' = Append(capacity_queue, m)
    BY <1>2 DEF CapacityGate
  <2>3. BodyMoves(m, "arm") \/ BodyMoves(m, "refused") \/ BodyMoves(m, "parked")
    BY <2>1, <2>2, GoMoves, LeaveMoves DEF BodyMoves, InBody, BeforeJob, PastDrainGate
  <2> QED
    BY <1>0, <2>1, <2>3
<1>3. CASE DuplicateCheck(m)
  <2>1. at[m] = "arm" /\ Served(m) /\ UNCHANGED keyOf
    BY <1>3 DEF DuplicateCheck
  <2>2. BodyMoves(m, "reacked") \/ BodyMoves(m, "launch")
    BY <1>3, GoMoves, LeaveMoves
       DEF DuplicateCheck, BodyMoves, InBody, BeforeJob, PastDrainGate, stateVars
  <2> QED
    BY <2>1, <2>2, <1>0
<1>4. CASE LaunchRegisters(m)
  <2>1. at[m] = "launch" /\ Served(m) /\ UNCHANGED keyOf
    BY <1>4 DEF LaunchRegisters
  <2>2. BodyMoves(m, "started") \/ BodyMoves(m, "ack")
    BY <1>4, GoMoves, LeaveMoves
       DEF LaunchRegisters, BodyMoves, InBody, BeforeJob, PastDrainGate, stateVars
  <2> QED
    BY <2>1, <2>2, <1>0
<1>5. CASE LaunchFails(m)
  <2>1. at[m] = "launch" /\ Served(m) /\ UNCHANGED keyOf
    BY <1>5 DEF LaunchFails
  <2>2. BodyMoves(m, "failed")
    BY <1>5, GoMoves, LeaveMoves
       DEF LaunchFails, BodyMoves, InBody, BeforeJob, PastDrainGate, stateVars
  <2> QED
    BY <2>1, <2>2, <1>0
<1>6. CASE Acknowledge(m)
  <2>1. at[m] = "ack" /\ Served(m) /\ UNCHANGED keyOf
    BY <1>6 DEF Acknowledge
  <2>2. BodyMoves(m, "started")
    BY <1>6, GoMoves, LeaveMoves
       DEF Acknowledge, BodyMoves, InBody, BeforeJob, PastDrainGate, stateVars
  <2> QED
    BY <2>1, <2>2, <1>0
<1> QED
  BY <1>1, <1>2, <1>3, <1>4, <1>5, <1>6 DEF BodyStep

\* A submission enqueues a job nobody has used, for a message that is thereby in a body.
Submits(m, k, d, j) ==
  /\ j \in Jobs /\ stage[j] = "new"
  /\ Enqueue(j, Heavy(k, {m}, d))
  /\ Moves(m, "body")
  /\ \A i \in Jobs : carries'[i] = IF i = j THEN m ELSE carries[i]
  /\ UNCHANGED inline

\* Submit takes some new job, enqueues it and makes it carry the message.
LEMMA SubmitSubmits ==
  ASSUME CreateTypeOK, NEW m \in Messages, NEW k, NEW d, Submit(m, k, d)
  PROVE  \E j \in Jobs : Submits(m, k, d, j)
<1> DEFINE j == CHOOSE x \in FreshJobs : TRUE
<1>1. j \in Jobs /\ stage[j] = "new"
  BY DEF Submit, FreshJobs
<1>2. /\ Enqueue(j, Heavy(k, {m}, d))
      /\ carries' = [carries EXCEPT ![j] = m]
      /\ at' = [at EXCEPT ![m] = "body"]
      /\ UNCHANGED inline
  BY DEF Submit
<1> HIDE DEF j
<1>3. Moves(m, "body") /\ \A i \in Jobs : carries'[i] = IF i = j THEN m ELSE carries[i]
  BY <1>2 DEF Moves, CreateTypeOK
<1> QED
  BY <1>1, <1>2, <1>3 DEF Submits

\* The job of a create is one the executor's clients may submit.
LEMMA CreateIsSubmission ==
  ASSUME NEW m \in Messages, NEW k \in Messages, NEW d \in Delegations \cup {NoDelegation}
  PROVE  Heavy(k, {m}, d) \in Submissions
<1>1. k \in Keys /\ {m} \in SUBSET Ids
  BY Names
<1> QED
  BY <1>1 DEF Submissions

\* A pending delegation with a holder has that holder's key.
LEMMA HeldUnderAKey ==
  ASSUME IInv, NEW d \in Delegations, delegations[d].refs > 0
  PROVE  delegations[d].key \in Keys
<1> DEFINE H == {j \in Jobs : Unsettled(j) /\ job[j].delegation = d}
<1>1. delegations[d].refs = Cardinality(H) /\ \A j \in H : delegations[d].key = job[j].key
  BY DEF IInv, DelegationsPairUp
<1>2. H # {}
  <2>1. H = {} => Cardinality(H) = 0
    BY FS_EmptySet
  <2> QED
    BY <1>1, <2>1
<1>3. \A j \in H : job[j].key \in Keys
  BY DEF IInv, JobsKeyed, Unsettled
<1> QED
  BY <1>1, <1>2, <1>3

\* Whatever the loop or the monitor enqueues, the ids it reserves are free or held
\* under the same key.
LEMMA CreateKeysAgree ==
  ASSUME IntakeInv, NEW m \in Messages
  PROVE  /\ at[m] = "keyed" => /\ Heavy(keyOf[m], {m}, DelegationOf[m]) \in Submissions
                               /\ KeysAgree(Heavy(keyOf[m], {m}, DelegationOf[m]))
         /\ at[m] = "released" => /\ Heavy(m, {m}, NoDelegation) \in Submissions
                                  /\ KeysAgree(Heavy(m, {m}, NoDelegation))
<1>1. CASE at[m] = "keyed"
  <2>1. routes[m].refs = 0 /\ keyOf[m] \in Messages
    BY <1>1 DEF IntakeInv, Submitting, BeforeJob
  <2>2. \A d \in {DelegationOf[m]} \ {NoDelegation} :
          delegations[d].refs > 0 => delegations[d].key = keyOf[m]
    BY <1>1 DEF IntakeInv, Submitting
  <2>3. KeysAgree(Heavy(keyOf[m], {m}, DelegationOf[m]))
    BY <2>1, <2>2 DEF KeysAgree, Heavy, HasRoute
  <2> QED
    BY <1>1, <2>1, <2>3, Names, CreateIsSubmission
<1>2. CASE at[m] = "released"
  <2>1. routes[m].refs > 0 => routes[m].key = m
    BY <1>2 DEF IntakeInv, Submitting
  <2>2. KeysAgree(Heavy(m, {m}, NoDelegation))
    BY <2>1 DEF KeysAgree, Heavy, HasRoute, RouteKey
  <2> QED
    BY <1>2, <2>2, Names, CreateIsSubmission
<1> QED
  BY <1>1, <1>2

\* Every step of the create path is a step of the executor or leaves it alone.
LEMMA CreateDrives ==
  ASSUME IntakeInv, [CreateNext]_createVars
  PROVE  [Next]_vars
<1>1. ASSUME NEW m \in Messages, EnqueueCreate(m)
      PROVE  Next
  <2>1. at[m] = "keyed" /\ Submit(m, keyOf[m], DelegationOf[m]) /\ CreateTypeOK
    BY <1>1 DEF EnqueueCreate, IntakeInv
  <2>2. PICK j \in Jobs : Enqueue(j, Heavy(keyOf[m], {m}, DelegationOf[m]))
    BY <2>1, SubmitSubmits DEF Submits
  <2> QED
    BY <2>1, <2>2, CreateKeysAgree DEF Next
<1>2. ASSUME NEW m \in Messages, EnqueueReserved(m)
      PROVE  Next
  <2>1. at[m] = "released" /\ Submit(m, m, NoDelegation) /\ CreateTypeOK
    BY <1>2 DEF EnqueueReserved, IntakeInv
  <2>2. PICK j \in Jobs : Enqueue(j, Heavy(m, {m}, NoDelegation))
    BY <2>1, SubmitSubmits DEF Submits
  <2> QED
    BY <2>1, <2>2, CreateKeysAgree DEF Next
<1>3. ASSUME NEW m \in Messages, Take(m) \/ ChooseKey(m) \/ BodyStep(m) \/ SessionEnds(m)
      PROVE  UNCHANGED vars
  BY <1>3 DEF Take, ChooseKey, SessionEnds, BodyStep, DrainGate, CapacityGate, DuplicateCheck,
              LaunchRegisters, LaunchFails, Acknowledge
<1>4. ASSUME NEW w \in Jobs, ExecutorStep(w)
      PROVE  Next
  BY <1>4 DEF ExecutorStep, Next
<1>5. ASSUME DrainCapacityQueue \/ PressureChanges \/ EnterDrain
      PROVE  UNCHANGED vars
  BY <1>5 DEF DrainCapacityQueue, PressureChanges, EnterDrain
<1>6. UNCHANGED createVars => UNCHANGED vars
  BY DEF createVars
<1> QED
  BY <1>1, <1>2, <1>3, <1>4, <1>5, <1>6 DEF CreateNext, LoopStep

------------------------------------------------------------------------------
(* The ledger of receipts. *)

Receipt == [delegation : Delegations, session : Messages]

\* A delegation is on record when some receipt names it; only real ones are.
LEMMA RecordedIs ==
  ASSUME CreateTypeOK, NEW d
  PROVE  /\ Recorded(d) <=> \E i \in 1..Len(receipts) : receipts[i].delegation = d
         /\ Recorded(d) => d \in Delegations
         /\ ~Recorded(NoDelegation)
<1>1. receipts \in Seq(Receipt)
  BY DEF CreateTypeOK, Receipt
<1>2. Recorded(d) <=> \E i \in 1..Len(receipts) : receipts[i].delegation = d
  BY <1>1 DEF Recorded, ToSet
<1>3. ASSUME NEW e, Recorded(e)
      PROVE  e \in Delegations
  <2>1. PICK r \in ToSet(receipts) : r.delegation = e
    BY <1>3 DEF Recorded
  <2>2. r \in Receipt
    BY <1>1, <2>1 DEF ToSet
  <2> QED
    BY <2>1, <2>2 DEF Receipt
<1> QED
  BY <1>2, <1>3, Names

\* The session a duplicate is acknowledged with is one of a receipt.
LEMMA OriginalIs ==
  ASSUME CreateTypeOK, NEW d, Recorded(d)
  PROVE  \E i \in 1..Len(receipts) : /\ receipts[i].delegation = d
                                     /\ OriginalSession(d) = receipts[i].session
<1> DEFINE r == CHOOSE x \in ToSet(receipts) : x.delegation = d
<1>1. r \in ToSet(receipts) /\ r.delegation = d
  BY DEF Recorded
<1>2. OriginalSession(d) = r.session
  BY DEF OriginalSession
<1> HIDE DEF r
<1> QED
  BY <1>1, <1>2 DEF ToSet, CreateTypeOK

\* What recording a delegation makes of the ledger.
LEMMA RecordIs ==
  ASSUME CreateTypeOK, NEW d \in Delegations, NEW m \in Messages
  PROVE  LET R == RecordDelegation(d, m)
             new == [delegation |-> d, session |-> m]
         IN  /\ R \in Seq(Receipt) /\ Len(R) <= MAX_DELEGATION_RECEIPTS
             /\ \A i \in 1..Len(R) : \/ R[i] = new /\ ~Recorded(d)
                                     \/ \E h \in 1..Len(receipts) : R[i] = receipts[h]
             /\ (\A i, h \in 1..Len(receipts) :
                   receipts[i].delegation = receipts[h].delegation => i = h)
                => (\A i, h \in 1..Len(R) : R[i].delegation = R[h].delegation => i = h)
             /\ Recorded(d) => R = receipts
             /\ ~Recorded(d) => \E i \in 1..Len(R) : R[i] = new
             /\ Len(receipts) < MAX_DELEGATION_RECEIPTS =>
                  \A h \in 1..Len(receipts) : \E i \in 1..Len(R) : R[i] = receipts[h]
<1> DEFINE new == [delegation |-> d, session |-> m]
           R == RecordDelegation(d, m)
<1>1. receipts \in Seq(Receipt) /\ Len(receipts) \in Nat /\ Len(receipts) <= MAX_DELEGATION_RECEIPTS
      /\ MAX_DELEGATION_RECEIPTS \in Nat \ {0} /\ new \in Receipt
  BY CreateAssumption DEF CreateTypeOK, Receipt
<1>2. CASE Recorded(d)
  <2>1. R = receipts
    BY <1>2 DEF RecordDelegation
  <2> HIDE DEF R, new
  <2> QED
    BY <1>1, <1>2, <2>1 DEF R
<1>3. CASE ~Recorded(d)
  <2>1. \A i \in 1..Len(receipts) : receipts[i].delegation # d
    BY <1>3, RecordedIs
  <2> DEFINE base == IF Len(receipts) < MAX_DELEGATION_RECEIPTS THEN receipts ELSE Tail(receipts)
             off == IF Len(receipts) < MAX_DELEGATION_RECEIPTS THEN 0 ELSE 1
  <2>2. R = Append(base, new)
    BY <1>3 DEF RecordDelegation
  <2>3. off \in {0, 1} /\ base \in Seq(Receipt) /\ Len(base) = Len(receipts) - off
        /\ \A i \in 1..Len(base) : base[i] = receipts[i + off]
    <3>1. CASE Len(receipts) < MAX_DELEGATION_RECEIPTS
      BY <1>1, <3>1
    <3>2. CASE ~(Len(receipts) < MAX_DELEGATION_RECEIPTS)
      <4>1. receipts # <<>>
        BY <1>1, <3>2
      <4> QED
        BY <1>1, <3>2, <4>1
    <3> QED
      BY <3>1, <3>2
  <2>4. Len(receipts) < MAX_DELEGATION_RECEIPTS => base = receipts
    OBVIOUS
  <2>5. Len(base) < MAX_DELEGATION_RECEIPTS
    BY <1>1, <2>3
  <2> HIDE DEF base, off, new
  <2>6. R \in Seq(Receipt) /\ Len(R) = Len(base) + 1 /\ R[Len(base) + 1] = new
        /\ \A i \in 1..Len(base) : R[i] = base[i]
    BY <1>1, <2>2, <2>3
  <2> HIDE DEF R
  <2>7. new.delegation = d
    BY DEF new
  <2>8. Len(R) <= MAX_DELEGATION_RECEIPTS
    BY <1>1, <2>3, <2>5, <2>6
  <2>9. \A i \in 1..Len(R) : \/ i = Len(base) + 1 /\ R[i] = new
                             \/ i \in 1..Len(base) /\ i + off \in 1..Len(receipts) /\ R[i] = receipts[i + off]
    BY <1>1, <2>3, <2>6
  <2>10. ASSUME \A i, h \in 1..Len(receipts) : receipts[i].delegation = receipts[h].delegation => i = h,
                NEW i \in 1..Len(R), NEW h \in 1..Len(R), R[i].delegation = R[h].delegation
         PROVE  i = h
    <3>1. CASE i = Len(base) + 1 /\ R[i] = new
      <4>1. ~(h \in 1..Len(base) /\ h + off \in 1..Len(receipts) /\ R[h] = receipts[h + off])
        BY <2>1, <2>7, <2>10, <3>1
      <4> QED
        BY <2>9, <3>1, <4>1
    <3>2. CASE h = Len(base) + 1 /\ R[h] = new
      <4>1. ~(i \in 1..Len(base) /\ i + off \in 1..Len(receipts) /\ R[i] = receipts[i + off])
        BY <2>1, <2>7, <2>10, <3>2
      <4> QED
        BY <2>9, <3>2, <4>1
    <3>3. CASE /\ i \in 1..Len(base) /\ i + off \in 1..Len(receipts) /\ R[i] = receipts[i + off]
               /\ h \in 1..Len(base) /\ h + off \in 1..Len(receipts) /\ R[h] = receipts[h + off]
      <4>1. i + off = h + off
        BY <2>10, <3>3
      <4> QED
        BY <1>1, <2>3, <3>3, <4>1
    <3> QED
      BY <2>9, <3>1, <3>2, <3>3
  <2>11. \E i \in 1..Len(R) : R[i] = new
    BY <1>1, <2>3, <2>6
  <2>12. ASSUME Len(receipts) < MAX_DELEGATION_RECEIPTS, NEW h \in 1..Len(receipts)
         PROVE  \E i \in 1..Len(R) : R[i] = receipts[h]
    <3>1. base = receipts
      BY ONLY <2>4, <2>12
    <3>2. h \in 1..Len(R) /\ R[h] = receipts[h]
      BY ONLY <1>1, <2>6, <2>12, <3>1
    <3> QED
      BY ONLY <3>2
  <2> QED
    BY <1>3, <2>6, <2>8, <2>9, <2>10, <2>11, <2>12 DEF R, new
<1> QED
  BY <1>2, <1>3

------------------------------------------------------------------------------
(* With a ledger that never evicts, a delegation is launched once.            *)

LedgerSuffices ==
  IsFiniteSet(Delegations) /\ Cardinality(Delegations) <= MAX_DELEGATION_RECEIPTS

\* What is launched is on record afterwards and was not before.
OneLaunch ==
  /\ \A m \in Messages :
       at[m] = "started" /\ DelegationOf[m] # NoDelegation => Recorded(DelegationOf[m])
  /\ \A m \in Messages : at[m] \in {"launch", "ack"} => ~Recorded(DelegationOf[m])
  /\ inline # NoKey => Recorded(DelegationOf[inline])
  /\ \A m, n \in Messages :
       /\ at[m] = "started" /\ at[n] = "started"
       /\ DelegationOf[m] = DelegationOf[n] /\ DelegationOf[m] # NoDelegation
       => m = n

\* The creates on their way from the capacity gate to a session.
Admitted == {m \in Messages : at[m] \in {"arm", "launch"} /\ ~Recorded(DelegationOf[m])}

\* An admission counts from the gate on.
Bounded ==
  /\ IsFiniteSet(sessions)
  /\ IsFiniteSet(Admitted)
  /\ Cardinality(sessions) + Cardinality(Admitted) <= BOUND - 1 + MAX_CONCURRENT_LAUNCH_BODIES

------------------------------------------------------------------------------
(* Submitting is kept. *)

\* The loop takes a message up, or answers it itself.
TakesUp(m) ==
  /\ at[m] = "unsent" /\ LoopFree
  /\ UNCHANGED <<vars, keyOf, carries, stateVars, worldVars>>
  /\ \/ Recorded(DelegationOf[m]) /\ Moves(m, "body") /\ inline' = m
     \/ ~Recorded(DelegationOf[m]) /\ Moves(m, "checked") /\ UNCHANGED inline

\* The loop takes a message up or, if its delegation is on record, answers it itself.
LEMMA TakeIs ==
  ASSUME CreateTypeOK, NEW m \in Messages, Take(m)
  PROVE  TakesUp(m)
BY DEF CreateTypeOK, Take, TakesUp, Moves

\* The key of a message is chosen.
ChoosesKey(m) ==
  /\ at[m] = "checked"
  /\ Moves(m, "keyed")
  /\ \A x \in Messages : keyOf'[x] = IF x = m THEN QueueKey(m) ELSE keyOf[x]
  /\ UNCHANGED <<vars, carries, inline, stateVars, worldVars>>

\* The loop chooses the key of the message in hand and changes nothing else.
LEMMA ChooseKeyIs ==
  ASSUME CreateTypeOK, NEW m \in Messages, ChooseKey(m)
  PROVE  ChoosesKey(m)
BY DEF CreateTypeOK, ChooseKey, ChoosesKey, Moves

\* The oldest deferred admission leaves the queue.
LEMMA DrainIs ==
  ASSUME CreateTypeOK, DrainCapacityQueue
  PROVE  /\ capacity_queue # <<>> /\ Head(capacity_queue) \in Messages
         /\ Moves(Head(capacity_queue), "released")
         /\ capacity_queue' = Tail(capacity_queue)
         /\ UNCHANGED <<vars, keyOf, carries, inline, sessions, receipts, acks, worldVars>>
BY DEF CreateTypeOK, DrainCapacityQueue, PopHead, Moves

\* Ends of sessions and changes of the world leave the messages alone.
LEMMA OtherSteps ==
  ASSUME (\E s \in Messages : SessionEnds(s)) \/ PressureChanges \/ EnterDrain
  PROVE  UNCHANGED <<vars, at, keyOf, carries, inline, receipts, acks, capacity_queue>>
BY DEF SessionEnds, PressureChanges, EnterDrain, msgVars, stateVars

\* What the executor does by itself only lets reservations go.
HoldsShrink ==
  /\ \A id \in Ids : routes'[id].refs > 0 =>
       routes[id].refs > 0 /\ routes'[id].key = routes[id].key
  /\ \A d \in Delegations : delegations'[d].refs > 0 =>
       delegations[d].refs > 0 /\ delegations'[d].key = delegations[d].key

\* A release takes one reference, or the reservation with its last one.
LEMMA ReleaseShrinks ==
  ASSUME NEW D, NEW f \in [D -> Reservation], NEW S, NEW k, NEW id \in D,
         Release(f, S, k)[id].refs > 0
  PROVE  f[id].refs > 0 /\ Release(f, S, k)[id].key = f[id].key
BY DEF Release, Reservation, NoReservation

\* A step of the executor by itself adds no reservation.
LEMMA ExecutorShrinks ==
  ASSUME IInv, NEW w \in Jobs, WorkerStep(w) \/ BodyEnds(w)
  PROVE  HoldsShrink
<1>1. routes \in [Ids -> Reservation] /\ delegations \in [Delegations -> Reservation]
  BY DEF IInv, TypeOK
<1>2. CASE Settle(w)
  <2>1. PICK R, S, k : routes' = Release(routes, R, k) /\ delegations' = Release(delegations, S, k)
    BY <1>2 DEF Settle
  <2> QED
    BY <1>1, <2>1, ReleaseShrinks DEF HoldsShrink
<1>3. CASE ~Settle(w)
  <2>1. UNCHANGED holdVars
    BY <1>3 DEF WorkerStep, Pop, Retire, AcquirePermit, BodyEnds
  <2> QED
    BY <2>1 DEF HoldsShrink, holdVars
<1> QED
  BY <1>2, <1>3

\* A message taken up is the only one in the loop, and has no reservation yet.
LEMMA SubmittingTake ==
  ASSUME IntakeInv, NEW m \in Messages, TakesUp(m)
  PROVE  Submitting'
<1>1. UNCHANGED <<routes, delegations, keyOf>>
  BY DEF TakesUp, vars, holdVars
<1>2. \A x \in Messages : x # m => at'[x] = at[x] /\ at[x] \notin InLoop
  BY DEF TakesUp, Moves, LoopFree, InLoop
<1>3. at[m] = "unsent" /\ at'[m] \in {"body", "checked"}
  BY DEF TakesUp, Moves
<1> QED
  BY <1>1, <1>2, <1>3 DEF IntakeInv, Submitting, BeforeJob, InLoop

\* The key chosen is the one its delegation is pending under, if it is pending.
LEMMA SubmittingChoose ==
  ASSUME IntakeInv, NEW m \in Messages, ChoosesKey(m)
  PROVE  Submitting'
<1>1. UNCHANGED <<routes, delegations>>
  BY DEF ChoosesKey, vars, holdVars
<1>2. \A x \in Messages : x # m => at'[x] = at[x] /\ keyOf'[x] = keyOf[x]
  BY DEF ChoosesKey, Moves
<1>3. at[m] = "checked" /\ at'[m] = "keyed" /\ keyOf'[m] = QueueKey(m)
  BY DEF ChoosesKey, Moves
<1>4. /\ QueueKey(m) \in Messages
      /\ DelegationOf[m] = NoDelegation => QueueKey(m) = m
      /\ DelegationOf[m] # NoDelegation /\ delegations[DelegationOf[m]].refs > 0
           => delegations[DelegationOf[m]].key = QueueKey(m)
  <2>1. CASE DelegationOf[m] = NoDelegation
    BY <2>1 DEF QueueKey
  <2>2. CASE DelegationOf[m] # NoDelegation
    <3> DEFINE d == DelegationOf[m]
    <3>1. d \in Delegations
      BY <2>2, Names
    <3>2. delegations[d].key \in Messages \cup {NoKey}
      BY <3>1, Names DEF IntakeInv, IInv, TypeOK, Reservation
    <3>3. delegations[d].refs > 0 => delegations[d].key \in Messages
      BY <3>1, HeldUnderAKey, Names DEF IntakeInv
    <3> QED
      BY <2>2, <3>1, <3>2, <3>3, Names DEF QueueKey, PendingDelegationKey
  <2> QED
    BY <2>1, <2>2
<1> QED
  BY <1>1, <1>2, <1>3, <1>4 DEF IntakeInv, Submitting, BeforeJob, InLoop

\* Bodies leave the loop and the reservations alone.
LEMMA SubmittingBody ==
  ASSUME IntakeInv, NEW m \in Messages, at[m] \in InBody, NEW p, BodyMoves(m, p),
         UNCHANGED keyOf
  PROVE  Submitting'
<1>1. UNCHANGED <<routes, delegations, keyOf>>
  BY DEF BodyMoves, vars, holdVars
<1>2. \A x \in Messages : x # m => at'[x] = at[x]
  BY DEF BodyMoves, Moves
<1>3. /\ at'[m] \notin BeforeJob
      /\ at'[m] \in {"parked", "released"} => DelegationOf[m] = NoDelegation
  BY DEF BodyMoves, Moves, PastDrainGate, BeforeJob
<1> QED
  BY <1>1, <1>2, <1>3 DEF IntakeInv, Submitting, BeforeJob, InLoop

\* What leaves the capacity queue carries no delegation.
LEMMA SubmittingDrain ==
  ASSUME IntakeInv, DrainCapacityQueue
  PROVE  Submitting'
<1> DEFINE m == Head(capacity_queue)
<1>1. m \in Messages /\ Moves(m, "released") /\ UNCHANGED <<vars, keyOf>> /\ at[m] = "parked"
  <2>1. capacity_queue # <<>> /\ capacity_queue \in Seq(Messages)
    BY DEF IntakeInv, CreateTypeOK, DrainCapacityQueue
  <2>2. at[capacity_queue[1]] = "parked"
    BY <2>1 DEF IntakeInv, Parked
  <2> QED
    BY <2>1, <2>2, DrainIs DEF IntakeInv
<1>2. UNCHANGED <<routes, delegations, keyOf>>
  BY <1>1 DEF vars, holdVars
<1> HIDE DEF m
<1>3. \A x \in Messages : x # m => at'[x] = at[x]
  BY <1>1 DEF Moves
<1>4. at'[m] = "released" /\ DelegationOf[m] = NoDelegation
  BY <1>1 DEF Moves, IntakeInv, Submitting
<1> QED
  BY <1>2, <1>3, <1>4 DEF IntakeInv, Submitting, BeforeJob, InLoop

\* Between the choice of a key and the submission the executor may let the pending
\* delegation go, but nobody can reserve it under another key.
LEMMA SubmittingExecutor ==
  ASSUME IntakeInv, IInv', NEW w \in Jobs, ExecutorStep(w)
  PROVE  Submitting'
<1>1. UNCHANGED <<at, keyOf>> /\ HoldsShrink
  BY ExecutorShrinks DEF ExecutorStep, msgVars, IntakeInv
<1>2. /\ \A m \in Messages : routes[m].refs \in Nat /\ routes'[m].refs \in Nat
      /\ \A d \in Delegations : delegations[d].refs \in Nat /\ delegations'[d].refs \in Nat
  BY Names DEF IntakeInv, IInv, TypeOK, Reservation
<1>3. \A m \in Messages : /\ routes[m].refs = 0 => routes'[m].refs = 0
                          /\ routes'[m].refs > 0 => routes[m].refs > 0 /\ routes'[m].key = routes[m].key
  BY <1>1, <1>2, Names DEF HoldsShrink
<1>4. \A m \in Messages : DelegationOf[m] # NoDelegation => DelegationOf[m] \in Delegations
  BY Names
<1>5. \A d \in Delegations : delegations'[d].refs > 0 =>
        delegations[d].refs > 0 /\ delegations'[d].key = delegations[d].key
  BY <1>1 DEF HoldsShrink
<1> QED
  BY <1>1, <1>3, <1>4, <1>5 DEF IntakeInv, Submitting

\* Only the ids and the delegation of a job are reserved with it.
LEMMA ReserveIs ==
  ASSUME NEW D, NEW f \in [D -> Reservation], NEW S, NEW k
  PROVE  /\ \A id \in D : id \notin S => Reserve(f, S, k)[id] = f[id]
         /\ \A id \in D : id \in S /\ f[id].refs = 0 => Reserve(f, S, k)[id].key = k
         /\ \A id \in D : f[id].refs # 0 => Reserve(f, S, k)[id].key = f[id].key
BY DEF Reserve, Reservation

\* A submission reserves its own route and delegation, and no other message's.
LEMMA SubmittingSubmit ==
  ASSUME IntakeInv, IInv', NEW m \in Messages, NEW k \in Messages,
         NEW d \in Delegations \cup {NoDelegation}, NEW j \in Jobs,
         Submits(m, k, d, j), UNCHANGED keyOf,
         DelegationOf[m] = NoDelegation => k = m,
         at[m] \in {"keyed", "released"},
         d # NoDelegation => at[m] = "keyed"
  PROVE  Submitting'
<1>1. routes \in [Messages -> Reservation] /\ delegations \in [Delegations -> Reservation]
  BY Names DEF IntakeInv, IInv, TypeOK
<1>2. routes' = Reserve(routes, {m}, k) /\ delegations' = Reserve(delegations, {d}, k)
  BY DEF Submits, Enqueue, Heavy
<1>3. \A x \in Messages : x # m => at'[x] = at[x]
  BY DEF Submits, Moves
<1>4. at'[m] = "body"
  BY DEF Submits, Moves
<1>5. \A x \in Messages : x # m => routes'[x] = routes[x]
  BY <1>1, <1>2, ReserveIs
<1>6. DelegationOf[m] = NoDelegation => routes'[m].key = m
  <2>1. CASE routes[m].refs = 0
    BY <1>1, <1>2, <2>1, ReserveIs
  <2>2. CASE routes[m].refs # 0
    <3>1. routes[m].refs > 0
      BY <1>1, <2>2 DEF Reservation
    <3> QED
      BY <1>1, <1>2, <2>2, <3>1, ReserveIs DEF IntakeInv, Submitting
  <2> QED
    BY <2>1, <2>2
<1>7. ASSUME NEW x \in Messages, at'[x] = "keyed", DelegationOf[x] # NoDelegation
      PROVE  delegations'[DelegationOf[x]] = delegations[DelegationOf[x]]
  <2>1. x # m /\ at[x] = "keyed"
    BY <1>3, <1>4, <1>7
  <2>2. d = NoDelegation
    BY <2>1 DEF IntakeInv, Submitting, InLoop
  <2>3. DelegationOf[x] \in Delegations /\ DelegationOf[x] \notin {d}
    BY <1>7, <2>2, Names
  <2> QED
    BY <1>1, <1>2, <2>3, ReserveIs
<1> QED
  BY <1>3, <1>4, <1>5, <1>6, <1>7 DEF IntakeInv, Submitting, BeforeJob, InLoop

\* Ends of sessions and changes of the world leave the loop alone.
LEMMA SubmittingOther ==
  ASSUME IntakeInv, UNCHANGED <<vars, at, keyOf>>
  PROVE  Submitting'
BY DEF IntakeInv, Submitting, vars, holdVars

------------------------------------------------------------------------------
(* Custody is kept. *)

\* A message taken up is in nobody's hands but the loop's.
LEMMA CustodyTake ==
  ASSUME IntakeInv, NEW m \in Messages, TakesUp(m)
  PROVE  Custody'
<1>1. UNCHANGED <<workers, stage, job, carries>>
  BY DEF TakesUp, vars, queueVars, workVars
<1>2. \A x \in Messages : x # m => at'[x] = at[x]
  BY DEF TakesUp, Moves
<1>3. at[m] = "unsent" /\ inline = NoKey
  BY DEF TakesUp, LoopFree
<1>4. \/ at'[m] = "body" /\ inline' = m
      \/ at'[m] = "checked" /\ inline' = NoKey
  BY <1>3 DEF TakesUp, Moves
<1>5. \A j \in Jobs : carries[j] \in Messages \cup {NoKey}
  BY DEF IntakeInv, CreateTypeOK
<1>6. \A j \in Jobs : carries[j] # m
  BY <1>3, Names DEF IntakeInv, Custody, InBody
<1>7. \A x \in Messages : Served(x) => Served(x)'
  BY <1>1, <1>3, Names DEF Served
<1> QED
  BY <1>1, <1>2, <1>3, <1>4, <1>5, <1>6, <1>7, Names DEF IntakeInv, Custody, InBody, PastDrainGate

\* The choice of a key puts no message in anybody's hands.
LEMMA CustodyChoose ==
  ASSUME IntakeInv, NEW m \in Messages, ChoosesKey(m)
  PROVE  Custody'
<1>1. UNCHANGED <<workers, stage, job, carries, inline>>
  BY DEF ChoosesKey, vars, queueVars, workVars
<1>2. \A x \in Messages : x # m => at'[x] = at[x]
  BY DEF ChoosesKey, Moves
<1>3. at[m] = "checked" /\ at'[m] = "keyed"
  BY DEF ChoosesKey, Moves
<1>4. \A j \in Jobs : carries[j] \in Messages \cup {NoKey}
  BY DEF IntakeInv, CreateTypeOK
<1>5. \A x \in Messages : Served(x) => Served(x)'
  BY <1>1 DEF Served
<1>6. inline \in Messages \cup {NoKey}
  BY DEF IntakeInv, CreateTypeOK
<1> QED
  BY <1>1, <1>2, <1>3, <1>4, <1>5, <1>6 DEF IntakeInv, Custody, InBody, PastDrainGate

\* A released admission is not yet in anybody's hands.
LEMMA CustodyDrain ==
  ASSUME IntakeInv, DrainCapacityQueue
  PROVE  Custody'
<1> DEFINE m == Head(capacity_queue)
<1>1. m \in Messages /\ Moves(m, "released") /\ UNCHANGED <<vars, carries, inline>> /\ at[m] = "parked"
  <2>1. capacity_queue # <<>> /\ capacity_queue \in Seq(Messages)
    BY DEF IntakeInv, CreateTypeOK, DrainCapacityQueue
  <2>2. at[capacity_queue[1]] = "parked"
    BY <2>1 DEF IntakeInv, Parked
  <2> QED
    BY <2>1, <2>2, DrainIs DEF IntakeInv
<1>2. UNCHANGED <<workers, stage, job, carries, inline>>
  BY <1>1 DEF vars, queueVars, workVars
<1> HIDE DEF m
<1>3. (\A x \in Messages : x # m => at'[x] = at[x]) /\ at'[m] = "released"
  BY <1>1 DEF Moves
<1>4. \A j \in Jobs : carries[j] \in Messages \cup {NoKey}
  BY DEF IntakeInv, CreateTypeOK
<1>5. \A x \in Messages : Served(x) => Served(x)'
  BY <1>2 DEF Served
<1>6. inline \in Messages \cup {NoKey}
  BY DEF IntakeInv, CreateTypeOK
<1> QED
  BY <1>1, <1>2, <1>3, <1>4, <1>5, <1>6 DEF IntakeInv, Custody, InBody, PastDrainGate

\* Ends of sessions and changes of the world leave every body where it is.
LEMMA CustodyOther ==
  ASSUME IntakeInv, UNCHANGED <<vars, at, carries, inline>>
  PROVE  Custody'
<1>1. UNCHANGED <<workers, stage, job>>
  BY DEF vars, queueVars, workVars
<1>2. \A x \in Messages : Served(x) => Served(x)'
  BY <1>1 DEF Served
<1> QED
  BY <1>1, <1>2 DEF IntakeInv, Custody

\* A body that goes on keeps its handler, one that is through loses it.
LEMMA CustodyBody ==
  ASSUME IntakeInv, NEW m \in Messages, at[m] \in InBody, Served(m), NEW p, BodyMoves(m, p)
  PROVE  Custody'
<1>1. UNCHANGED <<workers, stage, job>>
  BY DEF BodyMoves, vars, queueVars, workVars
<1>2. (\A x \in Messages : x # m => at'[x] = at[x]) /\ at'[m] = p
  BY DEF BodyMoves, Moves
<1>3. /\ \A j \in Jobs : carries[j] \in Messages \cup {NoKey}
      /\ inline \in Messages \cup {NoKey}
  BY DEF IntakeInv, CreateTypeOK
<1>4. CASE p \in PastDrainGate /\ Keeps
  <2>1. UNCHANGED <<carries, inline>>
    BY <1>4 DEF Keeps
  <2>2. \A x \in Messages : Served(x) => Served(x)'
    BY <1>1, <2>1 DEF Served
  <2> QED
    BY <1>1, <1>2, <1>3, <1>4, <2>1, <2>2 DEF IntakeInv, Custody, InBody, PastDrainGate
<1>5. CASE p \notin InBody /\ Drops(m)
  <2>1. /\ \A j \in Jobs : carries'[j] = IF carries[j] = m THEN NoKey ELSE carries[j]
        /\ inline' = IF inline = m THEN NoKey ELSE inline
    BY <1>5 DEF Drops
  <2>2. \A w \in Jobs : workers[w].pc \in {"run", "settle"} => workers[w].job \in Jobs
    BY DEF IntakeInv, IInv, WorkersServe, Active
  <2>3. \A x \in Messages : Served(x) /\ x # m => Served(x)'
    BY <1>1, <2>1, <2>2 DEF Served
  <2>4. \A w \in Jobs : workers[w].pc = "settle" => carries'[workers[w].job] = NoKey
    BY <2>1, <2>2 DEF IntakeInv, Custody
  <2>5. \A x \in Messages : at'[x] \in InBody => inline' = x \/ \E j \in Jobs : carries'[j] = x
    BY <1>2, <1>5, <2>1 DEF IntakeInv, Custody
  <2>6. \A x \in Messages : at'[x] \in PastDrainGate => Served(x)'
    BY <1>2, <1>5, <2>3 DEF IntakeInv, Custody, InBody, PastDrainGate
  <2>7. \A j \in Jobs : carries'[j] # NoKey =>
          carries'[j] = carries[j] /\ carries[j] # m /\ at'[carries[j]] = at[carries[j]]
    BY <1>2, <1>3, <2>1
  <2>8. inline' # NoKey => inline' = inline /\ at'[inline] = at[inline]
    BY <1>2, <1>3, <2>1
  <2>9. \A j \in Jobs : carries'[j] # NoKey =>
           /\ stage'[j] \in {"queued", "taken"}
           /\ job'[j].heavy
           /\ job'[j].delegation = DelegationOf[carries'[j]]
           /\ carries'[j] # inline'
           /\ at'[carries'[j]] \in InBody
    BY <1>1, <2>1, <2>7, <2>8 DEF IntakeInv, Custody
  <2>10. \A i, j \in Jobs : carries'[i] = carries'[j] /\ carries'[i] # NoKey => i = j
    BY <2>7 DEF IntakeInv, Custody
  <2> QED
    BY <1>1, <2>4, <2>5, <2>6, <2>8, <2>9, <2>10 DEF IntakeInv, Custody
<1> QED
  BY <1>4, <1>5 DEF BodyMoves, InBody

\* What an enqueue leaves of the jobs and of the workers.
LEMMA SubmitLeaves ==
  ASSUME IntakeInv, NEW m \in Messages, NEW k \in Messages,
         NEW d \in Delegations \cup {NoDelegation}, NEW j \in Jobs, Submits(m, k, d, j)
  PROVE  /\ stage'[j] = "queued" /\ job'[j].heavy /\ job'[j].delegation = d
         /\ \A i \in Jobs : i # j => stage'[i] = stage[i] /\ job'[i] = job[i]
         /\ \A w \in Jobs : w # j => workers'[w] = workers[w]
         /\ workers[j].pc = "none" /\ workers'[j].pc \in {"none", "pop"}
         /\ \A w \in Jobs : workers[w].pc \in {"permit", "run", "settle"} =>
              workers[w].job \in Jobs /\ workers[w].job # j /\ w # j
<1>1. /\ stage \in [Jobs -> {"new", "queued", "taken", "settled"}]
      /\ job \in [Jobs -> IntakeJob] /\ workers \in [Jobs -> Worker]
  BY DEF IntakeInv, IInv, TypeOK
<1>2. stage[j] = "new" /\ workers[j].pc = "none"
  BY DEF Submits, IntakeInv, IInv, JobsKeyed
<1>3. /\ stage' = [stage EXCEPT ![j] = "queued"]
      /\ job' = [job EXCEPT ![j] = Heavy(k, {m}, d)]
  BY DEF Submits, Enqueue
<1>4. Heavy(k, {m}, d).heavy /\ Heavy(k, {m}, d).delegation = d /\ Heavy(k, {m}, d).key = k
  BY DEF Heavy
<1>5. workers' = IF NeedsWorker(k)
                 THEN [workers EXCEPT ![j] = [pc |-> "pop", key |-> k, job |-> NoJob]]
                 ELSE workers
  BY <1>4 DEF Submits, Enqueue
<1>6. /\ \A w \in Jobs : w # j => workers'[w] = workers[w]
      /\ workers'[j].pc \in {"none", "pop"}
  BY <1>1, <1>2, <1>5
<1>7. \A w \in Jobs : workers[w].pc \in {"permit", "run", "settle"} =>
        workers[w].job \in Jobs /\ stage[workers[w].job] = "taken"
  BY DEF IntakeInv, IInv, WorkersServe, Active
<1> QED
  BY <1>1, <1>2, <1>3, <1>4, <1>6, <1>7

\* A submitted message gets one job, and no job had it before.
LEMMA CustodySubmit ==
  ASSUME IntakeInv, NEW m \in Messages, NEW k \in Messages,
         NEW d \in Delegations \cup {NoDelegation}, NEW j \in Jobs,
         Submits(m, k, d, j), d = DelegationOf[m], at[m] \notin InBody
  PROVE  Custody'
<1>1. /\ \A i \in Jobs : carries[i] \in Messages \cup {NoKey}
      /\ inline \in Messages \cup {NoKey} /\ NoKey \notin Messages
  BY Names DEF IntakeInv, CreateTypeOK
<1>2. /\ \A x \in Messages : x # m => at'[x] = at[x]
      /\ at'[m] = "body" /\ inline' = inline
      /\ \A i \in Jobs : carries'[i] = IF i = j THEN m ELSE carries[i]
  BY DEF Submits, Moves
<1>3. (\A i \in Jobs : carries[i] # m) /\ inline # m
  BY <1>1 DEF IntakeInv, Custody
<1>4. carries[j] = NoKey
  BY DEF Submits, IntakeInv, Custody
<1> DEFINE Left ==
         /\ stage'[j] = "queued" /\ job'[j].heavy /\ job'[j].delegation = d
         /\ \A i \in Jobs : i # j => stage'[i] = stage[i] /\ job'[i] = job[i]
         /\ \A w \in Jobs : w # j => workers'[w] = workers[w]
         /\ workers[j].pc = "none" /\ workers'[j].pc \in {"none", "pop"}
         /\ \A w \in Jobs : workers[w].pc \in {"permit", "run", "settle"} =>
              workers[w].job \in Jobs /\ workers[w].job # j /\ w # j
<1>5. Left
  BY SubmitLeaves
<1>6. \A i \in Jobs : carries'[i] # NoKey =>
           /\ stage'[i] \in {"queued", "taken"}
           /\ job'[i].heavy
           /\ job'[i].delegation = DelegationOf[carries'[i]]
           /\ carries'[i] # inline'
           /\ at'[carries'[i]] \in InBody
  BY <1>1, <1>2, <1>3, <1>5 DEF IntakeInv, Custody, InBody
<1>7. \A w \in Jobs : workers'[w].pc = "settle" => carries'[workers'[w].job] = NoKey
  BY <1>2, <1>5 DEF IntakeInv, Custody
<1>8. \A i, h \in Jobs : carries'[i] = carries'[h] /\ carries'[i] # NoKey => i = h
  BY <1>2, <1>3 DEF IntakeInv, Custody
<1>9. inline' # NoKey => at'[inline'] \in InBody
  BY <1>1, <1>2, <1>3 DEF IntakeInv, Custody
<1>10. \A x \in Messages : at'[x] \in InBody => inline' = x \/ \E i \in Jobs : carries'[i] = x
  <2>1. ASSUME NEW x \in Messages, x # m, at[x] \in InBody
        PROVE  inline' = x \/ \E i \in Jobs : carries'[i] = x
    <3>1. CASE inline = x
      BY <1>2, <3>1
    <3>2. CASE inline # x
      <4>1. PICK i \in Jobs : carries[i] = x
        BY <2>1, <3>2 DEF IntakeInv, Custody
      <4>2. i # j
        BY <1>1, <1>4, <4>1
      <4> QED
        BY <1>2, <4>1, <4>2
    <3> QED
      BY <3>1, <3>2
  <2>2. carries'[j] = m
    BY <1>2
  <2> QED
    BY <1>2, <2>1, <2>2
<1>11. \A x \in Messages : at'[x] \in PastDrainGate => Served(x)'
  <2>1. ASSUME NEW x \in Messages, at'[x] \in PastDrainGate
        PROVE  Served(x)'
    <3>1. Served(x)
      BY <1>2, <2>1 DEF IntakeInv, Custody, PastDrainGate
    <3>2. ASSUME NEW w \in Jobs, workers[w].pc = "run", carries[workers[w].job] = x
          PROVE  Served(x)'
      <4>1. workers'[w] = workers[w] /\ carries'[workers[w].job] = x
        BY <1>2, <1>5, <3>2
      <4> QED
        BY <3>2, <4>1 DEF Served
    <3> QED
      BY <1>2, <3>1, <3>2 DEF Served
  <2> QED
    BY <2>1
<1> QED
  BY <1>6, <1>7, <1>8, <1>9, <1>10, <1>11 DEF Custody

\* What a worker's step does to the jobs in hand.
ExecutorLeaves(w) ==
  /\ UNCHANGED job
  /\ \A j \in Jobs : carries[j] # NoKey /\ stage[j] \in {"queued", "taken"}
        => stage'[j] \in {"queued", "taken"}
  /\ \A v \in Jobs : v # w => workers'[v] = workers[v]
  /\ workers'[w].pc = "settle" => workers[w].pc = "run" /\ workers'[w].job = workers[w].job
                                  /\ carries[workers[w].job] = NoKey
  /\ workers[w].pc = "run" => carries[workers[w].job] = NoKey

\* The executor takes no message from a job whose body is not through with it.
LEMMA ExecutorKeepsJobs ==
  ASSUME IntakeInv, NEW w \in Jobs, ExecutorStep(w)
  PROVE  ExecutorLeaves(w)
<1>1. /\ stage \in [Jobs -> {"new", "queued", "taken", "settled"}]
      /\ workers \in [Jobs -> Worker]
  BY DEF IntakeInv, IInv, TypeOK
<1>2. CASE Pop(w)
  <2>1. PICK j : j = Head(queues[workers[w].key].jobs)
    OBVIOUS
  <2>2. PICK c : c = IF job[j].heavy THEN "permit" ELSE "run"
    OBVIOUS
  <2>3. /\ stage' = [stage EXCEPT ![j] = "taken"]
        /\ workers' = [workers EXCEPT ![w].job = j, ![w].pc = c]
        /\ workers[w].pc = "pop" /\ UNCHANGED job
    BY <1>2, <2>1, <2>2 DEF Pop
  <2>4. c \in {"permit", "run"}
    BY <2>2
  <2> QED
    BY <1>1, <2>3, <2>4 DEF ExecutorLeaves, Worker
<1>3. CASE Retire(w)
  BY <1>1, <1>3 DEF Retire, ExecutorLeaves, Worker
<1>4. CASE AcquirePermit(w)
  BY <1>1, <1>4 DEF AcquirePermit, ExecutorLeaves, Worker, queueVars
<1>5. CASE BodyEnds(w)
  <2>1. carries[workers[w].job] = NoKey
    BY <1>5 DEF ExecutorStep, WorkerStep, Pop, Retire, AcquirePermit, Settle, BodyEnds
  <2> QED
    BY <1>1, <1>5, <2>1 DEF BodyEnds, ExecutorLeaves, Worker, queueVars
<1>6. CASE Settle(w)
  <2>1. /\ workers[w].pc = "settle" /\ workers[w].job \in Jobs /\ UNCHANGED job
        /\ stage' = [stage EXCEPT ![workers[w].job] = "settled"]
        /\ workers' = [workers EXCEPT ![w].pc = "pop", ![w].job = NoJob]
    BY <1>6 DEF Settle, IntakeInv, IInv, WorkersServe, Active
  <2>2. carries[workers[w].job] = NoKey
    BY <2>1 DEF IntakeInv, Custody
  <2> QED
    BY <1>1, <2>1, <2>2 DEF ExecutorLeaves, Worker
<1> QED
  BY <1>2, <1>3, <1>4, <1>5, <1>6 DEF ExecutorStep, WorkerStep

\* The executor keeps every body in the hands of one worker: a body that still has
\* its message neither ends nor settles.
LEMMA CustodyExecutor ==
  ASSUME IntakeInv, NEW w \in Jobs, ExecutorStep(w)
  PROVE  Custody'
<1>1. UNCHANGED <<at, carries, inline>>
  BY DEF ExecutorStep, msgVars
<1>2. ExecutorLeaves(w)
  BY ExecutorKeepsJobs
<1>3. \A x \in Messages : Served(x) => Served(x)'
  <2>1. \A v \in Jobs : workers[v].pc = "run" /\ carries[workers[v].job] # NoKey => workers'[v] = workers[v]
    BY <1>2 DEF ExecutorLeaves
  <2> QED
    BY <1>1, <2>1, Names DEF Served
<1>4. \A v \in Jobs : workers'[v].pc = "settle" => carries'[workers'[v].job] = NoKey
  BY <1>1, <1>2 DEF ExecutorLeaves, IntakeInv, Custody
<1>5. \A j \in Jobs : carries[j] # NoKey => stage'[j] \in {"queued", "taken"} /\ job'[j] = job[j]
  BY <1>2 DEF ExecutorLeaves, IntakeInv, Custody
<1> QED
  BY <1>1, <1>3, <1>4, <1>5 DEF IntakeInv, Custody

------------------------------------------------------------------------------
(* Deferred admissions and the ledger are kept. *)

\* A body defers its message at most once: what it appends was not in the queue.
LEMMA ParkedBody ==
  ASSUME IntakeInv, NEW m \in Messages, at[m] \in InBody, NEW p, BodyMoves(m, p)
  PROVE  Parked'
<1>1. (\A x \in Messages : x # m => at'[x] = at[x]) /\ at'[m] = p /\ at[m] # "parked"
  BY DEF BodyMoves, Moves, InBody
<1>2. capacity_queue \in Seq(Messages)
  BY DEF IntakeInv, CreateTypeOK
<1>3. CASE p = "parked"
  <2> DEFINE q == capacity_queue
             n == Len(capacity_queue)
  <2>1. n \in Nat /\ Len(q') = n + 1 /\ q'[n + 1] = m /\ \A i \in 1..n : q'[i] = q[i]
    BY <1>2, <1>3 DEF BodyMoves
  <2>2. \A i \in 1..n : q[i] # m
    BY <1>1 DEF IntakeInv, Parked
  <2>3. \A i \in 1..Len(q') : i = n + 1 \/ i \in 1..n
    BY <2>1
  <2>4. 1..n \subseteq 1..Len(q') /\ n + 1 \in 1..Len(q')
    BY <2>1
  <2>5. \A x \in Messages : x # m =>
          ((\E i \in 1..n : q[i] = x) <=> \E i \in 1..Len(q') : q'[i] = x)
    BY <2>1, <2>3, <2>4
  <2>6. \E i \in 1..Len(q') : q'[i] = m
    BY <2>1, <2>4
  <2>7. \A i, h \in 1..Len(q') : q'[i] = q'[h] => i = h
    BY <2>1, <2>2, <2>3 DEF IntakeInv, Parked
  <2>8. \A x \in Messages : at[x] = "parked" <=> \E i \in 1..n : q[i] = x
    BY DEF IntakeInv, Parked
  <2> HIDE DEF q, n
  <2>9. \A x \in Messages : at'[x] = "parked" <=> \E i \in 1..Len(q') : q'[i] = x
    BY <1>1, <1>3, <2>5, <2>6, <2>8
  <2> QED
    BY <2>7, <2>9 DEF Parked, q
<1>4. CASE p # "parked"
  <2>1. UNCHANGED capacity_queue
    BY <1>4 DEF BodyMoves
  <2> QED
    BY <1>1, <1>4, <2>1 DEF IntakeInv, Parked
<1> QED
  BY <1>3, <1>4

\* What is popped was in the queue once, and is in it no more.
LEMMA ParkedDrain ==
  ASSUME IntakeInv, DrainCapacityQueue
  PROVE  Parked'
<1> DEFINE q == capacity_queue
           m == Head(capacity_queue)
<1>1. q # <<>> /\ q \in Seq(Messages) /\ q' = Tail(q) /\ m \in Messages /\ Moves(m, "released")
  BY DrainIs DEF IntakeInv, CreateTypeOK
<1>2. Len(q) \in Nat /\ Len(q) > 0 /\ Len(q') = Len(q) - 1 /\ m = q[1]
      /\ \A i \in 1..Len(q') : q'[i] = q[i + 1] /\ i + 1 \in 1..Len(q)
  BY <1>1
<1>3. \A i, h \in 1..Len(q) : q[i] = q[h] => i = h
  BY DEF IntakeInv, Parked
<1>4. \A x \in Messages : at[x] = "parked" <=> \E i \in 1..Len(q) : q[i] = x
  BY DEF IntakeInv, Parked
<1>5. \A x \in Messages : at'[x] = IF x = m THEN "released" ELSE at[x]
  BY <1>1 DEF Moves
<1> HIDE DEF q, m
<1>6. \A i, h \in 1..Len(q') : q'[i] = q'[h] => i = h
  <2>1. ASSUME NEW i \in 1..Len(q'), NEW h \in 1..Len(q'), q'[i] = q'[h]
        PROVE  i = h
    <3>1. i + 1 = h + 1
      BY <1>2, <1>3, <2>1
    <3> QED
      BY <1>2, <3>1
  <2> QED
    BY <2>1
<1>7. ASSUME NEW x \in Messages, x # m, NEW i \in 1..Len(q), q[i] = x
      PROVE  \E h \in 1..Len(q') : q'[h] = x
  <2>1. i # 1
    BY <1>2, <1>7
  <2>2. i - 1 \in 1..Len(q') /\ (i - 1) + 1 = i
    BY <1>2, <2>1
  <2> QED
    BY <1>2, <1>7, <2>2
<1>8. \A i \in 1..Len(q') : q'[i] # m
  <2>1. ASSUME NEW i \in 1..Len(q'), q'[i] = m
        PROVE  FALSE
    <3>1. 1 \in 1..Len(q) /\ i + 1 \in 1..Len(q) /\ q[i + 1] = q[1]
      BY <1>2, <2>1
    <3>2. i + 1 = 1
      BY <1>3, <3>1
    <3> QED
      BY <1>2, <3>2
  <2> QED
    BY <2>1
<1>9. \A x \in Messages : at'[x] = "parked" <=> \E i \in 1..Len(q') : q'[i] = x
  <2>1. at'[m] # "parked"
    BY <1>1, <1>5
  <2>2. \A x \in Messages : x # m => at'[x] = at[x]
    BY <1>5
  <2>3. \A x \in Messages : (\E i \in 1..Len(q') : q'[i] = x) => \E i \in 1..Len(q) : q[i] = x
    BY <1>2
  <2> QED
    BY <1>4, <1>7, <1>8, <2>1, <2>2, <2>3
<1> QED
  BY <1>6, <1>9 DEF Parked, q

\* Steps that neither defer nor release.
LEMMA ParkedKept ==
  ASSUME IntakeInv, UNCHANGED capacity_queue,
         \A x \in Messages : at'[x] = at[x] \/ (at[x] # "parked" /\ at'[x] # "parked")
  PROVE  Parked'
BY DEF IntakeInv, Parked

\* Receipts and acknowledgements name messages.
LEMMA LedgerSessions ==
  ASSUME CreateTypeOK
  PROVE  /\ \A i \in 1..Len(receipts) : receipts[i].session \in Messages
         /\ \A a \in acks : a.session \in Messages
<1>1. receipts \in Seq(Receipt) /\ acks \subseteq Receipt
  BY DEF CreateTypeOK, Receipt
<1>2. \A r \in Receipt : r.session \in Messages
  BY DEF Receipt
<1> QED
  BY <1>1, <1>2

\* Steps that do not write the ledger.
LEMMA LedgerKept ==
  ASSUME IntakeInv, UNCHANGED <<receipts, acks>>,
         \A x \in Messages : at[x] = "started" => at'[x] = "started",
         \A x \in Messages : at'[x] = "ack" => at[x] = "ack" \/ DelegationOf[x] # NoDelegation
  PROVE  Ledger'
<1>1. /\ \A i \in 1..Len(receipts) : receipts[i].session \in Messages
      /\ \A a \in acks : a.session \in Messages
  BY LedgerSessions DEF IntakeInv
<1> QED
  BY <1>1 DEF IntakeInv, Ledger

\* A duplicate is answered with the session on record.
LEMMA LedgerDuplicate ==
  ASSUME IntakeInv, NEW m \in Messages, DuplicateCheck(m)
  PROVE  Ledger'
<1>1. at[m] = "arm" /\ UNCHANGED receipts
  BY DEF DuplicateCheck
<1>2. \A x \in Messages : x # m => at'[x] = at[x]
  BY GoMoves, LeaveMoves DEF DuplicateCheck, Moves, IntakeInv
<1>3. at'[m] # "ack"
  BY GoMoves, LeaveMoves DEF DuplicateCheck, Moves, IntakeInv
<1>4. /\ \A i \in 1..Len(receipts) : receipts[i].session \in Messages
      /\ \A a \in acks : a.session \in Messages
  BY LedgerSessions DEF IntakeInv
<1>5. \A x \in Messages : at[x] = "started" => at'[x] = "started"
  BY <1>1, <1>2
<1>6. \A a \in acks' : DelegationOf[a.session] = a.delegation /\ at'[a.session] = "started"
  <2>1. CASE Recorded(DelegationOf[m])
    <3> DEFINE b == [delegation |-> DelegationOf[m], session |-> OriginalSession(DelegationOf[m])]
    <3>1. acks' = acks \cup {b}
      BY <2>1 DEF DuplicateCheck
    <3>2. PICK i \in 1..Len(receipts) : /\ receipts[i].delegation = DelegationOf[m]
                                        /\ OriginalSession(DelegationOf[m]) = receipts[i].session
      BY <2>1, OriginalIs DEF IntakeInv
    <3>3. b.delegation = DelegationOf[m] /\ b.session = receipts[i].session
      BY <3>2
    <3> HIDE DEF b
    <3>4. DelegationOf[b.session] = b.delegation /\ at'[b.session] = "started"
      BY <1>4, <1>5, <3>2, <3>3 DEF IntakeInv, Ledger
    <3> QED
      BY <1>4, <1>5, <3>1, <3>4 DEF IntakeInv, Ledger
  <2>2. CASE ~Recorded(DelegationOf[m])
    <3>1. UNCHANGED acks
      BY <2>2 DEF DuplicateCheck
    <3> QED
      BY <1>4, <1>5, <3>1 DEF IntakeInv, Ledger
  <2> QED
    BY <2>1, <2>2
<1> QED
  BY <1>1, <1>2, <1>3, <1>4, <1>5, <1>6 DEF IntakeInv, Ledger

\* A receipt written names the session just started; evictions take whole receipts.
LEMMA LedgerAcknowledge ==
  ASSUME IntakeInv, NEW m \in Messages, Acknowledge(m)
  PROVE  Ledger'
<1> DEFINE d == DelegationOf[m]
           new == [delegation |-> d, session |-> m]
<1>1. at[m] = "ack" /\ receipts' = RecordDelegation(d, m) /\ acks' = acks \cup {new}
  BY DEF Acknowledge
<1>2. (\A x \in Messages : x # m => at'[x] = at[x]) /\ at'[m] = "started"
  BY LeaveMoves DEF Acknowledge, Moves, IntakeInv
<1>3. d \in Delegations
  BY <1>1, Names DEF IntakeInv, Ledger
<1>4. /\ \A i \in 1..Len(receipts) : receipts[i].session \in Messages
      /\ \A a \in acks : a.session \in Messages
  BY LedgerSessions DEF IntakeInv
<1>5. \A x \in Messages : at[x] = "started" => at'[x] = "started"
  BY <1>1, <1>2
<1>6. new.delegation = d /\ new.session = m
  OBVIOUS
<1>7. /\ \A i \in 1..Len(receipts') : receipts'[i] = new
                                      \/ \E h \in 1..Len(receipts) : receipts'[i] = receipts[h]
      /\ \A i, h \in 1..Len(receipts') : receipts'[i].delegation = receipts'[h].delegation => i = h
  <2>1. LET R == RecordDelegation(d, m)
        IN  /\ \A i \in 1..Len(R) : R[i] = new \/ \E h \in 1..Len(receipts) : R[i] = receipts[h]
            /\ \A i, h \in 1..Len(R) : R[i].delegation = R[h].delegation => i = h
    <3>1. \A i, h \in 1..Len(receipts) : receipts[i].delegation = receipts[h].delegation => i = h
      BY DEF IntakeInv, Ledger
    <3>2. CreateTypeOK
      BY DEF IntakeInv
    <3> HIDE DEF d
    <3> QED
      BY <1>3, <3>1, <3>2, RecordIs
  <2> QED
    BY <1>1, <2>1, Zenon
<1> HIDE DEF d, new
<1>8. \A i \in 1..Len(receipts') : /\ DelegationOf[receipts'[i].session] = receipts'[i].delegation
                                   /\ at'[receipts'[i].session] = "started"
  BY <1>2, <1>4, <1>5, <1>6, <1>7 DEF IntakeInv, Ledger, d
<1>9. \A a \in acks' : DelegationOf[a.session] = a.delegation /\ at'[a.session] = "started"
  BY <1>1, <1>2, <1>4, <1>5, <1>6 DEF IntakeInv, Ledger, d
<1> QED
  BY <1>2, <1>7, <1>8, <1>9 DEF IntakeInv, Ledger

------------------------------------------------------------------------------
(* Types are kept. *)

\* Where a message goes is a place, and who handles it is a job or the loop.
LEMMA MoveTypes ==
  ASSUME CreateTypeOK, NEW m \in Messages, NEW p \in Places,
         Go(m, p) \/ Leave(m, p)
  PROVE  /\ at' \in [Messages -> Places]
         /\ carries' \in [Jobs -> Messages \cup {NoKey}]
         /\ inline' \in Messages \cup {NoKey}
BY DEF CreateTypeOK, Go, Leave

\* The body steps keep the types.
LEMMA BodyTypes ==
  ASSUME IntakeInv, TypeOK', NEW m \in Messages, BodyStep(m)
  PROVE  CreateTypeOK'
<1> DEFINE Moved == /\ at' \in [Messages -> Places]
                    /\ carries' \in [Jobs -> Messages \cup {NoKey}]
                    /\ inline' \in Messages \cup {NoKey}
<1> USE DEF IntakeInv
<1>0. {"refused", "capacity", "arm", "parked", "launch", "reacked", "failed", "ack", "started"} \subseteq Places
  BY DEF Places
<1>1. CASE DrainGate(m)
  <2>1. Moved /\ UNCHANGED <<keyOf, stateVars, worldVars>>
    BY <1>0, <1>1, MoveTypes DEF DrainGate
  <2> QED
    BY <2>1 DEF CreateTypeOK, stateVars, worldVars
<1>2. CASE CapacityGate(m)
  <2>1. Moved /\ UNCHANGED <<keyOf, sessions, receipts, acks, worldVars>>
    BY <1>0, <1>2, MoveTypes DEF CapacityGate
  <2>2. capacity_queue' \in Seq(Messages) /\ Len(capacity_queue') <= ADMISSION_QUEUE_CAP
    <3>1. \/ UNCHANGED capacity_queue
          \/ /\ Len(capacity_queue) < ADMISSION_QUEUE_CAP
             /\ capacity_queue' = Append(capacity_queue, m)
      BY <1>2 DEF CapacityGate, QueueHasRoom
    <3>2. /\ capacity_queue \in Seq(Messages) /\ Len(capacity_queue) <= ADMISSION_QUEUE_CAP
          /\ ADMISSION_QUEUE_CAP \in Nat
      BY CreateAssumption DEF CreateTypeOK
    <3> QED
      BY <3>1, <3>2
  <2> QED
    BY <2>1, <2>2 DEF CreateTypeOK, worldVars
<1>3. CASE DuplicateCheck(m)
  <2>1. Moved /\ UNCHANGED <<keyOf, sessions, receipts, capacity_queue, worldVars>>
    BY <1>0, <1>3, MoveTypes DEF DuplicateCheck
  <2>2. acks' \subseteq Receipt
    <3>1. CASE Recorded(DelegationOf[m])
      <4>1. acks' = acks \cup {[delegation |-> DelegationOf[m],
                                session |-> OriginalSession(DelegationOf[m])]}
        BY <1>3, <3>1 DEF DuplicateCheck
      <4>2. DelegationOf[m] \in Delegations
        BY <3>1, RecordedIs
      <4>3. OriginalSession(DelegationOf[m]) \in Messages
        BY <3>1, OriginalIs, LedgerSessions
      <4> QED
        BY <4>1, <4>2, <4>3 DEF CreateTypeOK, Receipt
    <3>2. CASE ~Recorded(DelegationOf[m])
      BY <1>3, <3>2 DEF DuplicateCheck, CreateTypeOK, Receipt
    <3> QED
      BY <3>1, <3>2
  <2> QED
    BY <2>1, <2>2 DEF CreateTypeOK, worldVars, Receipt
<1>4. CASE LaunchRegisters(m)
  <2>1. Moved /\ UNCHANGED <<keyOf, receipts, acks, capacity_queue, worldVars>>
    BY <1>0, <1>4, MoveTypes DEF LaunchRegisters
  <2>2. sessions' \subseteq Messages
    BY <1>4 DEF LaunchRegisters, CreateTypeOK
  <2> QED
    BY <2>1, <2>2 DEF CreateTypeOK, worldVars
<1>5. CASE LaunchFails(m)
  <2>1. Moved /\ UNCHANGED <<keyOf, stateVars, worldVars>>
    BY <1>0, <1>5, MoveTypes DEF LaunchFails
  <2> QED
    BY <2>1 DEF CreateTypeOK, stateVars, worldVars
<1>6. CASE Acknowledge(m)
  <2>1. Moved /\ UNCHANGED <<keyOf, sessions, capacity_queue, worldVars>>
    BY <1>0, <1>6, MoveTypes DEF Acknowledge
  <2>2. DelegationOf[m] \in Delegations
    BY <1>6, Names DEF Acknowledge, Ledger
  <2>3. receipts' \in Seq(Receipt) /\ Len(receipts') <= MAX_DELEGATION_RECEIPTS
    <3>1. receipts' = RecordDelegation(DelegationOf[m], m)
      BY <1>6 DEF Acknowledge
    <3> QED
      BY <2>2, <3>1, RecordIs
  <2>4. acks' \subseteq Receipt
    BY <1>6, <2>2 DEF Acknowledge, CreateTypeOK, Receipt
  <2> QED
    BY <2>1, <2>3, <2>4 DEF CreateTypeOK, worldVars, Receipt
<1> QED
  BY <1>1, <1>2, <1>3, <1>4, <1>5, <1>6 DEF BodyStep

\* All other steps keep the types.
LEMMA OtherTypes ==
  ASSUME IntakeInv, TypeOK', [CreateNext]_createVars,
         ~ \E m \in Messages : BodyStep(m)
  PROVE  CreateTypeOK'
<1> USE DEF IntakeInv
<1>1. ASSUME NEW m \in Messages, Take(m)
      PROVE  CreateTypeOK'
  BY <1>1 DEF Take, CreateTypeOK, stateVars, worldVars, Places
<1>2. ASSUME NEW m \in Messages, ChooseKey(m)
      PROVE  CreateTypeOK'
  <2>1. QueueKey(m) \in Messages \cup {NoKey}
    BY Names DEF QueueKey, PendingDelegationKey, IInv, TypeOK, Reservation
  <2> QED
    BY <1>2, <2>1 DEF ChooseKey, CreateTypeOK, stateVars, worldVars, Places
<1>3. ASSUME NEW m \in Messages, NEW k, NEW d, Submit(m, k, d), UNCHANGED <<keyOf, stateVars, worldVars>>
      PROVE  CreateTypeOK'
  <2>1. at' \in [Messages -> Places] /\ carries' \in [Jobs -> Messages \cup {NoKey}] /\ UNCHANGED inline
    BY <1>3 DEF Submit, CreateTypeOK, Places
  <2> QED
    BY <1>3, <2>1 DEF CreateTypeOK, stateVars, worldVars
<1>4. ASSUME DrainCapacityQueue
      PROVE  CreateTypeOK'
  <2>1. capacity_queue' \in Seq(Messages) /\ Len(capacity_queue') <= ADMISSION_QUEUE_CAP
    BY <1>4, CreateAssumption DEF DrainCapacityQueue, PopHead, CreateTypeOK
  <2>2. at' \in [Messages -> Places]
    BY <1>4 DEF DrainCapacityQueue, CreateTypeOK, Places
  <2> QED
    BY <1>4, <2>1, <2>2 DEF DrainCapacityQueue, CreateTypeOK, worldVars
<1>5. ASSUME NEW s \in Messages, SessionEnds(s)
      PROVE  CreateTypeOK'
  BY <1>5 DEF SessionEnds, CreateTypeOK, msgVars, worldVars
<1>6. ASSUME PressureChanges
      PROVE  CreateTypeOK'
  BY <1>6, CreateAssumption DEF PressureChanges, CreateTypeOK, msgVars, stateVars
<1>7. ASSUME EnterDrain
      PROVE  CreateTypeOK'
  BY <1>7 DEF EnterDrain, CreateTypeOK, msgVars, stateVars
<1>8. ASSUME NEW w \in Jobs, ExecutorStep(w)
      PROVE  CreateTypeOK'
  BY <1>8 DEF ExecutorStep, CreateTypeOK, msgVars, stateVars, worldVars
<1>9. CASE UNCHANGED createVars
  BY <1>9 DEF createVars, CreateTypeOK, msgVars, stateVars, worldVars
<1> QED
  BY <1>1, <1>2, <1>3, <1>4, <1>5, <1>6, <1>7, <1>8, <1>9
     DEF CreateNext, LoopStep, EnqueueCreate, EnqueueReserved

\* A daemon that may not drain does not.
LEMMA DrainsIfItMay ==
  ASSUME IntakeInv, [CreateNext]_createVars
  PROVE  draining' => MayDrain
<1>1. draining' # draining => EnterDrain
  BY DEF CreateNext, createVars, LoopStep, BodyStep, Take, ChooseKey, EnqueueCreate, DrainGate,
         CapacityGate, DuplicateCheck, LaunchRegisters, LaunchFails, Acknowledge, EnqueueReserved,
         SessionEnds, ExecutorStep, DrainCapacityQueue, PressureChanges, worldVars
<1> QED
  BY <1>1 DEF IntakeInv, EnterDrain

------------------------------------------------------------------------------
(* The invariant of the intake.                                               *)

\* The invariant holds when the daemon starts.
LEMMA IntakeInvInit ==
  ASSUME CreateInit
  PROVE  IntakeInv
<1>1. IInv
  BY InitIInv DEF CreateInit
<1>2. TypeOK
  BY <1>1 DEF IInv
<1>3. CreateTypeOK
  <2>1. /\ at \in [Messages -> Places] /\ keyOf \in [Messages -> Messages \cup {NoKey}]
        /\ carries \in [Jobs -> Messages \cup {NoKey}] /\ inline \in Messages \cup {NoKey}
    BY DEF CreateInit, Places
  <2>2. receipts = <<>> /\ capacity_queue = <<>> /\ sessions = {} /\ acks = {}
        /\ pressure = FALSE /\ turns = 0 /\ draining = FALSE
    BY DEF CreateInit
  <2>3. /\ \A S : <<>> \in Seq(S)
        /\ Len(<<>>) = 0
        /\ ADMISSION_QUEUE_CAP \in Nat /\ MAX_DELEGATION_RECEIPTS \in Nat /\ PressureTurns \in Nat
    BY CreateAssumption
  <2>4. Len(receipts) <= MAX_DELEGATION_RECEIPTS /\ Len(capacity_queue) <= ADMISSION_QUEUE_CAP
        /\ turns \in 0..PressureTurns
    BY <2>2, <2>3
  <2>5. receipts \in Seq([delegation : Delegations, session : Messages])
        /\ capacity_queue \in Seq(Messages)
    BY <2>2, <2>3
  <2> QED
    BY <1>2, <2>1, <2>2, <2>4, <2>5 DEF CreateTypeOK
<1>4. routes = [id \in Messages |-> NoReservation] /\ \A w \in Jobs : workers[w].pc = "none"
  BY Names DEF CreateInit, Init
<1>5. Submitting
  BY <1>4 DEF CreateInit, Submitting, NoReservation, BeforeJob, InLoop
<1>6. Custody
  BY <1>4 DEF CreateInit, Custody, InBody, PastDrainGate
<1>7. Parked /\ Ledger
  BY DEF CreateInit, Parked, Ledger
<1> QED
  BY <1>1, <1>3, <1>5, <1>6, <1>7 DEF CreateInit, IntakeInv

\* Both ways a create is enqueued.
LEMMA CreateEnqueues ==
  ASSUME IntakeInv, NEW m \in Messages, EnqueueCreate(m) \/ EnqueueReserved(m)
  PROVE  \E k \in Messages, d \in Delegations \cup {NoDelegation}, j \in Jobs :
           /\ Submits(m, k, d, j) /\ d = DelegationOf[m]
           /\ DelegationOf[m] = NoDelegation => k = m
           /\ at[m] \in {"keyed", "released"}
           /\ d # NoDelegation => at[m] = "keyed"
           /\ UNCHANGED <<keyOf, stateVars, worldVars>>
<1>0. CreateTypeOK
  BY DEF IntakeInv
<1>1. CASE EnqueueCreate(m)
  <2>1. /\ at[m] = "keyed" /\ Submit(m, keyOf[m], DelegationOf[m])
        /\ UNCHANGED <<keyOf, stateVars, worldVars>>
    BY <1>1 DEF EnqueueCreate
  <2>2. PICK j \in Jobs : Submits(m, keyOf[m], DelegationOf[m], j)
    BY <1>0, <2>1, SubmitSubmits
  <2>3. keyOf[m] \in Messages /\ (DelegationOf[m] = NoDelegation => keyOf[m] = m)
    BY <2>1 DEF IntakeInv, Submitting
  <2>4. DelegationOf[m] \in Delegations \cup {NoDelegation}
    BY Names
  <2> QED
    BY <2>1, <2>2, <2>3, <2>4
<1>2. CASE EnqueueReserved(m)
  <2>1. /\ at[m] = "released" /\ Submit(m, m, NoDelegation)
        /\ UNCHANGED <<keyOf, stateVars, worldVars>>
    BY <1>2 DEF EnqueueReserved
  <2>2. PICK j \in Jobs : Submits(m, m, NoDelegation, j)
    BY <1>0, <2>1, SubmitSubmits
  <2>3. DelegationOf[m] = NoDelegation
    BY <2>1 DEF IntakeInv, Submitting
  <2> QED
    BY <2>1, <2>2, <2>3
<1> QED
  BY <1>1, <1>2

\* Every step keeps the invariant, each conjunct action by action.
LEMMA IntakeInvStep ==
  ASSUME IntakeInv, [CreateNext]_createVars
  PROVE  IntakeInv'
<1>1. IInv'
  BY CreateDrives, StepIInv DEF IntakeInv
<1>2. CreateTypeOK'
  <2>1. TypeOK'
    BY <1>1 DEF IInv
  <2> QED
    BY <2>1, BodyTypes, OtherTypes
<1>3. CreateTypeOK
  BY DEF IntakeInv
<1> DEFINE Rest == Submitting /\ Custody /\ Parked /\ Ledger
<1>4. ASSUME NEW m \in Messages, Take(m)
      PROVE  Rest'
  <2>1. TakesUp(m)
    BY <1>3, <1>4, TakeIs
  <2>2. /\ UNCHANGED <<receipts, acks, capacity_queue>> /\ at[m] = "unsent"
        /\ \A x \in Messages : at'[x] = at[x] \/ (x = m /\ at'[x] \in {"body", "checked"})
    BY <2>1 DEF TakesUp, Moves, stateVars
  <2>3. Parked' /\ Ledger'
    BY <2>2, ParkedKept, LedgerKept
  <2> QED
    BY <2>1, <2>3, SubmittingTake, CustodyTake
<1>5. ASSUME NEW m \in Messages, ChooseKey(m)
      PROVE  Rest'
  <2>1. ChoosesKey(m)
    BY <1>3, <1>5, ChooseKeyIs
  <2>2. /\ UNCHANGED <<receipts, acks, capacity_queue>> /\ at[m] = "checked"
        /\ \A x \in Messages : at'[x] = at[x] \/ (x = m /\ at'[x] = "keyed")
    BY <2>1 DEF ChoosesKey, Moves, stateVars
  <2>3. Parked' /\ Ledger'
    BY <2>2, ParkedKept, LedgerKept
  <2> QED
    BY <2>1, <2>3, SubmittingChoose, CustodyChoose
<1>6. ASSUME NEW m \in Messages, EnqueueCreate(m) \/ EnqueueReserved(m)
      PROVE  Rest'
  <2>1. PICK k \in Messages, d \in Delegations \cup {NoDelegation}, j \in Jobs :
           /\ Submits(m, k, d, j) /\ d = DelegationOf[m]
           /\ DelegationOf[m] = NoDelegation => k = m
           /\ at[m] \in {"keyed", "released"}
           /\ d # NoDelegation => at[m] = "keyed"
           /\ UNCHANGED <<keyOf, stateVars, worldVars>>
    BY <1>6, CreateEnqueues
  <2>2. Submitting'
    BY <1>1, <2>1, SubmittingSubmit
  <2>3. Custody'
    BY <2>1, CustodySubmit DEF InBody
  <2>4. /\ UNCHANGED <<receipts, acks, capacity_queue>>
        /\ \A x \in Messages : at'[x] = at[x] \/ (x = m /\ at'[x] = "body")
    BY <2>1 DEF Submits, Moves, stateVars
  <2>5. Parked' /\ Ledger'
    BY <2>1, <2>4, ParkedKept, LedgerKept
  <2> QED
    BY <2>2, <2>3, <2>5
<1>7. ASSUME NEW m \in Messages, BodyStep(m)
      PROVE  Rest'
  <2>1. at[m] \in InBody /\ Served(m) /\ UNCHANGED keyOf
    BY <1>3, <1>7, BodySteps
  <2>2. PICK p \in Places : BodyMoves(m, p)
    BY <1>3, <1>7, BodySteps
  <2>3. Submitting' /\ Custody' /\ Parked'
    BY <2>1, <2>2, SubmittingBody, CustodyBody, ParkedBody
  <2>4. CASE DuplicateCheck(m) \/ Acknowledge(m)
    BY <2>3, <2>4, LedgerDuplicate, LedgerAcknowledge
  <2>5. CASE ~(DuplicateCheck(m) \/ Acknowledge(m))
    <3>1. UNCHANGED <<receipts, acks>>
      BY <1>7, <2>5 DEF BodyStep, DrainGate, CapacityGate, LaunchRegisters, LaunchFails, stateVars
    <3>2. /\ \A x \in Messages : x # m => at'[x] = at[x]
          /\ at[m] # "started"
      BY <2>1, <2>2 DEF BodyMoves, Moves, InBody
    <3>3. at'[m] = "ack" => DelegationOf[m] # NoDelegation
      BY <1>3, <1>7, <2>5, GoMoves, LeaveMoves
         DEF BodyStep, DrainGate, CapacityGate, LaunchRegisters, LaunchFails, Moves
    <3>4. Ledger'
      BY <3>1, <3>2, <3>3, LedgerKept
    <3> QED
      BY <2>3, <3>4
  <2> QED
    BY <2>4, <2>5
<1>8. ASSUME NEW w \in Jobs, ExecutorStep(w)
      PROVE  Rest'
  <2>1. UNCHANGED <<at, receipts, acks, capacity_queue>>
    BY <1>8 DEF ExecutorStep, msgVars, stateVars
  <2>2. Parked' /\ Ledger'
    BY <2>1, ParkedKept, LedgerKept
  <2> QED
    BY <1>1, <1>8, <2>2, SubmittingExecutor, CustodyExecutor
<1>9. ASSUME DrainCapacityQueue
      PROVE  Rest'
  <2>1. /\ UNCHANGED <<receipts, acks>>
        /\ \A x \in Messages : at'[x] = at[x] \/ (at[x] = "parked" /\ at'[x] = "released")
    <3>1. capacity_queue # <<>> /\ capacity_queue \in Seq(Messages)
      BY <1>9 DEF IntakeInv, CreateTypeOK, DrainCapacityQueue
    <3>2. at[capacity_queue[1]] = "parked"
      BY <3>1 DEF IntakeInv, Parked
    <3> QED
      BY <1>3, <1>9, <3>1, <3>2, DrainIs DEF Moves
  <2>2. Ledger'
    BY <2>1, LedgerKept
  <2> QED
    BY <1>9, <2>2, SubmittingDrain, CustodyDrain, ParkedDrain
<1>10. ASSUME (\E s \in Messages : SessionEnds(s)) \/ PressureChanges \/ EnterDrain \/ UNCHANGED createVars
       PROVE  Rest'
  <2>1. UNCHANGED <<vars, at, keyOf, carries, inline, receipts, acks, capacity_queue>>
    BY <1>10, OtherSteps DEF createVars, msgVars, stateVars
  <2> QED
    BY <2>1, SubmittingOther, CustodyOther, ParkedKept, LedgerKept
<1>11. Rest'
  BY <1>4, <1>5, <1>6, <1>7, <1>8, <1>9, <1>10 DEF CreateNext, LoopStep
<1> QED
  BY <1>1, <1>2, <1>11, DrainsIfItMay DEF IntakeInv

\* The intake's state is consistent with the executor's in every reachable state: every
\* create taken is in the hands of one body, deferred once, or answered, and the receipts
\* name sessions that were started.
THEOREM IntakeInvAlways == CreateSpec => []IntakeInv
<1>1. CreateInit => IntakeInv
  BY IntakeInvInit
<1>2. IntakeInv /\ [CreateNext]_createVars => IntakeInv'
  BY IntakeInvStep
<1> QED
  BY <1>1, <1>2, PTL DEF CreateSpec

\* What the create path does to the executor is what the executor lets its clients do,
\* reservations included: what IntakeExecutorProofs proves holds of a daemon's creates.
THEOREM CreatesDriveExecutor == CreateSpec => DrivesExecutor
<1>1. CreateInit => Init
  BY DEF CreateInit
<1>2. IntakeInv /\ [CreateNext]_createVars => [Next]_vars
  BY CreateDrives
<1> QED
  BY <1>1, <1>2, IntakeInvAlways, PTL DEF CreateSpec, DrivesExecutor, Spec

\* A set of which all members are equal has one member or none.
LEMMA OneOrNone ==
  ASSUME NEW S, \A x, y \in S : x = y
  PROVE  Cardinality(S) = IF S = {} THEN 0 ELSE 1
<1>1. CASE S = {}
  BY <1>1, FS_EmptySet
<1>2. CASE S # {}
  <2>1. PICK x \in S : S = {x}
    BY <1>2
  <2> QED
    BY <1>2, <2>1, FS_Singleton
<1> QED
  BY <1>1, <1>2

\* Every create that was taken and not answered has one custodian, for any number of
\* deliveries, jobs and deferred admissions.
THEOREM OneCustodianAlways == CreateSpec => []OneCustodian
<1>1. ASSUME IntakeInv, NEW m \in Messages
      PROVE  LET bodies == {j \in Jobs : carries[j] = m /\ stage[j] \in {"queued", "taken"}}
                 entries == {i \in 1..Len(capacity_queue) : capacity_queue[i] = m}
             IN /\ Cardinality({j \in Jobs : carries[j] = m}) + (IF inline = m THEN 1 ELSE 0)
                     = (IF at[m] \in {"body", "capacity", "arm", "launch", "ack"} THEN 1 ELSE 0)
                /\ bodies = {j \in Jobs : carries[j] = m}
                /\ Cardinality(entries) = (IF at[m] = "parked" THEN 1 ELSE 0)
  <2> DEFINE H == {j \in Jobs : carries[j] = m}
             E == {i \in 1..Len(capacity_queue) : capacity_queue[i] = m}
  <2>0. m # NoKey
    BY Names
  <2>1. \A i, j \in H : i = j
    BY <1>1, <2>0 DEF IntakeInv, Custody
  <2>2. Cardinality(H) = IF H = {} THEN 0 ELSE 1
    <3> HIDE DEF H
    <3> QED
      BY <2>1, OneOrNone
  <2>3. \A i, j \in E : i = j
    BY <1>1 DEF IntakeInv, Parked
  <2>4. Cardinality(E) = IF E = {} THEN 0 ELSE 1
    <3> HIDE DEF E
    <3> QED
      BY <2>3, OneOrNone
  <2>5. at[m] = "parked" <=> E # {}
    BY <1>1 DEF IntakeInv, Parked
  <2>6. /\ H # {} => inline # m /\ at[m] \in InBody
        /\ inline = m => at[m] \in InBody
        /\ at[m] \in InBody => inline = m \/ H # {}
    BY <1>1, <2>0 DEF IntakeInv, Custody
  <2>7. \A j \in H : stage[j] \in {"queued", "taken"}
    BY <1>1, <2>0 DEF IntakeInv, Custody
  <2>8. {j \in Jobs : carries[j] = m /\ stage[j] \in {"queued", "taken"}} = H
    BY <2>7
  <2>9. Cardinality(H) + (IF inline = m THEN 1 ELSE 0) = (IF at[m] \in InBody THEN 1 ELSE 0)
    <3> HIDE DEF H
    <3> QED
      BY <2>2, <2>6
  <2>10. Cardinality(E) = (IF at[m] = "parked" THEN 1 ELSE 0)
    <3> HIDE DEF E
    <3> QED
      BY <2>4, <2>5
  <2> QED
    BY <2>8, <2>9, <2>10 DEF InBody
<1>2. IntakeInv => OneCustodian
  BY <1>1 DEF OneCustodian
<1> QED
  BY <1>2, IntakeInvAlways, PTL

\* A daemon that may not drain, at any moment.
Calm == ~MayDrain /\ ~draining

\* A delivery whose delegation is on record is never refused by a daemon that does not
\* drain (a draining one may: see the README).
THEOREM RecordedNotRefusedAlways == ~MayDrain => (CreateSpec => RecordedNotRefused)
<1>1. ASSUME ~MayDrain, IntakeInv, [CreateNext]_createVars, NEW m \in Messages,
             Recorded(DelegationOf[m]), at'[m] = "refused", at[m] # "refused"
      PROVE  FALSE
  <2>0. CreateTypeOK /\ ~draining
    BY <1>1 DEF IntakeInv
  <2>1. ASSUME NEW x \in Messages, BodyStep(x)
        PROVE  FALSE
    <3>1. PICK p \in Places : BodyMoves(x, p)
      BY <2>0, <2>1, BodySteps
    <3>2. x = m
      BY <1>1, <3>1 DEF BodyMoves, Moves
    <3>3. ASSUME DrainGate(m)
          PROVE  FALSE
      BY <1>1, <2>0, <3>3, GoMoves DEF DrainGate, Moves
    <3>4. ASSUME CapacityGate(m)
          PROVE  FALSE
      <4>1. Go(m, "arm")
        BY <1>1, <3>4 DEF CapacityGate, PassesGate
      <4> QED
        BY <1>1, <2>0, <4>1, GoMoves DEF Moves
    <3>5. ASSUME DuplicateCheck(m)
          PROVE  FALSE
      BY <1>1, <2>0, <3>5, LeaveMoves, GoMoves DEF DuplicateCheck, Moves
    <3>6. ASSUME LaunchRegisters(m) \/ LaunchFails(m) \/ Acknowledge(m)
          PROVE  FALSE
      BY <1>1, <2>0, <3>6, LeaveMoves, GoMoves DEF LaunchRegisters, LaunchFails, Acknowledge, Moves
    <3> QED
      BY <2>1, <3>2, <3>3, <3>4, <3>5, <3>6 DEF BodyStep
  <2>2. ASSUME NEW x \in Messages, Take(x) \/ ChooseKey(x)
        PROVE  FALSE
    BY <1>1, <2>0, <2>2, TakeIs, ChooseKeyIs DEF TakesUp, ChoosesKey, Moves
  <2>3. ASSUME NEW x \in Messages, EnqueueCreate(x) \/ EnqueueReserved(x)
        PROVE  FALSE
    BY <1>1, <2>3, CreateEnqueues DEF Submits, Moves
  <2>4. ASSUME DrainCapacityQueue
        PROVE  FALSE
    BY <1>1, <2>0, <2>4, DrainIs DEF Moves
  <2>5. ASSUME \E w \in Jobs : ExecutorStep(w)
        PROVE  FALSE
    BY <1>1, <2>5 DEF ExecutorStep, msgVars
  <2>6. ASSUME (\E s \in Messages : SessionEnds(s)) \/ PressureChanges \/ EnterDrain \/ UNCHANGED createVars
        PROVE  FALSE
    BY <1>1, <2>6, OtherSteps DEF createVars, msgVars
  <2> QED
    BY <1>1, <2>1, <2>2, <2>3, <2>4, <2>5, <2>6 DEF CreateNext, LoopStep
<1> DEFINE Refuses == [\A m \in Messages : Recorded(DelegationOf[m]) /\ at'[m] = "refused"
                                               => at[m] = "refused"]_createVars
<1>2. ~MayDrain /\ IntakeInv /\ [CreateNext]_createVars => Refuses
  BY <1>1
<1>3. ~MayDrain /\ CreateInit => Calm
  BY DEF Calm, CreateInit
<1>4. Calm /\ IntakeInv /\ [CreateNext]_createVars => Calm'
  BY DrainsIfItMay DEF Calm
<1>5. Calm /\ IntakeInv /\ [CreateNext]_createVars => Refuses
  BY <1>2 DEF Calm
<1> QED
  BY <1>3, <1>4, <1>5, IntakeInvAlways, PTL DEF CreateSpec, RecordedNotRefused

\* In a ledger with room for every delegation, one that is not on record finds room.
LEMMA RoomInLedger ==
  ASSUME IntakeInv, LedgerSuffices, NEW d \in Delegations, ~Recorded(d)
  PROVE  Len(receipts) < MAX_DELEGATION_RECEIPTS
<1> DEFINE n == Len(receipts)
           f == [i \in 1..n |-> receipts[i].delegation]
<1>1. receipts \in Seq(Receipt) /\ n \in Nat
  BY DEF IntakeInv, CreateTypeOK, Receipt
<1>2. f \in [1..n -> Delegations \ {d}]
  <2>1. \A i \in 1..n : receipts[i] \in Receipt
    BY <1>1
  <2>2. \A i \in 1..n : receipts[i].delegation \in Delegations
    BY <2>1 DEF Receipt
  <2>3. \A i \in 1..n : receipts[i].delegation # d
    BY RecordedIs DEF IntakeInv
  <2> QED
    BY <2>2, <2>3
<1>3. IsFiniteSet(Delegations \ {d}) /\ Cardinality(Delegations \ {d}) = Cardinality(Delegations) - 1
  BY FS_RemoveElement DEF LedgerSuffices
<1>4. IsFiniteSet(1..n) /\ Cardinality(1..n) = n
  <2>1. n \in Nat
    BY <1>1
  <2> HIDE DEF n
  <2>2. IsFiniteSet(1..n) /\ Cardinality(1..n) = IF 1 > n THEN 0 ELSE n - 1 + 1
    BY ONLY <2>1, FS_Interval
  <2> QED
    BY ONLY <2>1, <2>2
<1>5. \A i, h \in 1..n : f[i] = f[h] => i = h
  BY DEF IntakeInv, Ledger
<1> HIDE DEF f, n
<1>6. ~(Cardinality(Delegations \ {d}) < Cardinality(1..n))
  <2> DEFINE S == 1..n
             D == Delegations \ {d}
  <2>1. f \in [S -> D] /\ IsFiniteSet(S) /\ IsFiniteSet(D) /\ \A i, h \in S : f[i] = f[h] => i = h
    BY <1>2, <1>3, <1>4, <1>5
  <2> HIDE DEF S, D
  <2>2. ~(Cardinality(D) < Cardinality(S))
    BY <2>1, FS_PigeonHole
  <2> QED
    BY <2>2 DEF S, D
<1>7. Cardinality(Delegations) \in Nat /\ MAX_DELEGATION_RECEIPTS \in Nat
      /\ Cardinality(Delegations) <= MAX_DELEGATION_RECEIPTS
  BY FS_CardinalityType, CreateAssumption DEF LedgerSuffices
<1>8. n <= Cardinality(Delegations) - 1
  BY <1>1, <1>3, <1>4, <1>6, <1>7
<1> QED
  BY <1>1, <1>7, <1>8 DEF n

\* Acknowledging puts one delegation on record and takes none off.
LEMMA RecordedAfter ==
  ASSUME IntakeInv, LedgerSuffices, NEW d \in Delegations, NEW m \in Messages, ~Recorded(d),
         receipts' = RecordDelegation(d, m)
  PROVE  \A e : Recorded(e)' <=> Recorded(e) \/ e = d
<1>0. CreateTypeOK /\ Len(receipts) < MAX_DELEGATION_RECEIPTS
  BY RoomInLedger DEF IntakeInv
<1> DEFINE new == [delegation |-> d, session |-> m]
<1>1. /\ receipts' \in Seq(Receipt)
      /\ \A i \in 1..Len(receipts') : \/ receipts'[i] = new
                                      \/ \E h \in 1..Len(receipts) : receipts'[i] = receipts[h]
      /\ \E i \in 1..Len(receipts') : receipts'[i] = new
      /\ \A h \in 1..Len(receipts) : \E i \in 1..Len(receipts') : receipts'[i] = receipts[h]
  <2>1. LET R == RecordDelegation(d, m)
        IN  /\ R \in Seq(Receipt)
            /\ \A i \in 1..Len(R) : R[i] = new \/ \E h \in 1..Len(receipts) : R[i] = receipts[h]
            /\ \E i \in 1..Len(R) : R[i] = new
            /\ \A h \in 1..Len(receipts) : \E i \in 1..Len(R) : R[i] = receipts[h]
    BY <1>0, RecordIs
  <2> QED
    BY <2>1, Zenon
<1>2. new.delegation = d
  OBVIOUS
<1> HIDE DEF new
<1>3. SUFFICES ASSUME NEW e
               PROVE  Recorded(e)' <=> Recorded(e) \/ e = d
  OBVIOUS
<1>4. Recorded(e)' <=> \E i \in 1..Len(receipts') : receipts'[i].delegation = e
  BY <1>1 DEF Recorded, ToSet
<1>5. Recorded(e) <=> \E i \in 1..Len(receipts) : receipts[i].delegation = e
  BY <1>0, RecordedIs
<1>6. (\E i \in 1..Len(receipts') : receipts'[i].delegation = e)
        <=> (\E i \in 1..Len(receipts) : receipts[i].delegation = e) \/ e = d
  BY <1>1, <1>2
<1> QED
  BY <1>4, <1>5, <1>6

\* Two bodies of one delegation are never past the drain gate together: the pending
\* delegation gives their jobs one key, and a key has one worker.
LEMMA BodiesExclude ==
  ASSUME IntakeInv, NEW m \in Messages, NEW n \in Messages,
         DelegationOf[m] = DelegationOf[n], DelegationOf[m] # NoDelegation,
         inline # m, inline # n, at[m] \in PastDrainGate, at[n] \in PastDrainGate
  PROVE  m = n
<1> DEFINE d == DelegationOf[m]
<1>1. PICK v \in Jobs : workers[v].pc = "run" /\ carries[workers[v].job] = m
  BY DEF IntakeInv, Custody, Served
<1>2. PICK w \in Jobs : workers[w].pc = "run" /\ carries[workers[w].job] = n
  BY DEF IntakeInv, Custody, Served
<1>3. /\ workers[v].job \in Jobs /\ workers[w].job \in Jobs
      /\ Unsettled(workers[v].job) /\ Unsettled(workers[w].job)
      /\ job[workers[v].job].key = workers[v].key /\ job[workers[w].job].key = workers[w].key
      /\ Active(v) /\ Active(w)
  BY <1>1, <1>2 DEF IntakeInv, IInv, WorkersServe, Active, Unsettled
<1>4. job[workers[v].job].delegation = d /\ job[workers[w].job].delegation = d /\ d \in Delegations
  BY <1>1, <1>2, <1>3, Names DEF IntakeInv, Custody
<1>5. job[workers[v].job].key = delegations[d].key /\ job[workers[w].job].key = delegations[d].key
  BY <1>3, <1>4 DEF IntakeInv, IInv, DelegationsPairUp
<1>6. v = w
  BY <1>3, <1>5 DEF IntakeInv, IInv, OneWorkerPerKey
<1> QED
  BY <1>1, <1>2, <1>6

\* Steps that record nothing.
LEMMA OneLaunchKept ==
  ASSUME IntakeInv, OneLaunch, UNCHANGED receipts,
         \A x \in Messages :
           at'[x] = "started" => at[x] = "started" \/ DelegationOf[x] = NoDelegation,
         \A x \in Messages :
           at'[x] \in {"launch", "ack"} => at[x] \in {"launch", "ack"} \/ ~Recorded(DelegationOf[x]),
         inline' # NoKey => inline' = inline \/ Recorded(DelegationOf[inline'])
  PROVE  OneLaunch'
<1>1. \A d : Recorded(d)' <=> Recorded(d)
  BY DEF Recorded
<1> QED
  BY <1>1 DEF OneLaunch

\* A body step: the launch of one delivery keeps every other out until its receipt is
\* written, and then the receipt does.
LEMMA OneLaunchBody ==
  ASSUME IntakeInv, LedgerSuffices, OneLaunch, NEW m \in Messages, BodyStep(m)
  PROVE  OneLaunch'
<1>0. CreateTypeOK
  BY DEF IntakeInv
<1>1. PICK p \in Places : BodyMoves(m, p)
  BY <1>0, BodySteps
<1>2. (\A x \in Messages : x # m => at'[x] = at[x]) /\ at'[m] = p
      /\ (inline' # NoKey => inline' = inline)
  BY <1>1 DEF BodyMoves, Moves, Keeps, Drops
<1>3. CASE Acknowledge(m)
  <2> DEFINE d == DelegationOf[m]
  <2>1. at[m] = "ack" /\ receipts' = RecordDelegation(d, m) /\ at'[m] = "started"
    BY <1>0, <1>3, LeaveMoves DEF Acknowledge, Moves
  <2>2. d \in Delegations /\ d # NoDelegation /\ ~Recorded(d)
    BY <2>1, Names DEF IntakeInv, Ledger, OneLaunch
  <2>3. \A e : Recorded(e)' <=> Recorded(e) \/ e = d
    BY <2>1, <2>2, RecordedAfter
  <2>4. ASSUME NEW n \in Messages, at'[n] \in {"launch", "ack"}, DelegationOf[n] = d
        PROVE  FALSE
    <3>1. n # m /\ at[n] \in {"launch", "ack"}
      BY <1>2, <2>1, <2>4
    <3>2. inline # m /\ inline # n
      BY <2>2, <2>4, Names DEF OneLaunch
    <3> QED
      BY <2>1, <2>2, <2>4, <3>1, <3>2, BodiesExclude DEF PastDrainGate
  <2>5. ASSUME NEW n \in Messages, at[n] = "started", DelegationOf[n] = d
        PROVE  FALSE
    BY <2>2, <2>5 DEF OneLaunch
  <2>6. \A x \in Messages :
          at'[x] = "started" /\ DelegationOf[x] # NoDelegation => Recorded(DelegationOf[x])'
    BY <1>2, <2>3 DEF OneLaunch
  <2>7. \A x \in Messages : at'[x] \in {"launch", "ack"} => ~Recorded(DelegationOf[x])'
    <3>1. SUFFICES ASSUME NEW x \in Messages, at'[x] \in {"launch", "ack"}
                   PROVE  ~Recorded(DelegationOf[x])'
      OBVIOUS
    <3>2. DelegationOf[x] # d
      BY <2>4, <3>1
    <3>3. ~Recorded(DelegationOf[x])
      BY <1>2, <2>1, <3>1 DEF OneLaunch
    <3> QED
      BY <2>3, <3>2, <3>3
  <2>8. (inline # NoKey => Recorded(DelegationOf[inline]))'
    <3>1. SUFFICES ASSUME inline' # NoKey
                   PROVE  Recorded(DelegationOf[inline])'
      OBVIOUS
    <3>2. inline' = inline /\ Recorded(DelegationOf[inline])
      BY <1>2, <3>1 DEF OneLaunch
    <3>3. \A e : Recorded(e) => Recorded(e)'
      BY <2>3
    <3> QED
      BY <3>2, <3>3 DEF Recorded
  <2>9. \A x, y \in Messages :
          /\ at'[x] = "started" /\ at'[y] = "started"
          /\ DelegationOf[x] = DelegationOf[y] /\ DelegationOf[x] # NoDelegation
          => x = y
    BY <1>2, <2>5 DEF OneLaunch
  <2> QED
    BY <2>6, <2>7, <2>8, <2>9 DEF OneLaunch
<1>4. CASE ~Acknowledge(m)
  <2>1. UNCHANGED receipts
    BY <1>4 DEF BodyStep, DrainGate, CapacityGate, DuplicateCheck, LaunchRegisters, LaunchFails,
                stateVars
  <2>2. at'[m] = "started" => DelegationOf[m] = NoDelegation
    BY <1>0, <1>4, GoMoves, LeaveMoves
       DEF BodyStep, DrainGate, CapacityGate, DuplicateCheck, LaunchRegisters, LaunchFails, Moves
  <2>3. at'[m] \in {"launch", "ack"} => at[m] \in {"launch", "ack"} \/ ~Recorded(DelegationOf[m])
    BY <1>0, <1>4, GoMoves, LeaveMoves
       DEF BodyStep, DrainGate, CapacityGate, DuplicateCheck, LaunchRegisters, LaunchFails, Moves
  <2> QED
    BY <1>2, <2>1, <2>2, <2>3, OneLaunchKept
<1> QED
  BY <1>3, <1>4

\* Every step keeps the launches of a delegation apart.
LEMMA OneLaunchStep ==
  ASSUME IntakeInv, LedgerSuffices, OneLaunch, [CreateNext]_createVars
  PROVE  OneLaunch'
<1>0. CreateTypeOK
  BY DEF IntakeInv
<1>1. ASSUME NEW m \in Messages, Take(m)
      PROVE  OneLaunch'
  <2>1. TakesUp(m)
    BY <1>0, <1>1, TakeIs
  <2>2. UNCHANGED receipts /\ \A x \in Messages : at'[x] = at[x] \/ at'[x] \in {"body", "checked"}
    BY <2>1 DEF TakesUp, Moves, stateVars
  <2>3. inline' = inline \/ Recorded(DelegationOf[inline'])
    BY <2>1 DEF TakesUp
  <2> QED
    BY <2>2, <2>3, OneLaunchKept
<1>2. ASSUME NEW m \in Messages, ChooseKey(m)
      PROVE  OneLaunch'
  <2>1. ChoosesKey(m)
    BY <1>0, <1>2, ChooseKeyIs
  <2>2. UNCHANGED <<receipts, inline>> /\ \A x \in Messages : at'[x] = at[x] \/ at'[x] = "keyed"
    BY <2>1 DEF ChoosesKey, Moves, stateVars
  <2> QED
    BY <2>2, OneLaunchKept
<1>3. ASSUME NEW m \in Messages, EnqueueCreate(m) \/ EnqueueReserved(m)
      PROVE  OneLaunch'
  <2>1. UNCHANGED <<receipts, inline>> /\ \A x \in Messages : at'[x] = at[x] \/ at'[x] = "body"
    BY <1>3, CreateEnqueues DEF Submits, Moves, stateVars
  <2> QED
    BY <2>1, OneLaunchKept
<1>4. ASSUME DrainCapacityQueue
      PROVE  OneLaunch'
  <2>1. UNCHANGED <<receipts, inline>> /\ \A x \in Messages : at'[x] = at[x] \/ at'[x] = "released"
    BY <1>0, <1>4, DrainIs DEF Moves
  <2> QED
    BY <2>1, OneLaunchKept
<1>5. ASSUME \E w \in Jobs : ExecutorStep(w)
      PROVE  OneLaunch'
  <2>1. UNCHANGED <<receipts, inline, at>>
    BY <1>5 DEF ExecutorStep, msgVars, stateVars
  <2> QED
    BY <2>1, OneLaunchKept
<1>6. ASSUME (\E s \in Messages : SessionEnds(s)) \/ PressureChanges \/ EnterDrain \/ UNCHANGED createVars
      PROVE  OneLaunch'
  <2>1. UNCHANGED <<receipts, inline, at>>
    BY <1>6, OtherSteps DEF createVars, msgVars, stateVars
  <2> QED
    BY <2>1, OneLaunchKept
<1> QED
  BY <1>1, <1>2, <1>3, <1>4, <1>5, <1>6, OneLaunchBody DEF CreateNext, LoopStep

\* The invariant with a ledger that keeps every delegation's receipt.
LaunchInv == LedgerSuffices /\ IntakeInv /\ OneLaunch

\* With room in the ledger for every delegation, a delegation is being launched or on
\* record, never both, and was launched once.
THEOREM LaunchInvAlways == LedgerSuffices => (CreateSpec => []LaunchInv)
<1>1. LedgerSuffices /\ CreateInit => LaunchInv
  BY IntakeInvInit, Names DEF LaunchInv, CreateInit, OneLaunch
<1>2. LaunchInv /\ [CreateNext]_createVars => LaunchInv'
  BY IntakeInvStep, OneLaunchStep DEF LaunchInv, LedgerSuffices
<1> QED
  BY <1>1, <1>2, PTL DEF CreateSpec

\* Of the deliveries of a delegation one at most is launched, however retries, bodies,
\* receipts and acknowledgements interleave (as long as no receipt is evicted).
THEOREM OneSessionPerDelegationAlways == LedgerSuffices => (CreateSpec => []OneSessionPerDelegation)
<1>1. ASSUME LaunchInv, NEW m \in Messages, NEW n \in Messages,
             DelegationOf[m] = DelegationOf[n], DelegationOf[m] # NoDelegation,
             at[m] \in {"ack", "started"}, at[n] \in {"ack", "started"}
      PROVE  m = n
  <2>1. CASE at[m] = "ack" /\ at[n] = "ack"
    <3>1. inline # m /\ inline # n
      BY <1>1, <2>1, Names DEF LaunchInv, OneLaunch
    <3> QED
      BY <1>1, <2>1, <3>1, BodiesExclude DEF LaunchInv, PastDrainGate
  <2>2. CASE at[m] = "started" /\ at[n] = "started"
    BY <1>1, <2>2 DEF LaunchInv, OneLaunch
  <2>3. CASE (at[m] = "started" /\ at[n] = "ack") \/ (at[m] = "ack" /\ at[n] = "started")
    BY <1>1, <2>3 DEF LaunchInv, OneLaunch
  <2> QED
    BY <1>1, <2>1, <2>2, <2>3
<1>2. LaunchInv => OneSessionPerDelegation
  BY <1>1 DEF OneSessionPerDelegation
<1> QED
  BY <1>2, LaunchInvAlways, PTL

\* All receipts sent for a delegation name the one session launched for it.
THEOREM AcksAgreeAlways == LedgerSuffices => (CreateSpec => []AcksAgree)
<1>1. ASSUME LaunchInv, NEW a \in acks, NEW b \in acks
      PROVE  /\ a.delegation = b.delegation => a.session = b.session
             /\ DelegationOf[a.session] = a.delegation /\ at[a.session] = "started"
  <2>1. /\ a.session \in Messages /\ b.session \in Messages /\ a.delegation \in Delegations
        /\ DelegationOf[a.session] = a.delegation /\ at[a.session] = "started"
        /\ DelegationOf[b.session] = b.delegation /\ at[b.session] = "started"
    BY <1>1, LedgerSessions DEF LaunchInv, IntakeInv, Ledger, CreateTypeOK
  <2> QED
    BY <1>1, <2>1, Names DEF LaunchInv, OneLaunch
<1>2. LaunchInv => AcksAgree
  BY <1>1 DEF AcksAgree
<1> QED
  BY <1>2, LaunchInvAlways, PTL

------------------------------------------------------------------------------
(* How far admissions overshoot the bound.                                    *)

\* The creates past the drain gate that are not duplicates of a recorded delegation.
Serving == {m \in Messages : at[m] \in PastDrainGate /\ ~Recorded(DelegationOf[m])}

\* Each has a worker with a launch permit of its own (the loop answers recorded
\* duplicates only), so there are no more of them than permits.
LEMMA ServingIsBounded ==
  ASSUME IntakeInv, OneLaunch
  PROVE  IsFiniteSet(Serving) /\ Cardinality(Serving) <= MAX_CONCURRENT_LAUNCH_BODIES
<1> DEFINE Carrier(m) == CHOOSE w \in Jobs : workers[w].pc = "run" /\ carries[workers[w].job] = m
           f == [m \in Serving |-> Carrier(m)]
<1>1. ASSUME NEW m \in Serving
      PROVE  /\ Carrier(m) \in Jobs
             /\ workers[Carrier(m)].pc = "run" /\ carries[workers[Carrier(m)].job] = m
  <2>1. m \in Messages /\ Served(m) /\ inline # m
    BY <1>1, Names DEF Serving, IntakeInv, Custody, OneLaunch
  <2>2. \E w \in Jobs : workers[w].pc = "run" /\ carries[workers[w].job] = m
    BY <2>1 DEF Served
  <2> QED
    BY <2>2
<1>2. ASSUME NEW m \in Serving
      PROVE  Carrier(m) \in RunningHeavy
  <2>1. m # NoKey
    BY Names DEF Serving
  <2>2. workers[Carrier(m)].job \in Jobs
    BY <1>1 DEF IntakeInv, IInv, WorkersServe, Active
  <2>3. job[workers[Carrier(m)].job].heavy
    <3> DEFINE j == workers[Carrier(m)].job
    <3>1. j \in Jobs /\ carries[j] = m
      BY <1>1, <2>2
    <3>2. \A i \in Jobs : carries[i] # NoKey => job[i].heavy
      BY DEF IntakeInv, Custody
    <3> HIDE DEF j
    <3>3. job[j].heavy
      BY ONLY <2>1, <3>1, <3>2
    <3> QED
      BY <3>3 DEF j
  <2> QED
    BY <1>1, <2>3 DEF RunningHeavy, Running
<1>3. f \in [Serving -> RunningHeavy]
  BY <1>2
<1>4. \A a, b \in Serving : f[a] = f[b] => a = b
  BY <1>1
<1> HIDE DEF f, Carrier
<1>5. f \in Injection(Serving, RunningHeavy)
  BY <1>3, <1>4, Fun_IsInj
<1>6. IsFiniteSet(RunningHeavy)
  <2>1. RunningHeavy \in SUBSET Jobs
    BY DEF RunningHeavy
  <2> QED
    BY <2>1, JobsAssumption, FS_Subset
<1>7. Cardinality(RunningHeavy) <= MAX_CONCURRENT_LAUNCH_BODIES
  <2>1. permits + Cardinality(RunningHeavy) = MAX_CONCURRENT_LAUNCH_BODIES /\ permits \in Nat
    BY DEF IntakeInv, IInv, PermitsConserved, TypeOK
  <2>2. Cardinality(RunningHeavy) \in Nat
    BY <1>6, FS_CardinalityType
  <2> QED
    BY <2>1, <2>2
<1>8. IsFiniteSet(Serving) /\ Cardinality(Serving) <= Cardinality(RunningHeavy)
  BY <1>5, <1>6, FS_Injection
<1>9. Cardinality(Serving) \in Nat /\ Cardinality(RunningHeavy) \in Nat
  BY <1>6, <1>8, FS_CardinalityType
<1> QED
  BY <1>7, <1>8, <1>9, LaunchBoundAssumption

\* With fewer sessions and fewer admissions the sum is no larger.
LEMMA BoundedShrinks ==
  ASSUME Bounded, sessions' \subseteq sessions, Admitted' \subseteq Admitted
  PROVE  Bounded'
<1>1. /\ IsFiniteSet(sessions') /\ Cardinality(sessions') <= Cardinality(sessions)
      /\ IsFiniteSet(Admitted') /\ Cardinality(Admitted') <= Cardinality(Admitted)
  BY FS_Subset DEF Bounded
<1>2. /\ Cardinality(sessions) \in Nat /\ Cardinality(sessions') \in Nat
      /\ Cardinality(Admitted) \in Nat /\ Cardinality(Admitted') \in Nat
  BY <1>1, FS_CardinalityType DEF Bounded
<1> QED
  BY <1>1, <1>2, CreateAssumption, LaunchBoundAssumption DEF Bounded

\* Steps that take no message past the gate, register no session and lose no receipt.
LEMMA BoundedKept ==
  ASSUME Bounded, sessions' \subseteq sessions, UNCHANGED receipts,
         \A x \in Messages : at'[x] \in {"arm", "launch"} => at'[x] = at[x]
  PROVE  Bounded'
<1>1. \A x \in Messages : Recorded(DelegationOf[x])' <=> Recorded(DelegationOf[x])
  BY DEF Recorded
<1>2. Admitted' \subseteq Admitted
  BY <1>1 DEF Admitted
<1> QED
  BY <1>2, BoundedShrinks

\* A body step: what the gate lets in is counted from then on, and a launch moves from
\* the admissions to the sessions.
LEMMA BoundedBody ==
  ASSUME IntakeInv, LedgerSuffices, OneLaunch, Bounded, NEW m \in Messages, BodyStep(m)
  PROVE  Bounded'
<1>0. CreateTypeOK
  BY DEF IntakeInv
<1>1. PICK p \in Places : BodyMoves(m, p)
  BY <1>0, BodySteps
<1>2. (\A x \in Messages : x # m => at'[x] = at[x]) /\ at'[m] = p
  BY <1>1 DEF BodyMoves, Moves
<1>3. CASE DrainGate(m)
  <2>1. UNCHANGED <<sessions, receipts>> /\ at'[m] \in {"refused", "capacity"}
    BY <1>0, <1>3, GoMoves, LeaveMoves DEF DrainGate, Moves, stateVars
  <2> QED
    BY <1>2, <2>1, BoundedKept
<1>4. CASE CapacityGate(m) /\ (PassesGate(m) \/ ~Admit)
  <2>1. UNCHANGED <<sessions, receipts>>
    BY <1>4 DEF CapacityGate
  <2>2. Recorded(DelegationOf[m]) \/ at'[m] \in {"refused", "parked"}
    BY <1>0, <1>4, LeaveMoves DEF CapacityGate, Moves, PassesGate
  <2>3. \A x \in Messages : Recorded(DelegationOf[x])' <=> Recorded(DelegationOf[x])
    BY <2>1 DEF Recorded
  <2>4. Admitted' \subseteq Admitted
    BY <1>2, <2>2, <2>3 DEF Admitted
  <2> QED
    BY <2>1, <2>4, BoundedShrinks
<1>5. CASE CapacityGate(m) /\ ~PassesGate(m) /\ Admit
  <2>1. UNCHANGED <<sessions, receipts>> /\ at[m] = "capacity" /\ ~Recorded(DelegationOf[m])
    BY <1>5 DEF CapacityGate, PassesGate
  <2>2. \A x \in Messages : Recorded(DelegationOf[x])' <=> Recorded(DelegationOf[x])
    BY <2>1 DEF Recorded
  <2>3. Admitted' \subseteq Serving
    BY <1>2, <2>1, <2>2 DEF Admitted, Serving, PastDrainGate
  <2>4. IsFiniteSet(Admitted') /\ Cardinality(Admitted') <= Cardinality(Serving)
    BY <2>3, ServingIsBounded, FS_Subset
  <2>5. Cardinality(Admitted') \in Nat /\ Cardinality(Serving) \in Nat /\ Cardinality(sessions) \in Nat
    BY <2>4, ServingIsBounded, FS_CardinalityType DEF Bounded
  <2>6. Cardinality(sessions) < BOUND
    BY <1>5 DEF Admit
  <2>7. Cardinality(sessions) + Cardinality(Admitted') <= BOUND - 1 + MAX_CONCURRENT_LAUNCH_BODIES
    BY <2>4, <2>5, <2>6, ServingIsBounded, CreateAssumption, LaunchBoundAssumption
  <2> QED
    BY <2>1, <2>4, <2>7 DEF Bounded
<1>6. CASE DuplicateCheck(m)
  <2>1. UNCHANGED <<sessions, receipts>> /\ at[m] = "arm"
    BY <1>6 DEF DuplicateCheck
  <2>2. \A x \in Messages : Recorded(DelegationOf[x])' <=> Recorded(DelegationOf[x])
    BY <2>1 DEF Recorded
  <2>3. Admitted' \subseteq Admitted
    BY <1>2, <2>1, <2>2 DEF Admitted
  <2> QED
    BY <2>1, <2>3, BoundedShrinks
<1>7. CASE LaunchRegisters(m)
  <2>1. /\ UNCHANGED receipts /\ sessions' = sessions \cup {m} /\ at[m] = "launch"
        /\ at'[m] \in {"started", "ack"}
    BY <1>0, <1>7, GoMoves, LeaveMoves DEF LaunchRegisters, Moves
  <2>2. \A x \in Messages : Recorded(DelegationOf[x])' <=> Recorded(DelegationOf[x])
    BY <2>1 DEF Recorded
  <2>3. m \in Admitted
    BY <2>1 DEF Admitted, OneLaunch
  <2>4. Admitted' = Admitted \ {m}
    BY <1>2, <2>1, <2>2 DEF Admitted
  <2>5. /\ IsFiniteSet(sessions')
        /\ Cardinality(sessions') = Cardinality(sessions) \/ Cardinality(sessions') = Cardinality(sessions) + 1
    BY <2>1, FS_AddElement DEF Bounded
  <2>6. IsFiniteSet(Admitted') /\ Cardinality(Admitted') = Cardinality(Admitted) - 1
    BY <2>3, <2>4, FS_RemoveElement DEF Bounded
  <2>7. Cardinality(sessions) \in Nat /\ Cardinality(Admitted) \in Nat
    BY FS_CardinalityType DEF Bounded
  <2> QED
    BY <2>5, <2>6, <2>7, CreateAssumption, LaunchBoundAssumption DEF Bounded
<1>8. CASE LaunchFails(m)
  <2>1. UNCHANGED <<sessions, receipts>> /\ at'[m] = "failed"
    BY <1>0, <1>8, LeaveMoves DEF LaunchFails, Moves, stateVars
  <2> QED
    BY <1>2, <2>1, BoundedKept
<1>9. CASE Acknowledge(m)
  <2> DEFINE d == DelegationOf[m]
  <2>1. UNCHANGED sessions /\ at[m] = "ack" /\ receipts' = RecordDelegation(d, m) /\ at'[m] = "started"
    BY <1>0, <1>9, LeaveMoves DEF Acknowledge, Moves
  <2>2. d \in Delegations /\ ~Recorded(d)
    BY <2>1, Names DEF IntakeInv, Ledger, OneLaunch
  <2>3. \A e : Recorded(e) => Recorded(e)'
    BY <2>1, <2>2, RecordedAfter
  <2>4. Admitted' \subseteq Admitted
    BY <1>2, <2>1, <2>3 DEF Admitted
  <2> QED
    BY <2>1, <2>4, BoundedShrinks
<1> QED
  BY <1>3, <1>4, <1>5, <1>6, <1>7, <1>8, <1>9 DEF BodyStep, CapacityGate

\* Every step keeps the count of sessions and admissions within the bound.
LEMMA BoundedStep ==
  ASSUME IntakeInv, LedgerSuffices, OneLaunch, Bounded, [CreateNext]_createVars
  PROVE  Bounded'
<1>0. CreateTypeOK
  BY DEF IntakeInv
<1>1. ASSUME NEW m \in Messages, Take(m) \/ ChooseKey(m) \/ EnqueueCreate(m) \/ EnqueueReserved(m)
      PROVE  Bounded'
  <2>1. UNCHANGED <<sessions, receipts>>
    BY <1>1 DEF Take, ChooseKey, EnqueueCreate, EnqueueReserved, stateVars
  <2>2. \A x \in Messages : at'[x] = at[x] \/ at'[x] \in {"body", "checked", "keyed"}
    BY <1>0, <1>1, TakeIs, ChooseKeyIs, CreateEnqueues DEF TakesUp, ChoosesKey, Submits, Moves
  <2> QED
    BY <2>1, <2>2, BoundedKept
<1>2. ASSUME DrainCapacityQueue
      PROVE  Bounded'
  <2>1. UNCHANGED <<sessions, receipts>> /\ \A x \in Messages : at'[x] = at[x] \/ at'[x] = "released"
    BY <1>0, <1>2, DrainIs DEF Moves
  <2> QED
    BY <2>1, BoundedKept
<1>3. ASSUME (\E w \in Jobs : ExecutorStep(w)) \/ PressureChanges \/ EnterDrain \/ UNCHANGED createVars
      PROVE  Bounded'
  <2>1. UNCHANGED <<sessions, receipts, at>>
    BY <1>3 DEF ExecutorStep, PressureChanges, EnterDrain, createVars, msgVars, stateVars
  <2> QED
    BY <2>1, BoundedKept
<1>4. ASSUME NEW s \in Messages, SessionEnds(s)
      PROVE  Bounded'
  <2>1. UNCHANGED <<receipts, at>> /\ sessions' \subseteq sessions
    BY <1>4 DEF SessionEnds, msgVars
  <2> QED
    BY <2>1, BoundedKept
<1> QED
  BY <1>1, <1>2, <1>3, <1>4, BoundedBody DEF CreateNext, LoopStep

\* The residents never exceed the bound by more than the launch permits, less one: an
\* admission sees a free slot, and no more admissions are under way than permits.
THEOREM OvershootIsBoundedAlways == LedgerSuffices => (CreateSpec => []OvershootIsBounded)
<1>1. LedgerSuffices /\ CreateInit => LaunchInv /\ Bounded
  <2>1. SUFFICES ASSUME LedgerSuffices, CreateInit
                 PROVE  LaunchInv /\ Bounded
    OBVIOUS
  <2>2. LaunchInv
    BY <2>1, IntakeInvInit, Names DEF LaunchInv, CreateInit, OneLaunch
  <2>3. sessions = {} /\ Admitted = {}
    BY <2>1 DEF CreateInit, Admitted
  <2> QED
    BY <2>2, <2>3, FS_EmptySet, CreateAssumption, LaunchBoundAssumption DEF Bounded
<1>2. LaunchInv /\ Bounded /\ [CreateNext]_createVars => (LaunchInv /\ Bounded)'
  BY IntakeInvStep, OneLaunchStep, BoundedStep DEF LaunchInv, LedgerSuffices
<1>3. Bounded => OvershootIsBounded
  <2>1. Bounded => Cardinality(sessions) \in Nat /\ Cardinality(Admitted) \in Nat
    BY FS_CardinalityType DEF Bounded
  <2> QED
    BY <2>1, CreateAssumption, LaunchBoundAssumption DEF Bounded, OvershootIsBounded
<1> QED
  BY <1>1, <1>2, <1>3, PTL DEF CreateSpec
==============================================================================
