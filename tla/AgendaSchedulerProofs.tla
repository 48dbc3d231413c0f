------------------------ MODULE AgendaSchedulerProofs ------------------------
(***************************************************************************)
(* What AgendaScheduler promises for every number of process lives,        *)
(* occurrences and sessions, and every value of the other constants.       *)
(*                                                                         *)
(* The lease: mutual exclusion, and generations that outrank every row.    *)
(* First the operations of SchedulerLease alone, over any floor; then that *)
(* every step of the scheduler, the supervisor and the owner is one of     *)
(* them or leaves the lease alone, with floors that are natural numbers.   *)
(*                                                                         *)
(* The runs: what the journal and a task's memory say of each other.       *)
(* FiringInv holds of any number of daemons and gives FiringIsHolders;     *)
(* RunsInv, over it, of one daemon at a time, and gives                    *)
(* MemoryMatchesJournal, FiresAtMostOnce and CompletedStays.  A step of a  *)
(* task is a handler, which moves its memory and owes writes (Handles), or *)
(* one of the writes owed (Write); every other step is another actor's     *)
(* (Elsewhere) or begins or ends a process life.                           *)
(***************************************************************************)
EXTENDS AgendaScheduler, FilteringProofs, TLAPS

-----------------------------------------------------------------------------
(* The lease.                                                              *)

\* The flock is never left behind by a process that is gone.
HolderLives == holder # NoBoot => Live(holder)

LeaseInv == LeaseTypeOK /\ HolderIsReal /\ HolderLives

\* The generations that the lease itself has handed out are at most the sidecar's.
HeldRanked == \A b \in Boots : held[b] <= sidecar

\* No process holds the lease at the start (LeaseInit).
LEMMA LeaseInitially == LeaseInit => LeaseInv /\ HeldRanked
BY BootsAssumption DEF LeaseInit, LeaseInv, LeaseTypeOK, HolderIsReal, HolderLives, HeldRanked, NoBoot, Live

\* A free flock taken over a natural floor keeps mutual exclusion (try_acquire).
LEMMA AcquireKeeps ==
    ASSUME LeaseInv, NEW b \in Boots, NEW floor \in Nat, Acquire(b, floor),
           process' \in [Boots -> {"new", "up", "gone"}],
           process'[b] = "up", \A a \in Boots \ {b} : process'[a] = process[a],
           UNCHANGED <<draining, duty>>
    PROVE  /\ LeaseInv'
           /\ sidecar' > sidecar /\ sidecar' > floor /\ held'[b] = sidecar'
           /\ \A a \in Boots \ {b} : held'[a] = held[a]
<1>1. /\ NextGeneration(floor) \in Nat \ {0}
      /\ NextGeneration(floor) > sidecar /\ NextGeneration(floor) > floor
  BY DEF NextGeneration, LeaseInv, LeaseTypeOK
<1>2. \A a \in Boots : held[a] = 0
  BY BootsAssumption DEF Acquire, LeaseInv, LeaseTypeOK, HolderIsReal, NoBoot
<1>3. LeaseTypeOK'
  BY <1>1 DEF Acquire, LeaseInv, LeaseTypeOK
<1>4. HolderIsReal' /\ HolderLives'
  BY <1>1, <1>2, BootsAssumption DEF Acquire, HolderIsReal, HolderLives, Live, LeaseInv, LeaseTypeOK
<1> QED
  BY <1>1, <1>3, <1>4 DEF Acquire, LeaseInv, LeaseTypeOK

\* HandoverRuntime::initialize
LEMMA InitializeKeeps ==
    ASSUME LeaseInv, NEW b \in Boots, NEW floor \in Nat, Initialize(b, floor)
    PROVE  /\ LeaseInv'
           /\ HeldRanked => HeldRanked'
           /\ sidecar' >= sidecar
           /\ held[b] = 0 /\ held'[b] > 0 => held'[b] > floor /\ held'[b] > sidecar
           /\ \A a \in Boots \ {b} : held'[a] = held[a]
<1>1. CASE Acquire(b, floor)
  <2>1. /\ process' \in [Boots -> {"new", "up", "gone"}]
        /\ process'[b] = "up" /\ \A a \in Boots \ {b} : process'[a] = process[a]
        /\ UNCHANGED <<draining, duty>>
    BY DEF Initialize, LeaseInv, LeaseTypeOK
  <2> QED
    BY <1>1, <2>1, AcquireKeeps DEF HeldRanked, LeaseInv, LeaseTypeOK
<1>2. CASE holder # NoBoot /\ UNCHANGED <<holder, sidecar, held>>
  <2>1. held[b] = 0 /\ holder # b
    BY <1>2 DEF Initialize, LeaseInv, LeaseTypeOK, HolderIsReal, HolderLives, Live
  <2>2. LeaseTypeOK'
    BY <1>2 DEF Initialize, LeaseInv, LeaseTypeOK
  <2>3. HolderIsReal' /\ HolderLives'
    BY <1>2, <2>1 DEF Initialize, LeaseInv, LeaseTypeOK, HolderIsReal, HolderLives, Live
  <2> QED
    BY <1>2, <2>1, <2>2, <2>3 DEF LeaseInv, LeaseTypeOK, HeldRanked
<1> QED
  BY <1>1, <1>2 DEF Initialize

\* poll_acquire
LEMMA PollAcquireKeeps ==
    ASSUME LeaseInv, NEW b \in Boots, NEW floor \in Nat, PollAcquire(b, floor)
    PROVE  /\ LeaseInv'
           /\ HeldRanked => HeldRanked'
           /\ sidecar' >= sidecar /\ held'[b] \in Nat /\ held'[b] <= sidecar'
           /\ held'[b] > floor /\ held'[b] > sidecar
           /\ \A a \in Boots \ {b} : held'[a] = held[a]
BY AcquireKeeps DEF PollAcquire, HeldRanked, LeaseInv, LeaseTypeOK, Live

\* request_drain, take_drain_entry_duty and perform_drain_entry, a process that ends
LEMMA GivingUpKeeps ==
    ASSUME LeaseInv, NEW b \in Boots,
           (\E attached \in BOOLEAN : RequestDrain(b, attached)) \/ PerformDrainEntry(b) \/ Die(b)
    PROVE  /\ LeaseInv' /\ sidecar' = sidecar
           /\ \A a \in Boots : held'[a] \in {held[a], 0}
<1>1. CASE \E attached \in BOOLEAN : RequestDrain(b, attached)
  <2>1. /\ draining' = [draining EXCEPT ![b] = TRUE]
        /\ \/ duty' = [duty EXCEPT ![b] = TRUE] /\ UNCHANGED <<process, holder, sidecar, held>>
           \/ Release(b) /\ UNCHANGED duty
    BY <1>1 DEF RequestDrain
  <2>a. CASE duty' = [duty EXCEPT ![b] = TRUE] /\ UNCHANGED <<process, holder, sidecar, held>>
    BY <2>1, <2>a DEF LeaseInv, LeaseTypeOK, HolderIsReal, HolderLives, Live
  <2>b. CASE Release(b) /\ UNCHANGED duty
    <3>1. LeaseTypeOK' /\ sidecar' = sidecar /\ \A a \in Boots : held'[a] \in {held[a], 0}
      BY <2>1, <2>b DEF Release, LeaseInv, LeaseTypeOK
    <3>2. HolderIsReal' /\ HolderLives'
      BY <2>1, <2>b, BootsAssumption DEF Release, LeaseInv, LeaseTypeOK, HolderIsReal, HolderLives, Live, NoBoot
    <3> QED
      BY <3>1, <3>2 DEF LeaseInv
  <2> QED
    BY <2>1, <2>a, <2>b
<1>2. CASE PerformDrainEntry(b)
  BY <1>2, BootsAssumption
     DEF PerformDrainEntry, Release, LeaseInv, LeaseTypeOK, HolderIsReal, HolderLives, Live, NoBoot
<1>3. CASE Die(b)
  BY <1>3, BootsAssumption
     DEF Die, LeaseInv, LeaseTypeOK, HolderIsReal, HolderLives, Live, NoBoot
<1> QED
  BY <1>1, <1>2, <1>3

\* lease.json lost
LEMMA LoseSidecarKeeps ==
    ASSUME LeaseInv, LoseSidecar
    PROVE  LeaseInv' /\ UNCHANGED held
BY DEF LoseSidecar, LeaseInv, LeaseTypeOK, HolderIsReal, HolderLives, Live

-----------------------------------------------------------------------------
(* The scheduler task's record: only two of its fields matter here.        *)

IsTask(t) == "stamp" \in DOMAIN t /\ "fold" \in DOMAIN t
Same(t, u) == IsTask(u) /\ u.stamp = t.stamp /\ u.fold = t.fold
Mild(t, u) == IsTask(u) /\ u.stamp = t.stamp /\ (u.fold = t.fold \/ u.fold = journal)

\* Every verdict on a session leaves the generation and the fold alone
\* (complete_running, fail_running, rekey, classify_ended_running_session).
LEMMA VerdictsKeep ==
    ASSUME NEW t, IsTask(t), NEW s, NEW u, NEW state
    PROVE  Same(t, Concluded(t, s, state)) /\ Same(t, Followed(t, s, u)) /\ Same(t, Classified(t, s))
<1>1. \A state1 : Same(t, Concluded(t, s, state1))
  BY DEF Same, IsTask, Concluded
<1>2. \A u1 : Same(t, Followed(t, s, u1))
  BY DEF Same, IsTask, Followed
<1>3. Same(t, [t EXCEPT !.ended = @ \cup {s}, !.claim = NoSession])
  BY DEF Same, IsTask
<1>4. Same(t, Classified(t, s))
  BY <1>1, <1>2, <1>3 DEF Classified
<1> QED
  BY <1>1, <1>2, <1>4

\* So does the handling of an event (observe_event).
LEMMA ObservedKeeps ==
    ASSUME NEW t, IsTask(t), NEW e
    PROVE  Same(t, Observed(t, e))
<1>1. Same(t, Received(t, e.session))
  BY DEF Same, IsTask, Received
<1>2. Same(t, [t EXCEPT !.early = Remembered(@, e)])
  BY DEF Same, IsTask
<1> QED
  BY <1>1, <1>2, VerdictsKeep DEF Observed

\* So does acting on a plan (dispatch_governed, resolve_spawnless).
LEMMA ActedKeeps ==
    ASSUME NEW t, IsTask(t), NEW u \in Acted(t)
    PROVE  Same(t, u)
<1>1. PICK go : u = ActOn(t, go)
  BY DEF Acted
<1> QED
  BY <1>1 DEF ActOn, Same, IsTask

-----------------------------------------------------------------------------
(* The steps.                                                              *)

\* Every generation that may become a floor or a stamp is a natural number.
Numbered ==
    /\ DOMAIN sched = Boots
    /\ journal.generation \in Nat
    /\ \A b \in Boots : /\ IsTask(sched[b])
                        /\ sched[b].stamp \in Nat
                        /\ sched[b].fold.generation \in Nat

\* As long as the sidecar is not lost, it is above all of them.
Ranked ==
    /\ HeldRanked
    /\ journal.generation <= sidecar
    /\ \A b \in Boots : sched[b].stamp <= sidecar /\ sched[b].fold.generation <= sidecar

\* A step that mints a generation mints one above the journal's.
Outranks == \A b \in Boots : held[b] = 0 /\ held'[b] > 0 => held'[b] > journal.generation

Advances ==
    /\ LeaseInv' /\ Numbered'
    /\ Ranked /\ "forget" \notin world.faults => Ranked' /\ Outranks

\* Only the task of b moves, and becomes u.
Becomes(b, u) ==
    /\ DOMAIN sched' = Boots
    /\ sched'[b] = u
    /\ \A a \in Boots \ {b} : sched'[a] = sched[a]

\* A step that leaves the lease, the journal and the numbers of every task alone.
LEMMA TaskStep ==
    ASSUME LeaseInv, Numbered, NEW b \in Boots, NEW u, Mild(sched[b], u), Becomes(b, u),
           UNCHANGED <<leaseVars, journal>>
    PROVE  Advances
<1>1. LeaseInv' /\ UNCHANGED <<held, sidecar>>
  BY DEF leaseVars, LeaseInv, LeaseTypeOK, HolderIsReal, HolderLives, Live
<1>2. \A a \in Boots : Mild(sched[a], sched'[a]) \/ sched'[a] = sched[a]
  BY DEF Becomes
<1>3. Numbered'
  BY <1>2 DEF Numbered, Mild, IsTask, Becomes
<1>4. Ranked => Ranked'
  BY <1>1, <1>2 DEF Ranked, HeldRanked, Mild, Numbered
<1>5. Outranks
  BY <1>1 DEF Outranks, LeaseInv, LeaseTypeOK
<1> QED
  BY <1>1, <1>3, <1>4, <1>5 DEF Advances

\* A step of the lease, over a floor the scheduler may use, or that gives it up.
LEMMA LeaseStep ==
    ASSUME LeaseInv, Numbered, NEW b \in Boots, NEW u, Mild(sched[b], u) \/ u = Resting,
           Becomes(b, u), UNCHANGED journal,
           \/ Initialize(b, journal.generation)
           \/ \E attached \in BOOLEAN : RequestDrain(b, attached)
           \/ PerformDrainEntry(b)
           \/ Die(b)
    PROVE  Advances
<1>0. IsTask(Resting) /\ Resting.stamp = 0 /\ Resting.fold.generation = 0
  BY DEF Resting, EmptyJournal, IsTask
<1>1. Numbered'
  BY <1>0 DEF Numbered, Mild, IsTask, Becomes
<1>2. ASSUME sidecar' >= sidecar, HeldRanked', sidecar \in Nat, sidecar' \in Nat
      PROVE  Ranked => Ranked'
  BY <1>0, <1>2 DEF Ranked, Numbered, Mild, Becomes
<1>3. CASE Initialize(b, journal.generation)
  <2>1. /\ LeaseInv' /\ sidecar' >= sidecar
        /\ HeldRanked => HeldRanked'
        /\ Outranks
    BY <1>3, InitializeKeeps DEF Numbered, Outranks, LeaseInv, LeaseTypeOK
  <2> QED
    BY <1>1, <1>2, <2>1 DEF Advances, Ranked, LeaseInv, LeaseTypeOK
<1>4. CASE (\E attached \in BOOLEAN : RequestDrain(b, attached)) \/ PerformDrainEntry(b) \/ Die(b)
  <2>1. /\ LeaseInv' /\ sidecar' = sidecar
        /\ \A a \in Boots : held'[a] \in {held[a], 0}
    BY <1>4, GivingUpKeeps
  <2>2. Outranks /\ (HeldRanked => HeldRanked')
    BY <2>1 DEF Outranks, HeldRanked, LeaseInv, LeaseTypeOK
  <2> QED
    BY <1>1, <1>2, <2>1, <2>2 DEF Advances, Ranked, LeaseInv, LeaseTypeOK
<1> QED
  BY <1>3, <1>4

\* The supervisor, the sessions and the owner leave the numbers and the lease alone.
LEMMA OthersStep ==
    ASSUME LeaseInv, Numbered, UNCHANGED <<leaseVars, journal, sched>>
    PROVE  Advances
BY DEF Advances, Outranks, Ranked, HeldRanked, Numbered, IsTask, leaseVars,
       LeaseInv, LeaseTypeOK, HolderIsReal, HolderLives, Live

\* None of them touches the lease, the journal or a scheduler's memory.
LEMMA OthersAreOthers ==
    ASSUME \/ \E b \in Boots : Supervisor(b)
           \/ \E s \in Sessions : Finish(s) \/ End(s) \/ Stop(s) \/ Close(s)
           \/ Owner
    PROVE  UNCHANGED <<leaseVars, journal, sched>>
<1>1. CASE \E b \in Boots : Supervisor(b)
  BY <1>1 DEF Supervisor, Launch, Reacknowledge, Refuse, Acknowledge, Resume, supervisorOnly
<1>2. CASE \E s \in Sessions : Finish(s) \/ End(s) \/ Stop(s) \/ Close(s)
  BY <1>2 DEF Finish, End, Stop, Close, Moves, supervisorOnly
<1>3. CASE Owner
  BY <1>3 DEF Owner, ComesDue, GrowsStale, RequestOccurrence, Reapprove, ownerOnly
<1> QED
  BY <1>1, <1>2, <1>3

\* Boots, crashes, exits and takeovers.
LEMMA ProcessStep ==
    ASSUME LeaseInv, Numbered, NEW b \in Boots, Boot(b) \/ Crash(b) \/ Exit(b) \/ Takeover(b)
    PROVE  Advances
<1>1. CASE Boot(b)
  <2>1. Initialize(b, journal.generation) /\ UNCHANGED <<journal, sched>>
    BY <1>1 DEF Boot
  <2>2. Becomes(b, sched[b]) /\ Mild(sched[b], sched[b])
    BY <2>1 DEF Becomes, Numbered, Mild
  <2> QED
    BY <2>1, <2>2, LeaseStep
<1>2. CASE Takeover(b)
  <2>1. /\ \E attached \in BOOLEAN : RequestDrain(b, attached)
        /\ UNCHANGED <<journal, sched>>
    BY <1>2 DEF Takeover
  <2>2. Becomes(b, sched[b]) /\ Mild(sched[b], sched[b])
    BY <2>1 DEF Becomes, Numbered, Mild
  <2> QED
    BY <2>1, <2>2, LeaseStep
<1>3. CASE Crash(b) \/ Exit(b)
  <2>1. Die(b) /\ sched' = [sched EXCEPT ![b] = Resting] /\ UNCHANGED journal
    BY <1>3 DEF Crash, Exit, Perish
  <2>2. Becomes(b, Resting)
    BY <2>1 DEF Becomes, Numbered
  <2> QED
    BY <2>1, <2>2, LeaseStep
<1> QED
  BY <1>1, <1>2, <1>3

\* The deletion of the sidecar.
LEMMA ForgetStep ==
    ASSUME LeaseInv, Numbered, Forget
    PROVE  Advances
<1>1. LeaseInv' /\ UNCHANGED <<held, journal, sched>> /\ "forget" \in world.faults
  BY LoseSidecarKeeps DEF Forget
<1> QED
  BY <1>1 DEF Advances, Numbered, IsTask

\* A row carries the writer's stamp; the item and the send carry nothing.
LEMMA WriteStep ==
    ASSUME LeaseInv, Numbered, NEW b \in Boots, Write(b)
    PROVE  Advances
<1>1. PICK w : AppendRow(b, w) \/ WriteBack(b, w) \/ SendStartTask(b, w)
  BY DEF Write
<1>2. UNCHANGED leaseVars
  BY DEF Write
<1>3. CASE AppendRow(b, w)
  <2>1. /\ journal'.generation = Larger(journal.generation, sched[b].stamp)
        /\ sched' = [sched EXCEPT ![b].fold = journal', ![b].todo = Tail(@)]
    BY <1>3 DEF AppendRow
  <2>2. /\ journal'.generation \in Nat
        /\ journal'.generation \in {journal.generation, sched[b].stamp}
    BY <2>1 DEF Larger, Numbered
  <2>3. \E u : Becomes(b, u) /\ IsTask(u) /\ u.stamp = sched[b].stamp /\ u.fold = journal'
    <3> DEFINE u == [sched[b] EXCEPT !.fold = journal', !.todo = Tail(sched[b].todo)]
    <3>1. Becomes(b, u)
      BY <2>1 DEF Becomes, Numbered, IsTask
    <3>2. IsTask(u) /\ u.stamp = sched[b].stamp /\ u.fold = journal'
      BY DEF IsTask, Numbered
    <3> HIDE DEF u
    <3> QED
      BY <3>1, <3>2
  <2>4. Numbered'
    BY <2>2, <2>3 DEF Numbered, Becomes, IsTask
  <2>5. Ranked => Ranked'
    BY <1>2, <2>2, <2>3 DEF Ranked, HeldRanked, Becomes, leaseVars
  <2>6. LeaseInv' /\ Outranks
    BY <1>2 DEF leaseVars, Outranks, LeaseInv, LeaseTypeOK, HolderIsReal, HolderLives, Live
  <2> QED
    BY <2>4, <2>5, <2>6 DEF Advances
<1>4. CASE WriteBack(b, w) \/ SendStartTask(b, w)
  <2>1. sched' = [sched EXCEPT ![b].todo = Tail(@)] /\ UNCHANGED journal
    BY <1>4 DEF WriteBack, SendStartTask
  <2>2. PICK u : Becomes(b, u) /\ Mild(sched[b], u)
    <3>1. Becomes(b, [sched[b] EXCEPT !.todo = Tail(@)])
      BY <2>1 DEF Becomes, Numbered
    <3> QED
      BY <3>1 DEF Numbered, IsTask, Mild
  <2> QED
    BY <1>2, <2>1, <2>2, TaskStep
<1> QED
  BY <1>1, <1>3, <1>4

\* Opening the journal stamps the task with what its process holds.
LEMMA OpenStep ==
    ASSUME LeaseInv, Numbered, NEW b \in Boots, Open(b)
    PROVE  Advances
<1> DEFINE u == [Resting EXCEPT !.pc = "gate", !.fold = journal, !.stamp = held[b],
                                !.todo = RecoveryWrites(b, journal.rows),
                                !.watch = Watches(b, journal.rows)]
<1>1. Becomes(b, u) /\ UNCHANGED <<leaseVars, journal>>
  BY DEF Open, Becomes, Numbered, schedulerOnly
<1>2. IsTask(u) /\ u.stamp = held[b] /\ u.fold = journal
  BY DEF IsTask, Resting
<1> HIDE DEF u
<1>3. Numbered'
  BY <1>1, <1>2 DEF Numbered, Becomes, IsTask, LeaseInv, LeaseTypeOK
<1>4. Ranked => Ranked'
  BY <1>1, <1>2 DEF Ranked, HeldRanked, Becomes, leaseVars
<1>5. LeaseInv' /\ Outranks
  BY <1>1 DEF leaseVars, Outranks, LeaseInv, LeaseTypeOK, HolderIsReal, HolderLives, Live
<1> QED
  BY <1>3, <1>4, <1>5 DEF Advances

\* A holder's pass stamps the task and leaves its fold alone.
LEMMA PassStamps ==
    ASSUME Numbered, NEW b \in Boots, NEW generation, PassAsHolder(b, generation)
    PROVE  \E u : Becomes(b, u) /\ IsTask(u) /\ u.stamp = generation /\ u.fold = sched[b].fold
<1> DEFINE t == [sched[b] EXCEPT !.stamp = generation]
           lost == RecoveryWrites(b, t.fold.rows)
<1>1. IsTask(t) /\ t.stamp = generation /\ t.fold = sched[b].fold
  BY DEF Numbered, IsTask
<1>2. PICK u \in IF lost = <<>> THEN Acted(t)
                 ELSE {[t EXCEPT !.pc = "plan", !.todo = lost]} : sched' = [sched EXCEPT ![b] = u]
  BY DEF PassAsHolder
<1>3. Becomes(b, u)
  BY <1>2 DEF Becomes, Numbered
<1> HIDE DEF t, lost
<1>4. CASE u \in Acted(t)
  BY <1>1, <1>3, <1>4, ActedKeeps DEF Same
<1>5. CASE u = [t EXCEPT !.pc = "plan", !.todo = lost]
  <2>1. IsTask(u) /\ u.stamp = t.stamp /\ u.fold = t.fold
    BY <1>1, <1>5 DEF IsTask
  <2> QED
    BY <1>1, <1>3, <2>1
<1> QED
  BY <1>2, <1>4, <1>5

\* The gate: the drain's entry, the holder's pass, a poll of the lease, or nothing.
LEMMA GateStep ==
    ASSUME LeaseInv, Numbered, NEW b \in Boots, Gate(b)
    PROVE  Advances
<1>0. UNCHANGED journal
  BY DEF Gate, schedulerOnly
<1>1. CASE /\ IF duty[b] THEN PerformDrainEntry(b) ELSE UNCHANGED leaseVars
           /\ sched' = [sched EXCEPT ![b].pc = "sweep"]
  <2>1. Becomes(b, [sched[b] EXCEPT !.pc = "sweep"])
    BY <1>1 DEF Becomes, Numbered
  <2>2. Mild(sched[b], [sched[b] EXCEPT !.pc = "sweep"])
    BY DEF Mild, Numbered, IsTask
  <2> QED
    BY <1>0, <1>1, <2>1, <2>2, TaskStep, LeaseStep
<1>2. CASE PassAsHolder(b, sched[b].stamp) /\ UNCHANGED leaseVars
  <2>1. PICK u : Becomes(b, u) /\ IsTask(u) /\ u.stamp = sched[b].stamp /\ u.fold = sched[b].fold
    BY <1>2, PassStamps
  <2> QED
    BY <1>0, <1>2, <2>1, TaskStep DEF Mild
<1>3. CASE PollAcquire(b, sched[b].fold.generation) /\ PassAsHolder(b, held'[b])
  <2>1. PICK u : Becomes(b, u) /\ IsTask(u) /\ u.stamp = held'[b] /\ u.fold = sched[b].fold
    BY <1>3, PassStamps
  <2>2. /\ LeaseInv' /\ (HeldRanked => HeldRanked')
        /\ sidecar' >= sidecar /\ held'[b] \in Nat /\ held'[b] <= sidecar'
        /\ held'[b] > sidecar /\ \A a \in Boots \ {b} : held'[a] = held[a]
    BY <1>3, PollAcquireKeeps DEF Numbered
  <2>3. Numbered'
    BY <1>0, <2>1, <2>2 DEF Numbered, Becomes, IsTask
  <2>4. ASSUME Ranked PROVE Ranked' /\ Outranks
    BY <1>0, <2>1, <2>2, <2>4 DEF Ranked, Outranks, Numbered, Becomes, LeaseInv, LeaseTypeOK
  <2> QED
    BY <2>2, <2>3, <2>4 DEF Advances
<1>4. CASE sched' = [sched EXCEPT ![b].pc = "sweep"] /\ UNCHANGED leaseVars
  <2>1. Becomes(b, [sched[b] EXCEPT !.pc = "sweep"])
    BY <1>4 DEF Becomes, Numbered
  <2>2. Mild(sched[b], [sched[b] EXCEPT !.pc = "sweep"])
    BY DEF Mild, Numbered, IsTask
  <2> QED
    BY <1>0, <1>4, <2>1, <2>2, TaskStep
<1> QED
  BY <1>1, <1>2, <1>3, <1>4 DEF Gate

\* Everything else the task does moves its memory only.
MovesMemory(b) ==
    /\ \E u : Becomes(b, u) /\ Mild(sched[b], u)
    /\ UNCHANGED <<leaseVars, journal>>

\* The sweeps and the early outcome (classification, time-outs, readoption).
LEMMA SweepsMoveMemory ==
    ASSUME Numbered, NEW b \in Boots,
           \/ Claim(b)
           \/ \E o \in Occurrences : Resend(b, o) \/ Abandon(b, o)
           \/ \E s \in Sessions : ReclassifyEnd(b, s) \/ GraceExpires(b, s)
                                  \/ Readopt(b, s) \/ WatchExpires(b, s)
    PROVE  MovesMemory(b)
<1> DEFINE t == sched[b]
<1>0. IsTask(t)
  BY DEF Numbered
<1>1. CASE Claim(b)
  <2> DEFINE c == [t EXCEPT !.early = OutcomesBut(@, t.claim)]
  <2>1. IsTask(c) /\ Same(t, c) /\ Same(t, [c EXCEPT !.claim = NoSession])
    BY <1>0 DEF IsTask, Same
  <2>2. PICK u : /\ sched' = [sched EXCEPT ![b] = u]
                 /\ \/ u = [c EXCEPT !.claim = NoSession]
                    \/ u = Concluded(c, t.claim, "completed")
                    \/ u = Classified(c, t.claim)
    <3>1. CASE OutcomesOf(t.early, t.claim) = <<>>
      BY <1>1, <3>1 DEF Claim
    <3>2. CASE /\ OutcomesOf(t.early, t.claim) # <<>>
               /\ Head(OutcomesOf(t.early, t.claim)).type = "done"
      BY <1>1, <3>2 DEF Claim
    <3>3. CASE /\ OutcomesOf(t.early, t.claim) # <<>>
               /\ Head(OutcomesOf(t.early, t.claim)).type # "done"
      BY <1>1, <3>3 DEF Claim
    <3> QED
      BY <3>1, <3>2, <3>3
  <2> HIDE DEF c
  <2>3. Same(t, u)
    <3>1. Same(c, Concluded(c, t.claim, "completed")) /\ Same(c, Classified(c, t.claim))
      BY <2>1, VerdictsKeep
    <3> QED
      BY <2>1, <2>2, <3>1 DEF Same
  <2>4. Becomes(b, u) /\ Mild(t, u)
    BY <2>2, <2>3 DEF Becomes, Numbered, Mild, Same
  <2> QED
    BY <1>1, <2>4 DEF MovesMemory, Claim, schedulerOnly
<1>2. CASE \E o \in Occurrences : Resend(b, o)
  BY <1>0, <1>2 DEF Resend, MovesMemory, Becomes, Numbered, Mild, IsTask, schedulerOnly
<1>3. CASE \E o \in Occurrences : Abandon(b, o)
  <2>1. PICK o : sched' = [sched EXCEPT ![b] = [t EXCEPT !.awaiting = @ \ {o},
                                                !.todo = Outcome(o, "unknown", NoSession)]]
    BY <1>3 DEF Abandon
  <2> DEFINE u == [t EXCEPT !.awaiting = @ \ {o}, !.todo = Outcome(o, "unknown", NoSession)]
  <2>2. Becomes(b, u) /\ Mild(t, u)
    BY <1>0, <2>1 DEF Becomes, Numbered, Mild, IsTask
  <2> QED
    BY <1>3, <2>2 DEF MovesMemory, Abandon, schedulerOnly
<1>4. CASE \E s \in Sessions : ReclassifyEnd(b, s) \/ GraceExpires(b, s)
  <2>1. PICK s : \/ sched' = [sched EXCEPT ![b] = Classified(t, s)]
                 \/ sched' = [sched EXCEPT ![b] = Concluded(t, s, "failed")]
    BY <1>4 DEF ReclassifyEnd, GraceExpires
  <2>2. Same(t, Classified(t, s)) /\ Same(t, Concluded(t, s, "failed"))
    BY <1>0, VerdictsKeep
  <2> QED
    BY <1>4, <2>1, <2>2
       DEF MovesMemory, Becomes, Numbered, Mild, Same, ReclassifyEnd, GraceExpires, schedulerOnly
<1>5. CASE \E s \in Sessions : Readopt(b, s) \/ WatchExpires(b, s)
  <2>1. PICK s, v : LET w == [t EXCEPT !.watch = @ \ {s}]
                    IN  \/ sched' = [sched EXCEPT ![b] = w]
                        \/ sched' = [sched EXCEPT ![b] = Followed(w, s, v)]
    BY <1>5 DEF Readopt, WatchExpires
  <2> DEFINE w == [t EXCEPT !.watch = @ \ {s}]
  <2>2. IsTask(w) /\ Same(t, w)
    BY <1>0 DEF IsTask, Same
  <2>3. sched' = [sched EXCEPT ![b] = w] \/ sched' = [sched EXCEPT ![b] = Followed(w, s, v)]
    BY <2>1
  <2> HIDE DEF w
  <2>4. Same(t, Followed(w, s, v))
    BY <2>2, VerdictsKeep DEF Same
  <2> QED
    BY <1>5, <2>2, <2>3, <2>4
       DEF MovesMemory, Becomes, Numbered, Mild, Same, Readopt, WatchExpires, schedulerOnly
<1> QED
  BY <1>1, <1>2, <1>3, <1>4, <1>5

\* Planning after a recovery, and the select (a wake-up, an event, a lag).
LEMMA SelectMovesMemory ==
    ASSUME Numbered, NEW b \in Boots, PlanAndAct(b) \/ Wake(b) \/ Observe(b) \/ Lag(b)
    PROVE  MovesMemory(b)
<1> DEFINE t == sched[b]
<1>0. IsTask(t)
  BY DEF Numbered
<1>1. UNCHANGED <<leaseVars, journal>>
  BY DEF PlanAndAct, Wake, Observe, Lag, schedulerOnly
<1>2. IsTask(NextPass(t)) /\ Mild(t, NextPass(t))
  BY <1>0 DEF NextPass, Mild, IsTask
<1>3. CASE PlanAndAct(b)
  <2>1. PICK u \in Acted(t) : sched' = [sched EXCEPT ![b] = u]
    BY <1>3 DEF PlanAndAct
  <2>2. Becomes(b, u) /\ Mild(t, u)
    BY <1>0, <2>1, ActedKeeps DEF Becomes, Numbered, Mild, Same
  <2> QED
    BY <1>1, <2>2 DEF MovesMemory
<1>4. CASE Wake(b)
  <2>1. Becomes(b, NextPass(t))
    BY <1>4 DEF Wake, Becomes, Numbered
  <2> QED
    BY <1>1, <1>2, <2>1 DEF MovesMemory
<1>5. CASE Observe(b)
  <2>1. PICK e : sched' = [sched EXCEPT ![b] = Observed(NextPass(t), e)]
    BY <1>5 DEF Observe
  <2>2. Becomes(b, Observed(NextPass(t), e))
    BY <2>1 DEF Becomes, Numbered
  <2>3. Mild(t, Observed(NextPass(t), e))
    BY <1>2, ObservedKeeps DEF Mild, Same
  <2> QED
    BY <1>1, <2>2, <2>3 DEF MovesMemory
<1>6. CASE Lag(b)
  <2>1. PICK todo : sched' = [sched EXCEPT
               ![b].pc = "gate", ![b].fold = journal, ![b].awaiting = {}, ![b].running = {},
               ![b].ended = {}, ![b].todo = todo]
    BY <1>6 DEF Lag
  <2> DEFINE u == [t EXCEPT !.pc = "gate", !.fold = journal, !.awaiting = {}, !.running = {},
                            !.ended = {}, !.todo = todo]
  <2>2. Becomes(b, u)
    BY <2>1 DEF Becomes, Numbered
  <2>3. Mild(t, u)
    BY <1>0 DEF Mild, IsTask
  <2> HIDE DEF u
  <2> QED
    BY <1>1, <2>2, <2>3 DEF MovesMemory
<1> QED
  BY <1>3, <1>4, <1>5, <1>6

\* No step changes the scenario.
LEMMA WorldFixed == [Next]_vars => UNCHANGED world
<1>1. ASSUME NEW b \in Boots,
             Boot(b) \/ Crash(b) \/ Exit(b) \/ Takeover(b) \/ Supervisor(b)
      PROVE  UNCHANGED world
  BY <1>1 DEF Boot, Crash, Exit, Perish, Takeover, Supervisor, Launch, Reacknowledge, Refuse,
              Acknowledge, Resume, supervisorOnly
<1>2. ASSUME NEW b \in Boots, SchedulerStep(b)
      PROVE  UNCHANGED world
  BY <1>2 DEF SchedulerStep, Open, Gate, PlanAndAct, Write, Claim, ReclassifyEnd, Readopt,
              schedulerOnly
<1>3. ASSUME NEW b \in Boots, TimeOut(b) \/ Wake(b) \/ Observe(b) \/ Lag(b)
      PROVE  UNCHANGED world
  BY <1>3 DEF TimeOut, Resend, Abandon, GraceExpires, WatchExpires, Wake, Observe, Lag,
              schedulerOnly
<1>4. CASE \/ \E s \in Sessions : Finish(s) \/ End(s) \/ Stop(s) \/ Close(s)
           \/ Owner \/ Forget
  BY <1>4 DEF Finish, End, Stop, Close, Moves, supervisorOnly, Owner, ComesDue, GrowsStale,
              RequestOccurrence, Reapprove, ownerOnly, Forget
<1> QED
  BY <1>1, <1>2, <1>3, <1>4 DEF Next, vars

-----------------------------------------------------------------------------
(* The theorems.                                                           *)

\* Init establishes everything (LeaseInit, EmptyJournal, Resting).
LEMMA Initially == Init => LeaseInv /\ Numbered /\ Ranked
<1> SUFFICES ASSUME Init PROVE LeaseInv /\ Numbered /\ Ranked
  OBVIOUS
<1>1. LeaseInv /\ HeldRanked
  BY LeaseInitially DEF Init
<1>2. IsTask(Resting) /\ Resting.stamp = 0 /\ Resting.fold.generation = 0
  BY DEF Resting, EmptyJournal, IsTask
<1>3. journal.generation = 0 /\ sidecar = 0
  BY DEF Init, LeaseInit, EmptyJournal
<1>4. DOMAIN sched = Boots /\ \A b \in Boots : sched[b] = Resting
  BY DEF Init
<1> QED
  BY <1>1, <1>2, <1>3, <1>4 DEF Numbered, Ranked

\* Every step advances.
LEMMA Step == LeaseInv /\ Numbered /\ [Next]_vars => Advances
<1> SUFFICES ASSUME LeaseInv, Numbered, [Next]_vars PROVE Advances
  OBVIOUS
<1>1. CASE UNCHANGED vars
  BY <1>1, OthersStep DEF vars
<1>2. ASSUME NEW b \in Boots, MovesMemory(b)
      PROVE  Advances
  BY <1>2, TaskStep DEF MovesMemory
<1>3. ASSUME NEW b \in Boots, SchedulerStep(b)
      PROVE  Advances
  <2>1. CASE Open(b)
    BY <2>1, OpenStep
  <2>2. CASE Gate(b)
    BY <2>2, GateStep
  <2>3. CASE Write(b)
    BY <2>3, WriteStep
  <2>4. CASE PlanAndAct(b)
    BY <1>2, <2>4, SelectMovesMemory
  <2>5. CASE Claim(b) \/ \E s \in Sessions : ReclassifyEnd(b, s) \/ Readopt(b, s)
    BY <1>2, <2>5, SweepsMoveMemory
  <2> QED
    BY <1>3, <2>1, <2>2, <2>3, <2>4, <2>5 DEF SchedulerStep
<1>4. ASSUME NEW b \in Boots, TimeOut(b)
      PROVE  Advances
  BY <1>2, <1>4, SweepsMoveMemory DEF TimeOut
<1>5. ASSUME NEW b \in Boots, Wake(b) \/ Observe(b) \/ Lag(b)
      PROVE  Advances
  BY <1>2, <1>5, SelectMovesMemory
<1>6. ASSUME NEW b \in Boots, Boot(b) \/ Crash(b) \/ Exit(b) \/ Takeover(b)
      PROVE  Advances
  BY <1>6, ProcessStep
<1>7. CASE \/ \E b \in Boots : Supervisor(b)
           \/ \E s \in Sessions : Finish(s) \/ End(s) \/ Stop(s) \/ Close(s)
           \/ Owner
  BY <1>7, OthersAreOthers, OthersStep
<1>8. CASE Forget
  BY <1>8, ForgetStep
<1> QED
  BY <1>1, <1>3, <1>4, <1>5, <1>6, <1>7, <1>8 DEF Next

\* Mutual exclusion, for every number of process lives: a daemon believes it is the
\* holder exactly while its process is alive and holds the flock (is_holder).
THEOREM HolderIsRealAlways == Spec => []HolderIsReal
<1>1. Init => LeaseInv /\ Numbered
  BY Initially
<1>2. LeaseInv /\ Numbered /\ [Next]_vars => (LeaseInv /\ Numbered)'
  BY Step DEF Advances
<1>3. LeaseInv => HolderIsReal
  BY DEF LeaseInv
<1> QED
  BY <1>1, <1>2, <1>3, PTL DEF Spec

\* Unless the sidecar is lost, the generation a new holder mints is above the one of
\* every row of the journal, at boot, after a crash and in a handover alike
\* (NextGeneration over the sidecar and the fold's generations, append's stamps).
THEOREM AcquisitionOutranksAlways ==
    ASSUME \A w \in Worlds : "forget" \notin w.faults
    PROVE  Spec => AcquisitionOutranks
<1> DEFINE Inv == LeaseInv /\ Numbered /\ Ranked /\ world \in Worlds
<1>1. Init => Inv
  BY Initially DEF Init
<1>2. Inv /\ [Next]_vars => Inv' /\ Outranks
  BY Step, WorldFixed DEF Advances
<1>3. Outranks => [\A b \in Boots : held[b] = 0 /\ held'[b] > 0
                        => held'[b] > journal.generation]_vars
  BY DEF Outranks
<1> QED
  BY <1>1, <1>2, <1>3, PTL DEF Spec, AcquisitionOutranks
-----------------------------------------------------------------------------
(* What the journal and the schedulers' memory say of each other.          *)

Writes == [do : {"row", "note", "send"}, occ : Occurrences,
           state : Terminals \cup {"none", "prepared", "started"},
           session : Sessions \cup {NoSession}]

\* the rows a handler still owes, and those about one occurrence
Rows(todo) == {w \in ToSet(todo) : w.do = "row"}
About(todo, o) == {w \in Rows(todo) : w.occ = o}

\* one row about an occurrence at most
RowsOnce(todo) ==
    /\ \A w \in Rows(todo) : Once(w, todo)
    /\ \A v, w \in Rows(todo) : v.occ = w.occ => v = w

\* no task is sent before the row that prepares its occurrence
SendsLast(todo) ==
    \A i, j \in 1..Len(todo) :
        i < j /\ todo[i].do = "send" => todo[j] # Row(todo[i].occ, "prepared", NoSession)

\* An occurrence that was started was prepared, and by a session of its own.
JournalInv ==
    /\ journal.rows \in [Occurrences -> Progresses]
    /\ \A o \in Occurrences : IsStarted(journal.rows[o]) =>
          /\ journal.rows[o].prepared
          /\ Occ(journal.rows[o].started) = o

\* The types of the parts of a task that matter.
Typed(t) ==
    /\ DOMAIN t = {"pc", "fold", "stamp", "todo", "claim", "awaiting", "running", "early",
                   "ended", "watch"}
    /\ t.pc \in {"open", "gate", "plan", "sweep"}
    /\ t.fold.rows \in [Occurrences -> Progresses]
    /\ t.todo \in Seq(Writes)
    /\ t.awaiting \subseteq Occurrences
    /\ t.running \subseteq Sessions /\ IsFiniteSet(t.running)
    /\ t.ended \subseteq t.running
    /\ t.claim \in t.running \cup {NoSession}
    /\ t.watch \subseteq Sessions

\* What is in flight was prepared, or its prepared row comes first; only a holder owes
\* prepared rows, and a started row follows a prepared one.
Prepared(t, rows, holds) ==
    /\ t.pc = "open" => t.todo = <<>>
    /\ t.pc = "plan" => holds
    /\ t.claim # NoSession => t.pc \notin {"open", "plan"}
    /\ \A w \in Rows(t.todo) :
          /\ w.state = "prepared" => holds
          /\ w.state = "started" => rows[w.occ].prepared /\ w.session \in Sessions /\ Occ(w.session) = w.occ
    /\ \A o \in t.awaiting : rows[o].prepared \/ Row(o, "prepared", NoSession) \in Rows(t.todo)
    /\ \A s \in t.running \cup t.watch : rows[Occ(s)].prepared

\* With one daemon at a time: each row owed is the only one about its occurrence and
\* fits what the journal has of it ...
RowsFit(t, rows) ==
    /\ RowsOnce(t.todo)
    /\ SendsLast(t.todo)
    /\ \A w \in Rows(t.todo) :
          CASE w.state = "prepared" -> ~IsStarted(rows[w.occ]) /\ rows[w.occ].terminal = "none"
            [] w.state = "started"  -> rows[w.occ].terminal \in {"none", "unknown"}
            [] OTHER                -> rows[w.occ].terminal = "none"
    /\ \A w \in ToSet(t.todo) : w.do = "send" => w.occ \in t.awaiting

\* ... what awaits a receipt is dispatched or about to be, what runs is started or about
\* to be, and what is watched was given up or is about to be.
InFlight(b, t, rows) ==
    /\ \A o \in t.awaiting :
          \/ About(t.todo, o) = {} /\ o \in PreparedUnresolved(rows) /\ rows[o].writer = b
          \/ Row(o, "prepared", NoSession) \in Rows(t.todo)
    /\ \A s \in t.running :
          \/ /\ About(t.todo, Occ(s)) = {} /\ Occ(s) \in StartedUnresolved(rows)
             /\ rows[Occ(s)].started = s /\ rows[Occ(s)].writer = b
          \/ Row(Occ(s), "started", s) \in Rows(t.todo)
    /\ \A s \in t.watch :
          /\ rows[Occ(s)].started = s
          /\ \A u \in t.running : Occ(u) # Occ(s)
          /\ \/ About(t.todo, Occ(s)) = {} /\ rows[Occ(s)].terminal = "unknown"
             \/ Row(Occ(s), "unknown", s) \in Rows(t.todo)

\* An occurrence fired by a process life, or about to be.
Launched(b, o) == status[Original(b, o)] # "none"
FiredBy(b, o) == Launched(b, o) \/ o \in tasks[b] \/ o \in sched[b].awaiting

Fired ==
    /\ \A b \in Boots, o \in Occurrences : Launched(b, o) \/ o \in tasks[b] => journal.rows[o].prepared
    /\ \A a, b \in Boots, o \in Occurrences : FiredBy(a, o) /\ FiredBy(b, o) => a = b

Inboxes == [Boots -> [events : Seq(Events), lagged : BOOLEAN]]

MemoryTyped ==
    /\ DOMAIN sched = Boots /\ \A b \in Boots : Typed(sched[b])
    /\ DOMAIN status = Sessions
    /\ tasks \in [Boots -> SUBSET Occurrences]
    /\ acks \in [Boots -> SUBSET Sessions]
    /\ inbox \in Inboxes

\* for any number of daemons
FiringInv ==
    /\ LeaseInv /\ JournalInv /\ MemoryTyped
    /\ \A b \in Boots : Prepared(sched[b], journal.rows, held[b] > 0)

\* with one daemon at a time
RunsInv ==
    /\ \A a, b \in Boots : Live(a) /\ Live(b) => a = b
    /\ \A b \in Boots : /\ ~Live(b) => sched[b] = Resting /\ tasks[b] = {}
                        /\ sched[b].pc = "open" => sched[b] = Resting
                        /\ sched[b].pc # "open" => sched[b].fold = journal
                        /\ RowsFit(sched[b], journal.rows)
                        /\ InFlight(b, sched[b], journal.rows)
    /\ Fired
-----------------------------------------------------------------------------
(* The writes of a handler.                                                *)

\* A finite set as a sequence: each member has one place.
LEMMA SetAsSequence ==
    ASSUME NEW S, IsFiniteSet(S)
    PROVE  /\ SetToSeq(S) \in Seq(S)
           /\ \A i, j \in 1..Len(SetToSeq(S)) : SetToSeq(S)[i] = SetToSeq(S)[j] => i = j
           /\ \A x \in S : \E i \in 1..Len(SetToSeq(S)) : SetToSeq(S)[i] = x
<1> DEFINE n == Cardinality(S)
           q == SetToSeq(S)
<1>1. n \in Nat /\ \E f \in [1..n -> S] : IsInjective(f) /\ f \in Surjection(1..n, S)
  <2>1. PICK m \in Nat : ExistsBijection(1..m, S)
    BY FS_NatBijection
  <2>2. n = m
    BY <2>1, FS_CountingElements
  <2>3. PICK f \in Bijection(1..m, S) : TRUE
    BY <2>1 DEF ExistsBijection
  <2> QED
    BY <2>2, <2>3 DEF Bijection, Injection, Surjection
<1>2. q \in [1..n -> S] /\ IsInjective(q)
  BY <1>1 DEF SetToSeq
<1>3. q \in Seq(S) /\ Len(q) = n
  BY <1>1, <1>2
<1>4. q \in Injection(1..n, S)
  BY <1>2 DEF Injection
<1>5. q \in Surjection(1..n, S)
  <2>1. IsFiniteSet(1..n) /\ Cardinality(1..n) = n
    BY <1>1, FS_Interval
  <2> HIDE DEF q
  <2> QED
    BY <1>4, <2>1, FS_Injection
<1> HIDE DEF q, n
<1>6. \A x \in S : \E i \in 1..n : q[i] = x
  BY <1>5 DEF Surjection
<1> QED
  BY <1>2, <1>3, <1>6 DEF IsInjective, q

\* InTurn has the two writes of each member at places of their own.
LEMMA TurnIs ==
    ASSUME NEW S, IsFiniteSet(S), NEW T, NEW f, DOMAIN f = S,
           \A x \in S : f[x][1] \in T /\ f[x][2] \in T
    PROVE  /\ InTurn(f) \in Seq(T)
           /\ \A i \in 1..Len(InTurn(f)) : \E x \in S, k \in {1, 2} : InTurn(f)[i] = f[x][k]
           /\ \A x \in S : /\ f[x][1] \in ToSet(InTurn(f))
                           /\ f[x][2] \in ToSet(InTurn(f))
           /\ (\A x, y \in S : f[x][1] = f[y][1] => x = y) /\ (\A x, y \in S : f[x][1] # f[y][2])
                 => \A x \in S : Once(f[x][1], InTurn(f))
<1> DEFINE q == SetToSeq(S)
           n == Len(q)
           w == InTurn(f)
<1>1. /\ n \in Nat /\ \A i \in 1..n : q[i] \in S
      /\ \A i, j \in 1..n : q[i] = q[j] => i = j
      /\ \A x \in S : \E i \in 1..n : q[i] = x
  BY SetAsSequence
<1>2. w = [i \in 1..(2 * n) |-> f[q[(i + 1) \div 2]][IF i % 2 = 1 THEN 1 ELSE 2]]
  BY DEF InTurn
<1> HIDE DEF q, n, w
<1>3. \A i \in 1..(2 * n) : \E j \in 1..n : i = 2 * j - 1 \/ i = 2 * j
  <2> SUFFICES ASSUME NEW i \in 1..(2 * n)
               PROVE  LET j == (i + 1) \div 2 IN j \in 1..n /\ (i = 2 * j - 1 \/ i = 2 * j)
    OBVIOUS
  <2> QED
    BY <1>1
<1>4. \A j \in 1..n : /\ 2 * j - 1 \in 1..(2 * n) /\ 2 * j \in 1..(2 * n)
                      /\ (2 * j - 1 + 1) \div 2 = j /\ (2 * j + 1) \div 2 = j
                      /\ (2 * j - 1) % 2 = 1 /\ (2 * j) % 2 = 0
  BY <1>1
<1>5. \A j \in 1..n : w[2 * j - 1] = f[q[j]][1] /\ w[2 * j] = f[q[j]][2]
  BY <1>2, <1>4
<1>6. w \in Seq(T) /\ Len(w) = 2 * n
  <2>1. ASSUME NEW i \in 1..(2 * n) PROVE w[i] \in T
    <3>1. PICK j \in 1..n : i = 2 * j - 1 \/ i = 2 * j
      BY <1>3
    <3>2. q[j] \in S /\ (w[i] = f[q[j]][1] \/ w[i] = f[q[j]][2])
      BY <1>1, <1>5, <3>1
    <3> QED
      BY <3>2
  <2>2. w \in [1..(2 * n) -> T]
    BY <1>2, <2>1
  <2> QED
    BY <1>1, <2>2
<1>7. ASSUME NEW i \in 1..Len(w) PROVE \E x \in S, k \in {1, 2} : w[i] = f[x][k]
  <2>1. PICK j \in 1..n : i = 2 * j - 1 \/ i = 2 * j
    BY <1>3, <1>6
  <2>2. q[j] \in S /\ (w[i] = f[q[j]][1] \/ w[i] = f[q[j]][2])
    BY <1>1, <1>5, <2>1
  <2> QED
    BY <2>2
<1>8. ASSUME NEW x \in S PROVE f[x][1] \in ToSet(w) /\ f[x][2] \in ToSet(w)
  <2>1. PICK j \in 1..n : q[j] = x
    BY <1>1
  <2>2. 2 * j - 1 \in DOMAIN w /\ 2 * j \in DOMAIN w /\ w[2 * j - 1] = f[x][1] /\ w[2 * j] = f[x][2]
    BY <1>4, <1>5, <1>6, <2>1
  <2> QED
    BY <2>2 DEF ToSet
<1>9. ASSUME \A x, y \in S : f[x][1] = f[y][1] => x = y, \A x, y \in S : f[x][1] # f[y][2],
             NEW x \in S
      PROVE  Once(f[x][1], w)
  <2> SUFFICES ASSUME NEW i \in 1..Len(w), NEW j \in 1..Len(w), w[i] = f[x][1], w[j] = f[x][1]
               PROVE  i = j
    BY DEF Once
  <2>1. PICK k \in 1..n : i = 2 * k - 1 \/ i = 2 * k
    BY <1>3, <1>6
  <2>2. PICK l \in 1..n : j = 2 * l - 1 \/ j = 2 * l
    BY <1>3, <1>6
  <2>a. \A m \in 1..n : q[m] \in S /\ w[2 * m] # f[x][1] /\ (w[2 * m - 1] = f[x][1] => q[m] = x)
    <3> TAKE m \in 1..n
    <3>1. q[m] \in S /\ w[2 * m - 1] = f[q[m]][1] /\ w[2 * m] = f[q[m]][2]
      BY <1>1, <1>5
    <3> QED
      BY <1>9, <3>1
  <2>3. i = 2 * k - 1 /\ q[k] = x
    BY <2>1, <2>a
  <2>4. j = 2 * l - 1 /\ q[l] = x
    BY <2>2, <2>a
  <2> QED
    BY <1>1, <2>3, <2>4
<1> QED
  BY <1>6, <1>7, <1>8, <1>9 DEF w

\* Nothing is owed.
LEMMA NothingOwed ==
    /\ <<>> \in Seq(Writes) /\ ToSet(<<>>) = {} /\ Rows(<<>>) = {}
    /\ \A o : About(<<>>, o) = {}
    /\ RowsOnce(<<>>) /\ SendsLast(<<>>)
BY DEF ToSet, Rows, About, RowsOnce, SendsLast

\* The members of what two handlers owe one after the other.
LEMMA OwedTogether ==
    ASSUME NEW s \in Seq(Writes), NEW t \in Seq(Writes)
    PROVE  /\ s \o t \in Seq(Writes)
           /\ ToSet(s \o t) = ToSet(s) \cup ToSet(t)
           /\ Rows(s \o t) = Rows(s) \cup Rows(t)
           /\ RowsOnce(s) /\ RowsOnce(t) /\ (\A v \in Rows(s), w \in Rows(t) : v.occ # w.occ)
                 => RowsOnce(s \o t)
<1>1. /\ s \o t \in Seq(Writes) /\ Len(s \o t) = Len(s) + Len(t)
      /\ \A i \in 1..(Len(s) + Len(t)) : (s \o t)[i] = IF i <= Len(s) THEN s[i] ELSE t[i - Len(s)]
      /\ Len(s) \in Nat /\ Len(t) \in Nat
      /\ DOMAIN s = 1..Len(s) /\ DOMAIN t = 1..Len(t) /\ DOMAIN (s \o t) = 1..(Len(s) + Len(t))
  OBVIOUS
<1> DEFINE r == s \o t
<1> HIDE DEF r
<1>2. ToSet(r) = ToSet(s) \cup ToSet(t)
  <2>0. /\ Len(s) \in Nat /\ Len(t) \in Nat
        /\ DOMAIN s = 1..Len(s) /\ DOMAIN t = 1..Len(t) /\ DOMAIN r = 1..(Len(s) + Len(t))
        /\ \A i \in 1..(Len(s) + Len(t)) : r[i] = IF i <= Len(s) THEN s[i] ELSE t[i - Len(s)]
    BY <1>1 DEF r
  <2>1. /\ \A e : e \in ToSet(r) <=> \E i \in 1..(Len(s) + Len(t)) : r[i] = e
        /\ \A e : e \in ToSet(s) <=> \E i \in 1..Len(s) : s[i] = e
        /\ \A e : e \in ToSet(t) <=> \E i \in 1..Len(t) : t[i] = e
    BY ONLY <2>0 DEF ToSet
  <2>2. \A i \in 1..Len(s) : i \in 1..(Len(s) + Len(t)) /\ r[i] = s[i]
    BY ONLY <2>0
  <2>3. ASSUME NEW i \in 1..Len(t)
        PROVE  Len(s) + i \in 1..(Len(s) + Len(t)) /\ r[Len(s) + i] = t[i]
    <3>1. /\ Len(s) + i \in 1..(Len(s) + Len(t)) /\ ~(Len(s) + i <= Len(s))
          /\ (Len(s) + i) - Len(s) = i
      BY ONLY <2>0, i \in 1..Len(t)
    <3> QED
      BY ONLY <2>0, <3>1
  <2>4. ASSUME NEW i \in 1..(Len(s) + Len(t))
        PROVE  \/ i \in 1..Len(s) /\ r[i] = s[i]
               \/ i - Len(s) \in 1..Len(t) /\ r[i] = t[i - Len(s)]
    <3>1. \/ i <= Len(s) /\ i \in 1..Len(s)
          \/ ~(i <= Len(s)) /\ i - Len(s) \in 1..Len(t)
      BY ONLY <2>0, i \in 1..(Len(s) + Len(t))
    <3>2. r[i] = IF i <= Len(s) THEN s[i] ELSE t[i - Len(s)]
      BY ONLY <2>0, i \in 1..(Len(s) + Len(t))
    <3> QED
      BY ONLY <3>1, <3>2
  <2>5. ASSUME NEW e \in ToSet(r) PROVE e \in ToSet(s) \cup ToSet(t)
    BY ONLY <2>1, <2>4, <2>5
  <2>6. ASSUME NEW e \in ToSet(s) \cup ToSet(t) PROVE e \in ToSet(r)
    BY ONLY <2>1, <2>2, <2>3, <2>6
  <2> QED
    BY ONLY <2>5, <2>6
<1>3. Rows(r) = Rows(s) \cup Rows(t)
  BY <1>2 DEF Rows
<1>4. ASSUME RowsOnce(s), RowsOnce(t), \A v \in Rows(s), w \in Rows(t) : v.occ # w.occ
      PROVE  RowsOnce(r)
  <2>1. ASSUME NEW w \in Rows(r) PROVE Once(w, r)
    <3> SUFFICES ASSUME NEW i \in 1..(Len(s) + Len(t)), NEW j \in 1..(Len(s) + Len(t)),
                        r[i] = w, r[j] = w
                 PROVE  i = j
      BY <1>1 DEF Once, r
    <3>1. \A k \in 1..(Len(s) + Len(t)) : r[k] = w =>
             \/ k <= Len(s) /\ s[k] = w /\ w \in Rows(s)
             \/ k > Len(s) /\ t[k - Len(s)] = w /\ w \in Rows(t) /\ k - Len(s) \in 1..Len(t)
      <4> SUFFICES ASSUME NEW k \in 1..(Len(s) + Len(t)), r[k] = w
                   PROVE  \/ k <= Len(s) /\ s[k] = w /\ w \in Rows(s)
                          \/ k > Len(s) /\ t[k - Len(s)] = w /\ w \in Rows(t) /\ k - Len(s) \in 1..Len(t)
        OBVIOUS
      <4>1. w.do = "row"
        BY <2>1 DEF Rows
      <4>2. CASE k <= Len(s)
        <5>1. k \in DOMAIN s /\ s[k] = w
          BY <1>1, <4>2 DEF r
        <5> QED
          BY <4>1, <4>2, <5>1 DEF Rows, ToSet
      <4>3. CASE k > Len(s)
        <5>1. k - Len(s) \in 1..Len(t) /\ t[k - Len(s)] = w
          BY <1>1, <4>3 DEF r
        <5>2. w \in ToSet(t)
          BY <1>1, <5>1 DEF ToSet
        <5> QED
          BY <4>1, <4>3, <5>1, <5>2 DEF Rows
      <4> QED
        BY <1>1, <4>2, <4>3
    <3>2. CASE w \in Rows(s)
      <4>1. w \notin Rows(t) /\ Once(w, s)
        BY <1>4, <3>2 DEF RowsOnce
      <4> QED
        BY <1>1, <3>1, <4>1 DEF Once
    <3>3. CASE w \in Rows(t)
      <4>1. w \notin Rows(s) /\ Once(w, t)
        BY <1>4, <3>3 DEF RowsOnce
      <4>2. i - Len(s) = j - Len(s)
        BY <1>1, <3>1, <4>1 DEF Once
      <4> QED
        BY <1>1, <4>2
    <3> QED
      BY <1>3, <2>1, <3>2, <3>3
  <2>2. \A v, w \in Rows(r) : v.occ = w.occ => v = w
    BY <1>3, <1>4 DEF RowsOnce
  <2> QED
    BY <2>1, <2>2 DEF RowsOnce
<1> QED
  BY <1>1, <1>2, <1>3, <1>4 DEF r

\* The write at the head is the only row about its occurrence, if it is one.
LEMMA HeadDone ==
    ASSUME NEW s \in Seq(Writes), s # <<>>
    PROVE  /\ Head(s) \in Writes /\ Tail(s) \in Seq(Writes) /\ Head(s) \in ToSet(s)
           /\ ToSet(s) = {Head(s)} \cup ToSet(Tail(s))
           /\ Rows(Tail(s)) \subseteq Rows(s)
           /\ Head(s).do = "row" => Head(s) \in Rows(s)
           /\ Head(s).do # "row" => Rows(Tail(s)) = Rows(s)
           /\ RowsOnce(s) => /\ RowsOnce(Tail(s))
                             /\ Head(s).do = "row" => /\ About(Tail(s), Head(s).occ) = {}
                                                      /\ Rows(Tail(s)) = Rows(s) \ {Head(s)}
                             /\ \A o : o # Head(s).occ => About(Tail(s), o) = About(s, o)
           /\ SendsLast(s) => /\ SendsLast(Tail(s))
                              /\ Head(s).do = "send" =>
                                    Row(Head(s).occ, "prepared", NoSession) \notin ToSet(s)
<1>1. /\ Head(s) \in Writes /\ Tail(s) \in Seq(Writes)
      /\ ToSet(s) = {Head(s)} \cup ToSet(Tail(s))
      /\ Once(Head(s), s) => Head(s) \notin ToSet(Tail(s))
      /\ \A x : Once(x, s) => Once(x, Tail(s))
  BY FrontMembers
<1>2. Rows(Tail(s)) \subseteq Rows(s) /\ (Head(s).do = "row" => Head(s) \in Rows(s))
  BY <1>1 DEF Rows
<1>3. ASSUME RowsOnce(s)
      PROVE  /\ RowsOnce(Tail(s))
             /\ Head(s).do = "row" => /\ About(Tail(s), Head(s).occ) = {}
                                      /\ Rows(Tail(s)) = Rows(s) \ {Head(s)}
             /\ \A o : o # Head(s).occ => About(Tail(s), o) = About(s, o)
  BY <1>1, <1>2, <1>3 DEF RowsOnce, Rows, About
<1>4. ASSUME SendsLast(s)
      PROVE  /\ SendsLast(Tail(s))
             /\ Head(s).do = "send" => Row(Head(s).occ, "prepared", NoSession) \notin ToSet(s)
  <2>1. /\ Len(Tail(s)) = Len(s) - 1 /\ Len(s) \in Nat /\ Len(s) # 0 /\ Head(s) = s[1]
        /\ \A i \in 1..Len(Tail(s)) : Tail(s)[i] = s[i + 1]
        /\ DOMAIN s = 1..Len(s)
    OBVIOUS
  <2>2. SendsLast(Tail(s))
    BY <1>4, <2>1 DEF SendsLast
  <2>3. ASSUME Head(s).do = "send", NEW j \in 1..Len(s), s[j] = Row(Head(s).occ, "prepared", NoSession)
        PROVE  FALSE
    <3>1. j # 1
      BY <2>1, <2>3 DEF Row
    <3> QED
      BY <1>4, <2>1, <2>3, <3>1 DEF SendsLast
  <2> QED
    BY <2>1, <2>2, <2>3 DEF ToSet
<1>5. Head(s).do # "row" => Rows(Tail(s)) = Rows(s)
  BY <1>1 DEF Rows
<1> QED
  BY <1>1, <1>2, <1>3, <1>4, <1>5

\* There are finitely many occurrences.
LEMMA FiniteOccurrences == \A S \in SUBSET Occurrences : IsFiniteSet(S)
<1>1. IsFiniteSet(Causes) /\ IsFiniteSet(0..(MaxAttempts - 1))
  BY SchedulerAssumption, FS_Interval DEF Causes
<1>2. IsFiniteSet(Occurrences)
  BY <1>1, FS_Product DEF Occurrences
<1> QED
  BY <1>2, FS_Subset

\* Writes that neither prepare nor send.
Plain(todo) == \A w \in ToSet(todo) : w.do # "send" /\ w.state # "prepared"

\* Where nothing is sent nothing is sent too early.
LEMMA SendsLastTogether ==
    ASSUME NEW s \in Seq(Writes), NEW t \in Seq(Writes), SendsLast(s), SendsLast(t),
           Plain(s) \/ Plain(t)
    PROVE  SendsLast(s \o t)
<1> DEFINE r == s \o t
<1>1. /\ Len(s) \in Nat /\ Len(t) \in Nat /\ Len(r) = Len(s) + Len(t)
      /\ \A i \in 1..(Len(s) + Len(t)) : r[i] = IF i <= Len(s) THEN s[i] ELSE t[i - Len(s)]
      /\ DOMAIN s = 1..Len(s) /\ DOMAIN t = 1..Len(t)
  OBVIOUS
<1> HIDE DEF r
<1> SUFFICES ASSUME NEW i \in 1..Len(r), NEW j \in 1..Len(r), i < j, r[i].do = "send",
                    r[j] = Row(r[i].occ, "prepared", NoSession)
             PROVE  FALSE
  BY DEF SendsLast, r
<1>2. CASE j <= Len(s)
  <2>1. i \in 1..Len(s) /\ j \in 1..Len(s) /\ r[i] = s[i] /\ r[j] = s[j]
    BY <1>1, <1>2
  <2> QED
    BY <2>1 DEF SendsLast
<1>3. CASE i > Len(s)
  <2> DEFINE k == i - Len(s)
             l == j - Len(s)
  <2>1. k \in 1..Len(t) /\ l \in 1..Len(t) /\ k < l /\ r[i] = t[k] /\ r[j] = t[l]
    BY <1>1, <1>3
  <2> HIDE DEF k, l
  <2> QED
    BY <2>1 DEF SendsLast
<1>4. CASE i <= Len(s) /\ j > Len(s)
  <2>1. i \in DOMAIN s /\ j - Len(s) \in DOMAIN t /\ r[i] = s[i] /\ r[j] = t[j - Len(s)]
    BY <1>1, <1>4
  <2>2. r[i] \in ToSet(s) /\ r[j] \in ToSet(t)
    BY <2>1 DEF ToSet
  <2>3. r[j].state = "prepared"
    BY DEF Row
  <2> QED
    BY <2>2, <2>3 DEF Plain
<1> QED
  BY <1>1, <1>2, <1>3, <1>4

\* Plain writes send nothing.
LEMMA PlainSendsNothing == \A todo \in Seq(Writes) : Plain(todo) => SendsLast(todo)
<1> SUFFICES ASSUME NEW todo \in Seq(Writes), Plain(todo), NEW i \in 1..Len(todo)
             PROVE  todo[i].do # "send"
  BY DEF SendsLast
<1>1. todo[i] \in ToSet(todo)
  BY DEF ToSet
<1> QED
  BY <1>1 DEF Plain

\* Rows, write-backs and sends are writes.
LEMMA WriteTypes ==
    ASSUME NEW o \in Occurrences, NEW state \in Terminals \cup {"prepared", "started"},
           NEW s \in Sessions \cup {NoSession}
    PROVE  /\ Row(o, state, s) \in Writes /\ Note(o, state) \in Writes /\ Send(o) \in Writes
           /\ Row(o, state, s).do = "row" /\ Row(o, state, s).occ = o
           /\ Row(o, state, s).state = state /\ Row(o, state, s).session = s
           /\ Note(o, state).do = "note" /\ Note(o, state).state = state
           /\ Send(o).do = "send" /\ Send(o).occ = o /\ Send(o).state = "none"
BY DEF Writes, Row, Note, Send

\* The writes of the outcomes of a set of runs.
LEMMA OutcomesAre ==
    ASSUME NEW runs, runs \subseteq Occurrences \X (Sessions \cup {NoSession}),
           IsFiniteSet(runs), NEW state \in Terminals
    PROVE  /\ Outcomes(runs, state) \in Seq(Writes)
           /\ Rows(Outcomes(runs, state)) = {Row(r[1], state, r[2]) : r \in runs}
           /\ Plain(Outcomes(runs, state))
           /\ (\A r, q \in runs : r[1] = q[1] => r = q) => RowsOnce(Outcomes(runs, state))
<1> DEFINE f == [r \in runs |-> Outcome(r[1], state, r[2])]
           todo == Outcomes(runs, state)
<1>1. /\ DOMAIN f = runs
      /\ \A r \in runs : f[r][1] = Row(r[1], state, r[2]) /\ f[r][2] = Note(r[1], state)
  BY DEF Outcome
<1>2. todo = InTurn(f)
  BY DEF Outcomes
<1> HIDE DEF f, todo
<1>3. \A r \in runs : /\ f[r][1] \in Writes /\ f[r][2] \in Writes
                      /\ f[r][1].do = "row" /\ f[r][1].occ = r[1]
                      /\ f[r][2].do = "note"
                      /\ f[r][1].state = state /\ f[r][2].state = state
  <2> TAKE r \in runs
  <2>1. r[1] \in Occurrences /\ r[2] \in Sessions \cup {NoSession}
    OBVIOUS
  <2> QED
    BY <1>1, <2>1, WriteTypes
<1>4. /\ todo \in Seq(Writes)
      /\ \A i \in 1..Len(todo) : \E x \in runs, k \in {1, 2} : todo[i] = f[x][k]
      /\ \A x \in runs : f[x][1] \in ToSet(todo)
      /\ (\A x, y \in runs : f[x][1] = f[y][1] => x = y) /\ (\A x, y \in runs : f[x][1] # f[y][2])
            => \A x \in runs : Once(f[x][1], todo)
  <2>1. DOMAIN f = runs /\ \A x \in runs : f[x][1] \in Writes /\ f[x][2] \in Writes
    BY <1>1, <1>3
  <2> QED
    BY ONLY <1>2, <2>1, IsFiniteSet(runs), TurnIs
<1>5. ASSUME NEW w \in ToSet(todo)
      PROVE  \E r \in runs : w = f[r][1] \/ w = f[r][2]
  <2>1. PICK i \in 1..Len(todo) : w = todo[i]
    BY <1>4 DEF ToSet
  <2>2. PICK x \in runs, k \in {1, 2} : todo[i] = f[x][k]
    BY <1>4
  <2> QED
    BY <2>1, <2>2
<1>6. Rows(todo) = {Row(r[1], state, r[2]) : r \in runs}
  <2>1. ASSUME NEW w \in Rows(todo) PROVE w \in {Row(r[1], state, r[2]) : r \in runs}
    <3>1. PICK r \in runs : w = f[r][1] \/ w = f[r][2]
      BY <1>5 DEF Rows
    <3>2. w = f[r][1]
      BY <1>3, <3>1 DEF Rows
    <3> QED
      BY <1>1, <3>2
  <2>2. ASSUME NEW r \in runs PROVE Row(r[1], state, r[2]) \in Rows(todo)
    BY <1>1, <1>3, <1>4 DEF Rows
  <2> QED
    BY <2>1, <2>2
<1>7. Plain(todo)
  <2>1. \A w \in ToSet(todo) : w.do # "send" /\ w.state = state
    BY <1>3, <1>5
  <2> QED
    BY <2>1 DEF Plain, Terminals
<1>8. ASSUME \A r, q \in runs : r[1] = q[1] => r = q
      PROVE  RowsOnce(todo)
  <2>1. \A x, y \in runs : f[x][1] = f[y][1] => x = y
    BY <1>3, <1>8
  <2>2. \A x, y \in runs : f[x][1] # f[y][2]
    <3>1. \A x, y \in runs : f[x][1].do # f[y][2].do
      BY <1>3
    <3> QED
      BY <3>1
  <2>3. \A x \in runs : Once(f[x][1], todo)
    BY <1>4, <2>1, <2>2
  <2>4. \A w \in Rows(todo) : \E x \in runs : w = f[x][1]
    BY <1>1, <1>6
  <2> QED
    BY <1>3, <1>8, <2>3, <2>4 DEF RowsOnce
<1> QED
  BY <1>4, <1>6, <1>7, <1>8 DEF todo

\* Outcomes without a session.
LEMMA SpawnlessAre ==
    ASSUME NEW occs \in SUBSET Occurrences, NEW state \in Terminals
    PROVE  /\ Spawnless(occs, state) \in Seq(Writes)
           /\ Rows(Spawnless(occs, state)) = {Row(o, state, NoSession) : o \in occs}
           /\ Plain(Spawnless(occs, state))
           /\ RowsOnce(Spawnless(occs, state))
<1> DEFINE runs == occs \X {NoSession}
<1>1. IsFiniteSet(runs)
  BY FiniteOccurrences, FS_Product, FS_Singleton
<1>2. /\ runs \subseteq Occurrences \X (Sessions \cup {NoSession})
      /\ \A r, q \in runs : r[1] = q[1] => r = q
  OBVIOUS
<1>3. {Row(r[1], state, r[2]) : r \in runs} = {Row(o, state, NoSession) : o \in occs}
  <2>1. \A r \in runs : r[1] \in occs /\ r[2] = NoSession
    OBVIOUS
  <2>2. \A o \in occs : <<o, NoSession>> \in runs /\ <<o, NoSession>>[1] = o /\ <<o, NoSession>>[2] = NoSession
    OBVIOUS
  <2> HIDE DEF runs
  <2> QED
    BY <2>1, <2>2
<1>4. Spawnless(occs, state) = Outcomes(runs, state)
  BY DEF Spawnless
<1> HIDE DEF runs
<1> QED
  <2>1. /\ Outcomes(runs, state) \in Seq(Writes)
        /\ Rows(Outcomes(runs, state)) = {Row(r[1], state, r[2]) : r \in runs}
        /\ Plain(Outcomes(runs, state))
        /\ RowsOnce(Outcomes(runs, state))
    BY <1>1, <1>2, OutcomesAre
  <2> QED
    BY <1>3, <1>4, <2>1

\* One outcome.
LEMMA OutcomeIs ==
    ASSUME NEW o \in Occurrences, NEW state \in Terminals \cup {"started"},
           NEW s \in Sessions \cup {NoSession}
    PROVE  /\ Outcome(o, state, s) \in Seq(Writes)
           /\ Rows(Outcome(o, state, s)) = {Row(o, state, s)}
           /\ Plain(Outcome(o, state, s))
           /\ RowsOnce(Outcome(o, state, s)) /\ SendsLast(Outcome(o, state, s))
           /\ \A w \in ToSet(Outcome(o, state, s)) : w.do # "send"
<1> DEFINE t == Outcome(o, state, s)
<1>1. t = <<Row(o, state, s), Note(o, state)>>
  BY DEF Outcome
<1>2. Row(o, state, s) \in Writes /\ Note(o, state) \in Writes
  BY DEF Row, Note, Writes
<1> HIDE DEF t
<1>3. /\ t \in Seq(Writes) /\ Len(t) = 2 /\ DOMAIN t = 1..2
      /\ t[1] = Row(o, state, s) /\ t[2] = Note(o, state)
  BY <1>1, <1>2
<1>4. ToSet(t) = {Row(o, state, s), Note(o, state)}
  BY <1>3 DEF ToSet
<1>5. Rows(t) = {Row(o, state, s)} /\ Plain(t)
  BY <1>4 DEF Rows, Plain, Row, Note, Terminals
<1>6. RowsOnce(t)
  BY <1>3, <1>5 DEF RowsOnce, Once, Row, Note
<1>7. SendsLast(t)
  BY <1>3, <1>5, PlainSendsNothing
<1> QED
  BY <1>3, <1>5, <1>6, <1>7 DEF t, Plain

\* The dispatches of a pass: of one occurrence, or of none.
LEMMA DispatchesAre ==
    ASSUME NEW S \in SUBSET Occurrences, NEW x, S \subseteq {x}
    PROVE  LET todo == InTurn([o \in S |-> Dispatch(o)])
           IN  /\ todo \in Seq(Writes)
               /\ Rows(todo) = {Row(o, "prepared", NoSession) : o \in S}
               /\ \A w \in ToSet(todo) : w.do = "send" => w.occ \in S
               /\ RowsOnce(todo) /\ SendsLast(todo)
<1> DEFINE f == [o \in S |-> Dispatch(o)]
           todo == InTurn(f)
           q == SetToSeq(S)
<1>1. /\ DOMAIN f = S
      /\ \A o \in S : f[o][1] = Row(o, "prepared", NoSession) /\ f[o][2] = Send(o)
  BY DEF Dispatch
<1>2. \A o \in S : f[o][1] \in Writes /\ f[o][2] \in Writes
  BY <1>1, WriteTypes
<1>3. todo = [i \in 1..(2 * Len(q)) |-> f[q[(i + 1) \div 2]][IF i % 2 = 1 THEN 1 ELSE 2]]
  BY <1>1 DEF InTurn
<1>4. /\ Len(q) \in Nat /\ \A i \in 1..Len(q) : q[i] \in S
      /\ \A i, j \in 1..Len(q) : q[i] = q[j] => i = j
      /\ \A y \in S : \E i \in 1..Len(q) : q[i] = y
  BY SetAsSequence, FiniteOccurrences
<1> HIDE DEF f, q, todo
<1>5. CASE S = {}
  <2>1. Len(q) = 0
    BY <1>4, <1>5
  <2>2. todo = <<>>
    BY <1>3, <2>1
  <2> QED
    BY <1>5, <2>2, NothingOwed DEF todo, f
<1>6. CASE S = {x}
  <2>1. Len(q) = 1 /\ q[1] = x
    <3>1. \A i \in 1..Len(q) : i = 1
      <4>1. \A i, j \in 1..Len(q) : i = j
        BY <1>4, <1>6
      <4> QED
        BY <1>4, <4>1
    <3>2. 1 \in 1..Len(q)
      BY <1>4, <1>6, <3>1
    <3> QED
      BY <1>4, <1>6, <3>1, <3>2
  <2>2. todo[1] = f[x][1] /\ todo[2] = f[x][2] /\ DOMAIN todo = 1..2
    BY <1>3, <2>1
  <2>3. todo \in Seq(Writes) /\ Len(todo) = 2
    <3>1. todo \in [1..2 -> Writes]
      BY <1>2, <1>3, <1>6, <2>1, <2>2
    <3>2. \A n \in Nat : \A s \in [1..n -> Writes] : s \in Seq(Writes) /\ Len(s) = n
      OBVIOUS
    <3> QED
      BY <3>1, <3>2
  <2>4. todo[1] = Row(x, "prepared", NoSession) /\ todo[2] = Send(x)
    BY <1>1, <1>6, <2>2
  <2>5. ToSet(todo) = {Row(x, "prepared", NoSession), Send(x)}
    BY <2>2, <2>4 DEF ToSet
  <2>6. Rows(todo) = {Row(x, "prepared", NoSession)}
    BY <2>5 DEF Rows, Row, Send
  <2>7. RowsOnce(todo)
    BY <2>3, <2>4, <2>6 DEF RowsOnce, Once, Row, Send
  <2>8. SendsLast(todo)
    BY <2>3, <2>4 DEF SendsLast, Row, Send
  <2>9. \A w \in ToSet(todo) : w.do = "send" => w.occ \in S
    BY <1>6, <2>5 DEF Row, Send
  <2>10. Rows(todo) = {Row(o, "prepared", NoSession) : o \in S}
    BY <1>6, <2>6
  <2> QED
    BY <2>3, <2>7, <2>8, <2>9, <2>10 DEF todo, f
<1> QED
  BY <1>5, <1>6
-----------------------------------------------------------------------------
(* The handlers, from an idle task t to what they make of it.              *)

Idle(t, holds) == Typed(t) /\ Prepared(t, journal.rows, holds) /\ t.todo = <<>>

\* what the task has in mind is what the journal says
Agrees(b, t) == t.fold = journal /\ InFlight(b, t, journal.rows)

\* The types and what was prepared are kept by the daemons of any home, the agreement
\* where one daemon lives at a time.
Keeps(b, t, u, holds) ==
    /\ Typed(u) /\ Prepared(u, journal.rows, holds) /\ u.pc # "open"
    /\ Agrees(b, t) => /\ Agrees(b, u) /\ RowsFit(u, journal.rows)
                       /\ \A o \in u.awaiting \ t.awaiting : ~journal.rows[o].prepared

\* With nothing owed, memory and journal agree.
LEMMA AtRest ==
    ASSUME NEW t, NEW b, t.todo = <<>>, Agrees(b, t)
    PROVE  /\ \A o \in t.awaiting : o \in PreparedUnresolved(journal.rows) /\ journal.rows[o].writer = b
           /\ \A s \in t.running : /\ Occ(s) \in StartedUnresolved(journal.rows)
                                   /\ journal.rows[Occ(s)].started = s
                                   /\ journal.rows[Occ(s)].writer = b
           /\ \A s \in t.watch : /\ journal.rows[Occ(s)].started = s
                                 /\ journal.rows[Occ(s)].terminal = "unknown"
                                 /\ \A u \in t.running : Occ(u) # Occ(s)
BY NothingOwed DEF Agrees, InFlight

\* The types of a task whose memory moves.
LEMMA OccType == \A s \in Sessions : Occ(s) \in Occurrences /\ s # NoSession
BY SessionAssumption DEF Sessions, Occ

\* A handler that owes nothing, and follows what it followed.
LEMMA NoWrites ==
    ASSUME JournalInv, NEW b, NEW holds, NEW t, Idle(t, holds), NEW u, Typed(u),
           u.todo = <<>>, u.pc # "open", u.pc = "plan" => holds, u.claim # NoSession => u.pc \notin {"open", "plan"},
           u.awaiting = t.awaiting, u.running = t.running, u.watch \subseteq t.watch,
           u.fold = t.fold \/ u.fold = journal
    PROVE  Keeps(b, t, u, holds)
<1>1. Prepared(u, journal.rows, holds)
  BY NothingOwed DEF Idle, Prepared
<1>2. RowsFit(u, journal.rows)
  BY NothingOwed DEF RowsFit
<1>3. Agrees(b, t) => Agrees(b, u)
  BY DEF Agrees, InFlight, Idle
<1> QED
  BY <1>1, <1>2, <1>3 DEF Keeps

\* A handler that owes one outcome, of an occurrence nothing else in flight is about.
OwesOne(b, t, u, o, state, s) ==
    /\ o \in Occurrences /\ state \in Terminals \cup {"started"} /\ s \in Sessions \cup {NoSession}
    /\ Typed(u) /\ u.todo = Outcome(o, state, s) /\ u.pc \notin {"open", "plan"}
    /\ u.fold = t.fold \/ u.fold = journal
    /\ u.awaiting \subseteq t.awaiting /\ u.watch \subseteq t.watch
    /\ u.running \subseteq t.running \cup {s} /\ (state # "started" => u.running \subseteq t.running)
    /\ state = "started" => s \in Sessions /\ Occ(s) = o /\ journal.rows[o].prepared
    /\ Agrees(b, t) =>
          /\ o \notin u.awaiting
          /\ \A r \in u.running : Occ(r) = o => state = "started" /\ r = s
          /\ \A r \in u.watch : Occ(r) # o
          /\ \/ journal.rows[o].terminal = "none"
             \/ state = "started" /\ journal.rows[o].terminal = "unknown"

\* A handler that owes one outcome keeps what the task follows.
LEMMA OneOutcome ==
    ASSUME JournalInv, NEW b, NEW holds, NEW t, Idle(t, holds), NEW u,
           NEW o, NEW state, NEW s, OwesOne(b, t, u, o, state, s)
    PROVE  Keeps(b, t, u, holds)
<1> USE DEF OwesOne
<1> DEFINE J == journal.rows
<1>1. /\ Rows(u.todo) = {Row(o, state, s)} /\ RowsOnce(u.todo) /\ SendsLast(u.todo)
      /\ \A w \in ToSet(u.todo) : w.do # "send"
  <2>1. LET q == Outcome(o, state, s)
        IN  /\ Rows(q) = {Row(o, state, s)} /\ RowsOnce(q) /\ SendsLast(q)
            /\ \A w \in ToSet(q) : w.do # "send"
    BY OutcomeIs
  <2>2. u.todo = Outcome(o, state, s)
    OBVIOUS
  <2> QED
    BY <2>1, <2>2
<1>2. /\ Row(o, state, s).occ = o /\ Row(o, state, s).state = state /\ Row(o, state, s).session = s
      /\ Row(o, state, s).do = "row" /\ state # "prepared"
  BY DEF Row, Terminals
<1>3. \A p : p # o => About(u.todo, p) = {}
  BY <1>1, <1>2 DEF About
<1>4. t.awaiting \subseteq Occurrences /\ t.running \subseteq Sessions /\ t.watch \subseteq Sessions
  BY DEF Idle, Typed
<1>5. Prepared(u, J, holds)
  <2>1. \A p \in u.awaiting : J[p].prepared
    BY NothingOwed DEF Idle, Prepared
  <2>2. \A r \in u.running \cup u.watch : J[Occ(r)].prepared
    BY DEF Idle, Prepared
  <2> QED
    BY <1>1, <1>2, <2>1, <2>2 DEF Prepared
<1>6. ASSUME Agrees(b, t) PROVE Agrees(b, u) /\ RowsFit(u, J)
  <2>1. RowsFit(u, J)
    BY <1>1, <1>2, <1>6 DEF RowsFit
  <2>2. \A p \in u.awaiting : About(u.todo, p) = {} /\ p \in PreparedUnresolved(J) /\ J[p].writer = b
    BY <1>3, <1>6, AtRest DEF Idle
  <2>3. ASSUME NEW r \in u.running
        PROVE  \/ /\ About(u.todo, Occ(r)) = {} /\ Occ(r) \in StartedUnresolved(J)
                  /\ J[Occ(r)].started = r /\ J[Occ(r)].writer = b
               \/ Row(Occ(r), "started", r) \in Rows(u.todo)
    <3>1. CASE Occ(r) = o
      BY <1>1, <1>6, <3>1
    <3>2. CASE Occ(r) # o
      BY <1>3, <1>6, <3>2, AtRest DEF Idle
    <3> QED
      BY <3>1, <3>2
  <2>4. ASSUME NEW r \in u.watch
        PROVE  /\ J[Occ(r)].started = r /\ J[Occ(r)].terminal = "unknown"
               /\ About(u.todo, Occ(r)) = {}
               /\ \A v \in u.running : Occ(v) # Occ(r)
    <3>1. /\ J[Occ(r)].started = r /\ J[Occ(r)].terminal = "unknown"
          /\ \A v \in t.running : Occ(v) # Occ(r)
      BY <1>6, AtRest DEF Idle
    <3>2. Occ(r) # o
      BY <1>6
    <3>3. About(u.todo, Occ(r)) = {}
      BY <1>3, <3>2
    <3> QED
      BY <3>1, <3>2, <3>3
  <2> QED
    BY <1>6, <2>1, <2>2, <2>3, <2>4 DEF Agrees, InFlight
<1> QED
  BY <1>5, <1>6 DEF Keeps

\* A session's outcome (complete_running, fail_running).
LEMMA ConcludedKeeps ==
    ASSUME JournalInv, NEW b, NEW holds, NEW t, Idle(t, holds), t.pc \notin {"open", "plan"},
           NEW s \in t.running, NEW state \in {"completed", "failed"}
    PROVE  Keeps(b, t, Concluded(t, s, state), holds)
<1> DEFINE u == Concluded(t, s, state)
<1>1. s \in Sessions /\ Occ(s) \in Occurrences /\ state \in Terminals
  BY OccType DEF Idle, Typed, Terminals
<1>2. /\ u.todo = Outcome(Occ(s), state, s) /\ u.pc = t.pc /\ u.awaiting = t.awaiting
      /\ u.running = t.running \ {s} /\ u.ended = t.ended \ {s} /\ u.claim = NoSession
      /\ u.watch = t.watch /\ u.fold = t.fold /\ DOMAIN u = DOMAIN t
  BY DEF Concluded, Idle, Typed
<1>3. Typed(u)
  <2>1. u.todo \in Seq(Writes)
    BY <1>1, <1>2, OutcomeIs
  <2>2. IsFiniteSet(u.running)
    BY <1>2, FS_Subset DEF Idle, Typed
  <2> QED
    BY <1>2, <2>1, <2>2 DEF Idle, Typed
<1>4. Agrees(b, t) =>
         /\ Occ(s) \notin t.awaiting
         /\ \A r \in u.running : Occ(r) # Occ(s)
         /\ \A r \in u.watch : Occ(r) # Occ(s)
         /\ journal.rows[Occ(s)].terminal = "none"
  BY <1>2, AtRest DEF Idle, PreparedUnresolved, StartedUnresolved
<1> HIDE DEF u
<1>5. Keeps(b, t, u, holds)
  <2>1. /\ u.awaiting \subseteq t.awaiting /\ u.running \subseteq t.running
        /\ u.watch \subseteq t.watch /\ u.pc \notin {"open", "plan"} /\ state # "started"
    BY <1>2
  <2>2. Agrees(b, t) =>
              /\ Occ(s) \notin u.awaiting
              /\ \A r \in u.running : Occ(r) = Occ(s) => state = "started" /\ r = s
              /\ \A r \in u.watch : Occ(r) # Occ(s)
              /\ \/ journal.rows[Occ(s)].terminal = "none"
                 \/ state = "started" /\ journal.rows[Occ(s)].terminal = "unknown"
    BY <1>2, <1>4
  <2>3. OwesOne(b, t, u, Occ(s), state, s)
    BY <1>1, <1>2, <1>3, <2>1, <2>2 DEF OwesOne
  <2> QED
    BY <2>3, OneOutcome
<1> QED
  BY <1>5 DEF u

\* A session's successor takes its place, or a watched one is taken up again.
LEMMA FollowedKeeps ==
    ASSUME JournalInv, NEW b, NEW holds, NEW t, Idle(t, holds), t.pc \notin {"open", "plan"},
           NEW w, Typed(w), w.watch \subseteq t.watch, w.pc = t.pc, w.awaiting = t.awaiting,
           w.running = t.running, w.fold = t.fold,
           NEW s \in Sessions, NEW v \in Sessions, Occ(v) = Occ(s),
           journal.rows[Occ(s)].prepared,
           Agrees(b, t) =>
              /\ Occ(s) \notin t.awaiting
              /\ \A r \in t.running : Occ(r) = Occ(s) => r = s
              /\ \A r \in w.watch : Occ(r) # Occ(s)
              /\ journal.rows[Occ(s)].terminal \in {"none", "unknown"}
    PROVE  Keeps(b, t, Followed(w, s, v), holds)
<1> DEFINE u == Followed(w, s, v)
<1>1. s \in Sessions /\ Occ(s) \in Occurrences
  BY OccType
<1>2. /\ u.todo = Outcome(Occ(s), "started", v) /\ u.pc = t.pc /\ u.awaiting = t.awaiting
      /\ u.running = (t.running \ {s}) \cup {v} /\ u.ended = w.ended \ {s} /\ u.claim = v
      /\ u.watch = w.watch /\ u.fold = t.fold /\ DOMAIN u = DOMAIN w
  BY DEF Followed, Typed
<1>3. Typed(u)
  <2>a. Outcome(Occ(s), "started", v) \in Seq(Writes)
    BY <1>1, OutcomeIs
  <2>1. u.todo \in Seq(Writes)
    BY <1>2, <2>a
  <2>2. IsFiniteSet(t.running) /\ IsFiniteSet(t.running \ {s})
    BY FS_Subset DEF Idle, Typed
  <2>b. IsFiniteSet((t.running \ {s}) \cup {v})
    BY <2>2, FS_AddElement
  <2>3. IsFiniteSet(u.running)
    BY <1>2, <2>b
  <2> QED
    BY <1>2, <2>1, <2>3 DEF Idle, Typed
<1>4. Agrees(b, t) =>
         \A r \in u.running : Occ(r) = Occ(s) => r = v
  BY <1>2
<1> HIDE DEF u
<1>5. Keeps(b, t, u, holds)
  <2>1. /\ u.awaiting \subseteq t.awaiting /\ u.running \subseteq t.running \cup {v}
        /\ u.watch \subseteq t.watch /\ u.pc \notin {"open", "plan"}
    BY <1>2
  <2>2. Agrees(b, t) =>
              /\ Occ(s) \notin u.awaiting
              /\ \A r \in u.running : Occ(r) = Occ(s) => r = v
              /\ \A r \in u.watch : Occ(r) # Occ(s)
              /\ \/ journal.rows[Occ(s)].terminal = "none"
                 \/ journal.rows[Occ(s)].terminal = "unknown"
    BY <1>2, <1>4
  <2>3. OwesOne(b, t, u, Occ(s), "started", v)
    BY <1>1, <1>2, <1>3, <2>1, <2>2 DEF OwesOne
  <2> QED
    BY <2>3, OneOutcome
<1> QED
  BY <1>5 DEF u

\* The successor a lineage has is a session of the same occurrence.
LEMMA SuccessorIs ==
    ASSUME NEW s \in Sessions, SuccessorTip(s) # {}
    PROVE  LET u == CHOOSE u \in SuccessorTip(s) : TRUE IN u \in Sessions /\ Occ(u) = Occ(s)
BY DEF SuccessorTip, Lineage, Occ

\* An end is final, followed or held (classify_ended_running_session).
LEMMA ClassifiedKeeps ==
    ASSUME JournalInv, NEW b, NEW holds, NEW t, Idle(t, holds), t.pc \notin {"open", "plan"},
           NEW s \in t.running
    PROVE  Keeps(b, t, Classified(t, s), holds)
<1>0. s \in Sessions /\ journal.rows[Occ(s)].prepared
  BY DEF Idle, Typed, Prepared
<1>1. Keeps(b, t, Concluded(t, s, "failed"), holds)
  BY ConcludedKeeps
<1>2. ASSUME SuccessorTip(s) # {}
      PROVE  Keeps(b, t, Followed(t, s, CHOOSE u \in SuccessorTip(s) : TRUE), holds)
  <2>1. Agrees(b, t) =>
              /\ Occ(s) \notin t.awaiting
              /\ \A r \in t.running : Occ(r) = Occ(s) => r = s
              /\ \A r \in t.watch : Occ(r) # Occ(s)
              /\ journal.rows[Occ(s)].terminal \in {"none", "unknown"}
    BY AtRest DEF Idle, PreparedUnresolved, StartedUnresolved
  <2>2. Typed(t)
    BY DEF Idle
  <2> QED
    BY <1>0, <1>2, <2>1, <2>2, SuccessorIs, FollowedKeeps
<1>3. Keeps(b, t, [t EXCEPT !.ended = @ \cup {s}, !.claim = NoSession], holds)
  <2> DEFINE u == [t EXCEPT !.ended = @ \cup {s}, !.claim = NoSession]
  <2>1. /\ Typed(u) /\ u.todo = <<>> /\ u.pc = t.pc /\ u.awaiting = t.awaiting
        /\ u.running = t.running /\ u.watch = t.watch /\ u.fold = t.fold /\ u.claim = NoSession
    BY DEF Idle, Typed
  <2> HIDE DEF u
  <2>2. Keeps(b, t, u, holds)
    BY <2>1, NoWrites
  <2> QED
    BY <2>2 DEF u
<1> QED
  BY <1>1, <1>2, <1>3 DEF Classified

\* The receipt of an awaited dispatch (TaskReceived).
LEMMA ReceivedKeeps ==
    ASSUME JournalInv, NEW b, NEW holds, NEW t, Idle(t, holds), t.pc \notin {"open", "plan"},
           NEW s \in Sessions
    PROVE  Keeps(b, t, Received(t, s), holds)
<1>1. CASE Occ(s) \notin t.awaiting
  BY <1>1, NoWrites DEF Received, Idle
<1>2. CASE Occ(s) \in t.awaiting
  <2> DEFINE u == Received(t, s)
  <2>1. s \in Sessions /\ Occ(s) \in Occurrences /\ journal.rows[Occ(s)].prepared
    BY <1>2, OccType, NothingOwed DEF Idle, Prepared
  <2>2. /\ u.todo = Outcome(Occ(s), "started", s) /\ u.pc = t.pc
        /\ u.awaiting = t.awaiting \ {Occ(s)}
        /\ u.running = t.running \cup {s} /\ u.ended = t.ended /\ u.claim = s
        /\ u.watch = t.watch /\ u.fold = t.fold /\ DOMAIN u = DOMAIN t
    BY <1>2 DEF Received, Idle, Typed
  <2>3. Typed(u)
    <3>a. Outcome(Occ(s), "started", s) \in Seq(Writes)
      BY <2>1, OutcomeIs
    <3>1. u.todo \in Seq(Writes)
      BY <2>2, <3>a
    <3>2. IsFiniteSet(u.running)
      BY <2>2, FS_AddElement DEF Idle, Typed
    <3> QED
      BY <2>2, <3>1, <3>2 DEF Idle, Typed
  <2>4. Agrees(b, t) =>
              /\ \A r \in u.running : Occ(r) = Occ(s) => r = s
              /\ \A r \in u.watch : Occ(r) # Occ(s)
              /\ journal.rows[Occ(s)].terminal = "none"
    BY <1>2, <2>1, <2>2, OccType, AtRest DEF Idle, Typed, PreparedUnresolved, StartedUnresolved, IsStarted
  <2> HIDE DEF u
  <2>5. Keeps(b, t, u, holds)
    <3>1. /\ u.awaiting \subseteq t.awaiting /\ u.running \subseteq t.running \cup {s}
          /\ u.watch \subseteq t.watch /\ u.pc \notin {"open", "plan"}
      BY <2>2
    <3>2. Agrees(b, t) =>
              /\ Occ(s) \notin u.awaiting
              /\ \A r \in u.running : Occ(r) = Occ(s) => r = s
              /\ \A r \in u.watch : Occ(r) # Occ(s)
              /\ \/ journal.rows[Occ(s)].terminal = "none"
                 \/ journal.rows[Occ(s)].terminal = "unknown"
      BY <2>2, <2>4
    <3>3. OwesOne(b, t, u, Occ(s), "started", s)
      BY <2>1, <2>2, <2>3, <3>1, <3>2 DEF OwesOne
    <3> QED
      BY <3>3, OneOutcome
  <2> QED
    BY <2>5 DEF u
<1> QED
  BY <1>1, <1>2

\* What a task makes of an event of its bus (observe_event).
LEMMA ObservedMatches ==
    ASSUME JournalInv, NEW b, NEW holds, NEW t, Idle(t, holds), t.pc \notin {"open", "plan"},
           NEW e \in Events
    PROVE  Keeps(b, t, Observed(t, e), holds)
<1>0. e.session \in Sessions /\ e.type \in {"received", "done", "ended"}
  BY DEF Events
<1>1. Keeps(b, t, Received(t, e.session), holds)
  BY <1>0, ReceivedKeeps
<1>2. Keeps(b, t, [t EXCEPT !.early = Remembered(@, e)], holds)
  <2> DEFINE u == [t EXCEPT !.early = Remembered(@, e)]
  <2>1. /\ Typed(u) /\ u.todo = <<>> /\ u.pc = t.pc /\ u.awaiting = t.awaiting
        /\ u.running = t.running /\ u.watch = t.watch /\ u.fold = t.fold
    BY DEF Idle, Typed
  <2> HIDE DEF u
  <2>2. Keeps(b, t, u, holds)
    BY <2>1, NoWrites
  <2> QED
    BY <2>2 DEF u
<1>3. CASE e.type = "received"
  BY <1>1, <1>3 DEF Observed
<1>4. CASE e.type # "received" /\ e.session \notin t.running
  BY <1>2, <1>4 DEF Observed
<1>5. CASE e.type = "done" /\ e.session \in t.running
  <2>1. Keeps(b, t, Concluded(t, e.session, "completed"), holds)
    BY <1>5, ConcludedKeeps
  <2>2. Observed(t, e) = Concluded(t, e.session, "completed")
    BY <1>5 DEF Observed
  <2> QED
    BY <2>1, <2>2
<1>6. CASE e.type = "ended" /\ e.session \in t.running
  <2>1. Keeps(b, t, Classified(t, e.session), holds)
    BY <1>6, ClassifiedKeeps
  <2>2. Observed(t, e) = Classified(t, e.session)
    BY <1>6 DEF Observed
  <2> QED
    BY <2>1, <2>2
<1> QED
  BY <1>0, <1>3, <1>4, <1>5, <1>6

\* A pass begins by refolding the journal.
LEMMA NextPassIs ==
    ASSUME JournalInv, NEW b, NEW holds, NEW t, Idle(t, holds)
    PROVE  /\ Idle(NextPass(t), holds) /\ NextPass(t).pc = "gate"
           /\ NextPass(t).awaiting = t.awaiting /\ NextPass(t).running = t.running
           /\ NextPass(t).watch = t.watch /\ NextPass(t).claim = t.claim
           /\ Agrees(b, t) => Agrees(b, NextPass(t))
<1> DEFINE u == NextPass(t)
<1>1. /\ u.todo = t.todo /\ u.pc = "gate" /\ u.awaiting = t.awaiting /\ u.claim = t.claim
      /\ u.running = t.running /\ u.watch = t.watch /\ u.fold = journal /\ u.ended = t.ended
      /\ DOMAIN u = DOMAIN t
  BY DEF NextPass, Idle, Typed
<1> HIDE DEF u
<1>2. Typed(u)
  BY <1>1 DEF Typed, Idle, JournalInv
<1>3. Prepared(u, journal.rows, holds)
  BY <1>1 DEF Prepared, Idle
<1>4. Agrees(b, t) => Agrees(b, u)
  BY <1>1 DEF Agrees, InFlight
<1> QED
  BY <1>1, <1>2, <1>3, <1>4 DEF Idle, u

\* The early outcome of the session that just entered `running'.
LEMMA ClaimKeeps ==
    ASSUME JournalInv, NEW b \in Boots, NEW holds, Idle(sched[b], holds), DOMAIN sched = Boots,
           Claim(b)
    PROVE  \E u : Becomes(b, u) /\ Keeps(b, sched[b], u, holds)
<1> DEFINE t == sched[b]
           s == t.claim
           c == [t EXCEPT !.early = OutcomesBut(@, s)]
<1>1. s \in t.running /\ t.pc \notin {"open", "plan"}
  BY DEF Claim, Idle, Typed, Prepared
<1>2. /\ Typed(c) /\ c.todo = <<>> /\ c.pc = t.pc /\ c.awaiting = t.awaiting
      /\ c.running = t.running /\ c.watch = t.watch /\ c.fold = t.fold
  BY DEF Idle, Typed
<1>3. PICK u : /\ sched' = [sched EXCEPT ![b] = u]
               /\ \/ u = [c EXCEPT !.claim = NoSession]
                  \/ u = Concluded(c, s, "completed")
                  \/ u = Classified(c, s)
  <2>1. CASE OutcomesOf(t.early, s) = <<>>
    BY <2>1 DEF Claim
  <2>2. CASE OutcomesOf(t.early, s) # <<>> /\ Head(OutcomesOf(t.early, s)).type = "done"
    BY <2>2 DEF Claim
  <2>3. CASE OutcomesOf(t.early, s) # <<>> /\ Head(OutcomesOf(t.early, s)).type # "done"
    BY <2>3 DEF Claim
  <2> QED
    BY <2>1, <2>2, <2>3
<1>4. /\ Typed([c EXCEPT !.claim = NoSession]) /\ [c EXCEPT !.claim = NoSession].todo = <<>>
      /\ [c EXCEPT !.claim = NoSession].pc = t.pc /\ [c EXCEPT !.claim = NoSession].fold = t.fold
      /\ [c EXCEPT !.claim = NoSession].awaiting = t.awaiting
      /\ [c EXCEPT !.claim = NoSession].running = t.running
      /\ [c EXCEPT !.claim = NoSession].watch = t.watch
      /\ [c EXCEPT !.claim = NoSession].claim = NoSession
  BY DEF Idle, Typed
<1> HIDE DEF c
<1>5. Keeps(b, t, c, holds) /\ Idle(c, holds)
  BY <1>1, <1>2, NoWrites DEF Keeps, Idle
<1>6. Keeps(b, c, Concluded(c, s, "completed"), holds)
  BY <1>1, <1>2, <1>5, ConcludedKeeps
<1>7. Keeps(b, c, Classified(c, s), holds)
  BY <1>1, <1>2, <1>5, ClassifiedKeeps
<1>8. Keeps(b, t, [c EXCEPT !.claim = NoSession], holds)
  <2> DEFINE d == [c EXCEPT !.claim = NoSession]
  <2>1. /\ Typed(d) /\ d.todo = <<>> /\ d.pc = t.pc /\ d.awaiting = t.awaiting
        /\ d.running = t.running /\ d.watch = t.watch /\ d.fold = t.fold /\ d.claim = NoSession
    BY <1>4
  <2> HIDE DEF d
  <2>2. Keeps(b, t, d, holds)
    BY <1>1, <2>1, NoWrites
  <2> QED
    BY <2>2 DEF d
<1>9. Keeps(b, t, u, holds)
  BY <1>3, <1>5, <1>6, <1>7, <1>8 DEF Keeps
<1> QED
  BY <1>3, <1>9 DEF Becomes

\* The sweeps: a dispatch is sent again or given up, a held end is classified again or
\* has failed, a watched session is taken up again or let go.
LEMMA SweepsKeep ==
    ASSUME JournalInv, NEW b \in Boots, NEW holds, Idle(sched[b], holds) \/ ~Settled(b),
           DOMAIN sched = Boots,
           \/ \E o \in Occurrences : Resend(b, o) \/ Abandon(b, o)
           \/ \E s \in Sessions : ReclassifyEnd(b, s) \/ GraceExpires(b, s)
                                  \/ Readopt(b, s) \/ WatchExpires(b, s)
    PROVE  \E u : Becomes(b, u) /\ Keeps(b, sched[b], u, holds)
<1> DEFINE t == sched[b]
<1>0. Idle(t, holds) /\ t.pc = "sweep" /\ t.claim = NoSession /\ t.todo = <<>>
  BY DEF Resend, Abandon, ReclassifyEnd, GraceExpires, Readopt, WatchExpires, At, Settled
<1> SUFFICES \E u : sched' = [sched EXCEPT ![b] = u] /\ Keeps(b, t, u, holds)
  BY DEF Becomes
<1>1. ASSUME NEW o \in Occurrences, Resend(b, o)
      PROVE  \E u : sched' = [sched EXCEPT ![b] = u] /\ Keeps(b, t, u, holds)
  <2> DEFINE u == [t EXCEPT !.todo = <<Send(o)>>]
  <2>1. sched' = [sched EXCEPT ![b] = u] /\ o \in t.awaiting
    BY <1>1 DEF Resend
  <2>2. /\ u.todo = <<Send(o)>> /\ u.pc = "sweep" /\ u.awaiting = t.awaiting
        /\ u.running = t.running /\ u.watch = t.watch /\ u.claim = NoSession
        /\ u.fold = t.fold /\ u.ended = t.ended /\ DOMAIN u = DOMAIN t
    BY <1>0 DEF Idle, Typed
  <2>3. Send(o) \in Writes /\ Send(o).do = "send" /\ Send(o).occ = o
    BY DEF Send, Writes
  <2> HIDE DEF u
  <2>4. /\ u.todo \in Seq(Writes) /\ ToSet(u.todo) = {Send(o)} /\ Len(u.todo) = 1
    BY <2>2, <2>3 DEF ToSet
  <2>5. /\ Rows(u.todo) = {} /\ \A p : About(u.todo, p) = {}
        /\ RowsOnce(u.todo) /\ SendsLast(u.todo)
    BY <2>3, <2>4 DEF Rows, About, RowsOnce, SendsLast
  <2>6. Typed(u)
    BY <1>0, <2>2, <2>4 DEF Idle, Typed
  <2>7. Prepared(u, journal.rows, holds)
    BY <1>0, <2>2, <2>5, NothingOwed DEF Idle, Prepared
  <2>8. RowsFit(u, journal.rows)
    BY <2>1, <2>2, <2>3, <2>4, <2>5 DEF RowsFit
  <2>9. Agrees(b, t) => Agrees(b, u)
    BY <1>0, <2>2, <2>5, NothingOwed DEF Agrees, InFlight
  <2> QED
    BY <2>1, <2>2, <2>6, <2>7, <2>8, <2>9 DEF Keeps
<1>2. ASSUME NEW o \in Occurrences, Abandon(b, o)
      PROVE  \E u : sched' = [sched EXCEPT ![b] = u] /\ Keeps(b, t, u, holds)
  <2> DEFINE u == [t EXCEPT !.awaiting = @ \ {o}, !.todo = Outcome(o, "unknown", NoSession)]
  <2>1. sched' = [sched EXCEPT ![b] = u] /\ o \in t.awaiting
    BY <1>2 DEF Abandon
  <2>2. /\ u.todo = Outcome(o, "unknown", NoSession) /\ u.pc = "sweep"
        /\ u.awaiting = t.awaiting \ {o}
        /\ u.running = t.running /\ u.watch = t.watch /\ u.claim = NoSession
        /\ u.fold = t.fold /\ u.ended = t.ended /\ DOMAIN u = DOMAIN t
    BY <1>0 DEF Idle, Typed
  <2> HIDE DEF u
  <2>3. "unknown" \in Terminals /\ Outcome(o, "unknown", NoSession) \in Seq(Writes)
    BY OutcomeIs DEF Terminals
  <2>4. Typed(u)
    BY <1>0, <2>2, <2>3 DEF Idle, Typed
  <2>5. Agrees(b, t) => /\ \A r \in t.running : Occ(r) # o
                        /\ \A r \in t.watch : Occ(r) # o
                        /\ journal.rows[o].terminal = "none"
    BY <1>0, <2>1, AtRest DEF PreparedUnresolved, StartedUnresolved
  <2>6. OwesOne(b, t, u, o, "unknown", NoSession)
    BY <2>2, <2>3, <2>4, <2>5 DEF OwesOne
  <2> QED
    BY <1>0, <2>1, <2>6, OneOutcome
<1>3. ASSUME NEW s \in Sessions, ReclassifyEnd(b, s) \/ GraceExpires(b, s)
      PROVE  \E u : sched' = [sched EXCEPT ![b] = u] /\ Keeps(b, t, u, holds)
  <2>1. PICK u : /\ sched' = [sched EXCEPT ![b] = u]
                 /\ u = Classified(t, s) \/ u = Concluded(t, s, "failed")
    BY <1>3 DEF ReclassifyEnd, GraceExpires
  <2>2. s \in t.running
    BY <1>0, <1>3 DEF ReclassifyEnd, GraceExpires, Idle, Typed
  <2>3. Keeps(b, t, Classified(t, s), holds) /\ Keeps(b, t, Concluded(t, s, "failed"), holds)
    BY <1>0, <2>2, ClassifiedKeeps, ConcludedKeeps
  <2> QED
    BY <2>1, <2>3
<1>4. ASSUME NEW s \in Sessions, Readopt(b, s) \/ WatchExpires(b, s)
      PROVE  \E u : sched' = [sched EXCEPT ![b] = u] /\ Keeps(b, t, u, holds)
  <2> DEFINE w == [t EXCEPT !.watch = @ \ {s}]
             v == CHOOSE v \in SuccessorTip(s) : TRUE
  <2>1. /\ w.todo = <<>> /\ w.pc = "sweep" /\ w.awaiting = t.awaiting
        /\ w.running = t.running /\ w.watch = t.watch \ {s} /\ w.claim = NoSession
        /\ w.fold = t.fold /\ Typed(w)
    BY <1>0 DEF Idle, Typed
  <2>2. s \in t.watch /\ journal.rows[Occ(s)].prepared
    BY <1>0, <1>4 DEF Readopt, WatchExpires, Idle, Prepared
  <2>3. \/ sched' = [sched EXCEPT ![b] = w]
        \/ /\ sched' = [sched EXCEPT ![b] = Followed(w, s, v)]
           /\ SuccessorTip(s) # {} /\ ~IsFollowed(b, Occ(s))
    <3>1. CASE WatchExpires(b, s)
      BY <3>1 DEF WatchExpires
    <3>2. CASE Readopt(b, s) /\ (StoppedByUser(s) \/ IsFollowed(b, Occ(s)))
      BY <3>2 DEF Readopt
    <3>3. CASE Readopt(b, s) /\ ~(StoppedByUser(s) \/ IsFollowed(b, Occ(s)))
      BY <3>3 DEF Readopt, ReadoptSettles
    <3> QED
      BY <1>4, <3>1, <3>2, <3>3
  <2> HIDE DEF w, v
  <2>4. Keeps(b, t, w, holds) /\ Idle(w, holds)
    <3>1. Keeps(b, t, w, holds)
      BY <1>0, <2>1, NoWrites
    <3> QED
      BY <2>1, <3>1 DEF Keeps, Idle
  <2>5. ASSUME SuccessorTip(s) # {}, ~IsFollowed(b, Occ(s))
        PROVE  Keeps(b, t, Followed(w, s, v), holds)
    <3>1. v \in Sessions /\ Occ(v) = Occ(s)
      BY <2>5, SuccessorIs DEF v
    <3>2. \A r \in t.running : Occ(r) # Occ(s)
      BY <2>5 DEF IsFollowed
    <3>3. Agrees(b, t) =>
              /\ Occ(s) \notin t.awaiting
              /\ \A r \in w.watch : Occ(r) # Occ(s)
              /\ journal.rows[Occ(s)].terminal \in {"none", "unknown"}
      BY <1>0, <2>1, <2>2, AtRest DEF PreparedUnresolved
    <3> QED
      BY <1>0, <2>1, <2>2, <3>1, <3>2, <3>3, FollowedKeeps
  <2> QED
    BY <2>3, <2>4, <2>5
<1> QED
  BY <1>1, <1>2, <1>3, <1>4
-----------------------------------------------------------------------------
(* Planning.                                                               *)

\* What a plan resolves or fires was never started, has no terminal and is not in
\* flight; what it fires was never dispatched (plan()).
Fit(t, occs) ==
    /\ occs \in SUBSET Occurrences
    /\ \A o \in occs : /\ ~IsStarted(t.fold.rows[o]) /\ t.fold.rows[o].terminal = "none"
                       /\ o \notin t.awaiting /\ \A s \in t.running : Occ(s) # o

\* A plan's parts fit the journal it was folded from.
LEMMA PlannedFits ==
    ASSUME NEW t
    PROVE  LET p == Planned(t)
           IN  /\ Fit(t, p.spawn) /\ Fit(t, p.missed) /\ Fit(t, p.crashed)
               /\ \A o \in p.spawn : o \notin p.missed /\ o \notin p.crashed /\ ~t.fold.rows[o].prepared
               /\ \A o \in p.missed : o \notin p.crashed
<1> DEFINE inFlight == t.awaiting \cup {Occ(s) : s \in t.running}
           overlap  == \/ inFlight # {}
                       \/ item.state = "started"
                       \/ StartedUnresolved(t.fold.rows) # {}
           rows == t.fold.rows
           open == Candidates(rows, world.triggered, clock.due, clock.requested) \ inFlight
           crashed == {o \in open : rows[o].prepared}
           missed == {o \in open \ crashed : ~world.triggered /\ o[1] \in clock.stale}
           spawn == IF overlap THEN {} ELSE open \ (crashed \cup missed)
           p == Planned(t)
<1>1. Fit(t, open)
  <2>1. \A o \in open : o \in Occurrences /\ ~IsStarted(rows[o]) /\ rows[o].terminal = "none"
    BY DEF Candidates, CauseAttempts, FirstAttempt
  <2>2. \A o \in open : o \notin inFlight
    OBVIOUS
  <2> HIDE DEF open
  <2>3. \A o \in open : o \notin t.awaiting /\ \A s \in t.running : Occ(s) # o
    BY <2>2
  <2> QED
    BY <2>1, <2>3 DEF Fit
<1>2. \/ p = [crashed |-> {}, missed |-> {}, spawn |-> {}]
      \/ p = [crashed |-> crashed, missed |-> missed, spawn |-> spawn]
  BY DEF Planned, Plan
<1> HIDE DEF open, p, rows, overlap
<1>3. /\ crashed \subseteq open /\ missed \subseteq open /\ spawn \subseteq open
      /\ \A o \in spawn : o \notin missed /\ o \notin crashed /\ ~rows[o].prepared
      /\ \A o \in missed : o \notin crashed
  OBVIOUS
<1> HIDE DEF crashed, missed, spawn
<1>4. \A S : S \subseteq open => Fit(t, S)
  BY <1>1 DEF Fit
<1>5. Fit(t, {})
  BY DEF Fit
<1>6. CASE p = [crashed |-> {}, missed |-> {}, spawn |-> {}]
  <2>1. p.crashed = {} /\ p.missed = {} /\ p.spawn = {}
    BY <1>6
  <2> QED
    BY <1>5, <2>1 DEF p
<1>7. CASE p = [crashed |-> crashed, missed |-> missed, spawn |-> spawn]
  <2>1. p.crashed = crashed /\ p.missed = missed /\ p.spawn = spawn
    BY <1>7
  <2> QED
    BY <1>3, <1>4, <2>1 DEF p, rows
<1> QED
  BY <1>2, <1>6, <1>7

\* One dispatch starts at most, and no refused one.
LEMMA GovernedIs ==
    ASSUME NEW due \in SUBSET Occurrences, NEW go \in Governed(due)
    PROVE  /\ go.start \subseteq due /\ go.refused \subseteq due
           /\ \E x : go.start \subseteq {x}
           /\ \A o \in go.start : o \notin go.refused
<1>1. go.start \subseteq due /\ go.refused \subseteq due
  BY DEF Governed
<1>2. \A o \in Occurrences : o[1] \in Nat
  BY SchedulerAssumption DEF Occurrences, Causes
<1>3. CASE go.start = {}
  BY <1>1, <1>3
<1>4. CASE \E o \in due : go.start = {o} /\ go.refused = {p \in due : p[1] < o[1]}
  <2>1. PICK o \in due : go.start = {o} /\ go.refused = {p \in due : p[1] < o[1]}
    BY <1>4
  <2>2. ~(o[1] < o[1])
    BY <1>2
  <2> QED
    BY <1>1, <2>1, <2>2
<1> QED
  BY <1>3, <1>4 DEF Governed


\* The writes of a pass: what it refuses, what it fires, what it resolves.
LEMMA ActsOwe ==
    ASSUME NEW R \in SUBSET Occurrences, NEW S \in SUBSET Occurrences,
           NEW M \in SUBSET Occurrences, NEW C \in SUBSET Occurrences,
           NEW x, S \subseteq {x},
           \A o \in S : o \notin R /\ o \notin M /\ o \notin C,
           \A o \in R : o \notin M /\ o \notin C, \A o \in M : o \notin C
    PROVE  LET todo == Spawnless(R, "failed") \o InTurn([o \in S |-> Dispatch(o)])
                       \o Spawnless(M, "missed") \o Spawnless(C, "unknown")
           IN  /\ todo \in Seq(Writes) /\ RowsOnce(todo) /\ SendsLast(todo)
               /\ Rows(todo) = {Row(o, "failed", NoSession) : o \in R}
                               \cup {Row(o, "prepared", NoSession) : o \in S}
                               \cup {Row(o, "missed", NoSession) : o \in M}
                               \cup {Row(o, "unknown", NoSession) : o \in C}
               /\ \A w \in ToSet(todo) : w.do = "send" => w.occ \in S
<1> DEFINE r == Spawnless(R, "failed")
           d == InTurn([o \in S |-> Dispatch(o)])
           m == Spawnless(M, "missed")
           c == Spawnless(C, "unknown")
<1>0. \A o, state, session : Row(o, state, session).occ = o
  BY DEF Row
<1>1. /\ r \in Seq(Writes) /\ Rows(r) = {Row(o, "failed", NoSession) : o \in R}
      /\ Plain(r) /\ RowsOnce(r)
  BY SpawnlessAre DEF Terminals
<1>2. /\ m \in Seq(Writes) /\ Rows(m) = {Row(o, "missed", NoSession) : o \in M}
      /\ Plain(m) /\ RowsOnce(m)
  BY SpawnlessAre DEF Terminals
<1>3. /\ c \in Seq(Writes) /\ Rows(c) = {Row(o, "unknown", NoSession) : o \in C}
      /\ Plain(c) /\ RowsOnce(c)
  BY SpawnlessAre DEF Terminals
<1>4. /\ d \in Seq(Writes) /\ Rows(d) = {Row(o, "prepared", NoSession) : o \in S}
      /\ \A w \in ToSet(d) : w.do = "send" => w.occ \in S
      /\ RowsOnce(d) /\ SendsLast(d)
  BY DispatchesAre
<1> HIDE DEF r, d, m, c
<1>5. SendsLast(r) /\ SendsLast(m) /\ SendsLast(c)
  BY <1>1, <1>2, <1>3, PlainSendsNothing
<1>6. /\ r \o d \in Seq(Writes) /\ ToSet(r \o d) = ToSet(r) \cup ToSet(d)
      /\ Rows(r \o d) = Rows(r) \cup Rows(d)
      /\ RowsOnce(r \o d) /\ SendsLast(r \o d)
  <2>1. \A v \in Rows(r), w \in Rows(d) : v.occ # w.occ
    BY <1>0, <1>1, <1>4
  <2> QED
    BY <1>1, <1>4, <1>5, <2>1, OwedTogether, SendsLastTogether
<1> DEFINE rd == r \o d
<1> HIDE DEF rd
<1>7. /\ rd \o m \in Seq(Writes) /\ ToSet(rd \o m) = ToSet(rd) \cup ToSet(m)
      /\ Rows(rd \o m) = Rows(rd) \cup Rows(m)
      /\ RowsOnce(rd \o m) /\ SendsLast(rd \o m)
  <2>1. \A v \in Rows(rd), w \in Rows(m) : v.occ # w.occ
    BY <1>0, <1>1, <1>2, <1>4, <1>6 DEF rd
  <2> QED
    BY <1>2, <1>5, <1>6, <2>1, OwedTogether, SendsLastTogether DEF rd
<1> DEFINE rdm == rd \o m
<1> HIDE DEF rdm
<1>8. /\ rdm \o c \in Seq(Writes) /\ ToSet(rdm \o c) = ToSet(rdm) \cup ToSet(c)
      /\ Rows(rdm \o c) = Rows(rdm) \cup Rows(c)
      /\ RowsOnce(rdm \o c) /\ SendsLast(rdm \o c)
  <2>1. Rows(rdm) = Rows(r) \cup Rows(d) \cup Rows(m)
    BY <1>6, <1>7 DEF rd, rdm
  <2>2. \A v \in Rows(rdm), w \in Rows(c) : v.occ # w.occ
    BY <1>0, <1>1, <1>2, <1>3, <1>4, <2>1
  <2> QED
    BY <1>3, <1>5, <1>7, <2>2, OwedTogether, SendsLastTogether DEF rdm
<1>9. Rows(rdm \o c) = Rows(r) \cup Rows(d) \cup Rows(m) \cup Rows(c)
  BY <1>6, <1>7, <1>8 DEF rd, rdm
<1>10. \A w \in ToSet(rdm \o c) : w.do = "send" => w \in ToSet(d)
  BY <1>1, <1>2, <1>3, <1>6, <1>7, <1>8 DEF rd, rdm, Plain
<1>11. /\ rdm \o c \in Seq(Writes) /\ RowsOnce(rdm \o c) /\ SendsLast(rdm \o c)
       /\ Rows(rdm \o c) = {Row(o, "failed", NoSession) : o \in R}
                               \cup {Row(o, "prepared", NoSession) : o \in S}
                               \cup {Row(o, "missed", NoSession) : o \in M}
                               \cup {Row(o, "unknown", NoSession) : o \in C}
       /\ \A w \in ToSet(rdm \o c) : w.do = "send" => w.occ \in S
  BY <1>1, <1>2, <1>3, <1>4, <1>8, <1>9, <1>10
<1> QED
  BY <1>11 DEF rdm, rd, r, d, m, c

\* Acting on a plan: the occurrences it fires await their receipts, prepared first.
LEMMA ActedMatches ==
    ASSUME JournalInv, NEW b, NEW t, Idle(t, TRUE), t.pc # "open", t.claim = NoSession,
           NEW u \in Acted(t)
    PROVE  Keeps(b, t, u, TRUE)
<1> DEFINE p == Planned(t)
           J == journal.rows
<1>1. /\ Fit(t, p.spawn) /\ Fit(t, p.missed) /\ Fit(t, p.crashed)
      /\ \A o \in p.spawn : o \notin p.missed /\ o \notin p.crashed /\ ~t.fold.rows[o].prepared
      /\ \A o \in p.missed : o \notin p.crashed
  BY PlannedFits
<1>2. PICK go \in Governed(p.spawn) : u = ActOn(t, go)
  BY DEF Acted
<1>3. PICK x : /\ go.start \subseteq p.spawn /\ go.refused \subseteq p.spawn
               /\ go.start \subseteq {x}
               /\ \A o \in go.start : o \notin go.refused
  BY <1>1, GovernedIs DEF Fit
<1> DEFINE todo == Spawnless(go.refused, "failed") \o InTurn([o \in go.start |-> Dispatch(o)])
                   \o Spawnless(p.missed, "missed") \o Spawnless(p.crashed, "unknown")
           S == go.start
<1>4. /\ u.todo = todo /\ u.pc = "sweep" /\ u.awaiting = t.awaiting \cup S
      /\ u.running = t.running /\ u.watch = t.watch /\ u.claim = NoSession
      /\ u.fold = t.fold /\ u.ended = t.ended /\ DOMAIN u = DOMAIN t
  BY <1>2 DEF ActOn, Idle, Typed
<1> HIDE DEF p
<1>5. /\ todo \in Seq(Writes) /\ RowsOnce(todo) /\ SendsLast(todo)
      /\ Rows(todo) = {Row(o, "failed", NoSession) : o \in go.refused}
                      \cup {Row(o, "prepared", NoSession) : o \in S}
                      \cup {Row(o, "missed", NoSession) : o \in p.missed}
                      \cup {Row(o, "unknown", NoSession) : o \in p.crashed}
      /\ \A w \in ToSet(todo) : w.do = "send" => w.occ \in S
  <2>1. /\ go.refused \in SUBSET Occurrences /\ S \in SUBSET Occurrences
        /\ p.missed \in SUBSET Occurrences /\ p.crashed \in SUBSET Occurrences
    BY <1>1, <1>3 DEF Fit
  <2> HIDE DEF S
  <2> QED
    BY <1>1, <1>3, <2>1, ActsOwe DEF S
<1> HIDE DEF todo, S
<1>6. S \subseteq Occurrences /\ Fit(t, S)
  BY <1>1, <1>3 DEF Fit, S
<1>7. ASSUME NEW w \in Rows(todo)
      PROVE  /\ w.state \in {"failed", "prepared", "missed", "unknown"}
             /\ ~IsStarted(t.fold.rows[w.occ]) /\ t.fold.rows[w.occ].terminal = "none"
             /\ w.occ \notin t.awaiting /\ \A s \in t.running : Occ(s) # w.occ
  <2>1. Fit(t, go.refused)
    BY <1>1, <1>3 DEF Fit
  <2>2. \A o, state, session : Row(o, state, session).occ = o /\ Row(o, state, session).state = state
    BY DEF Row
  <2> QED
    BY <1>1, <1>5, <1>6, <2>1, <2>2 DEF Fit
<1>8. Typed(u)
  BY <1>4, <1>5, <1>6 DEF Typed, Idle
<1>9. Prepared(u, J, TRUE)
  <2>1. \A o \in u.awaiting : J[o].prepared \/ Row(o, "prepared", NoSession) \in Rows(u.todo)
    BY <1>4, <1>5, NothingOwed DEF Idle, Prepared
  <2>2. \A w \in Rows(u.todo) : w.state # "started"
    BY <1>4, <1>7
  <2> QED
    BY <1>4, <2>1, <2>2 DEF Idle, Prepared
<1>10. ASSUME Agrees(b, t)
       PROVE  /\ Agrees(b, u) /\ RowsFit(u, J)
              /\ \A o \in u.awaiting \ t.awaiting : ~J[o].prepared
  <2>1. t.fold.rows = J
    BY <1>10 DEF Agrees
  <2>2. \A o : (o \in t.awaiting \/ \E s \in t.running : Occ(s) = o) => About(u.todo, o) = {}
    BY <1>4, <1>7 DEF About
  <2>3. \A s \in t.watch : About(u.todo, Occ(s)) = {}
    <3>1. \A s \in t.watch : IsStarted(J[Occ(s)])
      BY <1>10, AtRest, OccType DEF Idle, Typed, IsStarted
    <3> QED
      BY <1>4, <1>7, <2>1, <3>1 DEF About
  <2>4. RowsFit(u, J)
    BY <1>4, <1>5, <1>7, <2>1 DEF RowsFit
  <2>5. \A o \in u.awaiting : \/ About(u.todo, o) = {} /\ o \in PreparedUnresolved(J) /\ J[o].writer = b
                              \/ Row(o, "prepared", NoSession) \in Rows(u.todo)
    BY <1>4, <1>5, <1>10, <2>2, AtRest DEF Idle
  <2>6. \A s \in u.running : /\ About(u.todo, Occ(s)) = {} /\ Occ(s) \in StartedUnresolved(J)
                             /\ J[Occ(s)].started = s /\ J[Occ(s)].writer = b
    BY <1>4, <1>10, <2>2, AtRest DEF Idle
  <2>7. \A s \in u.watch : /\ J[Occ(s)].started = s
                           /\ \A v \in u.running : Occ(v) # Occ(s)
                           /\ About(u.todo, Occ(s)) = {} /\ J[Occ(s)].terminal = "unknown"
    BY <1>4, <1>10, <2>3, AtRest DEF Idle
  <2>8. u.fold = journal
    BY <1>4, <1>10 DEF Agrees
  <2>9. \A o \in u.awaiting \ t.awaiting : ~J[o].prepared
    BY <1>1, <1>3, <1>4, <2>1 DEF S
  <2> QED
    BY <2>4, <2>5, <2>6, <2>7, <2>8, <2>9 DEF Agrees, InFlight
<1> QED
  BY <1>4, <1>8, <1>9, <1>10 DEF Keeps
-----------------------------------------------------------------------------
(* Recovery.                                                               *)

\* A finite set of runs, one for each member of a finite set.
LEMMA FiniteRuns ==
    ASSUME NEW S, IsFiniteSet(S), NEW f, DOMAIN f = S
    PROVE  IsFiniteSet({f[x] : x \in S})
<1> DEFINE T == {f[x] : x \in S}
           g == [x \in S |-> f[x]]
<1>1. g \in Surjection(S, T)
  BY DEF Surjection
<1> HIDE DEF T, g
<1>2. IsFiniteSet(T)
  BY <1>1, FS_Surjection
<1> QED
  BY <1>2 DEF T

\* What a recovery owes: a row for every run whose writer is dead.
LEMMA RecoveryIs ==
    ASSUME NEW b, NEW fold \in [Occurrences -> Progresses]
    PROVE  LET todo == RecoveryWrites(b, fold)
           IN  /\ todo \in Seq(Writes) /\ RowsOnce(todo) /\ SendsLast(todo) /\ Plain(todo)
               /\ Rows(todo) = {Row(o, "unknown", fold[o].started) : o \in LostSessions(b, fold)}
                               \cup {Row(o, "unknown", NoSession) : o \in LostDispatches(b, fold)}
<1> DEFINE S == LostSessions(b, fold)
           D == LostDispatches(b, fold)
           f == [o \in S |-> <<o, fold[o].started>>]
           runs == {<<o, fold[o].started>> : o \in S}
           N == {Note(o, "unknown") : o \in S \ {item.occ}}
           out == Outcomes(runs, "unknown")
           kept == Without(out, N)
           rest == Spawnless(D, "unknown")
<1>1. /\ S \in SUBSET Occurrences /\ D \in SUBSET Occurrences
      /\ \A o \in S : fold[o].started \in Sessions
      /\ \A o \in S : o \notin D
  BY DEF LostSessions, LostDispatches, StartedUnresolved, PreparedUnresolved, IsStarted, Progresses
<1>2. "unknown" \in Terminals
  BY DEF Terminals
<1>3. RecoveryWrites(b, fold) = kept \o rest
  BY DEF RecoveryWrites
<1>4. runs = {f[o] : o \in S} /\ DOMAIN f = S
  OBVIOUS
<1>5. /\ runs \subseteq Occurrences \X (Sessions \cup {NoSession})
      /\ \A r, q \in runs : r[1] = q[1] => r = q
  BY <1>1
<1>6. {Row(r[1], "unknown", r[2]) : r \in runs} = {Row(o, "unknown", fold[o].started) : o \in S}
  <2>1. \A o \in S : f[o][1] = o /\ f[o][2] = fold[o].started
    OBVIOUS
  <2> HIDE DEF S, f, runs
  <2> QED
    BY <1>4, <2>1
<1> HIDE DEF S, D, f, runs
<1>7. IsFiniteSet(runs)
  <2>1. IsFiniteSet(S)
    BY <1>1, FiniteOccurrences
  <2>2. IsFiniteSet({f[o] : o \in S})
    BY <1>4, <2>1, FiniteRuns
  <2> QED
    BY <1>4, <2>2
<1>8. /\ out \in Seq(Writes) /\ Plain(out) /\ RowsOnce(out)
      /\ Rows(out) = {Row(r[1], "unknown", r[2]) : r \in runs}
  BY <1>2, <1>5, <1>7, OutcomesAre
<1>9. /\ rest \in Seq(Writes) /\ Plain(rest) /\ RowsOnce(rest)
      /\ Rows(rest) = {Row(o, "unknown", NoSession) : o \in D}
  BY <1>1, <1>2, SpawnlessAre
<1>10. \A w \in N : w.do = "note"
  BY DEF Note
<1> HIDE DEF out, rest, N
<1>11. /\ kept \in Seq(Writes) /\ ToSet(kept) = ToSet(out) \ N
       /\ \A w : Once(w, out) => Once(w, kept)
  BY <1>8, WithoutMembers, WithoutOnce
<1> HIDE DEF kept
<1>12. Rows(kept) = Rows(out) /\ Plain(kept)
  BY <1>8, <1>10, <1>11 DEF Rows, Plain
<1>13. RowsOnce(kept)
  BY <1>8, <1>11, <1>12 DEF RowsOnce
<1>14. SendsLast(kept) /\ SendsLast(rest)
  BY <1>9, <1>11, <1>12, PlainSendsNothing
<1>15. \A v \in Rows(kept), w \in Rows(rest) : v.occ # w.occ
  <2>1. \A o, state, session : Row(o, state, session).occ = o
    BY DEF Row
  <2>2. \A v \in Rows(kept) : v.occ \in S
    <3>1. Rows(kept) = {Row(o, "unknown", fold[o].started) : o \in S}
      BY <1>6, <1>8, <1>12
    <3> QED
      BY <2>1, <3>1
  <2>3. \A w \in Rows(rest) : w.occ \in D
    BY <1>9, <2>1
  <2> QED
    BY <1>1, <2>2, <2>3
<1>16. /\ kept \o rest \in Seq(Writes) /\ ToSet(kept \o rest) = ToSet(kept) \cup ToSet(rest)
       /\ Rows(kept \o rest) = Rows(kept) \cup Rows(rest)
       /\ RowsOnce(kept \o rest) /\ SendsLast(kept \o rest)
  BY <1>9, <1>11, <1>12, <1>13, <1>14, <1>15, OwedTogether, SendsLastTogether
<1>17. Plain(kept \o rest)
  BY <1>9, <1>12, <1>16 DEF Plain
<1> QED
  BY <1>3, <1>6, <1>8, <1>9, <1>12, <1>16, <1>17 DEF S, D

\* A recovery by the gate is about runs of other process lives.
LEMMA RecoversMatches ==
    ASSUME JournalInv, NEW b, NEW t, Idle(t, TRUE), t.pc # "open", t.claim = NoSession
    PROVE  Keeps(b, t, [t EXCEPT !.pc = "plan", !.todo = RecoveryWrites(b, t.fold.rows)], TRUE)
<1> DEFINE todo == RecoveryWrites(b, t.fold.rows)
           u == [t EXCEPT !.pc = "plan", !.todo = todo]
           J == journal.rows
           F == t.fold.rows
<1>1. /\ u.todo = todo /\ u.pc = "plan" /\ u.awaiting = t.awaiting /\ u.claim = NoSession
      /\ u.running = t.running /\ u.watch = t.watch /\ u.fold = t.fold /\ u.ended = t.ended
      /\ DOMAIN u = DOMAIN t
  BY DEF Idle, Typed
<1>2. /\ todo \in Seq(Writes) /\ RowsOnce(todo) /\ SendsLast(todo) /\ Plain(todo)
      /\ Rows(todo) = {Row(o, "unknown", F[o].started) : o \in LostSessions(b, F)}
                      \cup {Row(o, "unknown", NoSession) : o \in LostDispatches(b, F)}
  <2>1. F \in [Occurrences -> Progresses]
    BY DEF Idle, Typed
  <2> QED
    BY <2>1, RecoveryIs
<1> HIDE DEF u, todo
<1>3. ASSUME NEW w \in Rows(todo)
      PROVE  /\ w.state = "unknown" /\ F[w.occ].terminal = "none"
             /\ MayResolve(b, F[w.occ].writer) /\ w.occ \in Occurrences
             /\ IsStarted(F[w.occ]) \/ w.occ \in PreparedUnresolved(F)
  <2>1. \A o, state, session : Row(o, state, session).occ = o /\ Row(o, state, session).state = state
    BY DEF Row
  <2> QED
    BY <1>2, <2>1 DEF LostSessions, LostDispatches, StartedUnresolved, PreparedUnresolved
<1>4. Typed(u)
  BY <1>1, <1>2 DEF Idle, Typed
<1>5. Prepared(u, J, TRUE)
  BY <1>1, <1>3, NothingOwed DEF Idle, Prepared
<1>6. ASSUME Agrees(b, t) PROVE Agrees(b, u) /\ RowsFit(u, J)
  <2>1. F = J
    BY <1>6 DEF Agrees
  <2>2. RowsFit(u, J)
    BY <1>1, <1>2, <1>3, <2>1 DEF RowsFit, Plain
  <2>3. \A o : J[o].writer = b \/ J[o].terminal # "none" => About(u.todo, o) = {}
    BY <1>1, <1>3, <2>1 DEF About, MayResolve
  <2>4. \A o \in u.awaiting : About(u.todo, o) = {} /\ o \in PreparedUnresolved(J) /\ J[o].writer = b
    BY <1>1, <1>6, <2>3, AtRest DEF Idle
  <2>5. \A s \in u.running : /\ About(u.todo, Occ(s)) = {} /\ Occ(s) \in StartedUnresolved(J)
                             /\ J[Occ(s)].started = s /\ J[Occ(s)].writer = b
    BY <1>1, <1>6, <2>3, AtRest DEF Idle
  <2>6. \A s \in u.watch : /\ J[Occ(s)].started = s
                           /\ \A v \in u.running : Occ(v) # Occ(s)
                           /\ About(u.todo, Occ(s)) = {} /\ J[Occ(s)].terminal = "unknown"
    <3>1. \A s \in t.watch : /\ J[Occ(s)].started = s /\ J[Occ(s)].terminal = "unknown"
                             /\ \A v \in t.running : Occ(v) # Occ(s)
      BY <1>6, AtRest DEF Idle
    <3> QED
      BY <1>1, <2>3, <3>1
  <2>7. u.fold = journal
    BY <1>1, <1>6 DEF Agrees
  <2> QED
    BY <2>2, <2>4, <2>5, <2>6, <2>7 DEF Agrees, InFlight
<1>7. Keeps(b, t, u, TRUE)
  BY <1>1, <1>4, <1>5, <1>6 DEF Keeps
<1> QED
  BY <1>7 DEF u, todo

\* A pass of the holder recovers, or plans and acts.
LEMMA PassMatches ==
    ASSUME JournalInv, DOMAIN sched = Boots, NEW b \in Boots, Idle(sched[b], TRUE),
           sched[b].pc # "open", sched[b].claim = NoSession, NEW n, PassAsHolder(b, n)
    PROVE  \E u : Becomes(b, u) /\ Keeps(b, sched[b], u, TRUE)
<1> DEFINE t == [sched[b] EXCEPT !.stamp = n]
           lost == RecoveryWrites(b, t.fold.rows)
<1>1. PICK u \in IF lost = <<>> THEN Acted(t)
                 ELSE {[t EXCEPT !.pc = "plan", !.todo = lost]} : sched' = [sched EXCEPT ![b] = u]
  BY DEF PassAsHolder
<1>2. /\ Typed(t) /\ t.todo = <<>> /\ t.pc = sched[b].pc /\ t.claim = NoSession
      /\ t.awaiting = sched[b].awaiting /\ t.running = sched[b].running
      /\ t.watch = sched[b].watch /\ t.fold = sched[b].fold
  BY DEF Idle, Typed
<1> HIDE DEF t
<1>3. Idle(t, TRUE) /\ Keeps(b, sched[b], t, TRUE)
  <2>1. Keeps(b, sched[b], t, TRUE)
    BY <1>2, NoWrites
  <2> QED
    BY <1>2, <2>1 DEF Idle, Keeps
<1>4. Keeps(b, t, u, TRUE)
  <2>1. \A v \in Acted(t) : Keeps(b, t, v, TRUE)
    BY <1>2, <1>3, ActedMatches
  <2>2. Keeps(b, t, [t EXCEPT !.pc = "plan", !.todo = lost], TRUE)
    BY <1>2, <1>3, RecoversMatches
  <2> QED
    BY <1>1, <2>1, <2>2
<1>5. Keeps(b, sched[b], u, TRUE)
  BY <1>2, <1>3, <1>4 DEF Keeps
<1> QED
  BY <1>1, <1>5 DEF Becomes

\* The gate: only a process that holds the lease afterwards goes on to plan.
LEMMA GateMatches ==
    ASSUME JournalInv, LeaseInv, DOMAIN sched = Boots, NEW b \in Boots,
           Typed(sched[b]), Prepared(sched[b], journal.rows, held[b] > 0),
           sched[b].fold.generation \in Nat, Gate(b)
    PROVE  /\ \E u : Becomes(b, u) /\ Keeps(b, sched[b], u, held'[b] > 0)
           /\ UNCHANGED process /\ \A a \in Boots \ {b} : held'[a] = held[a]
<1> DEFINE t == sched[b]
           u == [t EXCEPT !.pc = "sweep"]
<1>0. t.pc = "gate" /\ t.claim = NoSession /\ t.todo = <<>>
  BY DEF Gate, At, Settled
<1>1. \A holds \in BOOLEAN : Idle(t, holds)
  BY <1>0, NothingOwed DEF Idle, Prepared
<1>2. ASSUME sched' = [sched EXCEPT ![b].pc = "sweep"], NEW holds \in BOOLEAN
      PROVE  Becomes(b, u) /\ Keeps(b, t, u, holds)
  <2>1. Becomes(b, u)
    BY <1>2 DEF Becomes
  <2>2. /\ Typed(u) /\ u.todo = <<>> /\ u.pc = "sweep" /\ u.awaiting = t.awaiting
        /\ u.running = t.running /\ u.watch = t.watch /\ u.fold = t.fold /\ u.claim = NoSession
    BY <1>0 DEF Typed
  <2> HIDE DEF u
  <2> QED
    BY <1>1, <2>1, <2>2, NoWrites
<1> HIDE DEF u
<1>3. CASE /\ IF duty[b] THEN PerformDrainEntry(b) ELSE UNCHANGED leaseVars
           /\ sched' = [sched EXCEPT ![b].pc = "sweep"]
  <2>1. UNCHANGED process /\ \A a \in Boots \ {b} : held'[a] = held[a]
    BY <1>3 DEF PerformDrainEntry, Release, leaseVars, LeaseInv, LeaseTypeOK
  <2>2. (held'[b] > 0) \in BOOLEAN
    OBVIOUS
  <2> QED
    BY <1>2, <1>3, <2>1, <2>2
<1>4. CASE held[b] > 0 /\ PassAsHolder(b, sched[b].stamp) /\ UNCHANGED leaseVars
  <2>1. (held'[b] > 0) = TRUE /\ UNCHANGED process /\ \A a \in Boots \ {b} : held'[a] = held[a]
    BY <1>4 DEF leaseVars
  <2>2. Idle(t, TRUE)
    BY <1>1
  <2>3. \E v : Becomes(b, v) /\ Keeps(b, sched[b], v, TRUE)
    BY <1>0, <1>4, <2>2, PassMatches
  <2> QED
    BY <2>1, <2>3
<1>5. CASE PollAcquire(b, sched[b].fold.generation) /\ PassAsHolder(b, held'[b])
  <2>1. held'[b] > sched[b].fold.generation /\ held'[b] \in Nat /\ \A a \in Boots \ {b} : held'[a] = held[a]
    BY <1>5, PollAcquireKeeps
  <2>2. (held'[b] > 0) = TRUE /\ UNCHANGED process
    BY <1>5, <2>1 DEF PollAcquire
  <2>3. Idle(t, TRUE)
    BY <1>1
  <2>4. \E v : Becomes(b, v) /\ Keeps(b, sched[b], v, TRUE)
    BY <1>0, <1>5, <2>3, PassMatches
  <2> QED
    BY <2>1, <2>2, <2>4
<1>6. CASE sched' = [sched EXCEPT ![b].pc = "sweep"] /\ UNCHANGED leaseVars
  <2>1. UNCHANGED process /\ \A a \in Boots \ {b} : held'[a] = held[a]
    BY <1>6 DEF leaseVars
  <2>2. (held'[b] > 0) \in BOOLEAN
    OBVIOUS
  <2> QED
    BY <1>2, <1>6, <2>1, <2>2
<1> QED
  BY <1>3, <1>4, <1>5, <1>6 DEF Gate

\* A new process life: it owes the recovery of all dead writers, and watches the session
\* the item shows.
LEMMA OpenMatches ==
    ASSUME JournalInv, DOMAIN sched = Boots, NEW b \in Boots, NEW holds, Open(b)
    PROVE  \E u : /\ Becomes(b, u) /\ Typed(u) /\ Prepared(u, journal.rows, holds)
                  /\ u.pc # "open" /\ Agrees(b, u) /\ RowsFit(u, journal.rows)
                  /\ u.awaiting = {}
<1> DEFINE J == journal.rows
           todo == RecoveryWrites(b, J)
           watch == Watches(b, J)
           u == [Resting EXCEPT !.pc = "gate", !.fold = journal, !.stamp = held[b],
                                !.todo = todo, !.watch = watch]
<1>1. Becomes(b, u)
  BY DEF Open, Becomes
<1>2. /\ u.todo = todo /\ u.pc = "gate" /\ u.awaiting = {} /\ u.claim = NoSession
      /\ u.running = {} /\ u.watch = watch /\ u.fold = journal /\ u.ended = {}
      /\ DOMAIN u = {"pc", "fold", "stamp", "todo", "claim", "awaiting", "running", "early",
                     "ended", "watch"}
  BY DEF Resting
<1>3. J \in [Occurrences -> Progresses]
  BY DEF JournalInv
<1>4. /\ todo \in Seq(Writes) /\ RowsOnce(todo) /\ SendsLast(todo) /\ Plain(todo)
      /\ Rows(todo) = {Row(o, "unknown", J[o].started) : o \in LostSessions(b, J)}
                      \cup {Row(o, "unknown", NoSession) : o \in LostDispatches(b, J)}
  BY <1>3, RecoveryIs
<1>5. \A s \in watch : \E o \in LostSessions(b, J) : s = J[o].started
  BY DEF Watches
<1> HIDE DEF u, todo, watch
<1>6. ASSUME NEW s \in watch
      PROVE  /\ s \in Sessions /\ J[Occ(s)].started = s /\ J[Occ(s)].prepared
             /\ Row(Occ(s), "unknown", s) \in Rows(todo)
  <2>1. PICK o \in LostSessions(b, J) : s = J[o].started
    BY <1>5
  <2>2. o \in Occurrences /\ IsStarted(J[o])
    BY <2>1 DEF LostSessions, StartedUnresolved
  <2>3. s \in Sessions
    BY <1>3, <2>1, <2>2 DEF Progresses, IsStarted
  <2>4. Occ(s) = o /\ J[o].prepared
    BY <2>1, <2>2 DEF JournalInv
  <2> QED
    BY <1>4, <2>1, <2>3, <2>4
<1>7. Typed(u)
  <2>1. IsFiniteSet({})
    BY FS_EmptySet
  <2> QED
    BY <1>2, <1>3, <1>4, <1>6, <2>1 DEF Typed
<1>8. \A w \in Rows(todo) : w.state = "unknown" /\ J[w.occ].terminal = "none"
  <2>1. \A o, state, session : Row(o, state, session).occ = o /\ Row(o, state, session).state = state
    BY DEF Row
  <2> QED
    BY <1>4, <2>1 DEF LostSessions, LostDispatches, StartedUnresolved, PreparedUnresolved
<1>9. Prepared(u, J, holds)
  BY <1>2, <1>6, <1>8 DEF Prepared
<1>10. RowsFit(u, J)
  BY <1>2, <1>4, <1>8 DEF RowsFit, Plain
<1>11. Agrees(b, u)
  BY <1>2, <1>6 DEF Agrees, InFlight
<1> QED
  BY <1>1, <1>2, <1>7, <1>9, <1>10, <1>11

\* A subscription that lagged: everything in flight goes unknown.
LEMMA LagMatches ==
    ASSUME JournalInv, DOMAIN sched = Boots, NEW b \in Boots, NEW holds,
           Typed(sched[b]), Prepared(sched[b], journal.rows, holds), Lag(b)
    PROVE  \E u : Becomes(b, u) /\ Keeps(b, sched[b], u, holds)
<1> DEFINE t == sched[b]
           J == journal.rows
           runs == {<<Occ(s), s>> : s \in t.running}
           lost == Spawnless(t.awaiting, "unknown")
           ends == Outcomes(runs, "unknown")
           u == [t EXCEPT !.pc = "gate", !.fold = journal, !.awaiting = {}, !.running = {},
                          !.ended = {}, !.todo = lost \o ends]
<1>0. t.todo = <<>> /\ t.claim = NoSession /\ Idle(t, holds)
  BY DEF Lag, Selecting, At, Settled, Idle
<1>1. Becomes(b, u)
  <2>1. DOMAIN t = {"pc", "fold", "stamp", "todo", "claim", "awaiting", "running", "early",
                    "ended", "watch"}
    BY DEF Typed
  <2>2. sched' = [sched EXCEPT
           ![b].pc = "gate", ![b].fold = journal, ![b].awaiting = {}, ![b].running = {}, ![b].ended = {},
           ![b].todo = lost \o ends]
    BY DEF Lag
  <2> HIDE DEF lost, ends
  <2> QED
    BY <2>1, <2>2 DEF Becomes
<1>2. /\ u.todo = lost \o ends /\ u.pc = "gate" /\ u.awaiting = {} /\ u.claim = NoSession
      /\ u.running = {} /\ u.watch = t.watch /\ u.fold = journal /\ u.ended = {}
      /\ DOMAIN u = DOMAIN t
  BY <1>0 DEF Typed
<1>3. "unknown" \in Terminals /\ t.awaiting \in SUBSET Occurrences /\ t.running \subseteq Sessions
  BY DEF Terminals, Typed
<1>4. /\ runs \subseteq Occurrences \X (Sessions \cup {NoSession}) /\ IsFiniteSet(runs)
      /\ \A r \in runs : r[2] \in t.running /\ r[1] = Occ(r[2])
  <2> DEFINE f == [s \in t.running |-> <<Occ(s), s>>]
  <2>1. \A s \in t.running : /\ f[s] \in Occurrences \X (Sessions \cup {NoSession})
                             /\ f[s][1] = Occ(s) /\ f[s][2] = s
    BY <1>3, OccType
  <2>2. runs = {f[s] : s \in t.running} /\ DOMAIN f = t.running
    OBVIOUS
  <2> HIDE DEF f, runs
  <2>3. IsFiniteSet({f[s] : s \in t.running})
    BY <2>2, FiniteRuns DEF Typed
  <2> QED
    BY <2>1, <2>2, <2>3
<1> HIDE DEF runs
<1>5. /\ lost \in Seq(Writes) /\ Plain(lost) /\ RowsOnce(lost)
      /\ Rows(lost) = {Row(o, "unknown", NoSession) : o \in t.awaiting}
  BY <1>3, SpawnlessAre
<1>6. /\ ends \in Seq(Writes) /\ Plain(ends)
      /\ Rows(ends) = {Row(r[1], "unknown", r[2]) : r \in runs}
      /\ (\A r, q \in runs : r[1] = q[1] => r = q) => RowsOnce(ends)
  BY <1>3, <1>4, OutcomesAre
<1> HIDE DEF lost, ends
<1>7. /\ lost \o ends \in Seq(Writes) /\ ToSet(lost \o ends) = ToSet(lost) \cup ToSet(ends)
      /\ Rows(lost \o ends) = Rows(lost) \cup Rows(ends)
      /\ RowsOnce(lost) /\ RowsOnce(ends) /\ (\A v \in Rows(lost), w \in Rows(ends) : v.occ # w.occ)
                 => RowsOnce(lost \o ends)
      /\ Plain(lost \o ends)
  BY <1>5, <1>6, OwedTogether DEF Plain
<1> HIDE DEF u
<1>8. \A o, state, session : Row(o, state, session).occ = o /\ Row(o, state, session).state = state
  BY DEF Row
<1>9. \A w \in Rows(lost) : w.state = "unknown" /\ w.occ \in t.awaiting
  BY <1>5, <1>8
<1>10. \A w \in Rows(ends) : w.state = "unknown" /\ \E s \in t.running : w.occ = Occ(s)
  BY <1>4, <1>6, <1>8
<1>11. Typed(u)
  <2>1. IsFiniteSet({})
    BY FS_EmptySet
  <2> QED
    BY <1>2, <1>7, <2>1 DEF Typed, JournalInv
<1>12. Prepared(u, J, holds)
  <2>1. \A w \in Rows(u.todo) : w.state = "unknown"
    BY <1>2, <1>7, <1>9, <1>10
  <2> QED
    BY <1>2, <2>1 DEF Prepared
<1>13. ASSUME Agrees(b, t) PROVE Agrees(b, u) /\ RowsFit(u, J)
  <2>1. /\ \A o \in t.awaiting : o \in PreparedUnresolved(J)
        /\ \A s \in t.running : Occ(s) \in StartedUnresolved(J) /\ J[Occ(s)].started = s
        /\ \A s \in t.watch : /\ J[Occ(s)].started = s
                              /\ J[Occ(s)].terminal = "unknown"
                              /\ \A v \in t.running : Occ(v) # Occ(s)
    BY <1>0, <1>13, AtRest
  <2>2. RowsOnce(ends)
    <3>1. \A r, q \in runs : r[1] = q[1] => r[2] = q[2]
      BY <1>4, <2>1
    <3>2. \A r, q \in runs : r[1] = q[1] /\ r[2] = q[2] => r = q
      BY <1>4
    <3> QED
      BY <1>6, <3>1, <3>2
  <2>3. \A v \in Rows(lost), w \in Rows(ends) : v.occ # w.occ
    BY <1>9, <1>10, <2>1 DEF PreparedUnresolved, StartedUnresolved
  <2>4. RowsOnce(u.todo) /\ SendsLast(u.todo)
    BY <1>2, <1>5, <1>7, <2>2, <2>3, PlainSendsNothing
  <2>5. \A w \in Rows(u.todo) : w.state = "unknown" /\ J[w.occ].terminal = "none"
    BY <1>2, <1>7, <1>9, <1>10, <2>1 DEF PreparedUnresolved, StartedUnresolved
  <2>6. RowsFit(u, J)
    BY <1>2, <1>7, <2>4, <2>5 DEF RowsFit, Plain
  <2>7. \A s \in u.watch : About(u.todo, Occ(s)) = {}
    BY <1>2, <2>1, <2>5 DEF About
  <2>8. InFlight(b, u, J)
    BY <1>2, <2>1, <2>7 DEF InFlight
  <2> QED
    BY <1>2, <2>6, <2>8 DEF Agrees
<1>14. Keeps(b, t, u, holds)
  BY <1>2, <1>11, <1>12, <1>13 DEF Keeps
<1> QED
  BY <1>1, <1>14

\* Planning after a recovery, a wake-up and an event.
LEMMA SelectMatches ==
    ASSUME JournalInv, DOMAIN sched = Boots, NEW b \in Boots, NEW holds,
           Typed(sched[b]), Prepared(sched[b], journal.rows, holds),
           inbox[b].events \in Seq(Events), holds \in BOOLEAN,
           PlanAndAct(b) \/ Wake(b) \/ Observe(b)
    PROVE  \E u : Becomes(b, u) /\ Keeps(b, sched[b], u, holds)
<1> DEFINE t == sched[b]
<1>0. t.todo = <<>> /\ t.claim = NoSession /\ Idle(t, holds) /\ t.pc # "open"
  BY DEF PlanAndAct, Wake, Observe, Selecting, At, Settled, Idle
<1>1. CASE PlanAndAct(b)
  <2>1. holds = TRUE
    BY <1>1 DEF PlanAndAct, At, Prepared
  <2>2. PICK u \in Acted(t) : sched' = [sched EXCEPT ![b] = u]
    BY <1>1 DEF PlanAndAct
  <2>3. Keeps(b, t, u, TRUE)
    BY <1>0, <2>1, ActedMatches
  <2> QED
    BY <2>1, <2>2, <2>3 DEF Becomes
<1> DEFINE n == NextPass(t)
<1>2. /\ Idle(n, holds) /\ n.pc = "gate" /\ n.awaiting = t.awaiting /\ n.running = t.running
      /\ n.watch = t.watch /\ n.claim = NoSession
      /\ Agrees(b, t) => Agrees(b, n)
  BY <1>0, NextPassIs
<1> HIDE DEF n
<1>3. Keeps(b, n, n, holds)
  BY <1>2, NoWrites DEF Idle
<1>4. CASE Wake(b)
  <2>1. sched' = [sched EXCEPT ![b] = n]
    BY <1>4 DEF Wake, n
  <2> QED
    BY <1>2, <1>3, <2>1 DEF Becomes, Keeps
<1>5. CASE Observe(b)
  <2> DEFINE e == Head(inbox[b].events)
  <2>1. sched' = [sched EXCEPT ![b] = Observed(n, e)]
    BY <1>5 DEF Observe, n
  <2>2. e \in Events
    BY <1>5 DEF Observe
  <2> HIDE DEF e
  <2>3. Keeps(b, n, Observed(n, e), holds)
    BY <1>2, <2>2, ObservedMatches
  <2> QED
    BY <1>2, <2>1, <2>3 DEF Becomes, Keeps
<1> QED
  BY <1>1, <1>4, <1>5
-----------------------------------------------------------------------------
(* The steps.                                                              *)

\* A handler of b's task: it has moved the task's memory only, and kept it true.
Handles(b) ==
    /\ \E u : /\ Becomes(b, u) /\ Typed(u) /\ Prepared(u, journal.rows, held'[b] > 0)
              /\ u.pc # "open"
              /\ RunsInv => /\ Agrees(b, u) /\ RowsFit(u, journal.rows)
                            /\ \A o \in u.awaiting \ sched[b].awaiting : ~journal.rows[o].prepared
    /\ UNCHANGED <<journal, status, tasks, acks, process>>
    /\ inbox' \in Inboxes
    /\ \A a \in Boots \ {b} : held'[a] = held[a]
    /\ Live(b)

\* What one live daemon's task has in mind agrees with the journal, once it is open.
LEMMA AgreesInv ==
    ASSUME RunsInv, NEW b \in Boots, sched[b].pc # "open"
    PROVE  Agrees(b, sched[b])
BY DEF RunsInv, Agrees

\* Every action of a task that is not a write is a handler.
LEMMA HandlersHandle ==
    ASSUME FiringInv, Numbered, NEW b \in Boots,
           \/ Open(b) \/ Gate(b) \/ PlanAndAct(b) \/ Claim(b)
           \/ \E s \in Sessions : ReclassifyEnd(b, s) \/ Readopt(b, s)
           \/ TimeOut(b) \/ Wake(b) \/ Observe(b) \/ Lag(b)
    PROVE  Handles(b)
<1> DEFINE t == sched[b]
           P == Prepared(t, journal.rows, held[b] > 0)
<1>0. /\ LeaseInv /\ JournalInv /\ DOMAIN sched = Boots /\ Typed(t) /\ P
      /\ inbox \in Inboxes
  BY DEF FiringInv, MemoryTyped
<1>1. UNCHANGED <<journal, status, tasks, acks>>
  <2>1. ASSUME \E s \in Sessions : ReclassifyEnd(b, s) \/ Readopt(b, s)
        PROVE  UNCHANGED <<journal, status, tasks, acks>>
    BY <2>1 DEF ReclassifyEnd, Readopt, schedulerOnly
  <2>2. ASSUME TimeOut(b) PROVE UNCHANGED <<journal, status, tasks, acks>>
    BY <2>2 DEF TimeOut, Resend, Abandon, GraceExpires, WatchExpires, schedulerOnly
  <2>3. ASSUME Open(b) \/ Gate(b) \/ PlanAndAct(b) \/ Claim(b) \/ Wake(b) \/ Observe(b) \/ Lag(b)
        PROVE  UNCHANGED <<journal, status, tasks, acks>>
    BY <2>3 DEF Open, Gate, PlanAndAct, Claim, Wake, Observe, Lag, schedulerOnly
  <2> QED
    BY <2>1, <2>2, <2>3
<1>2. Live(b)
  <2>1. ASSUME \E s \in Sessions : ReclassifyEnd(b, s) \/ Readopt(b, s)
        PROVE  Live(b)
    BY <2>1 DEF ReclassifyEnd, Readopt, At
  <2>2. ASSUME TimeOut(b) PROVE Live(b)
    BY <2>2 DEF TimeOut, Resend, Abandon, GraceExpires, WatchExpires, At
  <2>3. ASSUME Open(b) \/ Gate(b) \/ PlanAndAct(b) \/ Claim(b) \/ Wake(b) \/ Observe(b) \/ Lag(b)
        PROVE  Live(b)
    BY <2>3 DEF Open, Gate, PlanAndAct, Claim, Wake, Observe, Lag, Selecting, At
  <2> QED
    BY <2>1, <2>2, <2>3
<1>3. inbox' \in Inboxes
  <2>1. CASE Observe(b)
    <3>1. inbox' = [inbox EXCEPT ![b].events = Tail(@)] /\ inbox[b].events # <<>>
      BY <2>1 DEF Observe
    <3>2. Tail(inbox[b].events) \in Seq(Events)
      BY <1>0, <3>1 DEF Inboxes
    <3>3. [inbox[b] EXCEPT !.events = Tail(inbox[b].events)] \in [events : Seq(Events), lagged : BOOLEAN]
      BY <1>0, <3>2 DEF Inboxes
    <3>4. inbox' = [inbox EXCEPT ![b] = [inbox[b] EXCEPT !.events = Tail(inbox[b].events)]]
      BY <3>1
    <3> QED
      BY <1>0, <3>3, <3>4 DEF Inboxes
  <2>2. CASE Lag(b)
    <3>1. inbox' = [inbox EXCEPT ![b].lagged = FALSE]
      BY <2>2 DEF Lag
    <3> QED
      BY <1>0, <3>1 DEF Inboxes
  <2>3. ASSUME \/ Open(b) \/ Gate(b) \/ PlanAndAct(b) \/ Claim(b) \/ Wake(b)
               \/ \E s \in Sessions : ReclassifyEnd(b, s) \/ Readopt(b, s)
        PROVE  UNCHANGED inbox
    BY <2>3 DEF Open, Gate, PlanAndAct, Claim, Wake, ReclassifyEnd, Readopt
  <2>4. ASSUME TimeOut(b) PROVE UNCHANGED inbox
    BY <2>4 DEF TimeOut, Resend, Abandon, GraceExpires, WatchExpires
  <2> QED
    BY <1>0, <2>1, <2>2, <2>3, <2>4
<1>4. (held[b] > 0) \in BOOLEAN
  OBVIOUS
<1>5. ASSUME UNCHANGED leaseVars, \E u : Becomes(b, u) /\ Keeps(b, t, u, held[b] > 0), t.pc # "open"
      PROVE  Handles(b)
  <2>1. PICK u : Becomes(b, u) /\ Keeps(b, t, u, held[b] > 0)
    BY <1>5
  <2>2. held' = held /\ process' = process
    BY <1>5 DEF leaseVars
  <2>3. RunsInv => Agrees(b, t)
    BY <1>5, AgreesInv
  <2> QED
    BY <1>1, <1>2, <1>3, <2>1, <2>2, <2>3 DEF Handles, Keeps
<1>6. CASE Open(b)
  <2>1. PICK u : /\ Becomes(b, u) /\ Typed(u) /\ Prepared(u, journal.rows, held[b] > 0)
                 /\ u.pc # "open" /\ Agrees(b, u) /\ RowsFit(u, journal.rows)
                 /\ u.awaiting = {}
    BY <1>0, <1>6, OpenMatches
  <2>2. held' = held /\ process' = process
    BY <1>6 DEF Open, leaseVars
  <2> QED
    BY <1>1, <1>2, <1>3, <2>1, <2>2 DEF Handles
<1>7. CASE Gate(b)
  <2>1. sched[b].fold.generation \in Nat
    BY DEF Numbered
  <2>2. /\ \E u : Becomes(b, u) /\ Keeps(b, t, u, held'[b] > 0)
        /\ UNCHANGED process /\ \A a \in Boots \ {b} : held'[a] = held[a]
    BY <1>0, <1>7, <2>1, GateMatches
  <2>3. RunsInv => Agrees(b, t)
    BY <1>7, AgreesInv DEF Gate, At
  <2> QED
    BY <1>1, <1>2, <1>3, <2>2, <2>3 DEF Handles, Keeps
<1>8. CASE PlanAndAct(b) \/ Wake(b) \/ Observe(b)
  <2>1. UNCHANGED leaseVars /\ t.pc # "open"
    BY <1>8 DEF PlanAndAct, Wake, Observe, Selecting, At
  <2>2. inbox[b].events \in Seq(Events)
    BY <1>0 DEF Inboxes
  <2>3. \E u : Becomes(b, u) /\ Keeps(b, t, u, held[b] > 0)
    BY <1>0, <1>4, <1>8, <2>2, SelectMatches
  <2> QED
    BY <1>5, <2>1, <2>3
<1>9. CASE Lag(b)
  <2>1. UNCHANGED leaseVars /\ t.pc # "open"
    BY <1>9 DEF Lag, Selecting, At
  <2>2. \E u : Becomes(b, u) /\ Keeps(b, t, u, held[b] > 0)
    BY <1>0, <1>9, LagMatches
  <2> QED
    BY <1>5, <2>1, <2>2
<1>10. CASE Claim(b)
  <2>1. UNCHANGED leaseVars /\ t.todo = <<>> /\ t.claim # NoSession
    BY <1>10 DEF Claim
  <2>2. t.pc # "open" /\ Idle(t, held[b] > 0)
    BY <1>0, <2>1 DEF Prepared, Idle
  <2>3. \E u : Becomes(b, u) /\ Keeps(b, t, u, held[b] > 0)
    BY <1>0, <1>10, <2>2, ClaimKeeps
  <2> QED
    BY <1>5, <2>1, <2>2, <2>3
<1>11. CASE \/ \E s \in Sessions : ReclassifyEnd(b, s) \/ Readopt(b, s)
            \/ TimeOut(b)
  <2>1. \/ \E o \in Occurrences : Resend(b, o) \/ Abandon(b, o)
        \/ \E s \in Sessions : ReclassifyEnd(b, s) \/ GraceExpires(b, s)
                               \/ Readopt(b, s) \/ WatchExpires(b, s)
    BY <1>11 DEF TimeOut
  <2>2. UNCHANGED leaseVars /\ At(b, "sweep")
    BY <2>1 DEF Resend, Abandon, ReclassifyEnd, GraceExpires, Readopt, WatchExpires
  <2>3. t.pc # "open" /\ Idle(t, held[b] > 0)
    BY <1>0, <2>2 DEF At, Settled, Idle
  <2>4. \E u : Becomes(b, u) /\ Keeps(b, t, u, held[b] > 0)
    BY <1>0, <2>1, <2>3, SweepsKeep
  <2> QED
    BY <1>5, <2>2, <2>3, <2>4
<1> QED
  BY <1>6, <1>7, <1>8, <1>9, <1>10, <1>11

\* A handler keeps what every home keeps, and what a home with one daemon keeps.
LEMMA HandledKeeps ==
    ASSUME FiringInv, LeaseInv', NEW b \in Boots, Handles(b)
    PROVE  FiringInv' /\ (RunsInv => RunsInv')
<1>1. PICK u : /\ Becomes(b, u) /\ Typed(u) /\ Prepared(u, journal.rows, held'[b] > 0)
               /\ u.pc # "open"
               /\ RunsInv => /\ Agrees(b, u) /\ RowsFit(u, journal.rows)
                             /\ \A o \in u.awaiting \ sched[b].awaiting : ~journal.rows[o].prepared
  BY DEF Handles
<1>2. /\ UNCHANGED <<journal, status, tasks, acks, process>> /\ inbox' \in Inboxes
      /\ \A a \in Boots \ {b} : held'[a] = held[a]
      /\ Live(b)
  BY DEF Handles
<1>3. /\ DOMAIN sched' = Boots /\ sched'[b] = u /\ \A a \in Boots \ {b} : sched'[a] = sched[a]
  BY <1>1 DEF Becomes
<1>4. JournalInv'
  BY <1>2 DEF FiringInv, JournalInv
<1>5. MemoryTyped'
  BY <1>1, <1>2, <1>3 DEF FiringInv, MemoryTyped
<1>6. \A a \in Boots : Prepared(sched'[a], journal.rows, held'[a] > 0)
  BY <1>1, <1>2, <1>3 DEF FiringInv
<1>7. FiringInv'
  BY <1>2, <1>4, <1>5, <1>6 DEF FiringInv
<1>8. ASSUME RunsInv PROVE RunsInv'
  <2>1. \A a, c \in Boots : Live(a)' /\ Live(c)' => a = c
    BY <1>2, <1>8 DEF RunsInv, Live
  <2>2. ASSUME NEW a \in Boots
        PROVE  /\ ~Live(a)' => sched'[a] = Resting /\ tasks'[a] = {}
               /\ sched'[a].pc = "open" => sched'[a] = Resting
               /\ sched'[a].pc # "open" => sched'[a].fold = journal'
               /\ RowsFit(sched'[a], journal'.rows)
               /\ InFlight(a, sched'[a], journal'.rows)
    <3>1. CASE a = b
      BY <1>1, <1>2, <1>3, <1>8, <3>1 DEF Agrees, Live
    <3>2. CASE a # b
      BY <1>2, <1>3, <1>8, <3>2 DEF RunsInv, Live
    <3> QED
      BY <3>1, <3>2
  <2>3. Fired'
    <3>1. \A a \in Boots, o \in Occurrences : Launched(a, o)' = Launched(a, o) /\ tasks'[a] = tasks[a]
      BY <1>2 DEF Launched
    <3>2. \A a \in Boots, o \in Occurrences : a # b => (FiredBy(a, o)' <=> FiredBy(a, o))
      BY <1>3, <3>1 DEF FiredBy
    <3>3. \A o \in Occurrences : FiredBy(b, o)' => FiredBy(b, o) \/ ~journal.rows[o].prepared
      BY <1>1, <1>3, <1>8, <3>1 DEF FiredBy
    <3>4. \A a \in Boots, o \in Occurrences : a # b /\ FiredBy(a, o) => journal.rows[o].prepared
      <4>1. \A a \in Boots : a # b => sched[a].awaiting = {}
        BY <1>2, <1>8 DEF RunsInv, Resting
      <4> QED
        BY <1>8, <4>1 DEF RunsInv, Fired, FiredBy
    <3>5. \A a, c \in Boots, o \in Occurrences : FiredBy(a, o)' /\ FiredBy(c, o)' => a = c
      BY <1>8, <3>2, <3>3, <3>4 DEF RunsInv, Fired
    <3>6. \A a \in Boots, o \in Occurrences : (Launched(a, o) \/ o \in tasks[a])' => journal'.rows[o].prepared
      BY <1>2, <1>8, <3>1 DEF RunsInv, Fired
    <3> QED
      BY <3>5, <3>6 DEF Fired
  <2> QED
    BY <2>1, <2>2, <2>3 DEF RunsInv
<1> QED
  BY <1>7, <1>8

\* What is prepared stays prepared.
StaysPrepared(J, K) == \A o \in Occurrences : J[o].prepared => K[o].prepared

\* A task that prepared what it has in flight still did when more is prepared.
LEMMA PreparedMonotone ==
    ASSUME NEW t, Typed(t), NEW J, NEW K, StaysPrepared(J, K), NEW h, NEW g, h => g,
           Prepared(t, J, h)
    PROVE  Prepared(t, K, g)
<1>1. \A w \in Rows(t.todo) : w.occ \in Occurrences
  <2>1. ToSet(t.todo) \subseteq Writes
    BY SequenceMembers DEF Typed
  <2> QED
    BY <2>1 DEF Rows, Writes
<1>2. \A s \in t.running \cup t.watch : Occ(s) \in Occurrences
  BY OccType DEF Typed
<1> QED
  BY <1>1, <1>2 DEF Prepared, StaysPrepared, Typed

\* The fold of a row.
LEMMA RowFolds ==
    ASSUME JournalInv, NEW b \in Boots, NEW w \in Writes, AppendRow(b, w),
           w.state = "started" => /\ journal.rows[w.occ].prepared
                                  /\ w.session \in Sessions /\ Occ(w.session) = w.occ
    PROVE  LET o == w.occ
               J == journal.rows
               K == journal'.rows
           IN  /\ o \in Occurrences /\ \A p \in Occurrences : p # o => K[p] = J[p]
               /\ w.state = "prepared" => /\ K[o].prepared /\ K[o].writer = b
                                          /\ K[o].started = J[o].started
                                          /\ K[o].terminal = J[o].terminal
               /\ w.state = "started" => /\ K[o].prepared /\ K[o].writer = b
                                         /\ K[o].started = w.session
                                         /\ K[o].terminal = "none"
               /\ w.state \notin {"prepared", "started"} =>
                                         /\ K[o].prepared = J[o].prepared /\ K[o].writer = J[o].writer
                                         /\ K[o].started = J[o].started /\ K[o].terminal = w.state
               /\ JournalInv' /\ StaysPrepared(J, K)
<1> DEFINE o == w.occ
           J == journal.rows
           K == journal'.rows
           row == [state |-> w.state, session |-> w.session, boot |-> b]
<1>1. /\ o \in Occurrences /\ w.state \in Terminals \cup {"none", "prepared", "started"}
      /\ w.session \in Sessions \cup {NoSession}
  BY DEF Writes
<1>2. J \in [Occurrences -> Progresses] /\ J[o] \in Progresses
  BY <1>1 DEF JournalInv
<1>3. K = [J EXCEPT ![o] = FoldRow(J[o], row)]
  BY DEF AppendRow
<1>4. row.state = w.state /\ row.session = w.session /\ row.boot = b
  OBVIOUS
<1> HIDE DEF o, J, K, row
<1>5. K[o] = FoldRow(J[o], row) /\ \A p \in Occurrences : p # o => K[p] = J[p]
  BY <1>1, <1>2, <1>3
<1>6. /\ w.state = "prepared" => /\ K[o].prepared /\ K[o].writer = b
                                 /\ K[o].started = J[o].started
                                 /\ K[o].terminal = J[o].terminal
                                 /\ K[o] \in Progresses
      /\ w.state = "started" => /\ K[o].prepared /\ K[o].writer = b
                                /\ K[o].started = w.session
                                /\ K[o].terminal = "none"
                                /\ K[o] \in Progresses
      /\ w.state \notin {"prepared", "started"} =>
                                /\ K[o].prepared = J[o].prepared /\ K[o].writer = J[o].writer
                                /\ K[o].started = J[o].started /\ K[o].terminal = w.state
                                /\ K[o] \in Progresses
  <2> DEFINE p == J[o]
  <2>1. p \in Progresses /\ K[o] = FoldRow(p, row)
    BY <1>2, <1>5
  <2> HIDE DEF p
  <2>2. CASE w.state = "prepared"
    <3>1. K[o] = [p EXCEPT !.prepared = TRUE, !.writer = b]
      BY ONLY <1>4, <2>1, <2>2 DEF FoldRow
    <3>2. /\ K[o].prepared /\ K[o].writer = b /\ K[o].started = p.started
          /\ K[o].terminal = p.terminal /\ K[o] \in Progresses
      BY ONLY <2>1, <3>1, b \in Boots DEF Progresses
    <3> QED
      BY <2>2, <3>2 DEF p
  <2>3. CASE w.state = "started"
    <3>1. K[o] = [p EXCEPT !.prepared = TRUE, !.started = w.session,
                           !.writer = b, !.terminal = "none"]
      BY ONLY <1>4, <2>1, <2>3 DEF FoldRow
    <3>2. /\ K[o].prepared /\ K[o].writer = b /\ K[o].started = w.session
          /\ K[o].terminal = "none" /\ K[o] \in Progresses
      BY ONLY <1>1, <2>1, <3>1, b \in Boots DEF Progresses
    <3> QED
      BY <2>3, <3>2
  <2>4. CASE w.state \notin {"prepared", "started"}
    <3>1. K[o] = [p EXCEPT !.terminal = w.state]
      BY ONLY <1>4, <2>1, <2>4 DEF FoldRow
    <3>2. w.state \in Terminals \cup {"none"}
      BY ONLY <1>1, <2>4
    <3>3. /\ K[o].prepared = p.prepared /\ K[o].writer = p.writer /\ K[o].started = p.started
          /\ K[o].terminal = w.state /\ K[o] \in Progresses
      BY ONLY <2>1, <3>1, <3>2 DEF Progresses
    <3> QED
      BY <2>4, <3>3 DEF p
  <2> QED
    BY <2>2, <2>3, <2>4
<1>7. K \in [Occurrences -> Progresses]
  BY <1>1, <1>2, <1>3, <1>5, <1>6
<1>8. StaysPrepared(J, K)
  BY <1>5, <1>6 DEF StaysPrepared
<1>9. \A p \in Occurrences : IsStarted(K[p]) => K[p].prepared /\ Occ(K[p].started) = p
  <2>1. \A p \in Occurrences : IsStarted(J[p]) => J[p].prepared /\ Occ(J[p].started) = p
    BY DEF JournalInv, J
  <2>2. IsStarted(K[o]) => K[o].prepared /\ Occ(K[o].started) = o
    <3>1. CASE w.state = "started"
      BY <1>6, <3>1 DEF o
    <3>2. CASE w.state # "started"
      BY <1>1, <1>6, <2>1, <3>2 DEF IsStarted
    <3> QED
      BY <3>1, <3>2
  <2> QED
    BY <1>5, <2>1, <2>2
<1>10. JournalInv'
  BY <1>7, <1>9 DEF JournalInv, K
<1> QED
  BY <1>1, <1>5, <1>6, <1>8, <1>10 DEF o, J, K

\* One write of b's task: the row, the write-back or the send at the head.
Wrote(b) ==
    LET w == Head(sched[b].todo)
    IN  /\ sched[b].todo # <<>>
        /\ \/ w.do = "row" /\ AppendRow(b, w)
           \/ w.do = "note" /\ WriteBack(b, w)
           \/ w.do = "send" /\ SendStartTask(b, w)
        /\ UNCHANGED <<leaseVars, status, host, inbox, acks>>
        /\ Live(b)

\* The task after a write: one write less, and after a row the fold is the journal.
LEMMA WroteTask ==
    ASSUME FiringInv, NEW b \in Boots, Wrote(b)
    PROVE  LET t == sched[b]
               u == sched'[b]
               w == Head(t.todo)
           IN  /\ w \in Writes /\ t.pc # "open" /\ t.todo \in Seq(Writes) /\ t.todo # <<>>
               /\ DOMAIN sched' = Boots /\ \A a \in Boots \ {b} : sched'[a] = sched[a]
               /\ u.todo = Tail(t.todo) /\ u.pc = t.pc /\ u.awaiting = t.awaiting
               /\ u.running = t.running /\ u.watch = t.watch /\ u.claim = t.claim
               /\ DOMAIN u = DOMAIN t /\ u.ended = t.ended
               /\ IF w.do = "row" THEN AppendRow(b, w) /\ u.fold = journal'
                                  ELSE UNCHANGED journal /\ u.fold = t.fold
               /\ w.do = "row" /\ w.state = "started" =>
                        /\ journal.rows[w.occ].prepared
                        /\ w.session \in Sessions /\ Occ(w.session) = w.occ
               /\ w.do = "row" /\ w.state = "prepared" => held[b] > 0
               /\ IF w.do = "send" THEN tasks' = [tasks EXCEPT ![b] = @ \cup {w.occ}]
                                   ELSE UNCHANGED tasks
<1> DEFINE t == sched[b]
           w == Head(t.todo)
<1>1. /\ Typed(t) /\ Prepared(t, journal.rows, held[b] > 0) /\ DOMAIN sched = Boots
      /\ t.todo # <<>> /\ t.todo \in Seq(Writes)
  BY DEF FiringInv, MemoryTyped, Wrote, Typed
<1>2. w \in Writes /\ (w.do = "row" => w \in Rows(t.todo))
  BY <1>1, HeadDone
<1>3. t.pc # "open"
  BY <1>1 DEF Prepared
<1>4. /\ w.do = "row" /\ w.state = "started" =>
                        /\ journal.rows[w.occ].prepared
                        /\ w.session \in Sessions /\ Occ(w.session) = w.occ
      /\ w.do = "row" /\ w.state = "prepared" => held[b] > 0
  BY <1>1, <1>2 DEF Prepared
<1>5. DOMAIN t = {"pc", "fold", "stamp", "todo", "claim", "awaiting", "running", "early",
                   "ended", "watch"}
  BY <1>1 DEF Typed
<1>6. CASE w.do = "row"
  <2>1. AppendRow(b, w)
    BY <1>6 DEF Wrote
  <2>2. sched' = [sched EXCEPT ![b].fold = journal', ![b].todo = Tail(@)] /\ UNCHANGED tasks
    BY <2>1 DEF AppendRow
  <2>3. sched' = [sched EXCEPT ![b] = [t EXCEPT !.fold = journal', !.todo = Tail(t.todo)]]
    BY <1>1, <1>5, <2>2
  <2> QED
    BY <1>1, <1>2, <1>3, <1>4, <1>5, <1>6, <2>1, <2>2, <2>3
<1>7. CASE w.do # "row"
  <2>1. /\ sched' = [sched EXCEPT ![b] = [t EXCEPT !.todo = Tail(t.todo)]] /\ UNCHANGED journal
        /\ w.do = "note" => UNCHANGED tasks
        /\ w.do = "send" => tasks' = [tasks EXCEPT ![b] = @ \cup {w.occ}]
    BY <1>7 DEF Wrote, WriteBack, SendStartTask
  <2>2. w.do \in {"note", "send"}
    BY <1>7 DEF Wrote
  <2> QED
    BY <1>1, <1>2, <1>3, <1>4, <1>5, <1>7, <2>1, <2>2
<1> QED
  BY <1>6, <1>7

\* A write keeps what every home keeps.
LEMMA WroteKeeps ==
    ASSUME FiringInv, LeaseInv', NEW b \in Boots, Wrote(b)
    PROVE  FiringInv' /\ StaysPrepared(journal.rows, journal'.rows)
<1> DEFINE t == sched[b]
           u == sched'[b]
           w == Head(t.todo)
           J == journal.rows
           K == journal'.rows
<1>1. /\ w \in Writes /\ t.pc # "open" /\ t.todo \in Seq(Writes) /\ t.todo # <<>>
      /\ DOMAIN sched' = Boots /\ \A a \in Boots \ {b} : sched'[a] = sched[a]
      /\ u.todo = Tail(t.todo) /\ u.pc = t.pc /\ u.awaiting = t.awaiting
      /\ u.running = t.running /\ u.watch = t.watch /\ u.claim = t.claim
      /\ DOMAIN u = DOMAIN t /\ u.ended = t.ended
      /\ IF w.do = "row" THEN AppendRow(b, w) /\ u.fold = journal'
                         ELSE UNCHANGED journal /\ u.fold = t.fold
      /\ w.do = "row" /\ w.state = "started" =>
               /\ journal.rows[w.occ].prepared
               /\ w.session \in Sessions /\ Occ(w.session) = w.occ
      /\ IF w.do = "send" THEN tasks' = [tasks EXCEPT ![b] = @ \cup {w.occ}]
                          ELSE UNCHANGED tasks
  BY WroteTask
<1>2. /\ held' = held /\ UNCHANGED <<status, inbox, acks>>
  BY DEF Wrote, leaseVars
<1>3. JournalInv /\ MemoryTyped /\ Typed(t) /\ \A a \in Boots : Prepared(sched[a], J, held[a] > 0)
  BY DEF FiringInv, MemoryTyped
<1>4. JournalInv' /\ StaysPrepared(J, K) /\ (w.do = "row" /\ w.state = "prepared" => K[w.occ].prepared)
  <2>1. CASE w.do = "row"
    BY <1>1, <1>3, <2>1, RowFolds
  <2>2. CASE w.do # "row"
    BY <1>1, <1>3, <2>2 DEF JournalInv, StaysPrepared
  <2> QED
    BY <2>1, <2>2
<1>5. /\ Tail(t.todo) \in Seq(Writes) /\ Rows(Tail(t.todo)) \subseteq Rows(t.todo)
      /\ ToSet(t.todo) = {w} \cup ToSet(Tail(t.todo))
  BY <1>1, HeadDone
<1> HIDE DEF w, u, J, K
<1>6. Typed(u)
  <2>1. u.fold.rows \in [Occurrences -> Progresses]
    BY <1>1, <1>3, <1>4 DEF JournalInv, Typed
  <2> QED
    BY <1>1, <1>3, <1>5, <2>1 DEF Typed
<1>7. MemoryTyped'
  <2>1. tasks' \in [Boots -> SUBSET Occurrences]
    BY <1>1, <1>3 DEF MemoryTyped, Writes
  <2> QED
    BY <1>1, <1>2, <1>3, <1>6, <2>1 DEF MemoryTyped, u
<1>8. Prepared(u, K, held[b] > 0)
  <2>1. Prepared(t, K, held[b] > 0)
    BY <1>3, <1>4, PreparedMonotone
  <2>2. \A o \in u.awaiting : K[o].prepared \/ Row(o, "prepared", NoSession) \in Rows(u.todo)
    <3>1. \A o : Row(o, "prepared", NoSession).do = "row" /\ Row(o, "prepared", NoSession).occ = o
                 /\ Row(o, "prepared", NoSession).state = "prepared"
      BY DEF Row
    <3>2. \A x \in Rows(t.todo) : x = w \/ x \in Rows(u.todo)
      BY <1>1, <1>5 DEF Rows
    <3> QED
      BY <1>1, <1>4, <2>1, <3>1, <3>2 DEF Prepared
  <2> QED
    BY <1>1, <1>5, <2>1, <2>2 DEF Prepared
<1>9. \A a \in Boots : Prepared(sched'[a], K, held'[a] > 0)
  <2>1. ASSUME NEW a \in Boots, a # b PROVE Prepared(sched'[a], K, held'[a] > 0)
    <3>1. Typed(sched[a])
      BY <1>3 DEF MemoryTyped
    <3> QED
      BY <1>1, <1>2, <1>3, <1>4, <2>1, <3>1, PreparedMonotone
  <2> QED
    BY <1>2, <1>8, <2>1 DEF u
<1> QED
  BY <1>4, <1>7, <1>9 DEF FiringInv, K, J

\* A write of the one live daemon keeps memory and journal together.
LEMMA WroteAgrees ==
    ASSUME FiringInv, RunsInv, NEW b \in Boots, Wrote(b)
    PROVE  RowsFit(sched'[b], journal'.rows) /\ InFlight(b, sched'[b], journal'.rows)
<1> DEFINE t == sched[b]
           u == sched'[b]
           w == Head(t.todo)
           J == journal.rows
           K == journal'.rows
<1>1. /\ w \in Writes /\ t.todo \in Seq(Writes) /\ t.todo # <<>>
      /\ u.todo = Tail(t.todo) /\ u.awaiting = t.awaiting
      /\ u.running = t.running /\ u.watch = t.watch
      /\ IF w.do = "row" THEN AppendRow(b, w) ELSE UNCHANGED journal
      /\ w.do = "row" /\ w.state = "started" =>
               /\ journal.rows[w.occ].prepared
               /\ w.session \in Sessions /\ Occ(w.session) = w.occ
  BY WroteTask
<1>2. RowsFit(t, J) /\ InFlight(b, t, J) /\ JournalInv /\ Typed(t)
  BY DEF RunsInv, FiringInv, MemoryTyped
<1>3. /\ ToSet(t.todo) = {w} \cup ToSet(Tail(t.todo))
      /\ Rows(Tail(t.todo)) \subseteq Rows(t.todo)
      /\ RowsOnce(Tail(t.todo)) /\ SendsLast(Tail(t.todo))
      /\ w.do = "row" => /\ w \in Rows(t.todo) /\ About(Tail(t.todo), w.occ) = {}
                         /\ Rows(Tail(t.todo)) = Rows(t.todo) \ {w}
      /\ w.do # "row" => Rows(Tail(t.todo)) = Rows(t.todo)
  BY <1>1, <1>2, HeadDone DEF RowsFit
<1>4. /\ \A p \in Occurrences : p # w.occ \/ w.do # "row" => K[p] = J[p]
      /\ w.do = "row" /\ w.state = "prepared" =>
            /\ K[w.occ].prepared /\ K[w.occ].writer = b
            /\ K[w.occ].started = J[w.occ].started /\ K[w.occ].terminal = J[w.occ].terminal
      /\ w.do = "row" /\ w.state = "started" =>
            /\ K[w.occ].prepared /\ K[w.occ].writer = b
            /\ K[w.occ].started = w.session /\ K[w.occ].terminal = "none"
      /\ w.do = "row" /\ w.state = "unknown" =>
            K[w.occ].started = J[w.occ].started /\ K[w.occ].terminal = "unknown"
  <2>1. CASE w.do = "row"
    BY <1>1, <1>2, <2>1, RowFolds
  <2>2. CASE w.do # "row"
    BY <1>1, <2>2
  <2> QED
    BY <2>1, <2>2
<1>5. \A v \in Rows(t.todo) : v.occ \in Occurrences
  <2>1. ToSet(t.todo) \subseteq Writes
    BY <1>1, SequenceMembers
  <2> QED
    BY <2>1 DEF Rows, Writes
<1> HIDE DEF u, w, J, K
<1>6. \A v \in Rows(t.todo) : v.occ = w.occ /\ w.do = "row" => v = w
  BY <1>2, <1>3 DEF RowsFit, RowsOnce
<1>7. \A v \in Rows(u.todo) : v \in Rows(t.todo) /\ K[v.occ] = J[v.occ]
  BY <1>1, <1>3, <1>4, <1>5, <1>6
<1>8. RowsFit(u, K)
  <2>1. \A x \in ToSet(u.todo) : x \in ToSet(t.todo)
    BY <1>1, <1>3
  <2> QED
    BY <1>1, <1>2, <1>3, <1>7, <2>1 DEF RowsFit
<1>9. \A o \in Occurrences : About(t.todo, o) = {} => About(u.todo, o) = {} /\ K[o] = J[o]
  <2>1. ASSUME NEW o \in Occurrences, About(t.todo, o) = {} PROVE K[o] = J[o]
    <3>1. w.do = "row" => w.occ # o
      BY <1>3, <2>1 DEF About
    <3> QED
      BY <1>4, <3>1
  <2> QED
    BY <1>1, <1>3, <2>1 DEF About
<1>10. \A o, state, s : /\ Row(o, state, s).occ = o /\ Row(o, state, s).state = state
                        /\ Row(o, state, s).session = s /\ Row(o, state, s).do = "row"
  BY DEF Row
<1>11. ASSUME NEW o, NEW state, NEW s, Row(o, state, s) \in Rows(t.todo)
       PROVE  \/ Row(o, state, s) \in Rows(u.todo)
              \/ /\ w = Row(o, state, s) /\ w.do = "row" /\ w.occ = o /\ w.state = state
                 /\ w.session = s /\ About(u.todo, o) = {}
  BY <1>1, <1>3, <1>10, <1>11
<1>12. ASSUME NEW o \in u.awaiting
       PROVE  \/ About(u.todo, o) = {} /\ o \in PreparedUnresolved(K) /\ K[o].writer = b
              \/ Row(o, "prepared", NoSession) \in Rows(u.todo)
  <2>0. o \in Occurrences
    BY <1>1, <1>2, <1>12 DEF Typed
  <2>1. CASE About(t.todo, o) = {} /\ o \in PreparedUnresolved(J) /\ J[o].writer = b
    BY <1>9, <2>0, <2>1 DEF PreparedUnresolved
  <2>2. CASE Row(o, "prepared", NoSession) \in Rows(t.todo)
    <3>1. ~IsStarted(J[o]) /\ J[o].terminal = "none"
      BY <1>2, <1>10, <2>2 DEF RowsFit
    <3>2. CASE Row(o, "prepared", NoSession) \in Rows(u.todo)
      BY <3>2
    <3>3. CASE w.do = "row" /\ w.occ = o /\ w.state = "prepared" /\ About(u.todo, o) = {}
      BY <1>4, <2>0, <3>1, <3>3 DEF PreparedUnresolved, IsStarted
    <3> QED
      BY <1>11, <2>2, <3>2, <3>3
  <2> QED
    BY <1>1, <1>2, <1>12, <2>1, <2>2 DEF InFlight
<1>13. ASSUME NEW s \in u.running
       PROVE  \/ /\ About(u.todo, Occ(s)) = {} /\ Occ(s) \in StartedUnresolved(K)
                 /\ K[Occ(s)].started = s /\ K[Occ(s)].writer = b
              \/ Row(Occ(s), "started", s) \in Rows(u.todo)
  <2>0. Occ(s) \in Occurrences /\ s # NoSession
    BY <1>1, <1>2, <1>13, OccType DEF Typed
  <2>1. CASE /\ About(t.todo, Occ(s)) = {} /\ Occ(s) \in StartedUnresolved(J)
             /\ J[Occ(s)].started = s /\ J[Occ(s)].writer = b
    BY <1>9, <2>0, <2>1 DEF StartedUnresolved
  <2>2. CASE Row(Occ(s), "started", s) \in Rows(t.todo)
    <3>1. CASE w.do = "row" /\ w.occ = Occ(s) /\ w.state = "started" /\ w.session = s
               /\ About(u.todo, Occ(s)) = {}
      BY <1>4, <2>0, <3>1 DEF StartedUnresolved, IsStarted
    <3> QED
      BY <1>11, <2>2, <3>1
  <2> QED
    BY <1>1, <1>2, <1>13, <2>1, <2>2 DEF InFlight
<1>14. ASSUME NEW s \in u.watch
       PROVE  /\ K[Occ(s)].started = s
              /\ \A v \in u.running : Occ(v) # Occ(s)
              /\ \/ About(u.todo, Occ(s)) = {} /\ K[Occ(s)].terminal = "unknown"
                 \/ Row(Occ(s), "unknown", s) \in Rows(u.todo)
  <2>0. Occ(s) \in Occurrences
    BY <1>1, <1>2, <1>14, OccType DEF Typed
  <2>1. /\ J[Occ(s)].started = s
        /\ \A v \in t.running : Occ(v) # Occ(s)
        /\ \/ About(t.todo, Occ(s)) = {} /\ J[Occ(s)].terminal = "unknown"
           \/ Row(Occ(s), "unknown", s) \in Rows(t.todo)
    BY <1>1, <1>2, <1>14 DEF InFlight
  <2>2. CASE About(t.todo, Occ(s)) = {} /\ J[Occ(s)].terminal = "unknown"
    BY <1>1, <1>9, <2>0, <2>1, <2>2
  <2>3. CASE Row(Occ(s), "unknown", s) \in Rows(t.todo)
    <3>1. CASE Row(Occ(s), "unknown", s) \in Rows(u.todo)
      <4>1. K[Occ(s)] = J[Occ(s)]
        BY <1>7, <1>10, <3>1
      <4> QED
        BY <1>1, <2>1, <3>1, <4>1
    <3>2. CASE w.do = "row" /\ w.occ = Occ(s) /\ w.state = "unknown" /\ About(u.todo, Occ(s)) = {}
      BY <1>1, <1>4, <2>1, <3>2
    <3> QED
      BY <1>11, <2>3, <3>1, <3>2
  <2> QED
    BY <2>1, <2>2, <2>3
<1> QED
  BY <1>8, <1>12, <1>13, <1>14 DEF InFlight, u, K

\* What is fired was prepared first, by the one daemon that fires it.
LEMMA WroteRuns ==
    ASSUME FiringInv, LeaseInv', RunsInv, NEW b \in Boots, Wrote(b)
    PROVE  RunsInv'
<1> DEFINE t == sched[b]
           w == Head(t.todo)
<1>1. /\ t.pc # "open" /\ t.todo \in Seq(Writes) /\ t.todo # <<>>
      /\ DOMAIN sched' = Boots /\ \A a \in Boots \ {b} : sched'[a] = sched[a]
      /\ sched'[b].pc = t.pc /\ sched'[b].awaiting = t.awaiting
      /\ IF w.do = "row" THEN sched'[b].fold = journal'
                         ELSE UNCHANGED journal /\ sched'[b].fold = t.fold
      /\ IF w.do = "send" THEN tasks' = [tasks EXCEPT ![b] = @ \cup {w.occ}]
                          ELSE UNCHANGED tasks
      /\ w \in Writes
  BY WroteTask
<1>2. UNCHANGED <<process, status>> /\ Live(b)
  BY DEF Wrote, leaseVars
<1>3. StaysPrepared(journal.rows, journal'.rows)
  BY WroteKeeps
<1>4. RowsFit(sched'[b], journal'.rows) /\ InFlight(b, sched'[b], journal'.rows)
  BY WroteAgrees
<1>5. \A a \in Boots \ {b} : sched[a] = Resting /\ tasks[a] = {}
  BY <1>2 DEF RunsInv
<1>6. w.do = "send" => w.occ \in t.awaiting /\ w.occ \in Occurrences /\ journal.rows[w.occ].prepared
  <2>1. RowsFit(t, journal.rows) /\ InFlight(b, t, journal.rows) /\ Typed(t)
    BY DEF RunsInv, FiringInv, MemoryTyped
  <2>2. w \in ToSet(t.todo) /\ (w.do = "send" => Row(w.occ, "prepared", NoSession) \notin ToSet(t.todo))
    BY <1>1, <2>1, HeadDone DEF RowsFit
  <2> QED
    BY <2>1, <2>2 DEF RowsFit, InFlight, Rows, PreparedUnresolved, Typed
<1> HIDE DEF w
<1>7. tasks \in [Boots -> SUBSET Occurrences]
  BY DEF FiringInv, MemoryTyped
<1>8. ASSUME NEW a \in Boots
      PROVE  /\ ~Live(a)' => sched'[a] = Resting /\ tasks'[a] = {}
             /\ sched'[a].pc = "open" => sched'[a] = Resting
             /\ sched'[a].pc # "open" => sched'[a].fold = journal'
             /\ RowsFit(sched'[a], journal'.rows)
             /\ InFlight(a, sched'[a], journal'.rows)
  <2>1. CASE a = b
    <3>1. t.fold = journal
      BY <1>1 DEF RunsInv
    <3> QED
      BY <1>1, <1>2, <1>4, <2>1, <3>1 DEF Live
  <2>2. CASE a # b
    <3>1. sched'[a] = Resting /\ tasks'[a] = {}
      BY <1>1, <1>5, <1>7, <2>2
    <3>2. Resting.pc = "open" /\ Resting.todo = <<>> /\ Resting.awaiting = {}
          /\ Resting.running = {} /\ Resting.watch = {}
      BY DEF Resting
    <3>3. \A K : RowsFit(Resting, K) /\ InFlight(a, Resting, K)
      BY <3>2, NothingOwed DEF RowsFit, InFlight
    <3> QED
      BY <3>1, <3>2, <3>3
  <2> QED
    BY <2>1, <2>2
<1>9. Fired'
  <2>1. \A a \in Boots, o \in Occurrences : Launched(a, o)' = Launched(a, o)
    BY <1>2 DEF Launched
  <2>2. \A a \in Boots, o \in Occurrences : o \in tasks'[a] =>
            o \in tasks[a] \/ (a = b /\ w.do = "send" /\ o = w.occ)
    BY <1>1, <1>7
  <2>3. \A a \in Boots : sched'[a].awaiting = sched[a].awaiting
    BY <1>1
  <2>4. \A a \in Boots, o \in Occurrences : FiredBy(a, o)' => FiredBy(a, o)
    BY <1>6, <2>1, <2>2, <2>3 DEF FiredBy
  <2>5. \A a \in Boots, o \in Occurrences : (Launched(a, o) \/ o \in tasks[a])' => journal'.rows[o].prepared
    BY <1>3, <1>6, <2>1, <2>2 DEF StaysPrepared, RunsInv, Fired
  <2> QED
    BY <2>4, <2>5 DEF RunsInv, Fired
<1> QED
  BY <1>2, <1>8, <1>9 DEF RunsInv, Live

\* The supervisor, the sessions and the owner: what they leave and what they launch.
Elsewhere ==
    /\ UNCHANGED <<leaseVars, journal, sched>>
    /\ DOMAIN status' = Sessions
    /\ tasks' \in [Boots -> SUBSET Occurrences] /\ acks' \in [Boots -> SUBSET Sessions]
    /\ inbox' \in Inboxes
    /\ \A b \in Boots, o \in Occurrences :
          /\ o \in tasks'[b] => o \in tasks[b]
          /\ Launched(b, o)' => Launched(b, o) \/ o \in tasks[b]

\* An event is queued, and pushes out the oldest when the ring is full.
LEMMA EmitTypes ==
    ASSUME inbox \in Inboxes, NEW b, NEW type \in {"received", "done", "ended"},
           NEW s \in Sessions, Emit(b, type, s)
    PROVE  inbox' \in Inboxes
<1> DEFINE e == [type |-> type, session |-> s]
           q == inbox[b].events
           i == IF Len(q) < Ring THEN [inbox[b] EXCEPT !.events = Append(q, e)]
                ELSE [events |-> Append(Tail(q), e), lagged |-> TRUE]
<1>1. inbox' = [inbox EXCEPT ![b] = i]
  BY DEF Emit
<1>2. e \in Events
  BY DEF Events
<1> HIDE DEF e
<1>3. ASSUME b \in Boots PROVE i \in [events : Seq(Events), lagged : BOOLEAN]
  <2>1. q \in Seq(Events) /\ inbox[b] \in [events : Seq(Events), lagged : BOOLEAN]
    BY <1>3 DEF Inboxes
  <2>2. CASE Len(q) < Ring
    <3>1. Append(q, e) \in Seq(Events)
      BY <1>2, <2>1
    <3> HIDE DEF q
    <3> QED
      BY <2>1, <2>2, <3>1
  <2>3. CASE ~(Len(q) < Ring)
    <3>1. q # <<>>
      BY <2>1, <2>3, SchedulerAssumption
    <3>2. Append(Tail(q), e) \in Seq(Events)
      BY <1>2, <2>1, <3>1
    <3> HIDE DEF q
    <3> QED
      BY <2>3, <3>2
  <2> QED
    BY <2>2, <2>3
<1> HIDE DEF i
<1> QED
  BY <1>1, <1>3 DEF Inboxes

\* The sessions a task launches are the originals, each of one process life and one
\* occurrence.
LEMMA OriginalIs ==
    ASSUME NEW b \in Boots, NEW o \in Occurrences
    PROVE  /\ Original(b, o) \in Sessions
           /\ \A c, p : Original(b, o) = Original(c, p) => c = b /\ p = o
           /\ \A s \in Sessions : Original(b, o) # <<s[1], s[2], s[3] + 1>>
BY SchedulerAssumption DEF Original, Sessions

\* The supervisor, the sessions and the owner move no task's memory, lease or row.
LEMMA OthersAreElsewhere ==
    ASSUME MemoryTyped,
           \/ \E b \in Boots : Supervisor(b)
           \/ \E s \in Sessions : Finish(s) \/ End(s) \/ Stop(s) \/ Close(s)
           \/ Owner
    PROVE  Elsewhere
<1>0. UNCHANGED <<leaseVars, journal, sched>>
  BY OthersAreOthers
<1>1. /\ DOMAIN status = Sessions /\ tasks \in [Boots -> SUBSET Occurrences]
      /\ acks \in [Boots -> SUBSET Sessions] /\ inbox \in Inboxes
  BY DEF MemoryTyped
<1>2. ASSUME NEW b \in Boots, NEW o \in Occurrences, Launch(b, o)
      PROVE  Elsewhere
  <2> DEFINE s == Original(b, o)
  <2>1. /\ o \in tasks[b] /\ status' = [status EXCEPT ![s] = "live"]
        /\ tasks' = [tasks EXCEPT ![b] = @ \ {o}] /\ acks' = [acks EXCEPT ![b] = @ \cup {s}]
        /\ UNCHANGED inbox
    BY <1>2 DEF Launch
  <2>2. s \in Sessions /\ \A c, p : s = Original(c, p) => c = b /\ p = o
    BY OriginalIs
  <2> HIDE DEF s
  <2>3. \A c \in Boots, p \in Occurrences : Launched(c, p)' => Launched(c, p) \/ p \in tasks[c]
    <3> SUFFICES ASSUME NEW c \in Boots, NEW p \in Occurrences, Launched(c, p)'
                 PROVE  Launched(c, p) \/ p \in tasks[c]
      OBVIOUS
    <3>1. CASE Original(c, p) = s
      BY <2>1, <2>2, <3>1
    <3>2. CASE Original(c, p) # s
      BY <1>1, <2>1, <3>2, OriginalIs DEF Launched
    <3> QED
      BY <3>1, <3>2
  <2>4. /\ tasks' \in [Boots -> SUBSET Occurrences] /\ acks' \in [Boots -> SUBSET Sessions]
        /\ \A c \in Boots, p \in Occurrences : p \in tasks'[c] => p \in tasks[c]
    BY <1>1, <2>1, <2>2
  <2>5. DOMAIN status' = Sessions /\ inbox' \in Inboxes
    BY <1>1, <2>1
  <2> QED
    BY <1>0, <2>3, <2>4, <2>5 DEF Elsewhere
<1>3. ASSUME NEW b \in Boots, NEW o \in Occurrences, Reacknowledge(b, o) \/ Refuse(b, o)
      PROVE  Elsewhere
  <2>1. /\ UNCHANGED <<status, inbox>> /\ tasks' = [tasks EXCEPT ![b] = @ \ {o}]
        /\ acks' = [acks EXCEPT ![b] = @ \cup {Original(b, o)}] \/ UNCHANGED acks
    BY <1>3 DEF Reacknowledge, Refuse
  <2>2. Original(b, o) \in Sessions
    BY OriginalIs
  <2>3. /\ tasks' \in [Boots -> SUBSET Occurrences] /\ acks' \in [Boots -> SUBSET Sessions]
        /\ \A c \in Boots, p \in Occurrences : p \in tasks'[c] => p \in tasks[c]
    BY <1>1, <2>1, <2>2
  <2> QED
    BY <1>0, <1>1, <2>1, <2>3 DEF Elsewhere, Launched
<1>4. ASSUME NEW b \in Boots, NEW s \in Sessions, Acknowledge(b, s)
      PROVE  Elsewhere
  <2>1. /\ UNCHANGED <<status, tasks>> /\ acks' = [acks EXCEPT ![b] = @ \ {s}]
        /\ Emit(b, "received", s)
    BY <1>4 DEF Acknowledge
  <2>2. inbox' \in Inboxes
    BY <1>1, <2>1, EmitTypes
  <2>3. acks' \in [Boots -> SUBSET Sessions]
    BY <1>1, <2>1
  <2> QED
    BY <1>0, <1>1, <2>1, <2>2, <2>3 DEF Elsewhere, Launched
<1>5. ASSUME NEW b \in Boots, NEW s \in Sessions, Resume(b, s)
      PROVE  Elsewhere
  <2> DEFINE t == <<s[1], s[2], s[3] + 1>>
  <2>1. status' = [status EXCEPT ![t] = "live"] /\ UNCHANGED <<tasks, acks, inbox>>
    BY <1>5 DEF Resume
  <2>2. \A c \in Boots, p \in Occurrences : Original(c, p) \in Sessions /\ Original(c, p) # t
    BY OriginalIs
  <2> HIDE DEF t
  <2>3. \A c \in Boots, p \in Occurrences : Launched(c, p)' => Launched(c, p)
    BY <1>1, <2>1, <2>2 DEF Launched
  <2>4. DOMAIN status' = Sessions
    BY <1>1, <2>1
  <2> QED
    BY <1>0, <1>1, <2>1, <2>3, <2>4 DEF Elsewhere
<1>6. ASSUME NEW s \in Sessions, NEW from \in {"live", "done"}, NEW to,
             NEW type \in {"received", "done", "ended"}, Moves(s, from, to, type)
      PROVE  Elsewhere
  <2>1. /\ status[s] = from /\ status' = [status EXCEPT ![s] = to] /\ UNCHANGED <<tasks, acks>>
        /\ Emit(host[s], type, s)
    BY <1>6 DEF Moves
  <2>2. inbox' \in Inboxes
    BY <1>1, <2>1, EmitTypes
  <2>3. \A c \in Boots, p \in Occurrences : Launched(c, p)' => Launched(c, p)
    <3> SUFFICES ASSUME NEW c \in Boots, NEW p \in Occurrences, Launched(c, p)'
                 PROVE  Launched(c, p)
      OBVIOUS
    <3>1. CASE Original(c, p) = s
      BY <2>1, <3>1 DEF Launched
    <3>2. CASE Original(c, p) # s
      BY <1>1, <2>1, <3>2, OriginalIs DEF Launched
    <3> QED
      BY <3>1, <3>2
  <2>4. DOMAIN status' = Sessions
    BY <1>1, <2>1
  <2> QED
    BY <1>0, <1>1, <2>1, <2>2, <2>3, <2>4 DEF Elsewhere
<1>7. ASSUME NEW s \in Sessions, Finish(s) \/ End(s) \/ Stop(s) \/ Close(s)
      PROVE  Elsewhere
  BY <1>6, <1>7 DEF Finish, End, Stop, Close
<1>8. CASE Owner
  <2>1. UNCHANGED <<status, tasks, acks, inbox>>
    BY <1>8 DEF Owner, ComesDue, GrowsStale, RequestOccurrence, Reapprove, ownerOnly
  <2> QED
    BY <1>0, <1>1, <2>1 DEF Elsewhere, Launched
<1>9. ASSUME NEW b \in Boots, Supervisor(b) PROVE Elsewhere
  BY <1>2, <1>3, <1>4, <1>5, <1>9 DEF Supervisor
<1> QED
  BY <1>7, <1>8, <1>9

\* What is elsewhere keeps everything: a launch is of what was sent.
LEMMA ElsewhereKeeps ==
    ASSUME FiringInv, LeaseInv', Elsewhere
    PROVE  FiringInv' /\ (RunsInv => RunsInv')
<1>1. /\ UNCHANGED <<process, held, journal, sched>>
  BY DEF Elsewhere, leaseVars
<1>2. FiringInv'
  <2>1. JournalInv' /\ MemoryTyped'
    BY <1>1 DEF FiringInv, JournalInv, MemoryTyped, Elsewhere
  <2>2. \A b \in Boots : Prepared(sched'[b], journal'.rows, held'[b] > 0)
    BY <1>1 DEF FiringInv
  <2> QED
    BY <2>1, <2>2 DEF FiringInv
<1>3. ASSUME RunsInv PROVE RunsInv'
  <2>1. \A b \in Boots, o \in Occurrences : FiredBy(b, o)' => FiredBy(b, o)
    BY <1>1 DEF Elsewhere, FiredBy
  <2>2. Fired'
    BY <1>1, <1>3, <2>1 DEF Elsewhere, RunsInv, Fired
  <2>3. \A b \in Boots : tasks[b] = {} => tasks'[b] = {}
    BY DEF Elsewhere
  <2>4. \A b \in Boots :
          /\ ~Live(b)' => sched'[b] = Resting /\ tasks'[b] = {}
          /\ sched'[b].pc = "open" => sched'[b] = Resting
          /\ sched'[b].pc # "open" => sched'[b].fold = journal'
          /\ RowsFit(sched'[b], journal'.rows)
          /\ InFlight(b, sched'[b], journal'.rows)
    BY <1>1, <1>3, <2>3 DEF RunsInv, Live
  <2>5. \A a, b \in Boots : Live(a)' /\ Live(b)' => a = b
    BY <1>1, <1>3 DEF RunsInv, Live
  <2> QED
    BY <2>2, <2>4, <2>5 DEF RunsInv
<1> QED
  BY <1>2, <1>3

\* A process life that begins, or a lease that is given up before the task is open.
LEMMA BeginKeeps ==
    ASSUME FiringInv, LeaseInv',
           (\E b \in Boots : Boot(b) \/ Takeover(b)) \/ Forget
    PROVE  FiringInv' /\ (RunsInv /\ ~Cohomed => RunsInv')
<1>0. UNCHANGED <<journal, status, sched, inbox, tasks, acks>>
  BY DEF Boot, Takeover, Forget
<1>1. MemoryTyped /\ \A a \in Boots : Typed(sched[a]) /\ Prepared(sched[a], journal.rows, held[a] > 0)
  BY DEF FiringInv, MemoryTyped
<1>2. ASSUME NEW a \in Boots
      PROVE  held[a] > 0 => held'[a] > 0 \/ sched[a].pc = "open"
  <2>0. held \in [Boots -> Nat]
    BY DEF FiringInv, LeaseInv, LeaseTypeOK
  <2>1. ASSUME NEW b \in Boots, Boot(b)
        PROVE  held[a] > 0 => held'[a] > 0
    <3>1. Acquire(b, journal.generation) \/ held' = held
      BY <2>1 DEF Boot, Initialize
    <3>2. CASE Acquire(b, journal.generation)
      <4>1. holder # a
        BY <3>2, BootsAssumption DEF Acquire, NoBoot
      <4> QED
        BY <4>1 DEF FiringInv, LeaseInv, HolderIsReal
    <3> QED
      BY <3>1, <3>2
  <2>2. ASSUME NEW b \in Boots, Takeover(b)
        PROVE  held[a] > 0 => held'[a] > 0 \/ sched[a].pc = "open"
    <3>1. RequestDrain(b, sched[b].pc # "open")
      BY <2>2 DEF Takeover
    <3>2. CASE sched[b].pc # "open"
      BY <3>1, <3>2 DEF RequestDrain
    <3>3. CASE sched[b].pc = "open"
      <4>1. held' = [held EXCEPT ![b] = 0]
        BY <3>1, <3>3 DEF RequestDrain, Release
      <4> QED
        BY <2>0, <3>3, <4>1
    <3> QED
      BY <3>2, <3>3
  <2>3. CASE Forget
    BY <2>3 DEF Forget, LoseSidecar
  <2> QED
    BY <2>1, <2>2, <2>3
<1>3. \A a \in Boots : Prepared(sched[a], journal.rows, held'[a] > 0)
  <2> SUFFICES ASSUME NEW a \in Boots PROVE Prepared(sched[a], journal.rows, held'[a] > 0)
    OBVIOUS
  <2>2. CASE held[a] > 0 => held'[a] > 0
    <3>1. Prepared(sched[a], journal.rows, held[a] > 0)
      BY <1>1
    <3> QED
      BY <2>2, <3>1 DEF Prepared
  <2>3. CASE sched[a].pc = "open"
    <3>1. sched[a].todo = <<>>
      BY <1>1, <2>3 DEF Prepared
    <3> QED
      BY <1>1, <2>3, <3>1, NothingOwed DEF Prepared
  <2> QED
    BY <1>2, <2>2, <2>3
<1>4. FiringInv'
  BY <1>0, <1>1, <1>3 DEF FiringInv, JournalInv, MemoryTyped
<1>5. ASSUME RunsInv, ~Cohomed PROVE RunsInv'
  <2>1. /\ \A a \in Boots : Live(a) => Live(a)'
        /\ \A a, c \in Boots : Live(a)' /\ Live(c)' => a = c
    <3>1. CASE \E b \in Boots : Boot(b)
      <4>1. PICK b \in Boots : Boot(b)
        BY <3>1
      <4>2. \A a \in Boots : ~Live(a)
        BY <1>5, <4>1 DEF Boot, Live
      <4>3. \A a \in Boots : Live(a)' => a = b
        BY <4>1, <4>2 DEF Boot, Initialize, Live, FiringInv, LeaseInv, LeaseTypeOK
      <4> QED
        BY <4>2, <4>3
    <3>2. CASE (\E b \in Boots : Takeover(b)) \/ Forget
      <4>1. process' = process
        BY <3>2 DEF Takeover, RequestDrain, Release, Forget, LoseSidecar
      <4> QED
        BY <1>5, <4>1 DEF RunsInv, Live
    <3> QED
      BY <3>1, <3>2
  <2>2. Fired'
    BY <1>0, <1>5 DEF RunsInv, Fired, FiredBy, Launched
  <2>3. \A a \in Boots :
          /\ ~Live(a)' => sched'[a] = Resting /\ tasks'[a] = {}
          /\ sched'[a].pc = "open" => sched'[a] = Resting
          /\ sched'[a].pc # "open" => sched'[a].fold = journal'
          /\ RowsFit(sched'[a], journal'.rows)
          /\ InFlight(a, sched'[a], journal'.rows)
    BY <1>0, <1>5, <2>1 DEF RunsInv
  <2> QED
    BY <2>1, <2>2, <2>3 DEF RunsInv
<1> QED
  BY <1>4, <1>5

\* A process life that ends forgets what it had in mind.
LEMMA PerishKeeps ==
    ASSUME FiringInv, LeaseInv', NEW b \in Boots, Perish(b)
    PROVE  FiringInv' /\ (RunsInv => RunsInv')
<1>1. /\ DOMAIN sched = Boots /\ DOMAIN status = Sessions
      /\ tasks \in [Boots -> SUBSET Occurrences] /\ acks \in [Boots -> SUBSET Sessions]
      /\ inbox \in Inboxes
      /\ \A a \in Boots : Typed(sched[a]) /\ Prepared(sched[a], journal.rows, held[a] > 0)
  BY DEF FiringInv, MemoryTyped
<1>2. /\ sched' = [sched EXCEPT ![b] = Resting] /\ inbox' = [inbox EXCEPT ![b] = Quiet]
      /\ tasks' = [tasks EXCEPT ![b] = {}] /\ acks' = [acks EXCEPT ![b] = {}]
      /\ status' = [s \in Sessions |->
            IF host[s] = b /\ status[s] = "live" THEN "lost" ELSE status[s]]
      /\ UNCHANGED journal
      /\ process' = [process EXCEPT ![b] = "gone"] /\ held' = [held EXCEPT ![b] = 0]
  BY DEF Perish, Die
<1>3. /\ Typed(Resting) /\ \A holds : Prepared(Resting, journal.rows, holds)
      /\ \A a, K : RowsFit(Resting, K) /\ InFlight(a, Resting, K)
      /\ Resting.pc = "open" /\ Resting.awaiting = {}
  <2>1. /\ Resting.pc = "open" /\ Resting.todo = <<>> /\ Resting.awaiting = {}
        /\ Resting.running = {} /\ Resting.watch = {} /\ Resting.claim = NoSession
        /\ Resting.fold = EmptyJournal /\ Resting.ended = {}
        /\ DOMAIN Resting = {"pc", "fold", "stamp", "todo", "claim", "awaiting", "running",
                             "early", "ended", "watch"}
    BY DEF Resting
  <2>2. EmptyJournal.rows \in [Occurrences -> Progresses]
    BY DEF EmptyJournal, Fresh, Progresses, NoBoot
  <2>3. IsFiniteSet({})
    BY FS_EmptySet
  <2> HIDE DEF Resting
  <2> QED
    BY <2>1, <2>2, <2>3, NothingOwed DEF Typed, Prepared, RowsFit, InFlight
<1> HIDE DEF Resting
<1>4. /\ sched'[b] = Resting /\ \A a \in Boots \ {b} : sched'[a] = sched[a] /\ held'[a] = held[a]
      /\ DOMAIN sched' = Boots
      /\ tasks'[b] = {} /\ \A a \in Boots \ {b} : tasks'[a] = tasks[a]
  BY <1>1, <1>2 DEF FiringInv, LeaseInv, LeaseTypeOK
<1>5. \A a \in Boots, o \in Occurrences : Launched(a, o)' <=> Launched(a, o)
  <2>1. \A s \in Sessions : status'[s] # "none" <=> status[s] # "none"
    BY <1>2
  <2> QED
    BY <2>1, OriginalIs DEF Launched
<1>6. MemoryTyped'
  <2>1. Quiet \in [events : Seq(Events), lagged : BOOLEAN]
    BY DEF Quiet
  <2>2. \A a \in Boots : Typed(sched'[a])
    BY <1>1, <1>3, <1>4
  <2>3. inbox' \in Inboxes
    BY <1>1, <1>2, <2>1 DEF Inboxes
  <2>4. tasks' \in [Boots -> SUBSET Occurrences] /\ acks' \in [Boots -> SUBSET Sessions]
        /\ DOMAIN status' = Sessions
    BY <1>1, <1>2
  <2> QED
    BY <1>4, <2>2, <2>3, <2>4 DEF MemoryTyped
<1>7. \A a \in Boots : Prepared(sched'[a], journal.rows, held'[a] > 0)
  BY <1>1, <1>3, <1>4
<1>8. FiringInv'
  BY <1>2, <1>6, <1>7 DEF FiringInv, JournalInv
<1>9. ASSUME RunsInv PROVE RunsInv'
  <2>1. /\ ~Live(b)' /\ \A a \in Boots \ {b} : Live(a)' <=> Live(a)
    BY <1>2 DEF Live, FiringInv, LeaseInv, LeaseTypeOK
  <2>2. \A a, c \in Boots : Live(a)' /\ Live(c)' => a = c
    BY <1>9, <2>1 DEF RunsInv
  <2>3. ASSUME NEW a \in Boots
        PROVE  /\ ~Live(a)' => sched'[a] = Resting /\ tasks'[a] = {}
               /\ sched'[a].pc = "open" => sched'[a] = Resting
               /\ sched'[a].pc # "open" => sched'[a].fold = journal'
               /\ RowsFit(sched'[a], journal'.rows)
               /\ InFlight(a, sched'[a], journal'.rows)
    <3>1. CASE a = b
      BY <1>3, <1>4, <3>1
    <3>2. CASE a # b
      BY <1>2, <1>4, <1>9, <2>1, <3>2 DEF RunsInv
    <3> QED
      BY <3>1, <3>2
  <2>4. \A a \in Boots, o \in Occurrences : FiredBy(a, o)' => FiredBy(a, o)
    <3>1. \A a \in Boots : tasks'[a] \subseteq tasks[a] /\ sched'[a].awaiting \subseteq sched[a].awaiting
      BY <1>3, <1>4
    <3> QED
      BY <1>5, <3>1 DEF FiredBy
  <2>5. \A a \in Boots, o \in Occurrences : (Launched(a, o) \/ o \in tasks[a])' => journal'.rows[o].prepared
    <3>1. \A a \in Boots : tasks'[a] \subseteq tasks[a]
      BY <1>4
    <3> QED
      BY <1>2, <1>5, <1>9, <3>1 DEF RunsInv, Fired
  <2>6. Fired'
    BY <1>9, <2>4, <2>5 DEF RunsInv, Fired
  <2> QED
    BY <2>2, <2>3, <2>6 DEF RunsInv
<1> QED
  BY <1>8, <1>9

\* Init has nothing prepared, owed or in flight.
LEMMA NothingFired == Init => FiringInv /\ RunsInv
<1> SUFFICES ASSUME Init PROVE FiringInv /\ RunsInv
  OBVIOUS
<1>1. LeaseInv /\ process = [b \in Boots |-> "new"]
  BY Initially DEF Init, LeaseInit
<1>2. /\ journal = EmptyJournal /\ status = [s \in Sessions |-> "none"]
      /\ sched = [b \in Boots |-> Resting] /\ inbox = [b \in Boots |-> Quiet]
      /\ tasks = [b \in Boots |-> {}] /\ acks = [b \in Boots |-> {}]
  BY DEF Init
<1>3. /\ Resting.pc = "open" /\ Resting.todo = <<>> /\ Resting.awaiting = {}
      /\ Resting.running = {} /\ Resting.watch = {} /\ Resting.claim = NoSession
      /\ Resting.fold = EmptyJournal /\ Resting.ended = {}
      /\ DOMAIN Resting = {"pc", "fold", "stamp", "todo", "claim", "awaiting", "running",
                           "early", "ended", "watch"}
  BY DEF Resting
<1>4. /\ EmptyJournal.rows \in [Occurrences -> Progresses]
      /\ \A o \in Occurrences : ~IsStarted(EmptyJournal.rows[o])
  BY DEF EmptyJournal, Fresh, Progresses, NoBoot, IsStarted
<1>5. JournalInv
  BY <1>2, <1>4 DEF JournalInv
<1> HIDE DEF Resting
<1>6. Typed(Resting)
  <2>1. IsFiniteSet({})
    BY FS_EmptySet
  <2> QED
    BY <1>3, <1>4, <2>1, NothingOwed DEF Typed
<1>7. \A holds : Prepared(Resting, journal.rows, holds)
  BY <1>3, NothingOwed DEF Prepared
<1>8. \A b \in Boots : RowsFit(Resting, journal.rows) /\ InFlight(b, Resting, journal.rows)
  BY <1>3, NothingOwed DEF RowsFit, InFlight
<1>9. MemoryTyped
  <2>1. Quiet \in [events : Seq(Events), lagged : BOOLEAN]
    BY DEF Quiet
  <2> QED
    BY <1>2, <1>6, <2>1 DEF MemoryTyped, Inboxes
<1>10. FiringInv
  BY <1>1, <1>2, <1>5, <1>7, <1>9 DEF FiringInv
<1>11. \A b \in Boots, o \in Occurrences : ~FiredBy(b, o)
  BY <1>2, <1>3, OriginalIs DEF FiredBy, Launched
<1>12. RunsInv
  BY <1>1, <1>2, <1>3, <1>8, <1>11 DEF RunsInv, Fired, FiredBy, Live
<1> QED
  BY <1>10, <1>12

\* Every step keeps what every home keeps and, with one daemon at a time, the rest.
LEMMA FiringStep ==
    ASSUME FiringInv, Numbered, [Next]_vars
    PROVE  /\ FiringInv' /\ Numbered'
           /\ RunsInv /\ ~Cohomed => RunsInv'
<1>1. LeaseInv' /\ Numbered'
  BY Step DEF Advances, FiringInv
<1>2. CASE UNCHANGED vars
  <2>1. Elsewhere
    BY <1>2 DEF vars, Elsewhere, FiringInv, MemoryTyped, Launched
  <2> QED
    BY <1>1, <2>1, ElsewhereKeeps
<1>3. ASSUME NEW b \in Boots, SchedulerStep(b) \/ TimeOut(b) \/ Wake(b) \/ Observe(b) \/ Lag(b)
      PROVE  FiringInv' /\ (RunsInv => RunsInv')
  <2>1. CASE Write(b)
    <3>1. Wrote(b)
      BY <2>1 DEF Write, Wrote
    <3> QED
      BY <1>1, <3>1, WroteKeeps, WroteRuns
  <2>2. CASE \/ Open(b) \/ Gate(b) \/ PlanAndAct(b) \/ Claim(b)
             \/ \E s \in Sessions : ReclassifyEnd(b, s) \/ Readopt(b, s)
             \/ TimeOut(b) \/ Wake(b) \/ Observe(b) \/ Lag(b)
    <3>1. Handles(b)
      BY <2>2, HandlersHandle
    <3> QED
      BY <1>1, <3>1, HandledKeeps
  <2> QED
    BY <1>3, <2>1, <2>2 DEF SchedulerStep
<1>4. ASSUME NEW b \in Boots, Boot(b) \/ Takeover(b)
      PROVE  FiringInv' /\ (RunsInv /\ ~Cohomed => RunsInv')
  BY <1>1, <1>4, BeginKeeps
<1>5. ASSUME NEW b \in Boots, Crash(b) \/ Exit(b)
      PROVE  FiringInv' /\ (RunsInv => RunsInv')
  BY <1>1, <1>5, PerishKeeps DEF Crash, Exit
<1>6. CASE \/ \E b \in Boots : Supervisor(b)
           \/ \E s \in Sessions : Finish(s) \/ End(s) \/ Stop(s) \/ Close(s)
           \/ Owner
  BY <1>1, <1>6, OthersAreElsewhere, ElsewhereKeeps DEF FiringInv
<1>7. CASE Forget
  BY <1>1, <1>7, BeginKeeps
<1> QED
  BY <1>1, <1>2, <1>3, <1>4, <1>5, <1>6, <1>7 DEF Next
-----------------------------------------------------------------------------
(* What the journal tells.                                                 *)

\* The journal moves by the writes of a scheduler's task alone.
LEMMA JournalMoves ==
    ASSUME FiringInv, Numbered, [Next]_vars
    PROVE  UNCHANGED journal \/ \E b \in Boots : Wrote(b)
<1>1. ASSUME NEW b \in Boots, SchedulerStep(b) \/ TimeOut(b) \/ Wake(b) \/ Observe(b) \/ Lag(b)
      PROVE  UNCHANGED journal \/ Wrote(b)
  <2>1. CASE Write(b)
    BY <2>1 DEF Write, Wrote
  <2>2. CASE \/ Open(b) \/ Gate(b) \/ PlanAndAct(b) \/ Claim(b)
             \/ \E s \in Sessions : ReclassifyEnd(b, s) \/ Readopt(b, s)
             \/ TimeOut(b) \/ Wake(b) \/ Observe(b) \/ Lag(b)
    BY <2>2, HandlersHandle DEF Handles
  <2> QED
    BY <1>1, <2>1, <2>2 DEF SchedulerStep
<1>2. ASSUME NEW b \in Boots, Boot(b) \/ Crash(b) \/ Exit(b) \/ Takeover(b)
      PROVE  UNCHANGED journal
  BY <1>2 DEF Boot, Crash, Exit, Perish, Takeover
<1>3. CASE \/ \E b \in Boots : Supervisor(b)
           \/ \E s \in Sessions : Finish(s) \/ End(s) \/ Stop(s) \/ Close(s)
           \/ Owner
  BY <1>3, OthersAreOthers
<1>4. CASE Forget \/ UNCHANGED vars
  BY <1>4 DEF Forget, vars
<1> QED
  BY <1>1, <1>2, <1>3, <1>4 DEF Next

\* A row prepares an occurrence only by the hand of the holder.
LEMMA WroteIsHolders ==
    ASSUME FiringInv, NEW b \in Boots, Wrote(b), NEW o \in Occurrences,
           ~journal.rows[o].prepared, journal'.rows[o].prepared
    PROVE  holder = journal'.rows[o].writer
<1> DEFINE w == Head(sched[b].todo)
<1>1. /\ w \in Writes
      /\ IF w.do = "row" THEN AppendRow(b, w) ELSE UNCHANGED journal
      /\ w.do = "row" /\ w.state = "started" =>
               /\ journal.rows[w.occ].prepared
               /\ w.session \in Sessions /\ Occ(w.session) = w.occ
      /\ w.do = "row" /\ w.state = "prepared" => held[b] > 0
  BY WroteTask
<1>2. w.do = "row" /\ JournalInv
  BY <1>1 DEF FiringInv
<1> HIDE DEF w
<1>3. /\ w.occ = o /\ w.state = "prepared" /\ journal'.rows[o].writer = b
  BY <1>1, <1>2, RowFolds
<1> QED
  BY <1>1, <1>2, <1>3 DEF FiringInv, LeaseInv, HolderIsReal

\* A row leaves a completed occurrence completed.
LEMMA WroteLeavesCompleted ==
    ASSUME FiringInv, RunsInv, NEW b \in Boots, Wrote(b), NEW o \in Occurrences,
           journal.rows[o].terminal = "completed"
    PROVE  journal'.rows[o].terminal = "completed"
<1> DEFINE w == Head(sched[b].todo)
<1>1. /\ w \in Writes /\ sched[b].todo \in Seq(Writes) /\ sched[b].todo # <<>>
      /\ IF w.do = "row" THEN AppendRow(b, w) ELSE UNCHANGED journal
      /\ w.do = "row" /\ w.state = "started" =>
               /\ journal.rows[w.occ].prepared
               /\ w.session \in Sessions /\ Occ(w.session) = w.occ
  BY WroteTask
<1>2. w.do = "row" => w \in Rows(sched[b].todo)
  BY <1>1, HeadDone
<1>3. JournalInv /\ RowsFit(sched[b], journal.rows)
  BY DEF FiringInv, RunsInv
<1> HIDE DEF w
<1>4. CASE w.do # "row"
  BY <1>1, <1>4
<1>5. CASE w.do = "row" /\ w.occ # o
  BY <1>1, <1>3, <1>5, RowFolds
<1>6. CASE w.do = "row" /\ w.occ = o
  <2>1. \/ w.state = "started" /\ journal.rows[o].terminal \in {"none", "unknown"}
        \/ journal.rows[o].terminal = "none"
    BY <1>2, <1>3, <1>6 DEF RowsFit
  <2> QED
    BY <2>1
<1> QED
  BY <1>4, <1>5, <1>6

\* What memory and journal tell when nothing is owed.
LEMMA MemoryMatches == FiringInv /\ RunsInv => MemoryMatchesJournal
<1> SUFFICES ASSUME FiringInv, RunsInv, NEW b \in Boots, Settled(b)
             PROVE  /\ sched[b].awaiting \subseteq PreparedUnresolved(journal.rows)
                    /\ \A s \in sched[b].running :
                        /\ Occ(s) \in StartedUnresolved(journal.rows)
                        /\ journal.rows[Occ(s)].started = s
  BY DEF MemoryMatchesJournal
<1>1. InFlight(b, sched[b], journal.rows) /\ sched[b].todo = <<>>
  BY DEF RunsInv, Settled
<1> QED
  BY <1>1, NothingOwed DEF InFlight

\* Two launches of one occurrence are one.
LEMMA OnceFired == Fired => FiresAtMostOnce
<1> SUFFICES ASSUME Fired, NEW o \in Occurrences
             PROVE  Cardinality({b \in Boots : status[Original(b, o)] # "none"}) <= 1
  BY DEF FiresAtMostOnce
<1> DEFINE B == {b \in Boots : status[Original(b, o)] # "none"}
<1>1. \A a, b \in B : a = b
  BY DEF Fired, FiredBy, Launched
<1>2. CASE B = {}
  BY <1>2, FS_EmptySet
<1>3. CASE \E b : B = {b}
  <2>1. PICK b : B = {b}
    BY <1>3
  <2>2. Cardinality({b}) = 1
    BY FS_Singleton
  <2> QED
    BY <2>1, <2>2
<1> QED
  BY <1>1, <1>2, <1>3

\* In every home, with any number of daemons, an occurrence is prepared only by the
\* process that holds the scheduler lease at that moment, whatever drains, crashes and
\* takeovers come between the gate and the write (dispatch_session behind run_pass's gate).
THEOREM FiringIsHoldersAlways == Spec => FiringIsHolders
<1> DEFINE Inv == FiringInv /\ Numbered
           Step1 == \A o \in Occurrences :
                        ~journal.rows[o].prepared /\ journal'.rows[o].prepared
                        => holder = journal'.rows[o].writer
<1>1. Init => Inv
  BY NothingFired, Initially
<1>2. Inv /\ [Next]_vars => Inv'
  BY FiringStep
<1>3. Inv /\ [Next]_vars => [Step1]_vars
  BY JournalMoves, WroteIsHolders
<1> QED
  BY <1>1, <1>2, <1>3, PTL DEF Spec, FiringIsHolders

\* The invariant behind the next three: with one daemon at a time the fold is the
\* journal, every row owed fits it, and memory agrees with it.
LEMMA RunsInvAlways ==
    ASSUME ~Cohomed
    PROVE  Spec => [](FiringInv /\ Numbered /\ RunsInv)
<1>1. Init => FiringInv /\ Numbered /\ RunsInv
  BY NothingFired, Initially
<1>2. FiringInv /\ Numbered /\ RunsInv /\ [Next]_vars => (FiringInv /\ Numbered /\ RunsInv)'
  BY FiringStep
<1> QED
  BY <1>1, <1>2, PTL DEF Spec

\* Where one daemon lives at a time, between two handlers what the scheduler awaits is
\* prepared and unresolved in the journal and what it runs is a started row of that very
\* session, through every crash and recovery, late receipt, early outcome, rekey and lag
\* (PendingDispatch, running).
THEOREM MemoryMatchesJournalAlways ==
    ASSUME ~Cohomed
    PROVE  Spec => []MemoryMatchesJournal
BY RunsInvAlways, MemoryMatches, PTL

\* Where one daemon lives at a time, no occurrence is launched by two process lives: the
\* prepared row is on disk before the task is sent, and what a dead writer prepared is
\* resolved and never fired again (dispatch_session, resolve_lost_sessions).
THEOREM FiresAtMostOnceAlways ==
    ASSUME ~Cohomed
    PROVE  Spec => []FiresAtMostOnce
<1>1. RunsInv => FiresAtMostOnce
  BY OnceFired DEF RunsInv
<1> QED
  BY <1>1, RunsInvAlways, PTL

\* Where one daemon lives at a time, a completed occurrence stays completed: no recovery,
\* late end, readoption or time-out writes over it (complete_running).
THEOREM CompletedStaysAlways ==
    ASSUME ~Cohomed
    PROVE  Spec => CompletedStays
<1> DEFINE Stays == \A o \in Occurrences : journal.rows[o].terminal = "completed"
                        => journal'.rows[o].terminal = "completed"
<1>1. FiringInv /\ Numbered /\ RunsInv /\ [Next]_vars => [Stays]_vars
  BY JournalMoves, WroteLeavesCompleted
<1> QED
  BY <1>1, RunsInvAlways, PTL DEF Spec, CompletedStays
=============================================================================
