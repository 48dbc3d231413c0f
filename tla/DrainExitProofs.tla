--------------------------- MODULE DrainExitProofs ---------------------------
(* Why a draining daemon orphans nothing when it exits, for every number of   *)
(* sessions, every capacity of the ring and every scenario: the loop looks at *)
(* shells, phases, launches and appends at different moments, and what it saw *)
(* may have changed by the time it looks at the rest.  The second evaluation, *)
(* after the settle beat, is what makes the answer good: by then no launch is *)
(* left that could put a session on record behind the loop's back.            *)
EXTENDS DrainExit, TLAPS

------------------------------------------------------------------------------
(* Types. *)

\* No step leaves the types (RING bounds the ring unless it never overflows).
THEOREM TypeCorrect == Spec => []TypeOK
<1>1. Init => TypeOK
  BY RingAssumption, CommandsAssumption, SessionsAssumption
     DEF Init, TypeOK, Lifecycle, Phases, Doings, Running, Holds
<1>2. TypeOK /\ [Next]_vars => TypeOK'
  <2> SUFFICES ASSUME TypeOK, [Next]_vars PROVE TypeOK'
    OBVIOUS
  <2> USE RingAssumption, CommandsAssumption, SessionsAssumption DEF sessionVars
  <2>1. ASSUME NEW e \in Lifecycle, Emit(e)
        PROVE  ring' \in Seq(Lifecycle) /\ (scenario.roomy \/ Len(ring') <= RING)
    BY <2>1 DEF Emit, TypeOK
  <2>2. Notice \in Lifecycle /\ \A s \in Sessions, p \in Phases : Phase(s, p) \in Lifecycle
    BY DEF Lifecycle, Notice, Phase
  <2>3. ASSUME NEW s \in Sessions, SendCreate(s) \/ SendFollowUp(s)
        PROVE  TypeOK'
    <3>1. PICK kind \in {"create", "follow_up"} : Send(kind, s)
      BY <2>3 DEF SendCreate, SendFollowUp
    <3>2. [kind |-> kind, session |-> s] \in Intents
      BY DEF Intents
    <3> QED
      BY <3>1, <3>2 DEF Send, TypeOK, loopVars, drainVars, Holds
  <2>4. ASSUME NEW s \in Sessions, SessionStep(s)
        PROVE  TypeOK'
    <3>1. ASSUME NEW p \in Phases, Emit(Phase(s, p)),
                 NEW w \in Doings, work' = [work EXCEPT ![s] = w],
                 phase' \in [Sessions -> Phases \cup {"absent"}],
                 inbox' \in [Sessions -> Nat], intents' \in Seq(Intents),
                 UNCHANGED <<launch, held, pc, pass, drain, presence, sent, scenario>>
          PROVE  TypeOK'
      <4>1. ring' \in Seq(Lifecycle) /\ (scenario.roomy \/ Len(ring') <= RING)
        BY <2>1, <2>2, <3>1
      <4>2. work' \in [Sessions -> Doings]
        BY <3>1 DEF TypeOK
      <4> QED
        BY <3>1, <4>1, <4>2 DEF TypeOK, Holds
    <3>2. /\ [kind |-> "complete", session |-> s] \in Intents
          /\ [kind |-> "ended", session |-> s] \in Intents
          /\ {"busy", "idle", "done"} \subseteq Phases
          /\ {"none", "turn", "told", "rest", "leaving"} \subseteq Doings
      BY DEF Intents, Phases, Doings
    <3>3. CASE StartTurn(s)
      <4>1. /\ Emit(Phase(s, "busy")) /\ work' = [work EXCEPT ![s] = "turn"]
            /\ UNCHANGED <<phase, intents, launch, held, pc, pass, drain, presence, sent, scenario>>
        BY <3>3 DEF StartTurn, loopVars, drainVars, counters
      <4>2. inbox' \in [Sessions -> Nat]
        <5>1. inbox \in [Sessions -> Nat]
          BY DEF TypeOK
        <5>2. inbox' = inbox \/ (inbox[s] > 0 /\ inbox' = [inbox EXCEPT ![s] = inbox[s] - 1])
          BY <3>3 DEF StartTurn
        <5> QED
          BY ONLY <5>1, <5>2
      <4> QED
        BY <3>1, <3>2, <4>1, <4>2 DEF TypeOK
    <3>4. ASSUME NEW from \in Doings, NEW to \in {"told", "leaving"}, SendTaskComplete(s, from, to)
          PROVE  TypeOK'
      <4>1. /\ Emit(Phase(s, "done")) /\ work' = [work EXCEPT ![s] = to]
            /\ intents' = Append(intents, [kind |-> "complete", session |-> s])
            /\ UNCHANGED <<phase, inbox, launch, held, pc, pass, drain, presence, sent, scenario>>
        BY <3>4 DEF SendTaskComplete, loopVars, drainVars, counters
      <4>2. intents' \in Seq(Intents)
        BY <3>2, <4>1 DEF TypeOK
      <4> QED
        BY <3>1, <3>2, <4>1, <4>2 DEF TypeOK
    <3>5. CASE CompleteRound(s)
      <4>1. /\ Emit(Phase(s, "idle")) /\ work' = [work EXCEPT ![s] = "rest"]
            /\ UNCHANGED <<phase, inbox, intents, launch, held, pc, pass, drain, presence, sent, scenario>>
        BY <3>5 DEF CompleteRound, loopVars, drainVars, counters
      <4> QED
        BY <3>1, <3>2, <4>1 DEF TypeOK
    <3>6. CASE Finish(s)
      <4>1. /\ Emit(Phase(s, "done")) /\ work' = [work EXCEPT ![s] = "none"]
            /\ intents' = Append(intents, [kind |-> "ended", session |-> s])
            /\ phase' = [phase EXCEPT ![s] = "absent"] /\ inbox' = [inbox EXCEPT ![s] = 0]
            /\ UNCHANGED <<launch, held, pc, pass, drain, presence, sent, scenario>>
        BY <3>6 DEF Finish, loopVars, drainVars, counters
      <4>2. /\ intents' \in Seq(Intents)
            /\ phase' \in [Sessions -> Phases \cup {"absent"}]
            /\ inbox' \in [Sessions -> Nat]
        BY <3>2, <4>1 DEF TypeOK
      <4> QED
        BY <3>1, <3>2, <4>1, <4>2
    <3> QED
      BY <2>4, <3>2, <3>3, <3>4, <3>5, <3>6 DEF SessionStep, TurnStep, CompleteTask, Conclude
  <2>6. ASSUME NEW s \in Sessions, LaunchStep(s)
        PROVE  TypeOK'
    <3>1. UNCHANGED ring \/ Emit(Notice)
      BY <2>6 DEF LaunchStep, LaunchGate, LaunchRegisters, LaunchSettles
    <3>2. ring' \in Seq(Lifecycle) /\ (scenario.roomy \/ Len(ring') <= RING)
      BY <2>1, <2>2, <3>1 DEF TypeOK
    <3>3. /\ phase' \in [Sessions -> Phases \cup {"absent"}]
          /\ work' \in [Sessions -> Doings]
          /\ inbox' = inbox
      <4>1. /\ \/ phase' = phase /\ work' = work
               \/ /\ phase' = [phase EXCEPT ![s] = "busy"]
                  /\ work' = [work EXCEPT ![s] = "queued"]
            /\ inbox' = inbox
        BY <2>6 DEF LaunchStep, LaunchGate, LaunchRegisters, LaunchSettles
      <4>2. "busy" \in Phases /\ "queued" \in Doings
        BY DEF Phases, Doings
      <4>3. phase \in [Sessions -> Phases \cup {"absent"}] /\ work \in [Sessions -> Doings]
        BY DEF TypeOK
      <4> QED
        BY ONLY <4>1, <4>2, <4>3
    <3>5. launch' \in [Sessions -> {"none", "accepted", "admitted", "ended", "settled"}]
      <4>1. \/ launch' = [launch EXCEPT ![s] = "admitted"]
            \/ launch' = [launch EXCEPT ![s] = "ended"]
            \/ launch' = [launch EXCEPT ![s] = "settled"]
        BY <2>6 DEF LaunchStep, LaunchGate, LaunchRegisters, LaunchSettles
      <4> QED
        BY <4>1 DEF TypeOK
    <3>4. UNCHANGED <<intents, held, pc, pass, drain, presence, sent, scenario>>
      BY <2>6 DEF LaunchStep, LaunchGate, LaunchRegisters, LaunchSettles, loopVars, drainVars, counters
    <3> QED
      BY <3>2, <3>3, <3>4, <3>5 DEF TypeOK, Holds
  <2>7. ASSUME NEW h \in Holds, Hold(h) \/ LetGo(h)
        PROVE  TypeOK'
    <3>1. held' \subseteq Holds
      BY <2>7 DEF Hold, LetGo, TypeOK
    <3>2. UNCHANGED <<phase, work, inbox, launch, intents, ring, pc, pass, drain, presence, sent, scenario>>
      BY <2>7 DEF Hold, LetGo, loopVars, drainVars, counters
    <3> QED
      BY <3>1, <3>2 DEF TypeOK, Holds
  <2>8. CASE RequestDrain \/ EnterDrain
    BY <2>1, <2>2, <2>8 DEF RequestDrain, EnterDrain, TypeOK, loopVars, drainVars, counters, Holds
  <2>9. CASE LoopIntent
    <3>1. Head(intents) \in Intents /\ Tail(intents) \in Seq(Intents)
      BY <2>9 DEF LoopIntent, TypeOK
    <3>2. Head(intents).session \in Sessions
      BY <3>1 DEF Intents
    <3>3. inbox' \in [Sessions -> Nat]
      BY <2>9, <3>2 DEF LoopIntent, Deliver, TypeOK
    <3>4. launch' \in [Sessions -> {"none", "accepted", "admitted", "ended", "settled"}]
      BY <2>9, <3>2 DEF LoopIntent, TypeOK
    <3>5. UNCHANGED <<phase, work, held, ring, pass, drain, presence, sent, scenario>>
      BY <2>9 DEF LoopIntent, drainVars, counters
    <3> QED
      BY <2>9, <3>1, <3>3, <3>4, <3>5 DEF LoopIntent, TypeOK, Holds
  <2>10. CASE LoopLifecycle
    <3>1. Observed(Head(ring)) \in [Sessions -> Phases \cup {"absent"}]
      BY <2>10 DEF LoopLifecycle, Observed, Lifecycle, Notice, TypeOK
    <3> QED
      BY <2>10, <3>1 DEF LoopLifecycle, TypeOK, loopVars, drainVars, counters, Holds
  <2>11. CASE Scan \/ Heavy \/ Beat
    BY <2>11 DEF Scan, Heavy, Beat, AfterReady, TypeOK, loopVars, drainVars, counters, Holds
  <2>12. CASE UNCHANGED vars
    BY <2>12 DEF vars, TypeOK, loopVars, drainVars, Holds
  <2> QED
    BY <2>3, <2>4, <2>6, <2>7, <2>8, <2>9, <2>10, <2>11, <2>12
       DEF Next, LoopStep
<1> QED
  BY <1>1, <1>2, PTL DEF Spec

------------------------------------------------------------------------------
(* Nothing orphaned. *)

\* What the loop may rely on at each point.  Past the shells, none is running and none
\* will be; past the first positive answer no launch is unsettled and, because launches
\* start in the receive arm only, none will be; from then on nothing changes a phase.
Answered == pc \in {"beat", "stopped"} \/ (pass = 2 /\ pc \in {"scan", "heavy"})

Relies ==
  /\ pc \in {"recv", "beat"} => pass = 1
  /\ pc = "heavy" \/ Answered => Draining /\ "terminal" \notin held
  /\ Answered => PendingHeavy = {}
  /\ pc = "stopped" \/ (pc = "heavy" /\ pass = 2) => Holding = {}

\* Relies is inductive over the types (drain_exit_ready, the settle beat).
LEMMA ReliesInductive == TypeOK /\ TypeOK' /\ Relies /\ [Next]_vars => Relies'
<1> SUFFICES ASSUME TypeOK, TypeOK', Relies, [Next]_vars PROVE Relies'
  OBVIOUS
<1> USE DEF sessionVars
<1>1. ASSUME NEW s \in Sessions, SendCreate(s) \/ SendFollowUp(s)
      PROVE  Relies'
  BY <1>1 DEF SendCreate, SendFollowUp, Send, Relies, Answered, Draining, PendingHeavy, Holding,
              loopVars, drainVars
<1>2. ASSUME NEW s \in Sessions, TurnStep(s) \/ Conclude(s)
      PROVE  Relies'
  BY <1>2 DEF TurnStep, StartTurn, CompleteTask, Conclude, SendTaskComplete, CompleteRound,
              Relies, Answered, Draining, PendingHeavy, Holding, loopVars, drainVars, counters
<1>3. ASSUME NEW s \in Sessions, Finish(s)
      PROVE  Relies'
  BY <1>3 DEF Finish, Relies, Answered, Draining, PendingHeavy, Holding, TypeOK,
              loopVars, drainVars, counters
<1>4. ASSUME NEW s \in Sessions, LaunchStep(s)
      PROVE  Relies'
  <2>1. s \in PendingHeavy
    BY <1>4 DEF LaunchStep, LaunchGate, LaunchRegisters, LaunchSettles, PendingHeavy
  <2>2. ~Answered /\ ~Answered'
    BY <1>4, <2>1 DEF Relies, Answered, LaunchStep, LaunchGate, LaunchRegisters, LaunchSettles,
                      loopVars
  <2> QED
    BY <1>4, <2>2 DEF LaunchStep, LaunchGate, LaunchRegisters, LaunchSettles, Relies, Answered,
                      Draining, loopVars, drainVars, counters, TypeOK
<1>5. ASSUME NEW h \in Holds, Hold(h) \/ LetGo(h)
      PROVE  Relies'
  BY <1>5 DEF Hold, LetGo, Relies, Answered, Draining, PendingHeavy, Holding,
              loopVars, drainVars, counters
<1>6. CASE RequestDrain \/ EnterDrain
  BY <1>6 DEF RequestDrain, EnterDrain, Relies, Answered, Draining, PendingHeavy, Holding,
              loopVars, drainVars, counters
<1>7. CASE LoopIntent \/ LoopLifecycle
  BY <1>7 DEF LoopIntent, LoopLifecycle, Relies, Answered, loopVars, drainVars, counters
<1>8. CASE Scan
  BY <1>8 DEF Scan, Relies, Answered, Draining, PendingHeavy, Holding, loopVars, drainVars, counters,
              TypeOK
<1>9. CASE Heavy
  BY <1>9 DEF Heavy, AfterReady, Relies, Answered, Draining, PendingHeavy, Holding, loopVars,
              drainVars, counters, TypeOK
<1>10. CASE Beat
  BY <1>10 DEF Beat, Relies, Answered, Draining, PendingHeavy, Holding, loopVars, drainVars, counters
<1>11. CASE UNCHANGED vars
  BY <1>11 DEF vars, Relies, Answered, Draining, PendingHeavy, Holding, loopVars, drainVars
<1> QED
  BY <1>1, <1>2, <1>3, <1>4, <1>5, <1>6, <1>7, <1>8, <1>9, <1>10, <1>11
     DEF Next, SessionStep, LoopStep

\* When the receive loop of a draining daemon stops, no launch is unsettled, no session
\* is on record as holding work and no shell is running (drain_exit_ready).
THEOREM NothingOrphanedAlways == Spec => []NothingOrphaned
<1>1. Init => Relies
  BY DEF Init, Relies, Answered
<1>2. Relies => NothingOrphaned
  BY DEF Relies, Answered, NothingOrphaned
<1> QED
  BY <1>1, <1>2, TypeCorrect, ReliesInductive, PTL DEF Spec
------------------------------------------------------------------------------
(* Phases are only ever late. *)

\* A session that does anything is registered.
Registered == \A s \in Sessions : work[s] # "none" => phase[s] # "absent"

\* What the loop will have on record of s when it has read the whole ring: p.
Said(s) == {Phase(s, p) : p \in Phases}
LeftOn(s, p) ==
  \/ \E i \in 1..Len(ring) : /\ ring[i] = Phase(s, p)
                             /\ \A j \in (i + 1)..Len(ring) : ring[j] \notin Said(s)
  \/ phase[s] = p /\ \A j \in 1..Len(ring) : ring[j] \notin Said(s)

\* The ring need not be empty for the last phase in it to be right: this is inductive.
LastWords == \A s \in Sessions, p \in Phases : Begun(s) /\ p = LastSaid(work[s]) => LeftOn(s, p)
OnRecord == Registered /\ (scenario.roomy => LastWords)

\* An event about another session, behind the ring, leaves this one as it was.
LEMMA LeftBehind ==
  ASSUME TypeOK, NEW s \in Sessions, NEW p \in Phases, LeftOn(s, p),
         NEW e \in Lifecycle, e \notin Said(s),
         ring' = Append(ring, e), phase'[s] = phase[s]
  PROVE  LeftOn(s, p)'
<1>1. /\ ring \in Seq(Lifecycle) /\ Len(ring') = Len(ring) + 1 /\ Len(ring) \in Nat
      /\ \A i \in 1..Len(ring) : ring'[i] = ring[i]
      /\ ring'[Len(ring) + 1] = e
  BY DEF TypeOK
<1> DEFINE said == Said(s)
           word == Phase(s, p)
<1>2. e \notin said
  OBVIOUS
<1>3. ASSUME phase[s] = p, \A j \in 1..Len(ring) : ring[j] \notin said
      PROVE  LeftOn(s, p)'
  <2> HIDE DEF said, word
  <2>1. \A j \in 1..Len(ring') : ring'[j] \notin said
    BY ONLY <1>1, <1>2, <1>3
  <2> QED
    BY <1>3, <2>1 DEF LeftOn, Said, Phase, said
<1>4. ASSUME NEW i \in 1..Len(ring), ring[i] = word, \A j \in (i + 1)..Len(ring) : ring[j] \notin said
      PROVE  LeftOn(s, p)'
  <2> HIDE DEF said, word
  <2>1. i \in 1..Len(ring') /\ ring'[i] = word
    BY ONLY <1>1, <1>4
  <2>2. \A j \in (i + 1)..Len(ring') : ring'[j] \notin said
    BY ONLY <1>1, <1>2, <1>4
  <2> QED
    BY <2>1, <2>2 DEF LeftOn, Said, Phase, said, word
<1> QED
  BY <1>3, <1>4 DEF LeftOn

\* What a session says last is what it is left on.
LEMMA LeftSaying ==
  ASSUME TypeOK, NEW s \in Sessions, NEW p \in Phases, ring' = Append(ring, Phase(s, p))
  PROVE  LeftOn(s, p)'
<1>1. /\ Len(ring') = Len(ring) + 1 /\ Len(ring) \in Nat
      /\ ring'[Len(ring) + 1] = Phase(s, p)
  BY DEF TypeOK
<1> QED
  BY <1>1 DEF LeftOn, Phase

\* Reading one event of the ring moves it into the phase (observe_lifecycle_event).
LEMMA LeftReading ==
  ASSUME TypeOK, NEW s \in Sessions, NEW p \in Phases, LeftOn(s, p), phase[s] # "absent",
         ring # <<>>, ring' = Tail(ring), phase' = Observed(Head(ring))
  PROVE  LeftOn(s, p)'
<1>1. /\ Len(ring) \in Nat \ {0} /\ Len(ring') = Len(ring) - 1
      /\ \A i \in 1..Len(ring') : ring'[i] = ring[i + 1]
      /\ Head(ring) = ring[1] /\ ring[1] \in Lifecycle
  BY DEF TypeOK
<1>2. phase'[s] = IF ring[1] # Notice /\ ring[1].session = s THEN ring[1].phase ELSE phase[s]
  BY <1>1 DEF Observed, TypeOK, Lifecycle, Notice
<1>3. CASE ring[1] = Phase(s, p) /\ \A j \in 2..Len(ring) : ring[j] \notin Said(s)
  <2>1. phase'[s] = p
    BY <1>2, <1>3 DEF Phase, Notice
  <2>2. \A j \in 1..Len(ring') : ring'[j] \notin Said(s)
    BY <1>1, <1>3
  <2> QED
    BY <2>1, <2>2 DEF LeftOn, Said, Phase
<1>4. CASE \E i \in 2..Len(ring) : /\ ring[i] = Phase(s, p)
                                   /\ \A j \in (i + 1)..Len(ring) : ring[j] \notin Said(s)
  <2>1. PICK i \in 2..Len(ring) : /\ ring[i] = Phase(s, p)
                                  /\ \A j \in (i + 1)..Len(ring) : ring[j] \notin Said(s)
    BY <1>4
  <2>2. i - 1 \in 1..Len(ring') /\ ring'[i - 1] = Phase(s, p)
    BY <1>1, <2>1
  <2>3. \A j \in ((i - 1) + 1)..Len(ring') : ring'[j] \notin Said(s)
    BY <1>1, <2>1
  <2> QED
    BY <2>2, <2>3 DEF LeftOn, Said, Phase
<1>5. CASE phase[s] = p /\ \A j \in 1..Len(ring) : ring[j] \notin Said(s)
  <2>1. ring[1] = Notice \/ ring[1].session # s
    BY <1>1, <1>5 DEF Said, Phase, Lifecycle
  <2>2. phase'[s] = p
    BY <1>2, <1>5, <2>1
  <2>3. \A j \in 1..Len(ring') : ring'[j] \notin Said(s)
    BY <1>1, <1>5
  <2> QED
    BY <2>2, <2>3 DEF LeftOn, Said, Phase
<1>6. \/ \E i \in 1..Len(ring) : /\ ring[i] = Phase(s, p)
                                 /\ \A j \in (i + 1)..Len(ring) : ring[j] \notin Said(s)
      \/ phase[s] = p /\ \A j \in 1..Len(ring) : ring[j] \notin Said(s)
  BY DEF LeftOn
<1> QED
  BY <1>1, <1>3, <1>4, <1>5, <1>6

\* Steps that leave the ring, and this session's phase, alone.
LEMMA LeftAlone ==
  ASSUME NEW s \in Sessions, NEW p \in Phases, LeftOn(s, p), ring' = ring, phase'[s] = phase[s]
  PROVE  LeftOn(s, p)'
BY DEF LeftOn, Said, Phase

\* OnRecord is inductive over the types.
LEMMA OnRecordInductive == TypeOK /\ OnRecord /\ [Next]_vars => OnRecord'
<1> SUFFICES ASSUME TypeOK, OnRecord, [Next]_vars PROVE OnRecord'
  OBVIOUS
<1>0. /\ Notice \in Lifecycle
      /\ \A s \in Sessions, p \in Phases : Phase(s, p) \in Lifecycle
      /\ \A s \in Sessions : Notice \notin Said(s)
      /\ \A s, t \in Sessions, p \in Phases : t # s => Phase(t, p) \notin Said(s)
  BY DEF Lifecycle, Notice, Phase, Said
<1>00. /\ phase \in [Sessions -> Phases \cup {"absent"}]
       /\ work \in [Sessions -> Doings]
  BY DEF TypeOK
<1>a. ASSUME UNCHANGED <<phase, work, scenario>>,
             ring' = ring \/ Emit(Notice)
      PROVE  OnRecord'
  <2>1. Registered'
    BY <1>a DEF OnRecord, Registered
  <2>2. ASSUME NEW s \in Sessions, NEW p \in Phases, scenario.roomy,
               Begun(s), p = LastSaid(work[s])
        PROVE  LeftOn(s, p)'
    <3>1. LeftOn(s, p)
      BY <2>2 DEF OnRecord, LastWords
    <3>2. ring' = ring \/ ring' = Append(ring, Notice)
      BY <1>a, <2>2 DEF Emit
    <3> QED
      BY <1>0, <1>a, <3>1, <3>2, LeftAlone, LeftBehind
  <2> QED
    BY <1>a, <2>1, <2>2 DEF OnRecord, LastWords, Begun
\* What is common to all that a session says: it is left on that, the others as they were.
<1>b. ASSUME NEW s \in Sessions, NEW p \in Phases, NEW w \in Doings,
             Emit(Phase(s, p)), work' = [work EXCEPT ![s] = w],
             UNCHANGED scenario,
             w # "none" => phase[s] # "absent" /\ p = LastSaid(w),
             \A t \in Sessions : t # s \/ w # "none" => phase'[t] = phase[t]
      PROVE  OnRecord'
  <2>1. \A t \in Sessions : t # s => work'[t] = work[t] /\ phase'[t] = phase[t]
    BY <1>00, <1>b
  <2>2. work'[s] = w
    BY <1>00, <1>b
  <2>3. Registered'
    BY <1>b, <2>1, <2>2 DEF OnRecord, Registered
  <2>4. ASSUME NEW t \in Sessions, NEW q \in Phases, scenario.roomy,
               Begun(t)', q = LastSaid(work'[t])
        PROVE  LeftOn(t, q)'
    <3>1. ring' = Append(ring, Phase(s, p))
      BY <1>b, <2>4 DEF Emit
    <3>2. CASE t = s
      <4>1. q = p
        BY <1>b, <2>2, <2>4, <3>2 DEF Begun
      <4> QED
        BY <3>1, <3>2, <4>1, LeftSaying
    <3>3. CASE t # s
      <4>1. LeftOn(t, q)
        BY <2>1, <2>4, <3>3 DEF OnRecord, LastWords, Begun
      <4>2. Phase(s, p) \in Lifecycle /\ Phase(s, p) \notin Said(t) /\ phase'[t] = phase[t]
        BY <1>0, <2>1, <3>3
      <4> QED
        BY ONLY TypeOK, <3>1, <4>1, <4>2, LeftBehind
    <3> QED
      BY <3>2, <3>3
  <2> QED
    BY <1>b, <2>3, <2>4 DEF OnRecord, LastWords
<1>c. {"none", "turn", "told", "rest", "leaving"} \subseteq Doings /\ {"busy", "idle", "done"} \subseteq Phases
  BY DEF Doings, Phases
<1>1. ASSUME NEW s \in Sessions, SendCreate(s) \/ SendFollowUp(s)
      PROVE  OnRecord'
  BY <1>1, <1>a DEF SendCreate, SendFollowUp, Send, sessionVars
<1>2. ASSUME NEW s \in Sessions, TurnStep(s) \/ Conclude(s)
      PROVE  OnRecord'
  <2>1. work[s] # "none" /\ UNCHANGED <<phase, scenario>>
    BY <1>2 DEF TurnStep, StartTurn, CompleteTask, Conclude, SendTaskComplete, CompleteRound, counters
  <2>2. phase[s] # "absent"
    BY <2>1 DEF OnRecord, Registered
  <2>3. CASE StartTurn(s)
    <3>1. Emit(Phase(s, "busy")) /\ work' = [work EXCEPT ![s] = "turn"]
      BY <2>3 DEF StartTurn
    <3>2. "busy" = LastSaid("turn")
      BY DEF LastSaid
    <3> QED
      BY <1>b, <1>c, <2>1, <2>2, <3>1, <3>2
  <2>4. CASE CompleteTask(s)
    <3>1. Emit(Phase(s, "done")) /\ work' = [work EXCEPT ![s] = "told"]
      BY <2>4 DEF CompleteTask, SendTaskComplete
    <3>2. "done" = LastSaid("told")
      BY DEF LastSaid
    <3> QED
      BY <1>b, <1>c, <2>1, <2>2, <3>1, <3>2
  <2>5. CASE Conclude(s)
    <3>1. Emit(Phase(s, "done")) /\ work' = [work EXCEPT ![s] = "leaving"]
      BY <2>5 DEF Conclude, SendTaskComplete
    <3>2. "done" = LastSaid("leaving")
      BY DEF LastSaid
    <3> QED
      BY <1>b, <1>c, <2>1, <2>2, <3>1, <3>2
  <2>6. CASE CompleteRound(s)
    <3>1. Emit(Phase(s, "idle")) /\ work' = [work EXCEPT ![s] = "rest"]
      BY <2>6 DEF CompleteRound
    <3>2. "idle" = LastSaid("rest")
      BY DEF LastSaid
    <3> QED
      BY <1>b, <1>c, <2>1, <2>2, <3>1, <3>2
  <2> QED
    BY <1>2, <2>3, <2>4, <2>5, <2>6 DEF TurnStep
<1>3. ASSUME NEW s \in Sessions, Finish(s)
      PROVE  OnRecord'
  <2>1. /\ Emit(Phase(s, "done")) /\ work' = [work EXCEPT ![s] = "none"]
        /\ phase' = [phase EXCEPT ![s] = "absent"] /\ UNCHANGED scenario
    BY <1>3 DEF Finish, counters
  <2>2. \A t \in Sessions : t # s => phase'[t] = phase[t]
    BY <1>00, <2>1
  <2> QED
    BY <1>b, <1>c, <2>1, <2>2
<1>4. ASSUME NEW s \in Sessions, LaunchStep(s)
      PROVE  OnRecord'
  <2>1. CASE UNCHANGED <<phase, work>>
    BY <1>4, <1>a, <2>1 DEF LaunchStep, LaunchGate, LaunchRegisters, LaunchSettles, sessionVars, counters
  <2>2. CASE ~UNCHANGED <<phase, work>>
    <3>1. /\ phase' = [phase EXCEPT ![s] = "busy"] /\ work' = [work EXCEPT ![s] = "queued"]
          /\ UNCHANGED <<ring, scenario>>
      BY <1>4, <2>2 DEF LaunchStep, LaunchGate, LaunchRegisters, LaunchSettles, sessionVars, counters
    <3>2. \A t \in Sessions : /\ t # s => work'[t] = work[t] /\ phase'[t] = phase[t]
                              /\ t = s => work'[t] = "queued" /\ phase'[t] = "busy"
      BY <1>00, <3>1
    <3>3. Registered'
      BY <3>2 DEF OnRecord, Registered
    <3>4. ASSUME NEW t \in Sessions, NEW q \in Phases, scenario.roomy,
                 Begun(t)', q = LastSaid(work'[t])
          PROVE  LeftOn(t, q)'
      <4>1. work'[t] = work[t] /\ phase'[t] = phase[t]
        BY <3>2, <3>4 DEF Begun
      <4>2. LeftOn(t, q)
        BY <3>4, <4>1 DEF OnRecord, LastWords, Begun
      <4> QED
        BY <3>1, <4>1, <4>2, LeftAlone
    <3> QED
      BY <3>1, <3>3, <3>4 DEF OnRecord, LastWords
  <2> QED
    BY <2>1, <2>2
<1>5. ASSUME NEW h \in Holds, Hold(h) \/ LetGo(h)
      PROVE  OnRecord'
  BY <1>5, <1>a DEF Hold, LetGo, sessionVars, counters
<1>6. CASE RequestDrain \/ EnterDrain
  BY <1>6, <1>a DEF RequestDrain, EnterDrain, sessionVars, counters
<1>7. CASE LoopIntent
  BY <1>7, <1>a DEF LoopIntent, counters
<1>8. CASE LoopLifecycle
  <2>1. /\ UNCHANGED <<work, scenario>>
        /\ ring # <<>> /\ ring' = Tail(ring) /\ phase' = Observed(Head(ring))
    BY <1>8 DEF LoopLifecycle, counters
  <2>2. Head(ring) \in Lifecycle
    BY <2>1 DEF TypeOK
  <2>3. \A t \in Sessions : phase[t] # "absent" => phase'[t] # "absent"
    BY <1>00, <2>1, <2>2 DEF Observed, Lifecycle, Notice, Phases
  <2>4. Registered'
    BY <2>1, <2>3 DEF OnRecord, Registered
  <2>5. ASSUME NEW t \in Sessions, NEW q \in Phases, scenario.roomy,
               Begun(t), q = LastSaid(work[t])
        PROVE  LeftOn(t, q)'
    <3>1. LeftOn(t, q) /\ phase[t] # "absent"
      BY <2>5 DEF OnRecord, LastWords, Registered, Begun
    <3> QED
      BY <2>1, <3>1, LeftReading
  <2> QED
    BY <2>1, <2>4, <2>5 DEF OnRecord, LastWords, Begun
<1>9. CASE Scan \/ Heavy \/ Beat
  BY <1>9, <1>a DEF Scan, Heavy, Beat, sessionVars, counters
<1>10. CASE UNCHANGED vars
  BY <1>10, <1>a DEF vars
<1> QED
  BY <1>1, <1>2, <1>3, <1>4, <1>5, <1>6, <1>7, <1>8, <1>9, <1>10 DEF Next, SessionStep, LoopStep

\* As long as nothing is lost a phase on record is only late: with an empty ring every
\* session that has begun is on record as what it last said (observe_lifecycle_event).
THEOREM QuietRingIsAccurateAlways == Spec => []QuietRingIsAccurate
<1>1. Init => OnRecord
  <2> SUFFICES ASSUME Init PROVE OnRecord
    OBVIOUS
  <2>1. Registered
    BY DEF Init, Registered
  <2>2. ASSUME NEW s \in Sessions, NEW p \in Phases, Begun(s), p = LastSaid(work[s])
        PROVE  LeftOn(s, p)
    BY <2>2 DEF Init, Begun, LastSaid, LeftOn
  <2> QED
    BY <2>1, <2>2 DEF OnRecord, LastWords
<1>2. TypeOK /\ OnRecord => QuietRingIsAccurate
  <2> SUFFICES ASSUME TypeOK, OnRecord, scenario.roomy, ring = <<>>,
                      NEW s \in Sessions, Begun(s)
               PROVE  phase[s] = LastSaid(work[s])
    BY DEF QuietRingIsAccurate
  <2>1. LastSaid(work[s]) \in Phases
    BY DEF LastSaid, Phases
  <2>2. LeftOn(s, LastSaid(work[s]))
    BY <2>1 DEF OnRecord, LastWords
  <2>3. Len(ring) = 0
    OBVIOUS
  <2> QED
    BY <2>2, <2>3 DEF LeftOn
<1> QED
  BY <1>1, <1>2, TypeCorrect, OnRecordInductive, PTL DEF Spec
==============================================================================
