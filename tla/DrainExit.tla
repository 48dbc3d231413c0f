------------------------------ MODULE DrainExit ------------------------------
(* How a draining daemon decides to exit (session_supervisor/mod.rs): the     *)
(* supervisor's receive loop over two lanes of the event bus, the phases it   *)
(* records from the lossy lane, and drain_exit_ready, evaluated after every   *)
(* event and once more after a settle beat.  Launch bodies run beside the     *)
(* loop on the intake executor and count as pending until their job settles.  *)
EXTENDS Naturals, Sequences, FiniteSets, SequencesExt

CONSTANTS Sessions,
          Scenarios,     \* what the daemon starts with and who uses it
          RING,          \* capacity of the broadcast ring (4096 in the code)
          MaxCommands    \* bound: commands sent to the supervisor

\* running:   the sessions already registered, mid-turn, at the start
\* creatable: the ids, not in use yet, that launches are given
\* holds:     which of "terminal" and "transfer" somebody may use
\* roomy:     the loop keeps up: the ring never overflows

ASSUME RingAssumption == RING \in Nat \ {0}
ASSUME CommandsAssumption == MaxCommands \in Nat
ASSUME SessionsAssumption ==
         /\ Scenarios \subseteq [running : SUBSET Sessions, creatable : SUBSET Sessions,
                                 holds : SUBSET {"terminal", "transfer"}, roomy : BOOLEAN]
         /\ \A c \in Scenarios : c.running \cap c.creatable = {}

VARIABLES
  phase,     \* session -> the phase the supervisor has on record, or "absent"
  work,      \* session -> what the session itself is doing
  inbox,     \* session -> follow-ups waiting in its channel
  launch,    \* session -> progress of its launch body
  held,      \* shells running, transfer appends in flight
  intents,   \* lossless lane: commands and session ends
  ring,      \* broadcast lane: lifecycle events, oldest dropped when full
  pc,        \* the receive loop: recv, scan, heavy, beat, stopped
  pass,      \* which of the two evaluations drain_exit_ready is in
  drain,     \* no, requested (the flag is up), entered (lease let go, notice out)
  presence,  \* the daemon's presence record
  sent,      \* commands sent so far
  scenario   \* fixed

loopVars == <<pc, pass>>
drainVars == <<drain, presence>>
vars == <<phase, work, inbox, launch, held, intents, ring, loopVars, drainVars, sent, scenario>>
sessionVars == <<phase, work, inbox>>
counters == <<sent, scenario>>
Running == scenario.running
Creatable == scenario.creatable
Holds == scenario.holds

Intents == [kind : {"create", "follow_up", "complete", "ended"}, session : Sessions]
Notice == [kind |-> "notice"]
Phases == {"busy", "idle", "done"}
Lifecycle == [kind : {"phase"}, session : Sessions, phase : Phases] \cup {Notice}

\* told: TaskComplete is out and RoundComplete follows; leaving: it does not.
Doings == {"none", "queued", "turn", "told", "rest", "leaving"}

TypeOK ==
  /\ phase \in [Sessions -> Phases \cup {"absent"}]
  /\ work \in [Sessions -> Doings]
  /\ inbox \in [Sessions -> Nat]
  /\ launch \in [Sessions -> {"none", "accepted", "admitted", "ended", "settled"}]
  /\ held \subseteq Holds
  /\ intents \in Seq(Intents)
  /\ ring \in Seq(Lifecycle) /\ (scenario.roomy \/ Len(ring) <= RING)
  /\ pc \in {"recv", "scan", "heavy", "beat", "stopped"} /\ pass \in {1, 2}
  /\ drain \in {"no", "requested", "entered"}
  /\ presence \in {"running", "draining", "exited"}
  /\ sent \in 0..MaxCommands
  /\ scenario \in Scenarios

\* The process is gone once the loop has stopped.
Alive == pc # "stopped"
Draining == drain # "no"
Phase(s, p) == [kind |-> "phase", session |-> s, phase |-> p]

\* Mutant: the ring grows instead of dropping its oldest event.
EmitUnbounded(e) == ring' = Append(ring, e)

Emit(e) == ring' = IF Len(ring) = RING /\ ~scenario.roomy THEN Append(Tail(ring), e) ELSE Append(ring, e)

\* session_holds_drain (every phase but done), and the launches
\* latest_pending_heavy_key stands for.
Holding == {s \in Sessions : phase[s] \in {"busy", "idle"}}
PendingHeavy == {s \in Sessions : launch[s] \in {"accepted", "admitted", "ended"}}

Init ==
  /\ scenario \in Scenarios
  /\ phase = [s \in Sessions |-> IF s \in Running THEN "busy" ELSE "absent"]
  /\ work = [s \in Sessions |-> IF s \in Running THEN "turn" ELSE "none"]
  /\ inbox = [s \in Sessions |-> 0]
  /\ launch = [s \in Sessions |-> "none"]
  /\ held = {}
  /\ intents = <<>>
  /\ ring = <<>>
  /\ pc = "recv" /\ pass = 1
  /\ drain = "no" /\ presence = "running"
  /\ sent = 0

------------------------------------------------------------------------------
(* The world: commands, the drain request, and the sessions themselves. *)

Send(kind, s) ==
  /\ Alive
  /\ sent < MaxCommands
  /\ sent' = sent + 1
  /\ intents' = Append(intents, [kind |-> kind, session |-> s])
  /\ UNCHANGED <<held, sessionVars, launch, ring, loopVars, drainVars, scenario>>

SendCreate(s) ==
  /\ s \in Creatable /\ launch[s] = "none"
  /\ \A i \in 1..Len(intents) : intents[i].session # s
  /\ Send("create", s)

SendFollowUp(s) == phase[s] # "absent" /\ Send("follow_up", s)

\* The flag goes up first; the ordered entry follows on the scheduler's wake.
RequestDrain ==
  /\ Alive
  /\ drain = "no"
  /\ drain' = "requested"
  /\ UNCHANGED <<held, sessionVars, launch, intents, ring, loopVars, presence, counters>>

\* Mutant: the entry is written to the log and the record, not told on the bus.
EnterDrainSilently ==
  /\ Alive
  /\ drain = "requested"
  /\ drain' = "entered"
  /\ presence' = "draining"
  /\ UNCHANGED <<held, sessionVars, launch, intents, ring, loopVars, counters>>

\* perform_drain_entry: its notice is also what re-evaluates the exit condition.
EnterDrain ==
  /\ Alive
  /\ drain = "requested"
  /\ drain' = "entered"
  /\ presence' = "draining"
  /\ Emit(Notice)
  /\ UNCHANGED <<held, sessionVars, launch, intents, loopVars, counters>>

\* A resting session takes the oldest follow-up of its channel up as its next turn.
StartTurn(s) ==
  /\ Alive
  /\ \/ work[s] = "queued" /\ UNCHANGED inbox
     \/ work[s] = "rest" /\ inbox[s] > 0 /\ inbox' = [inbox EXCEPT ![s] = @ - 1]
  /\ work' = [work EXCEPT ![s] = "turn"]
  /\ Emit(Phase(s, "busy"))
  /\ UNCHANGED <<held, phase, launch, intents, loopVars, drainVars, counters>>

\* TaskComplete rides both lanes; only the broadcast copy sets a phase.
SendTaskComplete(s, from, to) ==
  /\ Alive
  /\ work[s] = from
  /\ work' = [work EXCEPT ![s] = to]
  /\ intents' = Append(intents, [kind |-> "complete", session |-> s])
  /\ Emit(Phase(s, "done"))
  /\ UNCHANGED <<held, phase, inbox, launch, loopVars, drainVars, counters>>

\* A turn without a done signal says that the task is complete ...
CompleteTask(s) == SendTaskComplete(s, "turn", "told")

\* ... and so does a seat that is concluded, on its way out.
Conclude(s) == SendTaskComplete(s, "rest", "leaving")

\* The round is over after either end of a turn (a DoneSignal itself sets no phase)
\* and the session waits at its channel: idle, even if it was done before.
CompleteRound(s) ==
  /\ Alive
  /\ work[s] \in {"turn", "told"}
  /\ work' = [work EXCEPT ![s] = "rest"]
  /\ Emit(Phase(s, "idle"))
  /\ UNCHANGED <<held, phase, inbox, launch, intents, loopVars, drainVars, counters>>

\* finish_session: out of the registry first, then SessionEnded on both lanes.  So
\* ends a failed turn, a sub-agent, a session that is stopped or concluded.
Finish(s) ==
  /\ Alive
  /\ work[s] # "none"
  /\ work' = [work EXCEPT ![s] = "none"]
  /\ phase' = [phase EXCEPT ![s] = "absent"]
  /\ inbox' = [inbox EXCEPT ![s] = 0]
  /\ intents' = Append(intents, [kind |-> "ended", session |-> s])
  /\ Emit(Phase(s, "done"))
  /\ UNCHANGED <<held, launch, loopVars, drainVars, counters>>

\* A draining daemon opens no new shell; an upload may append at any time.
Hold(h) ==
  /\ Alive
  /\ h \in Holds \ held
  /\ h = "terminal" => ~Draining
  /\ held' = held \cup {h}
  /\ UNCHANGED <<sessionVars, launch, intents, ring, loopVars, drainVars, counters>>

\* The shell is closed, the append is over: neither is told on the bus.
LetGo(h) ==
  /\ Alive
  /\ h \in held
  /\ held' = held \ {h}
  /\ UNCHANGED <<sessionVars, launch, intents, ring, loopVars, drainVars, counters>>

------------------------------------------------------------------------------
(* Launch bodies. *)

\* The drain gate runs in the body; its refusal is told on the bus.
LaunchGate(s) ==
  /\ Alive
  /\ launch[s] = "accepted"
  /\ \/ ~Draining /\ launch' = [launch EXCEPT ![s] = "admitted"] /\ UNCHANGED ring
     \/ Draining /\ launch' = [launch EXCEPT ![s] = "ended"] /\ Emit(Notice)
  /\ UNCHANGED <<held, sessionVars, intents, loopVars, drainVars, counters>>

\* start_new_session registers the session, or fails.
LaunchRegisters(s) ==
  /\ Alive
  /\ launch[s] = "admitted"
  /\ launch' = [launch EXCEPT ![s] = "ended"]
  /\ \/ /\ phase' = [phase EXCEPT ![s] = "busy"]
        /\ work' = [work EXCEPT ![s] = "queued"]
        /\ UNCHANGED ring
     \/ Emit(Notice) /\ UNCHANGED <<phase, work>>
  /\ UNCHANGED <<held, inbox, intents, loopVars, drainVars, counters>>

\* The executor settles the job: nothing is told to anybody.
LaunchSettles(s) ==
  /\ Alive
  /\ launch[s] = "ended"
  /\ launch' = [launch EXCEPT ![s] = "settled"]
  /\ UNCHANGED <<held, sessionVars, intents, ring, loopVars, drainVars, counters>>

------------------------------------------------------------------------------
(* The receive loop. *)

\* route_follow_up: into the channel of a registered session, whatever it does.
Deliver(s) == inbox' = IF phase[s] = "absent" THEN inbox ELSE [inbox EXCEPT ![s] = @ + 1]

\* biased: intents first.
LoopIntent ==
  LET e == Head(intents)
  IN /\ pc = "recv" /\ intents # <<>>
     /\ intents' = Tail(intents)
     /\ pc' = "scan"
     /\ \/ e.kind = "create" /\ launch' = [launch EXCEPT ![e.session] = "accepted"]
                             /\ UNCHANGED inbox
        \/ e.kind = "follow_up" /\ Deliver(e.session) /\ UNCHANGED launch
        \/ e.kind \in {"complete", "ended"} /\ UNCHANGED <<launch, inbox>>
     /\ UNCHANGED <<held, phase, work, ring, pass, drainVars, counters>>

\* Mutant: a phase on record as done is never taken up again.
StickyDone(e) ==
  IF e # Notice /\ phase[e.session] \in {"busy", "idle"}
  THEN [phase EXCEPT ![e.session] = e.phase] ELSE phase

\* observe_lifecycle_event: the phase of a registered session, by its id alone.
Observed(e) ==
  IF e # Notice /\ phase[e.session] # "absent"
  THEN [phase EXCEPT ![e.session] = e.phase] ELSE phase

LoopLifecycle ==
  /\ pc = "recv" /\ intents = <<>> /\ ring # <<>>
  /\ ring' = Tail(ring)
  /\ phase' = Observed(Head(ring))
  /\ pc' = "scan"
  /\ UNCHANGED <<held, work, inbox, launch, intents, pass, drainVars, counters>>

\* drain_exit_ready, first half: the shells, whose admission is closed by now,
\* and the phases, read under the state lock.
Scan ==
  /\ pc = "scan"
  /\ IF Draining /\ Holding = {} /\ "terminal" \notin held THEN pc' = "heavy" /\ UNCHANGED pass
                                 ELSE pc' = "recv" /\ pass' = 1
  /\ UNCHANGED <<held, sessionVars, launch, intents, ring, drainVars, counters>>

\* Mutant: the loop breaks on the first positive answer.
FirstAnswerExits == "stopped"

AfterReady == IF pass = 1 THEN "beat" ELSE "stopped"

\* Second half: the pending launches, read later under the executor's lock, and
\* the appends in flight.
Heavy ==
  /\ pc = "heavy"
  /\ IF PendingHeavy = {} /\ "transfer" \notin held
     THEN presence' = "exited" /\ pc' = AfterReady /\ UNCHANGED pass
     ELSE pc' = "recv" /\ pass' = 1 /\ UNCHANGED presence
  /\ UNCHANGED <<held, sessionVars, launch, intents, ring, drain, counters>>

\* The settle beat: the loop sleeps and then asks again.
Beat ==
  /\ pc = "beat"
  /\ pc' = "scan" /\ pass' = 2
  /\ UNCHANGED <<held, sessionVars, launch, intents, ring, drainVars, counters>>

------------------------------------------------------------------------------
TurnStep(s) == StartTurn(s) \/ CompleteTask(s) \/ CompleteRound(s)
SessionStep(s) == TurnStep(s) \/ Conclude(s) \/ Finish(s)

\* What a session does without being told: it does not leave its channel by itself.
OwnStep(s) == TurnStep(s) \/ (work[s] = "leaving" /\ Finish(s))
LaunchStep(s) == LaunchGate(s) \/ LaunchRegisters(s) \/ LaunchSettles(s)
LoopStep == LoopIntent \/ LoopLifecycle \/ Scan \/ Heavy \/ Beat

Next ==
  \/ \E s \in Sessions : \/ SendCreate(s) \/ SendFollowUp(s)
                         \/ SessionStep(s) \/ LaunchStep(s)
  \/ \E h \in Holds : Hold(h) \/ LetGo(h)
  \/ RequestDrain \/ EnterDrain
  \/ LoopStep

Spec == Init /\ [][Next]_vars

\* The loop, the scheduler's wake, launch bodies, turns, shells and appends all
\* get on; nobody has to send anything, and a resting session need not leave.
FairSpec == /\ Spec
            /\ WF_vars(LoopStep)
            /\ WF_vars(EnterDrain)
            /\ \A s \in Sessions : /\ WF_vars(OwnStep(s))
                                   /\ WF_vars(LaunchStep(s))
            /\ \A h \in {"terminal", "transfer"} : WF_vars(LetGo(h))

------------------------------------------------------------------------------
(* Correctness. *)

\* "exiting under it would orphan the launch": although shells, phases, launches
\* and appends are read at different moments, when the loop stops no launch is
\* unsettled, no session is on record as holding work and no shell is running.
\* (An append that starts after the last look is not seen.)
NothingOrphaned ==
  pc = "stopped" => PendingHeavy = {} /\ Holding = {} /\ "terminal" \notin held

\* What a session has last said about itself when it does w.
LastSaid(w) == CASE w = "turn" -> "busy" [] w = "rest" -> "idle" [] OTHER -> "done"
Begun(s) == work[s] \notin {"none", "queued"}

\* Without loss, a phase on record is only ever late: once the ring is empty every
\* session that has begun is on record as what it last said it does.
QuietRingIsAccurate ==
  scenario.roomy /\ ring = <<>> => \A s \in Sessions : Begun(s) => phase[s] = LastSaid(work[s])

Live == {s \in Sessions : phase[s] # "absent"}

\* What ends without a word on the bus: shells, appends, the settling of a launch.
Silent == held # {} \/ PendingHeavy # {}

\* The loop has something left to look at: an event on either lane, an evaluation it
\* is in, a session whose end will be told, the notice of the entry.
Stirs == Live # {} \/ drain = "requested" \/ intents # <<>> \/ ring # <<>> \/ pc # "recv"

\* "a DRAINING daemon whose last supervised session ended exits gracefully" (the
\* loop), and so does one that had none (the notice of the entry, handover/mod.rs):
\* also when the ring loses events and when a shell, an append or a launch has ended
\* since without a word, as long as the loop had one thing left to look at then.
DrainEnds ==
  (/\ Stirs
   /\ [](Draining /\ ~Silent)
   /\ <>(Live = {})) ~> pc = "stopped"

\* "When its last work-holding session finishes and all terminals are closed, the
\* drainer records an exited presence state and the process exits"
\* (docs/src/control-plane-and-daemon.md), in whichever order that happens.
AllClosedExits == Draining /\ [](Live = {} /\ ~Silent) ~> pc = "stopped"

\* The doc of drain_exit_ready: "draining exists to protect in-flight work", and
\* the loop's doc calls a lagged phase cosmetic.  Then no session is mid-turn when
\* the daemon exits.
NoWorkAtExit ==
  pc = "stopped" => \A s \in Sessions : work[s] \notin {"queued", "turn"}
==============================================================================
