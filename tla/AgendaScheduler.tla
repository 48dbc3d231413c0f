--------------------------- MODULE AgendaScheduler ---------------------------
(***************************************************************************)
(* The agenda's scheduler task (agenda/scheduler.rs) over the occurrence   *)
(* journal, the scheduler lease and the session supervisor, for one item   *)
(* that carries one standing effect, across process lives.                 *)
(*                                                                         *)
(* The loop: a pass (refresh the journal, pass the lease gate, recover     *)
(* what dead writers left, plan, act), the sweeps, then one wake-up or one *)
(* bus event.  Its handlers are synchronous but owe several durable        *)
(* writes: a journal row, the write-back on the item, the StartTask.  The  *)
(* writes still owed are `todo'; other processes run between two of them,  *)
(* and a crash loses the rest.  What the handlers keep in memory dies with *)
(* the process: the journal, the item and the resume lineage survive.      *)
(*                                                                         *)
(* Time is abstracted: causes come due, grow stale and time-outs expire at *)
(* any moment.  The reminders lane, address aliases, attestations and I/O  *)
(* errors are left out.                                                    *)
(***************************************************************************)
EXTENDS OccurrenceJournal, SchedulerLease, Filtering, SequencesExt

CONSTANTS
    Worlds,         \* the scenarios: the manifest and what its sessions do
    MaxSuccessors,  \* bound on the resumes of one lineage
    Threshold,      \* suspend_threshold
    EarlyCap,       \* EARLY_OUTCOME_CAP
    Ring,           \* capacity of the broadcast bus
    Cohomed         \* may a daemon start while another one lives

ASSUME SchedulerAssumption ==
    /\ Worlds \subseteq [triggered : BOOLEAN, wrapped : BOOLEAN, causes : 0..MaxCause,
                         faults : SUBSET {"crash", "drain", "lose", "late", "refuse",
                                          "restart", "stop", "close", "request", "forget"}]
    /\ MaxCause \in Nat /\ MaxAttempts \in Nat \ {0}
    /\ MaxSuccessors \in Nat /\ Threshold \in Nat \ {0}
    /\ EarlyCap \in Nat \ {0} /\ Ring \in Nat \ {0} /\ Cohomed \in BOOLEAN

\* a session: its occurrence, the boot that launched the first session of its
\* lineage, its generation in the lineage
Sessions == Occurrences \X Boots \X (0..MaxSuccessors)

ASSUME SessionAssumption == NoSession \notin Sessions

\* the states of a session no supervisor keeps driving
Dead == {"ended", "stopped", "lost"}

VARIABLES
    journal,    \* on disk: what its rows fold to, and their greatest generation
    item,       \* the effect's last_run and consecutive_failures
    clock,      \* due: the latest due instant; last: the latest one minted;
                \* requested, pending: run-now requests; stale: past the window
    status,     \* of each session
    host,       \* the boot that drives or drove a session
    sched,      \* the scheduler task of each boot
    inbox,      \* its bus subscription: queued events, and whether some were lost
    tasks,      \* StartTasks on their way to the boot's supervisor
    acks,       \* sessions whose TaskReceived is still to be emitted
    world       \* the scenario, fixed

vars == <<leaseVars, journal, item, clock, status, host, sched, inbox,
          tasks, acks, world>>

NoItemRun == [occ |-> <<0, 0>>, state |-> "none", failures |-> 0]
EmptyJournal == [rows |-> [o \in Occurrences |-> Fresh], generation |-> 0]
Resting == [pc |-> "open", fold |-> EmptyJournal, stamp |-> 0,
            todo |-> <<>>, claim |-> NoSession, awaiting |-> {}, running |-> {},
            early |-> <<>>, ended |-> {}, watch |-> {}]
Quiet == [events |-> <<>>, lagged |-> FALSE]

Init ==
    /\ LeaseInit
    /\ journal = EmptyJournal
    /\ item = NoItemRun
    /\ clock = [due |-> 0, last |-> 0, requested |-> {}, pending |-> FALSE, stale |-> {}]
    /\ status = [s \in Sessions |-> "none"]
    /\ host = [s \in Sessions |-> NoBoot]
    /\ sched = [b \in Boots |-> Resting]
    /\ inbox = [b \in Boots |-> Quiet]
    /\ tasks = [b \in Boots |-> {}]
    /\ acks = [b \in Boots |-> {}]
    /\ world \in Worlds

-----------------------------------------------------------------------------
(* Helpers.                                                                *)

suspended == item.failures >= Threshold

\* the writes a handler owes, in order
Row(o, state, session) == [do |-> "row", occ |-> o, state |-> state, session |-> session]
Note(o, state)         == [do |-> "note", occ |-> o, state |-> state, session |-> NoSession]
Send(o)                == [do |-> "send", occ |-> o, state |-> "none", session |-> NoSession]

\* a row and its write-back
Outcome(o, state, session) == <<Row(o, state, session), Note(o, state)>>

\* the two writes f[x], for one x of a set after the other
InTurn(f) ==
    LET xs == SetToSeq(DOMAIN f)
    IN  [i \in 1..(2 * Len(xs)) |-> f[xs[(i + 1) \div 2]][IF i % 2 = 1 THEN 1 ELSE 2]]

\* an outcome for each of a set of runs, the pairs of an occurrence and a session
Outcomes(runs, state) == InTurn([r \in runs |-> Outcome(r[1], state, r[2])])

\* resolve_spawnless, for each occurrence of a set
Spawnless(occs, state) == Outcomes(occs \X {NoSession}, state)

\* a synchronous handler is over when nothing is owed
Settled(b) == sched[b].todo = <<>> /\ sched[b].claim = NoSession
At(b, pc) == Live(b) /\ sched[b].pc = pc /\ Settled(b)

Original(b, o) == <<o, b, 0>>
Occ(s) == s[1]
Lineage(s) == {t \in Sessions : t[1] = s[1] /\ t[2] = s[2] /\ status[t] # "none"}

\* successor_tip: the newest wrapper of the lineage, unless it is the one excluded
SuccessorTip(s) ==
    {t \in Lineage(s) : t # s /\ world.wrapped /\ \A u \in Lineage(s) : u[3] <= t[3]}
StoppedByUser(s) == world.wrapped /\ \E t \in Lineage(s) : status[t] = "stopped"

\* the bus keeps Ring events per subscriber and drops the oldest
Emit(b, type, s) ==
    inbox' = [inbox EXCEPT ![b] =
        IF Len(@.events) < Ring
        THEN [inbox[b] EXCEPT !.events = Append(@, [type |-> type, session |-> s])]
        ELSE [events |-> Append(Tail(@.events), [type |-> type, session |-> s]),
              lagged |-> TRUE]]

Larger(m, n) == IF m > n THEN m ELSE n

schedulerOnly == <<journal, item, clock, status, host, tasks, acks, world>>

-----------------------------------------------------------------------------
(* Recovery of what dead writers left (resolve_lost_sessions).             *)

\* Mutant: a started row is never recovered.
NoneLost(b, fold) == {}

MayResolve(b, writer) == writer # b /\ (writer = NoBoot \/ ~Live(writer))

LostSessions(b, fold) == {o \in StartedUnresolved(fold) : MayResolve(b, fold[o].writer)}
LostDispatches(b, fold) == {o \in PreparedUnresolved(fold) : MayResolve(b, fold[o].writer)}

\* a started row marks the item only if the item still shows that run
RecoveryWrites(b, fold) ==
    LET sessions == LostSessions(b, fold)
    IN  Without(Outcomes({<<o, fold[o].started>> : o \in sessions}, "unknown"),
                {Note(o, "unknown") : o \in sessions \ {item.occ}})
            \o Spawnless(LostDispatches(b, fold), "unknown")

\* boot recovery parks a ReadoptWatch for the session the item shows, unless
\* the series is suspended
Watches(b, fold) ==
    {fold[o].started : o \in {p \in LostSessions(b, fold) : item.occ = p /\ ~suspended}}

-----------------------------------------------------------------------------
(* A process life.                                                         *)

\* main: mint a boot id, register presence, try the lease over the generations
\* the journal shows.  Ids are minted in time order.
Boot(b) ==
    /\ \A a \in Boots : a < b => process[a] # "new"
    /\ ~Cohomed => \A a \in Boots : process[a] # "up"
    /\ Initialize(b, journal.generation)
    /\ UNCHANGED <<journal, item, clock, status, host, sched, inbox, tasks,
                   acks, world>>

\* spawn_reminder_scheduler: open the journal, subscribe, boot recovery
Open(b) ==
    /\ At(b, "open")
    /\ sched' = [sched EXCEPT ![b] =
            [Resting EXCEPT !.pc = "gate", !.fold = journal, !.stamp = held[b],
                            !.todo = RecoveryWrites(b, journal.rows),
                            !.watch = Watches(b, journal.rows)]]
    /\ UNCHANGED <<leaseVars, inbox, schedulerOnly>>

\* the process dies: memory is gone, its sessions lose their driver
Perish(b) ==
    /\ Die(b)
    /\ status' = [s \in Sessions |->
            IF host[s] = b /\ status[s] = "live" THEN "lost" ELSE status[s]]
    /\ sched' = [sched EXCEPT ![b] = Resting]
    /\ inbox' = [inbox EXCEPT ![b] = Quiet]
    /\ tasks' = [tasks EXCEPT ![b] = {}]
    /\ acks' = [acks EXCEPT ![b] = {}]
    /\ UNCHANGED <<journal, item, clock, host, world>>

Crash(b) == "crash" \in world.faults /\ Perish(b)

\* a drained daemon exits when its last session is over, whatever its scheduler
\* has not read yet
Exit(b) ==
    /\ draining[b] /\ held[b] = 0
    /\ \A s \in Sessions : host[s] = b => status[s] # "live"
    /\ Perish(b)

\* a takeover request reaches the holder's server thread
Takeover(b) ==
    /\ "drain" \in world.faults
    /\ \E a \in Boots : a # b /\ Live(a)
    /\ RequestDrain(b, sched[b].pc # "open")
    /\ UNCHANGED <<journal, item, clock, status, host, sched, inbox, tasks,
                   acks, world>>

Forget ==
    /\ "forget" \in world.faults
    /\ LoseSidecar
    /\ UNCHANGED <<journal, item, clock, status, host, sched, inbox, tasks,
                   acks, world>>

-----------------------------------------------------------------------------
(* The durable writes of a handler, one at a time.                         *)

\* OccurrenceJournal::append: refold under the append lock, stamp, write, fold
AppendRow(b, w) ==
    LET row == [state |-> w.state, session |-> w.session, boot |-> b]
    IN  /\ journal' = [rows |-> [journal.rows EXCEPT ![w.occ] = FoldRow(@, row)],
                       generation |-> Larger(journal.generation, sched[b].stamp)]
        /\ sched' = [sched EXCEPT ![b].fold = journal', ![b].todo = Tail(@)]
        /\ UNCHANGED <<item, clock, tasks>>

\* record_occurrence: the fold of the item's log replaces last_run
WriteBack(b, w) ==
    /\ item' = [occ |-> w.occ, state |-> w.state,
                failures |-> CASE w.state = "completed" -> 0
                               [] w.state \in {"failed", "unknown"} ->
                                    IF suspended THEN item.failures ELSE item.failures + 1
                               [] OTHER -> item.failures]
    /\ clock' = [clock EXCEPT !.pending = FALSE]
    /\ sched' = [sched EXCEPT ![b].todo = Tail(@)]
    /\ UNCHANGED <<journal, tasks>>

\* send_start_task: the delegation id is the occurrence id
SendStartTask(b, w) ==
    /\ tasks' = [tasks EXCEPT ![b] = @ \cup {w.occ}]
    /\ sched' = [sched EXCEPT ![b].todo = Tail(@)]
    /\ UNCHANGED <<journal, item, clock>>

Write(b) ==
    /\ Live(b)
    /\ sched[b].todo # <<>>
    /\ LET w == Head(sched[b].todo)
       IN  \/ w.do = "row" /\ AppendRow(b, w)
           \/ w.do = "note" /\ WriteBack(b, w)
           \/ w.do = "send" /\ SendStartTask(b, w)
    /\ UNCHANGED <<leaseVars, status, host, inbox, acks, world>>

-----------------------------------------------------------------------------
(* One pass.                                                               *)

\* plan() over the fold, the item and what is in flight; a suspended effect
\* plans nothing
Planned(t) ==
    LET inFlight == t.awaiting \cup {Occ(s) : s \in t.running}
        overlap  == \/ inFlight # {}
                    \/ item.state = "started"
                    \/ StartedUnresolved(t.fold.rows) # {}
    IN  IF suspended THEN [crashed |-> {}, missed |-> {}, spawn |-> {}]
        ELSE Plan(t.fold.rows, world.triggered, clock.due, clock.requested,
                  clock.stale, inFlight, overlap)

\* Mutant: the task is sent before its row is written.
SendFirst(o) == <<Send(o), Row(o, "prepared", NoSession)>>

\* dispatch_session: journal prepared, send, await the receipt
Dispatch(o) == <<Row(o, "prepared", NoSession), Send(o)>>

\* dispatch_governed holds every due occurrence (a start in the last interval,
\* or capacity deferred), or starts the first in due order.  A dispatch that is
\* refused -- no project, a broken seal -- fails and lets the next one go.
Governed(due) ==
    {go \in [start : SUBSET due, refused : SUBSET due] :
        \/ go.start = {} /\ go.refused \in {{}, due}
        \/ \E o \in due : go.start = {o} /\ go.refused = {p \in due : p[1] < o[1]}}

\* the writes and receipts a pass owes for its choice; missed windows and crashed
\* launches are resolved last
ActOn(t, go) ==
    [t EXCEPT !.pc = "sweep",
              !.awaiting = @ \cup go.start,
              !.todo = Spawnless(go.refused, "failed")
                       \o InTurn([o \in go.start |-> Dispatch(o)])
                       \o Spawnless(Planned(t).missed, "missed")
                       \o Spawnless(Planned(t).crashed, "unknown")]

\* what a pass of the task t may do once it has planned
Acted(t) ==
    {ActOn(t, go) : go \in {g \in Governed(Planned(t).spawn) :
                                g.refused = {} \/ "refuse" \in world.faults}}

\* the holder first recovers what writers that died since have left; when there is
\* nothing to recover it plans in the same step
PassAsHolder(b, generation) ==
    LET t == [sched[b] EXCEPT !.stamp = generation]
        lost == RecoveryWrites(b, t.fold.rows)
    IN  \E u \in IF lost = <<>> THEN Acted(t)
                 ELSE {[t EXCEPT !.pc = "plan", !.todo = lost]} :
            sched' = [sched EXCEPT ![b] = u]

\* The gate of run_pass.  Draining outranks everything: the entry duty, and no
\* planning.  The holder goes on; a secondary polls the lease over the generations
\* its fold shows.
Gate(b) ==
    /\ At(b, "gate")
    /\ \/ /\ draining[b]
          /\ IF duty[b] THEN PerformDrainEntry(b) ELSE UNCHANGED leaseVars
          /\ sched' = [sched EXCEPT ![b].pc = "sweep"]
       \/ /\ ~draining[b] /\ held[b] > 0
          /\ PassAsHolder(b, sched[b].stamp)
          /\ UNCHANGED leaseVars
       \/ /\ PollAcquire(b, sched[b].fold.generation)
          /\ PassAsHolder(b, held'[b])
       \/ /\ ~draining[b] /\ held[b] = 0 /\ holder # NoBoot
          /\ sched' = [sched EXCEPT ![b].pc = "sweep"]
          /\ UNCHANGED leaseVars
    /\ UNCHANGED <<inbox, schedulerOnly>>

\* plan and act after a recovery
PlanAndAct(b) ==
    /\ At(b, "plan")
    /\ \E u \in Acted(sched[b]) : sched' = [sched EXCEPT ![b] = u]
    /\ UNCHANGED <<leaseVars, inbox, schedulerOnly>>

-----------------------------------------------------------------------------
(* Verdicts on a session in `running', as functions of the task t.         *)

\* Mutant: the session stays in running.
StaysRunning(t, s, state) ==
    [t EXCEPT !.ended = @ \ {s}, !.claim = NoSession, !.todo = Outcome(Occ(s), state, s)]

\* complete_running and fail_running
Concluded(t, s, state) ==
    [t EXCEPT !.running = @ \ {s}, !.ended = @ \ {s}, !.claim = NoSession,
              !.todo = Outcome(Occ(s), state, s)]

\* the occurrence follows its lineage to the session u: a fresh started row names
\* it, and its early outcome is claimed
Followed(t, s, u) ==
    [t EXCEPT !.running = (@ \ {s}) \cup {u}, !.ended = @ \ {s},
              !.todo = Outcome(Occ(s), "started", u), !.claim = u]

\* classify_ended_running_session: an owner's stop is final, a successor is
\* followed, a native session fails at once, a wrapper waits out the grace
Classified(t, s) ==
    IF StoppedByUser(s) THEN Concluded(t, s, "failed")
    ELSE IF SuccessorTip(s) # {} THEN Followed(t, s, CHOOSE u \in SuccessorTip(s) : TRUE)
    ELSE IF ~world.wrapped THEN Concluded(t, s, "failed")
    ELSE [t EXCEPT !.ended = @ \cup {s}, !.claim = NoSession]

\* take_early_outcome for the session that just entered `running'
OutcomesOf(early, s) == SelectSeq(early, LAMBDA e : e.session = s)
OutcomesBut(early, s) == SelectSeq(early, LAMBDA e : e.session # s)
Claim(b) ==
    LET s    == sched[b].claim
        mine == OutcomesOf(sched[b].early, s)
        t    == [sched[b] EXCEPT !.early = OutcomesBut(@, s)]
    IN  /\ Live(b) /\ sched[b].todo = <<>> /\ s # NoSession
        /\ sched' = [sched EXCEPT ![b] =
                CASE mine = <<>> -> [t EXCEPT !.claim = NoSession]
                  [] mine # <<>> /\ Head(mine).type = "done" -> Concluded(t, s, "completed")
                  [] OTHER -> Classified(t, s)]
        /\ UNCHANGED <<leaseVars, inbox, schedulerOnly>>

-----------------------------------------------------------------------------
(* The sweeps, between the pass and the sleep.                             *)

\* the time-outs of a dispatch are far longer than a launch, except in a late world
NoReceiptComing(b, o) ==
    \/ "late" \in world.faults
    \/ /\ o \notin tasks[b] /\ Original(b, o) \notin acks[b]
       /\ \A i \in DOMAIN inbox[b].events :
            inbox[b].events[i] # [type |-> "received", session |-> Original(b, o)]

\* sweep_pending_dispatches: a dispatch without a receipt is sent again ...
Resend(b, o) ==
    /\ At(b, "sweep")
    /\ o \in sched[b].awaiting
    /\ o \notin tasks[b] /\ NoReceiptComing(b, o)
    /\ sched' = [sched EXCEPT ![b].todo = <<Send(o)>>]
    /\ UNCHANGED <<leaseVars, inbox, schedulerOnly>>

\* ... and given up in the end
Abandon(b, o) ==
    /\ At(b, "sweep")
    /\ o \in sched[b].awaiting
    /\ NoReceiptComing(b, o)
    /\ sched' = [sched EXCEPT ![b].awaiting = @ \ {o},
                              ![b].todo = Outcome(o, "unknown", NoSession)]
    /\ UNCHANGED <<leaseVars, inbox, schedulerOnly>>

\* sweep_lineage_pending: classify a held end again; past the grace it failed
IsHeld(b, s) == Classified(sched[b], s) = [sched[b] EXCEPT !.claim = NoSession]
ReclassifyEnd(b, s) ==
    /\ At(b, "sweep")
    /\ s \in sched[b].ended
    /\ ~IsHeld(b, s)
    /\ sched' = [sched EXCEPT ![b] = Classified(@, s)]
    /\ UNCHANGED <<leaseVars, inbox, schedulerOnly>>

GraceExpires(b, s) ==
    /\ At(b, "sweep")
    /\ s \in sched[b].ended
    /\ IsHeld(b, s)
    /\ sched' = [sched EXCEPT ![b] = Concluded(@, s, "failed")]
    /\ UNCHANGED <<leaseVars, inbox, schedulerOnly>>

\* sweep_readopt_watch: an owner's stop ends the watch, a successor re-opens the
\* occurrence unless it is already followed, the window closes in the end
ReadoptSettles(b, s) == StoppedByUser(s) \/ SuccessorTip(s) # {}
IsFollowed(b, o) == \E s \in sched[b].running : Occ(s) = o
Readopt(b, s) ==
    /\ At(b, "sweep")
    /\ s \in sched[b].watch
    /\ ReadoptSettles(b, s)
    /\ LET t == [sched[b] EXCEPT !.watch = @ \ {s}]
       IN  sched' = [sched EXCEPT ![b] =
               IF StoppedByUser(s) \/ IsFollowed(b, Occ(s)) THEN t
               ELSE Followed(t, s, CHOOSE u \in SuccessorTip(s) : TRUE)]
    /\ UNCHANGED <<leaseVars, inbox, schedulerOnly>>

WatchExpires(b, s) ==
    /\ At(b, "sweep")
    /\ s \in sched[b].watch
    /\ ~ReadoptSettles(b, s)
    /\ sched' = [sched EXCEPT ![b].watch = @ \ {s}]
    /\ UNCHANGED <<leaseVars, inbox, schedulerOnly>>

-----------------------------------------------------------------------------
(* The select, once the sweeps have nothing left to settle but time-outs.  *)
(* Whatever it returns, the next pass begins by refolding the journal.     *)

Selecting(b) ==
    /\ At(b, "sweep")
    /\ \A s \in sched[b].ended : IsHeld(b, s)
    /\ \A s \in sched[b].watch : ~ReadoptSettles(b, s)

NextPass(t) == [t EXCEPT !.pc = "gate", !.fold = journal]

\* a nudge, a timer, or the drain wake-up
Wake(b) ==
    /\ Selecting(b)
    /\ sched' = [sched EXCEPT ![b] = NextPass(@)]
    /\ UNCHANGED <<leaseVars, inbox, schedulerOnly>>

\* Mutant: a full memory takes nothing more.
RefusesWhenFull(early, e) ==
    IF (\E i \in DOMAIN early : early[i].session = e.session) \/ Len(early) = EarlyCap THEN early
    ELSE Append(early, e)

\* remember_early_outcome: the first terminal of a session wins, the oldest goes
Remembered(early, e) ==
    IF \E i \in DOMAIN early : early[i].session = e.session THEN early
    ELSE IF Len(early) < EarlyCap THEN Append(early, e)
    ELSE Append(Tail(early), e)

\* TaskReceived: the receipt of an awaited dispatch
Received(t, s) ==
    IF Occ(s) \notin t.awaiting THEN t
    ELSE [t EXCEPT !.awaiting = @ \ {Occ(s)},
                   !.running = @ \cup {s},
                   !.todo = Outcome(Occ(s), "started", s),
                   !.claim = s]

\* observe_event, by the kind of event
Observed(t, e) ==
    CASE e.type = "received" -> Received(t, e.session)
      [] e.type # "received" /\ e.session \notin t.running ->
            [t EXCEPT !.early = Remembered(@, e)]
      [] e.type = "done" /\ e.session \in t.running -> Concluded(t, e.session, "completed")
      [] OTHER -> Classified(t, e.session)

Observe(b) ==
    /\ Selecting(b)
    /\ ~inbox[b].lagged /\ inbox[b].events # <<>>
    /\ sched' = [sched EXCEPT ![b] = Observed(NextPass(@), Head(inbox[b].events))]
    /\ inbox' = [inbox EXCEPT ![b].events = Tail(@)]
    /\ UNCHANGED <<leaseVars, schedulerOnly>>

\* Lagged: receipts and ends may be lost, so everything in flight goes unknown
Lag(b) ==
    /\ Selecting(b)
    /\ inbox[b].lagged
    /\ sched' = [sched EXCEPT
           ![b].pc = "gate", ![b].fold = journal, ![b].awaiting = {}, ![b].running = {}, ![b].ended = {},
           ![b].todo = Spawnless(sched[b].awaiting, "unknown")
                       \o Outcomes({<<Occ(s), s>> : s \in sched[b].running}, "unknown")]
    /\ inbox' = [inbox EXCEPT ![b].lagged = FALSE]
    /\ UNCHANGED <<leaseVars, schedulerOnly>>

-----------------------------------------------------------------------------
(* The session supervisor of a boot and its sessions.                      *)

supervisorOnly == <<leaseVars, journal, item, clock, sched, world>>

\* a StartTask without a receipt launches the occurrence's session ...
Launch(b, o) ==
    /\ Live(b)
    /\ o \in tasks[b]
    /\ ~draining[b]
    /\ status[Original(b, o)] = "none"
    /\ status' = [status EXCEPT ![Original(b, o)] = "live"]
    /\ host' = [host EXCEPT ![Original(b, o)] = b]
    /\ tasks' = [tasks EXCEPT ![b] = @ \ {o}]
    /\ acks' = [acks EXCEPT ![b] = @ \cup {Original(b, o)}]
    /\ UNCHANGED <<supervisorOnly, inbox>>

\* ... with one acknowledges the session it names (the delegation dedup) ...
Reacknowledge(b, o) ==
    /\ Live(b)
    /\ o \in tasks[b]
    /\ status[Original(b, o)] # "none"
    /\ tasks' = [tasks EXCEPT ![b] = @ \ {o}]
    /\ acks' = [acks EXCEPT ![b] = @ \cup {Original(b, o)}]
    /\ UNCHANGED <<supervisorOnly, status, host, inbox>>

\* ... or is refused or lost: draining, no capacity, not subscribed yet
Refuse(b, o) ==
    /\ Live(b)
    /\ "lose" \in world.faults \/ draining[b]
    /\ o \in tasks[b]
    /\ tasks' = [tasks EXCEPT ![b] = @ \ {o}]
    /\ UNCHANGED <<supervisorOnly, status, host, acks, inbox>>

\* the receipt leaves after the launch, and may overtake or be overtaken by the
\* session's own events
Acknowledge(b, s) ==
    /\ Live(b)
    /\ s \in acks[b]
    /\ acks' = [acks EXCEPT ![b] = @ \ {s}]
    /\ Emit(b, "received", s)
    /\ UNCHANGED <<supervisorOnly, status, host, tasks>>

\* a session's life: it signals done and parks, or ends early by itself or by an
\* owner's restart, or its owner stops it; a parked one is closed some day
Moves(s, from, to, type) ==
    /\ status[s] = from
    /\ status' = [status EXCEPT ![s] = to]
    /\ Emit(host[s], type, s)
    /\ UNCHANGED <<supervisorOnly, host, tasks, acks>>

Finish(s) == Moves(s, "live", "done", "done")
End(s)    == Moves(s, "live", "ended", "ended")
Stop(s)   == "stop" \in world.faults /\ Moves(s, "live", "stopped", "ended")
Close(s)  == "close" \in world.faults /\ status[s] = "done" /\ Live(host[s]) /\ Moves(s, "done", "closed", "ended")

\* the conversation goes on in a new session: the owner restarts one that ended,
\* or a later boot readopts one that lost its driver
Resume(b, s) ==
    /\ Live(b)
    /\ ~draining[b]
    /\ world.wrapped
    /\ \/ status[s] = "ended" /\ "restart" \in world.faults /\ host[s] = b
       \/ status[s] = "lost"
    /\ s[3] < MaxSuccessors
    /\ SuccessorTip(s) = {}
    /\ LET t == <<s[1], s[2], s[3] + 1>>
       IN  /\ status' = [status EXCEPT ![t] = "live"]
           /\ host' = [host EXCEPT ![t] = b]
    /\ UNCHANGED <<supervisorOnly, tasks, acks, inbox>>

-----------------------------------------------------------------------------
(* Time and the owner.                                                     *)

ownerOnly == <<leaseVars, journal, status, host, sched, inbox, tasks, acks, world>>

\* the next series instant, or a newer trigger cause, comes due
ComesDue ==
    /\ clock.last < world.causes
    /\ clock' = [clock EXCEPT !.last = @ + 1, !.due = clock.last + 1]
    /\ UNCHANGED <<ownerOnly, item>>

GrowsStale(c) ==
    /\ c \in (clock.requested \cup {clock.due}) \ (clock.stale \cup {0})
    /\ ~world.triggered
    /\ clock' = [clock EXCEPT !.stale = @ \cup {c}]
    /\ UNCHANGED <<ownerOnly, item>>

\* request_occurrence: run now, one request at a time and none over a run
RequestOccurrence ==
    /\ "request" \in world.faults
    /\ clock.last < world.causes
    /\ ~suspended
    /\ item.state # "started"
    /\ ~clock.pending
    /\ clock' = [clock EXCEPT !.last = @ + 1,
                              !.requested = @ \cup {clock.last + 1}, !.pending = TRUE]
    /\ UNCHANGED <<ownerOnly, item>>

\* the owner approves the unchanged manifest again: the streak starts over
Reapprove ==
    /\ suspended
    /\ item' = [item EXCEPT !.failures = 0]
    /\ UNCHANGED <<ownerOnly, clock>>

-----------------------------------------------------------------------------
SchedulerStep(b) ==
    \/ Open(b) \/ Gate(b) \/ PlanAndAct(b) \/ Write(b) \/ Claim(b)
    \/ \E s \in Sessions : ReclassifyEnd(b, s) \/ Readopt(b, s)

TimeOut(b) ==
    \/ \E o \in Occurrences : Resend(b, o) \/ Abandon(b, o)
    \/ \E s \in Sessions : GraceExpires(b, s) \/ WatchExpires(b, s)

Supervisor(b) ==
    \/ \E o \in Occurrences : Launch(b, o) \/ Reacknowledge(b, o) \/ Refuse(b, o)
    \/ \E s \in Sessions : Acknowledge(b, s) \/ Resume(b, s)

Owner == ComesDue \/ RequestOccurrence \/ Reapprove \/ \E c \in Causes : GrowsStale(c)

Next ==
    \/ \E b \in Boots : \/ Boot(b) \/ Crash(b) \/ Exit(b) \/ Takeover(b)
                        \/ SchedulerStep(b) \/ TimeOut(b) \/ Supervisor(b)
                        \/ Wake(b) \/ Observe(b) \/ Lag(b)
    \/ \E s \in Sessions : Finish(s) \/ End(s) \/ Stop(s) \/ Close(s)
    \/ Owner \/ Forget

Spec == Init /\ [][Next]_vars

\* what breaks the cycle of empty passes: an event, or a time-out that expired
Progress(b) ==
    \/ Observe(b) \/ Lag(b)
    \/ \E o \in Occurrences : Abandon(b, o)
    \/ \E s \in Sessions : GraceExpires(b, s)

\* The scheduler task runs.  Its select picks among the ready branches at random and
\* a time-out stays expired until a sweep acts on it, so a cycle of wake-ups meets
\* one of them some day.  The supervisor handles what it was sent, a session ends
\* some day, a drained daemon exits (DrainExit), and a daemon is started when none is
\* left.  Nothing is assumed of the owner, of a resume, or of a crash.
Fairness ==
    /\ \A b \in Boots :
        /\ WF_vars(SchedulerStep(b))
        /\ WF_vars(Wake(b))
        /\ SF_vars(Progress(b))
        /\ WF_vars(Boot(b))
        /\ WF_vars(Exit(b))
        /\ WF_vars(\E o \in Occurrences : Launch(b, o) \/ Reacknowledge(b, o) \/ Refuse(b, o))
        /\ WF_vars(\E s \in Sessions : Acknowledge(b, s))
    /\ WF_vars(\E s \in Sessions : Finish(s) \/ End(s) \/ Stop(s))

FairSpec == Spec /\ Fairness

-----------------------------------------------------------------------------
(* Properties.                                                             *)

ItemStates == Terminals \cup {"none", "started"}
Progresses == [prepared : BOOLEAN, started : Sessions \cup {NoSession},
               terminal : Terminals \cup {"none"}, writer : Boots \cup {NoBoot}]
Journals == [rows : [Occurrences -> Progresses], generation : Nat]
Events == [type : {"received", "done", "ended"}, session : Sessions]

TaskTypeOK(t) ==
    /\ t.pc \in {"open", "gate", "plan", "sweep"}
    /\ t.fold \in Journals
    /\ t.stamp \in Nat
    /\ t.todo \in Seq([do : {"row", "note", "send"}, occ : Occurrences,
                      state : Terminals \cup {"none", "prepared", "started"},
                      session : Sessions \cup {NoSession}])
    /\ t.claim \in t.running \cup {NoSession}
    /\ t.awaiting \subseteq Occurrences
    /\ t.running \subseteq Sessions
    /\ t.ended \subseteq t.running
    /\ t.watch \subseteq Sessions
    /\ t.early \in Seq(Events) /\ Len(t.early) <= EarlyCap

\* Type invariant; with it the containments that lineage_pending, the early
\* outcomes and the failure streak keep: a held end is of a running session, the
\* remembered outcomes stay within their cap, the streak stops at the threshold.
TypeOK ==
    /\ LeaseTypeOK
    /\ journal \in Journals
    /\ item \in [occ : Occurrences \cup {<<0, 0>>}, state : ItemStates,
                 failures : 0..Threshold]
    /\ clock \in [due : 0..MaxCause, last : 0..MaxCause, requested : SUBSET Causes,
                  pending : BOOLEAN, stale : SUBSET Causes]
    /\ status \in [Sessions -> Dead \cup {"none", "live", "done", "closed"}]
    /\ host \in [Sessions -> Boots \cup {NoBoot}]
    /\ \A b \in Boots :
        /\ TaskTypeOK(sched[b])
        /\ inbox[b] \in [events : Seq(Events), lagged : BOOLEAN]
        /\ Len(inbox[b].events) <= Ring
        /\ tasks[b] \subseteq Occurrences
        /\ acks[b] \subseteq Sessions
    /\ world \in Worlds

\* No occurrence is launched by two process lives, whatever crashes, is lost, is
\* sent again or is answered late: prepared is journaled before the send, the
\* occurrence id is the delegation id of every retry, and an occurrence that was
\* given up is not fired under the same id (dispatch_session, send_start_task).
FiresAtMostOnce ==
    \A o \in Occurrences : Cardinality({b \in Boots : status[Original(b, o)] # "none"}) <= 1

\* Between two handlers the scheduler's memory and the journal tell one story: what
\* awaits a receipt is prepared and unresolved, what runs is a started row of that
\* very session.  Late receipts, early outcomes, rekeys and abandoned dispatches
\* all pass through both (PendingDispatch, running).
MemoryMatchesJournal ==
    \A b \in Boots : Live(b) /\ Settled(b) =>
        /\ sched[b].awaiting \subseteq PreparedUnresolved(journal.rows)
        /\ \A s \in sched[b].running :
            /\ Occ(s) \in StartedUnresolved(journal.rows)
            /\ journal.rows[Occ(s)].started = s

\* An occurrence that was journaled completed stays completed: no recovery, late end,
\* readoption or time-out takes the verdict back (complete_running).
CompletedStays ==
    [][\A o \in Occurrences : journal.rows[o].terminal = "completed"
            => journal'.rows[o].terminal = "completed"]_vars

\* A run that signalled done is not journaled failed, in whatever order its done and
\* its end overtake its receipt and whatever residue fills the memory of early outcomes
\* (remember_early_outcome, take_early_outcome) -- as long as fewer than EarlyCap other
\* outcomes come between its done and its receipt: the code drops it then, knowingly.
FailedMeansUnfinished ==
    [][\A o \in Occurrences :
        /\ journal.rows[o].terminal # "failed" /\ journal'.rows[o].terminal = "failed"
        /\ journal.rows[o].started # NoSession
        => status[journal.rows[o].started] \notin {"done", "closed"}]_vars

\* An occurrence is prepared only by the process that holds the scheduler lease at
\* that moment: a drain that is requested in the middle of a pass takes effect
\* between two passes (is_holder at the gate, request_drain's duty).
FiringIsHolders ==
    [][\A o \in Occurrences :
        ~journal.rows[o].prepared /\ journal'.rows[o].prepared
        => holder = journal'.rows[o].writer]_vars

\* A new holder's generation is above every row's, a deleted sidecar included:
\* "cannot regress the counter below what journal rows already record" (lease.rs:24).
AcquisitionOutranks ==
    [][\A b \in Boots : held[b] = 0 /\ held'[b] > 0 => held'[b] > journal.generation]_vars

\* "while any occurrence of this effect is dispatched or running, fire nothing new"
\* (plan(), reminders.rs:1620): at most one occurrence is in flight.
OneInFlight == Cardinality(Unresolved(journal.rows)) <= 1

NobodyLeft == \A b \in Boots : process[b] = "gone"

\* Runs whose session is over while a full memory of early outcomes is all there was
\* to hold its end: neither an event, nor the memory, nor the grace has it any more.
Forgotten(b) ==
    {s \in sched[b].running :
        /\ status[s] # "live" /\ s \notin sched[b].ended
        /\ Len(sched[b].early) = EarlyCap /\ OutcomesOf(sched[b].early, s) = <<>>
        /\ \A i \in DOMAIN inbox[b].events : inbox[b].events[i].session # s}

\* "Never a wedge" (started_unresolved_for_item, reminders.rs:604): while there is a
\* daemon left to run the scheduler, everything that was dispatched or started ends in
\* a terminal row, however it crashed, was lost, refused or answered late -- save
\* for a run whose end had to leave a full memory, until that daemon is gone.
EveryRunSettles ==
    (Unresolved(journal.rows) # {})
        ~> (Unresolved(journal.rows) = {} \/ NobodyLeft \/ \E b \in Boots : Forgotten(b) # {})
=============================================================================
