# Intendant: a verification development

Intendant is a daemon that launches, supervises and routes commands to coding-agent
sessions.  This directory holds TLA+ models of the part of it that decides *what runs
when and what is remembered of it*: the intake of the session supervisor, its
executor, the admission of creates, the drain that lets one daemon hand over to the
next, the scheduler of standing automations with its journal and its lease, the
steering of a session in the middle of a round, and the rollback of a session's files
and conversation.  TLC checks the models on small instances; TLAPS proves, for every
instance, the safety of the executor and its refinement of the ordering promise, the
accounts of the create intake, the exit of a draining daemon, the scheduler lease, the
outcomes of steers and the durability and restorability of the round history.

Paths below are relative to `src/src/bin/caller/` unless they start with `src/`.

## 1. The system

### 1.1 Parts, their state and their operations

| part | code | state | operations | correct when |
|---|---|---|---|---|
| event bus | `event.rs`, `event_ring.rs` | a broadcast ring of 4096 events that drops the oldest for a slow reader, lossless unbounded lanes for intents and for the session log | `send`, `subscribe*` | nothing a component acts on rides only the lossy lane |
| supervisor loop | `session_supervisor/mod.rs` | the session registry, aliases, phases, delegation receipts | `run_event_loop`, `handle_intent_lane_event`, `observe_lifecycle_event`, `drain_exit_ready` | commands reach the session they name; a drained daemon exits, and not over work |
| dispatch | `session_supervisor/dispatch.rs` | none of its own: chooses queue keys from the registry's and the executor's | `dispatch_control_msg`, `handle_control_msg` | one session's commands run in arrival order |
| intake executor | `session_supervisor/exec.rs` | per-key queues, reservations, launch permits | `enqueue`, `run_worker`, the lookups | one key's jobs run in order, one at a time; nothing leaks |
| capacity gate | `session_supervisor/capacity_gate.rs`, `capacity.rs` | the queue of deferred creates, the pressure stage | `capacity_gate`, `drain_capacity_queue`, `admission_check`, `observe` | a bounded number of sessions; no create lost or doubled |
| launch, resume, fork | `session_supervisor/{launch,sub_agents,fork,resume_lineage,claude_edit,agent_config}.rs` | the wrapper index, attach requests | `start_new_session`, `resume_session`, `spawn_agent_session`, `apply_session_identity` | one live wrapper per backend conversation |
| routing | `session_supervisor/routing.rs`, `steering.rs`, `approval.rs` | follow-up channels, steer queues, approvals | `route_follow_up`, `route_steer`, `route_cancel_steer`, approve | each input has one outcome |
| agenda | `agenda/` | an append-only log, the occurrence journal, dispatches awaiting a receipt, runs | scheduler pass, receipts, lifecycle, sweeps, write-back | an occurrence fires at most once and ends |
| handover | `handover/` | the scheduler lease (a file lock and a generation), presence records, the drain | `try_acquire`, `request_drain`, `perform_drain_entry`, `mark_exited` | one daemon fires automations at a time |
| agent loops | `agent_loop.rs`, `run_modes.rs`, `external_agent/`, `external_mode.rs` | the conversation, the steer queue | rounds, turns, tools, the parked wait | inputs reach the model, lifecycle events are emitted |
| round history | `file_watcher.rs`, its handlers in `web_gateway/routes_sessions.rs` | rows, manifests and blobs on disk, a head, branches | `on_round_complete`, `rollback`, `redo`, `prune_abandoned` | files and history agree; every round can be restored |
| custody | `credential_leases.rs`, `key_custody.rs`, `src/crates/intendant-custody` | leases, materialised credentials | grant, renew, sweep | nothing outlives its lease |
| display and input | `web_gateway/input_authority.rs`, `src/crates/intendant-display` | holders, revisions, encoders | take, release, inject | one holder per display |
| terminals, transfers | `terminal.rs`, `terminal/`, `transfer_store.rs` | shells, append slots | open, close, append | a running one holds the drain |
| peers | `peer/`, `peer_file_transfer.rs` | connections, delegations | delegate at least once, acknowledge | a delegation starts one session |
| memory, owner plane | `memory/`, `src/crates/owner-plane-core` | a signed operation log | reduce | replicas agree |
| front ends | `src/static`, `src/macos-app`, `web_gateway/`, `dashboard_control/`, `mcp/` | views | translate requests | - |

`PROJECT.json` lists every part with what is modelled of it, or why nothing is.

### 1.2 How they interact

Every surface sends `ControlCommand` events.  They ride the lossless intent lane to
the supervisor's receive loop, which is sequential and serves that lane before the
broadcast ring.  The loop chooses an ordering key for each command; a fast command of
an idle session runs inline, everything else becomes a job of the executor.  Workers
of the executor run the same `handle_control_msg` bodies concurrently with the loop.
Bodies read and write the registry under one async mutex, the executor's state under
another, the drain flag is an atomic, and every step between two locks can interleave
with anything.  Sessions run in tasks of their own and speak to the supervisor only
by events; their phases are recorded from the lossy ring.

The agenda's scheduler is one task that holds a file lock shared by the daemons of a
home.  It journals what it is about to fire, asks the supervisor for a session under
the occurrence's id as delegation id, learns of the session and of its end from the
ring, and writes both to the journal and to the item.  Peers retry creates under a
delegation id in the same way.

A steer is broadcast; during a round a watcher task of the agent loop queues it for
the next turn, between rounds the parked loop starts a round with it, and a timer of
the supervisor turns it into a follow-up when nobody answers.

A round that ends is broadcast; the file watcher's listener records the tree under
the watcher's lock.  The gateway's handlers ask for the agent's phase, take the same
lock to rewrite the tree, and broadcast the conversation half of a rollback, which
the agent loop takes between two tasks.

### 1.3 What is hard

* *Interleaving*: looking for a route, resolving an id and enqueueing are separate
  sections; bodies register, end and re-key sessions in between.  A takeover arrives in
  the middle of a firing pass; a watcher outlives its round.
* *At-least-once delivery*: a duplicate can arrive before, during or after the launch.
* *Late and lost observations*: the ring lags and drops, yet phases decide the exit and
  receipts and ends decide what the journal says.
* *Several looks at one condition*: the exit condition reads four parts of the state
  at four moments while launches move work from one part to another; a rollback looks
  at the history twice and at the conversation later.
* *Crashes*: a row, a send and a receipt; blobs, a manifest, the tree and the index.
* *Bounds*: permits, resident sessions, the admission queue, the receipt ledger, the
  early outcomes the scheduler remembers.
* *Silence*: some holds end without an event, and the loop only wakes on one.

`PROJECT.json` "hazards" names each at its line.

## 2. The modules

```
OrderedExecutor <-- refined by -- IntakeExecutor <-------- IntakeExecutorProofs
                                    ^         ^                  ^      ^
                        CreateIntake          SessionRouting     |      |
                           ^    ^                ^      ^        |      |
              MCCreateIntake    |  MCSessionRouting     |        |      |
                                |                       +-- SessionRoutingProofs
                                +-------- CreateIntakeProofs ----+

SchedulerLease --+--> AgendaScheduler <--- MCAgendaScheduler
OccurrenceJournal+          ^------------- AgendaSchedulerProofs

RoundHistory ---> Rewind <--- MCRewind          DrainExit <--- MCDrainExit
                    ^-------- RewindProofs          ^--------- DrainExitProofs

Filtering --+--> NativeSteers <--- MCNativeSteers
            |         ^-------- NativeSteersProofs
            +--> FilteringProofs ----^
            |         +-------> AgendaSchedulerProofs, SessionRoutingProofs
            +--> AgendaScheduler
```

Unmarked arrows are EXTENDS.  The `MC` modules give TLC its instances.  Where a module
has a constant `Worlds` or `Scenarios`, a behaviour starts in one of them and stays in
it: a world says which faults and which requests may happen, so that one run covers
combinations that would be too large together.

### 2.1 OrderedExecutor: the promise

The doc of `exec.rs` (11-15): jobs under one key run strictly in order, one at a time,
different keys independently.  Three actions, no locks, workers or permits.

### 2.2 IntakeExecutor: `exec.rs`, whole

| model | code |
|---|---|
| `queues[k]` = present, jobs, worker_running | `ExecState.queues` (an absent entry is `present = FALSE`) |
| `routes`, `delegations` with `Reserve`, `Release` | the two reservation maps, `reserve`, `release` |
| `pendingHeavy` | `pending_heavy_keys` |
| `permits`, `waiters` | the fair semaphore of launch permits |
| `workers[w]`, named for the job that spawned them | the tasks spawned by `enqueue` |
| `Enqueue` | `enqueue` |
| `Pop`, `Retire` | the two outcomes of `run_worker`'s pop |
| `AcquirePermit`, `BodyEnds`, `Settle` | the permit, the body's task (return or panic), the settle section |
| `job`, `stage`, `submitted` | the jobs and their history, for the properties |

Every mutex section is one action.  `Next` lets any client enqueue anything that
respects the one precondition the code states, `KeysAgree` (the comment and debug
assertion in `reserve`); `CreateIntake` respects it (`DrivesExecutor`, checked and
proved), and so does `SessionRouting` where the resumes of a conversation overlap
(`ReservationsAgree`; section 4.7).

`pending_heavy_keys` pushes at an enqueue and removes the first entry of a key at a
settlement, so nothing in it says which job an entry stands for.  `PendingHeavyInOrder`
says that it is the list of the launches not yet settled, in the order they were
submitted: the entry of rank `r` is the key of the `r`-th open launch (`OpenLaunches`,
`LaunchRank`).

### 2.3 CreateIntake: creates from the intake to the acknowledgement

`dispatch.rs` 253-296, 362-390, 572-591, 1031-1045; `capacity_gate.rs`;
`capacity.rs` 563-579; the receipts of `mod.rs`.  A message carries at most a
delegation; its name is the session id minted for it.  `at[m]` is where the message
is; each lock section of its way is an action, so that `Take` (the ledger), `ChooseKey`
(the executor's pending delegations) and `EnqueueCreate` (the enqueue) interleave with
bodies, the monitor and session ends.  The module
EXTENDS `IntakeExecutor` and uses its actions (`ExecutorStep`, `DrivesExecutor`), so
that what is proved of the executor holds of the executor inside; a message is its own
queue key and its own id (`NamesAssumption`), since a delegation not pending anywhere
takes the minted id of its message for its key.  Its own type, initial state, next
step and specification are `CreateTypeOK`, `CreateInit`, `CreateNext`, `CreateSpec`.
Outcomes: `started`, `reacked`, `refused`, `failed`.

### 2.4 SessionRouting: the ordering key of a command

`dispatch.rs` 126-243, 301-352; `mod.rs` 591-608, 644-658; `register_session`;
`apply_session_identity`.  A conversation is addressed by a wrapper's id, by the
backend's id, or by both.  Fast commands probe (`ProbeRaw`, `ResolveTargets`,
`ProbeCanonical`) and then run inline or defer; resumes choose a key (`SlowKey`) and
reserve all their ids.  Bodies register, the backend's identity re-keys (with its
surgery on the aliases, `RekeyedAliases`), sessions end.  Following aliases is a
recursive function over the number of hops (`Followed`), eight of them at most.

The module EXTENDS `IntakeExecutor`: a deferred job is its command, a queue is named for
an id, and `Defer` and `ExecutorStep` are the executor's `Enqueue` and worker steps.  Its
own type, initial state, next step and specification are `RoutingTypeOK`, `RoutingInit`,
`RoutingNext`, `RoutingSpec`.  `ResumesOverlap` and `OneWrapper` say of the scenarios what
the theorems of section 4.7 need; `MCSessionRouting` assumes them, so that TLC evaluates
them for the scenarios of both runs.

### 2.5 DrainExit: when a draining daemon exits

`mod.rs` 885-1031; `registry.rs` 8-165; `handover/mod.rs` 756-855, 945.  The loop takes
one intent or one observation, evaluates `drain_exit_ready` (`Scan`: shells and phases,
`Heavy`: pending launches and appends), sleeps a beat, evaluates again and stops.
Sessions, launch bodies, shells and uploads run beside it.

| model | code |
|---|---|
| `phase[s]` | what the registry has on record: an `idle` session holds the drain like a busy one, only one that is `done` does not (`Holding`, `session_holds_drain`) |
| `work[s]`, `inbox[s]` | what the session does, and the follow-ups in its channel, which `Deliver` puts there whatever it does |
| `StartTurn` | a launched session begins, a resting one takes the oldest follow-up up |
| `CompleteTask`, then `CompleteRound` | a turn ends without a done signal: `TaskComplete` (`done`), then `RoundComplete` (`idle`) from the same task, `told` in between |
| `CompleteRound` alone | a turn ends with a done signal, or in an external lane: `RoundComplete` only; the session rests in its channel |
| `Conclude`, `Finish` | a seat that is concluded says `TaskComplete` and leaves; `finish_session` takes a session out of the registry and says `SessionEnded` |
| `LaunchGate`, `LaunchRegisters`, `LaunchSettles` | the launch body: the drain gate, `start_new_session`, the settle section of the executor |

`RING` is the ring's capacity; when it is full the oldest event goes.  A scenario says
which sessions are mid-turn at the start, which ids launches may be given, whether a
shell and an append may be opened, and whether the loop keeps up with the ring.

### 2.6 SchedulerLease: who may fire

`handover/lease.rs`, `handover/presence.rs`, `HandoverRuntime` of `handover/mod.rs`.
The kernel's file lock (`holder`), the sidecar's generation, each process, what each
believes to hold, and its drain.  `RequestDrain` comes from another thread and leaves a
duty; the scheduler performs `PerformDrainEntry` between two passes.  Its actions are
steps of `AgendaScheduler`, which passes the generation of the journal as the floor.

### 2.7 OccurrenceJournal and AgendaScheduler: one standing effect across process lives

`OccurrenceJournal` has the operators of `agenda/reminders.rs` that read and fold the
journal: `FoldRow`, the unresolved rows, `CauseAttempts`, `Plan`.
`AgendaScheduler` is `agenda/scheduler.rs`, its session lane whole:

| model | code |
|---|---|
| `journal`, `item`, `status` | the journal's fold, the item's write-back, the sessions and their resume lineage: what survives a crash |
| `sched[b]` | the scheduler task of the process life `b`: its fold and stamp, `awaiting`, `running`, `early`, the ended runs in their grace, the readoption watches |
| `todo` | the durable writes and sends the current handler still owes, in order |
| `Open`, `Gate`, `PlanAndAct` | the start of the task; `pass_lease_gate` and the recovery of what dead writers left; `plan` and what is made of it (`Governed`, `Dispatch`, missed and spawnless rows) |
| `Write` | one row, one write-back or one `StartTask` |
| `Claim`, `Resend`, `Abandon`, `ReclassifyEnd`, `GraceExpires`, `Readopt`, `WatchExpires` | the sweeps |
| `Wake`, `Observe`, `Lag` | the select: a timer, an event, a lagging subscription |
| `Launch`, `Reacknowledge`, `Refuse`, `Acknowledge` | the supervisor, as `CreateIntake` has it: one launch per delegation in a process life, a receipt that may be late or lost |
| `Finish`, `End`, `Stop`, `Close`, `Resume` | a session's done and end, the owner's stop, a boot that readopts a lineage |
| `ComesDue`, `GrowsStale`, `RequestOccurrence`, `Reapprove` | time and the owner |
| `Boot`, `Crash`, `Exit`, `Takeover`, `Forget` | process lives, a takeover, a deleted sidecar |

A handler of the scheduler does not await, but other processes run between two of its
durable writes, and a crash loses the rest of `todo`.  The writes a handler owes for a
set of runs (`Outcomes`, one row and one write-back each, `InTurn`) are a sequence in
some fixed order; what recovery leaves out of them is `Without` of `Filtering`.  An occurrence is a cause and an
attempt; a session is named by its occurrence, the life that launched it and its place
in the lineage.

### 2.8 NativeSteers: a text in the middle of a round

`route_steer`, `route_cancel_steer` and the fallback of `session_supervisor/routing.rs`;
the watcher, the turn-top drain, the sweep at a round's end and the parked wait of
`agent_loop.rs`; `steering.rs`.  A watcher is a task of its own: the end of its round
cancels and aborts it, but the abort lands at the next yield (`Reap`), so a "corpse"
still reads its subscription and still queues what it holds in `hand`.  `told[s]` is
what the user was told of a steer, `heard[s]` how often the model got it.  What a user's
clear removes from a queue is `Without` of `Filtering`, `Vec::retain` as a function of
the queue, about which `FilteringProofs` can reason.

### 2.9 RoundHistory and Rewind: taking a session back

`RoundHistory` is the store of `file_watcher.rs`: a handler runs under the watcher's
lock and is a sequence of actions, one per durable write, so that edits, other
requests and crashes fall between them.

| model | code |
|---|---|
| `objects`, `manifests`, `index` | `objects/`, `rounds/round_<id>/manifest.json`, `history.json` |
| `hist`, `head_maps`, `object_index`, `baseline` | the fields of `FileWatcher` |
| `handler` | which operation holds the lock and how far it is |
| `BeginRecord`, `WriteManifest`, `PersistHistory` | `on_round_complete`: the scan and its blobs, the branch, the manifest, the index |
| `Resolved`, `OnDisk`, `Binds` | `resolved_round_maps`: the chain of manifests, each hop bound to its row, the payload to the requested row |
| `Orphans`, `Collect`, `DropOldestBranch`, `PruneAbandoned` | `gc_orphaned_objects`, `enforce_soft_cap`, `prune_abandoned` |
| `BeginRestore`, `RestoreFile`, `Settle` | `rollback` and `redo`: the walk, one file after the other, the head |
| `WriteFails`, `Unwritable` | a manifest or index that cannot be written; a blob that cannot |
| the last disjunct of `RestoreFile` | a file that a restore passes over and goes on: its blob cannot be read, or it cannot be written or removed |
| `Crash`, `Boot` | the end of the process; `load_history_from_disk` and the seeding of the object index |

`Rewind` adds who uses the store: rounds that end, the listener that records them, the
gateway's two-stretch rollback (`Params` reads the parameters of the conversation half,
`RestoreBegins` restores the files later, `Send` broadcasts), redo and prune, and the
agent loop that takes a request between two tasks (`After`: a native conversation is
truncated to the target's message count, a Codex thread drops a number of turns, any
other backend is reset).

`SharedMapsAreAncestors` speaks of every round a manifest can be chained to: `Chains` has
the functions that assign to each row the round that holds its maps.

## 3. What the runs check

### 3.1 Passing runs

| run | question | bounds | states |
|---|---|---|---|
| executor | a busy key has one worker, an idle one none; permits conserved; reservations pair up; pending launches in order; `IntakeExecutor` implements `OrderedExecutor`; only a never-ending body delays a job | 3 jobs, 2 keys, 1 id, 1 delegation, 1 permit | 358,735 |
| drain | nothing is orphaned by the exit, although phases are lost; without loss a recorded phase is only ever late; a drain ends however silently its holds went, if one event, session or evaluation is left then | ring of 2, 2 commands; either a working session, a launch, a shell and an append, or a working session and a ring that never fills | 1,245,686 |
| create_duplicates | one session per delegation; receipts agree; a recorded delegation is not refused; the create path is a client `IntakeExecutor` allows; every create is answered unless the gate closes again and again | 2 deliveries of one delegation and a create, 1 slot, 2 permits, 1 pressure change, no drain | 131,170 |
| create_capacity | overshoot is bounded; every create has one custodian | 3 creates, 1 slot, queue of 1, 2 permits, 4 jobs (one re-release), a drain | 1,203,220 |
| routing | arrival order while the identity is stable; no id is reserved under two keys; no alias shadows a live session | two full resumes and a command by each id, or a full resume, one by the backend's id, a command by each and identity changes | 379,172 |
| agenda_restart | an occurrence is launched by one process life at most; memory and journal agree between handlers; a completed run stays completed, and one called failed was not finished, although unclaimed outcomes fill the memory of early ones; a new holder outranks the journal; everything fired ends | 2 process lives in sequence, 2 causes, 2 attempts, 1 successor in a lineage, threshold 2, 2 early outcomes, ring of 4; five worlds | 290,820 |
| agenda_handover | who believes to hold the lease holds the lock; only the holder prepares an occurrence; the successor settles what the other left | 2 daemons of one home, 1 cause, 1 attempt, ring of 2, a crash and a drain | 126,543 |
| steer | no steer is lost; none is heard twice while the timer is prompt; a confirmed clear is true; every uncleared steer is heard unless a watcher stalls past its round | 2 steers, or a steer and a follow-up; 2 turns per round; watchers that stall, a slow timer, a lagging subscription | 863,260 |
| rewind | every round can be restored; shared maps are an ancestor's; the object index is honest; an answer survives a restart; a restore leaves each file as recorded, or as it was where the disk failed; no row is lost; no turn of the target is taken | 3 rounds, 2 handlers, 2 files, 2 contents, an edit; six worlds: crashes, failing index or manifest writes, failing blob writes, failing reads and writes of a restore, conversations, backends without history; symmetric | 2,973,270 |

The instances are the smallest in which two actors collide on each shared thing: two
jobs on a key *and* two keys on the permit; a duplicate that finds the original
pending, launched and failed; a released create that meets a new one at the last slot;
a launch that straddles both halves of the exit condition; a second occurrence while
the first waits for its receipt, and a second life that finds each of the first one's
rows; a steer of a round whose watcher outlives it into the next; a third round behind
a rolled-back head, so that there is a branch to abandon, to prune and to share blobs
with.  A third actor of a kind repeats the collision of two.  Every bound is a
constant or part of a world: `MaxCommands`, `RING`, `PressureTurns`, `Boots`,
`MaxCause`, `MaxAttempts`, `MaxSuccessors`, `EarlyCap`, `Ring`, `MaxPlain`,
`MaxTurns`, `MaxId`, a world's `edits` and `asks`, and the number of `Jobs` and
`Messages`.  Each is smaller than the code's, so that the limit is reached; a property
that depended on the code's greater value would fail here.  `EarlyCap` is
reached by the worlds of `agenda_restart` in which a session may be closed or restarted;
see 3.3 for what a full memory costs.

Deadlock is checked in `rewind` only: in the other instances everything may be done,
the process gone, or a body never end.

`PROJECT.json` gives a mutant of the code for each property, under which the run finds
it violated: a permit kept by a panicking body, a worker spawned by every enqueue, one
evaluation of the exit condition instead of two, a duplicate given a queue of its own,
a lease kept through a drain, a terminal row written over a later one, a queue not
swept when a round ends, a no-op round that refers to its parent instead of the
parent's source, a drain entered without the notice that wakes the loop, and so on.

The type of the executor is proved (section 4), that of `DrainExit` both run and
proved.  The other modules state a `TypeOK` which holds on their instances too; the
runs spend their time on the properties above.

### 3.2 Fairness

* *Executor*: weak fairness of each worker's own steps (tokio polls a runnable task;
  the semaphore is first come, first served, so a waiter at the head is continuously
  enabled while a permit is free).  Bodies need not end.
* *Drain*: weak fairness of the loop, of the scheduler's wake, of launch bodies, of
  what a session does without being told (`OwnStep`: its turns, and leaving once it was
  concluded), and of letting shells and appends go.  Nobody need send anything, and a
  resting session need not leave: `DrainEnds` and `AllClosedExits` assume in their
  premises that every session has left.  Where these are too strong for an
  installation (a turn that never ends), the drain waits, as intended.
* *Creates*: weak fairness of the loop, the bodies, the workers and the monitor.
  Neither session ends nor an easing of pressure are assumed, which is why the
  property lets a create wait while the gate is closed infinitely often.
* *Agenda*: weak fairness of the scheduler's own steps and timers, of the supervisor's
  handling of what it was sent, of sessions ending, of a drained daemon's exit and of a
  boot when no daemon is left.  Strong fairness of `Progress`: the select picks among
  its ready branches at random and an expired time-out stays expired, so a cycle of
  wake-ups meets one of them some day.  Nothing is assumed of the owner, of a resume or
  of a crash.
* *Steers*: weak fairness of the loop (except that an idle session need not end), of
  the watcher that is alive, and of the fallback's timer.  A round ends because its
  turns are capped (`MaxTurns`).
* *Routing, create_capacity, rewind*: safety only, no fairness.

### 3.3 Disagreements between code and documentation

Each of these is a run that TLC must find violated; `PROJECT.json` quotes the text.

* `drain_work`: a follow-up reaches a working session during the drain and waits in its
  channel.  The turn ends with `TaskComplete`, which sets the phase to `done`, the loop
  finds everything at rest and sleeps its beat without reading the ring, where the
  `RoundComplete` and the next turn's phase now are; the second evaluation still reads
  `done`, and the daemon exits over the turn.
* `routing_identity`: the identity event re-keys a session while commands wait on the
  queue of its old key, and a later command runs inline before them.
* `rewind_turns`: the drain of an external agent counts the tools that started and
  reports the count as `turns_in_round` (`external_events.rs` 1793, 2022); the
  conversation half of a rollback sends the sum of these to Codex as `numTurns`.  A
  round with two tools takes a turn of the target along; one without tools takes none.

The models have more behaviours of this kind, which no run is spent on.  Where a change
of an instance shows one, it is given.

Executor, creates, routing, drain:

* The last session has ended and the loop has read everything; then the last shell is
  closed.  Closing one is not told on the bus and the daemon has no tick
  (`startup/daemon.rs` 58-63), so the loop waits for the next unrelated event although
  nothing holds it any more, whereas `src/docs/src/control-plane-and-daemon.md` 453-455
  says that the process exits (`Drain.cfg` with `Scenarios <- OneShell`,
  `MaxCommands = 0` and the property `AllClosedExits`).  The same is true of whatever
  else ends without an event (`Silent`): an upload, and a refused create, which tells the
  bus *before* its job settles (`AllClosedExits` with a creatable session, one command
  and no shell in the scenario).  `DrainEnds` is the exact rest: a daemon exits that has
  anything left to look at when the last silent hold is gone (`Stirs`).
* A session that has signalled done and waits in its channel does hold the drain: the
  `RoundComplete` that follows a done signal puts `idle` on record (`registry.rs` 38-40).
  `mod.rs` 942-945 and `src/docs/src/control-plane-and-daemon.md` 453 speak of sessions
  parked after they signalled done as sessions that hold nothing.
* The drain gate precedes the duplicate check, so a retry of a delegation whose session
  is running here is refused instead of re-acknowledged (`CreateDuplicates.cfg` with
  `MayDrain = TRUE`, `RecordedNotRefused`).
* Presence may say `exited` while the loop still serves: `mark_exited` runs at the first
  positive answer, and a launch may register between the reading of the phases and of
  the pending launches.
* A released create that loses its race is deferred again at the tail
  (`capacity_gate.rs` 130), although the doc of `capacity_gate` says that undelegated
  creates queue FIFO.
* The intent lane is served before the ring (`mod.rs` 895), so a command is handled
  against a registry that has not seen observations sent before it.
* A resume looks for routes but not for busy queues: after a failed resume by token,
  one by both ids overtakes a command still waiting under the token.
* Resumes by id and by token pending on two queues, then one by both: an id is reserved
  under a key that does not hold it, which is a debug assertion in debug builds and a
  route that is never freed in release builds.

Agenda:

* A boot settles an interrupted run and dispatches its retry, then the interrupted run's
  own session is resumed and readopted: two occurrences of an automation are unresolved
  (`AgendaRestart.cfg` with `Spec` and the invariant `OneInFlight`), although `agenda/scheduler.rs` 1639,
  `agenda/reminders.rs` 1620 and `agenda/store.rs` 803 speak of one in flight.
* Two daemons may each launch one occurrence: one starts, reads the journal and waits
  for the lease; the other fires and dies; the first takes the lease over and plans from
  what it read before (`AgendaHandover.cfg` with `Spec` and `FiresAtMostOnce`;
  `agenda/scheduler.rs` 770-776).  With one daemon at a time `FiresAtMostOnce` holds.
* A run handed over to a successor session whose process then dies keeps the series
  waiting: with a crash and a restart in one world `EveryRunSettles` fails
  (`agenda/reminders.rs` 604).
* A fold read before a sibling's rows may write `Unknown` over a `Completed` that was
  written meanwhile, and a drained daemon may exit before its scheduler read the last
  `DoneSignal`; a lagging subscription loses the end of a readopted session.
* `EarlyCap` is 64 in the code.  Should that many outcomes of other sessions come between
  a run's end and its receipt, the run's own is dropped, which the code accepts
  (`agenda/scheduler.rs` 46-51 and the test at 3850).  It ends as failed although it
  finished (`AgendaRestart.cfg` with `EarlyCap = 1`, `FailedMeansUnfinished`); or it keeps
  its series waiting until the daemon is gone, as the run of a closed or restarted session
  does in the last world of `AgendaRestart.cfg`: `EveryRunSettles` excepts it (`Forgotten`).
* When the first candidate of a pass is refused, the automation may be suspended by
  that failure and the second candidate of the same pass still fires.

Steers:

* A steer that waits in the parked loop while the user clears is answered by nobody:
  neither confirmed nor refused until the fallback's timer.
* A text that the timer turned into a follow-up may be heard a second time when the
  watcher stalled (`Steer.cfg` with `Worlds <- StalledWorlds` and `AlwaysHeardOnce`;
  `agent_loop.rs` 1260-1263); the stalled watcher may also queue its steer after the
  sweep of the round's end, for the next round to take up (`agent_loop.rs` 3979-3983).
* A steer sent between two subscriptions, then cleared: the watcher finds nothing to
  clear and answers "already delivered", the fallback sees the clear and retires, and the
  text is heard by nobody (`Steer.cfg` with `Worlds <- PromptWorlds`, `Spec` and
  `RefusedMeansHeard`; `agent_loop.rs` 1297-1302, `steering.rs` 271).

Round history:

* `ensure_idle` (`web_gateway/mod.rs` 368) is a check before an act: an agent may start
  between the check and the restore, and its edits mix with the restored tree.
* A round that ended is recorded when its event is read: edits of the next round that
  precede the scan are attributed to it, and a rollback between the event and the scan
  discards what it did (`file_watcher.rs` 1329-1330).  A lagged `RoundComplete` is never
  recorded (3125).
* A blob that cannot be written still enters the maps (2434-2437); a restore then leaves
  that file alone and answers success.  This is why `RoundsRestorable` speaks of
  worlds without that fault, and why `RestoresTheRound` lets a file stay as it was in
  those with it or with failing restores; elsewhere it says what the doc says.
* A file of the target that cannot be read from its blob, written or removed is passed
  over by `restore_to_state`: the head moves and the rollback answers success over a tree
  that no round recorded (`file_watcher.rs` 2783-2803, 2830), although line 74 says that
  "Rollback restores exactly this map" (`Rewind.cfg` with `Worlds <- PartialWorlds`,
  `MaxId = 2` and the invariant `RestoresExactly`).
* When the index cannot be written after a prune or a restore, memory and disk part: an
  exit then leaves rows whose blobs are gone, and a restore that has already rewritten
  the tree answers 400.
* A rollback request rides the bus and can be lost to a lag during a task
  (`run_modes.rs` 2736); a native conversation truncated after a conversation-only
  rollback and a redo may keep turns of other rounds, and a rollback forward drops
  nothing.

## 4. What is proved

### 4.1 IntakeExecutorProofs

For any sets of keys, ids and delegations, any finite set of jobs and any positive
number of permits (`LaunchBoundAssumption`, `JobsAssumption`, `AbsentAssumption`):

| theorem | statement |
|---|---|
| `Invariance` | `Spec => []IInv` |
| `TypeCorrect` | `Spec => []TypeOK` |
| `BusyKeyServed` | `Spec => []BusyKeyHasOneWorker` |
| `PermitsNeverLeak` | `Spec => []PermitsConserved` |
| `ReservationsNeverLeak` | `Spec => []ReservationsPairUp` |

None of these is inductive.  That a busy key has one worker depends on `worker_running`
being set exactly on the entries that exist (`EntriesServed`) and on a worker's entry
staying while it works (`WorkersServe`); that permits add up depends on no two workers
running one job, hence on a queue holding each untaken job once (`QueuedJobsWait`) and
on one worker per key (`OneWorkerPerKey`); that reservations pair up depends on a
settling worker holding an unsettled job of its own key.  `IInv` is the conjunction.
The proof has a lemma per conjunct and in it a step per action.  The lemmas before it
say what `Reserve`, `Release` and `RemoveFirst` return and what adding or removing one
member does to a cardinality.  `ReservationsNeverLeak` rests on `KeysAgree` in `Next`;
section 3.3 names a client that breaks it.

The second half of the module goes on from `IInv`:

| theorem | statement |
|---|---|
| `ExecutorIsOrdered` | `Spec => OrderedSpec`: the executor implements `OrderedExecutor` |
| `PendingHeavyInOrderAlways` | `Spec => []PendingHeavyInOrder` |

For the refinement the pending jobs of a key are those of its worker in progress before
those of its queue, and those running are the workers at "run".  An enqueue is a
submission, the permit (or the pop of a light job) a start, the end of a body an end;
everything else stutters.  That the promise's job at the head is the worker's own needs
one worker per key, and so `IInv`.

That the list of pending launches is in order, although a settlement only removes the
first entry of its *key*, holds because launches of one key settle in the order they were
submitted: `TakenInTurn` (a job is taken only when those before it under its key are
settled) rests on `QueuedInTurn` (queues are in submission order), `SubmittedOnce` and
`TakenAreServed`; their conjunction is `OrderInv`.  Settling the `r`-th open launch then
moves the ranks of those behind it, and of no other, by one (`RankBehind`, `RankWithout`,
`RemoveFirstIs`).

### 4.2 DrainExitProofs

For any sessions, scenarios, ring capacities and numbers of commands: `TypeCorrect`, and
`NothingOrphanedAlways`, `Spec => []NothingOrphaned`.  The invariant `Relies` says what
the loop knows at each point of its two evaluations.  Past the shells, none runs and,
since shells are refused in a drain, none will.  Past the first positive answer no launch
is unsettled and, because launches start in the receive arm only, none can be started
before the loop stops or receives again (`Answered`).  That is why the *second* evaluation
is needed: during it no launch can register a session any more, so the phases it reads
stay as they were read.  With one evaluation the first half may have read the phases of
a moment before a launch registered and settled.

`QuietRingIsAccurateAlways` (`Spec => []QuietRingIsAccurate`): in a scenario where the ring
never fills, a session whose recorded phase differs from what it does has the event that
says so still in the ring, and as its last word there (`OnRecord`, `LastWords`), so
with an empty ring nothing is behind.  What needs care is that a session may speak twice
before it is heard once (`TaskComplete`, then `RoundComplete`), and that one which left
is not on record at all.

### 4.3 AgendaSchedulerProofs

For any number of process lives and every scenario: `HolderIsRealAlways`, a daemon
believes to hold the lease exactly while its live process holds the lock; and
`AcquisitionOutranksAlways`, every acquisition mints a generation above the one of every
row of the journal, as long as no world deletes the sidecar (with the sidecar gone, what
a new holder's fold has not read yet is the floor; the run `agenda_restart` has such a
world with one daemon at a time, where the fold is fresh at the boot).
Mutual exclusion needs `HolderLives`: the kernel frees the lock with the process.  The
generations need `Ranked`: the sidecar is above every generation held, stamped on a
row or read into a fold.  The lemmas first treat the operations of `SchedulerLease` over
any floor, then show that each step of the scheduler is one of them or leaves the lease
alone.

The second half of the module is about the runs:

| theorem | statement |
|---|---|
| `FiringIsHoldersAlways` | `Spec => FiringIsHolders` |
| `MemoryMatchesJournalAlways` | `~Cohomed => (Spec => []MemoryMatchesJournal)` |
| `FiresAtMostOnceAlways` | `~Cohomed => (Spec => []FiresAtMostOnce)` |
| `CompletedStaysAlways` | `~Cohomed => (Spec => CompletedStays)` |

`FiringInv`, for any number of daemons, says that only a task whose process holds the lease
owes rows that prepare (`Prepared`), and that what a task has in flight is prepared or its
row is owed first.  The gate looks at the lease once and the rows of a pass are written
later: what carries `FiringIsHolders` over the steps between is that a takeover of a daemon
whose scheduler is attached only records the duty, which that task performs at its own
gate when it owes nothing, and that a crash takes the lease and what is owed together.

`RunsInv`, for one daemon at a time, says that the fold is the journal once a task is open;
that each row owed is the only one about its occurrence, comes before the send that it
licenses and fits what the journal has (`RowsFit`: nothing started is prepared again,
nothing terminal is overwritten, except that a run given up as unknown may be taken up
again or end); and that what is awaited, running or watched is in the journal as such, by
this process life, or owed as such (`InFlight`).  `Fired` says that what a process life
launched was prepared, and that no two lives fire one occurrence; it is inductive because
a plan fires only what its fold has never seen prepared, and the fold is the journal.  With
two daemons in one home the fold may be older than the journal and the last three
properties fail (section 3.3; `AgendaHandover.cfg` with `Spec` and each of them); hence
`~Cohomed`, the constant that says that no two process lives overlap.

The proof splits `Next` into the handlers of a task, which move its memory and owe writes
(`HandlersHandle`, a lemma per handler before it), the durable writes (`WroteKeeps`,
`WroteAgrees`, `WroteRuns`), the steps of the supervisor, the sessions and the owner
(`OthersAreElsewhere`), and the beginning and the end of process lives (`BeginKeeps`,
`PerishKeeps`).  The writes of a set of runs need to know that each stands in the sequence
once (`TurnIs`, `OutcomesAre`), and for a rest of a sequence the lemmas of `FilteringProofs`.

### 4.4 RewindProofs

For any number of rounds, files, contents, handlers and requests: `ObjectIndexIsHonestAlways`,
`AnsweredSurvivesAlways`, `RowsAreKeptAlways`, all from `StoreInvAlways`.  `StoreInv` says
how far memory and `history.json` may be apart at each point of a handler (`Follows`): equal
while the watcher is idle, looks at the cap or restores; the index's rows among memory's
while branches go; in between, every row of the index still in memory's linear path or in
one of its branches.  `NextIsAStoreAction` reduces the gateway's and the agent loop's steps
to the store's, `Halves` and `BranchKeeps` say that cutting a history behind its head keeps
its rows.

The second half of the module is about what the rows are good for:

| theorem | statement |
|---|---|
| `PathAlways` | `Spec => [](PathInv /\ RestoreInv)` |
| `ChainsResolveAlways` | every row of the linear path resolves to the maps its round recorded |
| `SharedMapsAreAncestorsAlways` | `Spec => []SharedMapsAreAncestors` |
| `RoundsRestorableAlways` | `Spec => [](OneFaultAtATime => RoundsRestorable)` |
| `RestoresTheRoundAlways` | `Spec => [](OneFaultAtATime => RestoresTheRound)` |
| `KeepsTheTargetsTurnsAlways` | `Spec /\ CountsMessages => KeepsTheTargetsTurns` |

`PathInv` says of memory *and* of `history.json` that ids ascend along the path and that
each row's manifest on disk is bound to it and names, when it shares, an earlier row of
the same path that holds its maps; it must hold of both because a crash replaces one by
the other, and it survives the reuse of an id because a row about to be recorded is above
every id of the index (`NextRow`).  A chain of manifests is a recursive function; that
each hop goes to a smaller id makes it well-founded (`ChainsEquation`), and by `PathInv` it
has two hops at most.  `RestoreInv` follows a restore file by file: what was visited has
the target's content, or was passed over because its blob is missing or the disk failed
(`PassedOver`) and is as it was when the restore began, like what was not visited yet,
unless somebody disturbed the tree.  `BlobInv` says whose blobs are on disk; with it,
no blob of a map that resolves is missing unless it could not be written when its round
was recorded.

`OneFaultAtATime` says that no world has both failing writes and crashes.  It is
needed: an index write fails, a prune then collects the blobs of a branch that
is gone from memory only (they go before `persist_history`, `file_watcher.rs` 2406-2412),
the process dies, and the next one loads an index that names collected blobs.  TLC finds
this behaviour when a world may have both faults; the worlds of the run `rewind` have one
each.  Whether a restore fails makes no difference to it.

The last section is about the conversation half of a rollback, whose parameters are read
under the watcher's lock and used by the agent loop much later, after other turns,
rollbacks and resets.  `TalkInv` says of every conversation that a finished round, a row of
either history, the row about to be recorded, a gateway handler or a request remembers:
the turns of it that the agent still has are among its first as many (`Within`), and no
turn to come is one of them; and every request's message count is the length of what it
remembers.  `ConversationMoves` says that a new turn, a truncation and a reset keep that
of whatever was remembered before; the rest of the proof says that nothing else is ever
remembered.  `CountsMessages` excludes Codex threads, which drop turns by a count of tool
calls: there the statement is false, as the run `rewind_turns` shows.

### 4.5 NativeSteersProofs

For any numbers of steers, turns and events, and watchers of any set `Rounds`:
`NoSteerLostAlways`, `HeardOnceAlways` and `CancelledNeverHeardAlways`.  The invariant
`SInv` says on which lanes a steer may be: an unread event of the live watcher or of the
parked loop, a watcher's hand, the injection queue, the follow-up channel, the loop's
message, the conversation.  Unless the world has a slow timer, it is on one of them
(`OneLane`), once (`OnceOnIt`); behind the first answer only when answered, and on none
when its clear was confirmed (`Answered`).  `OneLive` says that one watcher at most is
live and those of rounds to come are blank: a corpse of a round before keeps what it has
in hand but reads no event twice.  The condition `~world.slow` is part of the properties:
with a slow timer a text is on two lanes, by the code's own account (section 3.3).  `Rounds`
bounds how many watchers there may be, so a behaviour stops when they are used up; the
theorems hold for every such bound.

`FilteringProofs` has the lemmas about queues: what `Without` and `Append` leave and add as
sets, that they keep a member at most once, and what the head and the tail of such a queue
are.  `Without` is a recursive function; that its equation has a solution, and what it
computes, is shown by climbing from prefix to prefix, with the least counterexample in a
finite set in place of an induction theorem (`Climb`).

### 4.6 CreateIntakeProofs

For any messages, jobs, permits and bounds, from `IntakeInvAlways`
(`CreateSpec => []IntakeInv`):

| theorem | statement |
|---|---|
| `CreatesDriveExecutor` | `CreateSpec => DrivesExecutor`, that is, `Spec` of `IntakeExecutor` |
| `OneCustodianAlways` | `CreateSpec => []OneCustodian` |
| `RecordedNotRefusedAlways` | `~MayDrain => (CreateSpec => RecordedNotRefused)` |
| `OneSessionPerDelegationAlways` | `LedgerSuffices => (CreateSpec => []OneSessionPerDelegation)` |
| `AcksAgreeAlways` | `LedgerSuffices => (CreateSpec => []AcksAgree)` |
| `OvershootIsBoundedAlways` | `LedgerSuffices => (CreateSpec => []OvershootIsBounded)` |

`CreatesDriveExecutor` discharges `KeysAgree` for the create path, so everything of
4.1 holds of creates.  It needs to know, between the look at the pending delegations and
the enqueue, that the key that was chosen is still the one under which the delegation is
reserved: only the loop enqueues and it is busy with this message (`Submitting`).  `Custody`
ties each create inside a body to exactly one handler, inline or a worker's job; `Parked`
the admission queue to the messages deferred; `Ledger` each receipt to a session that was
started for its delegation.

A draining daemon may refuse a retry of a delegation on record (section 3.3), hence
`~MayDrain`.  `LedgerSuffices`, a finite set of no more delegations than the ledger keeps
receipts (`MAX_DELEGATION_RECEIPTS`, 128), is needed because the ledger evicts its oldest
receipt beyond that: a retry that comes after starts a second session, and one whose receipt
is evicted between the loop's look and its inline body launches without a permit.  Under it,
`OneLaunch`: a delegation that was started is on record, one being launched is not, and no
two messages of one delegation are ever started, since bodies of one key run one at a time
and each looks at the ledger when its turn comes.  `Bounded` counts an admission from the
gate on: sessions and creates between the gate and a session are together within the bound
plus the permits less one, since each such create has a permit.

### 4.7 SessionRoutingProofs

For any ids, commands, scenarios and permits (`RoutingAssumption` and the executor's own):

| theorem | statement |
|---|---|
| `NoSessionShadowedAlways` | `RoutingSpec => []NoSessionShadowed` |
| `ReservationsAgreeAlways` | `ResumesOverlap => (RoutingSpec => []ReservationsAgree)` |
| `RoutesDriveExecutor` | `ResumesOverlap => (RoutingSpec => Spec)`, the `Spec` of `IntakeExecutor` |
| `RoutingTypeCorrect` | `ResumesOverlap => (RoutingSpec => []RoutingTypeOK)` |
| `ArrivalOrderAlways` | `ResumesOverlap` and `OneWrapper` give `RoutingSpec => []ArrivalOrder` |

The registry's part stands by itself: each writer of the aliases (`register_session`, the
identity's surgery, `remove_session`) leaves every session without an alias of its own, if
that was so before (`RegistryInv`).  It needs what aliases lead to: what an id resolves to
is a session (`Reaches`), and a resume registers a wrapper only when neither of its ids
resolves.

`ReservationsAgree` looks from the choice of a key to the enqueue, while workers go on
settling.  Only the loop enqueues and it holds one command (`OneInHand`), so in between
routes can only go (`WorkerMoves`); and all that is pending for one conversation is pending
under one key (`RoutesAgree`), because a route is held by an unsettled resume that
addresses it (`RouteHeld`, `JobsReserve`) and two resumes share an id, which has one route
(`HeldRoute`).  This is where `ResumesOverlap` is used: any two resumes of a conversation
address an id in common.  It cannot go: with resumes by the id, by the token and then by
both, the third finds two routes with two keys (section 3.3).  `RoutingInv` is the
conjunction, with `IInv`; `RoutesDriveExecutor` then discharges `KeysAgree`, so everything
of 4.1 holds of the routing.

The order of arrival crosses three sequences: commands in the order the loop took them
(`arrived`), jobs in the order they were enqueued (`submitted`), and the order they acted
in (`ran`).  `TurnInv` says that the first two agree (`SubmittedAsArrived`); that all of a
conversation waits under one key, its *home*, the wrapper its resumes name (`KeysHome`),
under which `TakenInTurn` of 4.1 keeps the order; and that a fast command which runs inline
has nothing before it, because at every moment since it looked, no id it addresses has a
route or a busy queue (`ClearTargets`) and no session it resolves to is busy
(`ClearCanonical`).  The last is the delicate one: the loop looks at the raw ids,
resolves and looks again, and sessions appear and end in between.  A session that comes up
meanwhile is registered by a resume whose body runs, hence whose ids are reserved; the
command saw no reservation, so what it resolves to can only shrink (`ResolvedShrinks`).
`ActsInTurn` puts this together: when a command acts, all that arrived before it for its
conversation is over.

`ArrivalOrder` itself speaks of scenarios in which no backend has an id of its own, since
an identity that re-keys a session breaks the order (the run `routing_identity`).
`OneWrapper` adds for those that the resumes of a conversation name the same wrapper first
and that it has a log.  Without it a resume by the token alone opens a fresh wrapper,
whose id is not among those it reserves: a command by the token waits on the token's queue
and a later one by the fresh id, found idle, runs inline before it.

### 4.8 Only model-checked

`FailedMeansUnfinished`, which depends on how many early outcomes coincide with a restart
(`EarlyCap`, section 3.3), and all liveness.  TLAPS has neither
fairness nor ENABLED within its reach here.

## 5. What is abstracted

* *Executor*: nothing but the body and the runtime.  A body ends once; that it panicked
  makes no difference to the executor's state.  Poisoned locks and a closed semaphore
  do not happen.
* *Create intake*: forks and slash commands; eviction of receipts, which `RecordDelegation`
  models but no instance reaches (one delegation, two receipts); a release may happen at
  any moment, since session ends and monitor ticks may; memory pressure is a switch.
* *Routing*: untargeted commands, sub-agent spawns and edits that re-dispatch; phases
  (a wrapper that is done is not reused for an attach); lineage admission.  A resume
  by an id that has no wrapper's log opens one fresh wrapper.  Routes and queues are
  read at once for a group of ids: they can only shrink while the loop looks, since only
  the loop enqueues.
* *Drain*: phases are busy, idle or done (thinking, running and waiting are busy: they
  hold alike); a launch without a task, which registers as idle, is one whose turn is
  over at once; ids are fresh, so a late `done` of an earlier instance of an id is not
  modelled; died parks, which only let go earlier; the status echo to a viewer that
  attaches (`emit_attached_status`), which may put an older phase behind a newer one; the
  capacity of a follow-up channel (16); a lagged read is the dropped event; releases of deferred creates during a drain; an append that starts after
  the last look, which the code accepts; a light command deferred behind a launch
  (`mod.rs` 1017), which the exit does not count.
* *Agenda*: the reminders lane, alias addresses, the live path of a failed
  `TaskComplete`, annotations that only mark a row consumed, proposals and manifest
  digests beyond "approved again", attestations, journal I/O errors and torn tails, a
  failing presence registration, the alert of `drain_watch`.  The governor's floors and
  quiet hours are a nondeterministic hold.  Time is abstract: a cause comes due, grows
  stale, a time-out expires.  A handler reads its inputs when it starts; the refresh at
  the end of a select is part of the select (`NextPass`); the failure streak is capped at
  the threshold.
* *Steers*: attachments, slash commands, refusals by sub-agents, blanket clears, rollback
  requests and follow-up cancels between rounds, the lanes of external agents.  An
  interrupt, an exhausted budget and the turn cap are one way for a round to stop.
  Queueing a steer and its acknowledgement are one step.
* *Round history*: maps are trees and hashes injective; a scan is atomic and its cache
  exact; the display mirror, legacy formats and store epochs; a restore's walk sees every
  file (one that it cannot read is written or left like one that fails); a blob deleted by another
  program, a second read-only watcher, a rollback aimed at another session.  A turn is one
  message, a round one turn for the conversation; what a crash does to the conversation;
  the phase the gateway reads is the agent's own.

Not modelled at all, and why, is in `PROJECT.json` part by part.  In short: the front
ends, the gateway and the protocol surfaces translate requests and keep views; display,
media, platform code and vendored code are I/O; custody, memory and the owner plane,
input authority, the update lane and the external agents' own protocols are state machines
of their own that no module here needs, and are left for later work.  The models cover
the code that decides what runs, which is a small part of a repository of this size.

## 6. Plan

1. `CapacityStage`: the stage tracker (worsen at once, ease after a dwell) against an
   abstract "eased only after the dwell", and its composition with `CreateIntake`.
2. `InputAuthority`: holders, revisions, federated continuity.
3. The steer lanes of external agents beside `NativeSteers`, against one abstract
   "a steer has one outcome".
4. `LightBehindLaunch`: `DrainExit` over the executor, for the commands deferred behind a
   launch, and the registry with relaunched ids.
5. Custody: leases that expire while their material is in use.

A theorem to follow: `FailedMeansUnfinished` of `AgendaScheduler` under a bound on the
early outcomes.
