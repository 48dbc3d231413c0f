--------------------------- MODULE SchedulerLease ---------------------------
(***************************************************************************)
(* The active-scheduler lease of co-homed daemons (handover/lease.rs and   *)
(* HandoverRuntime of handover/mod.rs).                                    *)
(*                                                                         *)
(* Several daemons may share one home.  The one that holds the flock on    *)
(* lease/holder.lock runs the standing automations; the flock dies with    *)
(* its process.  Each acquisition mints a generation, one more than what   *)
(* the sidecar lease.json and the rows of the occurrence journal remember. *)
(* A holder gives the lease up by draining: another thread requests the    *)
(* drain, the scheduler task performs its entry between two passes.        *)
(*                                                                         *)
(* A boot is one process life: boot ids are fresh ULIDs and never reused.  *)
(***************************************************************************)
EXTENDS Naturals

CONSTANT Boots      \* the boot ids that may appear: numbers, in mint order

ASSUME BootsAssumption == Boots \subseteq (Nat \ {0})

NoBoot == 0

VARIABLES
    process,    \* "new", "up" or "gone"; up: daemons/<boot>.lock is held
    holder,     \* the boot whose process holds the flock, NoBoot if it is free
    sidecar,    \* the generation written in lease.json, 0 when there is none
    held,       \* the generation of the SchedulerLease in the runtime's slot, or 0
    draining,   \* HandoverRuntime::draining, one-way
    duty        \* DrainState::requested: an entry the scheduler owes

leaseVars == <<process, holder, sidecar, held, draining, duty>>

LeaseTypeOK ==
    /\ process \in [Boots -> {"new", "up", "gone"}]
    /\ holder \in Boots \cup {NoBoot}
    /\ sidecar \in Nat
    /\ held \in [Boots -> Nat]
    /\ draining \in [Boots -> BOOLEAN]
    /\ duty \in [Boots -> BOOLEAN]

LeaseInit ==
    /\ process = [b \in Boots |-> "new"]
    /\ holder = NoBoot
    /\ sidecar = 0
    /\ held = [b \in Boots |-> 0]
    /\ draining = [b \in Boots |-> FALSE]
    /\ duty = [b \in Boots |-> FALSE]

\* boot_id_is_live: the per-boot lock is taken exactly while the process lives
Live(b) == process[b] = "up"

\* Mutant: the journal's floor is not consulted.
OverSidecar(floor) == 1 + sidecar

\* the next generation over the sidecar's and the journal's
NextGeneration(floor) == 1 + (IF sidecar > floor THEN sidecar ELSE floor)

\* try_acquire found the flock free
Acquire(b, floor) ==
    /\ holder = NoBoot
    /\ holder' = b
    /\ sidecar' = NextGeneration(floor)
    /\ held' = [held EXCEPT ![b] = NextGeneration(floor)]

\* HandoverRuntime::initialize: register presence, try the lease once
Initialize(b, floor) ==
    /\ process[b] = "new"
    /\ process' = [process EXCEPT ![b] = "up"]
    /\ \/ Acquire(b, floor)
       \/ holder # NoBoot /\ UNCHANGED <<holder, sidecar, held>>
    /\ UNCHANGED <<draining, duty>>

\* poll_acquire that succeeds: a secondary that is not draining takes a free lease
PollAcquire(b, floor) ==
    /\ Live(b)
    /\ ~draining[b]
    /\ held[b] = 0
    /\ Acquire(b, floor)
    /\ UNCHANGED <<process, draining, duty>>

\* Mutant: the flock is freed, the runtime's slot keeps the lease.
FreeFlock(b) ==
    /\ holder' = IF held[b] > 0 THEN NoBoot ELSE holder
    /\ UNCHANGED <<process, sidecar, held>>

\* perform_drain_entry drops the lease, and with it the flock
Release(b) ==
    /\ holder' = IF held[b] > 0 THEN NoBoot ELSE holder
    /\ held' = [held EXCEPT ![b] = 0]
    /\ UNCHANGED <<process, sidecar>>

\* Mutant: the requester releases at once, scheduler or not.
ReleaseAtOnce(b, attached) ==
    /\ Live(b) /\ ~draining[b] /\ held[b] > 0
    /\ draining' = [draining EXCEPT ![b] = TRUE]
    /\ Release(b)
    /\ UNCHANGED duty

\* request_drain, from another thread: with a scheduler attached the entry
\* becomes its duty, without one it runs inline
RequestDrain(b, attached) ==
    /\ Live(b)
    /\ ~draining[b]
    /\ held[b] > 0
    /\ draining' = [draining EXCEPT ![b] = TRUE]
    /\ IF attached
       THEN /\ duty' = [duty EXCEPT ![b] = TRUE]
            /\ UNCHANGED <<process, holder, sidecar, held>>
       ELSE Release(b) /\ UNCHANGED duty

\* take_drain_entry_duty, then perform_drain_entry
PerformDrainEntry(b) ==
    /\ draining[b]
    /\ duty[b]
    /\ duty' = [duty EXCEPT ![b] = FALSE]
    /\ Release(b)
    /\ UNCHANGED draining

\* lease.json is deleted or corrupted from outside: it reads as no generation
LoseSidecar ==
    /\ sidecar # 0
    /\ sidecar' = 0
    /\ UNCHANGED <<process, holder, held, draining, duty>>

\* the process dies or exits: the kernel frees its locks
Die(b) ==
    /\ Live(b)
    /\ process' = [process EXCEPT ![b] = "gone"]
    /\ holder' = IF holder = b THEN NoBoot ELSE holder
    /\ held' = [held EXCEPT ![b] = 0]
    /\ draining' = [draining EXCEPT ![b] = FALSE]
    /\ duty' = [duty EXCEPT ![b] = FALSE]
    /\ UNCHANGED sidecar

-----------------------------------------------------------------------------
(* What the lease promises on its own.                                     *)

\* Mutual exclusion: a daemon believes it is the holder exactly while its
\* process holds the flock (is_holder gates every firing pass).
HolderIsReal ==
    \A b \in Boots : held[b] > 0 <=> (holder = b /\ Live(b))
=============================================================================
