-------------------------- MODULE OccurrenceJournal --------------------------
(***************************************************************************)
(* The occurrence journal of the agenda (agenda/reminders.rs) as           *)
(* constant-level operators: what one row does to the fold, which          *)
(* occurrences a recovery pass finds unresolved, which attempt a trigger   *)
(* cause stands at, and what the planner makes of one effect.              *)
(*                                                                         *)
(* An occurrence is the identity session_occurrence_id hashes: the cause   *)
(* instant and the attempt, of the one effect of the one item modelled     *)
(* here.  The digest of the approved manifest is fixed.                    *)
(***************************************************************************)
EXTENDS Naturals, FiniteSets

CONSTANTS
    MaxCause,       \* instants that come due or are requested, 1..MaxCause
    MaxAttempts,    \* MAX_CAUSE_REGENERATIONS
    NoSession       \* no started row

Causes == 1..MaxCause
Occurrences == Causes \X (0..(MaxAttempts - 1))
Terminals == {"completed", "failed", "missed", "unknown"}

\* OccurrenceProgress before its first row; a writer of 0 is no boot
Fresh == [prepared |-> FALSE, started |-> NoSession, terminal |-> "none", writer |-> 0]

\* Mutant: a started row does not re-open a resolved occurrence.
StaysResolved(progress, row) ==
    CASE row.state = "prepared" ->
            [progress EXCEPT !.prepared = TRUE, !.writer = row.boot]
      [] row.state = "started" ->
            [progress EXCEPT !.prepared = TRUE, !.started = row.session, !.writer = row.boot]
      [] OTHER ->
            [progress EXCEPT !.terminal = row.state]

\* fold_record_into: a started row re-opens the occurrence, a terminal row
\* leaves the writer alone
FoldRow(progress, row) ==
    CASE row.state = "prepared" ->
            [progress EXCEPT !.prepared = TRUE, !.writer = row.boot]
      [] row.state = "started" ->
            [progress EXCEPT !.prepared = TRUE, !.started = row.session,
                             !.writer = row.boot, !.terminal = "none"]
      [] OTHER ->
            [progress EXCEPT !.terminal = row.state]

-----------------------------------------------------------------------------
(* The fold's questions.                                                   *)

IsStarted(progress) == progress.started # NoSession

\* started_unresolved
StartedUnresolved(fold) ==
    {o \in Occurrences : IsStarted(fold[o]) /\ fold[o].terminal = "none"}

\* prepared_unresolved: dispatched, no receipt, no terminal
PreparedUnresolved(fold) ==
    {o \in Occurrences : /\ fold[o].prepared
                         /\ ~IsStarted(fold[o])
                         /\ fold[o].terminal = "none"}

Unresolved(fold) ==
    StartedUnresolved(fold) \cup PreparedUnresolved(fold)

-----------------------------------------------------------------------------
(* The planner.                                                            *)

\* walk_cause_attempts: the first attempt that did not fail or go unknown, if
\* it is neither settled otherwise nor running
CauseAttempts(fold, cause) ==
    {o \in Occurrences :
        /\ o[1] = cause
        /\ \A k \in 0..(o[2] - 1) : fold[<<cause, k>>].terminal \in {"failed", "unknown"}
        /\ fold[o].terminal = "none"
        /\ ~IsStarted(fold[o])}

\* every other candidate is attempt zero of its own instant, spent by any
\* terminal and by a started row
FirstAttempt(fold, cause) ==
    {o \in Occurrences :
        o = <<cause, 0>> /\ fold[o].terminal = "none" /\ ~IsStarted(fold[o])}

\* the candidates of one effect: the latest due cause and the requested runs
Candidates(fold, triggered, due, requested) ==
    (IF triggered THEN CauseAttempts(fold, due)
                  ELSE FirstAttempt(fold, due))
    \cup UNION {FirstAttempt(fold, c) : c \in requested}

\* what plan() returns for the effect: the occurrences to declare crashed, the
\* ones that missed their window, and the ones to fire unless one is in flight
Plan(fold, triggered, due, requested, stale, inFlight, overlap) ==
    LET open    == Candidates(fold, triggered, due, requested) \ inFlight
        crashed == {o \in open : fold[o].prepared}
        missed  == {o \in open \ crashed : ~triggered /\ o[1] \in stale}
    IN  [crashed |-> crashed,
         missed  |-> missed,
         spawn   |-> IF overlap THEN {} ELSE open \ (crashed \cup missed)]
=============================================================================
