-------------------------- MODULE MCAgendaScheduler --------------------------
(* Instances of AgendaScheduler for TLC.                                   *)
EXTENDS AgendaScheduler

\* the manifest: a series or a trigger, native sessions or external wrappers that
\* may be resumed; and what may go wrong or be asked meanwhile
World(triggered, wrapped, causes, faults) ==
    [triggered |-> triggered, wrapped |-> wrapped, causes |-> causes, faults |-> faults]

\* In the last, with EarlyCap = 2, outcomes that no receipt has claimed fill the memory
\* of early outcomes before the next run's receipt arrives.
RestartWorlds == {
    World(FALSE, TRUE, 1, {"crash", "lose", "late", "refuse", "stop", "close"}),
    World(FALSE, TRUE, 2, {"crash", "lose", "request", "refuse"}),
    World(TRUE, TRUE, 1, {"crash", "lose", "request", "forget"}),
    World(FALSE, TRUE, 1, {"restart", "lose", "late", "stop", "close"}),
    World(FALSE, TRUE, 2, {"restart", "close"})}

\* two daemons share the home
HandoverWorlds == {
    World(FALSE, FALSE, 1, {"crash", "drain"})}
=============================================================================
