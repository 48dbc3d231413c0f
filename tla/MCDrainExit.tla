----------------------------- MODULE MCDrainExit -----------------------------
(* Instances of DrainExit. *)
EXTENDS DrainExit

CONSTANTS s1, s2

\* a working session, a launch, a shell and an append, over a ring that overflows;
\* and a working session with nothing lost
DrainScenarios ==
  {[running |-> {s1}, creatable |-> {s2}, holds |-> {"terminal", "transfer"}, roomy |-> FALSE],
   [running |-> {s1}, creatable |-> {}, holds |-> {}, roomy |-> TRUE]}

OneWorking == {[running |-> {s1}, creatable |-> {}, holds |-> {}, roomy |-> TRUE]}

\* a working session and a shell
OneShell == {[running |-> {s1}, creatable |-> {}, holds |-> {"terminal"}, roomy |-> TRUE]}
==============================================================================
