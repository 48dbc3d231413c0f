---------------------------- MODULE MCCreateIntake ----------------------------
EXTENDS CreateIntake

CONSTANTS m1, m2, m3, d1

\* Two deliveries of one delegation and a create of this daemon's own.
OneDuplicate == [m \in Messages |-> IF m \in {m1, m2} THEN d1 ELSE NoDelegation]

\* Three creates of this daemon's own.
AllOwn == [m \in Messages |-> NoDelegation]
==============================================================================
