------------------------------- MODULE MCRewind -------------------------------
(* Instances of Rewind for TLC.                                              *)
EXTENDS Rewind, TLC

MCNotes == [tools : 0..MaxTools, said : UNION {[1..n -> 1..MaxId] : n \in 0..MaxId}]

World(faults, writes, backend, talk, asks) ==
    [faults |-> faults, edits |-> writes, backend |-> backend, talk |-> talk, asks |-> asks]

\* the store under crashes, failing writes and edits, a restore under failing reads and
\* writes of the tree; native conversations; resets
RewindWorlds == {
    World({"crash"}, 1, "native", FALSE, 2),
    World({"write"}, 1, "native", TRUE, 2),
    World({"blob"},  1, "native", FALSE, 1),
    World({"restore"}, 1, "native", FALSE, 1),
    World({},        0, "native", TRUE, 3),
    World({},        0, "reset",  TRUE, 1)}

\* a restore that may fail at a file
PartialWorlds == {World({"restore"}, 1, "native", FALSE, 1)}

\* a Codex thread, nothing going wrong
CodexWorlds == {World({}, 0, "codex", TRUE, 1)}

Symmetric == Permutations(Files) \cup Permutations(Clients) \cup Permutations(Contents)
==============================================================================
