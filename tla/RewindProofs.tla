----------------------------- MODULE RewindProofs -----------------------------
(* What the snapshot store keeps, for every number of rounds, files, contents  *)
(* and gateway handlers: no row of the history is lost, an answered operation  *)
(* survives a crash, no blob is believed stored that is not, every round can   *)
(* be restored, and a rewound conversation keeps its target's turns.           *)
(* A handler changes the History in memory before history.json follows; the    *)
(* invariant says how far apart the two may be at each point of a handler.     *)
EXTENDS Rewind, FilteringProofs, SequenceTheorems

------------------------------------------------------------------------------
(* The invariant. *)

Sequence(s) == s \in Seq({s[i] : i \in DOMAIN s})

Shaped(h) ==
    /\ h = [head |-> h.head, rows |-> h.rows, abandoned |-> h.abandoned, next |-> h.next]
    /\ Sequence(h.rows) /\ Sequence(h.abandoned)

\* the rows of one history are somewhere in another
Keeps(new, old) == RowsOf(old) \subseteq RowsOf(new) \cup AbandonedRows(new)

\* memory against history.json; a branch is dropped only after the rows are there
Follows ==
    /\ handler.pc \in {"idle", "cap", "restore"} => hist = index
    /\ handler.pc = "capped" => RowsOf(index) \subseteq RowsOf(hist)
    /\ Keeps(hist, index)

StoreInv ==
    /\ Shaped(hist) /\ Shaped(index)
    /\ ObjectIndexIsHonest
    /\ ~up => handler = Idle
    /\ up /\ "write" \notin world.faults => Follows

\* what a step does to the store, whoever takes it
StoreAction ==
    \/ completed # <<>> /\ BeginRecord(Head(completed))
    \/ WriteManifest \/ PersistHistory \/ WriteFails
    \/ UnderCap \/ DropOldestBranch \/ PruneAbandoned
    \/ \E id \in LinearIds(hist) : BeginRestore(id)
    \/ \E f \in Files : RestoreFile(f)
    \/ Settle
    \/ \E f \in Files, c \in Contents \cup {Absent} : Work(f, c)
    \/ Crash \/ Boot

------------------------------------------------------------------------------
(* Sequences and histories. *)

\* A sequence over any set is a sequence.
LEMMA ASequence == ASSUME NEW S, NEW s \in Seq(S) PROVE Sequence(s)
<1>1. /\ Len(s) \in Nat /\ DOMAIN s = 1..Len(s)
      /\ s = [i \in 1..Len(s) |-> s[i]]
  OBVIOUS
<1> DEFINE T == {s[i] : i \in DOMAIN s}
<1>2. s \in [1..Len(s) -> T]
  BY <1>1
<1>3. s \in Seq(T)
  BY <1>1, <1>2
<1> QED
  BY <1>3 DEF Sequence

\* The empty sequence is one.
LEMMA EmptySequence == Sequence(<<>>)
<1>1. <<>> \in Seq({})
  OBVIOUS
<1> QED
  BY <1>1, ASequence

\* Appending to a sequence keeps its elements and adds one.
LEMMA Appended ==
  ASSUME NEW s, Sequence(s), NEW x
  PROVE  /\ Sequence(Append(s, x))
         /\ \A i \in DOMAIN s : i \in DOMAIN Append(s, x) /\ Append(s, x)[i] = s[i]
         /\ \E i \in DOMAIN Append(s, x) : Append(s, x)[i] = x
<1> DEFINE S == {s[i] : i \in DOMAIN s} \cup {x}
<1>1. s \in Seq(S)
  <2>1. \A r \in Seq({s[i] : i \in DOMAIN s}) : r \in Seq(S)
    BY SeqMonotonic
  <2> QED
    BY <2>1 DEF Sequence
<1>2. Append(s, x) \in Seq(S)
  BY <1>1
<1>3. Sequence(Append(s, x))
  BY <1>2, ASequence
<1>4. /\ \A i \in DOMAIN s : i \in DOMAIN Append(s, x) /\ Append(s, x)[i] = s[i]
      /\ Len(s) + 1 \in DOMAIN Append(s, x) /\ Append(s, x)[Len(s) + 1] = x
  <2> HIDE DEF S
  <2> QED
    BY <1>1
<1> QED
  BY <1>3, <1>4

\* The part of a sequence up to m and the part after it have all its elements.
LEMMA Halves ==
  ASSUME NEW s, Sequence(s), NEW m \in DOMAIN s
  PROVE  LET front == SubSeq(s, 1, m)
             back  == SubSeq(s, m + 1, Len(s))
         IN  /\ Sequence(front)
             /\ \A i \in DOMAIN s : \/ \E j \in DOMAIN front : front[j] = s[i]
                                    \/ \E j \in DOMAIN back : back[j] = s[i]
<1> DEFINE S == {s[i] : i \in DOMAIN s}
           front == SubSeq(s, 1, m)
           back  == SubSeq(s, m + 1, Len(s))
<1>1. s \in Seq(S)
  BY DEF Sequence
<1> HIDE DEF S
<1>2. DOMAIN s = 1..Len(s) /\ Len(s) \in Nat /\ m \in 1..Len(s)
  BY <1>1
<1>3. front \in Seq(S)
  BY <1>1, <1>2
<1>4. /\ DOMAIN front = 1..m
      /\ \A i \in 1..m : front[i] = s[i]
  BY <1>1, <1>2
<1>5. /\ DOMAIN back = 1..(Len(s) - m)
      /\ \A j \in 1..(Len(s) - m) : back[j] = s[m + j]
  BY <1>1, <1>2
<1>6. ASSUME NEW i \in DOMAIN s
      PROVE  \/ \E j \in DOMAIN front : front[j] = s[i]
             \/ \E j \in DOMAIN back : back[j] = s[i]
  <2>1. CASE i <= m
    <3>1. i \in DOMAIN front /\ front[i] = s[i]
      BY <1>2, <1>4, <2>1
    <3> QED
      BY <3>1
  <2>2. CASE i > m
    <3>1. i - m \in 1..(Len(s) - m) /\ m + (i - m) = i
      BY <1>2, <2>2
    <3>2. i - m \in DOMAIN back /\ back[i - m] = s[i]
      BY <1>5, <3>1
    <3> QED
      BY <3>2
  <2> QED
    BY <1>2, <2>1, <2>2
<1> QED
  BY <1>3, <1>6, ASequence

\* Moving the rows behind the head to a branch loses none of them.
LEMMA BranchKeeps ==
  ASSUME NEW h, Shaped(h)
  PROVE  Shaped(Branch(h)) /\ Keeps(Branch(h), h)
<1> DEFINE m == Position(h, h.head)
           front == SubSeq(h.rows, 1, m)
           back  == SubSeq(h.rows, m + 1, Len(h.rows))
<1>1. CASE h.head \in LinearIds(h) /\ m < Len(h.rows)
  <2>1. m \in DOMAIN h.rows
    BY <1>1 DEF Position, LinearIds, RowsOf
  <2>2. /\ Branch(h).head = h.head
        /\ Branch(h).next = h.next
        /\ Branch(h).rows = front
        /\ Branch(h).abandoned = Append(h.abandoned, back)
        /\ Branch(h) = [head |-> Branch(h).head, rows |-> Branch(h).rows,
                        abandoned |-> Branch(h).abandoned, next |-> Branch(h).next]
    <3>1. Branch(h) = [h EXCEPT !.rows = front, !.abandoned = Append(@, back)]
      BY <1>1 DEF Branch
    <3> HIDE DEF m, front, back
    <3> QED
      BY <3>1 DEF Shaped
  <2> HIDE DEF m
  <2>3. /\ Sequence(front)
        /\ \A i \in DOMAIN h.rows : \/ \E j \in DOMAIN front : front[j] = h.rows[i]
                                    \/ \E j \in DOMAIN back : back[j] = h.rows[i]
    BY <2>1, Halves DEF Shaped
  <2> HIDE DEF front, back
  <2>4. /\ Sequence(Append(h.abandoned, back))
        /\ \E j \in DOMAIN Branch(h).abandoned : Branch(h).abandoned[j] = back
    BY <2>2, Appended DEF Shaped
  <2>5. Shaped(Branch(h))
    BY <2>2, <2>3, <2>4 DEF Shaped
  <2>6. {back[j] : j \in DOMAIN back} \subseteq AbandonedRows(Branch(h))
    BY <2>4 DEF AbandonedRows
  <2>7. {front[j] : j \in DOMAIN front} = RowsOf(Branch(h))
    BY <2>2 DEF RowsOf
  <2>8. Keeps(Branch(h), h)
    BY <2>3, <2>6, <2>7 DEF Keeps, RowsOf
  <2> QED
    BY <2>5, <2>8
<1>2. CASE ~(h.head \in LinearIds(h) /\ m < Len(h.rows))
  <2>1. Branch(h) = h
    BY <1>2 DEF Branch
  <2> QED
    BY <2>1 DEF Keeps
<1> QED

  BY <1>1, <1>2

------------------------------------------------------------------------------
(* The gateway, the agent and the store's own steps. *)

\* Whoever takes it, a step either is one action of the store or leaves the
\* store as it is.
LEMMA NextIsAStoreAction == Next => StoreAction \/ UNCHANGED storeVars
<1> SUFFICES ASSUME Next PROVE StoreAction \/ UNCHANGED storeVars
  OBVIOUS
<1>1. CASE StartTurn \/ (\E tools \in 0..MaxTools : EndTurn(tools)) \/ RewindConversation
  BY <1>1 DEF StartTurn, EndTurn, RewindConversation
<1>2. CASE Record \/ Prune \/ Persist \/ PersistFails \/ StoreStep \/ Dies
  BY <1>2 DEF Record, Prune, Persist, PersistFails, StoreStep, Dies, StoreAction
<1>3. CASE \E f \in Files, c \in Contents \cup {Absent} : Edit(f, c)
  BY <1>3 DEF Edit, StoreAction
<1>4. CASE \E c \in Clients, id \in Ids, files, talk \in BOOLEAN : Ask(c, id, files, talk)
  BY <1>4 DEF Ask
<1>5. ASSUME NEW c \in Clients,
             \/ Params(c) \/ RestoreRefused(c) \/ RedoAsked(c) \/ RedoRefused(c) \/ Send(c)
      PROVE  UNCHANGED storeVars
  BY <1>5 DEF Params, RestoreRefused, RedoAsked, RedoRefused, Send
<1>6. ASSUME NEW c \in Clients, RestoreBegins(c)
      PROVE  StoreAction
  <2>1. BeginRestore(client[c].id) /\ client[c].id \in LinearIds(hist)
    BY <1>6 DEF RestoreBegins, Rollback, BeginRestore
  <2> QED
    BY <2>1 DEF StoreAction
<1>7. ASSUME NEW c \in Clients, RedoBegins(c)
      PROVE  StoreAction
  BY <1>7 DEF RedoBegins, Redo, BeginRestore, StoreAction
<1> QED
  BY <1>1, <1>2, <1>3, <1>4, <1>5, <1>6, <1>7 DEF Next

------------------------------------------------------------------------------
(* The invariant holds. *)

\* The store starts empty, in memory and on disk.
LEMMA StoreInvInit == Init => StoreInv
<1> SUFFICES ASSUME Init PROVE StoreInv
  OBVIOUS
<1>1. /\ hist = EmptyHistory /\ index = EmptyHistory /\ object_index = {} /\ up
      /\ handler = Idle
  BY DEF Init, StoreInit
<1>2. Sequence(<<>>)
  BY EmptySequence
<1>3. Shaped(EmptyHistory)
  BY <1>2 DEF Shaped, EmptyHistory
<1> QED
  BY <1>1, <1>3 DEF StoreInv, ObjectIndexIsHonest, Follows, Keeps, Idle

\* Beginning a record stores blobs, moves the tail to a branch and leaves the
\* index behind.
LEMMA RecordBegins ==
  ASSUME StoreInv, NEW note, BeginRecord(note)
  PROVE  StoreInv' /\ Keeps(hist', hist)
<1>1. /\ Shaped(Branch(hist)) /\ Keeps(Branch(hist), hist)
  BY BranchKeeps DEF StoreInv
<1>2. /\ hist' = [Branch(hist) EXCEPT !.next = @ + 1]
      /\ handler'.pc = "manifest"
      /\ UNCHANGED <<index, up, world>> /\ up /\ handler = Idle
  BY DEF BeginRecord, Free
<1>3. /\ hist'.rows = Branch(hist).rows /\ hist'.abandoned = Branch(hist).abandoned
      /\ hist' = [head |-> hist'.head, rows |-> hist'.rows,
                  abandoned |-> hist'.abandoned, next |-> hist'.next]
  <2> DEFINE b == Branch(hist)
  <2>1. hist' = [b EXCEPT !.next = @ + 1] /\ Shaped(b)
    BY <1>1, <1>2
  <2> HIDE DEF b
  <2>2. /\ hist'.rows = b.rows /\ hist'.abandoned = b.abandoned
        /\ hist' = [head |-> hist'.head, rows |-> hist'.rows,
                    abandoned |-> hist'.abandoned, next |-> hist'.next]
    BY <2>1 DEF Shaped
  <2> QED
    BY <2>2 DEF b
<1>4. Shaped(hist') /\ Keeps(hist', hist)
  BY <1>1, <1>3 DEF Shaped, Keeps, RowsOf, AbandonedRows
<1>5. ObjectIndexIsHonest'
  <2>1. PICK failed \in SUBSET Unwritable : StoreObjects(failed)
    BY DEF BeginRecord
  <2> QED
    BY <2>1 DEF StoreObjects, ObjectIndexIsHonest, StoreInv
<1>6. (up /\ "write" \notin world.faults => Follows)'
  BY <1>2, <1>4 DEF StoreInv, Follows, Idle
<1>7. Shaped(index)'
  BY <1>2 DEF StoreInv
<1> QED
  BY <1>2, <1>4, <1>5, <1>6, <1>7 DEF StoreInv

\* The new row joins the linear path; nothing else moves.
LEMMA RowWritten ==
  ASSUME StoreInv, WriteManifest
  PROVE  StoreInv' /\ Keeps(hist', hist)
<1> DEFINE row == handler.row
<1>1. /\ hist' = [hist EXCEPT !.rows = Append(@, row), !.head = row.id]
      /\ handler' = [pc |-> "index", op |-> "record"]
      /\ UNCHANGED <<objects, index, up, object_index, world>>
      /\ handler.pc = "manifest" /\ Shaped(hist) /\ Shaped(index)
  BY DEF WriteManifest, StoreInv
<1>2. up
  BY <1>1 DEF StoreInv, Idle
<1> HIDE DEF row
<1>3. /\ hist'.rows = Append(hist.rows, row) /\ hist'.abandoned = hist.abandoned
      /\ hist' = [head |-> hist'.head, rows |-> hist'.rows,
                  abandoned |-> hist'.abandoned, next |-> hist'.next]
  BY <1>1 DEF Shaped
<1>4. /\ Sequence(Append(hist.rows, row))
      /\ \A i \in DOMAIN hist.rows :
            i \in DOMAIN Append(hist.rows, row) /\ Append(hist.rows, row)[i] = hist.rows[i]
  BY <1>1, Appended DEF Shaped
<1>5. Shaped(hist')
  BY <1>1, <1>3, <1>4 DEF Shaped
<1>6. RowsOf(hist) \subseteq RowsOf(hist') /\ AbandonedRows(hist') = AbandonedRows(hist)
  BY <1>3, <1>4 DEF RowsOf, AbandonedRows
<1>7. Keeps(hist', hist)
  BY <1>6 DEF Keeps
<1>8. (up /\ "write" \notin world.faults => Follows)'
  BY <1>1, <1>2, <1>6 DEF StoreInv, Follows, Keeps
<1> QED
  BY <1>1, <1>2, <1>5, <1>7, <1>8 DEF StoreInv, ObjectIndexIsHonest

\* Dropping branches, one or all, keeps the rows of the linear path.
LEMMA BranchesDropped ==
  ASSUME StoreInv, DropOldestBranch \/ PruneAbandoned
  PROVE  StoreInv' /\ Keeps(hist', hist)
<1>1. \E left : Sequence(left) /\ Collect([hist EXCEPT !.abandoned = left])
  <2>1. CASE PruneAbandoned
    <3>1. Sequence(<<>>) /\ Collect([hist EXCEPT !.abandoned = <<>>])
      BY <2>1, EmptySequence DEF PruneAbandoned
    <3> QED
      BY <3>1
  <2>2. CASE DropOldestBranch
    <3>1. Sequence(hist.abandoned) /\ hist.abandoned # <<>>
      BY <2>2 DEF DropOldestBranch, StoreInv, Shaped
    <3> DEFINE S == {hist.abandoned[i] : i \in DOMAIN hist.abandoned}
    <3>2. hist.abandoned \in Seq(S)
      BY <3>1 DEF Sequence
    <3> HIDE DEF S
    <3>3. Tail(hist.abandoned) \in Seq(S)
      BY <3>1, <3>2
    <3>4. Sequence(Tail(hist.abandoned))
      BY <3>3, ASequence
    <3>5. Collect([hist EXCEPT !.abandoned = Tail(@)])
      BY <2>2 DEF DropOldestBranch
    <3> QED
      BY <3>4, <3>5
  <2> QED
    BY <2>1, <2>2
<1>2. PICK left : Sequence(left) /\ Collect([hist EXCEPT !.abandoned = left])
  BY <1>1
<1>3. /\ hist' = [hist EXCEPT !.abandoned = left]
      /\ objects' = objects \ Orphans([hist EXCEPT !.abandoned = left])
      /\ object_index' = object_index \ Orphans([hist EXCEPT !.abandoned = left])
  BY <1>2 DEF Collect
<1>4. ObjectIndexIsHonest'
  BY <1>3 DEF StoreInv, ObjectIndexIsHonest
<1>5. /\ hist'.rows = hist.rows /\ hist'.abandoned = left
      /\ hist' = [head |-> hist'.head, rows |-> hist'.rows,
                  abandoned |-> hist'.abandoned, next |-> hist'.next]
  BY <1>3 DEF StoreInv, Shaped
<1>6. Shaped(hist') /\ RowsOf(hist') = RowsOf(hist)
  BY <1>2, <1>5 DEF StoreInv, Shaped, RowsOf
<1>7. /\ UNCHANGED <<index, up, world>>
      /\ handler.pc \in {"cap", "capped", "idle"} /\ handler'.pc \in {"capped", "index"}
  BY DEF DropOldestBranch, PruneAbandoned, Free, Idle
<1>8. up
  BY DEF DropOldestBranch, PruneAbandoned, Free, StoreInv, Idle
<1>9. (up /\ "write" \notin world.faults => Follows)'
  BY <1>6, <1>7, <1>8 DEF StoreInv, Follows, Keeps
<1> QED
  BY <1>4, <1>6, <1>7, <1>8, <1>9 DEF StoreInv, Keeps

\* The handlers' other steps leave the rows alone.
LEMMA OtherStoreSteps ==
  ASSUME StoreInv,
         \/ PersistHistory \/ WriteFails \/ UnderCap \/ Settle
         \/ \E id \in LinearIds(hist) : BeginRestore(id)
         \/ \E f \in Files : RestoreFile(f)
         \/ \E f \in Files, c \in Contents \cup {Absent} : Work(f, c)
  PROVE  StoreInv' /\ Keeps(hist', hist)
<1>1. CASE PersistHistory
  <2>1. /\ index' = hist /\ UNCHANGED <<hist, objects, object_index, up, world>>
        /\ handler'.pc \in {"idle", "cap"} /\ handler.pc # "idle"
    BY <1>1 DEF PersistHistory, memoryVars, Idle
  <2>2. up
    BY <2>1 DEF StoreInv, Idle
  <2> QED
    BY <2>1, <2>2 DEF StoreInv, Shaped, ObjectIndexIsHonest, Follows, Keeps
<1>2. CASE WriteFails
  <2>1. /\ "write" \in world.faults /\ handler' = Idle
        /\ UNCHANGED <<hist, index, objects, object_index, up, world>>
    BY <1>2 DEF WriteFails, memoryVars, diskVars
  <2> QED
    BY <2>1 DEF StoreInv, Shaped, ObjectIndexIsHonest, Keeps
<1>3. CASE UnderCap
  <2>1. /\ handler.pc = "cap" /\ handler' = Idle
        /\ UNCHANGED <<hist, index, objects, object_index, up, world>>
    BY <1>3 DEF UnderCap, memoryVars, diskVars
  <2> QED
    BY <2>1 DEF StoreInv, Shaped, ObjectIndexIsHonest, Follows, Keeps, Idle
<1>4. CASE Settle
  <2>1. /\ handler.pc = "restore" /\ handler'.pc = "index" /\ Shaped(hist)
        /\ hist' = [hist EXCEPT !.head = handler.target.id]
        /\ UNCHANGED <<index, objects, object_index, up, world>>
    BY <1>4 DEF Settle, diskVars, StoreInv
  <2>2. /\ hist'.rows = hist.rows /\ hist'.abandoned = hist.abandoned
        /\ hist' = [head |-> hist'.head, rows |-> hist'.rows,
                    abandoned |-> hist'.abandoned, next |-> hist'.next]
    BY <2>1 DEF Shaped
  <2>3. /\ Shaped(hist') /\ RowsOf(hist') = RowsOf(hist)
        /\ AbandonedRows(hist') = AbandonedRows(hist)
    BY <2>1, <2>2 DEF Shaped, RowsOf, AbandonedRows
  <2>4. up
    BY <2>1 DEF StoreInv, Idle
  <2>5. (up /\ "write" \notin world.faults => Follows)'
    BY <2>1, <2>3, <2>4 DEF StoreInv, Follows, Keeps
  <2> QED
    BY <2>1, <2>3, <2>4, <2>5 DEF StoreInv, ObjectIndexIsHonest, Keeps
<1>5. CASE \E id \in LinearIds(hist) : BeginRestore(id)
  <2>1. /\ handler = Idle /\ up /\ handler'.pc = "restore"
        /\ UNCHANGED <<hist, index, objects, object_index, up, world>>
    BY <1>5 DEF BeginRestore, Free, memoryVars, diskVars
  <2> QED
    BY <2>1 DEF StoreInv, Shaped, ObjectIndexIsHonest, Follows, Keeps, Idle
<1>6. ASSUME NEW f \in Files, RestoreFile(f)
      PROVE  StoreInv' /\ Keeps(hist', hist)
  <2>1. /\ handler.pc = "restore" /\ object_index' \subseteq object_index
        /\ UNCHANGED <<hist, index, objects, up, world>>
        /\ handler' = [handler EXCEPT !.left = @ \ {f}]
    BY <1>6 DEF RestoreFile, diskVars
  <2>2. up
    BY <2>1 DEF StoreInv, Idle
  <2>3. "write" \notin world.faults => hist = index
    BY <2>1, <2>2 DEF StoreInv, Follows
  <2>4. (up /\ "write" \notin world.faults => Follows)'
    BY <2>1, <2>3 DEF Follows, Keeps
  <2> QED
    BY <2>1, <2>2, <2>4 DEF StoreInv, Shaped, ObjectIndexIsHonest, Keeps
<1>7. ASSUME NEW f \in Files, NEW c \in Contents \cup {Absent}, Work(f, c)
      PROVE  StoreInv' /\ Keeps(hist', hist)
  <2>1. /\ UNCHANGED <<hist, index, objects, object_index, up, world>>
        /\ \/ handler' = handler
           \/ handler.pc = "restore" /\ handler' = [handler EXCEPT !.disturbed = TRUE]
    BY <1>7 DEF Work, memoryVars, diskVars
  <2>2. handler.pc = "restore" => up /\ ("write" \notin world.faults => hist = index)
    BY DEF StoreInv, Follows, Idle
  <2>3. (up /\ "write" \notin world.faults => Follows)'
    BY <2>1, <2>2 DEF StoreInv, Follows, Keeps
  <2> QED
    BY <2>1, <2>2, <2>3 DEF StoreInv, Shaped, ObjectIndexIsHonest, Keeps
<1> QED
  BY <1>1, <1>2, <1>3, <1>4, <1>5, <1>6, <1>7

\* A crash leaves what disk holds, and a boot reads it back.
LEMMA CrashAndBoot ==
  ASSUME StoreInv, Crash \/ Boot
  PROVE  StoreInv'
<1>1. CASE Crash
  <2>1. /\ hist' = EmptyHistory /\ object_index' = {} /\ ~up' /\ handler' = Idle
        /\ UNCHANGED <<objects, index>>
    BY <1>1 DEF Crash, diskVars
  <2>2. Shaped(EmptyHistory)
    BY EmptySequence DEF Shaped, EmptyHistory
  <2> QED
    BY <2>1, <2>2 DEF StoreInv, Shaped, ObjectIndexIsHonest
<1>2. CASE Boot
  <2>1. /\ hist' = index /\ object_index' = objects /\ ~up /\ up'
        /\ UNCHANGED <<objects, index, handler, world>>
    BY <1>2 DEF Boot, diskVars
  <2>2. handler = Idle
    BY <2>1 DEF StoreInv
  <2> QED
    BY <2>1, <2>2 DEF StoreInv, Shaped, ObjectIndexIsHonest, Follows, Keeps, Idle
<1> QED
  BY <1>1, <1>2

\* Every step of the system keeps the invariant.
LEMMA StoreInvStep == StoreInv /\ [Next]_vars => StoreInv'
<1> SUFFICES ASSUME StoreInv, [Next]_vars PROVE StoreInv'
  OBVIOUS
<1>1. CASE StoreAction
  BY <1>1, RecordBegins, RowWritten, BranchesDropped, OtherStoreSteps, CrashAndBoot
     DEF StoreAction
<1>2. CASE UNCHANGED storeVars
  BY <1>2 DEF storeVars, memoryVars, diskVars, StoreInv, Shaped, ObjectIndexIsHonest,
             Follows, Keeps
<1> QED
  BY <1>1, <1>2, NextIsAStoreAction DEF vars

\* The invariant of the store, in every reachable state.
THEOREM StoreInvAlways == Spec => []StoreInv
  BY StoreInvInit, StoreInvStep, PTL DEF Spec

------------------------------------------------------------------------------
(* What follows. *)

\* A blob the watcher believes to be stored is on disk, whatever writes failed
\* or collections ran: the scan may skip writing it.
THEOREM ObjectIndexIsHonestAlways == Spec => []ObjectIndexIsHonest
<1>1. StoreInv => ObjectIndexIsHonest
  BY DEF StoreInv
<1> QED
  BY <1>1, StoreInvAlways, PTL

\* Between two handlers a restart would load exactly what the daemon holds: a
\* round, a rollback, a redo or a prune that was answered is not lost in a crash.
THEOREM AnsweredSurvivesAlways == Spec => []AnsweredSurvives
<1>1. StoreInv => AnsweredSurvives
  BY DEF StoreInv, AnsweredSurvives, Follows, Idle
<1> QED
  BY <1>1, StoreInvAlways, PTL

\* A row leaves the linear path only for an abandoned branch, in the daemon's
\* memory at every step, and in history.json at every durable write.
THEOREM RowsAreKeptAlways == Spec => RowsAreKept
<1> DEFINE Step ==
      /\ up /\ up' => RowsOf(hist) \subseteq RowsOf(hist') \cup AbandonedRows(hist')
      /\ "write" \notin world.faults =>
            RowsOf(index) \subseteq RowsOf(index') \cup AbandonedRows(index')
<1>1. StoreInv /\ [Next]_vars => [Step]_storeVars
  <2> SUFFICES ASSUME StoreInv, StoreAction PROVE Step
    BY NextIsAStoreAction DEF vars
  <2>1. up /\ up' => Keeps(hist', hist)
    <3>1. CASE Crash \/ Boot
      BY <3>1 DEF Crash, Boot
    <3> QED
      BY <3>1, RecordBegins, RowWritten, BranchesDropped, OtherStoreSteps DEF StoreAction
  <2>2. "write" \notin world.faults => Keeps(index', index)
    <3>1. CASE PersistHistory
      <4>1. index' = hist /\ handler # Idle
        BY <3>1 DEF PersistHistory, Idle
      <4> QED
        BY <4>1 DEF StoreInv, Follows
    <3>2. ~PersistHistory => UNCHANGED index
      BY DEF StoreAction, BeginRecord, WriteManifest, WriteFails, UnderCap, DropOldestBranch,
             PruneAbandoned, BeginRestore, RestoreFile, Settle, Work, Crash, Boot, diskVars
    <3> QED
      BY <3>1, <3>2 DEF Keeps
  <2> QED
    BY <2>1, <2>2 DEF Keeps
<1> QED
  BY <1>1, StoreInvAlways, PTL DEF Spec, RowsAreKept

------------------------------------------------------------------------------
(* The linear path: its rows, the chains that resolve them, their blobs. *)

\* what a row resolves to, when it does
MapsOf(r) == [id |-> r.id, source |-> Source(r), maps |-> r.hash]

\* s holds the maps of r itself
IsRoot(s, r) == s.id = Source(r) /\ s.from = NoRound /\ s.id <= r.id /\ s.hash = r.hash

\* the ids grow along the path, each row's maps are held by a row of the path, and
\* each row's manifest (of those written) says what the row says
Path(h, written) ==
    /\ \A i, j \in DOMAIN h.rows : i < j => h.rows[i].id < h.rows[j].id
    /\ h.next \in Nat
    /\ \A r \in RowsOf(h) : /\ r.id \in Ids /\ r.id < h.next
                            /\ r.from \in Nat /\ r.from < r.id
                            /\ \E s \in RowsOf(h) : IsRoot(s, r)
                            /\ written[r.id] = r

\* a row about to be written comes after both histories; its maps are on the path
NextRow(row) ==
    /\ row.id \in Ids /\ row.id + 1 = hist.next /\ index.next <= row.id
    /\ row.from \in Nat
    /\ row.from # NoRound =>
          \E s \in RowsOf(hist) : s.id = row.from /\ s.from = NoRound /\ s.hash = row.hash
    /\ \A r \in RowsOf(hist) : r.id < row.id

PathInv ==
    /\ StoreInv
    /\ Path(hist, manifests) /\ Path(index, manifests)
    /\ manifests = [i \in Ids |-> manifests[i]]
    /\ up => index.next <= hist.next
    /\ \/ head_maps = NoMaps
       \/ \E r \in RowsOf(hist) : r.id = hist.head /\ head_maps = MapsOf(r)
    /\ ~up => hist = EmptyHistory /\ head_maps = NoMaps /\ "crash" \in world.faults
    /\ handler.pc = "manifest" => NextRow(handler.row)

\* the blobs of a path are on disk
Stored(h, blobs) == \A r \in RowsOf(h) : BlobsOf(r.hash) \subseteq blobs

BlobInv ==
    "blob" \notin world.faults =>
       /\ up => Stored(hist, objects)
       /\ "write" \notin world.faults => Stored(index, objects)
       /\ handler.pc = "manifest" => BlobsOf(handler.row.hash) \subseteq objects

\* what makes a restore leave a file as it was: no blob, or a failure
PassedOver(f) ==
    \/ handler.target.maps[f] \notin objects \cup {Absent}
    \/ "restore" \in world.faults

\* a restore nobody disturbed, file by file
RestoreInv ==
    /\ tree = [f \in Files |-> tree[f]]
    /\ handler.pc = "restore" =>
          /\ handler = [pc |-> "restore", target |-> handler.target, current |-> handler.current,
                        left |-> handler.left, disturbed |-> handler.disturbed]
          /\ \E r \in RowsOf(hist) : handler.target = MapsOf(r)
          /\ ~handler.disturbed =>
                \A f \in Files :
                   /\ f \in handler.left => tree[f] = handler.current[f]
                   /\ f \notin handler.left =>
                         \/ tree[f] = handler.target.maps[f]
                         \/ PassedOver(f) /\ tree[f] = handler.current[f]

HistoryInv == PathInv /\ BlobInv /\ RestoreInv

------------------------------------------------------------------------------
(* What Path says of a history. *)

\* The recursion over the chain has a solution: each hop goes to an earlier round.
LEMMA ChainsEquation ==
  ASSUME NEW h, Path(h, manifests)
  PROVE  \A i \in LinearIds(h) :
           Chains(h)[i] = IF Binds(manifests[i], RowOf(h, i))
                          THEN IF manifests[i].from = NoRound THEN {manifests[i]}
                               ELSE IF manifests[i].from < i THEN Chains(h)[manifests[i].from] ELSE {}
                          ELSE {}
<1> DEFINE Step(g, i) == IF i \in LinearIds(h) /\ Binds(manifests[i], RowOf(h, i))
                         THEN IF manifests[i].from = NoRound THEN {manifests[i]}
                              ELSE IF manifests[i].from < i THEN g[manifests[i].from] ELSE {}
                         ELSE {}
           P == {m \in 0..MaxId : \E g : g = [i \in 0..m |-> Step(g, i)]}
<1>0. MaxId \in Nat
  BY HistoryAssumption
<1>1. LinearIds(h) \subseteq 1..MaxId
  BY DEF LinearIds, Path, Ids
<1>2. \A i \in LinearIds(h) : manifests[i].from \in 0..(i - 1)
  <2>1. ASSUME NEW r \in RowsOf(h) PROVE manifests[r.id].from \in 0..(r.id - 1)
    BY <1>0, <2>1 DEF Path, Ids
  <2> QED
    BY <2>1 DEF LinearIds
<1>3. 0 \in P
  <2> DEFINE g == [i \in 0..0 |-> {}]
  <2>1. ASSUME NEW i \in 0..0 PROVE Step(g, i) = {}
    BY <1>1
  <2>2. g = [i \in 0..0 |-> Step(g, i)]
    BY <2>1
  <2> HIDE DEF g, Step
  <2> QED
    BY <1>0, <2>2
<1>4. ASSUME NEW m \in 1..MaxId, m - 1 \in P PROVE m \in P
  <2>1. PICK g : g = [i \in 0..(m - 1) |-> Step(g, i)]
    BY <1>4
  <2> DEFINE f == [i \in 0..m |-> IF i = m THEN Step(g, m) ELSE g[i]]
  <2> HIDE DEF Step
  <2>2. \A i \in 0..(m - 1) : g[i] = Step(g, i)
    BY <2>1, Zenon
  <2>3. /\ \A i \in 0..(m - 1) : f[i] = g[i]
        /\ m \in 0..m /\ f[m] = Step(g, m)
    BY <1>0
  <2>4. ASSUME NEW i \in 0..m PROVE f[i] = Step(f, i)
    <3>1. i \in 0..(m - 1) \/ i = m
      BY <1>0
    <3>2. f[i] = Step(g, i)
      BY <2>2, <2>3, <3>1, Zenon
    <3> HIDE DEF f
    <3>3. CASE i \notin LinearIds(h)
      BY <3>2, <3>3, Zenon DEF Step
    <3>4. CASE i \in LinearIds(h)
      <4>1. manifests[i].from \in 0..(m - 1)
        <5>1. manifests[i].from \in 0..(i - 1)
          BY <1>2, <3>4
        <5> QED
          BY <1>0, <5>1
      <4>2. f[manifests[i].from] = g[manifests[i].from]
        BY <2>3, <4>1
      <4> QED
        BY <3>2, <4>2, Zenon DEF Step
    <3> QED
      BY <3>3, <3>4
  <2>5. f = [i \in 0..m |-> f[i]]
    OBVIOUS
  <2> HIDE DEF f
  <2>6. f = [i \in 0..m |-> Step(f, i)]
    BY <2>4, <2>5
  <2> QED
    BY <1>0, <2>6
<1> HIDE DEF P
<1>5. MaxId \in P
  BY <1>0, <1>3, <1>4, Climb
<1>6. \E g : g = [i \in 0..MaxId |-> Step(g, i)]
  BY <1>5 DEF P
<1>7. Chains(h) = [i \in 0..MaxId |-> Step(Chains(h), i)]
  BY <1>6 DEF Chains
<1>8. \A i \in LinearIds(h) : Chains(h)[i] = Step(Chains(h), i)
  <2> HIDE DEF Step
  <2> DEFINE c == Chains(h)
  <2>1. c = [i \in 0..MaxId |-> Step(c, i)]
    BY <1>7
  <2> HIDE DEF c
  <2>2. \A i \in 0..MaxId : c[i] = Step(c, i)
    BY <2>1, Zenon
  <2>3. LinearIds(h) \subseteq 0..MaxId
    BY <1>0, <1>1
  <2> QED
    BY <2>2, <2>3 DEF c
<1> QED
  BY <1>8, Zenon

\* The rows of a path are told apart by their ids, and stand in the order of their ids.
LEMMA PathRows ==
  ASSUME NEW h, NEW written, Shaped(h), Path(h, written), NEW r \in RowsOf(h)
  PROVE  /\ r.id \in LinearIds(h) /\ RowOf(h, r.id) = r
         /\ \A s \in RowsOf(h) : s.id = r.id => s = r
         /\ Position(h, r.id) \in DOMAIN h.rows /\ h.rows[Position(h, r.id)] = r
         /\ \A s \in RowsOf(h) : s.id < r.id => Position(h, s.id) < Position(h, r.id)
<1>1. \A i, j \in DOMAIN h.rows : i \in Nat /\ j \in Nat /\ h.rows[i].id \in Nat
  <2>1. h.rows \in Seq({h.rows[i] : i \in DOMAIN h.rows})
    BY DEF Shaped, Sequence
  <2>2. DOMAIN h.rows \subseteq Nat
    BY <2>1
  <2> QED
    BY <2>2, HistoryAssumption DEF Path, RowsOf, Ids
<1>2. \A i, j \in DOMAIN h.rows : h.rows[i].id = h.rows[j].id => i = j
  BY <1>1 DEF Path
<1>3. \A s, t \in RowsOf(h) : s.id = t.id => s = t
  BY <1>2 DEF RowsOf
<1>4. ASSUME NEW s \in RowsOf(h)
      PROVE  Position(h, s.id) \in DOMAIN h.rows /\ h.rows[Position(h, s.id)] = s
  <2>1. \E i \in DOMAIN h.rows : h.rows[i].id = s.id
    BY DEF RowsOf
  <2>2. Position(h, s.id) \in DOMAIN h.rows /\ h.rows[Position(h, s.id)].id = s.id
    BY <2>1 DEF Position
  <2> QED
    BY <1>3, <2>2 DEF RowsOf
<1>5. ASSUME NEW s \in RowsOf(h), s.id < r.id
      PROVE  Position(h, s.id) < Position(h, r.id)
  <2>1. PICK i \in DOMAIN h.rows : i = Position(h, s.id) /\ h.rows[i] = s
    BY <1>4
  <2>2. PICK j \in DOMAIN h.rows : j = Position(h, r.id) /\ h.rows[j] = r
    BY <1>4
  <2>3. i < j
    BY <1>1, <1>5, <2>1, <2>2 DEF Path
  <2> QED
    BY <2>1, <2>2, <2>3
<1>6. r.id \in LinearIds(h)
  BY DEF LinearIds
<1>7. RowOf(h, r.id) = r
  BY <1>3 DEF RowOf
<1> QED
  BY <1>3, <1>4, <1>5, <1>6, <1>7

\* On a path every row resolves, to its own maps, by way of its root.
LEMMA PathResolves ==
  ASSUME NEW h, Shaped(h), Path(h, manifests), NEW r \in RowsOf(h)
  PROVE  OnDisk(h, r) = {MapsOf(r)}
<1>1. PICK s \in RowsOf(h) : IsRoot(s, r)
  BY DEF Path
<1>2. /\ s.id \in LinearIds(h) /\ RowOf(h, s.id) = s /\ manifests[s.id] = s
      /\ s.id = Source(r) /\ s.from = NoRound /\ s.hash = r.hash
  BY <1>1, PathRows DEF Path, IsRoot
<1>3. Binds(s, s)
  BY DEF Binds
<1>4. Chains(h)[Source(r)] = {s}
  <2>1. Chains(h)[s.id] = IF Binds(manifests[s.id], RowOf(h, s.id))
                          THEN IF manifests[s.id].from = NoRound THEN {manifests[s.id]}
                               ELSE IF manifests[s.id].from < s.id
                                    THEN Chains(h)[manifests[s.id].from] ELSE {}
                          ELSE {}
    BY <1>2, ChainsEquation, Zenon
  <2> QED
    BY <1>2, <1>3, <2>1, Zenon
<1>5. {m \in {s} : m.hash = r.hash} = {s}
  BY <1>2
<1> QED
  BY <1>2, <1>4, <1>5 DEF OnDisk, MapsOf

\* What the watcher resolves of a round, in memory or on disk.
LEMMA PathResolved ==
  ASSUME PathInv, NEW r \in RowsOf(hist)
  PROVE  Resolved(r.id) = {MapsOf(r)}
<1>0. Shaped(hist) /\ Path(hist, manifests)
  BY DEF PathInv, StoreInv
<1>1. OnDisk(hist, r) = {MapsOf(r)} /\ r.id # NoRound
  BY <1>0, PathResolves, HistoryAssumption DEF Path, Ids, NoRound
<1>2. CASE head_maps.id = r.id
  <2>1. \E s \in RowsOf(hist) : head_maps = MapsOf(s)
    BY <1>1, <1>2 DEF PathInv, NoMaps
  <2>2. head_maps = MapsOf(r)
    BY <1>0, <1>2, <2>1, PathRows DEF MapsOf
  <2> QED
    BY <1>1, <1>2, <2>2 DEF Resolved
<1>3. CASE head_maps.id # r.id
  <2>1. {s \in RowsOf(hist) : s.id = r.id} = {r}
    BY <1>0, PathRows
  <2> QED
    BY <1>1, <1>3, <2>1 DEF Resolved
<1> QED
  BY <1>2, <1>3

\* A round that is not on the path does not resolve.
LEMMA OffThePath ==
  ASSUME PathInv, NEW id, id \notin LinearIds(hist)
  PROVE  Resolved(id) = {}
<1>1. head_maps.id # id \/ id = NoRound
  BY DEF PathInv, NoMaps, MapsOf, LinearIds
<1>2. {s \in RowsOf(hist) : s.id = id} = {}
  BY DEF LinearIds
<1> QED
  BY <1>1, <1>2 DEF Resolved

\* Cutting the path behind its head leaves a path, with the head's row and all before it.
LEMMA BranchPath ==
  ASSUME NEW h, NEW written, Shaped(h), Path(h, written)
  PROVE  /\ Path(Branch(h), written)
         /\ Branch(h).head = h.head /\ Branch(h).next = h.next
         /\ RowsOf(Branch(h)) \subseteq RowsOf(h)
         /\ \A r \in RowsOf(h) : (h.head \in LinearIds(h) => r.id <= h.head)
                                    => r \in RowsOf(Branch(h))
<1> DEFINE m == Position(h, h.head)
           front == SubSeq(h.rows, 1, m)
           back  == SubSeq(h.rows, m + 1, Len(h.rows))
<1>0. \A r \in RowsOf(h) : r.id \in Nat
  BY HistoryAssumption DEF Path, Ids
<1>1. CASE h.head \in LinearIds(h) /\ m < Len(h.rows)
  <2>1. PICK top \in RowsOf(h) : top.id = h.head
    BY <1>1 DEF LinearIds
  <2>2. m \in DOMAIN h.rows /\ h.rows[m] = top
    BY <2>1, PathRows
  <2>3. h.rows \in Seq({h.rows[i] : i \in DOMAIN h.rows})
    BY DEF Shaped, Sequence
  <2>4. /\ Branch(h).rows = front /\ Branch(h).head = h.head /\ Branch(h).next = h.next
    <3>1. Branch(h) = [h EXCEPT !.rows = front, !.abandoned = Append(@, back)]
      BY <1>1 DEF Branch
    <3> HIDE DEF m, front, back
    <3> QED
      BY <3>1 DEF Shaped
  <2> HIDE DEF m
  <2>5. /\ m \in Nat /\ DOMAIN front = 1..m /\ 1..m \subseteq DOMAIN h.rows
        /\ \A i \in 1..m : front[i] = h.rows[i]
        /\ DOMAIN h.rows \subseteq Nat /\ \A i \in DOMAIN h.rows : i >= 1
    <3> DEFINE S == {h.rows[i] : i \in DOMAIN h.rows}
    <3>1. h.rows \in Seq(S)
      BY <2>3
    <3> HIDE DEF S
    <3> QED
      BY <2>2, <3>1
  <2> HIDE DEF front
  <2>6. RowsOf(Branch(h)) = {h.rows[i] : i \in 1..m}
    BY <2>4, <2>5 DEF RowsOf
  <2>7. \A r \in RowsOf(h) : r \in RowsOf(Branch(h)) <=> r.id <= h.head
    <3> SUFFICES ASSUME NEW i \in DOMAIN h.rows
                 PROVE  h.rows[i] \in RowsOf(Branch(h)) <=> h.rows[i].id <= h.head
      BY DEF RowsOf
    <3>1. h.rows[i] \in RowsOf(h)
      BY DEF RowsOf
    <3>2. CASE i <= m
      <4>1. i \in 1..m
        BY <2>5, <3>2
      <4>2. i < m => h.rows[i].id < h.rows[m].id
        BY <2>2 DEF Path
      <4> QED
        BY <1>0, <2>1, <2>2, <2>5, <2>6, <3>1, <3>2, <4>1, <4>2
    <3>3. CASE m < i
      <4>1. h.rows[m].id < h.rows[i].id
        BY <2>2, <3>3 DEF Path
      <4>2. \A j \in 1..m : h.rows[j] # h.rows[i]
        <5> TAKE j \in 1..m
        <5>1. j < i /\ j \in DOMAIN h.rows
          BY <2>5, <3>3
        <5>2. h.rows[j].id < h.rows[i].id /\ h.rows[j] \in RowsOf(h)
          BY <5>1 DEF Path, RowsOf
        <5> QED
          BY <1>0, <3>1, <5>2
      <4> QED
        BY <1>0, <2>1, <2>2, <2>6, <3>1, <4>1, <4>2
    <3> QED
      BY <2>2, <2>5, <3>2, <3>3
  <2>8. RowsOf(Branch(h)) \subseteq RowsOf(h)
    BY <2>5, <2>6 DEF RowsOf
  <2>9. \A r \in RowsOf(Branch(h)) : \E s \in RowsOf(Branch(h)) : IsRoot(s, r)
    <3> TAKE r \in RowsOf(Branch(h))
    <3>1. PICK s \in RowsOf(h) : IsRoot(s, r)
      BY <2>8 DEF Path
    <3>2. s.id <= h.head
      BY <1>0, <2>1, <2>7, <2>8, <3>1 DEF IsRoot
    <3> QED
      BY <2>7, <3>1, <3>2
  <2>10. Path(Branch(h), written)
    BY <2>4, <2>5, <2>8, <2>9 DEF Path
  <2> QED
    BY <1>1, <2>4, <2>7, <2>8, <2>10
<1>2. CASE h.head \in LinearIds(h) /\ ~(m < Len(h.rows))
  BY <1>2 DEF Branch
<1>3. CASE h.head \notin LinearIds(h)
  BY <1>3 DEF Branch
<1> QED
  BY <1>1, <1>2, <1>3

\* A history with the same rows and a later next id is the same path.
LEMMA SamePath ==
  ASSUME NEW h, NEW k, NEW written, Path(h, written), k.rows = h.rows, k.next \in Nat,
         k.next >= h.next
  PROVE  Path(k, written) /\ RowsOf(k) = RowsOf(h) /\ LinearIds(k) = LinearIds(h)
<1>0. RowsOf(k) = RowsOf(h)
  BY DEF RowsOf
<1>1. \A r \in RowsOf(h) : r.id < k.next
  BY HistoryAssumption DEF Path, Ids
<1> QED
  BY <1>0, <1>1 DEF Path, LinearIds

------------------------------------------------------------------------------
(* The steps keep the path. *)

\* The row of a new round refers to a row that stays when the tail is cut off.
LEMMA RecordKeepsPath ==
  ASSUME PathInv, StoreInv', NEW note, BeginRecord(note)
  PROVE  PathInv'
<1> DEFINE b == Branch(hist)
<1>0. /\ Shaped(hist) /\ Path(hist, manifests) /\ Path(index, manifests)
      /\ MaxId \in Nat
  BY HistoryAssumption DEF PathInv, StoreInv
<1>1. /\ Path(b, manifests) /\ b.head = hist.head /\ b.next = hist.next
      /\ RowsOf(b) \subseteq RowsOf(hist)
      /\ \A r \in RowsOf(hist) : (hist.head \in LinearIds(hist) => r.id <= hist.head)
                                    => r \in RowsOf(b)
  BY <1>0, BranchPath
<1>2. Shaped(b)
  BY <1>0, BranchKeeps
<1>3. /\ hist' = [b EXCEPT !.next = @ + 1]
      /\ handler' = [pc |-> "manifest",
                     row |-> [id |-> hist.next, parent |-> hist.head,
                              from |-> MapsFrom(Resolved(hist.head)), hash |-> tree,
                              note |-> note]]
      /\ UNCHANGED <<manifests, index, up, head_maps, world>> /\ up /\ handler = Idle
      /\ hist.next \in Ids
  BY DEF BeginRecord, Free
<1> HIDE DEF b
<1>4. /\ hist'.rows = b.rows /\ hist'.next = hist.next + 1 /\ hist'.head = hist.head
  BY <1>1, <1>2, <1>3 DEF Shaped
<1>5. Path(hist', manifests) /\ RowsOf(hist') = RowsOf(b)
  <2>1. hist.next \in Nat
    BY <1>0 DEF Path
  <2> QED
    BY <1>1, <1>4, <2>1, SamePath
<1>6. index.next <= hist.next /\ index.next \in Nat
  BY <1>0, <1>3 DEF PathInv, Path
<1>7. \/ head_maps = NoMaps
      \/ \E r \in RowsOf(hist') : r.id = hist.head /\ head_maps = MapsOf(r)
  <2>1. CASE head_maps = NoMaps
    BY <2>1
  <2>2. CASE head_maps # NoMaps
    <3>1. PICK r \in RowsOf(hist) : r.id = hist.head /\ head_maps = MapsOf(r)
      BY <2>2 DEF PathInv
    <3>2. r.id <= hist.head
      BY <1>0, <3>1 DEF Path, Ids
    <3> QED
      BY <1>1, <1>5, <3>1, <3>2
  <2> QED
    BY <2>1, <2>2
<1>8. NextRow(handler.row)'
  <2> DEFINE from == MapsFrom(Resolved(hist.head))
  <2>1. /\ from \in Nat
        /\ from # NoRound =>
              \E s \in RowsOf(hist') : s.id = from /\ s.from = NoRound /\ s.hash = tree
    <3>1. CASE hist.head \in LinearIds(hist)
      <4>1. PICK r \in RowsOf(hist) : r.id = hist.head
        BY <3>1 DEF LinearIds
      <4>2. Resolved(hist.head) = {MapsOf(r)}
        BY <4>1, PathResolved
      <4>3. from = IF r.hash = tree THEN Source(r) ELSE NoRound
        <5>1. /\ (\E p \in {MapsOf(r)} : p.maps = tree) <=> r.hash = tree
              /\ (CHOOSE p \in {MapsOf(r)} : TRUE) = MapsOf(r)
              /\ MapsOf(r).source = Source(r)
          BY DEF MapsOf
        <5> QED
          BY <4>2, <5>1 DEF MapsFrom
      <4>4. PICK s \in RowsOf(hist) : IsRoot(s, r)
        BY <1>0 DEF Path
      <4>5. s \in RowsOf(hist') /\ s.id \in Nat
        BY <1>0, <1>1, <1>5, <4>1, <4>4 DEF IsRoot, Path, Ids
      <4> QED
        BY <4>3, <4>4, <4>5 DEF IsRoot, NoRound
    <3>2. CASE hist.head \notin LinearIds(hist)
      <4>1. Resolved(hist.head) = {}
        BY <3>2, OffThePath
      <4>2. from = NoRound
        BY <4>1 DEF MapsFrom
      <4> QED
        BY <4>2 DEF NoRound
    <3> QED
      BY <3>1, <3>2
  <2> HIDE DEF from
  <2>2. PICK row : row = [id |-> hist.next, parent |-> hist.head, from |-> from, hash |-> tree,
                          note |-> note]
    OBVIOUS
  <2>3. handler'.row = row
    BY <1>3, <2>2 DEF from
  <2>4. \A r \in RowsOf(hist') : r.id < row.id
    BY <1>1, <1>5, <2>2 DEF Path
  <2>5. row.id = hist.next /\ row.from = from /\ row.hash = tree /\ row.id \in Nat
    BY <1>0, <1>3, <2>2 DEF Ids
  <2> QED
    BY <1>3, <1>4, <1>6, <2>1, <2>3, <2>4, <2>5 DEF NextRow
<1> QED
  BY <1>0, <1>3, <1>4, <1>5, <1>6, <1>7, <1>8 DEF PathInv, Path

\* The new row comes last, after the rows it may refer to; no older manifest changes.
LEMMA WrittenKeepsPath ==
  ASSUME PathInv, StoreInv', WriteManifest
  PROVE  PathInv'
<1>0. /\ Shaped(hist) /\ Path(hist, manifests) /\ Path(index, manifests)
      /\ MaxId \in Nat /\ NextRow(handler.row) /\ handler.pc = "manifest"
      /\ manifests = [i \in Ids |-> manifests[i]] /\ up
  BY HistoryAssumption DEF PathInv, StoreInv, WriteManifest, Idle
<1> PICK row : row = handler.row
  OBVIOUS
<1>1. /\ hist' = [hist EXCEPT !.rows = Append(@, row), !.head = row.id]
      /\ manifests' = [manifests EXCEPT ![row.id] = row]
      /\ head_maps' = MapsOf(row) /\ handler'.pc = "index"
      /\ UNCHANGED <<index, up, world>>
  BY DEF WriteManifest, MapsOf
<1>2. /\ row.id \in Ids /\ row.id \in Nat /\ row.id + 1 = hist.next /\ index.next <= row.id
      /\ row.from \in Nat
      /\ \A r \in RowsOf(hist) : r.id < row.id
      /\ row.from # NoRound =>
            \E s \in RowsOf(hist) : s.id = row.from /\ s.from = NoRound /\ s.hash = row.hash
  BY <1>0 DEF NextRow, Ids
<1>3. /\ hist'.rows = Append(hist.rows, row) /\ hist'.head = row.id /\ hist'.next = hist.next
  BY <1>0, <1>1 DEF Shaped
<1>4. /\ manifests' = [i \in Ids |-> manifests'[i]] /\ manifests'[row.id] = row
      /\ \A i \in Ids : i # row.id => manifests'[i] = manifests[i]
  BY <1>0, <1>1, <1>2
<1>5. /\ \A i, j \in DOMAIN hist'.rows : i < j => hist'.rows[i].id < hist'.rows[j].id
      /\ RowsOf(hist') = RowsOf(hist) \cup {row}
  <2> DEFINE S == {hist.rows[i] : i \in DOMAIN hist.rows}
  <2>1. hist.rows \in Seq(S)
    BY <1>0 DEF Shaped, Sequence
  <2>2. \A i \in DOMAIN hist.rows : hist.rows[i] \in RowsOf(hist)
    BY DEF RowsOf
  <2> HIDE DEF S
  <2>3. PICK n \in Nat : /\ DOMAIN hist.rows = 1..n /\ DOMAIN hist'.rows = 1..(n + 1)
                         /\ \A i \in 1..n : hist'.rows[i] = hist.rows[i]
                         /\ hist'.rows[n + 1] = row
    BY <1>3, <2>1
  <2>4. \A i, j \in DOMAIN hist'.rows : i < j => hist'.rows[i].id < hist'.rows[j].id
    <3> SUFFICES ASSUME NEW i \in 1..(n + 1), NEW j \in 1..(n + 1), i < j
                 PROVE  hist'.rows[i].id < hist'.rows[j].id
      BY <2>3
    <3>1. i \in 1..n /\ hist'.rows[i] = hist.rows[i] /\ hist.rows[i] \in RowsOf(hist)
      BY <2>2, <2>3
    <3>2. CASE j = n + 1
      BY <1>2, <2>3, <3>1, <3>2
    <3>3. CASE j # n + 1
      <4>1. j \in 1..n
        BY <3>3
      <4>2. hist.rows[i].id < hist.rows[j].id
        BY <1>0, <2>3, <3>1, <4>1 DEF Path
      <4> QED
        BY <2>3, <3>1, <4>1, <4>2
    <3> QED
      BY <3>2, <3>3
  <2>5. RowsOf(hist') = RowsOf(hist) \cup {row}
    BY <2>3 DEF RowsOf
  <2> QED
    BY <2>4, <2>5
<1>6. \E s \in RowsOf(hist') : IsRoot(s, row)
  <2>1. CASE row.from = NoRound
    BY <1>2, <1>5, <2>1 DEF IsRoot, Source
  <2>2. CASE row.from # NoRound
    <3>1. PICK s \in RowsOf(hist) : s.id = row.from /\ s.from = NoRound /\ s.hash = row.hash
      BY <1>2, <2>2
    <3>2. s.id <= row.id
      BY <1>0, <1>2, <3>1 DEF Path, Ids
    <3> QED
      BY <1>5, <2>2, <3>1, <3>2 DEF IsRoot, Source
  <2> QED
    BY <2>1, <2>2
<1>7. row.from < row.id
  <2>1. \A s \in RowsOf(hist) : s.id < row.id
    BY <1>2
  <2> QED
    BY <1>2, <2>1 DEF NoRound, Ids
<1>8. Path(hist', manifests')
  <2>1. \A r \in RowsOf(hist) : r.id \in Ids /\ r.id # row.id
    BY <1>0, <1>2 DEF Path, Ids
  <2> QED
    BY <1>0, <1>2, <1>3, <1>4, <1>5, <1>6, <1>7, <2>1 DEF Path
<1>9. Path(index, manifests')
  <2>1. \A r \in RowsOf(index) : r.id \in Ids /\ r.id # row.id
    BY <1>0, <1>2 DEF Path, Ids
  <2> QED
    BY <1>0, <1>4, <2>1 DEF Path
<1>10. \E r \in RowsOf(hist') : r.id = hist'.head /\ head_maps' = MapsOf(r)
  BY <1>1, <1>3, <1>5
<1> QED
  BY <1>0, <1>1, <1>3, <1>4, <1>8, <1>9, <1>10 DEF PathInv

\* A step that leaves the rows and the manifests alone keeps the path.
LEMMA PathStays ==
  ASSUME PathInv, StoreInv', up, up',
         hist'.rows = hist.rows, hist'.next = hist.next, index' \in {index, hist},
         UNCHANGED <<manifests, world>>,
         \/ hist'.head = hist.head /\ UNCHANGED head_maps
         \/ \E r \in RowsOf(hist) : hist'.head = r.id /\ head_maps' = MapsOf(r),
         handler'.pc # "manifest"
  PROVE  PathInv'
<1>1. Path(hist, manifests) /\ Path(index, manifests) /\ hist.next \in Nat
  BY DEF PathInv, Path
<1>2. Path(hist', manifests) /\ RowsOf(hist') = RowsOf(hist)
  BY <1>1, SamePath
<1>3. Path(index', manifests) /\ index'.next <= hist'.next
  BY <1>1 DEF PathInv
<1>4. \/ head_maps' = NoMaps
      \/ \E r \in RowsOf(hist') : r.id = hist'.head /\ head_maps' = MapsOf(r)
  BY <1>2 DEF PathInv
<1> QED
  BY <1>2, <1>3, <1>4 DEF PathInv

\* The other steps of a handler.
LEMMA HandlersKeepPath ==
  ASSUME PathInv, StoreInv',
         \/ PersistHistory \/ WriteFails \/ UnderCap \/ DropOldestBranch \/ PruneAbandoned
         \/ RestoreInv /\ Settle
         \/ \E id \in LinearIds(hist) : BeginRestore(id)
         \/ \E f \in Files : RestoreFile(f)
  PROVE  PathInv'
<1>0. Shaped(hist) /\ (~up => handler = Idle)
  BY DEF PathInv, StoreInv
<1>1. CASE PersistHistory
  <2>1. /\ up /\ up' /\ hist' = hist /\ index' = hist /\ handler'.pc # "manifest"
        /\ UNCHANGED <<manifests, head_maps, world>>
    BY <1>0, <1>1 DEF PersistHistory, memoryVars, Idle
  <2> QED
    BY <2>1, PathStays
<1>2. CASE WriteFails \/ UnderCap
  <2>1. /\ up /\ up' /\ handler'.pc # "manifest"
        /\ UNCHANGED <<hist, index, manifests, head_maps, world>>
    BY <1>0, <1>2 DEF WriteFails, UnderCap, memoryVars, diskVars, Idle
  <2> QED
    BY <2>1, PathStays
<1>3. CASE DropOldestBranch \/ PruneAbandoned
  <2>1. /\ up /\ up' /\ handler'.pc # "manifest"
        /\ \E left : hist' = [hist EXCEPT !.abandoned = left]
        /\ UNCHANGED <<index, manifests, head_maps, world>>
    BY <1>0, <1>3 DEF DropOldestBranch, PruneAbandoned, Collect, Free, Idle
  <2>2. hist'.rows = hist.rows /\ hist'.next = hist.next /\ hist'.head = hist.head
    BY <1>0, <2>1 DEF Shaped
  <2> QED
    BY <2>1, <2>2, PathStays
<1>4. CASE RestoreInv /\ Settle
  <2>1. /\ up /\ up' /\ handler'.pc # "manifest" /\ handler.pc = "restore"
        /\ hist' = [hist EXCEPT !.head = handler.target.id]
        /\ head_maps' = handler.target
        /\ UNCHANGED <<index, manifests, world>>
    BY <1>0, <1>4 DEF Settle, diskVars, Idle
  <2>2. /\ hist'.rows = hist.rows /\ hist'.next = hist.next /\ hist'.head = handler.target.id
    BY <1>0, <2>1 DEF Shaped
  <2>3. \E r \in RowsOf(hist) : hist'.head = r.id /\ head_maps' = MapsOf(r)
    BY <1>4, <2>1, <2>2 DEF RestoreInv, MapsOf
  <2> QED
    BY <2>1, <2>2, <2>3, PathStays
<1>5. CASE \E id \in LinearIds(hist) : BeginRestore(id)
  <2>1. /\ up /\ up' /\ handler'.pc # "manifest"
        /\ UNCHANGED <<hist, index, manifests, head_maps, world>>
    BY <1>5 DEF BeginRestore, Free, memoryVars, diskVars
  <2> QED
    BY <2>1, PathStays
<1>6. ASSUME NEW f \in Files, RestoreFile(f)
      PROVE  PathInv'
  <2>1. /\ up /\ up' /\ handler.pc = "restore"
        /\ handler' = [handler EXCEPT !.left = @ \ {f}]
        /\ UNCHANGED <<hist, index, manifests, head_maps, world>>
    BY <1>0, <1>6 DEF RestoreFile, diskVars, Idle
  <2>2. handler'.pc # "manifest"
    BY <2>1
  <2> QED
    BY <2>1, <2>2, PathStays
<1> QED
  BY <1>1, <1>2, <1>3, <1>4, <1>5, <1>6

\* An edit of the tree, a crash and a boot keep what is on disk, and the crash forgets
\* the rest.
LEMMA OthersKeepPath ==
  ASSUME PathInv, StoreInv',
         \/ \E f \in Files, c \in Contents \cup {Absent} : Work(f, c)
         \/ Crash \/ Boot \/ UNCHANGED storeVars
  PROVE  PathInv'
<1>0. Path(hist, manifests) /\ Path(index, manifests) /\ (~up => handler = Idle)
  BY DEF PathInv, StoreInv
<1>1. ASSUME UNCHANGED <<hist, index, manifests, head_maps, up, world>>,
             handler'.pc = handler.pc, handler.pc = "manifest" => handler' = handler
      PROVE  PathInv'
  BY <1>1 DEF PathInv, NextRow
<1>2. CASE \E f \in Files, c \in Contents \cup {Absent} : Work(f, c)
  BY <1>1, <1>2 DEF Work, diskVars, memoryVars
<1>3. CASE UNCHANGED storeVars
  BY <1>1, <1>3 DEF storeVars, diskVars, memoryVars
<1>4. CASE Crash
  <2>1. /\ hist' = EmptyHistory /\ head_maps' = NoMaps /\ handler' = Idle /\ ~up'
        /\ "crash" \in world'.faults
        /\ UNCHANGED <<index, manifests>>
    BY <1>4 DEF Crash, diskVars
  <2>2. Path(EmptyHistory, manifests)
    BY DEF Path, EmptyHistory, RowsOf
  <2> QED
    BY <1>0, <2>1, <2>2 DEF PathInv, Idle
<1>5. CASE Boot
  <2>1. /\ hist' = index /\ up' /\ head_maps = NoMaps /\ handler = Idle
        /\ UNCHANGED <<index, manifests, head_maps, handler, world>>
    BY <1>0, <1>5 DEF Boot, diskVars, PathInv
  <2>2. index.next \in Nat
    BY <1>0 DEF Path
  <2> QED
    BY <1>0, <2>1, <2>2 DEF PathInv, Idle
<1> QED
  BY <1>2, <1>3, <1>4, <1>5

------------------------------------------------------------------------------
(* The steps of a restore. *)

\* No handler but the restore's own writes the tree or the blobs while it runs.
LEMMA RestoreKeeps ==
  ASSUME PathInv, RestoreInv, StoreAction \/ UNCHANGED storeVars
  PROVE  RestoreInv'
<1>0. /\ tree = [f \in Files |-> tree[f]] /\ (~up => handler = Idle)
  BY DEF PathInv, StoreInv, RestoreInv
<1>1. CASE \/ BeginRecord(Head(completed)) \/ WriteManifest \/ PersistHistory \/ WriteFails
           \/ UnderCap \/ DropOldestBranch \/ PruneAbandoned \/ Settle \/ Crash
  <2>1. handler'.pc # "restore" /\ UNCHANGED tree
    BY <1>1 DEF BeginRecord, WriteManifest, PersistHistory, WriteFails, UnderCap,
                DropOldestBranch, PruneAbandoned, Settle, Crash, Idle
  <2> QED
    BY <1>0, <2>1 DEF RestoreInv
<1>2. CASE Boot
  <2>1. handler = Idle /\ UNCHANGED <<tree, handler>>
    BY <1>0, <1>2 DEF Boot
  <2> QED
    BY <1>0, <2>1 DEF RestoreInv, Idle
<1>3. ASSUME NEW id \in LinearIds(hist), BeginRestore(id)
      PROVE  RestoreInv'
  <2>1. PICK r \in RowsOf(hist) : r.id = id
    BY DEF LinearIds
  <2>2. Resolved(id) = {MapsOf(r)}
    BY <2>1, PathResolved
  <2> PICK p : p = MapsOf(r)
    OBVIOUS
  <2>3. /\ handler' = [pc |-> "restore", target |-> p, current |-> tree, left |-> Files,
                       disturbed |-> FALSE]
        /\ UNCHANGED <<tree, hist, objects>>
    BY <1>3, <2>2 DEF BeginRestore, memoryVars, diskVars
  <2>4. /\ handler'.target = p /\ handler'.current = tree /\ handler'.left = Files
        /\ handler'.disturbed = FALSE
    BY <2>3
  <2> QED
    BY <1>0, <2>3, <2>4 DEF RestoreInv
<1>4. ASSUME NEW g \in Files, RestoreFile(g)
      PROVE  RestoreInv'
  <2>0. handler.pc = "restore"
    BY <1>4 DEF RestoreFile
  <2> DEFINE target == handler.target.maps[g]
  <2>1. /\ handler' = [handler EXCEPT !.left = @ \ {g}] /\ g \in handler.left
        /\ UNCHANGED <<hist, objects, world>>
        /\ \/ handler.current[g] = target /\ UNCHANGED tree
           \/ tree' = [tree EXCEPT ![g] = target]
           \/ PassedOver(g) /\ UNCHANGED tree
    BY <1>4 DEF RestoreFile, diskVars, PassedOver
  <2>2. /\ handler'.pc = "restore" /\ handler'.target = handler.target
        /\ handler'.current = handler.current /\ handler'.left = handler.left \ {g}
        /\ handler'.disturbed = handler.disturbed
        /\ handler' = [pc |-> "restore", target |-> handler'.target,
                       current |-> handler'.current, left |-> handler'.left,
                       disturbed |-> handler'.disturbed]
    BY <2>0, <2>1 DEF RestoreInv
  <2> HIDE DEF target
  <2>3. /\ tree' = [f \in Files |-> tree'[f]]
        /\ \A f \in Files \ {g} : tree'[f] = tree[f]
        /\ tree'[g] \in {tree[g], target}
        /\ \/ handler.current[g] = target /\ tree'[g] = tree[g]
           \/ tree'[g] = target
           \/ PassedOver(g) /\ tree'[g] = tree[g]
    BY <1>0, <2>1
  <2>p. \A f \in Files : PassedOver(f)' = PassedOver(f)
    BY <2>1, <2>2 DEF PassedOver
  <2>4. ASSUME ~handler.disturbed, NEW f \in Files
        PROVE  /\ f \in handler'.left => tree'[f] = handler'.current[f]
               /\ f \notin handler'.left =>
                     \/ tree'[f] = handler'.target.maps[f]
                     \/ PassedOver(f)' /\ tree'[f] = handler'.current[f]
    <3>1. /\ f \in handler.left => tree[f] = handler.current[f]
          /\ f \notin handler.left => \/ tree[f] = handler.target.maps[f]
                                      \/ PassedOver(f) /\ tree[f] = handler.current[f]
      BY <2>0, <2>4 DEF RestoreInv
    <3>2. CASE f = g
      BY <2>1, <2>2, <2>3, <2>p, <3>1, <3>2 DEF target
    <3>3. CASE f # g
      BY <2>2, <2>3, <2>p, <3>1, <3>3
    <3> QED
      BY <3>2, <3>3
  <2>5. \E r \in RowsOf(hist') : handler'.target = MapsOf(r)
    BY <2>0, <2>1, <2>2 DEF RestoreInv
  <2> QED
    BY <2>1, <2>2, <2>3, <2>4, <2>5 DEF RestoreInv
<1>5. ASSUME NEW g \in Files, NEW c \in Contents \cup {Absent}, Work(g, c)
      PROVE  RestoreInv'
  <2>1. /\ tree' = [tree EXCEPT ![g] = c] /\ UNCHANGED <<hist, objects>>
        /\ handler' = IF handler.pc = "restore" THEN [handler EXCEPT !.disturbed = TRUE]
                      ELSE handler
    BY <1>5 DEF Work, diskVars, memoryVars
  <2>2. tree' = [f \in Files |-> tree'[f]]
    BY <1>0, <2>1
  <2>3. CASE handler.pc = "restore"
    <3>1. /\ handler' = [pc |-> "restore", target |-> handler.target,
                         current |-> handler.current, left |-> handler.left,
                         disturbed |-> TRUE]
      BY <2>1, <2>3 DEF RestoreInv
    <3> QED
      BY <2>1, <2>2, <2>3, <3>1 DEF RestoreInv
  <2>4. CASE handler.pc # "restore"
    BY <2>1, <2>2, <2>4 DEF RestoreInv
  <2> QED
    BY <2>3, <2>4
<1>6. CASE UNCHANGED storeVars
  <2>1. UNCHANGED <<tree, handler, hist, objects, world>>
    BY <1>6 DEF storeVars, diskVars, memoryVars
  <2> QED
    BY <2>1 DEF RestoreInv, PassedOver
<1> QED
  BY <1>1, <1>2, <1>3, <1>4, <1>5, <1>6 DEF StoreAction

------------------------------------------------------------------------------
(* The blobs. *)

\* A collection spares every blob of the path whose sources it looked up.
LEMMA CollectionSpares ==
  ASSUME PathInv, NEW left, NEW r \in RowsOf(hist), BlobsOf(r.hash) \subseteq objects
  PROVE  BlobsOf(r.hash) \subseteq objects \ Orphans([hist EXCEPT !.abandoned = left])
<1> DEFINE h == [hist EXCEPT !.abandoned = left]
           sources == {Source(s) : s \in RowsOf(h)}
           maps == UNION {Resolved(s) : s \in sources}
<1>1. RowsOf(h) = RowsOf(hist) /\ Shaped(hist) /\ Path(hist, manifests)
  BY DEF RowsOf, PathInv, StoreInv, Shaped
<1>2. PICK s \in RowsOf(hist) : IsRoot(s, r)
  BY <1>1 DEF Path
<1>3. Source(r) \in sources /\ Source(r) = s.id
  BY <1>1, <1>2 DEF IsRoot
<1>4. Resolved(Source(r)) = {MapsOf(s)}
  BY <1>3, PathResolved
<1>5. MapsOf(s) \in maps /\ MapsOf(s).maps = r.hash
  BY <1>2, <1>3, <1>4 DEF MapsOf, IsRoot
<1>6. Orphans(h) = IF \E s_1 \in sources : Resolved(s_1) = {} THEN {}
                   ELSE objects \ (BlobsOf(baseline) \cup UNION {BlobsOf(p.maps) : p \in maps})
  BY DEF Orphans
<1> HIDE DEF h, sources, maps
<1>7. BlobsOf(r.hash) \in {BlobsOf(p.maps) : p \in maps}
  BY <1>5
<1>8. BlobsOf(r.hash) \subseteq objects \ Orphans(h)
  BY <1>6, <1>7
<1> QED
  BY <1>8 DEF h

\* Stores only grow, except for the collections.
LEMMA BlobsKeep ==
  ASSUME PathInv, PathInv', BlobInv, ~({"write", "crash"} \subseteq world.faults),
         StoreAction \/ UNCHANGED storeVars
  PROVE  BlobInv'
<1>0. StoreInv /\ ObjectIndexIsHonest /\ (~up => handler = Idle /\ "crash" \in world.faults)
  BY DEF PathInv, StoreInv
<1> SUFFICES ASSUME "blob" \notin world'.faults
             PROVE  /\ up' => Stored(hist', objects')
                    /\ "write" \notin world'.faults => Stored(index', objects')
                    /\ handler'.pc = "manifest" => BlobsOf(handler'.row.hash) \subseteq objects'
  BY DEF BlobInv
<1>w. UNCHANGED world
  BY DEF StoreAction, BeginRecord, WriteManifest, PersistHistory, WriteFails, UnderCap,
         DropOldestBranch, PruneAbandoned, BeginRestore, RestoreFile, Settle, Work, Crash, Boot,
         storeVars
<1>1. /\ up => Stored(hist, objects)
      /\ "write" \notin world.faults => Stored(index, objects)
      /\ handler.pc = "manifest" => BlobsOf(handler.row.hash) \subseteq objects
  BY <1>w DEF BlobInv
<1>2. CASE BeginRecord(Head(completed))
  <2>1. /\ \E failed \in SUBSET Unwritable : StoreObjects(failed)
        /\ hist' = [Branch(hist) EXCEPT !.next = @ + 1]
        /\ handler'.row.hash = tree /\ up /\ UNCHANGED index
    BY <1>2 DEF BeginRecord, Free
  <2>2. Unwritable = {}
    BY <1>w DEF Unwritable
  <2>3. objects' = objects \cup (BlobsOf(tree) \ object_index)
    BY <2>1, <2>2 DEF StoreObjects
  <2>4. objects \subseteq objects' /\ BlobsOf(tree) \subseteq objects'
    BY <1>0, <2>3 DEF ObjectIndexIsHonest
  <2>5. RowsOf(hist') \subseteq RowsOf(hist)
    <3> DEFINE b == Branch(hist)
    <3>1. Shaped(b) /\ RowsOf(b) \subseteq RowsOf(hist)
      BY BranchKeeps, BranchPath DEF PathInv, StoreInv
    <3>2. hist' = [b EXCEPT !.next = @ + 1]
      BY <2>1
    <3> HIDE DEF b
    <3>3. hist'.rows = b.rows
      BY <3>1, <3>2 DEF Shaped
    <3> QED
      BY <3>1, <3>3 DEF RowsOf
  <2> QED
    BY <1>w, <1>1, <2>1, <2>4, <2>5 DEF Stored
<1>3. CASE WriteManifest
  <2>1. /\ hist' = [hist EXCEPT !.rows = Append(@, handler.row), !.head = handler.row.id]
        /\ handler.pc = "manifest" /\ handler'.pc = "index" /\ up
        /\ UNCHANGED <<objects, index>>
    BY <1>0, <1>3 DEF WriteManifest, Idle
  <2>2. RowsOf(hist') \subseteq RowsOf(hist) \cup {handler.row}
    <3> PICK row : row = handler.row
      OBVIOUS
    <3> DEFINE S == {hist.rows[i] : i \in DOMAIN hist.rows}
    <3>1. hist.rows \in Seq(S) /\ hist'.rows = Append(hist.rows, row)
      BY <1>0, <2>1 DEF StoreInv, Shaped, Sequence
    <3>2. \A i \in DOMAIN hist.rows : hist.rows[i] \in RowsOf(hist)
      BY DEF RowsOf
    <3> HIDE DEF S
    <3>3. \A i \in DOMAIN hist'.rows : hist'.rows[i] \in RowsOf(hist) \cup {row}
      BY <3>1, <3>2
    <3> QED
      BY <3>3 DEF RowsOf
  <2> QED
    BY <1>w, <1>1, <2>1, <2>2 DEF Stored
<1>4. CASE PersistHistory
  <2>1. /\ index' = hist /\ up /\ handler'.pc # "manifest" /\ UNCHANGED <<hist, objects>>
    BY <1>0, <1>4 DEF PersistHistory, memoryVars, Idle
  <2> QED
    BY <1>1, <2>1
<1>5. CASE DropOldestBranch \/ PruneAbandoned
  <2>1. /\ \E left : Collect([hist EXCEPT !.abandoned = left])
        /\ handler.pc \in {"idle", "cap", "capped"} /\ handler'.pc # "manifest" /\ up
        /\ UNCHANGED index
    <3>1. CASE DropOldestBranch
      <4>1. Collect([hist EXCEPT !.abandoned = Tail(@)])
        BY <3>1 DEF DropOldestBranch
      <4>2. /\ handler.pc \in {"cap", "capped"} /\ handler'.pc = "capped"
            /\ UNCHANGED index
        BY <3>1 DEF DropOldestBranch
      <4>3. \E left : Collect([hist EXCEPT !.abandoned = left])
        BY <4>1, Zenon
      <4>4. up /\ handler'.pc # "manifest"
        BY <1>0, <4>2 DEF Idle
      <4> QED
        BY <4>2, <4>3, <4>4, Zenon
    <3>2. CASE PruneAbandoned
      <4>1. Collect([hist EXCEPT !.abandoned = <<>>])
        BY <3>2 DEF PruneAbandoned
      <4> QED
        BY <1>0, <3>2, <4>1 DEF PruneAbandoned, Free, Idle
    <3> QED
      BY <1>5, <3>1, <3>2
  <2>2. PICK left : Collect([hist EXCEPT !.abandoned = left])
    BY <2>1
  <2>3. /\ objects' = objects \ Orphans([hist EXCEPT !.abandoned = left])
        /\ RowsOf(hist') = RowsOf(hist)
    BY <1>0, <2>2 DEF Collect, RowsOf, StoreInv, Shaped
  <2>4. Stored(hist, objects')
    BY <1>1, <2>1, <2>3, CollectionSpares DEF Stored
  <2>5. "write" \notin world.faults => RowsOf(index) \subseteq RowsOf(hist)
    BY <1>0, <2>1 DEF StoreInv, Follows
  <2> QED
    BY <1>w, <2>1, <2>3, <2>4, <2>5 DEF Stored
<1>6. CASE \/ WriteFails \/ UnderCap \/ (\E id \in LinearIds(hist) : BeginRestore(id))
           \/ \E f \in Files : RestoreFile(f)
  <2>1. handler'.pc # "manifest" /\ UNCHANGED <<hist, index, objects, up>>
    <3>1. ASSUME NEW f \in Files, RestoreFile(f)
          PROVE  handler'.pc # "manifest" /\ UNCHANGED <<hist, index, objects, up>>
      <4>1. /\ handler.pc = "restore" /\ handler' = [handler EXCEPT !.left = @ \ {f}]
            /\ UNCHANGED <<hist, index, objects, up>>
        BY <3>1 DEF RestoreFile, diskVars
      <4> QED
        BY <4>1
    <3> QED
      BY <1>6, <3>1 DEF WriteFails, UnderCap, BeginRestore, memoryVars, diskVars, Idle
  <2> QED
    BY <1>w, <1>1, <2>1
<1>7. CASE Settle
  <2>1. /\ handler'.pc # "manifest" /\ UNCHANGED <<index, objects, up>>
        /\ hist' = [hist EXCEPT !.head = handler.target.id]
    BY <1>7 DEF Settle, diskVars
  <2>2. RowsOf(hist') = RowsOf(hist)
    BY <1>0, <2>1 DEF RowsOf, StoreInv, Shaped
  <2> QED
    BY <1>w, <1>1, <2>1, <2>2 DEF Stored
<1>8. CASE \E f \in Files, c \in Contents \cup {Absent} : Work(f, c)
  <2>1. /\ UNCHANGED <<hist, index, objects, up>> /\ handler'.pc = handler.pc
        /\ handler.pc = "manifest" => handler' = handler
    BY <1>8 DEF Work, memoryVars, diskVars
  <2> QED
    BY <1>w, <1>1, <2>1
<1>9. CASE Crash
  <2>1. ~up' /\ handler'.pc # "manifest" /\ UNCHANGED <<index, objects>>
    BY <1>9 DEF Crash, diskVars, Idle
  <2> QED
    BY <1>w, <1>1, <2>1
<1>10. CASE Boot
  <2>1. ~up /\ hist' = index /\ handler' = Idle /\ UNCHANGED <<index, objects>>
    BY <1>0, <1>10 DEF Boot, diskVars
  <2>2. "write" \notin world.faults
    BY <1>0, <2>1
  <2> QED
    BY <1>w, <1>1, <2>1, <2>2 DEF Idle
<1>11. CASE UNCHANGED storeVars
  BY <1>1, <1>w, <1>11 DEF storeVars, memoryVars, diskVars
<1> QED
  BY <1>2, <1>3, <1>4, <1>5, <1>6, <1>7, <1>8, <1>9, <1>10, <1>11 DEF StoreAction

------------------------------------------------------------------------------
(* The path holds. *)

\* An empty store has no rows.
LEMMA HistoryInvInit == Init => HistoryInv
<1> SUFFICES ASSUME Init PROVE HistoryInv
  OBVIOUS
<1>1. /\ hist = EmptyHistory /\ index = EmptyHistory /\ head_maps = NoMaps /\ up
      /\ manifests = [i \in Ids |-> NoManifest] /\ handler = Idle
      /\ tree = [f \in Files |-> tree[f]]
  BY DEF Init, StoreInit, Trees
<1>2. RowsOf(EmptyHistory) = {} /\ EmptyHistory.rows = <<>> /\ EmptyHistory.next = 1
  BY DEF RowsOf, EmptyHistory
<1>3. Path(hist, manifests) /\ Path(index, manifests)
  BY <1>1, <1>2 DEF Path
<1>4. StoreInv
  BY StoreInvInit
<1>5. PathInv
  BY <1>1, <1>2, <1>3, <1>4 DEF PathInv, Idle
<1>6. BlobInv
  BY <1>1, <1>2 DEF BlobInv, Stored, Idle
<1>7. RestoreInv
  BY <1>1 DEF RestoreInv, Idle
<1> QED
  BY <1>5, <1>6, <1>7 DEF HistoryInv

\* Every step keeps the path, and a restore on its way.
LEMMA PathStep == PathInv /\ RestoreInv /\ [Next]_vars => PathInv' /\ RestoreInv'
<1> SUFFICES ASSUME PathInv, RestoreInv, [Next]_vars PROVE PathInv' /\ RestoreInv'
  OBVIOUS
<1>1. StoreInv'
  BY StoreInvStep DEF PathInv
<1>2. StoreAction \/ UNCHANGED storeVars
  BY NextIsAStoreAction DEF vars
<1>3. PathInv'
  BY <1>1, <1>2, RecordKeepsPath, WrittenKeepsPath, HandlersKeepPath, OthersKeepPath
     DEF StoreAction
<1> QED
  BY <1>2, <1>3, RestoreKeeps

\* The worlds in which failing writes and crashes do not come together.
OneFaultAtATime == \A w \in Worlds : ~({"write", "crash"} \subseteq w.faults)

\* the whole invariant, in those worlds
OneFault == OneFaultAtATime => HistoryInv /\ world \in Worlds

\* Then every step keeps the blobs too.
LEMMA HistoryInvStep == OneFault /\ [Next]_vars => OneFault'
<1> SUFFICES ASSUME OneFaultAtATime, HistoryInv, world \in Worlds, [Next]_vars
             PROVE  HistoryInv' /\ world' \in Worlds
  BY DEF OneFault, OneFaultAtATime
<1>1. PathInv' /\ RestoreInv'
  BY PathStep DEF HistoryInv
<1>2. StoreAction \/ UNCHANGED storeVars
  BY NextIsAStoreAction DEF vars
<1>3. BlobInv'
  BY <1>1, <1>2, BlobsKeep DEF HistoryInv, OneFaultAtATime
<1>4. UNCHANGED world
  BY <1>2 DEF StoreAction, BeginRecord, WriteManifest, PersistHistory, WriteFails, UnderCap,
         DropOldestBranch, PruneAbandoned, BeginRestore, RestoreFile, Settle, Work, Crash, Boot,
         storeVars
<1> QED
  BY <1>1, <1>3, <1>4 DEF HistoryInv

\* The path and the restores, whatever fails.
THEOREM PathAlways == Spec => [](PathInv /\ RestoreInv)
<1>1. Init => PathInv /\ RestoreInv
  BY HistoryInvInit DEF HistoryInv
<1> QED
  BY <1>1, PathStep, PTL DEF Spec

\* The history a reader would get is a path, too.
LEMMA HistoryIsAPath ==
  ASSUME PathInv
  PROVE  Shaped(History) /\ Path(History, manifests)
BY DEF PathInv, StoreInv, History

\* Every manifest chain of the linear path resolves to the maps its round recorded, in
\* every state, whichever writes fail and wherever the process dies.
THEOREM ChainsResolveAlways ==
  Spec => [](\A r \in RowsOf(History) : OnDisk(History, r) = {MapsOf(r)})
<1>1. PathInv => \A r \in RowsOf(History) : OnDisk(History, r) = {MapsOf(r)}
  BY HistoryIsAPath, PathResolves
<1> QED
  BY <1>1, PathAlways, PTL

\* A shared map is held by a round before the one that shares it, on the same path.
THEOREM SharedMapsAreAncestorsAlways == Spec => []SharedMapsAreAncestors
<1>1. PathInv => SharedMapsAreAncestors
  <2> SUFFICES ASSUME PathInv, NEW r \in RowsOf(History), r.from # NoRound
               PROVE  \E s \in RowsOf(History) :
                         /\ s.id = r.from /\ s.from = NoRound
                         /\ Position(History, s.id) < Position(History, r.id)
    BY DEF SharedMapsAreAncestors
  <2>0. Shaped(History) /\ Path(History, manifests)
    BY HistoryIsAPath
  <2>1. PICK s \in RowsOf(History) : IsRoot(s, r)
    BY <2>0 DEF Path
  <2>2. s.id = r.from /\ s.from = NoRound /\ s.id < r.id
    BY <2>0, <2>1 DEF IsRoot, Source, Path
  <2> QED
    BY <2>0, <2>2, PathRows
<1> QED
  BY <1>1, PathAlways, PTL

\* Every round of the linear path can be restored, in every state: no collection, branch,
\* reused id, crash or failed write strands its maps or its blobs, as long as failing
\* writes and crashes do not come together.
THEOREM RoundsRestorableAlways ==
  Spec => [](OneFaultAtATime => RoundsRestorable)
<1>1. OneFault => (OneFaultAtATime => RoundsRestorable)
  <2> SUFFICES ASSUME OneFaultAtATime, HistoryInv, world \in Worlds, NEW r \in RowsOf(History)
               PROVE  /\ \E p \in OnDisk(History, r) : p.maps = r.hash
                      /\ "blob" \notin world.faults => BlobsOf(r.hash) \subseteq objects
    BY DEF RoundsRestorable, OneFault
  <2>1. OnDisk(History, r) = {MapsOf(r)}
    BY HistoryIsAPath, PathResolves DEF HistoryInv
  <2>2. ~up => "write" \notin world.faults
    BY DEF HistoryInv, PathInv, OneFaultAtATime
  <2>3. "blob" \notin world.faults => Stored(History, objects)
    BY <2>2 DEF HistoryInv, BlobInv, History
  <2> QED
    BY <2>1, <2>3 DEF Stored, MapsOf
<1>2. Init => OneFault
  BY HistoryInvInit DEF OneFault, Init, StoreInit
<1> QED
  BY <1>1, <1>2, HistoryInvStep, PTL DEF Spec

\* A restore that nobody disturbed finds every file as the round recorded it; one that
\* it finds as it was before is one that the disk failed, when the round was recorded
\* or now: the blobs of a map that resolves are on disk otherwise.
THEOREM RestoresTheRoundAlways ==
  Spec => [](OneFaultAtATime => RestoresTheRound)
<1>1. OneFault => (OneFaultAtATime => RestoresTheRound)
  <2> SUFFICES ASSUME OneFaultAtATime, HistoryInv, NEW f \in Files,
                      handler.pc = "restore", handler.left = {}, ~handler.disturbed
               PROVE  \/ tree[f] = handler.target.maps[f]
                      \/ /\ tree[f] = handler.current[f]
                         /\ world.faults \cap {"blob", "restore"} # {}
    BY DEF RestoresTheRound, OneFault
  <2>1. /\ \/ tree[f] = handler.target.maps[f]
           \/ PassedOver(f) /\ tree[f] = handler.current[f]
        /\ \E r \in RowsOf(hist) : handler.target = MapsOf(r)
    BY DEF HistoryInv, RestoreInv
  <2>2. up
    BY DEF HistoryInv, PathInv, StoreInv, Idle
  <2>3. ASSUME "blob" \notin world.faults
        PROVE  handler.target.maps[f] \in objects \cup {Absent}
    <3>1. PICK r \in RowsOf(hist) : handler.target = MapsOf(r)
      BY <2>1
    <3>2. BlobsOf(r.hash) \subseteq objects
      BY <2>2, <2>3, <3>1 DEF HistoryInv, BlobInv, Stored
    <3>3. handler.target.maps = r.hash
      BY <3>1 DEF MapsOf
    <3> QED
      BY <3>2, <3>3 DEF BlobsOf
  <2> QED
    BY <2>1, <2>3 DEF PassedOver
<1>2. Init => OneFault
  BY HistoryInvInit DEF OneFault, Init, StoreInit
<1> QED
  BY <1>1, <1>2, HistoryInvStep, PTL DEF Spec

------------------------------------------------------------------------------
(* What a conversation keeps when it is rewound. *)

\* The agent's loop truncates by messages, or resets: Codex drops turns by a count
\* that is not one of turns.
CountsMessages == world.backend # "codex"

\* n turns were started so far
Talks(talk, n) == n \in Nat /\ talk \in Seq(Nat) /\ \A i \in 1..Len(talk) : talk[i] <= n

\* a conversation that was the agent's once: the turns of it that the agent still has
\* are among its first as many, and a turn to come is none of them
Within(said, talk, n) ==
    /\ said \in Seq(Nat) /\ \A j \in 1..Len(said) : said[j] <= n
    /\ \A i \in 1..Len(talk), j \in 1..Len(said) : talk[i] = said[j] => i <= Len(said)

\* requests for such a conversation, each by the number of its messages
Counted(s, talk, n) ==
    /\ Sequence(s)
    /\ \A i \in DOMAIN s : Within(s[i].said, talk, n) /\ s[i].messages = Len(s[i].said)

\* a gateway handler
Handles(r, talk, n) ==
    \/ r = Quiet \/ r = [pc |-> "redo"]
    \/ /\ \/ r = [pc |-> r.pc, id |-> r.id, files |-> r.files, request |-> r.request]
          \/ r = [pc |-> r.pc, request |-> r.request]
       /\ r.pc \in {"params", "files", "restoring", "send"}
       /\ Counted(r.request, talk, n)

TalkInv ==
    /\ world \in Worlds /\ Talks(conv, turns)
    /\ Sequence(completed)
    /\ \A i \in DOMAIN completed : Within(completed[i].said, conv, turns)
    /\ handler.pc = "manifest" => Within(handler.row.note.said, conv, turns)
    /\ \A r \in RowsOf(hist) \cup RowsOf(index) : Within(r.note.said, conv, turns)
    /\ client = [c \in Clients |-> client[c]]
    /\ \A c \in Clients : Handles(client[c], conv, turns)
    /\ Counted(requests, conv, turns)

\* What is left of a sequence without its head.
LEMMA TailIs ==
  ASSUME NEW s, Sequence(s), s # <<>>
  PROVE  /\ Sequence(Tail(s)) /\ Tail(s) # s
         /\ 1 \in DOMAIN s /\ Head(s) = s[1]
         /\ \A i \in DOMAIN Tail(s) : \E j \in DOMAIN s : Tail(s)[i] = s[j]
<1> DEFINE S == {s[i] : i \in DOMAIN s}
<1>1. s \in Seq(S)
  BY DEF Sequence
<1> HIDE DEF S
<1>2. /\ Tail(s) \in Seq(S) /\ Len(Tail(s)) = Len(s) - 1 /\ Len(s) \in Nat \ {0}
      /\ DOMAIN s = 1..Len(s) /\ DOMAIN Tail(s) = 1..(Len(s) - 1)
      /\ \A i \in 1..(Len(s) - 1) : Tail(s)[i] = s[i + 1]
      /\ Head(s) = s[1]
  BY <1>1
<1>3. Sequence(Tail(s))
  BY <1>2, ASequence
<1>4. ASSUME NEW i \in DOMAIN Tail(s)
      PROVE  \E j \in DOMAIN s : Tail(s)[i] = s[j]
  <2>1. i + 1 \in 1..Len(s) /\ i \in 1..(Len(s) - 1)
    BY <1>2
  <2>2. i + 1 \in DOMAIN s /\ Tail(s)[i] = s[i + 1]
    BY <1>2, <2>1
  <2> QED
    BY <2>2
<1>5. Len(Tail(s)) # Len(s)
  <2>1. \A n \in Nat : n - 1 # n
    OBVIOUS
  <2> QED
    BY <1>2, <2>1, Zenon
<1>6. 1 \in DOMAIN s
  BY <1>2
<1> QED
  BY <1>2, <1>3, <1>4, <1>5, <1>6

\* Two sequences joined.
LEMMA JoinedIs ==
  ASSUME NEW s, NEW t, Sequence(s), Sequence(t)
  PROVE  /\ Sequence(s \o t)
         /\ \A i \in DOMAIN (s \o t) : \/ \E j \in DOMAIN s : (s \o t)[i] = s[j]
                                       \/ \E j \in DOMAIN t : (s \o t)[i] = t[j]
         /\ s # <<>> => s \o t # Tail(s)
<1> DEFINE S == {s[i] : i \in DOMAIN s} \cup {t[i] : i \in DOMAIN t}
<1>1. s \in Seq(S) /\ t \in Seq(S)
  <2>1. /\ \A r \in Seq({s[i] : i \in DOMAIN s}) : r \in Seq(S)
        /\ \A r \in Seq({t[i] : i \in DOMAIN t}) : r \in Seq(S)
    BY SeqMonotonic
  <2> QED
    BY <2>1 DEF Sequence
<1> HIDE DEF S
<1>2. /\ s \o t \in Seq(S) /\ Len(s) \in Nat /\ Len(t) \in Nat /\ Len(s \o t) = Len(s) + Len(t)
      /\ DOMAIN s = 1..Len(s) /\ DOMAIN t = 1..Len(t)
      /\ DOMAIN (s \o t) = 1..(Len(s) + Len(t))
      /\ \A i \in 1..(Len(s) + Len(t)) : (s \o t)[i] = IF i <= Len(s) THEN s[i] ELSE t[i - Len(s)]
  BY <1>1
<1>3. Sequence(s \o t)
  BY <1>2, ASequence
<1>4. \A i \in 1..(Len(s) + Len(t)) : IF i <= Len(s) THEN i \in 1..Len(s)
                                      ELSE i - Len(s) \in 1..Len(t)
  BY <1>2
<1>5. ASSUME s # <<>>
      PROVE  s \o t # Tail(s)
  <2>1. Len(Tail(s)) = Len(s) - 1
    BY <1>1, <1>5
  <2>2. \A n, m \in Nat : n + m # n - 1
    OBVIOUS
  <2>3. Len(s \o t) # Len(s) - 1
    BY <1>2, <2>2, Zenon
  <2> QED
    BY <2>1, <2>3
<1> QED
  BY <1>2, <1>3, <1>4, <1>5

\* What is in a sequence that was extended by one element.
LEMMA Extended ==
  ASSUME NEW s, NEW x, Sequence(s)
  PROVE  /\ Sequence(Append(s, x))
         /\ \A i \in DOMAIN Append(s, x) :
               \/ i \in DOMAIN s /\ Append(s, x)[i] = s[i]
               \/ Append(s, x)[i] = x
<1> DEFINE S == {s[i] : i \in DOMAIN s} \cup {x}
<1>1. s \in Seq(S)
  <2>1. \A r \in Seq({s[i] : i \in DOMAIN s}) : r \in Seq(S)
    BY SeqMonotonic
  <2> QED
    BY <2>1 DEF Sequence
<1>2. x \in S
  OBVIOUS
<1> HIDE DEF S
<1>3. /\ Append(s, x) \in Seq(S) /\ Len(s) \in Nat /\ DOMAIN s = 1..Len(s)
      /\ DOMAIN Append(s, x) = 1..(Len(s) + 1)
      /\ \A i \in 1..Len(s) : Append(s, x)[i] = s[i]
      /\ Append(s, x)[Len(s) + 1] = x
  BY <1>1, <1>2
<1>4. \A i \in 1..(Len(s) + 1) : i \in 1..Len(s) \/ i = Len(s) + 1
  BY <1>3
<1> QED
  BY <1>3, <1>4, ASequence

\* The first part of a conversation.
LEMMA ShortenedIs ==
  ASSUME NEW talk \in Seq(Nat), NEW m \in Nat
  PROVE  /\ Shortened(talk, m) \in Seq(Nat)
         /\ Len(Shortened(talk, m)) = IF m < Len(talk) THEN m ELSE Len(talk)
         /\ \A i \in 1..Len(Shortened(talk, m)) : Shortened(talk, m)[i] = talk[i]
<1> DEFINE k == IF m < Len(talk) THEN m ELSE Len(talk)
<1>1. k \in 0..Len(talk) /\ Len(talk) \in Nat
  OBVIOUS
<1> HIDE DEF k
<1>2. /\ SubSeq(talk, 1, k) \in Seq(Nat) /\ Len(SubSeq(talk, 1, k)) = k
      /\ \A i \in 1..k : SubSeq(talk, 1, k)[i] = talk[i]
  BY <1>1
<1> QED
  BY <1>2 DEF Shortened, k

\* A conversation grows by the next turn, is cut to a number of messages or starts over:
\* what the agent still has of an earlier one stays where it was.
LEMMA ConversationMoves ==
  ASSUME TalkInv, CountsMessages, [Next]_vars
  PROVE  /\ Talks(conv', turns')
         /\ \A s : Within(s, conv, turns) => Within(s, conv', turns')
<1>0. /\ turns \in Nat /\ conv \in Seq(Nat) /\ \A i \in 1..Len(conv) : conv[i] <= turns
      /\ world \in Worlds
  BY DEF TalkInv, Talks
<1>1. UNCHANGED <<conv, turns>> \/ StartTurn \/ RewindConversation \/ Dies
  <2>1. CASE UNCHANGED vars
    BY <2>1 DEF vars, talkVars
  <2>2. CASE \/ Record \/ Prune \/ Persist \/ PersistFails \/ StoreStep
             \/ \E tools \in 0..MaxTools : EndTurn(tools)
             \/ \E f \in Files, c \in Contents \cup {Absent} : Edit(f, c)
             \/ \E c \in Clients, id \in Ids, files, talk \in BOOLEAN : Ask(c, id, files, talk)
    BY <2>2 DEF Record, Prune, Persist, PersistFails, StoreStep, EndTurn, Edit, Ask, talkVars
  <2>3. CASE \E c \in Clients : \/ Params(c) \/ RestoreBegins(c) \/ RestoreRefused(c)
                                \/ RedoAsked(c) \/ RedoBegins(c) \/ RedoRefused(c)
                                \/ Send(c)
    BY <2>3 DEF Params, RestoreBegins, RestoreRefused, RedoAsked, RedoBegins, RedoRefused, Send,
           talkVars
  <2> QED
    BY <2>1, <2>2, <2>3 DEF Next
<1>2. CASE UNCHANGED <<conv, turns>>
  BY <1>2 DEF TalkInv
<1>3. CASE StartTurn
  <2>1. turns' = turns + 1 /\ conv' = Append(conv, turns + 1)
    BY <1>3 DEF StartTurn
  <2>2. /\ conv' \in Seq(Nat) /\ Len(conv') = Len(conv) + 1 /\ Len(conv) \in Nat
        /\ \A i \in 1..Len(conv) : conv'[i] = conv[i]
        /\ conv'[Len(conv) + 1] = turns + 1
    BY <1>0, <2>1
  <2>3. \A i \in 1..Len(conv) : conv[i] \in Nat
    BY <1>0
  <2>4. Talks(conv', turns')
    BY <1>0, <2>1, <2>2, <2>3 DEF Talks
  <2>5. ASSUME NEW s, Within(s, conv, turns)
        PROVE  Within(s, conv', turns')
    <3>1. /\ s \in Seq(Nat) /\ \A j \in 1..Len(s) : s[j] \in Nat /\ s[j] <= turns
      BY <2>5 DEF Within
    <3>2. \A j \in 1..Len(s) : s[j] <= turns + 1 /\ s[j] # turns + 1
      BY <1>0, <3>1
    <3>3. \A i \in 1..Len(conv'), j \in 1..Len(s) : conv'[i] = s[j] => i <= Len(s)
      <4> TAKE i \in 1..Len(conv'), j \in 1..Len(s)
      <4>1. i \in 1..Len(conv) \/ i = Len(conv) + 1
        BY <2>2
      <4> QED
        BY <2>2, <2>5, <3>2, <4>1 DEF Within
    <3> QED
      BY <2>1, <3>1, <3>2, <3>3 DEF Within
  <2> QED
    BY <2>4, <2>5
<1>4. ASSUME conv' \in Seq(Nat), Len(conv') <= Len(conv), turns' = turns,
             \A i \in 1..Len(conv') : conv'[i] = conv[i]
      PROVE  /\ Talks(conv', turns')
             /\ \A s : Within(s, conv, turns) => Within(s, conv', turns')
  <2>1. \A i \in 1..Len(conv') : i \in 1..Len(conv)
    BY <1>0, <1>4
  <2> QED
    BY <1>0, <1>4, <2>1 DEF Talks, Within
<1>5. CASE RewindConversation
  <2>1. /\ requests # <<>> /\ conv' = After(Head(requests)) /\ UNCHANGED <<turns, world>>
    BY <1>5 DEF RewindConversation, storeVars
  <2>2. Sequence(requests) /\ Head(requests) = requests[1] /\ 1 \in DOMAIN requests
    BY <2>1, TailIs DEF TalkInv, Counted
  <2>3. Head(requests).messages \in Nat
    <3>1. /\ requests[1].messages = Len(requests[1].said)
          /\ requests[1].said \in Seq(Nat)
      BY <2>2 DEF TalkInv, Counted, Within
    <3> QED
      BY <2>2, <3>1
  <2>4. CASE world.backend = "native"
    <3>1. conv' = Shortened(conv, Head(requests).messages)
      BY <2>1, <2>4 DEF After
    <3>2. /\ conv' \in Seq(Nat)
          /\ Len(conv') = IF Head(requests).messages < Len(conv)
                          THEN Head(requests).messages ELSE Len(conv)
          /\ \A i \in 1..Len(conv') : conv'[i] = conv[i]
      BY <1>0, <2>3, <3>1, ShortenedIs
    <3>3. Len(conv') <= Len(conv)
      BY <1>0, <2>3, <3>2
    <3> QED
      BY <1>4, <2>1, <3>2, <3>3
  <2>5. CASE world.backend = "reset"
    <3>1. conv' = <<>>
      BY <2>1, <2>5 DEF After
    <3>2. Len(conv') <= Len(conv) /\ conv' \in Seq(Nat)
      BY <1>0, <3>1
    <3>3. \A i \in 1..Len(conv') : conv'[i] = conv[i]
      BY <3>1
    <3> QED
      BY <1>4, <2>1, <3>2, <3>3
  <2> QED
    BY <1>0, <2>4, <2>5, RewindAssumption DEF CountsMessages
<1>6. CASE Dies
  <2>1. conv' = <<>> /\ turns' = turns
    BY <1>6 DEF Dies
  <2>2. Len(conv') <= Len(conv) /\ conv' \in Seq(Nat)
    BY <1>0, <2>1
  <2>3. \A i \in 1..Len(conv') : conv'[i] = conv[i]
    BY <2>1
  <2> QED
    BY <1>4, <2>1, <2>2, <2>3
<1> QED
  BY <1>1, <1>2, <1>3, <1>5, <1>6

\* What was counted before a step is counted after it.
LEMMA CountsMove ==
  ASSUME NEW talk, NEW n, NEW later, NEW m,
         \A s : Within(s, talk, n) => Within(s, later, m)
  PROVE  /\ \A q : Counted(q, talk, n) => Counted(q, later, m)
         /\ \A r : Handles(r, talk, n) => Handles(r, later, m)
<1>1. \A q : Counted(q, talk, n) => Counted(q, later, m)
  BY DEF Counted
<1>2. \A r : Handles(r, talk, n) => Handles(r, later, m)
  BY <1>1 DEF Handles
<1> QED
  BY <1>1, <1>2

\* A handler goes on, with the request it has or with a new one.
LEMMA HandlerGoesOn ==
  ASSUME NEW r, NEW talk, NEW n, Handles(r, talk, n),
         NEW pc \in {"params", "files", "restoring", "send"},
         r.pc \in {"params", "files", "restoring", "send"}
  PROVE  /\ Counted(r.request, talk, n)
         /\ Handles([r EXCEPT !.pc = pc], talk, n)
         /\ \A q : Counted(q, talk, n) => Handles([r EXCEPT !.pc = pc, !.request = q], talk, n)
<1>1. /\ \/ r = [pc |-> r.pc, id |-> r.id, files |-> r.files, request |-> r.request]
         \/ r = [pc |-> r.pc, request |-> r.request]
      /\ Counted(r.request, talk, n)
  BY DEF Handles, Quiet
<1>2. ASSUME NEW k, Counted(k.request, talk, n), k.pc = pc,
             \/ k = [pc |-> k.pc, id |-> k.id, files |-> k.files, request |-> k.request]
             \/ k = [pc |-> k.pc, request |-> k.request]
      PROVE  Handles(k, talk, n)
  BY <1>2 DEF Handles
<1>3. Handles([r EXCEPT !.pc = pc], talk, n)
  <2> PICK k : k = [r EXCEPT !.pc = pc]
    OBVIOUS
  <2>1. /\ k.pc = pc /\ k.request = r.request
        /\ \/ k = [pc |-> k.pc, id |-> k.id, files |-> k.files, request |-> k.request]
           \/ k = [pc |-> k.pc, request |-> k.request]
    BY <1>1
  <2> QED
    BY <1>1, <1>2, <2>1
<1>4. ASSUME NEW q, Counted(q, talk, n)
      PROVE  Handles([r EXCEPT !.pc = pc, !.request = q], talk, n)
  <2> PICK k : k = [r EXCEPT !.pc = pc, !.request = q]
    OBVIOUS
  <2>1. /\ k.pc = pc /\ k.request = q
        /\ \/ k = [pc |-> k.pc, id |-> k.id, files |-> k.files, request |-> k.request]
           \/ k = [pc |-> k.pc, request |-> k.request]
    BY <1>1
  <2> QED
    BY <1>2, <1>4, <2>1
<1> QED
  BY <1>1, <1>3, <1>4

\* The empty request, and one request alone.
LEMMA OneRequest ==
  ASSUME NEW talk, NEW n
  PROVE  /\ Counted(<<>>, talk, n)
         /\ \A r : Within(r.said, talk, n) /\ r.messages = Len(r.said)
                      => Counted(<<r>>, talk, n)
<1>1. Counted(<<>>, talk, n)
  BY EmptySequence DEF Counted
<1>2. ASSUME NEW r, Within(r.said, talk, n), r.messages = Len(r.said)
      PROVE  Counted(<<r>>, talk, n)
  <2>1. <<r>> \in Seq({r}) /\ DOMAIN <<r>> = {1} /\ <<r>>[1] = r
    OBVIOUS
  <2> QED
    BY <1>2, <2>1, ASequence DEF Counted
<1> QED
  BY <1>1, <1>2

\* The rounds that wait for the watcher carry conversations of the agent.
LEMMA CompletedMoves ==
  ASSUME TalkInv, [Next]_vars
  PROVE  /\ Sequence(completed')
         /\ \A i \in DOMAIN completed' : Within(completed'[i].said, conv, turns)
<1>0. /\ Sequence(completed)
      /\ \A i \in DOMAIN completed : Within(completed[i].said, conv, turns)
  BY DEF TalkInv
<1>1. CASE UNCHANGED completed
  BY <1>0, <1>1
<1>2. ASSUME NEW tools \in 0..MaxTools, EndTurn(tools)
      PROVE  /\ Sequence(completed')
             /\ \A i \in DOMAIN completed' : Within(completed'[i].said, conv, turns)
  <2> PICK row : row = [tools |-> tools, said |-> conv]
    OBVIOUS
  <2>1. completed' = Append(completed, row) /\ row.said = conv
    BY <1>2 DEF EndTurn
  <2>2. Within(row.said, conv, turns)
    BY <2>1 DEF TalkInv, Talks, Within
  <2>3. /\ Sequence(Append(completed, row))
        /\ \A i \in DOMAIN Append(completed, row) :
              \/ i \in DOMAIN completed /\ Append(completed, row)[i] = completed[i]
              \/ Append(completed, row)[i] = row
    BY <1>0, Extended
  <2> QED
    BY <1>0, <2>1, <2>2, <2>3
<1>3. CASE Record
  <2>1. completed # <<>> /\ completed' = Tail(completed)
    BY <1>3 DEF Record
  <2> QED
    BY <1>0, <2>1, TailIs
<1>4. CASE Dies
  <2>1. completed' = <<>>
    BY <1>4 DEF Dies
  <2> QED
    BY <2>1, EmptySequence
<1>5. CASE \/ UNCHANGED vars \/ StartTurn \/ Prune \/ Persist \/ PersistFails \/ StoreStep
           \/ RewindConversation
           \/ \E f \in Files, c \in Contents \cup {Absent} : Edit(f, c)
           \/ \E c \in Clients, id \in Ids, files, talk \in BOOLEAN : Ask(c, id, files, talk)
  BY <1>1, <1>5 DEF StartTurn, Prune, Persist, PersistFails, StoreStep, RewindConversation, Edit,
         Ask, talkVars, vars
<1>6. CASE \E c \in Clients : \/ Params(c) \/ RestoreBegins(c) \/ RestoreRefused(c)
                              \/ RedoAsked(c) \/ RedoBegins(c) \/ RedoRefused(c)
                              \/ Send(c)
  BY <1>1, <1>6 DEF Params, RestoreBegins, RestoreRefused, RedoAsked, RedoBegins, RedoRefused,
         Send, talkVars
<1> QED
  BY <1>2, <1>3, <1>4, <1>5, <1>6 DEF Next

\* So do the rows of both histories, and the row about to join them.
LEMMA RowsMove ==
  ASSUME TalkInv, PathInv, [Next]_vars
  PROVE  /\ \A r \in RowsOf(hist') \cup RowsOf(index') : Within(r.note.said, conv, turns)
         /\ handler'.pc = "manifest" => Within(handler'.row.note.said, conv, turns)
         /\ world' = world
<1> DEFINE W(r) == Within(r.note.said, conv, turns)
<1>0. /\ \A r \in RowsOf(hist) : W(r)
      /\ \A r \in RowsOf(index) : W(r)
      /\ handler.pc = "manifest" => W(handler.row)
      /\ Shaped(hist) /\ Path(hist, manifests)
  BY DEF TalkInv, PathInv, StoreInv
<1> SUFFICES /\ \A r \in RowsOf(hist') \cup RowsOf(index') : W(r)
             /\ handler'.pc = "manifest" => W(handler'.row)
             /\ world' = world
  OBVIOUS
<1> HIDE DEF W
<1>1. ASSUME RowsOf(hist') \subseteq RowsOf(hist) \cup RowsOf(index),
             RowsOf(index') \subseteq RowsOf(hist) \cup RowsOf(index),
             handler'.pc # "manifest" \/ handler' = handler, world' = world
      PROVE  /\ \A r \in RowsOf(hist') \cup RowsOf(index') : W(r)
             /\ handler'.pc = "manifest" => W(handler'.row)
             /\ world' = world
  BY <1>0, <1>1
<1>2. CASE completed # <<>> /\ BeginRecord(Head(completed))
  <2> DEFINE b == Branch(hist)
  <2>1. /\ Shaped(b) /\ RowsOf(b) \subseteq RowsOf(hist)
    BY <1>0, BranchPath, BranchKeeps
  <2>2. /\ hist' = [b EXCEPT !.next = @ + 1] /\ UNCHANGED <<index, world>>
        /\ handler'.row.note = Head(completed)
    BY <1>2 DEF BeginRecord
  <2> HIDE DEF b
  <2>3. hist'.rows = b.rows
    BY <2>1, <2>2 DEF Shaped
  <2>4. RowsOf(hist') \subseteq RowsOf(hist)
    BY <2>1, <2>3 DEF RowsOf
  <2>5. W(handler'.row)
    <3>1. Head(completed) = completed[1] /\ 1 \in DOMAIN completed
      BY <1>2, TailIs DEF TalkInv
    <3>2. Within(completed[1].said, conv, turns)
      BY <3>1 DEF TalkInv
    <3> QED
      BY <2>2, <3>1, <3>2 DEF W
  <2> QED
    BY <1>0, <2>2, <2>4, <2>5
<1>3. CASE WriteManifest
  <2> PICK row : row = handler.row
    OBVIOUS
  <2>1. /\ hist' = [hist EXCEPT !.rows = Append(@, row), !.head = row.id]
        /\ handler.pc = "manifest" /\ handler'.pc = "index" /\ UNCHANGED <<index, world>>
    BY <1>3 DEF WriteManifest
  <2>2. hist'.rows = Append(hist.rows, row)
    BY <1>0, <2>1 DEF Shaped
  <2>3. \A r \in RowsOf(hist') : r \in RowsOf(hist) \/ r = row
    BY <1>0, <2>2, Extended DEF RowsOf, Shaped
  <2> QED
    BY <1>0, <2>1, <2>3
<1>4. CASE DropOldestBranch \/ PruneAbandoned
  <2>1. /\ handler'.pc # "manifest" /\ UNCHANGED <<index, world>>
        /\ \E left : hist' = [hist EXCEPT !.abandoned = left]
    BY <1>4 DEF DropOldestBranch, PruneAbandoned, Collect
  <2>2. hist'.rows = hist.rows
    BY <1>0, <2>1 DEF Shaped
  <2> QED
    BY <1>1, <2>1, <2>2 DEF RowsOf
<1>5. CASE Settle
  <2>1. /\ handler'.pc # "manifest" /\ UNCHANGED <<index, world>>
        /\ hist' = [hist EXCEPT !.head = handler.target.id]
    BY <1>5 DEF Settle, diskVars
  <2>2. hist'.rows = hist.rows
    BY <1>0, <2>1 DEF Shaped
  <2> QED
    BY <1>1, <2>1, <2>2 DEF RowsOf
<1>6. CASE PersistHistory
  <2>1. index' = hist /\ hist' = hist /\ handler'.pc # "manifest" /\ world' = world
    BY <1>6 DEF PersistHistory, memoryVars, Idle
  <2> QED
    BY <1>1, <2>1
<1>7. CASE Crash
  <2>1. hist' = EmptyHistory /\ index' = index /\ handler'.pc # "manifest" /\ world' = world
    BY <1>7 DEF Crash, diskVars, Idle
  <2>2. RowsOf(EmptyHistory) = {}
    BY DEF RowsOf, EmptyHistory
  <2> QED
    BY <1>1, <2>1, <2>2
<1>8. CASE Boot
  <2>1. hist' = index /\ index' = index /\ handler' = handler /\ world' = world
    BY <1>8 DEF Boot, diskVars
  <2> QED
    BY <1>1, <2>1
<1>9. CASE \/ WriteFails \/ UnderCap
           \/ \E id \in LinearIds(hist) : BeginRestore(id)
           \/ UNCHANGED storeVars
  <2>1. /\ UNCHANGED <<hist, index, world>>
        /\ handler'.pc # "manifest" \/ handler' = handler
    BY <1>9 DEF WriteFails, UnderCap, BeginRestore, storeVars, diskVars, memoryVars, Idle
  <2> QED
    BY <1>1, <2>1
<1>10. CASE \E f \in Files : RestoreFile(f)
  <2>1. /\ UNCHANGED <<hist, index, world>> /\ handler.pc = "restore"
        /\ \E left : handler' = [handler EXCEPT !.left = left]
    BY <1>10 DEF RestoreFile, diskVars
  <2>2. handler'.pc # "manifest"
    BY <2>1
  <2> QED
    BY <1>1, <2>1, <2>2
<1>11. CASE \E f \in Files, c \in Contents \cup {Absent} : Work(f, c)
  <2>1. /\ UNCHANGED <<hist, index, world>>
        /\ handler' = IF handler.pc = "restore" THEN [handler EXCEPT !.disturbed = TRUE]
                      ELSE handler
    BY <1>11 DEF Work, diskVars, memoryVars
  <2>2. handler'.pc # "manifest" \/ handler' = handler
    BY <2>1
  <2> QED
    BY <1>1, <2>1, <2>2
<1>12. StoreAction \/ UNCHANGED storeVars
  BY NextIsAStoreAction DEF vars
<1> QED
  BY <1>2, <1>3, <1>4, <1>5, <1>6, <1>7, <1>8, <1>9, <1>10, <1>11, <1>12 DEF StoreAction

\* The handlers of the gateway ask for nothing else.
LEMMA HandlersMove ==
  ASSUME TalkInv, [Next]_vars
  PROVE  /\ client' = [c \in Clients |-> client'[c]]
         /\ \A c \in Clients : Handles(client'[c], conv, turns)
<1>0. /\ client = [c \in Clients |-> client[c]]
      /\ \A c \in Clients : Handles(client[c], conv, turns)
      /\ \A r \in RowsOf(hist) : Within(r.note.said, conv, turns)
  BY DEF TalkInv
<1> DEFINE Going == {"params", "files", "restoring", "send"}
<1>1. ASSUME NEW d \in Clients, NEW r, client' = [client EXCEPT ![d] = r],
             Handles(r, conv, turns)
      PROVE  /\ client' = [c \in Clients |-> client'[c]]
             /\ \A c \in Clients : Handles(client'[c], conv, turns)
  BY <1>0, <1>1
<1>2. CASE UNCHANGED client
  BY <1>0, <1>2
<1>3. Handles(Quiet, conv, turns)
  BY DEF Handles
<1>4. \A d \in Clients : client[d].pc \in Going =>
          /\ Counted(client[d].request, conv, turns)
          /\ \A pc \in Going :
                /\ Handles([client[d] EXCEPT !.pc = pc], conv, turns)
                /\ \A q : Counted(q, conv, turns) =>
                      Handles([client[d] EXCEPT !.pc = pc, !.request = q], conv, turns)
  BY <1>0, HandlerGoesOn
<1>5. CASE \/ UNCHANGED vars \/ StartTurn \/ Record \/ Prune \/ StoreStep \/ RewindConversation
           \/ \E tools \in 0..MaxTools : EndTurn(tools)
           \/ \E f \in Files, c \in Contents \cup {Absent} : Edit(f, c)
  BY <1>2, <1>5 DEF StartTurn, Record, Prune, StoreStep, RewindConversation, EndTurn, Edit,
         gatewayVars, vars
<1>6. ASSUME NEW d \in Clients, NEW id \in Ids, NEW files \in BOOLEAN, NEW talk \in BOOLEAN,
             Ask(d, id, files, talk)
      PROVE  /\ client' = [c \in Clients |-> client'[c]]
             /\ \A c \in Clients : Handles(client'[c], conv, turns)
  <2> PICK r : r = [pc |-> IF talk THEN "params" ELSE "files", id |-> id, files |-> files,
                    request |-> <<>>]
    OBVIOUS
  <2>1. client' = [client EXCEPT ![d] = r]
    BY <1>6 DEF Ask
  <2>2. /\ r = [pc |-> r.pc, id |-> r.id, files |-> r.files, request |-> r.request]
        /\ r.pc \in Going /\ r.request = <<>>
    OBVIOUS
  <2>3. Handles(r, conv, turns)
    BY <2>2, OneRequest DEF Handles
  <2> QED
    BY <1>1, <2>1, <2>3
<1>7. ASSUME NEW d \in Clients, Params(d)
      PROVE  /\ client' = [c \in Clients |-> client'[c]]
             /\ \A c \in Clients : Handles(client'[c], conv, turns)
  <2> DEFINE id == client[d].id
             q  == <<Request(id)>>
  <2>1. CASE id \notin LinearIds(hist)
    <3>1. client' = [client EXCEPT ![d] = Quiet]
      BY <1>7, <2>1 DEF Params
    <3> QED
      BY <1>1, <1>3, <3>1
  <2>2. CASE id \in LinearIds(hist)
    <3>1. RowOf(hist, id) \in RowsOf(hist)
      BY <2>2 DEF LinearIds, RowOf
    <3>2. Counted(q, conv, turns)
      <4> PICK r : r = Request(id)
        OBVIOUS
      <4>1. r.said = RowOf(hist, id).note.said /\ r.messages = Len(r.said)
        BY DEF Request
      <4>2. Within(r.said, conv, turns)
        BY <1>0, <3>1, <4>1
      <4>3. Counted(<<r>>, conv, turns)
        BY <4>1, <4>2, OneRequest
      <4> QED
        BY <4>3
    <3> DEFINE pc == IF client[d].files THEN "files" ELSE "send"
    <3>3. /\ client' = [client EXCEPT ![d] = [client[d] EXCEPT !.pc = pc, !.request = q]]
          /\ client[d].pc \in Going /\ pc \in Going
      BY <1>7, <2>2 DEF Params
    <3> HIDE DEF q, id, pc, Going
    <3>4. Handles([client[d] EXCEPT !.pc = pc, !.request = q], conv, turns)
      BY <1>4, <3>2, <3>3
    <3> QED
      BY <1>1, <3>3, <3>4
  <2> QED
    BY <2>1, <2>2
<1>8. ASSUME NEW d \in Clients, RestoreBegins(d)
      PROVE  /\ client' = [c \in Clients |-> client'[c]]
             /\ \A c \in Clients : Handles(client'[c], conv, turns)
  <2>1. /\ client' = [client EXCEPT ![d] = [client[d] EXCEPT !.pc = "restoring"]]
        /\ client[d].pc \in Going /\ "restoring" \in Going
    BY <1>8 DEF RestoreBegins
  <2>2. Handles([client[d] EXCEPT !.pc = "restoring"], conv, turns)
    BY <1>4, <2>1
  <2> QED
    BY <1>1, <2>1, <2>2
<1>9. ASSUME NEW d \in Clients, RestoreRefused(d) \/ RedoRefused(d) \/ Send(d)
      PROVE  /\ client' = [c \in Clients |-> client'[c]]
             /\ \A c \in Clients : Handles(client'[c], conv, turns)
  <2>1. client' = [client EXCEPT ![d] = Quiet]
    BY <1>9 DEF RestoreRefused, RedoRefused, Send
  <2> QED
    BY <1>1, <1>3, <2>1
<1>10. ASSUME NEW d \in Clients, RedoAsked(d)
       PROVE  /\ client' = [c \in Clients |-> client'[c]]
              /\ \A c \in Clients : Handles(client'[c], conv, turns)
  <2>1. client' = [client EXCEPT ![d] = [pc |-> "redo"]]
    BY <1>10 DEF RedoAsked
  <2>2. Handles([pc |-> "redo"], conv, turns)
    BY DEF Handles
  <2> QED
    BY <1>1, <2>1, <2>2
<1>11. ASSUME NEW d \in Clients, RedoBegins(d)
       PROVE  /\ client' = [c \in Clients |-> client'[c]]
              /\ \A c \in Clients : Handles(client'[c], conv, turns)
  <2> PICK r : r = [pc |-> "restoring", request |-> <<>>]
    OBVIOUS
  <2>1. client' = [client EXCEPT ![d] = r]
    BY <1>11 DEF RedoBegins
  <2>2. r = [pc |-> r.pc, request |-> r.request] /\ r.pc \in Going /\ r.request = <<>>
    OBVIOUS
  <2>3. Handles(r, conv, turns)
    BY <2>2, OneRequest DEF Handles
  <2> QED
    BY <1>1, <2>1, <2>3
<1>12. CASE Persist \/ PersistFails \/ Dies
  <2>1. /\ client' = [c \in Clients |-> client'[c]]
        /\ \A c \in Clients :
              \/ client'[c] = client[c] \/ client'[c] = Quiet
              \/ client[c].pc \in Going /\ client'[c] = [client[c] EXCEPT !.pc = "send"]
    BY <1>12 DEF Persist, PersistFails, Dies, Afterwards
  <2>2. "send" \in Going
    OBVIOUS
  <2> HIDE DEF Going
  <2>3. \A c \in Clients : Handles(client'[c], conv, turns)
    <3> TAKE c \in Clients
    <3>1. CASE client'[c] = client[c]
      BY <1>0, <3>1
    <3>2. CASE client'[c] = Quiet
      BY <1>3, <3>2
    <3>3. CASE client[c].pc \in Going /\ client'[c] = [client[c] EXCEPT !.pc = "send"]
      BY <1>4, <2>2, <3>3
    <3> QED
      BY <2>1, <3>1, <3>2, <3>3
  <2> QED
    BY <2>1, <2>3
<1> QED
  BY <1>5, <1>6, <1>7, <1>8, <1>9, <1>10, <1>11, <1>12 DEF Next

\* Requests reach the agent as they were sent, and only the agent takes one.
LEMMA RequestsMove ==
  ASSUME TalkInv, [Next]_vars
  PROVE  /\ Counted(requests', conv, turns)
         /\ requests # <<>> /\ requests' = Tail(requests) /\ up' => RewindConversation
<1>0. Counted(requests, conv, turns) /\ Sequence(requests)
  BY DEF TalkInv, Counted
<1>1. CASE UNCHANGED requests
  BY <1>0, <1>1, TailIs
<1>2. ASSUME NEW c \in Clients, Send(c)
      PROVE  /\ Counted(requests', conv, turns)
             /\ requests # <<>> => requests' # Tail(requests)
  <2> PICK q : q = client[c].request
    OBVIOUS
  <2>1. requests' = requests \o q /\ client[c].pc = "send"
    BY <1>2 DEF Send
  <2>2. Counted(q, conv, turns)
    BY <2>1, HandlerGoesOn DEF TalkInv
  <2>3. /\ Sequence(requests \o q)
        /\ \A i \in DOMAIN (requests \o q) :
              \/ \E j \in DOMAIN requests : (requests \o q)[i] = requests[j]
              \/ \E j \in DOMAIN q : (requests \o q)[i] = q[j]
        /\ requests # <<>> => requests \o q # Tail(requests)
    <3>1. Sequence(q)
      BY <2>2 DEF Counted
    <3> QED
      BY ONLY <1>0, <3>1, JoinedIs
  <2>4. Counted(requests \o q, conv, turns)
    <3> DEFINE Fits(r) == Within(r.said, conv, turns) /\ r.messages = Len(r.said)
    <3>1. /\ \A j \in DOMAIN requests : Fits(requests[j])
          /\ \A j \in DOMAIN q : Fits(q[j])
      BY <1>0, <2>2 DEF Counted
    <3> HIDE DEF Fits
    <3>2. \A i \in DOMAIN (requests \o q) : Fits((requests \o q)[i])
      BY <2>3, <3>1
    <3> QED
      BY <2>3, <3>2 DEF Counted, Fits
  <2> QED
    BY <2>1, <2>3, <2>4
<1>3. ASSUME RewindConversation
      PROVE  Counted(requests', conv, turns)
  <2>1. requests # <<>> /\ requests' = Tail(requests)
    BY <1>3 DEF RewindConversation
  <2> QED
    BY <1>0, <2>1, TailIs DEF Counted
<1>4. CASE Dies
  <2>1. requests' = <<>> /\ ~up'
    BY <1>4 DEF Dies, Crash
  <2> QED
    BY <2>1, OneRequest
<1>5. CASE \/ UNCHANGED vars \/ StartTurn \/ Record \/ Prune \/ StoreStep \/ Persist \/ PersistFails
           \/ \E tools \in 0..MaxTools : EndTurn(tools)
           \/ \E f \in Files, c \in Contents \cup {Absent} : Edit(f, c)
           \/ \E c \in Clients, id \in Ids, files, talk \in BOOLEAN : Ask(c, id, files, talk)
  BY <1>1, <1>5 DEF StartTurn, Record, Prune, StoreStep, Persist, PersistFails, EndTurn, Edit, Ask,
         gatewayVars, vars
<1>6. CASE \E c \in Clients : \/ Params(c) \/ RestoreBegins(c) \/ RestoreRefused(c)
                              \/ RedoAsked(c) \/ RedoBegins(c) \/ RedoRefused(c)
  BY <1>1, <1>6 DEF Params, RestoreBegins, RestoreRefused, RedoAsked, RedoBegins, RedoRefused
<1> QED
  BY <1>2, <1>3, <1>4, <1>5, <1>6 DEF Next

\* Everything the gateway and the store keep of a conversation stays within it.
LEMMA TalkInvInit == Init => TalkInv
<1> SUFFICES ASSUME Init PROVE TalkInv
  OBVIOUS
<1>1. /\ hist = EmptyHistory /\ index = EmptyHistory /\ handler = Idle /\ world \in Worlds
      /\ conv = <<>> /\ turns = 0 /\ completed = <<>> /\ requests = <<>>
      /\ client = [c \in Clients |-> Quiet]
  BY DEF Init, StoreInit
<1>2. RowsOf(EmptyHistory) = {}
  BY DEF RowsOf, EmptyHistory
<1>3. Talks(conv, turns)
  BY <1>1 DEF Talks
<1>4. Sequence(completed) /\ Counted(requests, conv, turns)
  BY <1>1, EmptySequence, OneRequest
<1>5. \A c \in Clients : Handles(client[c], conv, turns)
  BY <1>1 DEF Handles
<1> QED
  BY <1>1, <1>2, <1>3, <1>4, <1>5 DEF TalkInv, Idle

\* the invariant, while the agent truncates by messages or resets
Remembers == CountsMessages /\ PathInv /\ TalkInv

LEMMA RemembersStep == Remembers /\ RestoreInv /\ [Next]_vars => Remembers'
<1> SUFFICES ASSUME CountsMessages, PathInv, TalkInv, RestoreInv, [Next]_vars PROVE Remembers'
  BY DEF Remembers
<1>1. PathInv'
  BY PathStep
<1>2. /\ Talks(conv', turns')
      /\ \A s : Within(s, conv, turns) => Within(s, conv', turns')
  BY ConversationMoves
<1>3. /\ Sequence(completed')
      /\ \A i \in DOMAIN completed' : Within(completed'[i].said, conv', turns')
  BY <1>2, CompletedMoves
<1>4. /\ \A r \in RowsOf(hist') \cup RowsOf(index') : Within(r.note.said, conv', turns')
      /\ handler'.pc = "manifest" => Within(handler'.row.note.said, conv', turns')
      /\ world' \in Worlds /\ CountsMessages'
  BY <1>2, RowsMove DEF TalkInv, CountsMessages
<1>5. /\ client' = [c \in Clients |-> client'[c]]
      /\ \A c \in Clients : Handles(client'[c], conv', turns')
  BY <1>2, HandlersMove, CountsMove
<1>6. Counted(requests', conv', turns')
  BY <1>2, RequestsMove, CountsMove
<1> QED
  BY <1>1, <1>2, <1>3, <1>4, <1>5, <1>6 DEF Remembers, TalkInv

\* A rollback of the conversation keeps every turn of its target that the agent still
\* has, whatever was said, undone or asked for since the target was looked up; of
\* backends that count turns it says nothing.
THEOREM KeepsTheTargetsTurnsAlways == Spec /\ CountsMessages => KeepsTheTargetsTurns
<1>1. Init /\ CountsMessages => Remembers
  BY TalkInvInit, HistoryInvInit DEF Remembers, HistoryInv
<1>2. Remembers /\ RestoreInv /\ [Next]_vars => Remembers'
  BY RemembersStep
<1>3. Remembers /\ [Next]_vars =>
         [world.backend # "reset" /\ requests # <<>> /\ requests' = Tail(requests) /\ up' =>
             \A i \in DOMAIN conv : \A j \in DOMAIN Head(requests).said :
                 conv[i] = Head(requests).said[j] => \E k \in DOMAIN conv' : conv'[k] = conv[i]]_vars
  <2> SUFFICES ASSUME CountsMessages, TalkInv, [Next]_vars, world.backend # "reset", requests # <<>>,
                      requests' = Tail(requests), up',
                      NEW i \in DOMAIN conv, NEW j \in DOMAIN Head(requests).said,
                      conv[i] = Head(requests).said[j]
               PROVE  \E k \in DOMAIN conv' : conv'[k] = conv[i]
    BY DEF Remembers
  <2> DEFINE m == Head(requests).messages
             said == Head(requests).said
  <2>1. RewindConversation
    BY RequestsMove
  <2>2. /\ Head(requests) = requests[1] /\ 1 \in DOMAIN requests
    BY TailIs DEF TalkInv, Counted
  <2>3. Within(said, conv, turns) /\ m = Len(said)
    BY <2>2 DEF TalkInv, Counted
  <2>4. conv' = Shortened(conv, m)
    BY <2>1, RewindAssumption DEF RewindConversation, After, TalkInv, CountsMessages
  <2> HIDE DEF m, said
  <2>5. /\ conv \in Seq(Nat) /\ said \in Seq(Nat) /\ m \in Nat /\ Len(conv) \in Nat
        /\ i \in 1..Len(conv) /\ j \in 1..Len(said) /\ conv[i] = said[j]
    <3>1. conv \in Seq(Nat) /\ said \in Seq(Nat)
      BY <2>3 DEF TalkInv, Talks, Within
    <3>2. i \in DOMAIN conv /\ j \in DOMAIN said /\ conv[i] = said[j]
      BY DEF said
    <3> QED
      BY ONLY <2>3, <3>1, <3>2
  <2>6. i <= m
    BY <2>3, <2>5 DEF Within
  <2>7. /\ conv' \in Seq(Nat)
        /\ Len(conv') = IF m < Len(conv) THEN m ELSE Len(conv)
        /\ \A k \in 1..Len(conv') : conv'[k] = conv[k]
    BY <2>4, <2>5, ShortenedIs
  <2>8. i \in 1..Len(conv')
    BY <2>5, <2>6, <2>7
  <2>9. i \in DOMAIN conv' /\ conv'[i] = conv[i]
    BY <2>7, <2>8
  <2> QED
    BY <2>9
<1> QED
  BY <1>1, <1>2, <1>3, PathAlways, PTL DEF Spec, KeepsTheTargetsTurns
==============================================================================
