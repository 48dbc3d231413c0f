----------------------------- MODULE RoundHistory -----------------------------
(***************************************************************************)
(* The snapshot store of the file watcher (file_watcher.rs): one row per   *)
(* finished round, the content-addressed blobs it names, the manifest that *)
(* holds its maps, and the index history.json.  A handler runs under the   *)
(* watcher's lock and makes several durable writes; agents and editors     *)
(* write the tree between any two of them, and the process may die there.  *)
(*                                                                         *)
(* A map path -> hash is a tree: hashing is injective, and so is the hash  *)
(* of the maps that an index row keeps.  The display mirror, files that    *)
(* cannot be restored, legacy formats and store epochs are left out.       *)
(* Round ids count from 1 here; 0 is no round.  The module has the store's *)
(* actions; Rewind lets the gateway and the agent loop take them.          *)
(***************************************************************************)
EXTENDS Integers, Sequences, FiniteSets

CONSTANTS
    Files,          \* the paths of the project
    Contents,       \* what a file may contain
    Absent,         \* the file is not there
    Notes,          \* what a round carries besides its maps
    MaxId,          \* bound: rounds ever recorded
    Worlds          \* the scenarios

ASSUME HistoryAssumption ==
    /\ Absent \notin Contents
    /\ MaxId \in Nat
    /\ \A w \in Worlds : /\ w.faults \subseteq {"crash", "write", "blob", "restore"}
                         /\ w.edits \in Nat

VARIABLES
    tree,           \* the working tree
    objects,        \* objects/: the blobs on disk
    manifests,      \* rounds/round_<id>/manifest.json
    index,          \* history.json
    up,             \* the daemon runs and holds store.lock
    hist,           \* the watcher's History
    head_maps,      \* the resolved maps of the head round
    object_index,   \* the blobs the watcher believes are on disk
    baseline,       \* the tree when the daemon started
    handler,        \* the operation that holds the watcher's lock
    edits,          \* writes to the tree so far
    world           \* the scenario, fixed

diskVars == <<objects, manifests, index>>
memoryVars == <<hist, head_maps, object_index>>
storeVars == <<tree, diskVars, up, memoryVars, baseline, handler, edits, world>>

NoRound == 0
Ids == 1..MaxId
Trees == [Files -> Contents \cup {Absent}]

\* an index row; `from' names the earlier round whose manifest holds the maps
Rows == [id : Ids, parent : Ids \cup {NoRound}, from : Ids \cup {NoRound},
         hash : Trees, note : Notes]
NoManifest == [id |-> NoRound]
NoMaps == [id |-> NoRound]
EmptyHistory == [head |-> NoRound, rows |-> <<>>, abandoned |-> <<>>, next |-> 1]
Idle == [pc |-> "idle"]

StoreInit ==
    /\ tree \in Trees /\ baseline = tree
    /\ objects = {} /\ manifests = [i \in Ids |-> NoManifest] /\ index = EmptyHistory
    /\ up = TRUE
    /\ hist = EmptyHistory /\ head_maps = NoMaps /\ object_index = {}
    /\ handler = Idle
    /\ edits = 0
    /\ world \in Worlds

-----------------------------------------------------------------------------
(* Reading the store.                                                      *)

\* the blobs a map names
BlobsOf(maps) == {maps[f] : f \in Files} \ {Absent}
RowsOf(h) == {h.rows[i] : i \in DOMAIN h.rows}
LinearIds(h) == {r.id : r \in RowsOf(h)}
RowOf(h, id) == CHOOSE r \in RowsOf(h) : r.id = id
Position(h, id) == CHOOSE i \in DOMAIN h.rows : h.rows[i].id = id
Source(row) == IF row.from = NoRound THEN row.id ELSE row.from

\* manifest_binds_to_round: every scalar the index row records
Binds(manifest, row) ==
    /\ manifest.id = row.id
    /\ manifest.parent = row.parent /\ manifest.from = row.from
    /\ manifest.note = row.note

\* the manifest at the end of the chain from each round, each hop bound to a row of
\* the linear path: {} when it does not resolve
Chains(h) ==
    LET chain[i \in 0..MaxId] ==
            IF i \in LinearIds(h) /\ Binds(manifests[i], RowOf(h, i))
            THEN IF manifests[i].from = NoRound THEN {manifests[i]}
                 ELSE IF manifests[i].from < i THEN chain[manifests[i].from] ELSE {}
            ELSE {}
    IN  chain

\* the payload is bound to the row that was asked for, too
OnDisk(h, row) ==
    {[id |-> row.id, source |-> m.id, maps |-> m.hash] :
        m \in {m \in Chains(h)[Source(row)] : m.hash = row.hash}}

\* resolved_round_maps
Resolved(id) ==
    IF head_maps.id = id /\ id # NoRound THEN {head_maps}
    ELSE UNION {OnDisk(hist, r) : r \in {r \in RowsOf(hist) : r.id = id}}

-----------------------------------------------------------------------------
(* A round completes: on_round_complete.                                   *)

Free == up /\ handler = Idle

\* Mutant: the tail behind the head is cut off and forgotten.
ForgetTail(h) ==
    [h EXCEPT !.rows = IF h.head \in LinearIds(h) THEN SubSeq(@, 1, Position(h, h.head)) ELSE @]

\* a round recorded behind the head moves what follows the head to a branch
Branch(h) ==
    IF h.head \in LinearIds(h) /\ Position(h, h.head) < Len(h.rows)
    THEN [h EXCEPT !.rows = SubSeq(@, 1, Position(h, h.head)),
                   !.abandoned = Append(@, SubSeq(h.rows, Position(h, h.head) + 1, Len(h.rows)))]
    ELSE h

\* Mutant: a no-op round refers to its parent, not to the parent's source.
RefersToParent(parentMaps) ==
    IF \E p \in parentMaps : p.maps = tree THEN hist.head ELSE NoRound

\* a no-op round refers to the round that holds its parent's maps
MapsFrom(parentMaps) ==
    IF \E p \in parentMaps : p.maps = tree
    THEN (CHOOSE p \in parentMaps : TRUE).source ELSE NoRound

\* the blobs the scan may fail to write; their files enter the maps all the same
Unwritable ==
    IF "blob" \in world.faults THEN BlobsOf(tree) \ (object_index \cup objects) ELSE {}

\* Mutant: a blob counts as stored once its write was tried.
BelievesTheWrite(failed) ==
    /\ objects' = objects \cup (BlobsOf(tree) \ (object_index \cup failed))
    /\ object_index' = object_index \cup BlobsOf(tree)

\* scan_and_store_objects
StoreObjects(failed) ==
    /\ objects' = objects \cup (BlobsOf(tree) \ (object_index \cup failed))
    /\ object_index' = object_index \cup (BlobsOf(tree) \ failed)

\* the scan, the branch, the new row
BeginRecord(note) ==
    /\ Free /\ hist.next \in Ids
    /\ \E failed \in SUBSET Unwritable : StoreObjects(failed)
    /\ hist' = [Branch(hist) EXCEPT !.next = @ + 1]
    /\ handler' = [pc |-> "manifest",
                   row |-> [id |-> hist.next, parent |-> hist.head,
                            from |-> MapsFrom(Resolved(hist.head)), hash |-> tree,
                            note |-> note]]
    /\ UNCHANGED <<tree, manifests, index, up, head_maps, baseline, edits, world>>

\* the manifest is durable before the row is even in memory
WriteManifest ==
    /\ handler.pc = "manifest"
    /\ manifests' = [manifests EXCEPT ![handler.row.id] = handler.row]
    /\ hist' = [hist EXCEPT !.rows = Append(@, handler.row), !.head = handler.row.id]
    /\ head_maps' = [id |-> handler.row.id, source |-> Source(handler.row),
                     maps |-> handler.row.hash]
    /\ handler' = [pc |-> "index", op |-> "record"]
    /\ UNCHANGED <<tree, objects, index, up, object_index, baseline, edits, world>>

\* persist_history, atomic; a recorded round then looks at the soft cap
PersistHistory ==
    /\ handler.pc \in {"index", "capped"}
    /\ index' = hist
    /\ handler' = IF handler.pc = "index" /\ handler.op = "record" THEN [pc |-> "cap"] ELSE Idle
    /\ UNCHANGED <<tree, objects, manifests, up, memoryVars, baseline, edits, world>>

\* the manifest or the index cannot be written: the handler returns the error
WriteFails ==
    /\ "write" \in world.faults
    /\ handler.pc \in {"manifest", "index", "capped"}
    /\ handler' = Idle
    /\ UNCHANGED <<tree, diskVars, up, memoryVars, baseline, edits, world>>

-----------------------------------------------------------------------------
(* Garbage: gc_orphaned_objects, enforce_soft_cap, prune_abandoned.        *)

\* Mutant: only the head's blobs are kept.
HeadOnly(h) ==
    {b \in objects : b \notin BlobsOf(baseline) /\
                     \A p \in Resolved(h.head) : b \notin BlobsOf(p.maps)}

\* the blobs neither a row of the linear path nor the baseline names; none when
\* a source does not resolve
Orphans(h) ==
    LET sources == {Source(r) : r \in RowsOf(h)}
        maps    == UNION {Resolved(s) : s \in sources}
    IN  IF \E s \in sources : Resolved(s) = {} THEN {}
        ELSE objects \ (BlobsOf(baseline) \cup UNION {BlobsOf(p.maps) : p \in maps})

Collect(h) ==
    /\ objects' = objects \ Orphans(h)
    /\ object_index' = object_index \ Orphans(h)
    /\ hist' = h

UnderCap ==
    /\ handler.pc = "cap"
    /\ handler' = Idle
    /\ UNCHANGED <<tree, diskVars, up, memoryVars, baseline, edits, world>>

\* over the cap: the oldest branch goes, again while that frees something
DropOldestBranch ==
    /\ handler.pc = "cap" \/ (handler.pc = "capped" /\ handler.freed)
    /\ hist.abandoned # <<>>
    /\ Collect([hist EXCEPT !.abandoned = Tail(@)])
    /\ handler' = [pc |-> "capped", freed |-> objects' # objects]
    /\ UNCHANGED <<tree, manifests, index, up, head_maps, baseline, edits, world>>

PruneAbandoned ==
    /\ Free
    /\ Collect([hist EXCEPT !.abandoned = <<>>])
    /\ handler' = [pc |-> "index", op |-> "prune"]
    /\ UNCHANGED <<tree, manifests, index, up, head_maps, baseline, edits, world>>

-----------------------------------------------------------------------------
(* Rollback and redo: restore_to_state between two looks at the history.   *)

\* the maps resolve or the request is refused; the walk of the tree
BeginRestore(id) ==
    /\ Free /\ id \in LinearIds(hist)
    /\ \E p \in Resolved(id) :
          handler' = [pc |-> "restore", target |-> p, current |-> tree, left |-> Files,
                      disturbed |-> FALSE]
    /\ UNCHANGED <<tree, diskVars, up, memoryVars, baseline, edits, world>>

Rollback(id) == BeginRestore(id)

\* the row after the head's
IsNext(r) ==
    /\ hist.head \in LinearIds(hist)
    /\ Position(hist, r.id) = Position(hist, hist.head) + 1

Redo == \E r \in RowsOf(hist) : IsNext(r) /\ BeginRestore(r.id)

\* Mutant: files the target does not have stay.
OverwriteFile(f) ==
    /\ handler.pc = "restore" /\ f \in handler.left
    /\ LET target == handler.target.maps[f] IN
       tree' = IF target \in objects THEN [tree EXCEPT ![f] = target] ELSE tree
    /\ handler' = [handler EXCEPT !.left = @ \ {f}]
    /\ UNCHANGED <<diskVars, up, memoryVars, baseline, edits, world>>

\* one path, in the order of a hash map: what the walk saw against the target; a blob
\* that is not there or cannot be read, a file that cannot be written or removed is
\* passed over, and the restore goes on
RestoreFile(f) ==
    LET target == handler.target.maps[f] IN
    /\ handler.pc = "restore" /\ f \in handler.left
    /\ \/ /\ handler.current[f] = target
          /\ UNCHANGED <<tree, object_index>>
       \/ /\ handler.current[f] # target
          /\ target = Absent \/ target \in objects
          /\ tree' = [tree EXCEPT ![f] = target]
          /\ UNCHANGED object_index
       \/ /\ handler.current[f] # target
          /\ target # Absent /\ target \notin objects
          /\ object_index' = object_index \ {target}
          /\ UNCHANGED tree
       \/ /\ handler.current[f] # target
          /\ "restore" \in world.faults
          /\ UNCHANGED <<tree, object_index>>
    /\ handler' = [handler EXCEPT !.left = @ \ {f}]
    /\ UNCHANGED <<diskVars, up, hist, head_maps, baseline, edits, world>>

\* Mutant: the head moves in memory only.
SettleInMemory ==
    /\ handler.pc = "restore" /\ handler.left = {}
    /\ hist' = [hist EXCEPT !.head = handler.target.id]
    /\ head_maps' = handler.target
    /\ handler' = Idle
    /\ UNCHANGED <<tree, diskVars, up, object_index, baseline, edits, world>>

\* the head and its maps follow the tree
Settle ==
    /\ handler.pc = "restore" /\ handler.left = {}
    /\ hist' = [hist EXCEPT !.head = handler.target.id]
    /\ head_maps' = handler.target
    /\ handler' = [pc |-> "index", op |-> "rewind"]
    /\ UNCHANGED <<tree, diskVars, up, object_index, baseline, edits, world>>

-----------------------------------------------------------------------------
(* The tree's writers, crashes and restarts.                               *)

\* an agent or an editor writes a file, whatever the watcher is doing
Work(f, c) ==
    /\ edits < world.edits /\ c # tree[f]
    /\ tree' = [tree EXCEPT ![f] = c]
    /\ edits' = edits + 1
    /\ handler' = IF handler.pc = "restore" THEN [handler EXCEPT !.disturbed = TRUE] ELSE handler
    /\ UNCHANGED <<diskVars, up, memoryVars, baseline, world>>

Crash ==
    /\ "crash" \in world.faults /\ up
    /\ up' = FALSE
    /\ hist' = EmptyHistory /\ head_maps' = NoMaps /\ object_index' = {}
    /\ handler' = Idle
    /\ UNCHANGED <<tree, diskVars, baseline, edits, world>>

\* new: the baseline is the tree as it is now, the rest is what disk holds
Boot ==
    /\ ~up
    /\ up' = TRUE
    /\ hist' = index /\ object_index' = objects
    /\ baseline' = tree
    /\ UNCHANGED <<tree, diskVars, head_maps, handler, edits, world>>

-----------------------------------------------------------------------------
(* Properties.                                                             *)

AbandonedRows(h) == UNION {{b[i] : i \in DOMAIN b} : b \in {h.abandoned[j] : j \in DOMAIN h.abandoned}}

Histories ==
    [head : Ids \cup {NoRound}, rows : Seq(Rows), abandoned : Seq(Seq(Rows)), next : Nat]

MapsRecord == [id : Ids, source : Ids, maps : Trees]

\* The type of every variable.
TypeOK ==
    /\ tree \in Trees /\ baseline \in Trees
    /\ objects \subseteq Contents /\ object_index \subseteq Contents
    /\ manifests \in [Ids -> Rows \cup {NoManifest}]
    /\ index \in Histories /\ hist \in Histories
    /\ head_maps \in MapsRecord \cup {NoMaps}
    /\ up \in BOOLEAN /\ edits \in Nat /\ world \in Worlds
    /\ \/ handler = Idle
       \/ handler \in [pc : {"manifest"}, row : Rows]
       \/ handler \in [pc : {"index"}, op : {"record", "rewind", "prune"}]
       \/ handler \in [pc : {"cap"}]
       \/ handler \in [pc : {"capped"}, freed : BOOLEAN]
       \/ handler \in [pc : {"restore"}, target : MapsRecord, current : Trees,
                       left : SUBSET Files, disturbed : BOOLEAN]

\* the history a reader would get: the daemon's, or the one a boot would load
History == IF up THEN hist ELSE index

\* Every round on the linear path can be restored, in every state: its manifest
\* chain resolves to the maps its row hashes, and every blob those maps name is
\* on disk (unless the disk refused blobs).  Garbage collection, branches,
\* shared maps, reused ids after a crash and half-done records all meet here.
RoundsRestorable ==
    \A r \in RowsOf(History) :
        /\ \E p \in OnDisk(History, r) : p.maps = r.hash
        /\ "blob" \notin world.faults => BlobsOf(r.hash) \subseteq objects

\* A round that shares its maps names a round before it on the same path that
\* holds them itself ("always linear-path ancestors", written depth-1): cutting
\* a tail never strands the maps of a round that stays.
SharedMapsAreAncestors ==
    \A r \in RowsOf(History) : r.from # NoRound =>
        \E s \in RowsOf(History) :
            /\ s.id = r.from /\ s.from = NoRound
            /\ Position(History, s.id) < Position(History, r.id)

\* The blobs the watcher believes are stored are stored: the scan skips the
\* write of a believed blob.
ObjectIndexIsHonest == object_index \subseteq objects

\* When no handler is at work and no write has failed, what the daemon holds is
\* what a restart would load: an operation that answered survives a crash.
AnsweredSurvives ==
    up /\ handler = Idle /\ "write" \notin world.faults => hist = index

\* A row leaves the linear path only for an abandoned branch, in memory and on
\* disk; the rows behind a rewound head are kept for redo.
RowsAreKept ==
    [][/\ up /\ up' => RowsOf(hist) \subseteq RowsOf(hist') \cup AbandonedRows(hist')
       /\ "write" \notin world.faults =>
             RowsOf(index) \subseteq RowsOf(index') \cup AbandonedRows(index')]_storeVars

\* The end of a restore that nobody disturbed finds each file as the round recorded
\* it, or as it was before: the latter only where the disk refused blobs when the
\* round was recorded, or refuses a read, a write or a removal now.  No blob of a
\* resolved map is missing otherwise, whatever was collected, cut off or restarted.
RestoresTheRound ==
    handler.pc = "restore" /\ handler.left = {} /\ ~handler.disturbed =>
        \A f \in Files :
            \/ tree[f] = handler.target.maps[f]
            \/ /\ tree[f] = handler.current[f]
               /\ world.faults \cap {"blob", "restore"} # {}

\* "Rollback restores exactly this map" (HistoryRound::files_at_end): a restore that
\* is about to move the head, and to answer success, left the round's tree.
RestoresExactly ==
    handler.pc = "restore" /\ handler.left = {} /\ ~handler.disturbed =>
        tree = handler.target.maps
=============================================================================
