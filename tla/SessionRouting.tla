---------------------------- MODULE SessionRouting ----------------------------
(* How the receive loop keeps one session's commands in order (dispatch.rs):  *)
(* slow resumes are enqueued under a key chosen from the ids they address,    *)
(* fast commands run inline unless the queue of an id they address is busy.   *)
(* A session has several ids: the wrapper's, and the backend's, which is an   *)
(* alias first and the registry key once the backend has told its identity.   *)
(*                                                                            *)
(* Only the loop enqueues, so while it looks around, routes and queues can    *)
(* only go away: looking at all of them at once loses no outcome.             *)
EXTENDS IntakeExecutor

CONSTANTS Scenarios,    \* what is asked of which conversation
          Resumes,      \* the commands that are slow resumes
          LogOf,        \* id -> the wrapper whose log a resume by that id opens:
                        \* the id itself, or a fresh one when it has no log
          SessionOf     \* id -> the conversation it really stands for

\* a deferred job is its command
Commands == Jobs

Addressed == {s \in UNION {[1..n -> Ids] : n \in 1..2} : IsInjective(s)}

\* Queues are named for ids; the wrapper whose log an id opens, and the id a backend
\* reports, stand for the same conversation.
ASSUME RoutingAssumption ==
         /\ Keys = Ids
         /\ Resumes \subseteq Commands
         /\ LogOf \in [Ids -> Ids]
         /\ \A id \in Ids : SessionOf[LogOf[id]] = SessionOf[id]
         /\ \A x \in Scenarios :
              /\ x.targets \in [Commands -> Addressed]
              /\ x.backend \in [Ids -> Ids \cup {NoKey}]
              /\ \A id \in Ids : x.backend[id] # id
              /\ \A id \in Ids : x.backend[id] # NoKey => SessionOf[x.backend[id]] = SessionOf[id]
              /\ \A c \in Commands : \A i, k \in DOMAIN x.targets[c] :
                   SessionOf[x.targets[c][i]] = SessionOf[x.targets[c][k]]

\* Any two resumes of a conversation address an id of it in common.
ResumesOverlap ==
  \A x \in Scenarios : \A c, d \in Resumes :
    SessionOf[x.targets[c][1]] = SessionOf[x.targets[d][1]]
      => ToSet(x.targets[c]) \cap ToSet(x.targets[d]) # {}

\* Where no backend has an id of its own, the resumes of a conversation name its
\* wrapper first, and that wrapper has a log.
OneWrapper ==
  \A x \in Scenarios : (\A id \in Ids : x.backend[id] = NoKey) =>
    \A c, d \in Resumes :
      /\ LogOf[x.targets[c][1]] = x.targets[c][1]
      /\ SessionOf[x.targets[c][1]] = SessionOf[x.targets[d][1]]
           => x.targets[c][1] = x.targets[d][1]

VARIABLES
  at,        \* command -> unsent, raw, resolve, canonical, keyed, deferred, body, over
  keyOf,     \* command -> the key chosen for it
  canonical, \* command -> the canonical ids its targets resolved to
  arrived,   \* history: the commands in the order the loop took them
  ran,       \* history: the commands that acted on a managed session, in order
  sessions,  \* keys of the registry
  aliases,   \* session_aliases: id -> id or NoKey
  scenario   \* one of Scenarios, fixed

\* command -> the ids it addresses, in order
Targets == scenario.targets
\* wrapper id -> the id its backend has and reports, or NoKey
BackendOf == scenario.backend

loopVars == <<at, keyOf, canonical, arrived>>
regVars == <<sessions, aliases>>
routingVars == <<vars, loopVars, ran, regVars, scenario>>

RoutingTypeOK ==
  /\ TypeOK
  /\ at \in [Commands -> {"unsent", "raw", "resolve", "canonical", "keyed",
                          "deferred", "body", "over"}]
  /\ keyOf \in [Commands -> Ids \cup {NoKey}]
  /\ canonical \in [Commands -> SUBSET Ids]
  /\ arrived \in Seq(Commands) /\ ran \in Seq(Commands)
  /\ sessions \subseteq Ids
  /\ aliases \in [Ids -> Ids \cup {NoKey}]

RoutingInit ==
  /\ Init
  /\ at = [c \in Commands |-> "unsent"]
  /\ keyOf = [c \in Commands |-> NoKey]
  /\ canonical = [c \in Commands |-> {}]
  /\ arrived = <<>> /\ ran = <<>>
  /\ sessions = {} /\ aliases = [id \in Ids |-> NoKey]
  /\ scenario \in Scenarios

------------------------------------------------------------------------------
\* resolve_session_id: a registry key, or the key that at most eight aliases lead to.
Followed[n \in 0..8] ==
  [id \in Ids |-> IF id \in sessions THEN id
                  ELSE IF n = 0 \/ aliases[id] \in {NoKey, id} THEN NoKey
                  ELSE Followed[n - 1][aliases[id]]]
Resolve(id) == Followed[8][id]

Resolved(c) == {Resolve(id) : id \in ToSet(Targets[c])} \ {NoKey}
Managed(c) == Resolved(c) # {}

\* The keys the loop may find busy for an id: its pending route, its own queue.
RouteOf(id) == IF HasRoute(id) THEN {RouteKey(id)} ELSE {}
BusyKeys(id) == IF RouteOf(id) # {} THEN RouteOf(id)
                ELSE IF QueueBusy(id) THEN {id} ELSE {}
FirstBusy(s) ==
  LET hits == {i \in DOMAIN s : BusyKeys(s[i]) # {}}
  IN IF hits = {} THEN NoKey
     ELSE CHOOSE k \in BusyKeys(s[CHOOSE i \in hits : \A h \in hits : i <= h]) : TRUE

LoopFree == \A c \in Commands : at[c] \notin {"raw", "resolve", "canonical", "keyed"}
InlineBusy == \E c \in Commands : at[c] = "body" /\ stage[c] = "new"

Take(c) ==
  /\ at[c] = "unsent" /\ LoopFree /\ ~InlineBusy
  /\ arrived' = Append(arrived, c)
  /\ at' = [at EXCEPT ![c] = IF c \in Resumes THEN "resolve" ELSE "raw"]
  /\ UNCHANGED <<vars, keyOf, canonical, ran, regVars>>

\* Mutant: only pending routes are looked at, never a busy queue.
RoutesOnly(s) ==
  LET hits == {i \in DOMAIN s : RouteOf(s[i]) # {}}
  IN IF hits = {} THEN NoKey ELSE RouteKey(s[CHOOSE i \in hits : \A h \in hits : i <= h])

BusyKey(s) == FirstBusy(s)

\* busy_queue_key_for: the ids as addressed ...
ProbeRaw(c) ==
  /\ at[c] = "raw"
  /\ keyOf' = [keyOf EXCEPT ![c] = BusyKey(Targets[c])]
  /\ at' = [at EXCEPT ![c] = IF keyOf'[c] = NoKey THEN "resolve" ELSE "keyed"]
  /\ UNCHANGED <<vars, canonical, arrived, ran, regVars>>

\* ... then their canonical ids, read under the state lock.
ResolveTargets(c) ==
  /\ at[c] = "resolve"
  /\ canonical' = [canonical EXCEPT ![c] = Resolved(c)]
  /\ at' = [at EXCEPT ![c] = "canonical"]
  /\ UNCHANGED <<vars, keyOf, arrived, ran, regVars>>

ProbeCanonical(c) ==
  /\ at[c] = "canonical" /\ c \notin Resumes
  /\ keyOf' = [keyOf EXCEPT ![c] = BusyKey(SetToSeq(canonical[c]))]
  /\ at' = [at EXCEPT ![c] = IF keyOf'[c] = NoKey THEN "body" ELSE "keyed"]
  /\ UNCHANGED <<vars, canonical, arrived, ran, regVars>>

\* Mutant: the first addressed id, whatever is pending for it.
FirstTarget(c) == Targets[c][1]

\* slow_key_and_routes: a pending route of any id wins, then a canonical id that
\* was not addressed, then the first one that was.
SlowKey(c) ==
  LET others == SetToSeq(canonical[c] \ ToSet(Targets[c]))
      all == Targets[c] \o others
      hits == {i \in DOMAIN all : HasRoute(all[i])}
  IN IF hits # {} THEN RouteKey(all[CHOOSE i \in hits : \A h \in hits : i <= h])
     ELSE IF others # <<>> THEN others[1] ELSE Targets[c][1]

ChooseSlowKey(c) ==
  /\ at[c] = "canonical" /\ c \in Resumes
  /\ keyOf' = [keyOf EXCEPT ![c] = SlowKey(c)]
  /\ at' = [at EXCEPT ![c] = "keyed"]
  /\ UNCHANGED <<vars, canonical, arrived, ran, regVars>>

\* The job: a resume reserves every id it addresses, a fast command none.
JobOf(c) == IF c \in Resumes
            THEN Heavy(keyOf[c], ToSet(Targets[c]) \cup canonical[c], NoDelegation)
            ELSE Light(keyOf[c])

Defer(c) ==
  /\ at[c] = "keyed"
  /\ Enqueue(c, JobOf(c))
  /\ at' = [at EXCEPT ![c] = "deferred"]
  /\ UNCHANGED <<keyOf, canonical, arrived, ran, regVars>>

------------------------------------------------------------------------------
(* Bodies, inline or in the task of a worker, and the registry. *)

BodyBegins(c) ==
  /\ at[c] = "deferred"
  /\ \E w \in Commands : workers[w].pc = "run" /\ workers[w].job = c
  /\ at' = [at EXCEPT ![c] = "body"]
  /\ UNCHANGED <<vars, keyOf, canonical, arrived, ran, regVars>>

\* A fast command acts on the session its target resolves to now, if any.
FastBody(c) ==
  /\ at[c] = "body" /\ c \notin Resumes
  /\ ran' = IF Managed(c) THEN Append(ran, c) ELSE ran
  /\ at' = [at EXCEPT ![c] = "over"]
  /\ UNCHANGED <<vars, keyOf, canonical, arrived, regVars>>

\* register_session drops an alias that shadows the new key and adds the token.
AliasesWith(id, token) ==
  [aliases EXCEPT ![id] = NoKey, ![token] = IF token # id THEN id ELSE NoKey]

\* effective_external_resume_token: the backend id on disk, else as requested.
TokenOf(c) ==
  LET first == Targets[c][1]
  IN IF BackendOf[first] # NoKey THEN BackendOf[first] ELSE Last(Targets[c])

\* A resume attaches to the live session or registers a wrapper, whose alias is
\* the token it resumes; or it fails.
ResumeBody(c) ==
  LET id == LogOf[Targets[c][1]]
  IN /\ at[c] = "body" /\ c \in Resumes
     /\ at' = [at EXCEPT ![c] = "over"]
     /\ \/ /\ ran' = Append(ran, c)
           /\ IF \E x \in {Targets[c][1], TokenOf(c)} : Resolve(x) # NoKey
              THEN UNCHANGED regVars
              ELSE sessions' = sessions \cup {id} /\ aliases' = AliasesWith(id, TokenOf(c))
        \/ UNCHANGED <<ran, regVars>>
     /\ UNCHANGED <<vars, keyOf, canonical, arrived>>

\* Mutant: the pre-identity alias goes on shadowing the new key.
ShadowedAliases(id, current, backend) ==
  [a \in Ids |-> IF a \in {id, current} \ {backend} THEN backend ELSE aliases[a]]

RekeyedAliases(id, current, backend) ==
  [a \in Ids |->
     IF a \in {id, current} \ {backend} THEN backend
     ELSE IF /\ current # backend
             /\ a = backend \/ (backend \in sessions /\ aliases[a] = current)
     THEN NoKey ELSE aliases[a]]

\* apply_session_identity, inline in the loop: the backend id becomes the key.
ApplyIdentity(id) ==
  LET backend == BackendOf[id]
      current == Resolve(id)
  IN /\ LoopFree /\ ~InlineBusy
     /\ backend # NoKey /\ current # NoKey
     /\ sessions' = (sessions \ {current}) \cup {backend}
     /\ aliases' = RekeyedAliases(id, current, backend)
     /\ UNCHANGED <<vars, loopVars, ran>>

\* remove_session.
SessionEnds(id) ==
  /\ id \in sessions
  /\ sessions' = sessions \ {id}
  /\ aliases' = [a \in Ids |-> IF a = id \/ aliases[a] = id THEN NoKey ELSE aliases[a]]
  /\ UNCHANGED <<vars, loopVars, ran>>

ExecutorStep(w) ==
  /\ \/ WorkerStep(w)
     \/ BodyEnds(w) /\ at[workers[w].job] = "over"
  /\ UNCHANGED <<loopVars, ran, regVars>>

RoutingNext ==
  /\ \/ \E c \in Commands : \/ Take(c) \/ ProbeRaw(c) \/ ResolveTargets(c)
                            \/ ProbeCanonical(c) \/ ChooseSlowKey(c) \/ Defer(c)
                            \/ BodyBegins(c) \/ FastBody(c) \/ ResumeBody(c)
                            \/ ExecutorStep(c)
     \/ \E id \in Ids : ApplyIdentity(id) \/ SessionEnds(id)
  /\ UNCHANGED scenario

RoutingSpec == RoutingInit /\ [][RoutingNext]_routingVars

------------------------------------------------------------------------------
(* Correctness. *)

Position(s, c) == CHOOSE i \in DOMAIN s : s[i] = c

Overtaken(p, q) ==
  /\ p < q
  /\ SessionOf[Targets[ran[p]][1]] = SessionOf[Targets[ran[q]][1]]
  /\ Position(arrived, ran[q]) < Position(arrived, ran[p])

\* "one session's commands always execute in arrival order", whichever of its
\* ids each of them uses, and whether they ran inline or from the queue.
AlwaysArrivalOrder == \A p, q \in DOMAIN ran : ~Overtaken(p, q)

\* The same for the conversations whose backend keeps the wrapper's id: nothing
\* re-keys them while commands wait.
ArrivalOrder == (\A id \in Ids : BackendOf[id] = NoKey) => AlwaysArrivalOrder

\* "The dispatcher keys overlapping jobs onto the existing route's queue, so a
\* second reservation for an id always names the same key."
ReservationsAgree ==
  \A c \in Commands : at[c] = "keyed" => KeysAgree(JobOf(c))

\* A registered session is never shadowed by an alias of an earlier identity: its own
\* id reaches it, however resumes, identity changes and ends follow each other
\* (register_session, the alias surgery of apply_session_identity).
NoSessionShadowed == \A id \in sessions : aliases[id] = NoKey
==============================================================================
