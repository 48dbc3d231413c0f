------------------------ MODULE SessionRoutingProofs -------------------------
(* The routing of one conversation's commands, for every number of ids,        *)
(* commands and launch permits: the registry never shadows a session, the      *)
(* reservations agree where resumes overlap, and commands act in the order     *)
(* they arrived where nothing re-keys the conversation.                        *)
EXTENDS SessionRouting, IntakeExecutorProofs, FilteringProofs

------------------------------------------------------------------------------
(* The invariants. *)

Conversation(c) == SessionOf[Targets[c][1]]

\* The command the receive loop is busy with: it looks around, or runs the body.
InHand(c) == \/ at[c] \in {"raw", "resolve", "canonical", "keyed"}
             \/ at[c] = "body" /\ stage[c] = "new"

RegistryTyped ==
  /\ sessions \subseteq Ids
  /\ aliases \in [Ids -> Ids \cup {NoKey}]
  /\ scenario \in Scenarios

RegistryInv == RegistryTyped /\ NoSessionShadowed

OneInHand == \A c, d \in Commands : InHand(c) /\ InHand(d) => c = d

EnqueuedOnward ==
  \A c \in Commands : stage[c] # "new" => at[c] \in {"deferred", "body", "over"}

\* Aliases, and the ids found for a command, stay inside its conversation.
AliasesInside == \A id \in Ids : aliases[id] # NoKey => SessionOf[aliases[id]] = SessionOf[id]
CanonicalInside ==
  \A c \in Commands : /\ IsFiniteSet(canonical[c])
                      /\ \A k \in canonical[c] : SessionOf[k] = Conversation(c)

ProbesAreFast == \A c \in Commands : at[c] = "raw" => c \notin Resumes
ChosenKey == \A c \in Commands : at[c] = "keyed" => keyOf[c] \in Keys

\* An enqueued resume reserves the ids it addresses, a fast command none.
JobsReserve ==
  \A c \in Commands : stage[c] # "new" =>
    job[c].routes = IF c \in Resumes THEN ToSet(Targets[c]) \cup canonical[c] ELSE {}

LoopInv == /\ OneInHand
           /\ EnqueuedOnward
           /\ AliasesInside
           /\ CanonicalInside
           /\ ProbesAreFast
           /\ ChosenKey
           /\ JobsReserve
           /\ ReservationsAgree

RoutingInv == RoutingTypeOK /\ IInv /\ RegistryInv /\ LoopInv

------------------------------------------------------------------------------
(* What keeps the order of arrival. *)

NoBackendIds == \A id \in Ids : BackendOf[id] = NoKey

\* What a resume of the conversation of c names first: its wrapper, and its queue.
HomeOf(c, k) == \E d \in Resumes : Conversation(d) = Conversation(c) /\ k = Targets[d][1]
IsHome(k) == \E d \in Resumes : k = Targets[d][1]

ArrivedOnce ==
  /\ \A c \in Commands : at[c] # "unsent" <=> \E i \in 1..Len(arrived) : arrived[i] = c
  /\ \A i, h \in 1..Len(arrived) : arrived[i] = arrived[h] => i = h

HandLast == \A c \in Commands : InHand(c) => arrived[Len(arrived)] = c

\* The command and its job advance together.
StagesFollow ==
  \A c \in Commands :
    /\ at[c] = "deferred" => stage[c] \in {"queued", "taken"}
    /\ at[c] = "body" => stage[c] \in {"new", "taken"}
    /\ stage[c] = "queued" => at[c] = "deferred"
    /\ stage[c] = "settled" => at[c] = "over"
    /\ at[c] = "body" /\ c \in Resumes => stage[c] = "taken"
    /\ workers[c].pc = "settle" => at[workers[c].job] = "over"

SubmittedAsArrived ==
  \A p, q \in 1..Len(submitted) : \A i, h \in 1..Len(arrived) :
    submitted[p] = arrived[i] /\ submitted[q] = arrived[h] /\ p < q => i < h

\* Those that arrived before a command that acted are over.
RanInTurn ==
  \A p \in 1..Len(ran) :
    /\ at[ran[p]] = "over"
    /\ \A i, h \in 1..Len(arrived) :
         arrived[h] = ran[p] /\ i < h /\ Conversation(arrived[i]) = Conversation(arrived[h])
           => at[arrived[i]] = "over"

RanAsArrived ==
  \A p, q \in 1..Len(ran) : \A i, h \in 1..Len(arrived) :
    /\ p < q /\ ran[p] = arrived[i] /\ ran[q] = arrived[h]
    /\ Conversation(ran[p]) = Conversation(ran[q])
    => i <= h

\* Sessions and keys are homes; an alias leads straight to a session.
HomeSessions == \A s \in sessions : IsHome(s)
AliasesLive == \A id \in Ids : aliases[id] # NoKey => aliases[id] \in sessions
CanonicalHome == \A c \in Commands : \A k \in canonical[c] : IsHome(k)

KeysHome ==
  \A c \in Commands : /\ at[c] = "keyed" => HomeOf(c, keyOf[c])
                      /\ stage[c] # "new" => HomeOf(c, job[c].key)

BusyHasJob ==
  \A k \in Keys : QueueBusy(k) => \E c \in Commands : stage[c] # "new" /\ job[c].key = k

\* A fast command in hand has seen nothing busy for the ids it looked at.
ClearTargets ==
  \A c \in Commands \ Resumes : InHand(c) /\ at[c] \in {"resolve", "canonical", "body"} =>
    \A id \in ToSet(Targets[c]) : ~HasRoute(id) /\ ~QueueBusy(id)
ClearCanonical ==
  \A c \in Commands \ Resumes :
    /\ at[c] = "canonical" => Resolved(c) \subseteq canonical[c]
    /\ InHand(c) /\ at[c] = "body" => \A k \in Resolved(c) : ~QueueBusy(k)

TurnInv == /\ OrderInv
           /\ ArrivedOnce
           /\ HandLast
           /\ StagesFollow
           /\ SubmittedAsArrived
           /\ RanInTurn
           /\ RanAsArrived
           /\ HomeSessions
           /\ AliasesLive
           /\ CanonicalHome
           /\ KeysHome
           /\ BusyHasJob
           /\ ClearTargets
           /\ ClearCanonical

RoutesInTurn == NoBackendIds => TurnInv
------------------------------------------------------------------------------
(* Following aliases. *)

\* The recursion has a solution, so the function is what its equation says.
LEMMA FollowedEquation ==
  \A n \in 0..8 : Followed[n] =
    [id \in Ids |-> IF id \in sessions THEN id
                    ELSE IF n = 0 \/ aliases[id] \in {NoKey, id} THEN NoKey
                    ELSE Followed[n - 1][aliases[id]]]
<1> DEFINE Value(g, n) == [id \in Ids |-> IF id \in sessions THEN id
                                          ELSE IF n = 0 \/ aliases[id] \in {NoKey, id} THEN NoKey
                                          ELSE g[n - 1][aliases[id]]]
           P == {m \in 0..8 : \E g : g = [n \in 0..m |-> Value(g, n)]}
<1>1. 0 \in P
  <2> DEFINE g == [n \in 0..0 |-> Value(<<>>, 0)]
  <2>1. Value(g, 0) = Value(<<>>, 0)
    OBVIOUS
  <2> HIDE DEF Value
  <2>2. g = [n \in 0..0 |-> Value(g, n)]
    BY <2>1
  <2> HIDE DEF g
  <2> QED
    BY <2>2
<1>2. ASSUME NEW i \in 1..8, i - 1 \in P PROVE i \in P
  <2>1. PICK g : g = [n \in 0..(i - 1) |-> Value(g, n)]
    BY <1>2
  <2> DEFINE h == [n \in 0..i |-> IF n = i THEN Value(g, i) ELSE g[n]]
  <2>2. \A n \in 0..(i - 1) : h[n] = g[n] /\ g[n] = Value(g, n)
    <3> HIDE DEF Value
    <3>1. ASSUME NEW n \in 0..(i - 1) PROVE g[n] = Value(g, n)
      BY <2>1, <3>1, Zenon
    <3>2. ASSUME NEW n \in 0..(i - 1) PROVE h[n] = g[n]
      OBVIOUS
    <3> QED
      BY <3>1, <3>2
  <2>3. h[i] = Value(g, i)
    <3> HIDE DEF Value
    <3> QED
      OBVIOUS
  <2>4. ASSUME NEW n \in 0..i PROVE h[n] = Value(h, n)
    <3>1. h[n] = Value(g, n)
      <4>1. n \in 0..(i - 1) \/ n = i
        OBVIOUS
      <4> HIDE DEF h, Value
      <4> QED
        BY <2>2, <2>3, <4>1, Zenon
    <3>2. n # 0 => h[n - 1] = g[n - 1]
      <4>1. n # 0 => n - 1 \in 0..(i - 1)
        OBVIOUS
      <4> HIDE DEF h, Value
      <4> QED
        BY <2>2, <4>1
    <3> HIDE DEF h
    <3>3. Value(g, n) = Value(h, n)
      BY <3>2, Zenon
    <3> QED
      BY <3>1, <3>3, Zenon
  <2>5. h = [n \in 0..i |-> h[n]]
    OBVIOUS
  <2> HIDE DEF h, Value
  <2>6. h = [n \in 0..i |-> Value(h, n)]
    BY <2>4, <2>5
  <2>7. i \in 0..8
    OBVIOUS
  <2> QED
    BY <2>6, <2>7
<1> HIDE DEF P, Value
<1>3. 8 \in P
  <2>1. 0..8 \subseteq P
    BY ONLY <1>1, <1>2, Climb
  <2> QED
    BY ONLY <2>1
<1>4. \E g : g = [n \in 0..8 |-> Value(g, n)]
  BY <1>3 DEF P
<1>5. Followed = [n \in 0..8 |-> Value(Followed, n)]
  BY <1>4 DEF Followed, Value
<1>6. ASSUME NEW n \in 0..8 PROVE Followed[n] = Value(Followed, n)
  BY <1>5, <1>6, Zenon
<1> QED
  BY <1>6 DEF Value

\* A registry key is its own id.
LEMMA OwnId == \A id \in Ids : id \in sessions => Resolve(id) = id
BY FollowedEquation DEF Resolve

\* What an id leads to is a session, of its own conversation.
LEMMA Reaches ==
  RegistryTyped =>
    \A id \in Ids : /\ Resolve(id) \in sessions \cup {NoKey}
                    /\ AliasesInside /\ Resolve(id) # NoKey
                         => SessionOf[Resolve(id)] = SessionOf[id]
<1> SUFFICES ASSUME RegistryTyped
             PROVE  \A id \in Ids : /\ Resolve(id) \in sessions \cup {NoKey}
                                    /\ AliasesInside /\ Resolve(id) # NoKey
                                         => SessionOf[Resolve(id)] = SessionOf[id]
  OBVIOUS
<1> DEFINE Fine(n) == \A id \in Ids :
             /\ Followed[n][id] \in sessions \cup {NoKey}
             /\ AliasesInside /\ Followed[n][id] # NoKey
                  => SessionOf[Followed[n][id]] = SessionOf[id]
           P == {n \in 0..8 : Fine(n)}
<1>1. 0 \in P
  <2>1. \A id \in Ids : Followed[0][id] = IF id \in sessions THEN id ELSE NoKey
    BY FollowedEquation
  <2> QED
    BY <2>1
<1>2. ASSUME NEW i \in 1..8, i - 1 \in P PROVE i \in P
  <2>1. Fine(i - 1)
    BY <1>2
  <2>2. i \in 0..8 /\ i # 0
    OBVIOUS
  <2>3. ASSUME NEW id \in Ids
        PROVE  /\ Followed[i][id] \in sessions \cup {NoKey}
               /\ AliasesInside /\ Followed[i][id] # NoKey
                    => SessionOf[Followed[i][id]] = SessionOf[id]
    <3>1. Followed[i][id] = IF id \in sessions THEN id
                            ELSE IF aliases[id] \in {NoKey, id} THEN NoKey
                            ELSE Followed[i - 1][aliases[id]]
      BY <2>2, FollowedEquation
    <3>2. aliases[id] \in Ids \cup {NoKey}
      BY DEF RegistryTyped
    <3> QED
      BY <2>1, <3>1, <3>2 DEF AliasesInside
  <2> QED
    BY <2>2, <2>3
<1> HIDE DEF P
<1>3. 8 \in P
  <2>1. 0..8 \subseteq P
    BY ONLY <1>1, <1>2, Climb
  <2> QED
    BY ONLY <2>1
<1> QED
  BY <1>3 DEF P, Resolve

\* Where every alias names a session, an id is one or is an alias of one.
LEMMA Direct ==
  RegistryTyped /\ AliasesLive =>
    \A id \in Ids : Resolve(id) = IF id \in sessions THEN id ELSE aliases[id]
<1> SUFFICES ASSUME RegistryTyped, AliasesLive, NEW id \in Ids
             PROVE  Resolve(id) = IF id \in sessions THEN id ELSE aliases[id]
  OBVIOUS
<1>1. Resolve(id) = IF id \in sessions THEN id
                    ELSE IF aliases[id] \in {NoKey, id} THEN NoKey
                    ELSE Followed[7][aliases[id]]
  BY FollowedEquation DEF Resolve
<1>2. aliases[id] # NoKey => aliases[id] \in sessions /\ aliases[id] \in Ids
  BY DEF AliasesLive, RegistryTyped
<1>3. aliases[id] \in sessions => Followed[7][aliases[id]] = aliases[id]
  BY FollowedEquation DEF RegistryTyped
<1> QED
  BY <1>1, <1>2, <1>3

\* What a scenario says: one or two ids of one conversation for each command.
LEMMA TargetsAre ==
  RegistryTyped =>
    \A c \in Commands :
      /\ Targets[c] \in Seq(Ids) /\ Len(Targets[c]) > 0
      /\ DOMAIN Targets[c] = 1..Len(Targets[c])
      /\ Targets[c][1] \in ToSet(Targets[c]) /\ Last(Targets[c]) \in ToSet(Targets[c])
      /\ ToSet(Targets[c]) \subseteq Ids
      /\ \A id \in ToSet(Targets[c]) : SessionOf[id] = Conversation(c)
<1> SUFFICES ASSUME RegistryTyped, NEW c \in Commands
             PROVE  /\ Targets[c] \in Seq(Ids) /\ Len(Targets[c]) > 0
                    /\ DOMAIN Targets[c] = 1..Len(Targets[c])
                    /\ Targets[c][1] \in ToSet(Targets[c]) /\ Last(Targets[c]) \in ToSet(Targets[c])
                    /\ ToSet(Targets[c]) \subseteq Ids
                    /\ \A id \in ToSet(Targets[c]) : SessionOf[id] = Conversation(c)
  OBVIOUS
<1> DEFINE s == Targets[c]
<1>1. s \in Addressed /\ \A i, k \in DOMAIN s : SessionOf[s[i]] = SessionOf[s[k]]
  BY RoutingAssumption DEF RegistryTyped, Targets
<1>2. PICK n \in 1..2 : s \in [1..n -> Ids]
  BY <1>1 DEF Addressed
<1> HIDE DEF s
<1>3. s \in Seq(Ids) /\ Len(s) = n /\ DOMAIN s = 1..n
  BY <1>2
<1>4. 1 \in 1..n /\ n \in 1..n
  OBVIOUS
<1>5. ToSet(s) = {s[i] : i \in 1..n}
  BY <1>3 DEF ToSet
<1>6. Last(s) = s[n]
  BY <1>3 DEF Last
<1>7. s[1] \in ToSet(s) /\ s[n] \in ToSet(s) /\ ToSet(s) \subseteq Ids
  BY <1>2, <1>4, <1>5
<1>8. \A id \in ToSet(s) : SessionOf[id] = SessionOf[s[1]]
  BY <1>1, <1>3, <1>4, <1>5
<1>9. s = Targets[c]
  BY DEF s
<1> QED
  BY <1>3, <1>4, <1>6, <1>7, <1>8, <1>9 DEF Conversation

\* The id a backend reports, and the token of a resume, belong to the conversation.
LEMMA BackendIs ==
  RegistryTyped =>
    /\ \A id \in Ids : /\ BackendOf[id] \in Ids \cup {NoKey}
                       /\ BackendOf[id] # NoKey => SessionOf[BackendOf[id]] = SessionOf[id]
    /\ \A c \in Commands : /\ TokenOf(c) \in Ids
                           /\ SessionOf[TokenOf(c)] = Conversation(c)
                           /\ LogOf[Targets[c][1]] \in Ids
                           /\ SessionOf[LogOf[Targets[c][1]]] = Conversation(c)
<1> SUFFICES ASSUME RegistryTyped
             PROVE  /\ \A id \in Ids : /\ BackendOf[id] \in Ids \cup {NoKey}
                                       /\ BackendOf[id] # NoKey => SessionOf[BackendOf[id]] = SessionOf[id]
                    /\ \A c \in Commands : /\ TokenOf(c) \in Ids
                                           /\ SessionOf[TokenOf(c)] = Conversation(c)
                                           /\ LogOf[Targets[c][1]] \in Ids
                                           /\ SessionOf[LogOf[Targets[c][1]]] = Conversation(c)
  OBVIOUS
<1>1. \A id \in Ids : /\ BackendOf[id] \in Ids \cup {NoKey}
                      /\ BackendOf[id] # NoKey => SessionOf[BackendOf[id]] = SessionOf[id]
  BY RoutingAssumption DEF RegistryTyped, BackendOf
<1>2. ASSUME NEW c \in Commands
      PROVE  /\ TokenOf(c) \in Ids
             /\ SessionOf[TokenOf(c)] = Conversation(c)
             /\ LogOf[Targets[c][1]] \in Ids
             /\ SessionOf[LogOf[Targets[c][1]]] = Conversation(c)
  <2>1. /\ Targets[c][1] \in Ids /\ SessionOf[Targets[c][1]] = Conversation(c)
        /\ Last(Targets[c]) \in Ids /\ SessionOf[Last(Targets[c])] = Conversation(c)
    BY TargetsAre
  <2>2. /\ LogOf[Targets[c][1]] \in Ids
        /\ SessionOf[LogOf[Targets[c][1]]] = SessionOf[Targets[c][1]]
    BY <2>1, RoutingAssumption
  <2>3. TokenOf(c) = IF BackendOf[Targets[c][1]] # NoKey THEN BackendOf[Targets[c][1]]
                     ELSE Last(Targets[c])
    BY DEF TokenOf
  <2> QED
    BY <1>1, <2>1, <2>2, <2>3
<1> QED
  BY <1>1, <1>2

------------------------------------------------------------------------------
(* The registry. *)

\* What a step may do to the registry: nothing, or what its four writers do.
RegistryStep ==
  \/ UNCHANGED regVars
  \/ \E c \in Commands :
       /\ ResumeBody(c) /\ Resolve(TokenOf(c)) = NoKey
       /\ sessions' = sessions \cup {LogOf[Targets[c][1]]}
       /\ aliases' = AliasesWith(LogOf[Targets[c][1]], TokenOf(c))
  \/ \E id \in Ids : ApplyIdentity(id) \/ SessionEnds(id)

\* Every step of the system is one of them.
LEMMA RegistrySteps == [RoutingNext]_routingVars => RegistryStep /\ scenario' = scenario
<1> SUFFICES ASSUME [RoutingNext]_routingVars PROVE RegistryStep /\ scenario' = scenario
  OBVIOUS
<1> USE DEF RegistryStep
<1>1. CASE UNCHANGED routingVars
  BY <1>1 DEF routingVars
<1>2. CASE RoutingNext
  <2>1. scenario' = scenario
    BY <1>2 DEF RoutingNext
  <2>2. ASSUME NEW c \in Commands,
               \/ Take(c) \/ ProbeRaw(c) \/ ResolveTargets(c) \/ ProbeCanonical(c)
               \/ ChooseSlowKey(c) \/ Defer(c) \/ BodyBegins(c) \/ FastBody(c) \/ ExecutorStep(c)
        PROVE  RegistryStep
    BY <2>2 DEF Take, ProbeRaw, ResolveTargets, ProbeCanonical, ChooseSlowKey, Defer,
                BodyBegins, FastBody, ExecutorStep
  <2>3. ASSUME NEW c \in Commands, ResumeBody(c)
        PROVE  RegistryStep
    BY <2>3 DEF ResumeBody
  <2>4. ASSUME NEW id \in Ids, ApplyIdentity(id) \/ SessionEnds(id)
        PROVE  RegistryStep
    BY <2>4
  <2> QED
    BY <1>2, <2>1, <2>2, <2>3, <2>4 DEF RoutingNext
<1> QED
  BY <1>1, <1>2

\* An identity re-keys to an id, and leaves the other aliases or clears them.
LEMMA IdentityIs ==
  RegistryTyped =>
    \A id \in Ids : ApplyIdentity(id) =>
      /\ BackendOf[id] \in Ids /\ Resolve(id) \in sessions
      /\ sessions' = (sessions \ {Resolve(id)}) \cup {BackendOf[id]}
      /\ \A a \in Ids : aliases'[a] = IF a \in {id, Resolve(id)} \ {BackendOf[id]} THEN BackendOf[id]
                                      ELSE IF /\ Resolve(id) # BackendOf[id]
                                              /\ \/ a = BackendOf[id]
                                                 \/ BackendOf[id] \in sessions /\ aliases[a] = Resolve(id)
                                      THEN NoKey ELSE aliases[a]
      /\ aliases' \in [Ids -> Ids \cup {NoKey}]
<1> SUFFICES ASSUME RegistryTyped, NEW id \in Ids, ApplyIdentity(id)
             PROVE  /\ BackendOf[id] \in Ids /\ Resolve(id) \in sessions
                    /\ sessions' = (sessions \ {Resolve(id)}) \cup {BackendOf[id]}
                    /\ \A a \in Ids : aliases'[a] = IF a \in {id, Resolve(id)} \ {BackendOf[id]} THEN BackendOf[id]
                                                    ELSE IF /\ Resolve(id) # BackendOf[id]
                                                            /\ \/ a = BackendOf[id]
                                                               \/ BackendOf[id] \in sessions /\ aliases[a] = Resolve(id)
                                                    THEN NoKey ELSE aliases[a]
                    /\ aliases' \in [Ids -> Ids \cup {NoKey}]
  OBVIOUS
<1>1. BackendOf[id] \in Ids /\ Resolve(id) \in sessions
  BY BackendIs, Reaches DEF ApplyIdentity
<1>2. /\ sessions' = (sessions \ {Resolve(id)}) \cup {BackendOf[id]}
      /\ aliases' = RekeyedAliases(id, Resolve(id), BackendOf[id])
  BY DEF ApplyIdentity
<1>3. \A a \in Ids : aliases[a] \in Ids \cup {NoKey}
  BY DEF RegistryTyped
<1> QED
  BY <1>1, <1>2, <1>3 DEF RekeyedAliases

\* A registration adds the wrapper and the alias of the token it resumes.
LEMMA RegistrationIs ==
  RegistryTyped =>
    \A id, token \in Ids : aliases' = AliasesWith(id, token) =>
      /\ aliases' \in [Ids -> Ids \cup {NoKey}]
      /\ \A a \in Ids : aliases'[a] = IF a = token THEN (IF token # id THEN id ELSE NoKey)
                                      ELSE IF a = id THEN NoKey ELSE aliases[a]
BY DEF RegistryTyped, AliasesWith

\* The end of a session clears the aliases that lead to it.
LEMMA EndIs ==
  RegistryTyped =>
    \A id \in Ids : SessionEnds(id) =>
      /\ aliases' \in [Ids -> Ids \cup {NoKey}]
      /\ \A a \in Ids : aliases'[a] = IF a = id \/ aliases[a] = id THEN NoKey ELSE aliases[a]
BY DEF RegistryTyped, SessionEnds

\* The registry stays well formed.
LEMMA RegistryTypedStep == RegistryTyped /\ [RoutingNext]_routingVars => RegistryTyped'
<1> SUFFICES ASSUME RegistryTyped, [RoutingNext]_routingVars PROVE RegistryTyped'
  OBVIOUS
<1>1. RegistryStep /\ scenario' = scenario
  BY RegistrySteps
<1>2. CASE UNCHANGED regVars
  BY <1>1, <1>2 DEF RegistryTyped, regVars
<1>3. ASSUME NEW c \in Commands,
             sessions' = sessions \cup {LogOf[Targets[c][1]]},
             aliases' = AliasesWith(LogOf[Targets[c][1]], TokenOf(c))
      PROVE  RegistryTyped'
  <2>1. LogOf[Targets[c][1]] \in Ids /\ TokenOf(c) \in Ids
    BY BackendIs
  <2>2. aliases' \in [Ids -> Ids \cup {NoKey}]
    BY <1>3, <2>1, RegistrationIs
  <2> QED
    BY <1>1, <1>3, <2>1, <2>2 DEF RegistryTyped
<1>4. ASSUME NEW id \in Ids, ApplyIdentity(id)
      PROVE  RegistryTyped'
  BY <1>1, <1>4, IdentityIs DEF RegistryTyped
<1>5. ASSUME NEW id \in Ids, SessionEnds(id)
      PROVE  RegistryTyped'
  <2>1. sessions' \subseteq sessions
    BY <1>5 DEF SessionEnds
  <2> QED
    BY <1>1, <1>5, <2>1, EndIs DEF RegistryTyped
<1> QED
  BY <1>1, <1>2, <1>3, <1>4, <1>5 DEF RegistryStep

\* No writer of the registry leaves an alias on the id of a session.
LEMMA NoSessionShadowedStep == RegistryInv /\ [RoutingNext]_routingVars => NoSessionShadowed'
<1> SUFFICES ASSUME RegistryInv, [RoutingNext]_routingVars PROVE NoSessionShadowed'
  OBVIOUS
<1> USE DEF NoSessionShadowed
<1>1. RegistryTyped /\ NoSessionShadowed /\ RegistryStep
  BY RegistrySteps DEF RegistryInv
<1>2. CASE UNCHANGED regVars
  BY <1>1, <1>2 DEF regVars
<1>3. ASSUME NEW c \in Commands, Resolve(TokenOf(c)) = NoKey,
             sessions' = sessions \cup {LogOf[Targets[c][1]]},
             aliases' = AliasesWith(LogOf[Targets[c][1]], TokenOf(c))
      PROVE  NoSessionShadowed'
  <2>1. LogOf[Targets[c][1]] \in Ids /\ TokenOf(c) \in Ids
    BY <1>1, BackendIs
  <2>2. TokenOf(c) \notin sessions
    BY <1>3, <2>1, OwnId, RoutingAssumption, AbsentAssumption
  <2>3. \A a \in Ids : aliases'[a] = IF a = TokenOf(c)
                                     THEN (IF TokenOf(c) # LogOf[Targets[c][1]]
                                           THEN LogOf[Targets[c][1]] ELSE NoKey)
                                     ELSE IF a = LogOf[Targets[c][1]] THEN NoKey ELSE aliases[a]
    BY <1>1, <1>3, <2>1, RegistrationIs
  <2>4. sessions \subseteq Ids
    BY <1>1 DEF RegistryTyped
  <2> QED
    BY <1>1, <1>3, <2>1, <2>2, <2>3, <2>4
<1>4. ASSUME NEW id \in Ids, ApplyIdentity(id)
      PROVE  NoSessionShadowed'
  <2> DEFINE current == Resolve(id)
             backend == BackendOf[id]
  <2>1. /\ backend \in Ids /\ current \in sessions
        /\ sessions' = (sessions \ {current}) \cup {backend}
        /\ \A a \in Ids : aliases'[a] = IF a \in {id, current} \ {backend} THEN backend
                                        ELSE IF /\ current # backend
                                                /\ \/ a = backend
                                                   \/ backend \in sessions /\ aliases[a] = current
                                        THEN NoKey ELSE aliases[a]
    BY <1>1, <1>4, IdentityIs
  <2>2. id \in sessions => current = id
    BY OwnId
  <2>3. sessions \subseteq Ids
    BY <1>1 DEF RegistryTyped
  <2> HIDE DEF current, backend
  <2>4. ASSUME NEW s \in sessions', s = backend
        PROVE  aliases'[s] = NoKey
    BY <1>1, <2>1, <2>4
  <2>5. ASSUME NEW s \in sessions', s # backend
        PROVE  aliases'[s] = NoKey
    <3>1. s \in sessions /\ s # current /\ s # id
      BY <2>1, <2>2, <2>5
    <3> QED
      BY <1>1, <2>1, <2>3, <3>1
  <2> QED
    BY <2>4, <2>5
<1>5. ASSUME NEW id \in Ids, SessionEnds(id)
      PROVE  NoSessionShadowed'
  <2>1. sessions' \subseteq sessions
    BY <1>5 DEF SessionEnds
  <2>2. \A a \in Ids : aliases'[a] = IF a = id \/ aliases[a] = id THEN NoKey ELSE aliases[a]
    BY <1>1, <1>5, EndIs
  <2>3. sessions \subseteq Ids
    BY <1>1 DEF RegistryTyped
  <2> QED
    BY <1>1, <2>1, <2>2, <2>3
<1> QED
  BY <1>1, <1>2, <1>3, <1>4, <1>5 DEF RegistryStep

\* The registry starts empty.
LEMMA RegistryInit == RoutingInit => RegistryInv
BY DEF RoutingInit, RegistryInv, RegistryTyped, NoSessionShadowed

\* The registry is well formed and shadows no session, whatever is asked of it.
THEOREM RegistryInvAlways == RoutingSpec => []RegistryInv
<1>1. RegistryInv /\ [RoutingNext]_routingVars => RegistryInv'
  BY RegistryTypedStep, NoSessionShadowedStep DEF RegistryInv
<1> QED
  BY <1>1, RegistryInit, PTL DEF RoutingSpec

\* A registered session is reached by its own id, never shadowed by an alias of an
\* earlier identity, however resumes, identity changes and ends follow each other.
THEOREM NoSessionShadowedAlways == RoutingSpec => []NoSessionShadowed
<1>1. RegistryInv => NoSessionShadowed
  BY DEF RegistryInv
<1> QED
  BY <1>1, RegistryInvAlways, PTL

------------------------------------------------------------------------------
(* What the loop looks at: pending routes and busy queues. *)

\* A pending route is held by an unsettled job, under its key.
LEMMA RouteHeld ==
  IInv => \A id \in Ids : HasRoute(id) =>
    /\ \E j \in Jobs : Unsettled(j) /\ id \in job[j].routes /\ job[j].key = RouteKey(id)
    /\ RouteKey(id) \in Keys
<1> SUFFICES ASSUME IInv, NEW id \in Ids, HasRoute(id)
             PROVE  /\ \E j \in Jobs : Unsettled(j) /\ id \in job[j].routes /\ job[j].key = RouteKey(id)
                    /\ RouteKey(id) \in Keys
  OBVIOUS
<1>1. /\ routes[id].refs = Cardinality(Holders(id))
      /\ \A j \in Holders(id) : routes[id].key = job[j].key
  BY DEF IInv, RoutesPairUp, Holders
<1>2. Holders(id) # {}
  BY <1>1, FS_EmptySet DEF HasRoute
<1>3. PICK j \in Holders(id) : TRUE
  BY <1>2
<1>4. j \in Jobs /\ Unsettled(j) /\ id \in job[j].routes
  BY DEF Holders
<1>5. job[j].key \in Keys
  BY <1>4 DEF IInv, JobsKeyed, Unsettled
<1> QED
  BY <1>1, <1>4, <1>5 DEF RouteKey

\* An unsettled job holds each route it reserved.
LEMMA HeldRoute ==
  IInv => \A j \in Jobs : Unsettled(j) => \A id \in Ids : id \in job[j].routes =>
    HasRoute(id) /\ RouteKey(id) = job[j].key
<1> SUFFICES ASSUME IInv, NEW j \in Jobs, Unsettled(j), NEW id \in Ids, id \in job[j].routes
             PROVE  HasRoute(id) /\ RouteKey(id) = job[j].key
  OBVIOUS
<1>1. /\ routes[id].refs = Cardinality(Holders(id))
      /\ \A h \in Holders(id) : routes[id].key = job[h].key
  BY DEF IInv, RoutesPairUp, Holders
<1>2. j \in Holders(id)
  BY DEF Holders
<1>3. IsFiniteSet(Holders(id))
  BY JobsAssumption, FS_Subset DEF Holders
<1>4. Cardinality(Holders(id)) \in Nat /\ Cardinality(Holders(id)) # 0
  <2> DEFINE H == Holders(id)
  <2>1. IsFiniteSet(H) /\ H # {}
    BY <1>2, <1>3
  <2> HIDE DEF H
  <2>2. Cardinality(H) \in Nat /\ Cardinality(H) # 0
    BY <2>1, FS_CardinalityType, FS_EmptySet
  <2> QED
    BY <2>2 DEF H
<1> QED
  BY <1>1, <1>2, <1>4 DEF HasRoute, RouteKey

\* The busy key of some ids is a key one of them is busy under; there is none
\* exactly when nothing is pending for any of them.
LEMMA BusyKeyIs ==
  IInv => \A s \in Seq(Ids) :
    /\ BusyKey(s) \in Keys \cup {NoKey}
    /\ BusyKey(s) # NoKey =>
         \E id \in ToSet(s) : \/ HasRoute(id) /\ BusyKey(s) = RouteKey(id)
                              \/ QueueBusy(id) /\ BusyKey(s) = id
    /\ BusyKey(s) = NoKey => \A id \in ToSet(s) : ~HasRoute(id) /\ ~QueueBusy(id)
<1> SUFFICES ASSUME IInv, NEW s \in Seq(Ids)
             PROVE  /\ BusyKey(s) \in Keys \cup {NoKey}
                    /\ BusyKey(s) # NoKey =>
                         \E id \in ToSet(s) : \/ HasRoute(id) /\ BusyKey(s) = RouteKey(id)
                                              \/ QueueBusy(id) /\ BusyKey(s) = id
                    /\ BusyKey(s) = NoKey => \A id \in ToSet(s) : ~HasRoute(id) /\ ~QueueBusy(id)
  OBVIOUS
<1> DEFINE hits == {i \in DOMAIN s : BusyKeys(s[i]) # {}}
           i0 == CHOOSE i \in hits : \A h \in hits : i <= h
           k0 == CHOOSE k \in BusyKeys(s[i0]) : TRUE
<1>1. BusyKey(s) = IF hits = {} THEN NoKey ELSE k0
  BY DEF BusyKey, FirstBusy
<1>2. \A id \in Ids : \A k \in BusyKeys(id) : /\ k \in Keys
                                             /\ \/ HasRoute(id) /\ k = RouteKey(id)
                                                \/ QueueBusy(id) /\ k = id
  BY RouteHeld, RoutingAssumption DEF BusyKeys, RouteOf
<1>3. \A id : BusyKeys(id) = {} => ~HasRoute(id) /\ ~QueueBusy(id)
  BY DEF BusyKeys, RouteOf
<1>4. Len(s) \in Nat /\ DOMAIN s = 1..Len(s) /\ \A i \in 1..Len(s) : s[i] \in Ids
  OBVIOUS
<1>5. ToSet(s) = {s[i] : i \in 1..Len(s)}
  BY <1>4 DEF ToSet
<1> HIDE DEF k0
<1>6. CASE hits = {}
  <2>1. \A i \in 1..Len(s) : BusyKeys(s[i]) = {}
    BY <1>4, <1>6
  <2> QED
    BY <1>1, <1>3, <1>5, <1>6, <2>1
<1>7. CASE hits # {}
  <2>1. hits \in SUBSET (1..Len(s))
    BY <1>4
  <2>2. i0 = Min(hits)
    BY DEF Min
  <2>3. i0 \in hits
    <3> HIDE DEF hits, i0
    <3> QED
      BY <1>4, <1>7, <2>1, <2>2, MinInSet
  <2>4. i0 \in 1..Len(s) /\ BusyKeys(s[i0]) # {}
    BY <2>1, <2>3
  <2>5. s[i0] \in Ids /\ s[i0] \in ToSet(s)
    BY <1>4, <1>5, <2>4
  <2> HIDE DEF i0, hits
  <2>6. k0 \in BusyKeys(s[i0])
    BY <2>4 DEF k0
  <2> QED
    BY <1>1, <1>2, <1>7, <2>5, <2>6, RoutingAssumption, AbsentAssumption
<1> QED
  BY <1>6, <1>7

\* A finite set as a sequence of its members.
LEMMA SetAsSequence ==
  ASSUME NEW S, IsFiniteSet(S)
  PROVE  SetToSeq(S) \in Seq(S) /\ ToSet(SetToSeq(S)) = S
<1> DEFINE n == Cardinality(S)
           q == SetToSeq(S)
<1>1. n \in Nat /\ \E f \in [1..n -> S] : IsInjective(f)
  <2>1. PICK m \in Nat : ExistsBijection(1..m, S)
    BY FS_NatBijection
  <2>2. n = m
    BY <2>1, FS_CountingElements
  <2>3. PICK f \in Bijection(1..m, S) : TRUE
    BY <2>1 DEF ExistsBijection
  <2> QED
    BY <2>2, <2>3 DEF Bijection, Injection
<1>2. q \in [1..n -> S] /\ IsInjective(q)
  BY <1>1 DEF SetToSeq
<1>3. q \in Seq(S) /\ Len(q) = n /\ DOMAIN q = 1..n
  BY <1>1, <1>2
<1>4. q \in Injection(1..n, S)
  BY <1>2 DEF Injection
<1>5. q \in Surjection(1..n, S)
  <2>1. IsFiniteSet(1..n) /\ Cardinality(1..n) = n
    BY <1>1, FS_Interval
  <2> HIDE DEF q
  <2> QED
    BY <1>4, <2>1, FS_Injection
<1> HIDE DEF q, n
<1>6. \A x \in S : \E i \in 1..n : q[i] = x
  BY <1>5 DEF Surjection
<1>7. ToSet(q) = S
  BY <1>2, <1>3, <1>6 DEF ToSet
<1> QED
  BY <1>3, <1>7 DEF q

\* The key of a resume: that of a pending route of its ids, or one of them when
\* none is pending (its first, unless a canonical id was not addressed).
LEMMA SlowKeyIs ==
  RegistryTyped /\ IInv =>
    \A c \in Commands : canonical[c] \in SUBSET Ids /\ IsFiniteSet(canonical[c]) =>
      /\ \/ \E id \in ToSet(Targets[c]) \cup canonical[c] :
              HasRoute(id) /\ SlowKey(c) = RouteKey(id)
         \/ /\ \A id \in ToSet(Targets[c]) \cup canonical[c] : ~HasRoute(id)
            /\ SlowKey(c) \in ToSet(Targets[c]) \cup canonical[c]
            /\ canonical[c] \subseteq ToSet(Targets[c]) => SlowKey(c) = Targets[c][1]
      /\ SlowKey(c) \in Keys
<1> SUFFICES ASSUME RegistryTyped, IInv, NEW c \in Commands,
                    canonical[c] \in SUBSET Ids, IsFiniteSet(canonical[c])
             PROVE  /\ \/ \E id \in ToSet(Targets[c]) \cup canonical[c] :
                            HasRoute(id) /\ SlowKey(c) = RouteKey(id)
                       \/ /\ \A id \in ToSet(Targets[c]) \cup canonical[c] : ~HasRoute(id)
                          /\ SlowKey(c) \in ToSet(Targets[c]) \cup canonical[c]
                          /\ canonical[c] \subseteq ToSet(Targets[c]) => SlowKey(c) = Targets[c][1]
                    /\ SlowKey(c) \in Keys
  OBVIOUS
<1> DEFINE extra == canonical[c] \ ToSet(Targets[c])
           others == SetToSeq(extra)
           all == Targets[c] \o others
           hits == {i \in DOMAIN all : HasRoute(all[i])}
           i0 == CHOOSE i \in hits : \A h \in hits : i <= h
<1>1. SlowKey(c) = IF hits # {} THEN RouteKey(all[i0])
                   ELSE IF others # <<>> THEN others[1] ELSE Targets[c][1]
  BY DEF SlowKey
<1>2. others \in Seq(extra) /\ ToSet(others) = extra
  <2>1. IsFiniteSet(extra)
    BY FS_Subset
  <2> HIDE DEF extra
  <2> QED
    BY <2>1, SetAsSequence
<1>3. /\ Targets[c] \in Seq(Ids) /\ Targets[c][1] \in ToSet(Targets[c])
      /\ ToSet(Targets[c]) \subseteq Ids
  BY TargetsAre
<1>4. extra \subseteq Ids
  OBVIOUS
<1> HIDE DEF others
<1>5. others \in Seq(Ids)
  <2> HIDE DEF extra
  <2> QED
    BY <1>2, <1>4
<1>6. /\ all \in Seq(Ids) /\ DOMAIN all = 1..Len(all) /\ Len(all) \in Nat
      /\ \A i \in 1..Len(all) : all[i] \in ToSet(Targets[c]) \cup ToSet(others)
      /\ \A id \in ToSet(Targets[c]) \cup ToSet(others) : \E i \in 1..Len(all) : all[i] = id
  <2> DEFINE s == Targets[c]
  <2> HIDE DEF s
  <2>1. s \in Seq(Ids)
    BY <1>3 DEF s
  <2>2. s \o others \in Seq(Ids) /\ Len(s \o others) = Len(s) + Len(others)
    BY <2>1, <1>5
  <2>3. /\ \A i \in 1..Len(s) : (s \o others)[i] = s[i]
        /\ \A i \in 1..Len(others) : (s \o others)[Len(s) + i] = others[i]
    BY <2>1, <1>5
  <2>4. Len(s) \in Nat /\ Len(others) \in Nat
    BY <2>1, <1>5
  <2>5. ToSet(s) = {s[i] : i \in 1..Len(s)} /\ ToSet(others) = {others[i] : i \in 1..Len(others)}
    BY <2>1, <1>5 DEF ToSet
  <2>6. ASSUME NEW i \in 1..Len(s \o others)
        PROVE  (s \o others)[i] \in ToSet(s) \cup ToSet(others)
    <3>1. i \in 1..Len(s) \/ (i - Len(s) \in 1..Len(others) /\ Len(s) + (i - Len(s)) = i)
      BY ONLY <2>2, <2>4, <2>6
    <3> QED
      BY <2>3, <2>5, <3>1
  <2>7. \A i \in 1..Len(s) : i \in 1..Len(s \o others)
    BY ONLY <2>2, <2>4
  <2>8. \A i \in 1..Len(others) : Len(s) + i \in 1..Len(s \o others)
    BY ONLY <2>2, <2>4
  <2>9. \A id \in ToSet(s) \cup ToSet(others) : \E i \in 1..Len(s \o others) : (s \o others)[i] = id
    BY <2>3, <2>5, <2>7, <2>8
  <2>10. all = s \o others
    BY DEF s
  <2>11. s = Targets[c]
    BY DEF s
  <2> HIDE DEF all
  <2> QED
    BY <2>2, <2>6, <2>9, <2>10, <2>11
<1> HIDE DEF all
<1>7. ToSet(Targets[c]) \cup ToSet(others) = ToSet(Targets[c]) \cup canonical[c]
  BY <1>2
<1>8. CASE hits # {}
  <2>1. hits \in SUBSET (1..Len(all))
    BY <1>6
  <2>2. i0 = Min(hits)
    BY DEF Min
  <2>3. i0 \in hits
    <3> HIDE DEF hits, i0
    <3> QED
      BY <1>6, <1>8, <2>1, <2>2, MinInSet
  <2>4. i0 \in 1..Len(all) /\ HasRoute(all[i0])
    BY <2>1, <2>3
  <2>5. all[i0] \in ToSet(Targets[c]) \cup canonical[c]
    BY <1>6, <1>7, <2>4
  <2>6. SlowKey(c) = RouteKey(all[i0])
    BY <1>1, <1>8
  <2>7. RouteKey(all[i0]) \in Keys
    BY <1>3, <2>4, <2>5, RouteHeld
  <2> HIDE DEF i0, hits
  <2> QED
    BY <2>4, <2>5, <2>6, <2>7
<1>9. CASE hits = {}
  <2>1. \A id \in ToSet(Targets[c]) \cup canonical[c] : ~HasRoute(id)
    BY <1>6, <1>7, <1>9
  <2>2. SlowKey(c) = IF others # <<>> THEN others[1] ELSE Targets[c][1]
    BY <1>1, <1>9
  <2> HIDE DEF hits, i0
  <2>3. others # <<>> => others[1] \in extra
    <3> HIDE DEF extra
    <3> QED
      BY <1>2
  <2>4. canonical[c] \subseteq ToSet(Targets[c]) => others = <<>>
    <3>1. ASSUME canonical[c] \subseteq ToSet(Targets[c]) PROVE others = <<>>
      <4>1. extra = {}
        BY <3>1
      <4> QED
        BY <2>3, <4>1
    <3> QED
      BY <3>1
  <2>5. SlowKey(c) \in ToSet(Targets[c]) \cup canonical[c]
    BY <1>3, <2>2, <2>3
  <2>6. SlowKey(c) \in Keys
    BY <1>3, <2>5, RoutingAssumption
  <2> QED
    BY <2>1, <2>2, <2>4, <2>5, <2>6
<1> QED
  BY <1>8, <1>9

\* What a command's ids resolve to: sessions of its conversation.
LEMMA ResolvedIs ==
  RegistryTyped =>
    \A c \in Commands :
      /\ Resolved(c) \subseteq sessions /\ IsFiniteSet(Resolved(c))
      /\ AliasesInside => \A k \in Resolved(c) : SessionOf[k] = Conversation(c)
<1> SUFFICES ASSUME RegistryTyped, NEW c \in Commands
             PROVE  /\ Resolved(c) \subseteq sessions /\ IsFiniteSet(Resolved(c))
                    /\ AliasesInside => \A k \in Resolved(c) : SessionOf[k] = Conversation(c)
  OBVIOUS
<1>1. /\ ToSet(Targets[c]) \subseteq Ids
      /\ \A id \in ToSet(Targets[c]) : SessionOf[id] = Conversation(c)
  BY TargetsAre
<1>2. \A k \in Resolved(c) : k # NoKey /\ \E id \in ToSet(Targets[c]) : k = Resolve(id)
  BY DEF Resolved
<1>3. Resolved(c) \subseteq sessions
  BY <1>1, <1>2, Reaches
<1>4. AliasesInside => \A k \in Resolved(c) : SessionOf[k] = Conversation(c)
  BY <1>1, <1>2, Reaches
<1>5. IsFiniteSet(Resolved(c))
  <2> DEFINE s == Targets[c]
             A == {Resolve(s[1])} \cup {Resolve(s[2])}
  <2>1. PICK n \in 1..2 : s \in [1..n -> Ids]
    BY RoutingAssumption DEF RegistryTyped, Targets, Addressed
  <2>2. ToSet(s) = {s[i] : i \in 1..n}
    BY <2>1 DEF ToSet
  <2>3. \A i \in 1..n : i = 1 \/ i = 2
    BY <2>1
  <2>4. Resolved(c) \subseteq A
    BY <1>2, <2>2, <2>3
  <2>5. IsFiniteSet(A)
    <3>1. ASSUME NEW a, NEW b PROVE IsFiniteSet({a} \cup {b})
      <4>1. IsFiniteSet({a})
        BY FS_Singleton
      <4> QED
        BY <4>1, FS_AddElement
    <3> QED
      BY <3>1
  <2> QED
    BY <2>4, <2>5, FS_Subset
<1> QED
  BY <1>3, <1>4, <1>5

------------------------------------------------------------------------------
(* What a step of the executor changes of what the loop sees. *)

\* A worker's step: jobs only advance, and nothing becomes pending or busy.
LEMMA WorkerMoves ==
  ASSUME IInv, NEW w \in Jobs, WorkerStep(w) \/ BodyEnds(w)
  PROVE  /\ job' = job /\ submitted' = submitted
         /\ \A j \in Jobs : \/ stage'[j] = stage[j]
                            \/ stage[j] = "queued" /\ stage'[j] = "taken"
                            \/ /\ stage[j] = "taken" /\ stage'[j] = "settled"
                               /\ workers[w].pc = "settle" /\ workers[w].job = j
         /\ \A id \in Ids : HasRoute(id)' => HasRoute(id) /\ RouteKey(id)' = RouteKey(id)
         /\ \A k \in Keys : QueueBusy(k)' => QueueBusy(k)
         /\ \A v \in Jobs : workers'[v].pc = "settle" =>
              /\ workers'[v].job = workers[v].job
              /\ workers[v].pc = "settle" \/ (v = w /\ BodyEnds(w))
<1> USE DEF HasRoute, RouteKey, QueueBusy
<1>0. /\ workers \in [Jobs -> Worker] /\ queues \in [Keys -> QueueEntry]
      /\ routes \in [Ids -> Reservation]
      /\ stage \in [Jobs -> {"new", "queued", "taken", "settled"}]
  BY DEF IInv, TypeOK
<1>1. CASE Pop(w)
  <2> DEFINE p == workers[w].key
             j == queues[p].jobs[1]
  <2>1. /\ j \in Jobs /\ stage[j] = "queued" /\ p \in Keys
        /\ Head(queues[p].jobs) = j
    BY <1>1, Popped DEF Pop
  <2>2. /\ job' = job /\ submitted' = submitted /\ routes' = routes
        /\ stage' = [stage EXCEPT ![j] = "taken"]
        /\ queues' = [queues EXCEPT ![p].jobs = Tail(queues[p].jobs)]
        /\ workers' = [workers EXCEPT ![w].job = j,
                                      ![w].pc = IF job[j].heavy THEN "permit" ELSE "run"]
    BY <1>1, <2>1 DEF Pop, holdVars
  <2> HIDE DEF j, p
  <2>3. \A i \in Jobs : stage'[i] = IF i = j THEN "taken" ELSE stage[i]
    BY <1>0, <2>2
  <2>4. \A k \in Keys : queues'[k].present = queues[k].present
    BY <1>0, <2>2 DEF QueueEntry
  <2>5. \A v \in Jobs : v # w => workers'[v] = workers[v]
    BY <1>0, <2>2
  <2>6. workers'[w].pc # "settle"
    BY <1>0, <2>2 DEF Worker
  <2> QED
    BY <2>1, <2>2, <2>3, <2>4, <2>5, <2>6
<1>2. CASE Retire(w)
  <2>1. /\ UNCHANGED <<job, submitted, routes, stage>>
        /\ queues' = [queues EXCEPT ![workers[w].key] = NoEntry]
        /\ workers' = [workers EXCEPT ![w].pc = "gone"]
    BY <1>2 DEF Retire, holdVars
  <2>2. \A k \in Keys : queues'[k].present => queues[k].present
    BY <1>0, <2>1 DEF NoEntry
  <2>3. workers'[w].pc # "settle" /\ \A v \in Jobs : v # w => workers'[v] = workers[v]
    BY <1>0, <2>1 DEF Worker
  <2> QED
    BY <2>1, <2>2, <2>3
<1>3. CASE AcquirePermit(w)
  <2>1. /\ UNCHANGED <<job, submitted, routes, stage, queues>>
        /\ workers' = [workers EXCEPT ![w].pc = "run"]
    BY <1>3 DEF AcquirePermit, holdVars, queueVars
  <2>2. workers'[w].pc # "settle" /\ \A v \in Jobs : v # w => workers'[v] = workers[v]
    BY <1>0, <2>1 DEF Worker
  <2> QED
    BY <2>1, <2>2
<1>4. CASE BodyEnds(w)
  <2>1. /\ UNCHANGED <<job, submitted, routes, stage, queues>>
        /\ workers' = [workers EXCEPT ![w].pc = "settle"]
    BY <1>4 DEF BodyEnds, holdVars, queueVars
  <2>2. workers'[w].job = workers[w].job /\ \A v \in Jobs : v # w => workers'[v] = workers[v]
    BY <1>0, <2>1 DEF Worker
  <2> QED
    BY <1>4, <2>1, <2>2
<1>5. CASE Settle(w)
  <2> DEFINE j == workers[w].job
  <2>1. /\ j \in Jobs /\ stage[j] = "taken"
    BY <1>5 DEF Settle, IInv, WorkersServe, Active
  <2>2. /\ UNCHANGED <<job, submitted, queues>>
        /\ stage' = [stage EXCEPT ![j] = "settled"]
        /\ workers' = [workers EXCEPT ![w].pc = "pop", ![w].job = NoJob]
        /\ routes' = Release(routes, job[j].routes, workers[w].key)
        /\ workers[w].pc = "settle"
    BY <1>5 DEF Settle
  <2>3. \A i \in Jobs : stage'[i] = IF i = j THEN "settled" ELSE stage[i]
    BY <1>0, <2>2
  <2>4. workers'[w].pc # "settle" /\ \A v \in Jobs : v # w => workers'[v] = workers[v]
    BY <1>0, <2>2 DEF Worker
  <2>5. \A id \in Ids : routes'[id].refs > 0 => routes[id].refs > 0 /\ routes'[id].key = routes[id].key
    <3> SUFFICES ASSUME NEW id \in Ids, routes'[id].refs > 0
                 PROVE  routes[id].refs > 0 /\ routes'[id].key = routes[id].key
      OBVIOUS
    <3>1. \/ routes'[id] = routes[id]
          \/ routes'[id] = NoReservation
          \/ routes[id].refs # 0 /\ routes'[id] = [routes[id] EXCEPT !.refs = @ - 1]
      BY <1>0, <2>2 DEF Release
    <3>2. routes[id].refs \in Nat
      BY <1>0 DEF Reservation
    <3> QED
      BY <1>0, <3>1, <3>2 DEF NoReservation, Reservation
  <2> QED
    BY <2>1, <2>2, <2>3, <2>4, <2>5
<1> QED
  BY <1>1, <1>2, <1>3, <1>4, <1>5 DEF WorkerStep

\* An enqueue: one new job, its key is busy, its routes are pending under it.
LEMMA EnqueueMoves ==
  ASSUME IInv, NEW j \in Jobs, NEW ij \in Submissions, Enqueue(j, ij)
  PROVE  /\ stage[j] = "new"
         /\ \A i \in Jobs : stage'[i] = IF i = j THEN "queued" ELSE stage[i]
         /\ \A i \in Jobs : job'[i] = IF i = j THEN ij ELSE job[i]
         /\ submitted' = Append(submitted, j)
         /\ \A k \in Keys : QueueBusy(k)' => QueueBusy(k) \/ k = ij.key
         /\ \A v \in Jobs : workers'[v].pc = "settle" =>
              workers[v].pc = "settle" /\ workers'[v].job = workers[v].job
<1>0. /\ workers \in [Jobs -> Worker] /\ queues \in [Keys -> QueueEntry]
      /\ stage \in [Jobs -> {"new", "queued", "taken", "settled"}]
      /\ job \in [Jobs -> IntakeJob]
  BY DEF IInv, TypeOK
<1>1. /\ stage[j] = "new" /\ submitted' = Append(submitted, j)
      /\ stage' = [stage EXCEPT ![j] = "queued"]
      /\ job' = [job EXCEPT ![j] = ij]
      /\ \E e : queues' = [queues EXCEPT ![ij.key] = e]
      /\ \/ workers' = workers
         \/ workers' = [workers EXCEPT ![j] = [pc |-> "pop", key |-> ij.key, job |-> NoJob]]
  BY DEF Enqueue
<1>2. /\ \A i \in Jobs : stage'[i] = IF i = j THEN "queued" ELSE stage[i]
      /\ \A i \in Jobs : job'[i] = IF i = j THEN ij ELSE job[i]
  BY <1>0, <1>1
<1>3. \A k \in Keys : QueueBusy(k)' => QueueBusy(k) \/ k = ij.key
  BY <1>0, <1>1 DEF QueueBusy
<1>4. \A v \in Jobs : workers'[v].pc = "settle" =>
              workers[v].pc = "settle" /\ workers'[v].job = workers[v].job
  BY <1>0, <1>1
<1> QED
  BY <1>1, <1>2, <1>3, <1>4

------------------------------------------------------------------------------
(* The steps of the system, and that they drive the executor as it asks.       *)

\* Each step is one of a command, of a worker, of the registry, or none.
LEMMA StepCases ==
  [RoutingNext]_routingVars =>
    \/ \E c \in Commands :
         \/ Take(c) \/ ProbeRaw(c) \/ ResolveTargets(c) \/ ProbeCanonical(c)
         \/ ChooseSlowKey(c) \/ Defer(c) \/ BodyBegins(c) \/ FastBody(c) \/ ResumeBody(c)
         \/ ExecutorStep(c)
    \/ \E id \in Ids : ApplyIdentity(id) \/ SessionEnds(id)
    \/ UNCHANGED routingVars
BY DEF RoutingNext

\* The scenario stays, and with it what each command addresses.
LEMMA ScenarioStays ==
  [RoutingNext]_routingVars =>
    /\ scenario' = scenario /\ Targets' = Targets /\ BackendOf' = BackendOf
    /\ \A c : Conversation(c)' = Conversation(c)
BY RegistrySteps DEF Targets, BackendOf, Conversation

\* What the loop enqueues is a job the executor knows.
LEMMA JobIs ==
  RoutingInv =>
    \A c \in Commands : at[c] = "keyed" =>
      /\ JobOf(c) \in Submissions /\ JobOf(c).key = keyOf[c]
      /\ JobOf(c).routes = IF c \in Resumes THEN ToSet(Targets[c]) \cup canonical[c] ELSE {}
<1> SUFFICES ASSUME RoutingInv, NEW c \in Commands, at[c] = "keyed"
             PROVE  /\ JobOf(c) \in Submissions /\ JobOf(c).key = keyOf[c]
                    /\ JobOf(c).routes = IF c \in Resumes THEN ToSet(Targets[c]) \cup canonical[c] ELSE {}
  OBVIOUS
<1>1. keyOf[c] \in Keys
  BY DEF RoutingInv, LoopInv, ChosenKey
<1>2. ToSet(Targets[c]) \cup canonical[c] \in SUBSET Ids
  BY TargetsAre DEF RoutingInv, RegistryInv, RoutingTypeOK
<1>3. CASE c \in Resumes
  <2>1. JobOf(c) = Heavy(keyOf[c], ToSet(Targets[c]) \cup canonical[c], NoDelegation)
    BY <1>3 DEF JobOf
  <2>2. JobOf(c) \in Submissions
    BY <1>1, <1>2, <2>1 DEF Submissions
  <2> QED
    BY <1>3, <2>1, <2>2 DEF Heavy
<1>4. CASE c \notin Resumes
  <2>1. JobOf(c) = Light(keyOf[c])
    BY <1>4 DEF JobOf
  <2>2. JobOf(c) \in Submissions
    BY <1>1, <2>1 DEF Submissions
  <2> QED
    BY <1>4, <2>1, <2>2 DEF Light
<1> QED
  BY <1>3, <1>4

\* Every step of the system is a step of the executor or leaves it alone.
LEMMA DrivesExecutor == RoutingInv /\ [RoutingNext]_routingVars => [Next]_vars
<1> SUFFICES ASSUME RoutingInv, [RoutingNext]_routingVars PROVE [Next]_vars
  OBVIOUS
<1>1. ASSUME NEW c \in Commands,
             \/ Take(c) \/ ProbeRaw(c) \/ ResolveTargets(c) \/ ProbeCanonical(c)
             \/ ChooseSlowKey(c) \/ BodyBegins(c) \/ FastBody(c) \/ ResumeBody(c)
      PROVE  vars' = vars
  BY <1>1 DEF Take, ProbeRaw, ResolveTargets, ProbeCanonical, ChooseSlowKey, BodyBegins,
              FastBody, ResumeBody
<1>2. ASSUME NEW c \in Commands, Defer(c)
      PROVE  Next
  <2>1. at[c] = "keyed" /\ Enqueue(c, JobOf(c))
    BY <1>2 DEF Defer
  <2>2. JobOf(c) \in Submissions
    BY <2>1, JobIs
  <2>3. KeysAgree(JobOf(c))
    BY <2>1 DEF RoutingInv, LoopInv, ReservationsAgree
  <2>4. c \in Jobs
    BY DEF Commands
  <2> QED
    BY <2>1, <2>2, <2>3, <2>4 DEF Next
<1>3. ASSUME NEW c \in Commands, ExecutorStep(c)
      PROVE  Next
  BY <1>3 DEF ExecutorStep, Next, Commands
<1>4. ASSUME NEW id \in Ids, ApplyIdentity(id) \/ SessionEnds(id)
      PROVE  vars' = vars
  BY <1>4 DEF ApplyIdentity, SessionEnds
<1>5. UNCHANGED routingVars => vars' = vars
  BY DEF routingVars
<1> QED
  BY <1>1, <1>2, <1>3, <1>4, <1>5, StepCases

\* The variables of the loop keep their types.
LEMMA RoutingTypeStep ==
  RoutingInv /\ IInv' /\ RegistryTyped' /\ [RoutingNext]_routingVars => RoutingTypeOK'
<1> SUFFICES ASSUME RoutingInv, IInv', RegistryTyped', [RoutingNext]_routingVars
             PROVE  RoutingTypeOK'
  OBVIOUS
<1> DEFINE Loop == /\ at \in [Commands -> {"unsent", "raw", "resolve", "canonical", "keyed",
                                           "deferred", "body", "over"}]
                   /\ keyOf \in [Commands -> Ids \cup {NoKey}]
                   /\ canonical \in [Commands -> SUBSET Ids]
                   /\ arrived \in Seq(Commands) /\ ran \in Seq(Commands)
<1>1. Loop /\ IInv /\ RegistryTyped
  BY DEF RoutingInv, RoutingTypeOK, RegistryInv
<1>2. ASSUME Loop' PROVE RoutingTypeOK'
  BY <1>2 DEF IInv, RoutingTypeOK, RegistryTyped
<1>3. Keys = Ids
  BY RoutingAssumption
<1>4. ASSUME NEW c \in Commands, Take(c) \/ Defer(c) \/ BodyBegins(c)
      PROVE  Loop'
  <2>1. /\ \E place \in {"raw", "resolve", "deferred", "body"} : at' = [at EXCEPT ![c] = place]
        /\ arrived' = arrived \/ arrived' = Append(arrived, c)
        /\ UNCHANGED <<keyOf, canonical, ran>>
    BY <1>4 DEF Take, Defer, BodyBegins
  <2>2. at' \in [Commands -> {"unsent", "raw", "resolve", "canonical", "keyed",
                             "deferred", "body", "over"}]
    BY <1>1, <2>1
  <2>3. arrived' \in Seq(Commands)
    BY <1>1, <2>1
  <2> QED
    BY <1>1, <2>1, <2>2, <2>3
<1>5. ASSUME NEW c \in Commands, FastBody(c) \/ ResumeBody(c)
      PROVE  Loop'
  <2>1. /\ at' = [at EXCEPT ![c] = "over"]
        /\ ran' = ran \/ ran' = Append(ran, c)
        /\ UNCHANGED <<keyOf, canonical, arrived>>
    BY <1>5 DEF FastBody, ResumeBody
  <2> QED
    BY <1>1, <2>1
<1>6. ASSUME NEW c \in Commands, ProbeRaw(c)
      PROVE  Loop'
  <2>1. BusyKey(Targets[c]) \in Ids \cup {NoKey}
    BY <1>1, <1>3, BusyKeyIs, TargetsAre
  <2> HIDE DEF BusyKey
  <2> QED
    BY <1>1, <1>6, <2>1 DEF ProbeRaw
<1>7. ASSUME NEW c \in Commands, ProbeCanonical(c)
      PROVE  Loop'
  <2>1. canonical[c] \in SUBSET Ids /\ IsFiniteSet(canonical[c])
    BY <1>1 DEF RoutingInv, LoopInv, CanonicalInside
  <2>2. SetToSeq(canonical[c]) \in Seq(Ids)
    <3> DEFINE S == canonical[c]
    <3> HIDE DEF S
    <3>1. SetToSeq(S) \in Seq(S) /\ S \in SUBSET Ids
      BY <2>1, SetAsSequence DEF S
    <3>2. SetToSeq(S) \in Seq(Ids)
      BY <3>1
    <3> QED
      BY <3>2 DEF S
  <2>3. BusyKey(SetToSeq(canonical[c])) \in Ids \cup {NoKey}
    BY <1>1, <1>3, <2>2, BusyKeyIs
  <2> QED
    BY <1>1, <1>7, <2>3 DEF ProbeCanonical
<1>8. ASSUME NEW c \in Commands, ResolveTargets(c)
      PROVE  Loop'
  <2>1. Resolved(c) \in SUBSET Ids
    BY <1>1, ResolvedIs DEF RegistryTyped
  <2> QED
    BY <1>1, <1>8, <2>1 DEF ResolveTargets
<1>9. ASSUME NEW c \in Commands, ChooseSlowKey(c)
      PROVE  Loop'
  <2>1. canonical[c] \in SUBSET Ids /\ IsFiniteSet(canonical[c])
    BY <1>1 DEF RoutingInv, LoopInv, CanonicalInside
  <2>2. SlowKey(c) \in Ids
    BY <1>1, <1>3, <2>1, SlowKeyIs
  <2> QED
    BY <1>1, <1>9, <2>2 DEF ChooseSlowKey
<1>10. ASSUME NEW c \in Commands, ExecutorStep(c)
       PROVE  Loop'
  BY <1>1, <1>10 DEF ExecutorStep, loopVars
<1>11. ASSUME NEW id \in Ids, ApplyIdentity(id) \/ SessionEnds(id)
       PROVE  Loop'
  BY <1>1, <1>11 DEF ApplyIdentity, SessionEnds, loopVars
<1>12. UNCHANGED routingVars => Loop'
  BY <1>1 DEF routingVars, loopVars
<1> HIDE DEF Loop
<1> QED
  BY <1>2, <1>4, <1>5, <1>6, <1>7, <1>8, <1>9, <1>10, <1>11, <1>12, StepCases

------------------------------------------------------------------------------
(* Each part of the loop's invariant is preserved by every step.              *)

\* Where the commands stand after a step: one moved, as its action says, or none.
LEMMA CommandMoves ==
  RoutingTypeOK /\ [RoutingNext]_routingVars =>
    \/ at' = at /\ UNCHANGED <<keyOf, canonical, arrived>>
    \/ \E c \in Commands :
         /\ \A d \in Commands : d # c => at'[d] = at[d] /\ keyOf'[d] = keyOf[d]
                                         /\ canonical'[d] = canonical[d]
         /\ \/ Take(c) /\ at[c] = "unsent" /\ at'[c] = IF c \in Resumes THEN "resolve" ELSE "raw"
            \/ ProbeRaw(c) /\ at[c] = "raw" /\ at'[c] \in {"resolve", "keyed"}
            \/ ResolveTargets(c) /\ at[c] = "resolve" /\ at'[c] = "canonical"
            \/ ProbeCanonical(c) /\ at[c] = "canonical" /\ at'[c] \in {"body", "keyed"}
            \/ ChooseSlowKey(c) /\ at[c] = "canonical" /\ at'[c] = "keyed"
            \/ Defer(c) /\ at[c] = "keyed" /\ at'[c] = "deferred"
            \/ BodyBegins(c) /\ at[c] = "deferred" /\ at'[c] = "body"
            \/ (FastBody(c) \/ ResumeBody(c)) /\ at[c] = "body" /\ at'[c] = "over"
<1> SUFFICES ASSUME RoutingTypeOK, [RoutingNext]_routingVars
             PROVE  \/ at' = at /\ UNCHANGED <<keyOf, canonical, arrived>>
                    \/ \E c \in Commands :
                         /\ \A d \in Commands : d # c => at'[d] = at[d] /\ keyOf'[d] = keyOf[d]
                                                         /\ canonical'[d] = canonical[d]
                         /\ \/ Take(c) /\ at[c] = "unsent" /\ at'[c] = IF c \in Resumes THEN "resolve" ELSE "raw"
                            \/ ProbeRaw(c) /\ at[c] = "raw" /\ at'[c] \in {"resolve", "keyed"}
                            \/ ResolveTargets(c) /\ at[c] = "resolve" /\ at'[c] = "canonical"
                            \/ ProbeCanonical(c) /\ at[c] = "canonical" /\ at'[c] \in {"body", "keyed"}
                            \/ ChooseSlowKey(c) /\ at[c] = "canonical" /\ at'[c] = "keyed"
                            \/ Defer(c) /\ at[c] = "keyed" /\ at'[c] = "deferred"
                            \/ BodyBegins(c) /\ at[c] = "deferred" /\ at'[c] = "body"
                            \/ (FastBody(c) \/ ResumeBody(c)) /\ at[c] = "body" /\ at'[c] = "over"
  OBVIOUS
<1> DEFINE Others(c) == \A d \in Commands : d # c => /\ at'[d] = at[d]
                                                     /\ keyOf'[d] = keyOf[d]
                                                     /\ canonical'[d] = canonical[d]
<1>0. /\ at \in [Commands -> {"unsent", "raw", "resolve", "canonical", "keyed",
                              "deferred", "body", "over"}]
      /\ keyOf \in [Commands -> Ids \cup {NoKey}]
      /\ canonical \in [Commands -> SUBSET Ids]
  BY DEF RoutingTypeOK
<1>1. ASSUME NEW c \in Commands, Take(c)
      PROVE  Others(c) /\ at[c] = "unsent" /\ at'[c] = IF c \in Resumes THEN "resolve" ELSE "raw"
  BY <1>0, <1>1 DEF Take
<1>2. ASSUME NEW c \in Commands, ProbeRaw(c)
      PROVE  Others(c) /\ at[c] = "raw" /\ at'[c] \in {"resolve", "keyed"}
  BY <1>0, <1>2 DEF ProbeRaw
<1>3. ASSUME NEW c \in Commands, ResolveTargets(c)
      PROVE  Others(c) /\ at[c] = "resolve" /\ at'[c] = "canonical"
  BY <1>0, <1>3 DEF ResolveTargets
<1>4. ASSUME NEW c \in Commands, ProbeCanonical(c)
      PROVE  Others(c) /\ at[c] = "canonical" /\ at'[c] \in {"body", "keyed"}
  BY <1>0, <1>4 DEF ProbeCanonical
<1>5. ASSUME NEW c \in Commands, ChooseSlowKey(c)
      PROVE  Others(c) /\ at[c] = "canonical" /\ at'[c] = "keyed"
  BY <1>0, <1>5 DEF ChooseSlowKey
<1>6. ASSUME NEW c \in Commands, Defer(c)
      PROVE  Others(c) /\ at[c] = "keyed" /\ at'[c] = "deferred"
  BY <1>0, <1>6 DEF Defer
<1>7. ASSUME NEW c \in Commands, BodyBegins(c)
      PROVE  Others(c) /\ at[c] = "deferred" /\ at'[c] = "body"
  BY <1>0, <1>7 DEF BodyBegins
<1>8. ASSUME NEW c \in Commands, FastBody(c) \/ ResumeBody(c)
      PROVE  Others(c) /\ at[c] = "body" /\ at'[c] = "over"
  <2>1. /\ at[c] = "body" /\ at' = [at EXCEPT ![c] = "over"]
        /\ UNCHANGED <<keyOf, canonical>>
    BY <1>8 DEF FastBody, ResumeBody
  <2> QED
    BY <1>0, <2>1
<1>9. ASSUME \/ \E c \in Commands : ExecutorStep(c)
             \/ \E id \in Ids : ApplyIdentity(id) \/ SessionEnds(id)
             \/ UNCHANGED routingVars
      PROVE  at' = at /\ UNCHANGED <<keyOf, canonical, arrived>>
  BY <1>9 DEF ExecutorStep, ApplyIdentity, SessionEnds, routingVars, loopVars
<1> HIDE DEF Others
<1>10. ASSUME NEW c \in Commands
       PROVE  Others(c) => \A d \in Commands : d # c => at'[d] = at[d] /\ keyOf'[d] = keyOf[d]
                                                         /\ canonical'[d] = canonical[d]
  BY DEF Others
<1>11. \/ \E c \in Commands :
            \/ Take(c) \/ ProbeRaw(c) \/ ResolveTargets(c) \/ ProbeCanonical(c)
            \/ ChooseSlowKey(c) \/ Defer(c) \/ BodyBegins(c) \/ FastBody(c) \/ ResumeBody(c)
       \/ \/ \E c \in Commands : ExecutorStep(c)
          \/ \E id \in Ids : ApplyIdentity(id) \/ SessionEnds(id)
          \/ UNCHANGED routingVars
  BY StepCases
<1> QED
  BY <1>1, <1>2, <1>3, <1>4, <1>5, <1>6, <1>7, <1>8, <1>9, <1>10, <1>11, Zenon

\* A job leaves the new ones only when its command is deferred.
LEMMA StagesMove ==
  RoutingInv /\ [RoutingNext]_routingVars =>
    \A c \in Commands : \/ stage'[c] = "new" <=> stage[c] = "new"
                        \/ Defer(c) /\ stage[c] = "new" /\ stage'[c] = "queued"
<1> SUFFICES ASSUME RoutingInv, [RoutingNext]_routingVars, NEW c \in Commands
             PROVE  \/ stage'[c] = "new" <=> stage[c] = "new"
                    \/ Defer(c) /\ stage[c] = "new" /\ stage'[c] = "queued"
  OBVIOUS
<1>0. IInv /\ c \in Jobs
  BY DEF RoutingInv, Commands
<1>1. CASE \E d \in Commands : ExecutorStep(d)
  BY <1>0, <1>1, WorkerMoves DEF ExecutorStep, Commands
<1>2. ASSUME NEW d \in Commands, Defer(d)
      PROVE  \/ stage'[c] = "new" <=> stage[c] = "new"
             \/ Defer(c) /\ stage[c] = "new" /\ stage'[c] = "queued"
  <2>1. at[d] = "keyed" /\ Enqueue(d, JobOf(d)) /\ JobOf(d) \in Submissions /\ d \in Jobs
    BY <1>2, JobIs DEF Defer, Commands
  <2> QED
    BY <1>0, <1>2, <2>1, EnqueueMoves
<1>3. CASE UNCHANGED vars
  BY <1>3 DEF vars, queueVars
<1>4. \/ \E d \in Commands : ExecutorStep(d) \/ Defer(d)
      \/ UNCHANGED vars
  BY StepCases DEF Take, ProbeRaw, ResolveTargets, ProbeCanonical, ChooseSlowKey, BodyBegins,
                   FastBody, ResumeBody, ApplyIdentity, SessionEnds, routingVars
<1> QED
  BY <1>1, <1>2, <1>3, <1>4

\* The worker that starts a body has taken the job.
LEMMA BodyBeginsIs ==
  IInv => \A c \in Commands : BodyBegins(c) => stage[c] = "taken"
BY DEF IInv, WorkersServe, Active, BodyBegins, Commands

\* The loop takes a command only with free hands, and holds what it held.
LEMMA HandMoves ==
  RoutingInv /\ [RoutingNext]_routingVars =>
    \A c \in Commands : InHand(c)' => InHand(c) \/ (Take(c) /\ \A d \in Commands : ~InHand(d))
<1> SUFFICES ASSUME RoutingInv, [RoutingNext]_routingVars, NEW c \in Commands, InHand(c)'
             PROVE  InHand(c) \/ (Take(c) /\ \A d \in Commands : ~InHand(d))
  OBVIOUS
<1>0. RoutingTypeOK /\ IInv /\ EnqueuedOnward
  BY DEF RoutingInv, LoopInv
<1>1. \A d \in Commands : Take(d) => \A e \in Commands : ~InHand(e)
  BY DEF Take, LoopFree, InlineBusy, InHand
<1>2. CASE at'[c] = at[c]
  <2>1. stage'[c] = "new" => stage[c] = "new"
    BY StagesMove
  <2> QED
    BY <1>2, <2>1 DEF InHand
<1>3. CASE at'[c] # at[c]
  <2>1. PICK d \in Commands :
          /\ \A e \in Commands : e # d => at'[e] = at[e]
          /\ \/ Take(d)
             \/ at[d] \in {"raw", "resolve", "canonical", "keyed"}
             \/ BodyBegins(d) /\ at'[d] = "body"
             \/ at'[d] = "over"
    <3>1. \E d \in Commands :
            /\ \A e \in Commands : e # d => at'[e] = at[e]
            /\ \/ Take(d)
               \/ at[d] \in {"raw", "resolve", "canonical", "keyed"}
               \/ BodyBegins(d) /\ at'[d] = "body"
               \/ at'[d] = "over"
      BY <1>0, <1>3, CommandMoves, Zenon
    <3> QED
      BY <3>1
  <2>2. d = c
    BY <1>3, <2>1
  <2>3. BodyBegins(c) => stage'[c] # "new"
    BY <1>0, BodyBeginsIs, StagesMove
  <2> QED
    BY <1>1, <2>1, <2>2, <2>3 DEF InHand
<1> QED
  BY <1>2, <1>3

\* So it never holds two.
LEMMA OneInHandStep == RoutingInv /\ [RoutingNext]_routingVars => OneInHand'
<1> SUFFICES ASSUME RoutingInv, [RoutingNext]_routingVars PROVE OneInHand'
  OBVIOUS
<1>1. OneInHand
  BY DEF RoutingInv, LoopInv
<1>2. ASSUME NEW c \in Commands, NEW d \in Commands, Take(c), Take(d)
      PROVE  c = d
  <2>1. at' = [at EXCEPT ![c] = IF c \in Resumes THEN "resolve" ELSE "raw"] /\ at[d] = "unsent"
    BY <1>2 DEF Take
  <2>2. at' = [at EXCEPT ![d] = IF d \in Resumes THEN "resolve" ELSE "raw"]
    BY <1>2 DEF Take
  <2>3. at \in [Commands -> {"unsent", "raw", "resolve", "canonical", "keyed",
                             "deferred", "body", "over"}]
    BY DEF RoutingInv, RoutingTypeOK
  <2> QED
    BY <2>1, <2>2, <2>3
<1> QED
  BY <1>1, <1>2, HandMoves DEF OneInHand

\* An enqueued command is past the loop for good.
LEMMA EnqueuedOnwardStep == RoutingInv /\ [RoutingNext]_routingVars => EnqueuedOnward'
<1> SUFFICES ASSUME RoutingInv, [RoutingNext]_routingVars, NEW c \in Commands, stage'[c] # "new"
             PROVE  at'[c] \in {"deferred", "body", "over"}
  BY DEF EnqueuedOnward
<1>1. RoutingTypeOK /\ EnqueuedOnward
  BY DEF RoutingInv, LoopInv
<1>2. CASE stage[c] = "new"
  <2>1. Defer(c)
    BY <1>2, StagesMove
  <2> QED
    BY <1>1, <2>1 DEF Defer, RoutingTypeOK
<1>3. CASE stage[c] # "new"
  <2>1. at[c] \in {"deferred", "body", "over"}
    BY <1>1, <1>3 DEF EnqueuedOnward
  <2>2. at'[c] = at[c] \/ at'[c] \in {"body", "over"}
    <3>1. \/ at' = at
          \/ \E d \in Commands :
               /\ \A e \in Commands : e # d => at'[e] = at[e]
               /\ \/ at[d] \in {"unsent", "raw", "resolve", "canonical", "keyed"}
                  \/ at'[d] \in {"body", "over"}
      BY <1>1, CommandMoves
    <3> QED
      BY <2>1, <3>1
  <2> QED
    BY <2>1, <2>2
<1> QED
  BY <1>2, <1>3

\* Aliases lead from id to id of one conversation, whoever writes them.
LEMMA AliasesInsideStep == RoutingInv /\ [RoutingNext]_routingVars => AliasesInside'
<1> SUFFICES ASSUME RoutingInv, [RoutingNext]_routingVars PROVE AliasesInside'
  OBVIOUS
<1>1. RegistryTyped /\ AliasesInside /\ RegistryStep
  BY RegistrySteps DEF RoutingInv, RegistryInv, LoopInv
<1>2. CASE UNCHANGED regVars
  BY <1>1, <1>2 DEF AliasesInside, regVars
<1>3. ASSUME NEW c \in Commands,
             aliases' = AliasesWith(LogOf[Targets[c][1]], TokenOf(c))
      PROVE  AliasesInside'
  <2>1. /\ LogOf[Targets[c][1]] \in Ids /\ TokenOf(c) \in Ids
        /\ SessionOf[LogOf[Targets[c][1]]] = SessionOf[TokenOf(c)]
    BY <1>1, BackendIs
  <2>2. \A a \in Ids : aliases'[a] = IF a = TokenOf(c)
                                     THEN (IF TokenOf(c) # LogOf[Targets[c][1]]
                                           THEN LogOf[Targets[c][1]] ELSE NoKey)
                                     ELSE IF a = LogOf[Targets[c][1]] THEN NoKey ELSE aliases[a]
    BY <1>1, <1>3, <2>1, RegistrationIs
  <2> QED
    BY <1>1, <2>1, <2>2 DEF AliasesInside
<1>4. ASSUME NEW id \in Ids, ApplyIdentity(id)
      PROVE  AliasesInside'
  <2>1. /\ BackendOf[id] \in Ids /\ SessionOf[BackendOf[id]] = SessionOf[id]
        /\ Resolve(id) \in Ids /\ SessionOf[Resolve(id)] = SessionOf[id]
    <3>1. BackendOf[id] # NoKey /\ Resolve(id) # NoKey
      BY <1>4 DEF ApplyIdentity
    <3> QED
      BY <1>1, <3>1, BackendIs, Reaches DEF RegistryTyped
  <2>2. \A a \in Ids : aliases'[a] = IF a \in {id, Resolve(id)} \ {BackendOf[id]} THEN BackendOf[id]
                                     ELSE IF /\ Resolve(id) # BackendOf[id]
                                             /\ \/ a = BackendOf[id]
                                                \/ BackendOf[id] \in sessions /\ aliases[a] = Resolve(id)
                                     THEN NoKey ELSE aliases[a]
    BY <1>1, <1>4, IdentityIs
  <2> QED
    BY <1>1, <2>1, <2>2 DEF AliasesInside
<1>5. ASSUME NEW id \in Ids, SessionEnds(id)
      PROVE  AliasesInside'
  BY <1>1, <1>5, EndIs DEF AliasesInside
<1> QED
  BY <1>1, <1>2, <1>3, <1>4, <1>5 DEF RegistryStep

\* What a command's ids resolve to is of its conversation.
LEMMA CanonicalInsideStep == RoutingInv /\ [RoutingNext]_routingVars => CanonicalInside'
<1> SUFFICES ASSUME RoutingInv, [RoutingNext]_routingVars, NEW c \in Commands
             PROVE  /\ IsFiniteSet(canonical'[c])
                    /\ \A k \in canonical'[c] : SessionOf[k] = Conversation(c)
  BY ScenarioStays DEF CanonicalInside
<1>1. /\ RegistryTyped /\ AliasesInside /\ RoutingTypeOK
      /\ IsFiniteSet(canonical[c]) /\ \A k \in canonical[c] : SessionOf[k] = Conversation(c)
  BY DEF RoutingInv, RegistryInv, LoopInv, CanonicalInside
<1>2. CASE canonical'[c] = canonical[c]
  BY <1>1, <1>2
<1>3. CASE ResolveTargets(c)
  <2>1. canonical'[c] = Resolved(c)
    BY <1>1, <1>3 DEF ResolveTargets, RoutingTypeOK
  <2> QED
    BY <1>1, <2>1, ResolvedIs
<1>4. canonical'[c] = canonical[c] \/ ResolveTargets(c)
  <2>1. \/ canonical' = canonical
        \/ \E d \in Commands : /\ \A e \in Commands : e # d => canonical'[e] = canonical[e]
                               /\ \/ ResolveTargets(d)
                                  \/ canonical' = canonical
    BY <1>1, CommandMoves DEF Take, ProbeRaw, ProbeCanonical, ChooseSlowKey, Defer, BodyBegins,
                              FastBody, ResumeBody
  <2> QED
    BY <2>1
<1> QED
  BY <1>2, <1>3, <1>4

\* Only fast commands are looked up by the ids they address.
LEMMA ProbesAreFastStep == RoutingInv /\ [RoutingNext]_routingVars => ProbesAreFast'
<1> SUFFICES ASSUME RoutingInv, [RoutingNext]_routingVars, NEW c \in Commands, at'[c] = "raw"
             PROVE  c \notin Resumes
  BY DEF ProbesAreFast
<1>1. RoutingTypeOK /\ ProbesAreFast
  BY DEF RoutingInv, LoopInv
<1>2. \/ at' = at
      \/ \E d \in Commands :
           /\ \A e \in Commands : e # d => at'[e] = at[e]
           /\ \/ at'[d] = IF d \in Resumes THEN "resolve" ELSE "raw"
              \/ at'[d] \in {"resolve", "canonical", "keyed", "deferred", "body", "over"}
  BY <1>1, CommandMoves
<1> QED
  BY <1>1, <1>2 DEF ProbesAreFast

\* The key chosen is a queue's.
LEMMA ChosenKeyStep == RoutingInv /\ [RoutingNext]_routingVars => ChosenKey'
<1> SUFFICES ASSUME RoutingInv, [RoutingNext]_routingVars, NEW c \in Commands, at'[c] = "keyed"
             PROVE  keyOf'[c] \in Keys
  BY DEF ChosenKey
<1>1. /\ RoutingTypeOK /\ ChosenKey /\ Keys = Ids
      /\ canonical[c] \in SUBSET Ids /\ IsFiniteSet(canonical[c])
      /\ keyOf \in [Commands -> Ids \cup {NoKey}]
      /\ RegistryTyped /\ IInv
  BY RoutingAssumption DEF RoutingInv, RegistryInv, LoopInv, RoutingTypeOK, CanonicalInside
<1>2. CASE at[c] = "keyed" /\ keyOf'[c] = keyOf[c]
  BY <1>1, <1>2 DEF ChosenKey
<1>3. CASE ProbeRaw(c) \/ ProbeCanonical(c)
  <2>1. keyOf'[c] # NoKey
    BY <1>1, <1>3 DEF ProbeRaw, ProbeCanonical, RoutingTypeOK
  <2>2. keyOf' \in [Commands -> Ids \cup {NoKey}]
    <3>1. RegistryTyped' /\ IInv'
      BY <1>1, RegistryTypedStep, DrivesExecutor, StepIInv
    <3> QED
      BY <3>1, RoutingTypeStep DEF RoutingTypeOK
  <2> QED
    BY <1>1, <2>1, <2>2
<1>4. CASE ChooseSlowKey(c)
  <2>1. keyOf'[c] = SlowKey(c)
    BY <1>1, <1>4 DEF ChooseSlowKey
  <2> QED
    BY <1>1, <2>1, SlowKeyIs
<1>5. \/ at[c] = "keyed" /\ keyOf'[c] = keyOf[c]
      \/ ProbeRaw(c) \/ ProbeCanonical(c) \/ ChooseSlowKey(c)
  <2>1. \/ at' = at /\ keyOf' = keyOf
        \/ \E d \in Commands :
             /\ \A e \in Commands : e # d => at'[e] = at[e] /\ keyOf'[e] = keyOf[e]
             /\ \/ at'[d] # "keyed" \/ ProbeRaw(d) \/ ProbeCanonical(d) \/ ChooseSlowKey(d)
    BY <1>1, CommandMoves
  <2> QED
    BY <2>1
<1> QED
  BY <1>2, <1>3, <1>4, <1>5

\* A job's routes are those of its command, from its enqueue on.
LEMMA JobsReserveStep == RoutingInv /\ [RoutingNext]_routingVars => JobsReserve'
<1> DEFINE Routes(c) == IF c \in Resumes THEN ToSet(Targets[c]) \cup canonical[c] ELSE {}
<1> SUFFICES ASSUME RoutingInv, [RoutingNext]_routingVars, NEW c \in Commands, stage'[c] # "new"
             PROVE  job'[c].routes = Routes(c)'
  BY DEF JobsReserve
<1>1. RoutingTypeOK /\ IInv /\ JobsReserve /\ EnqueuedOnward /\ c \in Jobs
  BY DEF RoutingInv, LoopInv, Commands
<1>2. canonical'[c] = canonical[c]
  <2>1. at'[c] \in {"deferred", "body", "over"}
    BY EnqueuedOnwardStep DEF EnqueuedOnward
  <2>2. \/ canonical' = canonical
        \/ \E d \in Commands : /\ \A e \in Commands : e # d => canonical'[e] = canonical[e]
                               /\ \/ at'[d] = "canonical"
                                  \/ canonical' = canonical
    BY <1>1, CommandMoves DEF Take, ProbeRaw, ProbeCanonical, ChooseSlowKey, Defer, BodyBegins,
                              FastBody, ResumeBody
  <2> QED
    BY <2>1, <2>2
<1>3. Routes(c)' = Routes(c)
  BY <1>2, ScenarioStays
<1>4. CASE \E d \in Commands : ExecutorStep(d)
  <2>1. job' = job /\ stage[c] # "new"
    BY <1>1, <1>4, WorkerMoves DEF ExecutorStep, Commands
  <2> QED
    BY <1>1, <1>3, <2>1 DEF JobsReserve
<1>5. ASSUME NEW d \in Commands, Defer(d)
      PROVE  job'[c].routes = Routes(c)'
  <2>1. /\ at[d] = "keyed" /\ Enqueue(d, JobOf(d)) /\ JobOf(d) \in Submissions /\ d \in Jobs
        /\ JobOf(d).routes = Routes(d)
    BY <1>5, JobIs DEF Defer, Commands
  <2>2. /\ job'[c] = IF c = d THEN JobOf(d) ELSE job[c]
        /\ stage'[c] = IF c = d THEN "queued" ELSE stage[c]
    BY <1>1, <2>1, EnqueueMoves
  <2> QED
    BY <1>1, <1>3, <2>1, <2>2 DEF JobsReserve
<1>6. CASE UNCHANGED vars
  BY <1>1, <1>3, <1>6 DEF vars, queueVars, JobsReserve
<1>7. \/ \E d \in Commands : ExecutorStep(d) \/ Defer(d)
      \/ UNCHANGED vars
  BY StepCases DEF Take, ProbeRaw, ResolveTargets, ProbeCanonical, ChooseSlowKey, BodyBegins,
                   FastBody, ResumeBody, ApplyIdentity, SessionEnds, routingVars
<1> QED
  BY <1>4, <1>5, <1>6, <1>7

\* All that is pending for one conversation is pending under one key.
LEMMA RoutesAgree ==
  ResumesOverlap /\ RoutingInv =>
    \A id, other \in Ids :
      HasRoute(id) /\ HasRoute(other) /\ SessionOf[id] = SessionOf[other]
        => RouteKey(id) = RouteKey(other)
<1> SUFFICES ASSUME ResumesOverlap, RoutingInv, NEW id \in Ids, NEW other \in Ids,
                    HasRoute(id), HasRoute(other), SessionOf[id] = SessionOf[other]
             PROVE  RouteKey(id) = RouteKey(other)
  OBVIOUS
<1>1. IInv /\ RegistryTyped /\ JobsReserve /\ CanonicalInside
  BY DEF RoutingInv, RegistryInv, LoopInv
<1>2. PICK c \in Jobs : Unsettled(c) /\ id \in job[c].routes /\ job[c].key = RouteKey(id)
  BY <1>1, RouteHeld
<1>3. PICK d \in Jobs : Unsettled(d) /\ other \in job[d].routes /\ job[d].key = RouteKey(other)
  BY <1>1, RouteHeld
<1>4. ASSUME NEW j \in Jobs, Unsettled(j), NEW i \in Ids, i \in job[j].routes
      PROVE  /\ j \in Resumes /\ SessionOf[i] = Conversation(j)
             /\ ToSet(Targets[j]) \subseteq job[j].routes
  <2>1. job[j].routes = IF j \in Resumes THEN ToSet(Targets[j]) \cup canonical[j] ELSE {}
    BY <1>1, <1>4 DEF JobsReserve, Unsettled, Commands
  <2> QED
    BY <1>1, <1>4, <2>1, TargetsAre DEF CanonicalInside, Commands
<1>5. PICK x : x \in ToSet(Targets[c]) /\ x \in ToSet(Targets[d])
  <2>1. c \in Resumes /\ d \in Resumes /\ Conversation(c) = Conversation(d)
    BY <1>2, <1>3, <1>4
  <2>2. ToSet(Targets[c]) \cap ToSet(Targets[d]) # {}
    BY <1>1, <2>1 DEF ResumesOverlap, Conversation, Targets, RegistryTyped
  <2> QED
    BY <2>2
<1>6. x \in Ids /\ x \in job[c].routes /\ x \in job[d].routes
  BY <1>1, <1>2, <1>3, <1>4, <1>5, TargetsAre DEF Commands
<1> QED
  BY <1>1, <1>2, <1>3, <1>6, HeldRoute

\* The key a resume is given is the one its conversation is pending under, and
\* while the loop holds it, routes only go.
LEMMA ReservationsAgreeStep ==
  ResumesOverlap /\ RoutingInv /\ [RoutingNext]_routingVars => ReservationsAgree'
<1> SUFFICES ASSUME ResumesOverlap, RoutingInv, [RoutingNext]_routingVars PROVE ReservationsAgree'
  OBVIOUS
<1> DEFINE Agrees(c) == c \in Resumes => \A id \in ToSet(Targets[c]) \cup canonical[c] :
                                           HasRoute(id) => RouteKey(id) = keyOf[c]
<1>1. /\ RoutingTypeOK /\ IInv /\ RegistryTyped /\ OneInHand /\ CanonicalInside
      /\ ProbesAreFast /\ ReservationsAgree
  BY DEF RoutingInv, RegistryInv, LoopInv
<1>2. SUFFICES ASSUME NEW c \in Commands, at'[c] = "keyed"
               PROVE  Agrees(c)'
  <2>1. \A c \in Commands : Agrees(c)' => KeysAgree(JobOf(c))'
    BY DEF KeysAgree, JobOf, Heavy, Light
  <2> QED
    BY <1>2, <2>1 DEF ReservationsAgree
<1>3. SUFFICES ASSUME c \in Resumes,
                      NEW id \in ToSet(Targets[c]) \cup canonical'[c], HasRoute(id)'
               PROVE  RouteKey(id)' = keyOf'[c]
  BY ScenarioStays
<1>4. \A i \in Ids : ~(\E d \in Commands : Defer(d)) /\ HasRoute(i)'
                       => HasRoute(i) /\ RouteKey(i)' = RouteKey(i)
  <2>1. CASE \E d \in Commands : ExecutorStep(d)
    BY <1>1, <2>1, WorkerMoves DEF ExecutorStep, Commands
  <2>2. CASE UNCHANGED vars
    BY <2>2 DEF vars, holdVars, HasRoute, RouteKey
  <2>3. \/ \E d \in Commands : ExecutorStep(d) \/ Defer(d)
        \/ UNCHANGED vars
    BY StepCases DEF Take, ProbeRaw, ResolveTargets, ProbeCanonical, ChooseSlowKey, BodyBegins,
                     FastBody, ResumeBody, ApplyIdentity, SessionEnds, routingVars
  <2> QED
    BY <2>1, <2>2, <2>3
<1>5. ToSet(Targets[c]) \cup canonical[c] \subseteq Ids
  BY <1>1, TargetsAre DEF RoutingTypeOK
<1> HIDE DEF Agrees
<1>6. CASE ChooseSlowKey(c)
  <2>1. canonical' = canonical /\ keyOf'[c] = SlowKey(c) /\ ~(\E d \in Commands : Defer(d))
    <3>1. at[c] = "canonical" /\ canonical' = canonical /\ keyOf' = [keyOf EXCEPT ![c] = SlowKey(c)]
          /\ at' = [at EXCEPT ![c] = "keyed"]
      BY <1>6 DEF ChooseSlowKey
    <3>2. \A d \in Commands : Defer(d) => at[d] = "keyed"
      BY DEF Defer
    <3>3. \A d \in Commands : at[d] = "keyed" => d = c
      BY <1>1, <3>1 DEF OneInHand, InHand
    <3> QED
      BY <1>1, <3>1, <3>2, <3>3 DEF RoutingTypeOK
  <2>2. id \in Ids /\ HasRoute(id) /\ RouteKey(id)' = RouteKey(id)
    BY <1>3, <1>4, <1>5, <2>1
  <2>3. canonical[c] \in SUBSET Ids /\ IsFiniteSet(canonical[c])
    BY <1>1 DEF CanonicalInside, RoutingTypeOK
  <2>4. PICK i \in ToSet(Targets[c]) \cup canonical[c] : HasRoute(i) /\ SlowKey(c) = RouteKey(i)
    BY <1>1, <1>3, <2>1, <2>2, <2>3, SlowKeyIs
  <2>5. SessionOf[i] = Conversation(c) /\ SessionOf[id] = Conversation(c)
    BY <1>1, <1>3, <2>1, <2>4, TargetsAre DEF CanonicalInside
  <2>6. RouteKey(i) = RouteKey(id)
    BY <1>5, <2>2, <2>4, <2>5, RoutesAgree
  <2> QED
    BY <2>1, <2>2, <2>4, <2>6
<1>7. CASE ~ChooseSlowKey(c)
  <2>1. at[c] = "keyed" /\ keyOf'[c] = keyOf[c] /\ canonical'[c] = canonical[c]
    <3>1. \/ at' = at /\ keyOf' = keyOf /\ canonical' = canonical
          \/ \E d \in Commands :
               /\ \A e \in Commands : e # d => at'[e] = at[e] /\ keyOf'[e] = keyOf[e]
                                               /\ canonical'[e] = canonical[e]
               /\ \/ at'[d] # "keyed" \/ ChooseSlowKey(d)
                  \/ ProbeRaw(d) /\ at[d] = "raw"
                  \/ ProbeCanonical(d)
      BY <1>1, CommandMoves
    <3>2. \A d \in Commands : ProbeCanonical(d) => d \notin Resumes
      BY DEF ProbeCanonical
    <3> QED
      BY <1>1, <1>2, <1>3, <1>7, <3>1, <3>2 DEF ProbesAreFast
  <2>2. ~(\E d \in Commands : Defer(d))
    <3>1. ASSUME NEW d \in Commands, Defer(d) PROVE FALSE
      <4>1. at[d] = "keyed" /\ at' = [at EXCEPT ![d] = "deferred"]
        BY <3>1 DEF Defer
      <4>2. d = c
        BY <1>1, <2>1, <4>1 DEF OneInHand, InHand
      <4> QED
        BY <1>1, <1>2, <4>1, <4>2 DEF RoutingTypeOK
    <3> QED
      BY <3>1
  <2>3. id \in ToSet(Targets[c]) \cup canonical[c]
    BY <1>3, <2>1
  <2>4. HasRoute(id) /\ RouteKey(id)' = RouteKey(id)
    BY <1>3, <1>4, <1>5, <2>2, <2>3
  <2>5. KeysAgree(JobOf(c))
    BY <1>1, <2>1 DEF ReservationsAgree
  <2>6. RouteKey(id) = keyOf[c]
    BY <1>3, <2>1, <2>3, <2>4, <2>5, JobIs DEF KeysAgree
  <2> QED
    BY <2>1, <2>4, <2>6
<1> QED
  BY <1>6, <1>7

\* Nothing is routed yet.
LEMMA RoutingInvInit == RoutingInit => RoutingInv
<1> SUFFICES ASSUME RoutingInit PROVE RoutingInv
  OBVIOUS
<1>1. IInv /\ RegistryInv
  BY InitIInv, RegistryInit DEF RoutingInit
<1>2. /\ at = [c \in Commands |-> "unsent"] /\ keyOf = [c \in Commands |-> NoKey]
      /\ canonical = [c \in Commands |-> {}] /\ arrived = <<>> /\ ran = <<>>
      /\ sessions = {} /\ aliases = [id \in Ids |-> NoKey]
      /\ stage = [j \in Jobs |-> "new"]
  BY DEF RoutingInit, Init
<1>3. RoutingTypeOK
  BY <1>1, <1>2 DEF RoutingTypeOK, IInv
<1>4. OneInHand /\ EnqueuedOnward /\ ProbesAreFast /\ ChosenKey /\ JobsReserve
  BY <1>2 DEF OneInHand, InHand, EnqueuedOnward, ProbesAreFast, ChosenKey, JobsReserve, Commands
<1>5. AliasesInside /\ CanonicalInside
  BY <1>2, FS_EmptySet DEF AliasesInside, CanonicalInside
<1>6. ReservationsAgree
  BY <1>2 DEF ReservationsAgree
<1> QED
  BY <1>1, <1>3, <1>4, <1>5, <1>6 DEF RoutingInv, LoopInv

\* Every step of the loop, its workers and the registry keeps the invariant.
LEMMA RoutingInvStep == ResumesOverlap /\ RoutingInv /\ [RoutingNext]_routingVars => RoutingInv'
<1> SUFFICES ASSUME ResumesOverlap, RoutingInv, [RoutingNext]_routingVars PROVE RoutingInv'
  OBVIOUS
<1>1. IInv'
  BY DrivesExecutor, StepIInv DEF RoutingInv
<1>2. RegistryInv'
  BY RegistryTypedStep, NoSessionShadowedStep DEF RoutingInv, RegistryInv
<1>3. RoutingTypeOK'
  BY <1>1, <1>2, RoutingTypeStep DEF RegistryInv
<1>4. LoopInv'
  BY OneInHandStep, EnqueuedOnwardStep, AliasesInsideStep, CanonicalInsideStep, ProbesAreFastStep,
     ChosenKeyStep, JobsReserveStep, ReservationsAgreeStep DEF LoopInv
<1> QED
  BY <1>1, <1>2, <1>3, <1>4 DEF RoutingInv

\* Where the resumes of a conversation overlap, the invariant always holds.
THEOREM RoutingInvAlways ==
  ASSUME ResumesOverlap
  PROVE  RoutingSpec => []RoutingInv
<1>1. RoutingInv /\ [RoutingNext]_routingVars => RoutingInv'
  BY RoutingInvStep
<1> QED
  BY <1>1, RoutingInvInit, PTL DEF RoutingSpec

\* The loop's variables and the executor's keep their types.
THEOREM RoutingTypeCorrect ==
  ASSUME ResumesOverlap
  PROVE  RoutingSpec => []RoutingTypeOK
<1>1. RoutingInv => RoutingTypeOK
  BY DEF RoutingInv
<1> QED
  BY <1>1, RoutingInvAlways, PTL

\* The dispatcher keys overlapping jobs onto the existing route's queue: whatever
\* arrives, runs and settles meanwhile, a second reservation of an id names the key
\* of the first.
THEOREM ReservationsAgreeAlways ==
  ASSUME ResumesOverlap
  PROVE  RoutingSpec => []ReservationsAgree
<1>1. RoutingInv => ReservationsAgree
  BY DEF RoutingInv, LoopInv
<1> QED
  BY <1>1, RoutingInvAlways, PTL

\* So the dispatcher asks of the executor only what its own specification allows,
\* and all that is proved of the executor holds of the whole.
THEOREM RoutesDriveExecutor ==
  ASSUME ResumesOverlap
  PROVE  RoutingSpec => Spec
<1>1. RoutingInit => Init
  BY DEF RoutingInit
<1> QED
  BY <1>1, DrivesExecutor, RoutingInvAlways, PTL DEF RoutingSpec, Spec

------------------------------------------------------------------------------
(* The order of arrival: what holds of a state. *)

InTurn == OneWrapper /\ RoutingInv /\ NoBackendIds /\ TurnInv

\* A conversation has one home, and its own first id is a resume's.
LEMMA OneHome ==
  InTurn =>
    \A c, d \in Commands : \A k, l :
      Conversation(c) = Conversation(d) /\ HomeOf(c, k) /\ HomeOf(d, l) => k = l
<1> SUFFICES ASSUME InTurn, NEW c \in Commands, NEW d \in Commands, NEW k, NEW l,
                    Conversation(c) = Conversation(d), HomeOf(c, k), HomeOf(d, l)
             PROVE  k = l
  OBVIOUS
<1>1. PICK x \in Resumes : Conversation(x) = Conversation(c) /\ k = Targets[x][1]
  BY DEF HomeOf
<1>2. PICK y \in Resumes : Conversation(y) = Conversation(d) /\ l = Targets[y][1]
  BY DEF HomeOf
<1>3. /\ scenario \in Scenarios /\ \A id \in Ids : scenario.backend[id] = NoKey
  BY DEF InTurn, RoutingInv, RegistryInv, RegistryTyped, NoBackendIds, BackendOf
<1>4. SessionOf[Targets[x][1]] = SessionOf[Targets[y][1]]
  BY <1>1, <1>2 DEF Conversation
<1> QED
  BY <1>1, <1>2, <1>3, <1>4 DEF InTurn, OneWrapper, Targets

\* The wrapper of a resume, and the token it resumes, are of the ids it addresses.
LEMMA WrapperIs ==
  InTurn =>
    \A c \in Resumes :
      /\ LogOf[Targets[c][1]] = Targets[c][1] /\ TokenOf(c) = Last(Targets[c])
      /\ Targets[c][1] \in ToSet(Targets[c]) /\ TokenOf(c) \in ToSet(Targets[c])
<1> SUFFICES ASSUME InTurn, NEW c \in Resumes
             PROVE  /\ LogOf[Targets[c][1]] = Targets[c][1] /\ TokenOf(c) = Last(Targets[c])
                    /\ Targets[c][1] \in ToSet(Targets[c]) /\ TokenOf(c) \in ToSet(Targets[c])
  OBVIOUS
<1>1. RegistryTyped /\ NoBackendIds /\ OneWrapper /\ c \in Commands
  BY RoutingAssumption DEF InTurn, RoutingInv, RegistryInv
<1>2. /\ Targets[c][1] \in Ids /\ Targets[c][1] \in ToSet(Targets[c])
      /\ Last(Targets[c]) \in ToSet(Targets[c])
  BY <1>1, TargetsAre
<1>3. TokenOf(c) = Last(Targets[c])
  BY <1>1, <1>2 DEF TokenOf, NoBackendIds
<1>4. LogOf[Targets[c][1]] = Targets[c][1]
  BY <1>1 DEF OneWrapper, RegistryTyped, NoBackendIds, BackendOf, Targets
<1> QED
  BY <1>2, <1>3, <1>4

\* The queue of an unsettled job is busy.
LEMMA UnsettledBusy ==
  IInv /\ OrderInv => \A j \in Jobs : Unsettled(j) => job[j].key \in Keys /\ QueueBusy(job[j].key)
<1> SUFFICES ASSUME IInv, OrderInv, NEW j \in Jobs, Unsettled(j)
             PROVE  job[j].key \in Keys /\ QueueBusy(job[j].key)
  OBVIOUS
<1>1. job[j].key \in Keys
  BY DEF IInv, JobsKeyed, Unsettled
<1>2. CASE stage[j] = "queued"
  <2>1. \E i \in 1..Len(queues[job[j].key].jobs) : queues[job[j].key].jobs[i] = j
    BY <1>2 DEF OrderInv, QueuedInTurn
  <2>2. queues[job[j].key].jobs # <<>>
    BY <2>1
  <2> QED
    BY <1>1, <2>2 DEF IInv, EntriesServed, QueueBusy
<1>3. CASE stage[j] = "taken"
  <2>1. PICK w \in Jobs : workers[w].pc \in {"permit", "run", "settle"} /\ workers[w].job = j
    BY <1>3 DEF OrderInv, TakenAreServed
  <2> QED
    BY <1>1, <2>1 DEF IInv, WorkersServe, Active, QueueBusy
<1> QED
  BY <1>1, <1>2, <1>3 DEF Unsettled

\* What is pending or busy for an id of a conversation is so under its home.
LEMMA BusyIsHome ==
  InTurn =>
    \A c \in Commands : \A id \in Ids : SessionOf[id] = Conversation(c) =>
      /\ HasRoute(id) => HomeOf(c, RouteKey(id))
      /\ QueueBusy(id) => HomeOf(c, id)
<1> SUFFICES ASSUME InTurn, NEW c \in Commands, NEW id \in Ids, SessionOf[id] = Conversation(c)
             PROVE  /\ HasRoute(id) => HomeOf(c, RouteKey(id))
                    /\ QueueBusy(id) => HomeOf(c, id)
  OBVIOUS
<1>1. /\ IInv /\ RegistryTyped /\ JobsReserve /\ CanonicalInside /\ KeysHome /\ BusyHasJob
      /\ Keys = Ids
  BY RoutingAssumption DEF InTurn, RoutingInv, RegistryInv, LoopInv, TurnInv
<1>2. ASSUME HasRoute(id) PROVE HomeOf(c, RouteKey(id))
  <2>1. PICK j \in Jobs : Unsettled(j) /\ id \in job[j].routes /\ job[j].key = RouteKey(id)
    BY <1>1, <1>2, RouteHeld
  <2>2. stage[j] # "new" /\ j \in Commands
    BY <2>1 DEF Unsettled, Commands
  <2>3. SessionOf[id] = Conversation(j)
    <3>1. id \in ToSet(Targets[j]) \cup canonical[j]
      BY <1>1, <2>1, <2>2 DEF JobsReserve
    <3> QED
      BY <1>1, <2>2, <3>1, TargetsAre DEF CanonicalInside
  <2>4. HomeOf(j, RouteKey(id))
    BY <1>1, <2>1, <2>2 DEF KeysHome
  <2> QED
    BY <2>3, <2>4 DEF HomeOf
<1>3. ASSUME QueueBusy(id) PROVE HomeOf(c, id)
  <2>1. PICK j \in Commands : stage[j] # "new" /\ job[j].key = id
    BY <1>1, <1>3 DEF BusyHasJob
  <2>2. PICK d \in Resumes : Conversation(d) = Conversation(j) /\ id = Targets[d][1]
    BY <1>1, <2>1 DEF KeysHome, HomeOf
  <2>3. Conversation(d) = SessionOf[id]
    BY <2>2 DEF Conversation
  <2> QED
    BY <2>2, <2>3 DEF HomeOf
<1> QED
  BY <1>2, <1>3

\* When a command acts on a session, all that arrived before it for the same
\* conversation is over.
LEMMA ActsInTurn ==
  InTurn =>
    \A c \in Commands : at[c] = "body" /\ (c \in Resumes \/ Managed(c)) =>
      \A i, h \in 1..Len(arrived) :
        arrived[h] = c /\ i < h /\ Conversation(arrived[i]) = Conversation(c)
          => at[arrived[i]] = "over"
<1> SUFFICES ASSUME InTurn, NEW c \in Commands, at[c] = "body", c \in Resumes \/ Managed(c),
                    NEW i \in 1..Len(arrived), NEW h \in 1..Len(arrived),
                    arrived[h] = c, i < h, Conversation(arrived[i]) = Conversation(c),
                    at[arrived[i]] # "over"
             PROVE  FALSE
  OBVIOUS
<1> DEFINE e == arrived[i]
<1>1. /\ RoutingTypeOK /\ IInv /\ RegistryTyped /\ LoopInv /\ TurnInv /\ OrderInv
  BY DEF InTurn, RoutingInv, RegistryInv, TurnInv
<1>2. e \in Commands /\ e # c
  BY <1>1 DEF TurnInv, ArrivedOnce, RoutingTypeOK
<1>3. ~InHand(e)
  <2>1. Len(arrived) \in Nat /\ Len(arrived) \in 1..Len(arrived) /\ i # Len(arrived)
    BY <1>1 DEF RoutingTypeOK
  <2> QED
    BY <1>1, <1>2, <2>1 DEF TurnInv, HandLast, ArrivedOnce
<1>4. Unsettled(e) /\ stage[e] # "new"
  <2>1. at[e] \in {"unsent", "raw", "resolve", "canonical", "keyed", "deferred", "body", "over"}
    BY <1>1, <1>2 DEF RoutingTypeOK
  <2>2. at[e] # "unsent"
    BY <1>1, <1>2 DEF TurnInv, ArrivedOnce
  <2>3. at[e] \in {"deferred", "body"} /\ (at[e] = "body" => stage[e] # "new")
    BY <1>3, <2>1, <2>2 DEF InHand
  <2>4. stage[e] \in {"queued", "taken"}
    BY <1>1, <1>2, <2>3 DEF TurnInv, StagesFollow
  <2> QED
    BY <2>4 DEF Unsettled
<1>5. HomeOf(e, job[e].key)
  BY <1>1, <1>2, <1>4 DEF TurnInv, KeysHome
<1> HIDE DEF e
<1>6. CASE stage[c] # "new"
  <2>1. stage[c] = "taken"
    BY <1>1, <1>6 DEF TurnInv, StagesFollow
  <2>2. HomeOf(c, job[c].key)
    BY <1>1, <1>6 DEF TurnInv, KeysHome
  <2>3. job[e].key = job[c].key
    BY <1>2, <1>5, <2>2, OneHome DEF e
  <2>4. PICK p \in 1..Len(submitted) : submitted[p] = e
    BY <1>1, <1>2, <1>4 DEF OrderInv, SubmittedOnce, Commands
  <2>5. PICK q \in 1..Len(submitted) : submitted[q] = c
    BY <1>1, <1>6 DEF OrderInv, SubmittedOnce, Commands
  <2>6. p # q
    BY <1>2, <2>4, <2>5
  <2>7. ~(q < p)
    <3>1. q < p => h < i
      BY <1>1, <2>4, <2>5 DEF TurnInv, SubmittedAsArrived, e
    <3> QED
      BY <1>1, <3>1 DEF RoutingTypeOK
  <2>8. p < q
    BY <2>6, <2>7
  <2>9. stage[e] = "settled"
    BY <1>1, <2>1, <2>3, <2>4, <2>5, <2>8 DEF OrderInv, TakenInTurn
  <2> QED
    BY <1>4, <2>9 DEF Unsettled
<1>7. CASE stage[c] = "new"
  <2>1. InHand(c) /\ c \notin Resumes /\ Managed(c)
    BY <1>1, <1>7 DEF InHand, TurnInv, StagesFollow
  <2>2. PICK k \in Resolved(c) : TRUE
    BY <2>1 DEF Managed
  <2>3. k \in sessions /\ SessionOf[k] = Conversation(c)
    BY <1>1, <2>2, ResolvedIs DEF LoopInv
  <2>4. PICK d \in Resumes : k = Targets[d][1]
    BY <1>1, <2>3 DEF TurnInv, HomeSessions, IsHome
  <2>5. HomeOf(e, k)
    BY <2>3, <2>4 DEF HomeOf, Conversation, e
  <2>6. k = job[e].key
    BY <1>2, <1>5, <2>5, OneHome
  <2>7. QueueBusy(k)
    BY <1>1, <1>2, <1>4, <2>6, UnsettledBusy DEF Commands
  <2>8. ~QueueBusy(k)
    BY <1>1, <2>1, <2>2 DEF TurnInv, ClearCanonical
  <2> QED
    BY <2>7, <2>8
<1> QED
  BY <1>6, <1>7

------------------------------------------------------------------------------
(* The order of arrival: each part is preserved by every step.                 *)

\* A step either leaves the history of arrivals alone or takes a command up.
LEMMA ArrivedMoves ==
  RoutingTypeOK /\ [RoutingNext]_routingVars =>
    \/ arrived' = arrived
    \/ \E c \in Commands :
         /\ Take(c) /\ at[c] = "unsent" /\ Len(arrived') = Len(arrived) + 1
         /\ \A i \in 1..Len(arrived') : arrived'[i] = IF i = Len(arrived) + 1 THEN c ELSE arrived[i]
         /\ vars' = vars /\ ran' = ran
<1> SUFFICES ASSUME RoutingTypeOK, [RoutingNext]_routingVars
             PROVE  \/ arrived' = arrived
                    \/ \E c \in Commands :
                         /\ Take(c) /\ at[c] = "unsent" /\ Len(arrived') = Len(arrived) + 1
                         /\ \A i \in 1..Len(arrived') :
                              arrived'[i] = IF i = Len(arrived) + 1 THEN c ELSE arrived[i]
                         /\ vars' = vars /\ ran' = ran
  OBVIOUS
<1>1. arrived' = arrived \/ \E c \in Commands : Take(c)
  BY StepCases DEF ProbeRaw, ResolveTargets, ProbeCanonical, ChooseSlowKey, Defer, BodyBegins,
                   FastBody, ResumeBody, ExecutorStep, ApplyIdentity, SessionEnds,
                   routingVars, loopVars
<1>2. ASSUME NEW c \in Commands, Take(c)
      PROVE  /\ at[c] = "unsent" /\ Len(arrived') = Len(arrived) + 1
             /\ \A i \in 1..Len(arrived') : arrived'[i] = IF i = Len(arrived) + 1 THEN c ELSE arrived[i]
             /\ vars' = vars /\ ran' = ran
  <2>1. /\ at[c] = "unsent" /\ arrived' = Append(arrived, c) /\ vars' = vars /\ ran' = ran
        /\ arrived \in Seq(Commands)
    BY <1>2 DEF Take, RoutingTypeOK
  <2> QED
    BY <2>1
<1> QED
  BY <1>1, <1>2

\* A command that has arrived stays so; one that is over stays over.
LEMMA OnceOver ==
  RoutingTypeOK /\ [RoutingNext]_routingVars =>
    \A c \in Commands : /\ at[c] = "over" => at'[c] = "over"
                        /\ at'[c] = "unsent" => at[c] = "unsent"
                        /\ at[c] = "unsent" /\ at'[c] # "unsent" => Take(c)
<1> SUFFICES ASSUME RoutingTypeOK, [RoutingNext]_routingVars, NEW c \in Commands
             PROVE  /\ at[c] = "over" => at'[c] = "over"
                    /\ at'[c] = "unsent" => at[c] = "unsent"
                    /\ at[c] = "unsent" /\ at'[c] # "unsent" => Take(c)
  OBVIOUS
<1>1. \/ at' = at
      \/ \E d \in Commands :
           /\ \A e \in Commands : e # d => at'[e] = at[e]
           /\ \/ Take(d) /\ at[d] = "unsent" /\ at'[d] = IF d \in Resumes THEN "resolve" ELSE "raw"
              \/ /\ at[d] \in {"raw", "resolve", "canonical", "keyed", "deferred", "body"}
                 /\ at'[d] # "unsent"
  BY CommandMoves
<1> QED
  BY <1>1

\* Every command arrives once.
LEMMA ArrivedOnceStep == RoutingInv /\ ArrivedOnce /\ [RoutingNext]_routingVars => ArrivedOnce'
<1> SUFFICES ASSUME RoutingInv, ArrivedOnce, [RoutingNext]_routingVars PROVE ArrivedOnce'
  OBVIOUS
<1>1. RoutingTypeOK /\ arrived \in Seq(Commands) /\ Len(arrived) \in Nat
  BY DEF RoutingInv, RoutingTypeOK
<1>2. CASE arrived' = arrived
  <2>1. \A c \in Commands : Take(c) => FALSE
    <3>1. \A c \in Commands : Take(c) => arrived' = Append(arrived, c)
      BY DEF Take
    <3>2. \A c \in Commands : Append(arrived, c) # arrived
      <4>1. \A c \in Commands : Len(Append(arrived, c)) = Len(arrived) + 1
        BY <1>1
      <4> QED
        BY <1>1, <4>1
    <3> QED
      BY <1>2, <3>1, <3>2
  <2>2. \A c \in Commands : at'[c] # "unsent" <=> at[c] # "unsent"
    BY <1>1, <2>1, OnceOver
  <2> QED
    BY <1>2, <2>2 DEF ArrivedOnce
<1>3. ASSUME NEW c \in Commands, Take(c), at[c] = "unsent", Len(arrived') = Len(arrived) + 1,
             \A i \in 1..Len(arrived') : arrived'[i] = IF i = Len(arrived) + 1 THEN c ELSE arrived[i]
      PROVE  ArrivedOnce'
  <2>1. \A d \in Commands : at'[d] # "unsent" <=> at[d] # "unsent" \/ d = c
    <3>1. at' = [at EXCEPT ![c] = IF c \in Resumes THEN "resolve" ELSE "raw"]
      BY <1>3 DEF Take
    <3> QED
      BY <1>1, <3>1 DEF RoutingTypeOK
  <2>2. \A i \in 1..Len(arrived) : arrived[i] # c /\ i \in 1..Len(arrived') /\ i # Len(arrived) + 1
    BY <1>1, <1>3 DEF ArrivedOnce
  <2>3. \A i \in 1..Len(arrived') : i = Len(arrived) + 1 \/ i \in 1..Len(arrived)
    BY <1>1, <1>3
  <2>4. Len(arrived) + 1 \in 1..Len(arrived')
    BY <1>1, <1>3
  <2>5. \A d \in Commands : at'[d] # "unsent" <=> \E i \in 1..Len(arrived') : arrived'[i] = d
    BY <1>3, <2>1, <2>2, <2>3, <2>4 DEF ArrivedOnce
  <2>6. \A i, h \in 1..Len(arrived') : arrived'[i] = arrived'[h] => i = h
    BY <1>3, <2>2, <2>3 DEF ArrivedOnce
  <2> QED
    BY <2>5, <2>6 DEF ArrivedOnce
<1> QED
  BY <1>1, <1>2, <1>3, ArrivedMoves

\* The command in hand is the last that arrived.
LEMMA HandLastStep == RoutingInv /\ HandLast /\ [RoutingNext]_routingVars => HandLast'
<1> SUFFICES ASSUME RoutingInv, HandLast, [RoutingNext]_routingVars, NEW c \in Commands, InHand(c)'
             PROVE  arrived'[Len(arrived')] = c
  BY DEF HandLast
<1>1. RoutingTypeOK /\ Len(arrived) \in Nat
  BY DEF RoutingInv, RoutingTypeOK
<1>2. CASE arrived' = arrived
  <2>1. ~Take(c)
    <3>1. Take(c) => arrived' = Append(arrived, c) /\ arrived \in Seq(Commands)
      BY <1>1 DEF Take, RoutingTypeOK
    <3>2. arrived \in Seq(Commands) => Len(Append(arrived, c)) = Len(arrived) + 1
      OBVIOUS
    <3> QED
      BY <1>1, <1>2, <3>1, <3>2
  <2> QED
    BY <1>2, <2>1, HandMoves DEF HandLast
<1>3. ASSUME NEW d \in Commands, Take(d), Len(arrived') = Len(arrived) + 1,
             arrived'[Len(arrived) + 1] = d
      PROVE  arrived'[Len(arrived')] = c
  <2>1. \A e \in Commands : ~InHand(e)
    BY <1>3 DEF Take, LoopFree, InlineBusy, InHand
  <2>2. Take(c)
    BY <2>1, HandMoves
  <2>3. arrived' = Append(arrived, c) /\ arrived \in Seq(Commands)
    BY <1>1, <2>2 DEF Take, RoutingTypeOK
  <2>4. arrived'[Len(arrived) + 1] = c
    BY <2>3
  <2> QED
    BY <1>3, <2>4
<1>4. Len(arrived) + 1 \in 1..(Len(arrived) + 1)
  BY <1>1
<1> QED
  BY <1>1, <1>2, <1>3, <1>4, ArrivedMoves

\* A step of the executor, an enqueue by the loop, or neither.
LEMMA ExecutorCases ==
  [RoutingNext]_routingVars =>
    \/ \E w \in Commands : /\ ExecutorStep(w)
                           /\ WorkerStep(w) \/ BodyEnds(w)
                           /\ UNCHANGED <<loopVars, ran, regVars>>
    \/ \E c \in Commands : Defer(c)
    \/ UNCHANGED vars
BY StepCases DEF Take, ProbeRaw, ResolveTargets, ProbeCanonical, ChooseSlowKey, BodyBegins,
                 FastBody, ResumeBody, ApplyIdentity, SessionEnds, routingVars, ExecutorStep

\* A command and its job advance together.
LEMMA StagesFollowStep == RoutingInv /\ StagesFollow /\ [RoutingNext]_routingVars => StagesFollow'
<1> SUFFICES ASSUME RoutingInv, StagesFollow, [RoutingNext]_routingVars PROVE StagesFollow'
  OBVIOUS
<1>1. /\ RoutingTypeOK /\ IInv /\ EnqueuedOnward /\ Commands = Jobs
      /\ workers \in [Jobs -> Worker]
  BY DEF RoutingInv, LoopInv, Commands, IInv, TypeOK
<1>2. ASSUME NEW w \in Commands, WorkerStep(w) \/ BodyEnds(w), ExecutorStep(w), at' = at
      PROVE  StagesFollow'
  <2>1. \A c \in Commands :
          \/ stage'[c] = stage[c]
          \/ stage[c] = "queued" /\ stage'[c] = "taken"
          \/ stage[c] = "taken" /\ stage'[c] = "settled" /\ at[c] = "over"
    BY <1>1, <1>2, WorkerMoves DEF StagesFollow
  <2>2. ASSUME NEW v \in Commands, workers'[v].pc = "settle"
        PROVE  at'[workers'[v].job] = "over"
    <3>1. /\ workers'[v].job = workers[v].job
          /\ workers[v].pc = "settle" \/ (v = w /\ BodyEnds(w))
      BY <1>1, <1>2, <2>2, WorkerMoves
    <3>2. BodyEnds(w) => at[workers[w].job] = "over"
      BY <1>2 DEF ExecutorStep, WorkerStep, BodyEnds, Pop, Retire, AcquirePermit, Settle
    <3> QED
      BY <1>2, <3>1, <3>2 DEF StagesFollow
  <2> QED
    BY <1>2, <2>1, <2>2 DEF StagesFollow
<1>3. ASSUME NEW c \in Commands, Defer(c)
      PROVE  StagesFollow'
  <2>1. at[c] = "keyed" /\ Enqueue(c, JobOf(c)) /\ JobOf(c) \in Submissions
    BY <1>3, JobIs DEF Defer
  <2>2. \A d \in Commands : at'[d] = IF d = c THEN "deferred" ELSE at[d]
    BY <1>1, <1>3 DEF Defer, RoutingTypeOK
  <2>3. \A d \in Commands : stage'[d] = IF d = c THEN "queued" ELSE stage[d]
    BY <1>1, <2>1, EnqueueMoves
  <2>4. \A v \in Commands : workers'[v].pc = "settle" =>
          workers[v].pc = "settle" /\ workers'[v].job = workers[v].job
    BY <1>1, <2>1, EnqueueMoves
  <2>5. ASSUME NEW v \in Commands, workers[v].pc = "settle"
        PROVE  at'[workers[v].job] = "over"
    <3>1. at[workers[v].job] = "over" /\ workers[v].job \in Commands
      BY <1>1, <2>5 DEF StagesFollow, IInv, WorkersServe, Active
    <3> QED
      BY <2>1, <2>2, <3>1
  <2> QED
    BY <2>2, <2>3, <2>4, <2>5 DEF StagesFollow
<1>4. CASE UNCHANGED vars
  <2>1. stage' = stage /\ workers' = workers
    BY <1>4 DEF vars, queueVars, workVars
  <2>2. \A c \in Commands :
          \/ at'[c] = at[c]
          \/ at[c] = "unsent" /\ at'[c] \in {"raw", "resolve"}
          \/ at[c] \in {"raw", "resolve", "canonical"} /\ at'[c] \in {"resolve", "canonical", "keyed"}
          \/ at[c] = "canonical" /\ at'[c] = "body" /\ c \notin Resumes
          \/ at[c] = "deferred" /\ at'[c] = "body" /\ stage[c] = "taken"
          \/ at[c] = "body" /\ at'[c] = "over"
    <3>1. \A c \in Commands : ProbeCanonical(c) => c \notin Resumes
      BY DEF ProbeCanonical
    <3>2. \A c \in Commands : Defer(c) => FALSE
      <4>1. \A c \in Commands : Defer(c) => stage'[c] = "queued" /\ stage[c] = "new"
        <5> SUFFICES ASSUME NEW c \in Commands, Defer(c)
                     PROVE  stage'[c] = "queued" /\ stage[c] = "new"
          OBVIOUS
        <5>1. Enqueue(c, JobOf(c)) /\ JobOf(c) \in Submissions
          BY JobIs DEF Defer
        <5> QED
          BY <1>1, <5>1, EnqueueMoves
      <4> QED
        BY <2>1, <4>1
    <3>3. \A c \in Commands : BodyBegins(c) => stage[c] = "taken"
      BY <1>1, BodyBeginsIs
    <3> SUFFICES ASSUME NEW c \in Commands, at'[c] # at[c]
                 PROVE  \/ at[c] = "unsent" /\ at'[c] \in {"raw", "resolve"}
                        \/ /\ at[c] \in {"raw", "resolve", "canonical"}
                           /\ at'[c] \in {"resolve", "canonical", "keyed"}
                        \/ at[c] = "canonical" /\ at'[c] = "body" /\ c \notin Resumes
                        \/ at[c] = "deferred" /\ at'[c] = "body" /\ stage[c] = "taken"
                        \/ at[c] = "body" /\ at'[c] = "over"
      OBVIOUS
    <3>4. \/ at[c] = "unsent" /\ at'[c] = IF c \in Resumes THEN "resolve" ELSE "raw"
          \/ at[c] = "raw" /\ at'[c] \in {"resolve", "keyed"}
          \/ at[c] = "resolve" /\ at'[c] = "canonical"
          \/ ProbeCanonical(c) /\ at[c] = "canonical" /\ at'[c] \in {"body", "keyed"}
          \/ at[c] = "canonical" /\ at'[c] = "keyed"
          \/ Defer(c)
          \/ BodyBegins(c) /\ at[c] = "deferred" /\ at'[c] = "body"
          \/ at[c] = "body" /\ at'[c] = "over"
      BY <1>1, CommandMoves
    <3> QED
      BY <3>1, <3>2, <3>3, <3>4
  <2>3. \A c \in Commands : at[c] \in {"unsent", "raw", "resolve", "canonical", "keyed"} => stage[c] = "new"
    BY <1>1 DEF EnqueuedOnward
  <2>4. ASSUME NEW v \in Commands, workers[v].pc = "settle"
        PROVE  at'[workers[v].job] = "over"
    <3>1. at[workers[v].job] = "over" /\ workers[v].job \in Commands
      BY <1>1, <2>4 DEF StagesFollow, IInv, WorkersServe, Active
    <3> QED
      BY <2>2, <3>1
  <2>5. ASSUME NEW c \in Commands
        PROVE  /\ at'[c] = "deferred" => stage[c] \in {"queued", "taken"}
               /\ at'[c] = "body" => stage[c] \in {"new", "taken"}
               /\ stage[c] = "queued" => at'[c] = "deferred"
               /\ stage[c] = "settled" => at'[c] = "over"
               /\ at'[c] = "body" /\ c \in Resumes => stage[c] = "taken"
    BY <2>2, <2>3 DEF StagesFollow
  <2> QED
    BY <2>1, <2>4, <2>5 DEF StagesFollow
<1>5. UNCHANGED <<loopVars, ran, regVars>> => at' = at
  BY DEF loopVars
<1> QED
  BY <1>2, <1>3, <1>4, <1>5, ExecutorCases

\* What was submitted stays so; the loop submits the command it holds.
LEMMA SubmittedMoves ==
  RoutingInv /\ [RoutingNext]_routingVars =>
    \/ submitted' = submitted
    \/ \E c \in Commands :
         /\ Defer(c) /\ at[c] = "keyed" /\ stage[c] = "new" /\ arrived' = arrived
         /\ submitted \in Seq(Jobs) /\ Len(submitted') = Len(submitted) + 1
         /\ \A p \in 1..Len(submitted') :
              submitted'[p] = IF p = Len(submitted) + 1 THEN c ELSE submitted[p]
<1> SUFFICES ASSUME RoutingInv, [RoutingNext]_routingVars
             PROVE  \/ submitted' = submitted
                    \/ \E c \in Commands :
                         /\ Defer(c) /\ at[c] = "keyed" /\ stage[c] = "new" /\ arrived' = arrived
                         /\ submitted \in Seq(Jobs) /\ Len(submitted') = Len(submitted) + 1
                         /\ \A p \in 1..Len(submitted') :
                              submitted'[p] = IF p = Len(submitted) + 1 THEN c ELSE submitted[p]
  OBVIOUS
<1>1. IInv /\ Commands = Jobs /\ submitted \in Seq(Jobs)
  BY DEF RoutingInv, Commands, IInv, TypeOK
<1>2. CASE UNCHANGED vars
  BY <1>2 DEF vars, queueVars
<1>3. CASE \E w \in Commands : WorkerStep(w) \/ BodyEnds(w)
  BY <1>1, <1>3, WorkerMoves
<1>4. ASSUME NEW c \in Commands, Defer(c)
      PROVE  /\ at[c] = "keyed" /\ stage[c] = "new" /\ arrived' = arrived
             /\ Len(submitted') = Len(submitted) + 1
             /\ \A p \in 1..Len(submitted') :
                  submitted'[p] = IF p = Len(submitted) + 1 THEN c ELSE submitted[p]
  <2>1. at[c] = "keyed" /\ Enqueue(c, JobOf(c)) /\ JobOf(c) \in Submissions /\ arrived' = arrived
    BY <1>4, JobIs DEF Defer
  <2>2. stage[c] = "new" /\ submitted' = Append(submitted, c)
    BY <1>1, <2>1, EnqueueMoves
  <2> QED
    BY <1>1, <2>1, <2>2
<1> QED
  BY <1>1, <1>2, <1>3, <1>4, ExecutorCases

\* The loop hands commands over in the order it takes them.
LEMMA SubmittedAsArrivedStep == InTurn /\ [RoutingNext]_routingVars => SubmittedAsArrived'
<1> SUFFICES ASSUME InTurn, [RoutingNext]_routingVars PROVE SubmittedAsArrived'
  OBVIOUS
<1>1. /\ RoutingInv /\ RoutingTypeOK /\ SubmittedOnce /\ ArrivedOnce /\ HandLast
      /\ SubmittedAsArrived /\ EnqueuedOnward /\ Commands = Jobs
      /\ Len(arrived) \in Nat /\ Len(submitted) \in Nat /\ submitted \in Seq(Jobs)
  BY DEF InTurn, RoutingInv, LoopInv, TurnInv, OrderInv, RoutingTypeOK, IInv, TypeOK, Commands
<1>2. \A p \in 1..Len(submitted) : submitted[p] \in Commands /\ stage[submitted[p]] # "new"
  BY <1>1 DEF SubmittedOnce
<1>3. CASE arrived' = arrived /\ submitted' = submitted
  BY <1>1, <1>3 DEF SubmittedAsArrived
<1>4. ASSUME NEW c \in Commands, at[c] = "keyed", stage[c] = "new", arrived' = arrived,
             Len(submitted') = Len(submitted) + 1,
             \A p \in 1..Len(submitted') :
               submitted'[p] = IF p = Len(submitted) + 1 THEN c ELSE submitted[p]
      PROVE  SubmittedAsArrived'
  <2> SUFFICES ASSUME NEW p \in 1..Len(submitted'), NEW q \in 1..Len(submitted'),
                      NEW i \in 1..Len(arrived), NEW h \in 1..Len(arrived),
                      submitted'[p] = arrived[i], submitted'[q] = arrived[h], p < q
               PROVE  i < h
    BY <1>4 DEF SubmittedAsArrived
  <2>1. p \in 1..Len(submitted) /\ submitted'[p] = submitted[p]
    BY <1>1, <1>4
  <2>2. CASE q \in 1..Len(submitted)
    <3>1. submitted'[q] = submitted[q]
      BY <1>1, <1>4, <2>2
    <3> QED
      BY <1>1, <2>1, <2>2, <3>1 DEF SubmittedAsArrived
  <2>3. CASE q = Len(submitted) + 1
    <3>1. arrived[h] = c /\ arrived[Len(arrived)] = c
      BY <1>1, <1>4, <2>3 DEF HandLast, InHand
    <3>2. Len(arrived) \in 1..Len(arrived)
      BY <1>1
    <3>3. h = Len(arrived)
      BY <1>1, <3>1, <3>2 DEF ArrivedOnce
    <3>4. submitted[p] # c
      BY <1>2, <1>4, <2>1
    <3>5. i # h
      BY <2>1, <3>1, <3>4
    <3> QED
      BY <1>1, <3>3, <3>5
  <2> QED
    BY <1>1, <1>4, <2>2, <2>3
<1>5. ASSUME NEW c \in Commands, at[c] = "unsent", Len(arrived') = Len(arrived) + 1,
             submitted' = submitted,
             \A i \in 1..Len(arrived') : arrived'[i] = IF i = Len(arrived) + 1 THEN c ELSE arrived[i]
      PROVE  SubmittedAsArrived'
  <2>1. \A p \in 1..Len(submitted) : submitted[p] # c
    BY <1>1, <1>2, <1>5 DEF EnqueuedOnward
  <2>2. \A i \in 1..Len(arrived') : \A p \in 1..Len(submitted) : submitted[p] = arrived'[i]
          => i \in 1..Len(arrived) /\ arrived'[i] = arrived[i]
    BY <1>1, <1>5, <2>1
  <2> QED
    BY <1>1, <1>5, <2>2 DEF SubmittedAsArrived
<1>6. vars' = vars => submitted' = submitted
  BY DEF vars, queueVars
<1>7. CASE arrived' = arrived
  BY <1>1, <1>3, <1>4, <1>7, SubmittedMoves
<1>8. CASE arrived' # arrived
  BY <1>1, <1>5, <1>6, <1>8, ArrivedMoves
<1> QED
  BY <1>7, <1>8

\* What acted stays so; a body appends the command that acts.
LEMMA RanMoves ==
  RoutingTypeOK /\ [RoutingNext]_routingVars =>
    \/ ran' = ran
    \/ \E c \in Commands :
         /\ at[c] = "body" /\ (c \in Resumes \/ Managed(c)) /\ at'[c] = "over" /\ arrived' = arrived
         /\ Len(ran') = Len(ran) + 1
         /\ \A p \in 1..Len(ran') : ran'[p] = IF p = Len(ran) + 1 THEN c ELSE ran[p]
<1> SUFFICES ASSUME RoutingTypeOK, [RoutingNext]_routingVars
             PROVE  \/ ran' = ran
                    \/ \E c \in Commands :
                         /\ at[c] = "body" /\ (c \in Resumes \/ Managed(c)) /\ at'[c] = "over"
                         /\ arrived' = arrived /\ Len(ran') = Len(ran) + 1
                         /\ \A p \in 1..Len(ran') :
                              ran'[p] = IF p = Len(ran) + 1 THEN c ELSE ran[p]
  OBVIOUS
<1>1. ran' = ran \/ \E c \in Commands : FastBody(c) \/ ResumeBody(c)
  BY StepCases DEF Take, ProbeRaw, ResolveTargets, ProbeCanonical, ChooseSlowKey, Defer,
                   BodyBegins, ExecutorStep, ApplyIdentity, SessionEnds, routingVars
<1>2. ASSUME NEW c \in Commands, FastBody(c) \/ ResumeBody(c)
      PROVE  \/ ran' = ran
             \/ /\ at[c] = "body" /\ (c \in Resumes \/ Managed(c)) /\ at'[c] = "over"
                /\ arrived' = arrived /\ Len(ran') = Len(ran) + 1
                /\ \A p \in 1..Len(ran') : ran'[p] = IF p = Len(ran) + 1 THEN c ELSE ran[p]
  <2>1. /\ at[c] = "body" /\ at' = [at EXCEPT ![c] = "over"] /\ arrived' = arrived
        /\ ran' = ran \/ (ran' = Append(ran, c) /\ (c \in Resumes \/ Managed(c)))
    BY <1>2 DEF FastBody, ResumeBody
  <2>2. ran \in Seq(Commands) /\ at'[c] = "over"
    BY <2>1 DEF RoutingTypeOK
  <2>3. ran' = Append(ran, c) =>
          /\ Len(ran') = Len(ran) + 1
          /\ \A p \in 1..Len(ran') : ran'[p] = IF p = Len(ran) + 1 THEN c ELSE ran[p]
    BY <2>2
  <2> QED
    BY <2>1, <2>2, <2>3
<1> QED
  BY <1>1, <1>2

\* Those that arrived before a command that acted are over, and stay so.
LEMMA RanInTurnStep == InTurn /\ [RoutingNext]_routingVars => RanInTurn'
<1> SUFFICES ASSUME InTurn, [RoutingNext]_routingVars PROVE RanInTurn'
  OBVIOUS
<1>1. /\ RoutingTypeOK /\ RanInTurn
      /\ arrived \in Seq(Commands) /\ ran \in Seq(Commands) /\ Len(arrived) \in Nat /\ Len(ran) \in Nat
      /\ \A c \in Commands : at[c] = "over" => at'[c] = "over"
  BY OnceOver DEF InTurn, RoutingInv, TurnInv, RoutingTypeOK
<1>2. Targets' = Targets
  BY ScenarioStays
<1>3. \A i \in 1..Len(arrived) : arrived[i] \in Commands
  BY <1>1
<1>4. \A p \in 1..Len(ran) : ran[p] \in Commands
  BY <1>1
<1>5. CASE arrived' = arrived
  <2>1. ASSUME NEW p \in 1..Len(ran), ran'[p] = ran[p]
        PROVE  /\ at'[ran'[p]] = "over"
               /\ \A i, h \in 1..Len(arrived) :
                    arrived[h] = ran'[p] /\ i < h /\ Conversation(arrived[i]) = Conversation(arrived[h])
                      => at'[arrived[i]] = "over"
    BY <1>1, <1>3, <1>4, <2>1 DEF RanInTurn
  <2>2. ASSUME NEW c \in Commands, at[c] = "body", c \in Resumes \/ Managed(c), at'[c] = "over"
        PROVE  \A i, h \in 1..Len(arrived) :
                 arrived[h] = c /\ i < h /\ Conversation(arrived[i]) = Conversation(arrived[h])
                   => at'[arrived[i]] = "over"
    BY <1>1, <1>3, <2>2, ActsInTurn
  <2>3. \A p \in 1..Len(ran') :
          /\ at'[ran'[p]] = "over"
          /\ \A i, h \in 1..Len(arrived) :
               arrived[h] = ran'[p] /\ i < h /\ Conversation(arrived[i]) = Conversation(arrived[h])
                 => at'[arrived[i]] = "over"
    <3>1. CASE ran' = ran
      BY <2>1, <3>1
    <3>2. ASSUME NEW c \in Commands, at[c] = "body", c \in Resumes \/ Managed(c), at'[c] = "over",
                 Len(ran') = Len(ran) + 1,
                 \A p \in 1..Len(ran') : ran'[p] = IF p = Len(ran) + 1 THEN c ELSE ran[p],
                 NEW p \in 1..Len(ran')
          PROVE  /\ at'[ran'[p]] = "over"
                 /\ \A i, h \in 1..Len(arrived) :
                      /\ arrived[h] = ran'[p] /\ i < h
                      /\ Conversation(arrived[i]) = Conversation(arrived[h])
                      => at'[arrived[i]] = "over"
      <4>1. CASE p = Len(ran) + 1
        BY <2>2, <3>2, <4>1
      <4>2. CASE p # Len(ran) + 1
        <5>1. p \in 1..Len(ran) /\ ran'[p] = ran[p]
          BY <1>1, <3>2, <4>2
        <5> QED
          BY <2>1, <5>1
      <4> QED
        BY <4>1, <4>2
    <3> QED
      BY <1>1, <3>1, <3>2, RanMoves
  <2> QED
    BY <1>2, <1>5, <2>3 DEF RanInTurn, Conversation
<1>6. ASSUME NEW c \in Commands, at[c] = "unsent", Len(arrived') = Len(arrived) + 1, ran' = ran,
             \A i \in 1..Len(arrived') : arrived'[i] = IF i = Len(arrived) + 1 THEN c ELSE arrived[i]
      PROVE  RanInTurn'
  <2>1. ASSUME NEW p \in 1..Len(ran), NEW i \in 1..Len(arrived'), NEW h \in 1..Len(arrived'),
               arrived'[h] = ran[p], i < h
        PROVE  /\ i \in 1..Len(arrived) /\ h \in 1..Len(arrived)
               /\ arrived'[i] = arrived[i] /\ arrived'[h] = arrived[h]
    <3>1. h # Len(arrived) + 1
      BY <1>1, <1>6, <2>1 DEF RanInTurn
    <3> QED
      BY <1>1, <1>6, <2>1, <3>1
  <2>2. ASSUME NEW p \in 1..Len(ran)
        PROVE  /\ at'[ran[p]] = "over"
               /\ \A i, h \in 1..Len(arrived') :
                    /\ arrived'[h] = ran[p] /\ i < h
                    /\ Conversation(arrived'[i]) = Conversation(arrived'[h])
                    => at'[arrived'[i]] = "over"
    <3>1. at'[ran[p]] = "over"
      BY <1>1, <1>4 DEF RanInTurn
    <3>2. ASSUME NEW i \in 1..Len(arrived'), NEW h \in 1..Len(arrived'),
                 arrived'[h] = ran[p], i < h,
                 Conversation(arrived'[i]) = Conversation(arrived'[h])
          PROVE  at'[arrived'[i]] = "over"
      <4>1. /\ i \in 1..Len(arrived) /\ h \in 1..Len(arrived)
            /\ arrived'[i] = arrived[i] /\ arrived'[h] = arrived[h]
        BY <2>1, <3>2
      <4>2. at[arrived[i]] = "over"
        BY <1>1, <3>2, <4>1 DEF RanInTurn
      <4> QED
        BY <1>1, <1>3, <4>1, <4>2
    <3> QED
      BY <3>1, <3>2
  <2> QED
    BY <1>2, <1>6, <2>2 DEF RanInTurn, Conversation
<1> QED
  BY <1>1, <1>5, <1>6, ArrivedMoves

\* So of two that acted, the later one did not arrive first.
LEMMA RanAsArrivedStep == InTurn /\ [RoutingNext]_routingVars => RanAsArrived'
<1> SUFFICES ASSUME InTurn, [RoutingNext]_routingVars PROVE RanAsArrived'
  OBVIOUS
<1>1. /\ RoutingTypeOK /\ RanInTurn /\ RanAsArrived
      /\ Len(arrived) \in Nat /\ Len(ran) \in Nat
  BY DEF InTurn, RoutingInv, TurnInv, RoutingTypeOK
<1>2. Targets' = Targets
  BY ScenarioStays
<1>3. CASE ran' = ran /\ arrived' = arrived
  BY <1>1, <1>2, <1>3 DEF RanAsArrived, Conversation
<1>4. ASSUME NEW c \in Commands, at[c] = "body", arrived' = arrived, Len(ran') = Len(ran) + 1,
             \A p \in 1..Len(ran') : ran'[p] = IF p = Len(ran) + 1 THEN c ELSE ran[p]
      PROVE  RanAsArrived'
  <2> SUFFICES ASSUME NEW p \in 1..Len(ran'), NEW q \in 1..Len(ran'),
                      NEW i \in 1..Len(arrived), NEW h \in 1..Len(arrived),
                      p < q, ran'[p] = arrived[i], ran'[q] = arrived[h],
                      Conversation(ran'[p]) = Conversation(ran'[q])
               PROVE  i <= h
    BY <1>2, <1>4 DEF RanAsArrived, Conversation
  <2>1. p \in 1..Len(ran) /\ ran'[p] = ran[p]
    BY <1>1, <1>4
  <2>2. CASE q \in 1..Len(ran)
    <3>1. ran'[q] = ran[q]
      BY <1>1, <1>4, <2>2
    <3> QED
      BY <1>1, <2>1, <2>2, <3>1 DEF RanAsArrived
  <2>3. CASE q = Len(ran) + 1
    <3>1. arrived[h] = c
      BY <1>4, <2>3
    <3>2. h < i => at[arrived[h]] = "over"
      BY <1>1, <2>1 DEF RanInTurn
    <3>3. ~(h < i)
      BY <1>4, <3>1, <3>2
    <3> QED
      BY <1>1, <3>3
  <2>4. Len(ran') = Len(ran) + 1
    BY <1>4
  <2>5. q \in 1..Len(ran) \/ q = Len(ran) + 1
    BY ONLY Len(ran) \in Nat, <1>1, <2>4, q \in 1..Len(ran')
  <2> QED
    BY ONLY <2>2, <2>3, <2>5
<1>5. ASSUME NEW c \in Commands, at[c] = "unsent", Len(arrived') = Len(arrived) + 1, ran' = ran,
             \A i \in 1..Len(arrived') : arrived'[i] = IF i = Len(arrived) + 1 THEN c ELSE arrived[i]
      PROVE  RanAsArrived'
  <2>1. ASSUME NEW p \in 1..Len(ran), NEW i \in 1..Len(arrived'), arrived'[i] = ran[p]
        PROVE  i \in 1..Len(arrived) /\ arrived'[i] = arrived[i]
    <3>1. i # Len(arrived) + 1
      BY <1>1, <1>5, <2>1 DEF RanInTurn
    <3> QED
      BY <1>1, <1>5, <2>1, <3>1
  <2>2. \A p, q \in 1..Len(ran) : \A i, h \in 1..Len(arrived') :
          /\ p < q /\ ran[p] = arrived'[i] /\ ran[q] = arrived'[h]
          /\ Conversation(ran[p]) = Conversation(ran[q])
          => i <= h
    BY <1>1, <2>1 DEF RanAsArrived
  <2> QED
    BY <1>2, <1>5, <2>2 DEF RanAsArrived, Conversation
<1>6. CASE arrived' = arrived
  BY <1>1, <1>3, <1>4, <1>6, RanMoves
<1>7. CASE arrived' # arrived
  BY <1>1, <1>5, <1>7, ArrivedMoves
<1> QED
  BY <1>6, <1>7

\* A command's job is what it was when the loop enqueued it.
LEMMA JobsMove ==
  RoutingInv /\ [RoutingNext]_routingVars =>
    \A c \in Commands :
      \/ job'[c] = job[c] /\ (stage'[c] = "new" <=> stage[c] = "new")
      \/ at[c] = "keyed" /\ stage'[c] = "queued" /\ job'[c] = JobOf(c)
<1> SUFFICES ASSUME RoutingInv, [RoutingNext]_routingVars, NEW c \in Commands
             PROVE  \/ job'[c] = job[c] /\ (stage'[c] = "new" <=> stage[c] = "new")
                    \/ at[c] = "keyed" /\ stage'[c] = "queued" /\ job'[c] = JobOf(c)
  OBVIOUS
<1>1. IInv /\ Commands = Jobs
  BY DEF RoutingInv, Commands
<1>2. CASE UNCHANGED vars
  BY <1>2 DEF vars, queueVars
<1>3. CASE \E w \in Commands : WorkerStep(w) \/ BodyEnds(w)
  <2>1. \/ stage'[c] = stage[c]
        \/ stage[c] = "queued" /\ stage'[c] = "taken"
        \/ stage[c] = "taken" /\ stage'[c] = "settled"
    BY <1>1, <1>3, WorkerMoves
  <2>2. job' = job
    BY <1>1, <1>3, WorkerMoves
  <2> QED
    BY <2>1, <2>2
<1>4. ASSUME NEW d \in Commands, Defer(d)
      PROVE  \/ job'[c] = job[c] /\ (stage'[c] = "new" <=> stage[c] = "new")
             \/ at[c] = "keyed" /\ stage'[c] = "queued" /\ job'[c] = JobOf(c)
  <2>1. at[d] = "keyed" /\ Enqueue(d, JobOf(d)) /\ JobOf(d) \in Submissions
    BY <1>4, JobIs DEF Defer
  <2>2. /\ job'[c] = IF c = d THEN JobOf(d) ELSE job[c]
        /\ stage'[c] = IF c = d THEN "queued" ELSE stage[c]
    BY <1>1, <2>1, EnqueueMoves
  <2> QED
    BY <2>1, <2>2
<1> QED
  BY <1>2, <1>3, <1>4, ExecutorCases

\* While the loop holds a command, routes and queues can only go away.
LEMMA QuietWhileHeld ==
  RoutingInv /\ [RoutingNext]_routingVars =>
    \A c \in Commands : InHand(c)' =>
      \A id \in Ids : (HasRoute(id)' => HasRoute(id)) /\ (QueueBusy(id)' => QueueBusy(id))
<1> SUFFICES ASSUME RoutingInv, [RoutingNext]_routingVars, NEW c \in Commands, InHand(c)',
                    NEW id \in Ids
             PROVE  (HasRoute(id)' => HasRoute(id)) /\ (QueueBusy(id)' => QueueBusy(id))
  OBVIOUS
<1>1. IInv /\ Commands = Jobs /\ Keys = Ids /\ OneInHand /\ RoutingTypeOK
  BY RoutingAssumption DEF RoutingInv, LoopInv, Commands
<1>2. CASE UNCHANGED vars
  BY <1>2 DEF vars, queueVars, holdVars, workVars, HasRoute, QueueBusy
<1>3. CASE \E w \in Commands : WorkerStep(w) \/ BodyEnds(w)
  BY <1>1, <1>3, WorkerMoves
<1>4. ASSUME NEW d \in Commands, Defer(d) PROVE FALSE
  <2>1. at[d] = "keyed" /\ at'[d] = "deferred"
    BY <1>1, <1>4 DEF Defer, RoutingTypeOK
  <2>2. InHand(d) /\ ~InHand(d)'
    BY <2>1 DEF InHand
  <2>3. c = d
    BY <1>1, <2>2, HandMoves DEF OneInHand
  <2> QED
    BY <2>2, <2>3
<1> QED
  BY <1>2, <1>3, <1>4, ExecutorCases

\* The registry, where no backend has an id of its own: a resume adds its wrapper
\* and the token's alias, the end of a session takes both away.
LEMMA RegistryMoves ==
  InTurn /\ [RoutingNext]_routingVars =>
    \/ sessions' = sessions /\ aliases' = aliases
    \/ \E c \in Resumes :
         /\ at[c] = "body" /\ Targets[c][1] \in ToSet(Targets[c])
         /\ Last(Targets[c]) \in ToSet(Targets[c])
         /\ sessions' = sessions \cup {Targets[c][1]}
         /\ \A a \in Ids : aliases'[a] =
              IF a = Last(Targets[c])
              THEN (IF Last(Targets[c]) # Targets[c][1] THEN Targets[c][1] ELSE NoKey)
              ELSE IF a = Targets[c][1] THEN NoKey ELSE aliases[a]
    \/ \E id \in Ids :
         /\ sessions' = sessions \ {id}
         /\ \A a \in Ids : aliases'[a] = IF a = id \/ aliases[a] = id THEN NoKey ELSE aliases[a]
<1> SUFFICES ASSUME InTurn, [RoutingNext]_routingVars
             PROVE  \/ sessions' = sessions /\ aliases' = aliases
                    \/ \E c \in Resumes :
                         /\ at[c] = "body" /\ Targets[c][1] \in ToSet(Targets[c])
                         /\ Last(Targets[c]) \in ToSet(Targets[c])
                         /\ sessions' = sessions \cup {Targets[c][1]}
                         /\ \A a \in Ids : aliases'[a] =
                              IF a = Last(Targets[c])
                              THEN (IF Last(Targets[c]) # Targets[c][1] THEN Targets[c][1] ELSE NoKey)
                              ELSE IF a = Targets[c][1] THEN NoKey ELSE aliases[a]
                    \/ \E id \in Ids :
                         /\ sessions' = sessions \ {id}
                         /\ \A a \in Ids : aliases'[a] = IF a = id \/ aliases[a] = id THEN NoKey
                                                         ELSE aliases[a]
  OBVIOUS
<1>1. RegistryTyped /\ NoBackendIds
  BY DEF InTurn, RoutingInv, RegistryInv
<1>2. CASE UNCHANGED regVars
  BY <1>2 DEF regVars
<1>3. ASSUME NEW c \in Commands, ResumeBody(c),
             sessions' = sessions \cup {LogOf[Targets[c][1]]},
             aliases' = AliasesWith(LogOf[Targets[c][1]], TokenOf(c))
      PROVE  /\ c \in Resumes /\ at[c] = "body" /\ Targets[c][1] \in ToSet(Targets[c])
             /\ Last(Targets[c]) \in ToSet(Targets[c])
             /\ sessions' = sessions \cup {Targets[c][1]}
             /\ \A a \in Ids : aliases'[a] =
                  IF a = Last(Targets[c])
                  THEN (IF Last(Targets[c]) # Targets[c][1] THEN Targets[c][1] ELSE NoKey)
                  ELSE IF a = Targets[c][1] THEN NoKey ELSE aliases[a]
  <2>1. c \in Resumes /\ at[c] = "body"
    BY <1>3 DEF ResumeBody
  <2>2. /\ LogOf[Targets[c][1]] = Targets[c][1] /\ TokenOf(c) = Last(Targets[c])
        /\ Targets[c][1] \in ToSet(Targets[c]) /\ TokenOf(c) \in ToSet(Targets[c])
    BY <2>1, WrapperIs
  <2>3. Targets[c][1] \in Ids /\ Last(Targets[c]) \in Ids
    BY <1>1, <2>2, BackendIs
  <2>4. aliases' = AliasesWith(Targets[c][1], Last(Targets[c]))
    BY <1>3, <2>2
  <2>5. \A a \in Ids : aliases'[a] =
          IF a = Last(Targets[c])
          THEN (IF Last(Targets[c]) # Targets[c][1] THEN Targets[c][1] ELSE NoKey)
          ELSE IF a = Targets[c][1] THEN NoKey ELSE aliases[a]
    BY <1>1, <2>3, <2>4, RegistrationIs
  <2> QED
    BY <1>3, <2>1, <2>2, <2>5
<1>4. ASSUME NEW id \in Ids, ApplyIdentity(id) PROVE FALSE
  BY <1>1, <1>4 DEF ApplyIdentity, NoBackendIds
<1>5. ASSUME NEW id \in Ids, SessionEnds(id)
      PROVE  /\ sessions' = sessions \ {id}
             /\ \A a \in Ids : aliases'[a] = IF a = id \/ aliases[a] = id THEN NoKey ELSE aliases[a]
  <2>1. sessions' = sessions \ {id}
    BY <1>5 DEF SessionEnds
  <2> QED
    BY <1>1, <1>5, <2>1, EndIs
<1> QED
  BY <1>2, <1>3, <1>4, <1>5, RegistrySteps DEF RegistryStep

\* A session is registered under a wrapper's id.
LEMMA HomeSessionsStep == InTurn /\ [RoutingNext]_routingVars => HomeSessions'
<1> SUFFICES ASSUME InTurn, [RoutingNext]_routingVars PROVE HomeSessions'
  OBVIOUS
<1>1. HomeSessions /\ Targets' = Targets
  BY ScenarioStays DEF InTurn, TurnInv
<1>2. \A s \in sessions' : s \in sessions \/ \E c \in Resumes : s = Targets[c][1]
  BY RegistryMoves
<1> QED
  BY <1>1, <1>2 DEF HomeSessions, IsHome

\* An alias goes with the session it names.
LEMMA AliasesLiveStep == InTurn /\ [RoutingNext]_routingVars => AliasesLive'
<1> SUFFICES ASSUME InTurn, [RoutingNext]_routingVars, NEW a \in Ids, aliases'[a] # NoKey
             PROVE  aliases'[a] \in sessions'
  BY DEF AliasesLive
<1>1. AliasesLive
  BY DEF InTurn, TurnInv
<1> QED
  BY <1>1, RegistryMoves DEF AliasesLive

\* What a command's targets resolved to, or the ids found for it before.
LEMMA CanonicalMoves ==
  RoutingTypeOK /\ [RoutingNext]_routingVars =>
    \A c \in Commands : canonical'[c] = canonical[c] \/ ResolveTargets(c)
<1> SUFFICES ASSUME RoutingTypeOK, [RoutingNext]_routingVars
             PROVE  \A c \in Commands : canonical'[c] = canonical[c] \/ ResolveTargets(c)
  OBVIOUS
<1>1. \/ canonical' = canonical
      \/ \E d \in Commands : /\ \A e \in Commands : e # d => canonical'[e] = canonical[e]
                             /\ \/ ResolveTargets(d)
                                \/ canonical' = canonical
  BY CommandMoves DEF Take, ProbeRaw, ProbeCanonical, ChooseSlowKey, Defer, BodyBegins,
                      FastBody, ResumeBody
<1> QED
  BY <1>1

\* The ids found for a command were sessions.
LEMMA CanonicalHomeStep == InTurn /\ [RoutingNext]_routingVars => CanonicalHome'
<1> SUFFICES ASSUME InTurn, [RoutingNext]_routingVars, NEW c \in Commands, NEW k \in canonical'[c]
             PROVE  \E d \in Resumes : k = Targets[d][1]
  BY ScenarioStays DEF CanonicalHome, IsHome
<1>1. /\ RoutingTypeOK /\ RegistryTyped /\ CanonicalHome /\ HomeSessions
      /\ canonical \in [Commands -> SUBSET Ids]
  BY DEF InTurn, RoutingInv, RegistryInv, TurnInv, RoutingTypeOK
<1>2. CASE canonical'[c] = canonical[c]
  BY <1>1, <1>2 DEF CanonicalHome, IsHome
<1>3. CASE ResolveTargets(c)
  <2>1. k \in Resolved(c)
    BY <1>1, <1>3 DEF ResolveTargets
  <2>2. k \in sessions
    BY <1>1, <2>1, ResolvedIs
  <2> QED
    BY <1>1, <2>2 DEF HomeSessions, IsHome
<1> QED
  BY <1>1, <1>2, <1>3, CanonicalMoves

\* The key the loop chooses for a command is its conversation's home.
LEMMA ChosenIsHome ==
  InTurn =>
    \A c \in Commands :
      /\ BusyKey(Targets[c]) # NoKey => HomeOf(c, BusyKey(Targets[c]))
      /\ BusyKey(SetToSeq(canonical[c])) # NoKey => HomeOf(c, BusyKey(SetToSeq(canonical[c])))
      /\ c \in Resumes => HomeOf(c, SlowKey(c))
<1> SUFFICES ASSUME InTurn, NEW c \in Commands
             PROVE  /\ BusyKey(Targets[c]) # NoKey => HomeOf(c, BusyKey(Targets[c]))
                    /\ BusyKey(SetToSeq(canonical[c])) # NoKey
                         => HomeOf(c, BusyKey(SetToSeq(canonical[c])))
                    /\ c \in Resumes => HomeOf(c, SlowKey(c))
  OBVIOUS
<1>1. /\ IInv /\ RegistryTyped /\ CanonicalInside /\ CanonicalHome
      /\ canonical[c] \in SUBSET Ids /\ IsFiniteSet(canonical[c])
  BY DEF InTurn, RoutingInv, RegistryInv, LoopInv, TurnInv, RoutingTypeOK, CanonicalInside
<1>2. /\ Targets[c] \in Seq(Ids) /\ ToSet(Targets[c]) \subseteq Ids
      /\ \A id \in ToSet(Targets[c]) : SessionOf[id] = Conversation(c)
  BY <1>1, TargetsAre
<1>3. SetToSeq(canonical[c]) \in Seq(Ids) /\ ToSet(SetToSeq(canonical[c])) = canonical[c]
  <2>1. /\ SetToSeq(canonical[c]) \in Seq(canonical[c])
        /\ ToSet(SetToSeq(canonical[c])) = canonical[c]
    BY <1>1, SetAsSequence
  <2> QED
    BY <1>1, <2>1
<1>4. ASSUME NEW s \in Seq(Ids), BusyKey(s) # NoKey, ToSet(s) \subseteq Ids,
             \A id \in ToSet(s) : SessionOf[id] = Conversation(c)
      PROVE  HomeOf(c, BusyKey(s))
  <2>1. PICK id \in ToSet(s) : \/ HasRoute(id) /\ BusyKey(s) = RouteKey(id)
                               \/ QueueBusy(id) /\ BusyKey(s) = id
    BY <1>1, <1>4, BusyKeyIs
  <2>2. id \in Ids /\ SessionOf[id] = Conversation(c)
    BY <1>4
  <2> QED
    BY <2>1, <2>2, BusyIsHome
<1>5. ASSUME c \in Resumes PROVE HomeOf(c, SlowKey(c))
  <2>1. HomeOf(c, Targets[c][1])
    BY <1>5 DEF HomeOf
  <2>2. canonical[c] \subseteq ToSet(Targets[c])
    <3> SUFFICES ASSUME NEW k \in canonical[c] PROVE k \in ToSet(Targets[c])
      OBVIOUS
    <3>1. PICK d \in Resumes : k = Targets[d][1]
      BY <1>1 DEF CanonicalHome, IsHome
    <3>2. HomeOf(c, k)
      BY <1>1, <3>1 DEF HomeOf, Conversation, CanonicalInside
    <3>3. k = Targets[c][1]
      BY <2>1, <3>2, OneHome
    <3> QED
      BY <1>1, <3>3, TargetsAre
  <2>3. CASE \E id \in ToSet(Targets[c]) \cup canonical[c] : HasRoute(id) /\ SlowKey(c) = RouteKey(id)
    <3>1. PICK id \in ToSet(Targets[c]) : HasRoute(id) /\ SlowKey(c) = RouteKey(id)
      BY <2>2, <2>3
    <3> QED
      BY <1>2, <3>1, BusyIsHome
  <2>4. CASE SlowKey(c) = Targets[c][1]
    BY <2>1, <2>4
  <2> QED
    BY <1>1, <2>2, <2>3, <2>4, SlowKeyIs
<1> QED
  BY <1>1, <1>2, <1>3, <1>4, <1>5 DEF CanonicalInside

\* All of a conversation is queued under its home.
LEMMA KeysHomeStep == InTurn /\ [RoutingNext]_routingVars => KeysHome'
<1> SUFFICES ASSUME InTurn, [RoutingNext]_routingVars, NEW c \in Commands
             PROVE  /\ at'[c] = "keyed" => HomeOf(c, keyOf'[c])
                    /\ stage'[c] # "new" => HomeOf(c, job'[c].key)
  BY ScenarioStays DEF KeysHome, HomeOf, Conversation
<1>1. /\ RoutingInv /\ RoutingTypeOK /\ KeysHome
      /\ keyOf \in [Commands -> Ids \cup {NoKey}]
  BY DEF InTurn, RoutingInv, TurnInv, RoutingTypeOK
<1>2. ASSUME at'[c] = "keyed" PROVE HomeOf(c, keyOf'[c])
  <2>1. \/ at[c] = "keyed" /\ keyOf'[c] = keyOf[c]
        \/ ProbeRaw(c) \/ ProbeCanonical(c) \/ ChooseSlowKey(c)
    <3>1. \/ at' = at /\ keyOf' = keyOf
          \/ \E d \in Commands :
               /\ \A e \in Commands : e # d => at'[e] = at[e] /\ keyOf'[e] = keyOf[e]
               /\ \/ at'[d] # "keyed" \/ ProbeRaw(d) \/ ProbeCanonical(d) \/ ChooseSlowKey(d)
      BY <1>1, CommandMoves
    <3> QED
      BY <1>2, <3>1
  <2>2. CASE at[c] = "keyed" /\ keyOf'[c] = keyOf[c]
    BY <1>1, <2>2 DEF KeysHome
  <2>3. CASE ProbeRaw(c)
    <3>1. keyOf'[c] = BusyKey(Targets[c]) /\ keyOf'[c] # NoKey
      BY <1>1, <1>2, <2>3 DEF ProbeRaw, RoutingTypeOK
    <3> QED
      BY <3>1, ChosenIsHome
  <2>4. CASE ProbeCanonical(c)
    <3>1. keyOf'[c] = BusyKey(SetToSeq(canonical[c])) /\ keyOf'[c] # NoKey
      BY <1>1, <1>2, <2>4 DEF ProbeCanonical, RoutingTypeOK
    <3> QED
      BY <3>1, ChosenIsHome
  <2>5. CASE ChooseSlowKey(c)
    <3>1. keyOf'[c] = SlowKey(c) /\ c \in Resumes
      BY <1>1, <2>5 DEF ChooseSlowKey
    <3> QED
      BY <3>1, ChosenIsHome
  <2> QED
    BY <2>1, <2>2, <2>3, <2>4, <2>5
<1>3. ASSUME stage'[c] # "new" PROVE HomeOf(c, job'[c].key)
  <2>1. CASE job'[c] = job[c] /\ stage[c] # "new"
    BY <1>1, <2>1 DEF KeysHome
  <2>2. CASE at[c] = "keyed" /\ job'[c] = JobOf(c)
    BY <1>1, <2>2, JobIs DEF KeysHome
  <2> QED
    BY <1>1, <1>3, <2>1, <2>2, JobsMove
<1> QED
  BY <1>2, <1>3

\* A queue is busy with jobs of its key, waiting, running or done.
LEMMA BusyHasJobStep == InTurn /\ [RoutingNext]_routingVars => BusyHasJob'
<1> SUFFICES ASSUME InTurn, [RoutingNext]_routingVars, NEW k \in Keys, QueueBusy(k)'
             PROVE  \E c \in Commands : stage'[c] # "new" /\ job'[c].key = k
  BY DEF BusyHasJob
<1>1. RoutingInv /\ IInv /\ BusyHasJob /\ Commands = Jobs
  BY DEF InTurn, RoutingInv, TurnInv, Commands
<1>2. ASSUME QueueBusy(k) PROVE \E c \in Commands : stage'[c] # "new" /\ job'[c].key = k
  <2>1. PICK c \in Commands : stage[c] # "new" /\ job[c].key = k
    BY <1>1, <1>2 DEF BusyHasJob
  <2>2. at[c] # "keyed"
    BY <1>1, <2>1 DEF RoutingInv, LoopInv, EnqueuedOnward
  <2> QED
    BY <1>1, <2>1, <2>2, JobsMove
<1>3. CASE UNCHANGED vars
  BY <1>2, <1>3 DEF vars, queueVars, workVars, QueueBusy
<1>4. CASE \E w \in Commands : WorkerStep(w) \/ BodyEnds(w)
  BY <1>1, <1>2, <1>4, WorkerMoves
<1>5. ASSUME NEW d \in Commands, Defer(d)
      PROVE  \E c \in Commands : stage'[c] # "new" /\ job'[c].key = k
  <2>1. Enqueue(d, JobOf(d)) /\ JobOf(d) \in Submissions
    BY <1>1, <1>5, JobIs DEF Defer
  <2>2. QueueBusy(k) \/ k = JobOf(d).key
    BY <1>1, <2>1, EnqueueMoves
  <2>3. stage'[d] = "queued" /\ job'[d] = JobOf(d)
    BY <1>1, <2>1, EnqueueMoves
  <2> QED
    BY <1>2, <2>2, <2>3
<1> QED
  BY <1>3, <1>4, <1>5, ExecutorCases

\* How a fast command comes to look for the ids that are busy, or to its body.
LEMMA FastMoves ==
  RoutingInv /\ [RoutingNext]_routingVars =>
    \A c \in Commands \ Resumes : InHand(c)' /\ at'[c] \in {"resolve", "canonical", "body"} =>
      /\ InHand(c)
      /\ \/ ProbeRaw(c) /\ at[c] = "raw" /\ at'[c] = "resolve"
         \/ ResolveTargets(c) /\ at[c] = "resolve" /\ at'[c] = "canonical"
         \/ ProbeCanonical(c) /\ at[c] = "canonical" /\ at'[c] = "body"
         \/ at'[c] = at[c] /\ canonical'[c] = canonical[c]
<1> SUFFICES ASSUME RoutingInv, [RoutingNext]_routingVars, NEW c \in Commands \ Resumes, InHand(c)',
                    at'[c] \in {"resolve", "canonical", "body"}
             PROVE  /\ InHand(c)
                    /\ \/ ProbeRaw(c) /\ at[c] = "raw" /\ at'[c] = "resolve"
                       \/ ResolveTargets(c) /\ at[c] = "resolve" /\ at'[c] = "canonical"
                       \/ ProbeCanonical(c) /\ at[c] = "canonical" /\ at'[c] = "body"
                       \/ at'[c] = at[c] /\ canonical'[c] = canonical[c]
  OBVIOUS
<1>1. RoutingTypeOK /\ c \in Commands
  BY DEF RoutingInv
<1>2. InHand(c)
  <2>1. Take(c) => at'[c] = "raw"
    BY <1>1 DEF Take, RoutingTypeOK
  <2> QED
    BY <1>1, <2>1, HandMoves
<1>3. at[c] \notin {"unsent", "deferred"}
  BY <1>2 DEF InHand
<1>4. \/ at'[c] = at[c] /\ canonical'[c] = canonical[c]
      \/ Take(c) /\ at[c] = "unsent"
      \/ ProbeRaw(c) /\ at[c] = "raw" /\ at'[c] \in {"resolve", "keyed"}
      \/ ResolveTargets(c) /\ at[c] = "resolve" /\ at'[c] = "canonical"
      \/ ProbeCanonical(c) /\ at[c] = "canonical" /\ at'[c] \in {"body", "keyed"}
      \/ at'[c] = "keyed" \/ at'[c] = "deferred" \/ at[c] = "deferred" \/ at'[c] = "over"
  BY <1>1, CommandMoves
<1> QED
  BY <1>2, <1>3, <1>4

\* What a fast command found clear stays so while the loop holds it.
LEMMA ClearTargetsStep == InTurn /\ [RoutingNext]_routingVars => ClearTargets'
<1> SUFFICES ASSUME InTurn, [RoutingNext]_routingVars, NEW c \in Commands \ Resumes, InHand(c)',
                    at'[c] \in {"resolve", "canonical", "body"}, NEW id \in ToSet(Targets[c])
             PROVE  ~HasRoute(id)' /\ ~QueueBusy(id)'
  BY ScenarioStays DEF ClearTargets
<1>1. RoutingInv /\ RoutingTypeOK /\ IInv /\ RegistryTyped /\ ClearTargets /\ c \in Commands
  BY DEF InTurn, RoutingInv, RegistryInv, TurnInv
<1>2. id \in Ids /\ Targets[c] \in Seq(Ids)
  BY <1>1, TargetsAre
<1>3. ~HasRoute(id) /\ ~QueueBusy(id)
  <2>1. CASE ProbeRaw(c) /\ at'[c] = "resolve"
    <3>1. BusyKey(Targets[c]) = NoKey
      BY <1>1, <2>1 DEF ProbeRaw, RoutingTypeOK
    <3> QED
      BY <1>1, <1>2, <3>1, BusyKeyIs
  <2>2. CASE InHand(c) /\ at[c] \in {"resolve", "canonical", "body"}
    BY <2>2, <1>1 DEF ClearTargets
  <2>3. \/ ProbeRaw(c) /\ at'[c] = "resolve"
        \/ InHand(c) /\ at[c] \in {"resolve", "canonical", "body"}
    BY <1>1, FastMoves
  <2> QED
    BY <2>1, <2>2, <2>3
<1> QED
  BY <1>1, <1>2, <1>3, QuietWhileHeld

\* The same of the state a step leads to.
LEMMA DirectNext ==
  (RegistryTyped /\ AliasesLive =>
     \A id \in Ids : Resolve(id) = IF id \in sessions THEN id ELSE aliases[id])'
BY Direct, PTL

\* While nothing is pending for the ids of a command, it can only lose sessions.
LEMMA ResolvedShrinks ==
  InTurn /\ [RoutingNext]_routingVars =>
    \A c \in Commands : (\A id \in ToSet(Targets[c]) : ~HasRoute(id)) =>
      \A k \in Resolved(c)' : k \in Resolved(c)
<1> SUFFICES ASSUME InTurn, [RoutingNext]_routingVars, NEW c \in Commands,
                    \A id \in ToSet(Targets[c]) : ~HasRoute(id),
                    NEW k \in Resolved(c)'
             PROVE  k \in Resolved(c)
  OBVIOUS
<1>1. /\ RegistryTyped /\ IInv /\ JobsReserve /\ StagesFollow /\ AliasesLive /\ Commands = Jobs
      /\ Resumes \subseteq Commands
  BY RoutingAssumption DEF InTurn, RoutingInv, RegistryInv, LoopInv, TurnInv, Commands
<1>2. RegistryTyped' /\ AliasesLive'
  BY <1>1, RegistryTypedStep, AliasesLiveStep
<1>3. PICK id \in ToSet(Targets[c]) : k = Resolve(id)' /\ k # NoKey
  BY ScenarioStays DEF Resolved
<1>4. id \in Ids
  BY <1>1, TargetsAre
<1>5. Resolve(id) = IF id \in sessions THEN id ELSE aliases[id]
  BY <1>1, <1>4, Direct
<1>6. Resolve(id)' = IF id \in sessions' THEN id ELSE aliases'[id]
  BY <1>2, <1>4, DirectNext
<1>7. Resolve(id) = k
  <2>1. CASE sessions' = sessions /\ aliases' = aliases
    BY <1>3, <1>5, <1>6, <2>1
  <2>2. ASSUME NEW d \in Resumes, at[d] = "body", Targets[d][1] \in ToSet(Targets[d]),
               Last(Targets[d]) \in ToSet(Targets[d]), sessions' = sessions \cup {Targets[d][1]},
               \A a \in Ids : aliases'[a] =
                 IF a = Last(Targets[d])
                 THEN (IF Last(Targets[d]) # Targets[d][1] THEN Targets[d][1] ELSE NoKey)
                 ELSE IF a = Targets[d][1] THEN NoKey ELSE aliases[a]
        PROVE  Resolve(id) = k
    <3>1. stage[d] = "taken" /\ d \in Jobs
      BY <1>1, <2>2 DEF StagesFollow
    <3>2. Unsettled(d) /\ job[d].routes = ToSet(Targets[d]) \cup canonical[d]
      BY <1>1, <2>2, <3>1 DEF Unsettled, JobsReserve
    <3>3. ToSet(Targets[d]) \subseteq Ids
      BY <1>1, <3>1, TargetsAre
    <3>4. \A i \in ToSet(Targets[d]) : HasRoute(i)
      BY <1>1, <3>1, <3>2, <3>3, HeldRoute
    <3>5. id # Targets[d][1] /\ id # Last(Targets[d])
      BY <1>3, <2>2, <3>4
    <3>6. (id \in sessions' <=> id \in sessions) /\ aliases'[id] = aliases[id]
      BY <1>4, <2>2, <3>5
    <3> QED
      BY <1>3, <1>5, <1>6, <3>6
  <2>3. ASSUME NEW i \in Ids, sessions' = sessions \ {i},
               \A a \in Ids : aliases'[a] = IF a = i \/ aliases[a] = i THEN NoKey ELSE aliases[a]
        PROVE  Resolve(id) = k
    <3>1. aliases'[id] = IF id = i \/ aliases[id] = i THEN NoKey ELSE aliases[id]
      BY <1>4, <2>3
    <3>2. CASE id \in sessions'
      BY <1>3, <1>5, <1>6, <2>3, <3>2
    <3>3. CASE id \notin sessions'
      <4>1. k = aliases'[id] /\ aliases'[id] # NoKey
        BY <1>3, <1>6, <3>3
      <4>2. id # i /\ k = aliases[id]
        BY <3>1, <4>1
      <4>3. id \notin sessions
        BY <2>3, <3>3, <4>2
      <4> QED
        BY <1>5, <4>2, <4>3
    <3> QED
      BY <3>2, <3>3
  <2> QED
    BY <2>1, <2>2, <2>3, RegistryMoves
<1> QED
  BY <1>3, <1>7 DEF Resolved

\* Nor does a session come to be busy that a fast command found idle.
LEMMA ClearCanonicalStep == InTurn /\ [RoutingNext]_routingVars => ClearCanonical'
<1> SUFFICES ASSUME InTurn, [RoutingNext]_routingVars PROVE ClearCanonical'
  OBVIOUS
<1>1. /\ RoutingInv /\ RoutingTypeOK /\ IInv /\ RegistryTyped /\ CanonicalInside
      /\ ClearTargets /\ ClearCanonical
  BY DEF InTurn, RoutingInv, RegistryInv, LoopInv, TurnInv
<1>2. \A c \in Commands : at'[c] = "canonical" => InHand(c)'
  BY DEF InHand
<1>3. ASSUME NEW c \in Commands \ Resumes, at'[c] = "canonical", NEW k \in Resolved(c)'
      PROVE  k \in canonical'[c]
  <2>1. /\ InHand(c)
        /\ \/ ResolveTargets(c) /\ at[c] = "resolve"
           \/ at[c] = "canonical" /\ canonical'[c] = canonical[c]
    BY <1>1, <1>2, <1>3, FastMoves
  <2>2. \A id \in ToSet(Targets[c]) : ~HasRoute(id)
    BY <1>1, <2>1 DEF ClearTargets
  <2>3. k \in Resolved(c)
    BY <1>3, <2>2, ResolvedShrinks
  <2>4. ResolveTargets(c) => canonical'[c] = Resolved(c)
    BY <1>1 DEF ResolveTargets, RoutingTypeOK
  <2> QED
    BY <1>1, <2>1, <2>3, <2>4 DEF ClearCanonical
<1>4. ASSUME NEW c \in Commands \ Resumes, InHand(c)', at'[c] = "body", NEW k \in Resolved(c)'
      PROVE  ~QueueBusy(k)'
  <2>1. /\ InHand(c)
        /\ \/ ProbeCanonical(c) /\ at[c] = "canonical"
           \/ at[c] = "body"
    BY <1>1, <1>4, FastMoves
  <2>2. \A id \in ToSet(Targets[c]) : ~HasRoute(id)
    BY <1>1, <2>1 DEF ClearTargets
  <2>3. k \in Resolved(c)
    BY <1>4, <2>2, ResolvedShrinks
  <2>4. k \in Ids
    BY <1>1, <2>3, ResolvedIs DEF RegistryTyped
  <2>5. ~QueueBusy(k)
    <3>1. CASE at[c] = "body"
      BY <1>1, <2>1, <2>3, <3>1 DEF ClearCanonical
    <3>2. CASE ProbeCanonical(c) /\ at[c] = "canonical"
      <4>1. BusyKey(SetToSeq(canonical[c])) = NoKey
        BY <1>1, <1>4, <3>2 DEF ProbeCanonical, RoutingTypeOK
      <4>2. k \in canonical[c] /\ canonical[c] \in SUBSET Ids /\ IsFiniteSet(canonical[c])
        BY <1>1, <2>3, <3>2 DEF ClearCanonical, RoutingTypeOK, CanonicalInside
      <4>3. /\ SetToSeq(canonical[c]) \in Seq(canonical[c])
            /\ ToSet(SetToSeq(canonical[c])) = canonical[c]
        BY <4>2, SetAsSequence
      <4>4. SetToSeq(canonical[c]) \in Seq(Ids) /\ k \in ToSet(SetToSeq(canonical[c]))
        BY <4>2, <4>3
      <4> QED
        BY <1>1, <4>1, <4>4, BusyKeyIs
    <3> QED
      BY <2>1, <3>1, <3>2
  <2> QED
    BY <1>1, <1>4, <2>4, <2>5, QuietWhileHeld
<1> QED
  BY <1>3, <1>4 DEF ClearCanonical

\* Nothing has arrived yet.
LEMMA TurnInvInit == RoutingInit => TurnInv
<1> SUFFICES ASSUME RoutingInit PROVE TurnInv
  OBVIOUS
<1>1. /\ at = [c \in Commands |-> "unsent"] /\ canonical = [c \in Commands |-> {}]
      /\ arrived = <<>> /\ ran = <<>> /\ sessions = {} /\ aliases = [id \in Ids |-> NoKey]
      /\ Init /\ OrderInv
  BY InitOrderInv DEF RoutingInit
<1>2. /\ stage = [j \in Jobs |-> "new"] /\ submitted = <<>> /\ Commands = Jobs
      /\ \A w \in Jobs : workers[w].pc = "none"
      /\ \A k \in Keys : ~QueueBusy(k)
  BY <1>1 DEF Init, NoEntry, Commands, QueueBusy
<1>3. /\ \A c \in Commands : at[c] = "unsent" /\ stage[c] = "new" /\ canonical[c] = {} /\ ~InHand(c)
      /\ 1..Len(arrived) = {} /\ 1..Len(ran) = {} /\ 1..Len(submitted) = {}
  BY <1>1, <1>2 DEF InHand
<1>4. ArrivedOnce /\ HandLast /\ SubmittedAsArrived /\ RanInTurn /\ RanAsArrived
  BY <1>3 DEF ArrivedOnce, HandLast, SubmittedAsArrived, RanInTurn, RanAsArrived
<1>5. StagesFollow /\ KeysHome /\ CanonicalHome
  BY <1>2, <1>3 DEF StagesFollow, KeysHome, CanonicalHome
<1>6. HomeSessions /\ AliasesLive /\ BusyHasJob
  BY <1>1, <1>2 DEF HomeSessions, AliasesLive, BusyHasJob
<1>7. ClearTargets /\ ClearCanonical
  BY <1>3 DEF ClearTargets, ClearCanonical
<1> QED
  BY <1>1, <1>4, <1>5, <1>6, <1>7 DEF TurnInv

\* Every step keeps it, where no backend has an id of its own.
LEMMA TurnInvStep == InTurn /\ [RoutingNext]_routingVars => TurnInv'
<1> SUFFICES ASSUME InTurn, [RoutingNext]_routingVars PROVE TurnInv'
  OBVIOUS
<1>1. RoutingInv /\ IInv /\ OrderInv /\ ArrivedOnce /\ HandLast /\ StagesFollow
  BY DEF InTurn, RoutingInv, TurnInv
<1>2. OrderInv'
  BY <1>1, DrivesExecutor, StepOrderInv
<1>3. ArrivedOnce' /\ HandLast' /\ StagesFollow'
  BY <1>1, ArrivedOnceStep, HandLastStep, StagesFollowStep
<1>4. SubmittedAsArrived' /\ RanInTurn' /\ RanAsArrived'
  BY SubmittedAsArrivedStep, RanInTurnStep, RanAsArrivedStep
<1>5. HomeSessions' /\ AliasesLive' /\ CanonicalHome' /\ KeysHome' /\ BusyHasJob'
  BY HomeSessionsStep, AliasesLiveStep, CanonicalHomeStep, KeysHomeStep, BusyHasJobStep
<1>6. ClearTargets' /\ ClearCanonical'
  BY ClearTargetsStep, ClearCanonicalStep
<1> QED
  BY <1>2, <1>3, <1>4, <1>5, <1>6 DEF TurnInv

\* Where the resumes of a conversation overlap and name one wrapper, what keeps
\* the order of arrival always holds.
THEOREM RoutesInTurnAlways ==
  ASSUME ResumesOverlap, OneWrapper
  PROVE  RoutingSpec => []RoutesInTurn
<1>1. RoutingInit => RoutesInTurn
  BY TurnInvInit DEF RoutesInTurn
<1>2. RoutingInv /\ RoutesInTurn /\ [RoutingNext]_routingVars => RoutesInTurn'
  <2> SUFFICES ASSUME RoutingInv, RoutesInTurn, [RoutingNext]_routingVars, NoBackendIds'
               PROVE  TurnInv'
    BY DEF RoutesInTurn
  <2>1. NoBackendIds
    BY ScenarioStays DEF NoBackendIds
  <2>2. InTurn
    BY <2>1 DEF InTurn, RoutesInTurn
  <2> QED
    BY <2>2, TurnInvStep
<1> QED
  BY <1>1, <1>2, RoutingInvAlways, PTL DEF RoutingSpec

\* One session's commands always execute in arrival order: whichever of its ids
\* each names, whether they run inline or wait for a worker, and however often the
\* session ends and is resumed meanwhile.
THEOREM ArrivalOrderAlways ==
  ASSUME ResumesOverlap, OneWrapper
  PROVE  RoutingSpec => []ArrivalOrder
<1>1. RoutingInv /\ RoutesInTurn => ArrivalOrder
  <2> SUFFICES ASSUME RoutingInv, RoutesInTurn, \A id \in Ids : BackendOf[id] = NoKey,
                      NEW p \in DOMAIN ran, NEW q \in DOMAIN ran, Overtaken(p, q)
               PROVE  FALSE
    BY DEF ArrivalOrder, AlwaysArrivalOrder
  <2>1. RoutingTypeOK /\ ArrivedOnce /\ RanInTurn /\ RanAsArrived
    BY DEF RoutingInv, RoutesInTurn, NoBackendIds, TurnInv
  <2>2. /\ p \in 1..Len(ran) /\ q \in 1..Len(ran) /\ ran[p] \in Commands /\ ran[q] \in Commands
        /\ DOMAIN arrived = 1..Len(arrived)
    BY <2>1 DEF RoutingTypeOK
  <2>3. /\ p < q /\ Conversation(ran[p]) = Conversation(ran[q])
        /\ Position(arrived, ran[q]) < Position(arrived, ran[p])
    BY DEF Overtaken, Conversation
  <2>4. \A c \in Commands : at[c] = "over" =>
          Position(arrived, c) \in 1..Len(arrived) /\ arrived[Position(arrived, c)] = c
    BY <2>1, <2>2 DEF Position, ArrivedOnce
  <2>5. at[ran[p]] = "over" /\ at[ran[q]] = "over"
    BY <2>1, <2>2 DEF RanInTurn
  <2>6. Position(arrived, ran[p]) <= Position(arrived, ran[q])
    BY <2>1, <2>2, <2>3, <2>4, <2>5 DEF RanAsArrived
  <2>7. Position(arrived, ran[p]) \in Nat /\ Position(arrived, ran[q]) \in Nat
    BY <2>2, <2>4, <2>5
  <2> QED
    BY <2>3, <2>6, <2>7
<1> QED
  BY <1>1, RoutingInvAlways, RoutesInTurnAlways, PTL
==============================================================================
