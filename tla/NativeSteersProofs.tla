-------------------------- MODULE NativeSteersProofs --------------------------
(***************************************************************************)
(* A steer is on several lanes over its life (an unread event, a watcher's *)
(* hand, the injection queue, the follow-up channel, the loop's message)   *)
(* and moves between them while rounds end and begin around it.  Three     *)
(* facts are proved for any number of steers, watchers and events: none is *)
(* lost, none is heard twice and none is heard after its clear was         *)
(* confirmed; the last two as long as the fallback's timer does not        *)
(* overtake an answer.                                                     *)
(***************************************************************************)
EXTENDS NativeSteers, FilteringProofs

Asked(s) == Event("steer", s)
Cleared(s) == Event("clear", s)
SteerEvents == [type : {"steer", "clear"}, steer : Steers]

\* The types the arguments rest on: TypeOK without the bounds on rounds and turns.
Types ==
    /\ watchers \in [Rounds -> Watcher]
    /\ parked \in Seq(SteerEvents)
    /\ queue \in Seq(Steers)
    /\ channel \in Seq(Steers \cup {Plain})
    /\ message \in Steers \cup {Plain, NoSteer}
    /\ delivered \subseteq Steers
    /\ fallback \in [Steers -> {"none", "waiting", "over"}]
    /\ told \in [Steers -> SUBSET {"requested", "clear", "accepted", "queued", "delivered",
                                   "cancelled", "refused"}]
    /\ heard \in [Steers -> Nat]
    /\ world \in Worlds

-----------------------------------------------------------------------------
(* The invariants.                                                         *)

\* Nothing is known of a steer before its request, and what is said of its clear
\* follows the clear.
Requested ==
    /\ \A s \in Steers : /\ fallback[s] = "none" => told[s] = {} /\ heard[s] = 0
                         /\ "cancelled" \in told[s] => "clear" \in told[s]
    /\ \A s \in ToSet(queue) \cup ToSet(channel) \cup {message} :
          s \in Steers => fallback[s] # "none"
    /\ \A r \in Rounds :
          /\ watchers[r].hand # NoSteer => fallback[watchers[r].hand] # "none"
          /\ \A e \in ToSet(watchers[r].inbox) : /\ fallback[e.steer] # "none"
                                                 /\ e.type = "clear" => "clear" \in told[e.steer]
    /\ \A e \in ToSet(parked) : fallback[e.steer] # "none"

\* The loop holds a message only between its pick and the round it starts; what it
\* has delivered was heard.
Delivered ==
    /\ message # NoSteer => pc \in {"picked", "over"}
    /\ \A s \in delivered : heard[s] > 0

\* One watcher is live, during its round's turns; the watchers to come are blank.
OneLive ==
    /\ \A r \in Rounds :
          /\ watchers[r].state = "live" => r = round /\ pc \in {"top", "model"}
          /\ r > round \/ (r = round /\ pc = "starting") => watchers[r] = NoWatcher
    /\ round \in Nat

\* The lanes.
Heard(s) == heard[s] > 0
Queued(s) == s \in ToSet(queue)
InChannel(s) == s \in ToSet(channel)
Picked(s) == message = s
InHandOf(r, s) == watchers[r].hand = s
Held(s) == \E r \in Rounds : InHandOf(r, s)
UnreadBy(r, s) == watchers[r].state = "live" /\ Asked(s) \in ToSet(watchers[r].inbox)
Unread(s) == \E r \in Rounds : UnreadBy(r, s)
UnreadParked(s) == ParkedListens /\ Asked(s) \in ToSet(parked)

\* A steer is on one lane at most ...
OneLane(s) ==
    /\ Heard(s) => ~(Queued(s) \/ InChannel(s) \/ Picked(s) \/ Held(s) \/ Unread(s) \/ UnreadParked(s))
    /\ Queued(s) => ~(InChannel(s) \/ Picked(s) \/ Held(s) \/ Unread(s) \/ UnreadParked(s))
    /\ InChannel(s) => ~(Picked(s) \/ Held(s) \/ Unread(s) \/ UnreadParked(s))
    /\ Picked(s) => ~(Held(s) \/ Unread(s) \/ UnreadParked(s))
    /\ Held(s) => ~(Unread(s) \/ UnreadParked(s))

\* ... once ...
OnceOnIt(s) ==
    /\ heard[s] <= 1
    /\ Once(s, queue) /\ Once(s, channel)
    /\ \A r, q \in Rounds : InHandOf(r, s) /\ InHandOf(q, s) => r = q
    /\ \A r \in Rounds : watchers[r].state = "live" => Once(Asked(s), watchers[r].inbox)
    /\ ParkedListens => Once(Asked(s), parked)

OnNoLane(s) ==
    ~(Heard(s) \/ Queued(s) \/ InChannel(s) \/ Picked(s) \/ Held(s) \/ Unread(s) \/ UnreadParked(s))

\* ... acknowledged on the lanes behind the first answer, and on none once cancelled.
Answered(s) ==
    /\ ~Acknowledged(s) => ~(Heard(s) \/ Queued(s) \/ InChannel(s) \/ Picked(s))
    /\ "cancelled" \in told[s] => OnNoLane(s)

Lanes == ~world.slow => \A s \in Steers : OneLane(s) /\ OnceOnIt(s) /\ Answered(s)

SInv == Types /\ Requested /\ Delivered /\ OneLive /\ NoSteerLost /\ Lanes

-----------------------------------------------------------------------------
(* What the steps do to the watchers.                                      *)

\* What Types says of one watcher.
LEMMA WatcherTypes ==
    ASSUME Types, NEW r \in Rounds
    PROVE  /\ watchers[r] \in Watcher /\ watchers[r].inbox \in Seq(SteerEvents)
           /\ watchers[r].hand \in Steers \cup {NoSteer}
           /\ watchers[r].state \in {"none", "live", "corpse", "dead"}
BY DEF Types, Watcher, SteerEvents

\* An empty subscription.
LEMMA NoEvents == <<>> \in Seq(SteerEvents) /\ ToSet(<<>>) = {} /\ \A e : Once(e, <<>>)
BY DEF ToSet, Once

\* A broadcast lands behind the unread events of every subscription there is.
LEMMA BroadcastEffect ==
    ASSUME Types, NEW e \in SteerEvents, Broadcast(e)
    PROVE  /\ watchers' \in [Rounds -> Watcher] /\ parked' \in Seq(SteerEvents)
           /\ \A r \in Rounds :
                 /\ watchers'[r].state = watchers[r].state
                 /\ watchers'[r].hand = watchers[r].hand
                 /\ watchers'[r].inbox = IF Listening(r) THEN Append(watchers[r].inbox, e)
                                         ELSE watchers[r].inbox
                 /\ ~Listening(r) => watchers'[r] = watchers[r]
           /\ parked' = IF ParkedListens THEN Append(parked, e) ELSE parked
<1>1. /\ watchers' = [r \in Rounds |-> IF Listening(r)
                                       THEN [watchers[r] EXCEPT !.inbox = Append(@, e)]
                                       ELSE watchers[r]]
      /\ parked' = IF ParkedListens THEN Append(parked, e) ELSE parked
    BY DEF Broadcast
<1>2. parked' \in Seq(SteerEvents)
    BY <1>1 DEF Types
<1>3. ASSUME NEW r \in Rounds
      PROVE  /\ watchers'[r] \in Watcher
             /\ watchers'[r].state = watchers[r].state
             /\ watchers'[r].hand = watchers[r].hand
             /\ watchers'[r].inbox = IF Listening(r) THEN Append(watchers[r].inbox, e)
                                     ELSE watchers[r].inbox
             /\ ~Listening(r) => watchers'[r] = watchers[r]
    <2>1. /\ watchers[r] \in Watcher /\ watchers[r].inbox \in Seq(SteerEvents)
          /\ Append(watchers[r].inbox, e) \in Seq(SteerEvents)
        BY WatcherTypes
    <2>2. watchers'[r] = IF Listening(r) THEN [watchers[r] EXCEPT !.inbox = Append(watchers[r].inbox, e)]
                         ELSE watchers[r]
        BY <1>1
    <2> QED
        BY <2>1, <2>2 DEF Watcher, SteerEvents
<1>4. watchers' = [r \in Rounds |-> watchers'[r]]
    BY <1>1
<1> HIDE DEF Watcher
<1>5. watchers' \in [Rounds -> Watcher]
    BY <1>3, <1>4
<1> QED
    BY <1>1, <1>2, <1>3, <1>5

\* One watcher becomes v.
LEMMA WatcherBecomes ==
    ASSUME Types, NEW r \in Rounds, NEW v \in Watcher, watchers' = [watchers EXCEPT ![r] = v]
    PROVE  /\ watchers' \in [Rounds -> Watcher] /\ watchers'[r] = v
           /\ \A q \in Rounds \ {r} : watchers'[q] = watchers[q]
BY DEF Types

-----------------------------------------------------------------------------
(* What the helpers do.                                                    *)

\* Tell adds one event to what is said of one steer.
LEMMA TellEffect ==
    ASSUME Types, NEW s \in Steers,
           NEW what \in {"requested", "clear", "accepted", "queued", "delivered", "cancelled",
                         "refused"}, Tell(s, what)
    PROVE  /\ told' \in [Steers -> SUBSET {"requested", "clear", "accepted", "queued",
                                           "delivered", "cancelled", "refused"}]
           /\ told'[s] = told[s] \cup {what}
           /\ \A t \in Steers \ {s} : told'[t] = told[t]
BY DEF Types, Tell

\* How often a steer occurs in what enters the conversation.
LEMMA Occurrences ==
    ASSUME NEW T, NEW texts \in Seq(T), NEW s
    PROVE  LET n == Cardinality({i \in 1..Len(texts) : texts[i] = s})
           IN  /\ n \in Nat
               /\ s \in ToSet(texts) => n > 0
               /\ s \notin ToSet(texts) => n = 0
               /\ Once(s, texts) => n <= 1
<1> DEFINE I == {i \in 1..Len(texts) : texts[i] = s}
<1>1. IsFiniteSet(I) /\ Cardinality(I) \in Nat
    <2>1. IsFiniteSet(1..Len(texts)) /\ I \subseteq 1..Len(texts)
        BY FS_Interval
    <2> QED
        BY <2>1, FS_Subset, FS_CardinalityType
<1>2. s \in ToSet(texts) <=> I # {}
    BY DEF ToSet
<1>3. Cardinality(I) = 0 <=> I = {}
    BY <1>1, FS_EmptySet
<1>4. ASSUME Once(s, texts), I # {} PROVE Cardinality(I) = 1
    <2>1. PICK i \in I : TRUE
        BY <1>4
    <2>2. I = {i}
        BY <1>4, <2>1 DEF Once
    <2> QED
        BY <2>2, FS_Singleton
<1> QED
    BY <1>1, <1>2, <1>3, <1>4

\* What enters the conversation is heard.
LEMMA EntersEffect ==
    ASSUME Types, NEW texts \in Seq(Steers \cup {Plain, NoSteer}), Enters(texts)
    PROVE  /\ heard' \in [Steers -> Nat]
           /\ told' \in [Steers -> SUBSET {"requested", "clear", "accepted", "queued",
                                           "delivered", "cancelled", "refused"}]
           /\ \A s \in Steers :
                 /\ s \in ToSet(texts) => heard'[s] > heard[s] /\ "delivered" \in told'[s]
                 /\ s \notin ToSet(texts) => heard'[s] = heard[s] /\ told'[s] = told[s]
                 /\ Once(s, texts) => heard'[s] <= heard[s] + 1
                 /\ told'[s] \in {told[s], told[s] \cup {"delivered"}}
                 /\ heard'[s] >= heard[s]
<1> DEFINE n(s) == Cardinality({i \in 1..Len(texts) : texts[i] = s})
           new(s) == {"delivered" : t \in {s} \cap ToSet(texts)}
<1>1. \A s \in Steers : /\ n(s) \in Nat
                        /\ s \in ToSet(texts) => n(s) > 0
                        /\ s \notin ToSet(texts) => n(s) = 0
                        /\ Once(s, texts) => n(s) <= 1
    BY Occurrences
<1> HIDE DEF n
<1>2. /\ heard' = [s \in Steers |-> heard[s] + n(s)]
      /\ told' = [s \in Steers |-> told[s] \cup new(s)]
    BY DEF Enters, n
<1>3. \A s \in Steers : new(s) = IF s \in ToSet(texts) THEN {"delivered"} ELSE {}
    OBVIOUS
<1> HIDE DEF new
<1>4. \A s \in Steers : heard[s] \in Nat /\ heard'[s] = heard[s] + n(s)
    BY <1>2 DEF Types
<1>5. heard' \in [Steers -> Nat]
    BY <1>1, <1>2 DEF Types
<1>6. \A s \in Steers : told'[s] = told[s] \cup new(s)
    BY <1>2
<1>7. told' \in [Steers -> SUBSET {"requested", "clear", "accepted", "queued", "delivered",
                                   "cancelled", "refused"}]
    BY <1>2, <1>3 DEF Types
<1>8. ASSUME NEW s \in Steers
      PROVE  /\ s \in ToSet(texts) => heard'[s] > heard[s]
             /\ s \notin ToSet(texts) => heard'[s] = heard[s]
             /\ Once(s, texts) => heard'[s] <= heard[s] + 1
             /\ heard'[s] >= heard[s]
    <2>1. PICK k \in Nat : k = n(s)
        BY <1>1
    <2> QED
        BY <1>1, <1>4, <2>1
<1>9. ASSUME NEW s \in Steers
      PROVE  /\ s \in ToSet(texts) => "delivered" \in told'[s]
             /\ s \notin ToSet(texts) => told'[s] = told[s]
             /\ told'[s] \in {told[s], told[s] \cup {"delivered"}}
    BY <1>3, <1>6
<1> QED
    BY <1>5, <1>7, <1>8, <1>9, Zenon

-----------------------------------------------------------------------------
(* Frames: what most steps leave of the invariants.                        *)

\* A step is quiet for the watchers when they only forget, and when a watcher that
\* begins to listen has nothing unread.
Quiet ==
    \A r \in Rounds :
       /\ watchers'[r].hand \in {watchers[r].hand, NoSteer}
       /\ \/ watchers'[r].inbox \in {<<>>, watchers[r].inbox}
          \/ watchers[r].inbox # <<>> /\ watchers'[r].inbox = Tail(watchers[r].inbox)
       /\ watchers'[r].state = "live" =>
             watchers[r].state = "live" \/ watchers'[r].inbox = <<>>

\* Quiet steps put no steer in a hand and leave no event that was not there.
LEMMA QuietWatchers ==
    ASSUME Types, Quiet
    PROVE  /\ \A r \in Rounds : ToSet(watchers'[r].inbox) \subseteq ToSet(watchers[r].inbox)
           /\ \A s \in Steers :
                 /\ Held(s)' => Held(s)
                 /\ Unread(s)' => Unread(s)
                 /\ OnceOnIt(s) =>
                       /\ \A r, q \in Rounds : InHandOf(r, s)' /\ InHandOf(q, s)' => r = q
                       /\ \A r \in Rounds :
                             watchers'[r].state = "live" => Once(Asked(s), watchers'[r].inbox)
<1>0. NoSteer \notin Steers
    BY SteersAssumption
<1>1. ASSUME NEW r \in Rounds
      PROVE  /\ ToSet(watchers'[r].inbox) \subseteq ToSet(watchers[r].inbox)
             /\ \A s \in Steers : Once(Asked(s), watchers[r].inbox)
                                    => Once(Asked(s), watchers'[r].inbox)
             /\ \A s \in Steers : Once(Asked(s), <<>>)
    <2>1. watchers[r].inbox \in Seq(SteerEvents)
        BY WatcherTypes
    <2>2. ToSet(<<>>) = {} /\ \A e : Once(e, <<>>)
        BY DEF ToSet, Once
    <2>3. watchers[r].inbox # <<>> =>
             /\ ToSet(Tail(watchers[r].inbox)) \subseteq ToSet(watchers[r].inbox)
             /\ \A e : Once(e, watchers[r].inbox) => Once(e, Tail(watchers[r].inbox))
        BY <2>1, FrontMembers
    <2>4. \/ watchers'[r].inbox = <<>>
          \/ watchers'[r].inbox = watchers[r].inbox
          \/ watchers[r].inbox # <<>> /\ watchers'[r].inbox = Tail(watchers[r].inbox)
        BY DEF Quiet
    <2> QED
        BY <2>2, <2>3, <2>4
<1>2. ASSUME NEW s \in Steers, NEW r \in Rounds
      PROVE  /\ InHandOf(r, s)' => InHandOf(r, s)
             /\ UnreadBy(r, s)' => UnreadBy(r, s)
             /\ /\ OnceOnIt(s) /\ watchers'[r].state = "live"
                => Once(Asked(s), watchers'[r].inbox)
    <2>1. InHandOf(r, s)' => InHandOf(r, s)
        BY <1>0 DEF Quiet, InHandOf
    <2>2. ToSet(<<>>) = {}
        BY DEF ToSet
    <2>3. UnreadBy(r, s)' => UnreadBy(r, s)
        BY <1>1, <2>2 DEF Quiet, UnreadBy, Asked, Event
    <2>4. /\ OnceOnIt(s) /\ watchers'[r].state = "live"
          => Once(Asked(s), watchers'[r].inbox)
        BY <1>1 DEF Quiet, OnceOnIt
    <2> QED
        BY <2>1, <2>3, <2>4
<1>3. ASSUME NEW s \in Steers
      PROVE  /\ Held(s)' => Held(s)
             /\ Unread(s)' => Unread(s)
             /\ OnceOnIt(s) =>
                   \A r, q \in Rounds : InHandOf(r, s)' /\ InHandOf(q, s)' => r = q
    BY <1>2 DEF Held, Unread, OnceOnIt
<1> QED
    BY <1>1, <1>2, <1>3, Zenon

\* What is requested stays so while nothing new is named.
LEMMA RequestedFrom ==
    ASSUME Types, Types', Requested, Quiet,
           \A s \in Steers : /\ fallback[s] # "none" => fallback'[s] # "none"
                             /\ "clear" \in told[s] => "clear" \in told'[s]
                             /\ fallback'[s] = "none" => told'[s] = {} /\ heard'[s] = 0
                             /\ "cancelled" \in told'[s] => "clear" \in told'[s],
           \A s \in ToSet(queue') \cup ToSet(channel') \cup {message'} :
              s \in Steers => fallback'[s] # "none",
           \A e \in ToSet(parked') : fallback'[e.steer] # "none"
    PROVE  Requested'
<1>1. ASSUME NEW r \in Rounds
      PROVE  /\ watchers'[r].hand # NoSteer => fallback'[watchers'[r].hand] # "none"
             /\ \A e \in ToSet(watchers'[r].inbox) :
                   /\ fallback'[e.steer] # "none"
                   /\ e.type = "clear" => "clear" \in told'[e.steer]
    <2>1. ToSet(watchers'[r].inbox) \subseteq ToSet(watchers[r].inbox)
        BY QuietWatchers
    <2>2. \A e \in ToSet(watchers[r].inbox) : e.steer \in Steers
        <3>1. ToSet(watchers[r].inbox) \subseteq SteerEvents
            BY WatcherTypes, SequenceMembers
        <3> QED
            BY <3>1 DEF SteerEvents
    <2>3. watchers'[r].hand # NoSteer =>
             watchers'[r].hand = watchers[r].hand /\ watchers[r].hand \in Steers
        BY WatcherTypes DEF Quiet
    <2> QED
        BY <2>1, <2>2, <2>3 DEF Requested
<1> QED
    BY <1>1 DEF Requested

\* A steer whose lanes only shrink keeps to one lane.
LEMMA LanesFrom ==
    ASSUME NEW s \in Steers, OneLane(s), Answered(s), OnceOnIt(s)',
           Heard(s)' => Heard(s), Queued(s)' => Queued(s), InChannel(s)' => InChannel(s),
           Picked(s)' => Picked(s), Held(s)' => Held(s), Unread(s)' => Unread(s),
           UnreadParked(s)' => UnreadParked(s),
           Acknowledged(s) => Acknowledged(s)',
           "cancelled" \in told'[s] => "cancelled" \in told[s]
    PROVE  OneLane(s)' /\ OnceOnIt(s)' /\ Answered(s)'
BY DEF OneLane, Answered, OnNoLane

\* Unchanged subscriptions are quiet.
LEMMA StillIsQuiet ==
    ASSUME watchers' = watchers
    PROVE  Quiet
BY DEF Quiet

-----------------------------------------------------------------------------
(* Steps of the watchers and of the loop that move no steer.               *)

\* A step that forgets events or lets a round begin or end moves no steer.
LEMMA MovesNothing ==
    ASSUME SInv, Quiet, watchers' \in [Rounds -> Watcher],
           UNCHANGED <<queue, channel, message, delivered, fallback, told, heard, world>>,
           parked' \in {parked, <<>>},
           ParkedListens' => ParkedListens \/ parked' = <<>>,
           pc' # "over" => pc # "over" /\ \A r \in Rounds : watchers'[r].hand = watchers[r].hand,
           message # NoSteer => pc' \in {"picked", "over"},
           OneLive'
    PROVE  SInv'
<1>1. Types'
    BY NoEvents DEF SInv, Types
<1>2. Requested'
    <2>1. ToSet(parked') \subseteq ToSet(parked)
        BY DEF ToSet
    <2> QED
        BY <1>1, <2>1, RequestedFrom DEF SInv, Requested
<1>3. Delivered'
    BY DEF SInv, Delivered
<1>4. NoSteerLost'
    BY DEF SInv, NoSteerLost, OnItsWay, Acknowledged
<1>5. Lanes'
    <2> SUFFICES ASSUME ~world.slow, NEW s \in Steers
                 PROVE  OneLane(s)' /\ OnceOnIt(s)' /\ Answered(s)'
        BY DEF Lanes
    <2>1. OneLane(s) /\ OnceOnIt(s) /\ Answered(s)
        BY DEF SInv, Lanes
    <2>2. /\ Heard(s)' => Heard(s)
          /\ Queued(s)' => Queued(s)
          /\ InChannel(s)' => InChannel(s)
          /\ Picked(s)' => Picked(s)
          /\ Acknowledged(s) => Acknowledged(s)'
        BY DEF Heard, Queued, InChannel, Picked, Acknowledged
    <2>3. /\ UnreadParked(s)' => UnreadParked(s)
          /\ ParkedListens' => Once(Asked(s), parked')
        BY <2>1 DEF UnreadParked, OnceOnIt, ToSet, Once, Asked, Event
    <2>4. /\ Held(s)' => Held(s)
          /\ Unread(s)' => Unread(s)
          /\ \A r, q \in Rounds : InHandOf(r, s)' /\ InHandOf(q, s)' => r = q
          /\ \A r \in Rounds : watchers'[r].state = "live" => Once(Asked(s), watchers'[r].inbox)
        BY <2>1, QuietWatchers DEF SInv
    <2>5. OnceOnIt(s)'
        BY <2>1, <2>3, <2>4 DEF OnceOnIt, Asked, Event
    <2> QED
        BY <2>1, <2>2, <2>3, <2>4, <2>5, LanesFrom
<1> QED
    BY <1>1, <1>2, <1>3, <1>4, <1>5 DEF SInv

\* A round begins, goes on and ends; the session parks or stops (run_round_loop).
LEMMA RoundsTurn ==
    ASSUME SInv, Subscribe \/ NextTurn \/ EndRound \/ Stop \/ Park
    PROVE  SInv'
<1>0. Types /\ Delivered /\ OneLive /\ (\A r \in Rounds : watchers[r] \in Watcher)
    BY WatcherTypes DEF SInv
<1>1. CASE Subscribe
    <2>1. /\ pc = "starting" /\ pc' = "top"
          /\ watchers' = [watchers EXCEPT ![round].state = "live"]
          /\ UNCHANGED <<round, parked, queue, channel, message, delivered, fallback, told, heard, world>>
        BY <1>1 DEF Subscribe, offLoop
    <2>2. \A r \in Rounds :
             /\ watchers'[r] \in Watcher
             /\ r # round => watchers'[r] = watchers[r]
             /\ r = round => watchers'[r] = [NoWatcher EXCEPT !.state = "live"]
        <3>1. round \in Rounds => watchers[round] = NoWatcher
            BY <1>0, <2>1 DEF OneLive
        <3> QED
            BY <1>0, <2>1, <3>1 DEF Types, Watcher, NoWatcher
    <2>3. watchers' \in [Rounds -> Watcher]
        BY <1>0, <2>1, <2>2 DEF Types
    <2>4. \A r \in Rounds : r = round => watchers[r] = NoWatcher
        BY <1>0, <2>1 DEF OneLive
    <2>5. Quiet /\ \A r \in Rounds : watchers'[r].hand = watchers[r].hand
        BY <2>2, <2>4 DEF Quiet, NoWatcher
    <2>6. OneLive'
        BY <1>0, <2>1, <2>2 DEF OneLive
    <2> QED
        BY <1>0, <2>1, <2>3, <2>5, <2>6, MovesNothing DEF Delivered, ParkedListens
<1>2. CASE NextTurn
    <2>1. /\ pc = "model" /\ pc' = "top"
          /\ UNCHANGED <<round, watchers, parked, queue, channel, message, delivered, fallback, told, heard, world>>
        BY <1>2 DEF NextTurn, offLoop
    <2>2. OneLive'
        BY <1>0, <2>1 DEF OneLive
    <2> QED
        BY <1>0, <2>1, <2>2, StillIsQuiet, MovesNothing DEF Types, Delivered, ParkedListens
<1>3. CASE EndRound
    <2>1. /\ pc = "model" /\ pc' = "ended"
          /\ watchers' = [watchers EXCEPT ![round].state = "corpse"]
          /\ UNCHANGED <<round, parked, queue, channel, message, delivered, fallback, told, heard, world>>
        BY <1>3 DEF EndRound, offLoop
    <2>2. \A r \in Rounds :
             /\ watchers'[r] \in Watcher
             /\ r # round => watchers'[r] = watchers[r]
             /\ r = round => watchers'[r] = [watchers[r] EXCEPT !.state = "corpse"]
        BY <1>0, <2>1 DEF Types, Watcher
    <2>3. watchers' \in [Rounds -> Watcher]
        BY <1>0, <2>1, <2>2 DEF Types
    <2>4. \A r \in Rounds : /\ watchers'[r].hand = watchers[r].hand
                            /\ watchers'[r].inbox = watchers[r].inbox
                            /\ watchers'[r].state = IF r = round THEN "corpse" ELSE watchers[r].state
        BY <1>0, <2>2 DEF Watcher
    <2>5. Quiet
        BY <2>4 DEF Quiet
    <2>6. OneLive'
        BY <1>0, <2>1, <2>2, <2>4 DEF OneLive
    <2> QED
        BY <1>0, <2>1, <2>3, <2>4, <2>5, <2>6, MovesNothing DEF Delivered, ParkedListens
<1>4. CASE Stop
    <2>1. /\ pc' = "over" /\ watchers' = [r \in Rounds |-> NoWatcher]
          /\ UNCHANGED <<round, parked, queue, channel, message, delivered, fallback, told, heard, world>>
        BY <1>4 DEF Stop, offLoop
    <2>2. NoWatcher \in Watcher /\ \A r \in Rounds : watchers'[r] = NoWatcher
        BY <2>1 DEF NoWatcher, Watcher
    <2>3. Quiet /\ watchers' \in [Rounds -> Watcher]
        BY <2>1, <2>2 DEF Quiet, NoWatcher
    <2>4. OneLive'
        BY <1>0, <2>1, <2>2 DEF OneLive, NoWatcher
    <2> QED
        BY <1>0, <2>1, <2>3, <2>4, MovesNothing DEF ParkedListens
<1>5. CASE Park
    <2>1. /\ pc = "ended" /\ pc' = "sweep" /\ parked' = <<>>
          /\ UNCHANGED <<round, watchers, queue, channel, message, delivered, fallback, told, heard, world>>
        BY <1>5 DEF Park, offLoop, FreshSubscription
    <2>2. OneLive'
        BY <1>0, <2>1 DEF OneLive
    <2> QED
        BY <1>0, <2>1, <2>2, StillIsQuiet, MovesNothing DEF Types, Delivered, ParkedListens
<1> QED
    BY <1>1, <1>2, <1>3, <1>4, <1>5

\* A watcher dies, or an event is overwritten before it reads it.
LEMMA WatcherForgets ==
    ASSUME SInv, NEW r \in Rounds, Reap(r) \/ Lag(r)
    PROVE  SInv'
<1>0. Types /\ OneLive /\ Delivered /\ watchers[r] \in Watcher
      /\ watchers[r].inbox \in Seq(SteerEvents)
    BY WatcherTypes DEF SInv
<1>1. PICK v \in Watcher :
          /\ watchers' = [watchers EXCEPT ![r] = v]
          /\ v.hand = watchers[r].hand /\ v.state \in {watchers[r].state, "dead"}
          /\ v.inbox = <<>> \/ (watchers[r].inbox # <<>> /\ v.inbox = Tail(watchers[r].inbox))
          /\ watchers[r].state # "none"
    <2>1. CASE Reap(r)
        <3> DEFINE v == [NoWatcher EXCEPT !.state = "dead"]
        <3>1. v = [state |-> "dead", inbox |-> <<>>, hand |-> NoSteer]
            BY DEF NoWatcher
        <3>2. v \in Watcher
            BY <3>1, NoEvents DEF Watcher, SteerEvents
        <3>3. v.hand = NoSteer /\ v.state = "dead" /\ v.inbox = <<>>
            BY <3>1
        <3>4. /\ watchers' = [watchers EXCEPT ![r] = v]
              /\ watchers[r].state = "corpse" /\ watchers[r].hand = NoSteer
            BY <2>1 DEF Reap
        <3> QED
            BY <3>2, <3>3, <3>4
    <2>2. CASE Lag(r)
        <3> DEFINE v == [watchers[r] EXCEPT !.inbox = Tail(watchers[r].inbox)]
        <3>1. /\ watchers[r].inbox # <<>> /\ watchers[r].state # "none"
              /\ watchers' = [watchers EXCEPT ![r] = v]
            BY <2>2 DEF Lag, Listening
        <3>2. Tail(watchers[r].inbox) \in Seq(SteerEvents)
            BY <1>0, <3>1
        <3>3. v \in Watcher /\ v.hand = watchers[r].hand /\ v.state = watchers[r].state
              /\ v.inbox = Tail(watchers[r].inbox)
            BY <1>0, <3>2 DEF Watcher, SteerEvents
        <3> QED
            BY <3>1, <3>3
    <2> QED
        BY <2>1, <2>2
<1>2. /\ watchers' \in [Rounds -> Watcher] /\ watchers'[r] = v
      /\ \A q \in Rounds \ {r} : watchers'[q] = watchers[q]
    BY <1>0, <1>1, WatcherBecomes
<1>3. UNCHANGED <<pc, round, message, delivered, parked, queue, channel, fallback, told, heard, world>>
    BY DEF Reap, Lag, loopVars
<1>4. Quiet /\ \A q \in Rounds : watchers'[q].hand = watchers[q].hand
    BY <1>1, <1>2 DEF Quiet
<1>5. OneLive'
    BY <1>0, <1>1, <1>2, <1>3 DEF OneLive, NoWatcher
<1> QED
    BY <1>0, <1>2, <1>3, <1>4, <1>5, MovesNothing DEF Delivered, ParkedListens

-----------------------------------------------------------------------------
(* The fallback and the user's follow-ups.                                 *)

\* Lanes over unchanged subscriptions.
LEMMA StillWatchers ==
    ASSUME Types, NEW s \in Steers, watchers' = watchers, OnceOnIt(s)
    PROVE  /\ Held(s)' <=> Held(s)
           /\ Unread(s)' <=> Unread(s)
           /\ \A r, q \in Rounds : InHandOf(r, s)' /\ InHandOf(q, s)' => r = q
           /\ \A r \in Rounds : watchers'[r].state = "live" => Once(Asked(s), watchers'[r].inbox)
BY DEF Held, Unread, InHandOf, UnreadBy, OnceOnIt, Asked, Event

\* Lanes over an unchanged loop.
LEMMA StillLoop ==
    ASSUME NEW s \in Steers, UNCHANGED <<pc, parked>>, OnceOnIt(s)
    PROVE  /\ UnreadParked(s)' <=> UnreadParked(s)
           /\ ParkedListens' => Once(Asked(s), parked')
BY DEF UnreadParked, ParkedListens, OnceOnIt, Asked, Event

\* OneLive is about the watchers and the loop's place alone.
LEMMA StillLive ==
    ASSUME OneLive, UNCHANGED <<watchers, round>>,
           pc' = pc \/ (pc # "starting" /\ pc' # "starting" /\ pc \notin {"top", "model"})
             \/ (pc \in {"top", "model"} /\ pc' \in {"top", "model"})
    PROVE  OneLive'
BY DEF OneLive

\* An acknowledged steer needs its fallback no more (spawn_steer_fallback).
LEMMA RetireKeeps ==
    ASSUME SInv, NEW t \in Steers, Retire(t)
    PROVE  SInv'
<1>0. Types /\ Requested /\ Delivered /\ OneLive /\ NoSteerLost /\ Lanes
    BY DEF SInv
<1>1. /\ fallback[t] = "waiting" /\ Acknowledged(t)
      /\ fallback' = [fallback EXCEPT ![t] = "over"]
      /\ UNCHANGED <<pc, round, watchers, parked, queue, channel, message, delivered, told, heard, world>>
    BY DEF Retire, loopVars
<1>2. Types'
    BY <1>0, <1>1 DEF Types
<1>3. fallback'[t] = "over" /\ \A s \in Steers \ {t} : fallback'[s] = fallback[s]
    BY <1>0, <1>1 DEF Types
<1>4. \A e \in ToSet(parked) : e.steer \in Steers
    <2>1. ToSet(parked) \subseteq SteerEvents
        BY <1>0, SequenceMembers DEF Types
    <2> QED
        BY <2>1 DEF SteerEvents
<1>5. Requested'
    BY <1>0, <1>1, <1>2, <1>3, <1>4, StillIsQuiet, RequestedFrom DEF Requested
<1>6. Delivered' /\ OneLive'
    BY <1>0, <1>1, StillLive DEF Delivered
<1>7. NoSteerLost'
    BY <1>0, <1>1, <1>3 DEF NoSteerLost, OnItsWay, Acknowledged
<1>8. Lanes'
    <2> SUFFICES ASSUME ~world.slow, NEW s \in Steers
                 PROVE  OneLane(s)' /\ OnceOnIt(s)' /\ Answered(s)'
        BY <1>1 DEF Lanes
    <2>1. OneLane(s) /\ OnceOnIt(s) /\ Answered(s)
        BY <1>0 DEF Lanes
    <2>2. OnceOnIt(s)'
        BY <1>0, <1>1, <2>1, StillWatchers, StillLoop DEF OnceOnIt
    <2> QED
        BY <1>0, <1>1, <2>1, <2>2, StillWatchers, StillLoop, LanesFrom
           DEF Heard, Queued, InChannel, Picked, Acknowledged
<1> QED
    BY <1>2, <1>5, <1>6, <1>7, <1>8 DEF SInv

\* A steer nobody answered in time becomes a follow-up, in no hand but this one.
LEMMA TimeOutKeeps ==
    ASSUME SInv, NEW t \in Steers, TimeOut(t)
    PROVE  SInv'
<1>0. Types /\ Requested /\ Delivered /\ OneLive /\ NoSteerLost /\ Lanes
    BY DEF SInv
<1>1. /\ fallback[t] = "waiting" /\ (world.slow \/ ~(Acknowledged(t) \/ InHand(t)))
      /\ fallback' = [fallback EXCEPT ![t] = "over"]
      /\ UNCHANGED <<pc, round, watchers, parked, queue, message, delivered, heard, world>>
      /\ IF pc = "over" THEN UNCHANGED <<channel, told>>
         ELSE channel' = Append(channel, t) /\ Tell(t, "queued")
    BY DEF TimeOut, loopVars
<1>2. /\ told' \in [Steers -> SUBSET {"requested", "clear", "accepted", "queued", "delivered",
                                      "cancelled", "refused"}]
      /\ told'[t] \in {told[t], told[t] \cup {"queued"}}
      /\ pc # "over" => told'[t] = told[t] \cup {"queued"}
      /\ \A s \in Steers \ {t} : told'[s] = told[s]
    BY <1>0, <1>1, TellEffect DEF Types
<1>3. /\ channel' \in Seq(Steers \cup {Plain})
      /\ ToSet(channel) \subseteq ToSet(channel')
      /\ ToSet(channel') \subseteq ToSet(channel) \cup {t}
      /\ pc # "over" => t \in ToSet(channel')
      /\ \A s : Once(s, channel) /\ (s = t => t \notin ToSet(channel)) => Once(s, channel')
    <2>1. channel \in Seq(Steers \cup {Plain}) /\ t \in Steers \cup {Plain}
        BY <1>0 DEF Types
    <2>2. /\ Append(channel, t) \in Seq(Steers \cup {Plain})
          /\ ToSet(Append(channel, t)) = ToSet(channel) \cup {t}
          /\ \A s : Once(s, channel) /\ (s = t => t \notin ToSet(channel)) => Once(s, Append(channel, t))
        BY <2>1, BehindMembers
    <2> QED
        BY <1>1, <2>1, <2>2
<1>4. fallback'[t] = "over" /\ \A s \in Steers \ {t} : fallback'[s] = fallback[s]
    BY <1>0, <1>1 DEF Types
<1>5. Types'
    BY <1>0, <1>1, <1>2, <1>3 DEF Types
<1>6. \A e \in ToSet(parked) : e.steer \in Steers
    <2>1. ToSet(parked) \subseteq SteerEvents
        BY <1>0, SequenceMembers DEF Types
    <2> QED
        BY <2>1 DEF SteerEvents
<1>7. Requested'
    <2>1. \A s \in ToSet(queue') \cup ToSet(channel') \cup {message'} :
             s \in Steers => fallback'[s] # "none"
        BY <1>0, <1>1, <1>3, <1>4 DEF Requested
    <2>2. \A e \in ToSet(parked') : fallback'[e.steer] # "none"
        BY <1>0, <1>1, <1>4, <1>6 DEF Requested
    <2>3. \A s \in Steers : /\ fallback[s] # "none" => fallback'[s] # "none"
                            /\ "clear" \in told[s] => "clear" \in told'[s]
                            /\ fallback'[s] = "none" => told'[s] = {} /\ heard'[s] = 0
                            /\ "cancelled" \in told'[s] => "clear" \in told'[s]
        <3> TAKE s \in Steers
        <3>1. CASE s = t
            BY <1>0, <1>2, <1>4, <3>1 DEF Requested
        <3>2. CASE s # t
            BY <1>0, <1>1, <1>2, <1>4, <3>2 DEF Requested
        <3> QED
            BY <3>1, <3>2
    <2> QED
        BY <1>0, <1>1, <1>5, <2>1, <2>2, <2>3, StillIsQuiet, RequestedFrom
<1>8. Delivered' /\ OneLive'
    BY <1>0, <1>1, StillLive DEF Delivered
<1>9. NoSteerLost'
    BY <1>0, <1>1, <1>2, <1>3, <1>4 DEF NoSteerLost, OnItsWay, Acknowledged
<1>10. Lanes'
    <2> SUFFICES ASSUME ~world.slow, NEW s \in Steers
                 PROVE  OneLane(s)' /\ OnceOnIt(s)' /\ Answered(s)'
        BY <1>1 DEF Lanes
    <2>1. OneLane(s) /\ OnceOnIt(s) /\ Answered(s)
        BY <1>0 DEF Lanes
    <2>2. /\ Heard(s)' <=> Heard(s)
          /\ Queued(s)' <=> Queued(s)
          /\ Picked(s)' <=> Picked(s)
          /\ heard'[s] <= 1 /\ Once(s, queue')
        BY <1>1, <2>1 DEF Heard, Queued, Picked, OnceOnIt
    <2>3. /\ Held(s)' <=> Held(s)
          /\ Unread(s)' <=> Unread(s)
          /\ UnreadParked(s)' <=> UnreadParked(s)
          /\ \A r, q \in Rounds : InHandOf(r, s)' /\ InHandOf(q, s)' => r = q
          /\ \A r \in Rounds : watchers'[r].state = "live" => Once(Asked(s), watchers'[r].inbox)
          /\ ParkedListens' => Once(Asked(s), parked')
        BY <1>0, <1>1, <2>1, StillWatchers, StillLoop
    <2>4. CASE s # t
        <3>1. /\ InChannel(s)' <=> InChannel(s)
              /\ Once(s, channel') /\ told'[s] = told[s]
            BY <1>2, <1>3, <2>1, <2>4 DEF InChannel, OnceOnIt
        <3>2. OnceOnIt(s)'
            BY <2>2, <2>3, <3>1 DEF OnceOnIt
        <3> QED
            BY <2>1, <2>2, <2>3, <3>1, <3>2, LanesFrom DEF Acknowledged
    <2>5. CASE s = t
        <3>1. /\ ~Acknowledged(s) /\ ~Heard(s) /\ ~Queued(s) /\ ~InChannel(s) /\ ~Picked(s)
            BY <1>1, <2>1, <2>5 DEF Answered
        <3>2. ~Held(s) /\ ~Unread(s) /\ ~UnreadParked(s)
            BY <1>1, <2>5 DEF InHand, Held, InHandOf, Unread, UnreadBy, UnreadParked, Asked
        <3>3. Once(s, channel')
            BY <1>3, <2>1, <2>5, <3>1 DEF OnceOnIt, InChannel
        <3>4. "cancelled" \notin told'[s]
            BY <1>2, <2>5, <3>1 DEF Acknowledged
        <3>5. InChannel(s)' => Acknowledged(s)'
            BY <1>1, <1>2, <2>5, <3>1 DEF InChannel, Acknowledged
        <3>6. OnceOnIt(s)'
            BY <2>2, <2>3, <3>3 DEF OnceOnIt
        <3> QED
            BY <2>2, <2>3, <3>1, <3>2, <3>4, <3>5, <3>6 DEF OneLane, Answered
    <2> QED
        BY <2>4, <2>5
<1> QED
    BY <1>5, <1>7, <1>8, <1>9, <1>10 DEF SInv

-----------------------------------------------------------------------------
(* Steps of the loop that move a steer.                                    *)

\* Nothing unheard of is named by a step of the loop.
LEMMA RequestedByLoop ==
    ASSUME SInv, Types', UNCHANGED <<watchers, fallback>>, ToSet(parked') \subseteq ToSet(parked),
           \A s \in Steers : /\ told[s] \subseteq told'[s]
                             /\ "cancelled" \in told'[s] => "cancelled" \in told[s]
                             /\ fallback[s] = "none" => told'[s] = told[s] /\ heard'[s] = heard[s],
           \A s \in ToSet(queue') \cup ToSet(channel') \cup {message'} :
              s \in Steers => fallback[s] # "none"
    PROVE  Requested'
<1>1. Types /\ Requested
    BY DEF SInv
<1>2. \A s \in Steers : /\ fallback[s] # "none" => fallback'[s] # "none"
                        /\ "clear" \in told[s] => "clear" \in told'[s]
                        /\ fallback'[s] = "none" => told'[s] = {} /\ heard'[s] = 0
                        /\ "cancelled" \in told'[s] => "clear" \in told'[s]
    BY <1>1 DEF Requested
<1>3. \A e \in ToSet(parked') : fallback'[e.steer] # "none"
    BY <1>1 DEF Requested
<1> QED
    BY <1>1, <1>2, <1>3, StillIsQuiet, RequestedFrom

\* The user sends a follow-up that is not a steer.
LEMMA FollowUpKeeps ==
    ASSUME SInv, FollowUp
    PROVE  SInv'
<1>0. Types /\ Requested /\ Delivered /\ OneLive /\ NoSteerLost /\ Lanes
    BY DEF SInv
<1>1. /\ channel' = Append(channel, Plain)
      /\ UNCHANGED <<pc, round, watchers, parked, queue, message, delivered, fallback, told, heard, world>>
    BY DEF FollowUp, loopVars
<1>2. channel \in Seq(Steers \cup {Plain}) /\ Plain \in Steers \cup {Plain} /\ Plain \notin Steers
    BY <1>0, SteersAssumption DEF Types
<1>3. /\ channel' \in Seq(Steers \cup {Plain})
      /\ ToSet(channel') = ToSet(channel) \cup {Plain}
      /\ \A s \in Steers : Once(s, channel) => Once(s, channel')
    BY <1>1, <1>2, BehindMembers
<1>4. Types'
    BY <1>0, <1>1, <1>3 DEF Types
<1>5. Requested'
    <2>1. \A s \in ToSet(queue') \cup ToSet(channel') \cup {message'} :
             s \in Steers => fallback[s] # "none"
        BY <1>0, <1>1, <1>2, <1>3 DEF Requested
    <2> QED
        BY <1>1, <1>4, <2>1, RequestedByLoop
<1>6. Delivered' /\ OneLive'
    BY <1>0, <1>1, StillLive DEF Delivered
<1>7. NoSteerLost'
    BY <1>0, <1>1, <1>3 DEF NoSteerLost, OnItsWay, Acknowledged
<1>8. Lanes'
    <2> SUFFICES ASSUME ~world.slow, NEW s \in Steers
                 PROVE  OneLane(s)' /\ OnceOnIt(s)' /\ Answered(s)'
        BY <1>1 DEF Lanes
    <2>1. OneLane(s) /\ OnceOnIt(s) /\ Answered(s)
        BY <1>0 DEF Lanes
    <2>2. InChannel(s)' => InChannel(s)
        BY <1>2, <1>3 DEF InChannel
    <2>3. OnceOnIt(s)'
        BY <1>0, <1>1, <1>3, <2>1, StillWatchers, StillLoop DEF OnceOnIt
    <2> QED
        BY <1>0, <1>1, <2>1, <2>2, <2>3, StillWatchers, StillLoop, LanesFrom
           DEF Heard, Queued, Picked, Acknowledged
<1> QED
    BY <1>4, <1>5, <1>6, <1>7, <1>8 DEF SInv

\* The top of a turn hears the whole queue.
LEMMA TurnTopKeeps ==
    ASSUME SInv, TurnTop
    PROVE  SInv'
<1>0. Types /\ Requested /\ Delivered /\ OneLive /\ NoSteerLost /\ Lanes
    BY DEF SInv
<1>1. /\ pc = "top" /\ pc' = "model" /\ queue' = <<>> /\ Enters(queue)
      /\ UNCHANGED <<round, watchers, parked, channel, message, delivered, fallback, world>>
    BY DEF TurnTop, offLoop
<1>2. queue \in Seq(Steers \cup {Plain, NoSteer}) /\ <<>> \in Seq(Steers)
    BY <1>0 DEF Types
<1>3. /\ heard' \in [Steers -> Nat]
      /\ told' \in [Steers -> SUBSET {"requested", "clear", "accepted", "queued",
                                      "delivered", "cancelled", "refused"}]
      /\ \A s \in Steers :
            /\ s \in ToSet(queue) => heard'[s] > heard[s] /\ "delivered" \in told'[s]
            /\ s \notin ToSet(queue) => heard'[s] = heard[s] /\ told'[s] = told[s]
            /\ Once(s, queue) => heard'[s] <= heard[s] + 1
            /\ told'[s] \in {told[s], told[s] \cup {"delivered"}}
            /\ heard'[s] >= heard[s]
    BY <1>0, <1>1, <1>2, EntersEffect
<1>4. Types'
    BY <1>0, <1>1, <1>2, <1>3 DEF Types
<1>5. \A s \in Steers : heard[s] \in Nat /\ heard'[s] \in Nat
    BY <1>0, <1>3 DEF Types
<1>6. Requested'
    <2>1. ToSet(queue') = {}
        BY <1>1, NoEvents
    <2>2. \A s \in ToSet(queue') \cup ToSet(channel') \cup {message'} :
             s \in Steers => fallback[s] # "none"
        BY <1>0, <1>1, <2>1 DEF Requested
    <2>3. \A s \in Steers : /\ told[s] \subseteq told'[s]
                            /\ "cancelled" \in told'[s] => "cancelled" \in told[s]
                            /\ fallback[s] = "none" => told'[s] = told[s] /\ heard'[s] = heard[s]
        BY <1>0, <1>3 DEF Requested
    <2> QED
        BY <1>1, <1>4, <2>2, <2>3, RequestedByLoop
<1>7. Delivered' /\ OneLive'
    <2>1. \A s \in delivered : heard'[s] > 0
        BY <1>0, <1>3, <1>5 DEF Delivered, Types
    <2> QED
        BY <1>0, <1>1, <2>1, StillLive DEF Delivered
<1>8. NoSteerLost'
    <2> SUFFICES ASSUME NEW s \in Steers, pc' # "over", "requested" \in told'[s],
                        "clear" \notin told'[s], heard'[s] = 0
                 PROVE  OnItsWay(s)'
        BY DEF NoSteerLost
    <2>1. s \notin ToSet(queue) /\ heard[s] = 0 /\ told'[s] = told[s]
        BY <1>3, <1>5
    <2>2. OnItsWay(s)
        BY <1>0, <1>1, <2>1 DEF NoSteerLost
    <2> QED
        BY <1>1, <2>1, <2>2 DEF OnItsWay, Acknowledged
<1>9. Lanes'
    <2> SUFFICES ASSUME ~world.slow, NEW s \in Steers
                 PROVE  OneLane(s)' /\ OnceOnIt(s)' /\ Answered(s)'
        BY <1>1 DEF Lanes
    <2>1. OneLane(s) /\ OnceOnIt(s) /\ Answered(s)
        BY <1>0 DEF Lanes
    <2>2. ~Queued(s)' /\ Once(s, queue')
        BY <1>1, NoEvents DEF Queued
    <2>3. /\ InChannel(s)' <=> InChannel(s)
          /\ Picked(s)' <=> Picked(s)
          /\ Once(s, channel')
        BY <1>1, <2>1 DEF InChannel, Picked, OnceOnIt
    <2>4. /\ Held(s)' <=> Held(s)
          /\ Unread(s)' <=> Unread(s)
          /\ ~UnreadParked(s)'
          /\ \A r, q \in Rounds : InHandOf(r, s)' /\ InHandOf(q, s)' => r = q
          /\ \A r \in Rounds : watchers'[r].state = "live" => Once(Asked(s), watchers'[r].inbox)
          /\ ~ParkedListens'
        BY <1>0, <1>1, <2>1, StillWatchers DEF UnreadParked, ParkedListens
    <2>5. CASE Queued(s)
        <3>1. ~Heard(s) /\ heard[s] = 0 /\ "cancelled" \notin told[s]
            BY <1>5, <2>1, <2>5 DEF OneLane, Heard, Answered, OnNoLane
        <3>2. heard'[s] = 1
            BY <1>3, <1>5, <2>1, <2>5, <3>1 DEF OnceOnIt, Queued
        <3>3. Acknowledged(s)' /\ "cancelled" \notin told'[s]
            BY <1>3, <2>5, <3>1 DEF Acknowledged, Queued
        <3>4. OnceOnIt(s)'
            BY <2>2, <2>3, <2>4, <3>2 DEF OnceOnIt
        <3> QED
            BY <2>1, <2>2, <2>3, <2>4, <2>5, <3>3, <3>4 DEF OneLane, Answered
    <2>6. CASE ~Queued(s)
        <3>1. heard'[s] = heard[s] /\ told'[s] = told[s]
            BY <1>3, <2>6 DEF Queued
        <3>2. OnceOnIt(s)'
            BY <2>1, <2>2, <2>3, <2>4, <3>1 DEF OnceOnIt
        <3> QED
            BY <2>1, <2>2, <2>3, <2>4, <3>1, <3>2, LanesFrom DEF Heard, Acknowledged
    <2> QED
        BY <2>5, <2>6
<1> QED
    BY <1>4, <1>6, <1>7, <1>8, <1>9 DEF SInv

\* A pick makes one steer, or a plain follow-up, the loop's message: m leaves the
\* queue, the channel or the parked subscription for it, and nothing else is moved.
LEMMA PickKeeps ==
    ASSUME SInv, Types', NEW m \in Steers \cup {Plain, NoSteer},
           pc \in {"sweep", "parked"}, pc' = "picked", message' = m,
           UNCHANGED <<round, watchers, delivered, fallback, heard, world>>,
           ToSet(parked') \subseteq ToSet(parked),
           ToSet(queue') \subseteq ToSet(queue),
           \A s \in ToSet(queue) : s \in ToSet(queue') \cup {m} \cup delivered,
           ToSet(channel') \subseteq ToSet(channel),
           \A s \in ToSet(channel) : s \in ToSet(channel') \cup {m},
           \A s \in Steers : /\ Once(s, queue) => Once(s, queue')
                             /\ Once(s, channel) => Once(s, channel')
                             /\ s # m => told'[s] = told[s],
           m \in Steers => /\ told'[m] \in {told[m], told[m] \cup {"accepted"}}
                           /\ fallback[m] # "none"
                           /\ ~world.slow => /\ Acknowledged(m)'
                                             /\ Queued(m) \/ InChannel(m) \/ UnreadParked(m)
                                             /\ m \notin ToSet(queue')
                                             /\ InChannel(m) => m \notin ToSet(channel')
    PROVE  SInv'
<1>0. Types /\ Requested /\ Delivered /\ OneLive /\ NoSteerLost /\ Lanes /\ NoSteer \notin Steers
    BY SteersAssumption DEF SInv
<1>1. Requested'
    <2>1. \A s \in ToSet(queue') \cup ToSet(channel') \cup {message'} :
             s \in Steers => fallback[s] # "none"
        BY <1>0 DEF Requested
    <2>2. \A s \in Steers : /\ told[s] \subseteq told'[s]
                            /\ "cancelled" \in told'[s] => "cancelled" \in told[s]
                            /\ fallback[s] = "none" => told'[s] = told[s] /\ heard'[s] = heard[s]
        <3> TAKE s \in Steers
        <3>1. CASE s = m
            BY <3>1
        <3>2. CASE s # m
            BY <3>2
        <3> QED
            BY <3>1, <3>2
    <2> QED
        BY <2>1, <2>2, RequestedByLoop
<1>2. Delivered' /\ OneLive'
    BY <1>0, StillLive DEF Delivered
<1>3. NoSteerLost'
    <2> SUFFICES ASSUME NEW s \in Steers, "requested" \in told'[s], "clear" \notin told'[s],
                        heard'[s] = 0
                 PROVE  OnItsWay(s)'
        BY DEF NoSteerLost
    <2>1. CASE s = m
        BY <2>1 DEF OnItsWay
    <2>2. CASE s # m
        <3>1. told'[s] = told[s] /\ OnItsWay(s)
            BY <1>0, <2>2 DEF NoSteerLost
        <3>2. s \notin delivered /\ s # message
            BY <1>0 DEF Delivered
        <3> QED
            BY <2>2, <3>1, <3>2 DEF OnItsWay, Acknowledged
    <2> QED
        BY <2>1, <2>2
<1>4. Lanes'
    <2> SUFFICES ASSUME ~world.slow, NEW s \in Steers
                 PROVE  OneLane(s)' /\ OnceOnIt(s)' /\ Answered(s)'
        BY DEF Lanes
    <2>1. OneLane(s) /\ OnceOnIt(s) /\ Answered(s)
        BY <1>0 DEF Lanes
    <2>2. /\ Heard(s)' <=> Heard(s)
          /\ Queued(s)' => Queued(s)
          /\ InChannel(s)' => InChannel(s)
          /\ Picked(s)' <=> s = m
        BY DEF Heard, Queued, InChannel, Picked
    <2>3. /\ Held(s)' <=> Held(s)
          /\ Unread(s)' <=> Unread(s)
          /\ (~UnreadParked(s))' /\ (~ParkedListens)'
          /\ \A r, q \in Rounds : InHandOf(r, s)' /\ InHandOf(q, s)' => r = q
          /\ \A r \in Rounds : watchers'[r].state = "live" => Once(Asked(s), watchers'[r].inbox)
        BY <1>0, <2>1, StillWatchers DEF UnreadParked, ParkedListens
    <2>4. OnceOnIt(s)'
        BY <2>1, <2>3 DEF OnceOnIt
    <2>5. CASE s # m
        <3>1. /\ Acknowledged(s) => Acknowledged(s)'
              /\ "cancelled" \in told'[s] => "cancelled" \in told[s]
            BY <2>5 DEF Acknowledged
        <3>2. (Picked(s)' => Picked(s)) /\ (UnreadParked(s)' => UnreadParked(s))
            BY <2>2, <2>3, <2>5
        <3> QED
            BY <2>1, <2>2, <2>3, <2>4, <3>1, <3>2, LanesFrom
    <2>6. CASE s = m
        <3>1. Acknowledged(s)' /\ (Queued(s) \/ InChannel(s) \/ UnreadParked(s))
              /\ ~Queued(s)' /\ (InChannel(s) => ~InChannel(s)')
            BY <2>6 DEF InChannel, Queued
        <3>2. "cancelled" \notin told'[s]
            BY <2>1, <2>6, <3>1 DEF Answered, OnNoLane
        <3>3. ~Unread(s)
            BY <1>0 DEF Unread, UnreadBy, OneLive
        <3> QED
            BY <2>1, <2>2, <2>3, <2>4, <2>6, <3>1, <3>2, <3>3 DEF OneLane, Answered
    <2> QED
        BY <2>5, <2>6
<1> QED
    BY <1>1, <1>2, <1>3, <1>4 DEF SInv

\* The sweep starts a round with the first of what it claimed and puts the rest back;
\* what it drops was delivered.
LEMMA SweepKeeps ==
    ASSUME SInv, Sweep
    PROVE  SInv'
<1>0. Types /\ Requested /\ Delivered /\ OneLive /\ NoSteerLost /\ Lanes /\ NoSteer \notin Steers
    BY SteersAssumption DEF SInv
<1>1. /\ pc = "sweep"
      /\ UNCHANGED <<round, watchers, parked, channel, delivered, fallback, heard, world>>
    BY DEF Sweep, offLoop
<1>2. /\ queue \in Seq(Steers) /\ Orphans \in Seq(Steers)
      /\ ToSet(Orphans) = ToSet(queue) \ delivered
      /\ \A s : Once(s, queue) => Once(s, Orphans)
    <2>1. queue \in Seq(Steers)
        BY <1>0 DEF Types
    <2> QED
        BY <2>1, WithoutMembers, WithoutOnce DEF Orphans
<1>3. CASE Orphans = <<>>
    <2>1. pc' = "parked" /\ queue' = <<>> /\ UNCHANGED <<message, told>>
        BY <1>3 DEF Sweep
    <2>2. ToSet(queue) \subseteq delivered /\ ToSet(queue') = {}
        BY <1>2, <1>3, <2>1, NoEvents
    <2>3. Types'
        BY <1>0, <1>1, <2>1 DEF Types
    <2>4. Requested'
        <3>1. \A s \in ToSet(queue') \cup ToSet(channel') \cup {message'} :
                 s \in Steers => fallback[s] # "none"
            BY <1>0, <1>1, <2>1, <2>2 DEF Requested
        <3> QED
            BY <1>1, <2>1, <2>3, <3>1, RequestedByLoop
    <2>5. Delivered' /\ OneLive'
        BY <1>0, <1>1, <2>1, StillLive DEF Delivered
    <2>6. NoSteerLost'
        BY <1>0, <1>1, <2>1, <2>2 DEF NoSteerLost, OnItsWay, Acknowledged, Delivered
    <2>7. Lanes'
        <3> SUFFICES ASSUME ~world.slow, NEW s \in Steers
                     PROVE  OneLane(s)' /\ OnceOnIt(s)' /\ Answered(s)'
            BY <1>1 DEF Lanes
        <3>1. OneLane(s) /\ OnceOnIt(s) /\ Answered(s)
            BY <1>0 DEF Lanes
        <3>2. /\ ~Queued(s)' /\ Once(s, queue')
              /\ UnreadParked(s)' => UnreadParked(s)
              /\ ParkedListens' => Once(Asked(s), parked')
            BY <1>1, <2>1, <2>2, <3>1, NoEvents
               DEF Queued, UnreadParked, ParkedListens, OnceOnIt, Asked, Event
        <3>3. OnceOnIt(s)'
            BY <1>0, <1>1, <3>1, <3>2, StillWatchers DEF OnceOnIt
        <3> QED
            BY <1>0, <1>1, <2>1, <3>1, <3>2, <3>3, StillWatchers, LanesFrom
               DEF Heard, InChannel, Picked, Acknowledged
    <2> QED
        BY <2>3, <2>4, <2>5, <2>6, <2>7 DEF SInv
<1>4. CASE Orphans # <<>>
    <2> PICK h : h = Head(Orphans)
        OBVIOUS
    <2>1. pc' = "picked" /\ queue' = Tail(Orphans) /\ message' = h /\ Tell(h, "accepted")
        BY <1>4 DEF Sweep
    <2>2. /\ h \in Steers /\ Tail(Orphans) \in Seq(Steers)
          /\ ToSet(Orphans) = {h} \cup ToSet(Tail(Orphans))
          /\ Once(h, Orphans) => h \notin ToSet(Tail(Orphans))
          /\ \A s : Once(s, Orphans) => Once(s, Tail(Orphans))
        BY <1>2, <1>4, FrontMembers
    <2>3. /\ told' \in [Steers -> SUBSET {"requested", "clear", "accepted", "queued", "delivered",
                                          "cancelled", "refused"}]
          /\ told'[h] = told[h] \cup {"accepted"}
          /\ \A s \in Steers \ {h} : told'[s] = told[s]
        BY <1>0, <2>1, <2>2, TellEffect
    <2>4. Types'
        BY <1>0, <1>1, <2>1, <2>2, <2>3 DEF Types
    <2>5. ASSUME ~world.slow
          PROVE  /\ Acknowledged(h)'
                 /\ Queued(h) \/ InChannel(h) \/ UnreadParked(h)
                 /\ h \notin ToSet(queue')
                 /\ InChannel(h) => h \notin ToSet(channel')
        <3>1. Queued(h) /\ ~InChannel(h) /\ Once(h, queue)
            BY <1>0, <1>2, <2>2, <2>5 DEF Lanes, OneLane, OnceOnIt, Queued
        <3> QED
            BY <1>2, <2>1, <2>2, <2>3, <3>1 DEF Acknowledged
    <2>6. fallback[h] # "none"
        BY <1>0, <1>2, <2>2 DEF Requested
    <2>7. /\ ToSet(queue') \subseteq ToSet(queue)
          /\ \A s \in ToSet(queue) : s \in ToSet(queue') \cup {h} \cup delivered
          /\ \A s : Once(s, queue) => Once(s, queue')
        BY <1>2, <2>1, <2>2
    <2> QED
        BY <1>1, <2>1, <2>2, <2>3, <2>4, <2>5, <2>6, <2>7, PickKeeps
<1> QED
    BY <1>3, <1>4

\* Parked, the loop takes a steer up from its subscription; a cancel changes nothing.
LEMMA PickSteerKeeps ==
    ASSUME SInv, PickSteer
    PROVE  SInv'
<1>0. Types /\ Requested /\ Delivered /\ OneLive /\ NoSteerLost /\ Lanes
    BY DEF SInv
<1>1. /\ pc = "parked" /\ parked # <<>> /\ parked' = Tail(parked)
      /\ UNCHANGED <<round, watchers, channel, delivered, fallback, heard, world>>
    BY DEF PickSteer, offLoop
<1> PICK e : e = Head(parked)
    OBVIOUS
<1>2. /\ e \in SteerEvents /\ parked' \in Seq(SteerEvents)
      /\ e \in ToSet(parked) /\ ToSet(parked') \subseteq ToSet(parked)
      /\ \A x : Once(x, parked) => Once(x, parked')
    BY <1>0, <1>1, FrontMembers DEF Types
<1>3. CASE e.type = "steer"
    <2> PICK t : t = e.steer
        OBVIOUS
    <2>1. /\ pc' = "picked" /\ message' = t /\ queue' = Without(queue, {t}) /\ Tell(t, "accepted")
        BY <1>3 DEF PickSteer, Claimed
    <2>2. t \in Steers /\ e = Asked(t)
        BY <1>2, <1>3 DEF SteerEvents, Asked, Event
    <2>3. /\ told' \in [Steers -> SUBSET {"requested", "clear", "accepted", "queued", "delivered",
                                          "cancelled", "refused"}]
          /\ told'[t] = told[t] \cup {"accepted"}
          /\ \A s \in Steers \ {t} : told'[s] = told[s]
        BY <1>0, <2>1, <2>2, TellEffect
    <2>4. /\ queue' \in Seq(Steers) /\ ToSet(queue') = ToSet(queue) \ {t}
          /\ \A s : Once(s, queue) => Once(s, queue')
        <3>1. queue \in Seq(Steers)
            BY <1>0 DEF Types
        <3> QED
            BY <2>1, <3>1, WithoutMembers, WithoutOnce
    <2>5. Types'
        BY <1>0, <1>1, <1>2, <2>1, <2>2, <2>3, <2>4 DEF Types
    <2>6. UnreadParked(t) /\ fallback[t] # "none"
        BY <1>0, <1>1, <1>2, <2>2 DEF UnreadParked, ParkedListens, Requested
    <2>7. ASSUME ~world.slow
          PROVE  ~InChannel(t) /\ Acknowledged(t)'
        BY <1>0, <2>2, <2>3, <2>6, <2>7 DEF Lanes, OneLane, Acknowledged
    <2> QED
        BY <1>1, <1>2, <2>1, <2>2, <2>3, <2>4, <2>5, <2>6, <2>7, PickKeeps
<1>4. CASE e.type # "steer"
    <2>1. UNCHANGED <<pc, message, queue, told>>
        BY <1>4 DEF PickSteer
    <2>2. Types'
        BY <1>0, <1>1, <1>2, <2>1 DEF Types
    <2>3. Requested'
        BY <1>0, <1>1, <1>2, <2>1, <2>2, RequestedByLoop DEF Requested
    <2>4. Delivered' /\ OneLive'
        BY <1>0, <1>1, <2>1, StillLive DEF Delivered
    <2>5. NoSteerLost'
        BY <1>0, <1>1, <2>1 DEF NoSteerLost, OnItsWay, Acknowledged
    <2>6. Lanes'
        <3> SUFFICES ASSUME ~world.slow, NEW s \in Steers
                     PROVE  OneLane(s)' /\ OnceOnIt(s)' /\ Answered(s)'
            BY <1>1 DEF Lanes
        <3>1. OneLane(s) /\ OnceOnIt(s) /\ Answered(s)
            BY <1>0 DEF Lanes
        <3>2. /\ UnreadParked(s)' => UnreadParked(s)
              /\ ParkedListens' => Once(Asked(s), parked')
            BY <1>1, <1>2, <2>1, <3>1 DEF UnreadParked, ParkedListens, OnceOnIt, Asked, Event
        <3>3. OnceOnIt(s)'
            BY <1>0, <1>1, <2>1, <3>1, <3>2, StillWatchers DEF OnceOnIt
        <3> QED
            BY <1>0, <1>1, <2>1, <3>1, <3>2, <3>3, StillWatchers, LanesFrom
               DEF Heard, Queued, InChannel, Picked, Acknowledged
    <2> QED
        BY <2>2, <2>3, <2>4, <2>5, <2>6 DEF SInv
<1> QED
    BY <1>3, <1>4

\* Parked, the loop takes the oldest follow-up up.
LEMMA PickFollowUpKeeps ==
    ASSUME SInv, PickFollowUp
    PROVE  SInv'
<1>0. Types /\ Requested /\ Delivered /\ OneLive /\ NoSteerLost /\ Lanes
    BY DEF SInv
<1>1. /\ pc = "parked" /\ pc' = "picked" /\ channel # <<>>
      /\ message' = Head(channel) /\ channel' = Tail(channel)
      /\ UNCHANGED <<round, watchers, parked, queue, delivered, told, heard, fallback, world>>
    BY DEF PickFollowUp
<1> PICK m : m = Head(channel)
    OBVIOUS
<1>2. /\ m \in Steers \cup {Plain} /\ channel' \in Seq(Steers \cup {Plain})
      /\ ToSet(channel) = {m} \cup ToSet(channel')
      /\ Once(m, channel) => m \notin ToSet(channel')
      /\ \A x : Once(x, channel) => Once(x, channel')
    BY <1>0, <1>1, FrontMembers DEF Types
<1>3. Types'
    BY <1>0, <1>1, <1>2 DEF Types
<1>4. m \in Steers => fallback[m] # "none"
    BY <1>0, <1>2 DEF Requested
<1>5. ASSUME ~world.slow, m \in Steers
      PROVE  /\ InChannel(m) /\ m \notin ToSet(queue') /\ m \notin ToSet(channel')
             /\ Acknowledged(m)'
    <2>1. InChannel(m) /\ ~Queued(m) /\ Once(m, channel) /\ Acknowledged(m)
        BY <1>0, <1>2, <1>5 DEF Lanes, OneLane, OnceOnIt, Answered, InChannel
    <2> QED
        BY <1>1, <1>2, <2>1 DEF Queued, Acknowledged
<1> QED
    BY <1>1, <1>2, <1>3, <1>4, <1>5, PickKeeps

\* The message enters the conversation; what was unread is dropped with the parked
\* subscription, and the next round's watcher is still blank.
LEMMA StartRoundKeeps ==
    ASSUME SInv, StartRound
    PROVE  SInv'
<1>0. Types /\ Requested /\ Delivered /\ OneLive /\ NoSteerLost /\ Lanes
      /\ NoSteer \notin Steers /\ Plain \notin Steers
    BY SteersAssumption DEF SInv
<1>1. /\ pc = "picked" /\ pc' = "starting" /\ round' = round + 1
      /\ message' = NoSteer /\ parked' = <<>> /\ queue' = Without(queue, {message})
      /\ delivered' = delivered \cup ({message} \cap Steers)
      /\ Enters(<<message>>)
      /\ UNCHANGED <<watchers, channel, fallback, world>>
    BY DEF StartRound, offLoop, Claimed
<1>2. /\ <<message>> \in Seq(Steers \cup {Plain, NoSteer}) /\ ToSet(<<message>>) = {message}
      /\ Once(message, <<message>>)
    BY <1>0 DEF Types, ToSet, Once
<1>3. /\ heard' \in [Steers -> Nat]
      /\ told' \in [Steers -> SUBSET {"requested", "clear", "accepted", "queued",
                                      "delivered", "cancelled", "refused"}]
      /\ \A s \in Steers :
            /\ s = message => /\ heard'[s] > heard[s] /\ heard'[s] <= heard[s] + 1
                              /\ "delivered" \in told'[s]
            /\ s # message => heard'[s] = heard[s] /\ told'[s] = told[s]
            /\ told'[s] \in {told[s], told[s] \cup {"delivered"}}
            /\ heard'[s] >= heard[s]
    BY <1>0, <1>1, <1>2, EntersEffect
<1>4. /\ queue' \in Seq(Steers) /\ ToSet(queue') = ToSet(queue) \ {message}
      /\ \A s : Once(s, queue) => Once(s, queue')
    <2>1. queue \in Seq(Steers)
        BY <1>0 DEF Types
    <2> QED
        BY <1>1, <2>1, WithoutMembers, WithoutOnce
<1>5. Types'
    BY <1>0, <1>1, <1>3, <1>4, NoEvents DEF Types
<1>6. \A s \in Steers : heard[s] \in Nat /\ heard'[s] \in Nat
    BY <1>0, <1>3 DEF Types
<1>7. Requested'
    <2>1. \A s \in ToSet(queue') \cup ToSet(channel') \cup {message'} :
             s \in Steers => fallback[s] # "none"
        BY <1>0, <1>1, <1>4 DEF Requested
    <2>2. \A s \in Steers : /\ told[s] \subseteq told'[s]
                            /\ "cancelled" \in told'[s] => "cancelled" \in told[s]
                            /\ fallback[s] = "none" => told'[s] = told[s] /\ heard'[s] = heard[s]
        BY <1>0, <1>3 DEF Requested
    <2>3. ToSet(parked') \subseteq ToSet(parked)
        BY <1>1, NoEvents
    <2> QED
        BY <1>1, <1>5, <2>1, <2>2, <2>3, RequestedByLoop
<1>8. Delivered'
    <2>1. \A s \in delivered' : heard'[s] > 0
        BY <1>0, <1>1, <1>3, <1>6 DEF Delivered, Types
    <2> QED
        BY <1>1, <2>1 DEF Delivered
<1>9. OneLive'
    <2>1. \A r \in Rounds : r \in Int
        BY DEF Rounds
    <2> QED
        BY <1>0, <1>1, <2>1 DEF OneLive
<1>10. NoSteerLost'
    <2> SUFFICES ASSUME NEW s \in Steers, "requested" \in told'[s],
                        "clear" \notin told'[s], heard'[s] = 0
                 PROVE  OnItsWay(s)'
        BY DEF NoSteerLost
    <2>1. s # message /\ heard[s] = 0 /\ told'[s] = told[s]
        BY <1>3, <1>6
    <2>2. OnItsWay(s)
        BY <1>0, <1>1, <2>1 DEF NoSteerLost
    <2> QED
        BY <1>1, <1>4, <2>1, <2>2 DEF OnItsWay, Acknowledged
<1>11. Lanes'
    <2> SUFFICES ASSUME ~world.slow, NEW s \in Steers
                 PROVE  OneLane(s)' /\ OnceOnIt(s)' /\ Answered(s)'
        BY <1>1 DEF Lanes
    <2>1. OneLane(s) /\ OnceOnIt(s) /\ Answered(s)
        BY <1>0 DEF Lanes
    <2>2. /\ Queued(s)' => Queued(s)
          /\ InChannel(s)' <=> InChannel(s)
          /\ ~Picked(s)'
          /\ Once(s, queue') /\ Once(s, channel')
        BY <1>0, <1>1, <1>4, <2>1 DEF Queued, InChannel, Picked, OnceOnIt
    <2>3. /\ Held(s)' <=> Held(s)
          /\ Unread(s)' <=> Unread(s)
          /\ ~UnreadParked(s)' /\ ~ParkedListens'
          /\ \A r, q \in Rounds : InHandOf(r, s)' /\ InHandOf(q, s)' => r = q
          /\ \A r \in Rounds : watchers'[r].state = "live" => Once(Asked(s), watchers'[r].inbox)
        BY <1>0, <1>1, <2>1, StillWatchers DEF UnreadParked, ParkedListens
    <2>4. CASE Picked(s)
        <3>1. ~Heard(s) /\ heard[s] = 0 /\ "cancelled" \notin told[s]
            BY <1>6, <2>1, <2>4 DEF OneLane, Heard, Answered, OnNoLane
        <3>2. heard'[s] = 1 /\ Acknowledged(s)' /\ "cancelled" \notin told'[s]
            BY <1>3, <1>6, <2>4, <3>1 DEF Picked, Acknowledged
        <3>3. OnceOnIt(s)'
            BY <2>2, <2>3, <3>2 DEF OnceOnIt
        <3> QED
            BY <2>1, <2>2, <2>3, <2>4, <3>2, <3>3 DEF OneLane, Answered
    <2>5. CASE ~Picked(s)
        <3>1. heard'[s] = heard[s] /\ told'[s] = told[s]
            BY <1>3, <2>5 DEF Picked
        <3>2. OnceOnIt(s)'
            BY <2>1, <2>2, <2>3, <3>1 DEF OnceOnIt
        <3> QED
            BY <2>1, <2>2, <2>3, <3>1, <3>2, LanesFrom DEF Heard, Acknowledged
    <2> QED
        BY <2>4, <2>5
<1> QED
    BY <1>5, <1>7, <1>8, <1>9, <1>10, <1>11 DEF SInv

-----------------------------------------------------------------------------
(* Steps of a watcher that move a steer.                                   *)

\* A live watcher takes the oldest request into its hand.
LEMMA TakesInHand ==
    ASSUME SInv, NEW r \in Rounds, NEW t \in Steers, NEW v \in Watcher,
           watchers[r].state = "live", watchers[r].hand = NoSteer, watchers[r].inbox # <<>>,
           Head(watchers[r].inbox) = Asked(t),
           watchers' = [watchers EXCEPT ![r] = v],
           v.state = "live", v.inbox = Tail(watchers[r].inbox), v.hand = t,
           UNCHANGED <<pc, round, message, delivered, parked, queue, channel, fallback, told,
                       heard, world>>
    PROVE  SInv'
<1>0. Types /\ Requested /\ Delivered /\ OneLive /\ NoSteerLost /\ Lanes /\ NoSteer \notin Steers
    BY SteersAssumption DEF SInv
<1>1. /\ watchers' \in [Rounds -> Watcher] /\ watchers'[r] = v
      /\ \A q \in Rounds \ {r} : watchers'[q] = watchers[q]
    BY <1>0, WatcherBecomes
<1>2. /\ watchers[r].inbox \in Seq(SteerEvents)
      /\ ToSet(watchers[r].inbox) = {Asked(t)} \cup ToSet(v.inbox)
      /\ Once(Asked(t), watchers[r].inbox) => Asked(t) \notin ToSet(v.inbox)
      /\ \A x : Once(x, watchers[r].inbox) => Once(x, v.inbox)
    <2>1. watchers[r].inbox \in Seq(SteerEvents)
        BY <1>0, WatcherTypes
    <2> QED
        BY <2>1, FrontMembers
<1>3. Types'
    BY <1>0, <1>1 DEF Types
<1>4. Asked(t).steer = t /\ Asked(t).type = "steer"
    BY DEF Asked, Event
<1>5. Requested'
    <2>1. fallback[t] # "none"
        BY <1>0, <1>2, <1>4 DEF Requested
    <2>2. \A q \in Rounds :
             /\ watchers'[q].hand # NoSteer => fallback[watchers'[q].hand] # "none"
             /\ \A e \in ToSet(watchers'[q].inbox) :
                   /\ fallback[e.steer] # "none"
                   /\ e.type = "clear" => "clear" \in told[e.steer]
        <3> TAKE q \in Rounds
        <3>1. CASE q = r
            BY <1>0, <1>1, <1>2, <2>1, <3>1 DEF Requested
        <3>2. CASE q # r
            BY <1>0, <1>1, <3>2 DEF Requested
        <3> QED
            BY <3>1, <3>2
    <2> QED
        BY <1>0, <2>2 DEF Requested
<1>6. Delivered' /\ OneLive'
    <2>1. watchers[r].state # NoWatcher.state
        BY DEF NoWatcher
    <2> QED
        BY <1>0, <1>1, <2>1 DEF Delivered, OneLive
<1>7. NoSteerLost'
    <2> SUFFICES ASSUME NEW s \in Steers, OnItsWay(s)
                 PROVE  OnItsWay(s)'
        BY <1>0 DEF NoSteerLost
    <2>1. \A q \in Rounds : watchers[q].hand = s => watchers'[q].hand = s
        BY <1>0, <1>1
    <2> QED
        BY <2>1 DEF OnItsWay, Acknowledged
<1>8. Lanes'
    <2> SUFFICES ASSUME ~world.slow, NEW s \in Steers
                 PROVE  OneLane(s)' /\ OnceOnIt(s)' /\ Answered(s)'
        BY DEF Lanes
    <2>1. OneLane(s) /\ OnceOnIt(s) /\ Answered(s)
        BY <1>0 DEF Lanes
    <2>2. /\ Heard(s)' <=> Heard(s)
          /\ Queued(s)' <=> Queued(s)
          /\ InChannel(s)' <=> InChannel(s)
          /\ Picked(s)' <=> Picked(s)
          /\ Acknowledged(s)' <=> Acknowledged(s)
          /\ told'[s] = told[s]
          /\ heard'[s] <= 1 /\ Once(s, queue') /\ Once(s, channel')
        BY <2>1 DEF Heard, Queued, InChannel, Picked, Acknowledged, OnceOnIt
    <2>3. /\ UnreadParked(s)' <=> UnreadParked(s)
          /\ ParkedListens' => Once(Asked(s), parked')
        BY <2>1, StillLoop
    <2>4. \A q \in Rounds : watchers'[q].state = "live" => Once(Asked(s), watchers'[q].inbox)
        BY <1>1, <1>2, <2>1 DEF OnceOnIt
    <2>5. CASE s # t
        <3>1. \A q \in Rounds : InHandOf(q, s)' => InHandOf(q, s)
            BY <1>1, <2>5 DEF InHandOf
        <3>2. \A q \in Rounds : UnreadBy(q, s)' => UnreadBy(q, s)
            BY <1>1, <1>2 DEF UnreadBy, Asked, Event
        <3>3. (Held(s)' => Held(s)) /\ (Unread(s)' => Unread(s))
            BY <3>1, <3>2 DEF Held, Unread
        <3>4. OnceOnIt(s)'
            BY <2>1, <2>2, <2>3, <2>4, <3>1 DEF OnceOnIt
        <3> QED
            BY <2>1, <2>2, <2>3, <3>3, <3>4, LanesFrom
    <2>6. CASE s = t
        <3>1. UnreadBy(r, s) /\ Unread(s)
            BY <1>2, <2>6 DEF UnreadBy, Unread
        <3>2. /\ ~Heard(s) /\ ~Queued(s) /\ ~InChannel(s) /\ ~Picked(s) /\ ~Held(s)
              /\ "cancelled" \notin told[s]
            BY <2>1, <3>1 DEF OneLane, Answered, OnNoLane
        <3>3. \A q \in Rounds : ~UnreadBy(q, s)'
            <4> TAKE q \in Rounds
            <4>1. CASE q = r
                BY <1>1, <1>2, <2>1, <2>6, <4>1 DEF UnreadBy, OnceOnIt, Asked, Event
            <4>2. CASE q # r
                BY <1>0, <1>1, <4>2 DEF UnreadBy, OneLive
            <4> QED
                BY <4>1, <4>2
        <3>4. ~Unread(s)' /\ ~UnreadParked(s)'
            BY <1>0, <2>3, <3>3 DEF Unread, UnreadParked, ParkedListens, OneLive
        <3>5. \A q \in Rounds : InHandOf(q, s)' => q = r
            BY <1>1, <3>2 DEF InHandOf, Held
        <3>6. OnceOnIt(s)'
            BY <2>2, <2>3, <2>4, <3>5 DEF OnceOnIt
        <3> QED
            BY <2>2, <3>2, <3>4, <3>6 DEF OneLane, Answered
    <2> QED
        BY <2>5, <2>6
<1> QED
    BY <1>3, <1>5, <1>6, <1>7, <1>8 DEF SInv

\* What is in a watcher's hand is queued for the next turn (also by one whose round
\* is over).
LEMMA QueueSteerKeeps ==
    ASSUME SInv, NEW r \in Rounds, QueueSteer(r)
    PROVE  SInv'
<1>0. Types /\ Requested /\ Delivered /\ OneLive /\ NoSteerLost /\ Lanes /\ NoSteer \notin Steers
      /\ watchers[r] \in Watcher
    BY SteersAssumption, WatcherTypes DEF SInv
<1> PICK t : t = watchers[r].hand
    OBVIOUS
<1>1. /\ t # NoSteer /\ queue' = Append(queue, t) /\ Tell(t, "accepted")
      /\ watchers' = [watchers EXCEPT ![r].hand = NoSteer]
      /\ UNCHANGED <<pc, round, message, delivered, parked, channel, fallback, heard, world>>
    BY DEF QueueSteer, loopVars
<1>2. t \in Steers
    BY <1>0, <1>1 DEF Watcher
<1>3. PICK v \in Watcher :
          /\ v.hand = NoSteer /\ v.state = watchers[r].state /\ v.inbox = watchers[r].inbox
          /\ watchers' = [watchers EXCEPT ![r] = v]
    <2> DEFINE v == [watchers[r] EXCEPT !.hand = NoSteer]
    <2>1. /\ v \in Watcher
          /\ v.hand = NoSteer /\ v.state = watchers[r].state /\ v.inbox = watchers[r].inbox
        BY <1>0 DEF Watcher
    <2>2. watchers' = [watchers EXCEPT ![r] = v]
        BY <1>1
    <2> QED
        BY <2>1, <2>2
<1>4. /\ watchers' \in [Rounds -> Watcher] /\ watchers'[r] = v
      /\ \A q \in Rounds \ {r} : watchers'[q] = watchers[q]
    BY <1>0, <1>3, WatcherBecomes
<1>5. Quiet
    BY <1>3, <1>4 DEF Quiet
<1>6. /\ told' \in [Steers -> SUBSET {"requested", "clear", "accepted", "queued", "delivered",
                                      "cancelled", "refused"}]
      /\ told'[t] = told[t] \cup {"accepted"}
      /\ \A s \in Steers \ {t} : told'[s] = told[s]
    BY <1>0, <1>1, <1>2, TellEffect
<1>7. /\ queue' \in Seq(Steers) /\ ToSet(queue') = ToSet(queue) \cup {t}
      /\ \A s : Once(s, queue) /\ (s = t => t \notin ToSet(queue)) => Once(s, queue')
    <2>1. queue \in Seq(Steers)
        BY <1>0 DEF Types
    <2> QED
        BY <1>1, <1>2, <2>1, BehindMembers
<1>8. Types'
    BY <1>0, <1>1, <1>4, <1>6, <1>7 DEF Types
<1>9. Requested'
    <2>1. fallback[t] # "none"
        BY <1>0, <1>1 DEF Requested
    <2>2. \A s \in ToSet(queue') \cup ToSet(channel') \cup {message'} :
             s \in Steers => fallback'[s] # "none"
        BY <1>0, <1>1, <1>7, <2>1 DEF Requested
    <2>3. \A s \in Steers : /\ "clear" \in told[s] => "clear" \in told'[s]
                            /\ fallback'[s] = "none" => told'[s] = {} /\ heard'[s] = 0
                            /\ "cancelled" \in told'[s] => "clear" \in told'[s]
        <3> TAKE s \in Steers
        <3>1. CASE s = t
            BY <1>0, <1>1, <1>6, <2>1, <3>1 DEF Requested
        <3>2. CASE s # t
            BY <1>0, <1>1, <1>6, <3>2 DEF Requested
        <3> QED
            BY <3>1, <3>2
    <2> QED
        BY <1>0, <1>1, <1>5, <1>8, <2>2, <2>3, RequestedFrom DEF Requested
<1>10. Delivered' /\ OneLive'
    <2>1. \A q \in Rounds : watchers[q] = NoWatcher => q # r
        BY <1>1 DEF NoWatcher
    <2> QED
        BY <1>0, <1>1, <1>3, <1>4, <2>1 DEF Delivered, OneLive
<1>11. NoSteerLost'
    <2> SUFFICES ASSUME NEW s \in Steers, pc # "over", "requested" \in told'[s],
                        "clear" \notin told'[s], heard[s] = 0
                 PROVE  OnItsWay(s)'
        BY <1>1 DEF NoSteerLost
    <2>1. CASE s = t
        BY <1>7, <2>1 DEF OnItsWay
    <2>2. CASE s # t
        <3>1. OnItsWay(s) /\ told'[s] = told[s]
            BY <1>0, <1>6, <2>2 DEF NoSteerLost
        <3>2. \A q \in Rounds : watchers[q].hand = s => watchers'[q].hand = s
            BY <1>4, <2>2
        <3> QED
            BY <1>1, <1>7, <3>1, <3>2 DEF OnItsWay, Acknowledged
    <2> QED
        BY <2>1, <2>2
<1>12. Lanes'
    <2> SUFFICES ASSUME ~world.slow, NEW s \in Steers
                 PROVE  OneLane(s)' /\ OnceOnIt(s)' /\ Answered(s)'
        BY <1>1 DEF Lanes
    <2>1. OneLane(s) /\ OnceOnIt(s) /\ Answered(s)
        BY <1>0 DEF Lanes
    <2>2. /\ Heard(s)' <=> Heard(s)
          /\ InChannel(s)' <=> InChannel(s)
          /\ Picked(s)' <=> Picked(s)
          /\ heard'[s] <= 1 /\ Once(s, channel')
        BY <1>1, <2>1 DEF Heard, InChannel, Picked, OnceOnIt
    <2>3. /\ UnreadParked(s)' <=> UnreadParked(s)
          /\ ParkedListens' => Once(Asked(s), parked')
        BY <1>1, <2>1, StillLoop
    <2>4. /\ Held(s)' => Held(s)
          /\ Unread(s)' => Unread(s)
          /\ \A p, q \in Rounds : InHandOf(p, s)' /\ InHandOf(q, s)' => p = q
          /\ \A q \in Rounds : watchers'[q].state = "live" => Once(Asked(s), watchers'[q].inbox)
        BY <1>0, <1>5, <2>1, QuietWatchers
    <2>5. CASE s # t
        <3>1. /\ Queued(s)' <=> Queued(s)
              /\ Once(s, queue') /\ told'[s] = told[s]
            BY <1>6, <1>7, <2>1, <2>5 DEF Queued, OnceOnIt
        <3>2. OnceOnIt(s)'
            BY <2>2, <2>3, <2>4, <3>1 DEF OnceOnIt
        <3> QED
            BY <2>1, <2>2, <2>3, <2>4, <3>1, <3>2, LanesFrom DEF Acknowledged
    <2>6. CASE s = t
        <3>1. InHandOf(r, s) /\ Held(s)
            BY <2>6 DEF InHandOf, Held
        <3>2. /\ ~Heard(s) /\ ~Queued(s) /\ ~InChannel(s) /\ ~Picked(s)
              /\ ~Unread(s) /\ ~UnreadParked(s) /\ "cancelled" \notin told[s]
            BY <2>1, <3>1 DEF OneLane, Answered, OnNoLane
        <3>3. \A q \in Rounds : ~InHandOf(q, s)'
            <4> TAKE q \in Rounds
            <4>1. q # r => ~InHandOf(q, s)
                BY <2>1, <3>1 DEF OnceOnIt
            <4> QED
                BY <1>2, <1>3, <1>4, <2>6, <1>0, <4>1 DEF InHandOf
        <3>4. ~Held(s)'
            BY <3>3 DEF Held
        <3>5. Acknowledged(s)' /\ "cancelled" \notin told'[s] /\ Once(s, queue')
            BY <1>6, <1>7, <2>1, <2>6, <3>2 DEF Acknowledged, OnceOnIt, Queued
        <3>6. OnceOnIt(s)'
            BY <2>2, <2>3, <2>4, <3>5 DEF OnceOnIt
        <3> QED
            BY <2>2, <2>3, <2>4, <3>2, <3>4, <3>5, <3>6 DEF OneLane, Answered
    <2> QED
        BY <2>5, <2>6
<1> QED
    BY <1>8, <1>9, <1>10, <1>11, <1>12 DEF SInv

\* A watcher serves a clear: what it finds queued it removes and reports as cancelled.
LEMMA ServesClear ==
    ASSUME SInv, NEW r \in Rounds, NEW t \in Steers, NEW v \in Watcher,
           watchers[r].state # "none", watchers[r].inbox # <<>>,
           Head(watchers[r].inbox) = Cleared(t),
           watchers' = [watchers EXCEPT ![r] = v],
           v.state = watchers[r].state, v.inbox = Tail(watchers[r].inbox),
           v.hand = watchers[r].hand,
           queue' = Without(queue, {t}), Tell(t, CancelAnswer(t)),
           UNCHANGED <<pc, round, message, delivered, parked, channel, fallback, heard, world>>
    PROVE  SInv'
<1>0. Types /\ Requested /\ Delivered /\ OneLive /\ NoSteerLost /\ Lanes
    BY DEF SInv
<1>1. /\ watchers' \in [Rounds -> Watcher] /\ watchers'[r] = v
      /\ \A q \in Rounds \ {r} : watchers'[q] = watchers[q]
    BY <1>0, WatcherBecomes
<1>2. Quiet
    BY <1>1 DEF Quiet
<1>3. "clear" \in told[t]
    <2>1. Cleared(t) \in ToSet(watchers[r].inbox)
        BY <1>0, WatcherTypes, FrontMembers
    <2>2. Cleared(t).type = "clear" /\ Cleared(t).steer = t
        BY DEF Cleared, Event
    <2> QED
        BY <1>0, <2>1, <2>2 DEF Requested
<1>4. /\ told' \in [Steers -> SUBSET {"requested", "clear", "accepted", "queued", "delivered",
                                      "cancelled", "refused"}]
      /\ told'[t] = told[t] \cup {IF Queued(t) THEN "cancelled" ELSE "refused"}
      /\ \A s \in Steers \ {t} : told'[s] = told[s]
    BY <1>0, TellEffect DEF CancelAnswer, Queued
<1>5. /\ queue' \in Seq(Steers) /\ ToSet(queue') = ToSet(queue) \ {t}
      /\ \A s : Once(s, queue) => Once(s, queue')
    <2>1. queue \in Seq(Steers)
        BY <1>0 DEF Types
    <2> QED
        BY <2>1, WithoutMembers, WithoutOnce
<1>6. Types'
    BY <1>0, <1>1, <1>4, <1>5 DEF Types
<1>7. Requested'
    <2>1. \A s \in ToSet(queue') \cup ToSet(channel') \cup {message'} :
             s \in Steers => fallback'[s] # "none"
        BY <1>0, <1>5 DEF Requested
    <2>2. \A s \in Steers : /\ "clear" \in told[s] => "clear" \in told'[s]
                            /\ fallback'[s] = "none" => told'[s] = {} /\ heard'[s] = 0
                            /\ "cancelled" \in told'[s] => "clear" \in told'[s]
        <3> TAKE s \in Steers
        <3>1. CASE s = t
            BY <1>0, <1>3, <1>4, <3>1 DEF Requested
        <3>2. CASE s # t
            BY <1>0, <1>4, <3>2 DEF Requested
        <3> QED
            BY <3>1, <3>2
    <2> QED
        BY <1>0, <1>2, <1>6, <2>1, <2>2, RequestedFrom DEF Requested
<1>8. Delivered' /\ OneLive'
    <2>1. \A q \in Rounds : watchers[q] = NoWatcher => q # r
        BY DEF NoWatcher
    <2> QED
        BY <1>0, <1>1, <2>1 DEF Delivered, OneLive
<1>9. NoSteerLost'
    <2> SUFFICES ASSUME NEW s \in Steers, pc # "over", "requested" \in told'[s],
                        "clear" \notin told'[s], heard[s] = 0
                 PROVE  OnItsWay(s)'
        BY DEF NoSteerLost
    <2>1. s # t /\ told'[s] = told[s]
        BY <1>3, <1>4
    <2>2. OnItsWay(s)
        BY <1>0, <2>1 DEF NoSteerLost
    <2>3. \A q \in Rounds : watchers[q].hand = s => watchers'[q].hand = s
        BY <1>1
    <2> QED
        BY <1>5, <2>1, <2>2, <2>3 DEF OnItsWay, Acknowledged
<1>10. Lanes'
    <2> SUFFICES ASSUME ~world.slow, NEW s \in Steers
                 PROVE  OneLane(s)' /\ OnceOnIt(s)' /\ Answered(s)'
        BY DEF Lanes
    <2>1. OneLane(s) /\ OnceOnIt(s) /\ Answered(s)
        BY <1>0 DEF Lanes
    <2>2. /\ Heard(s)' <=> Heard(s)
          /\ InChannel(s)' <=> InChannel(s)
          /\ Picked(s)' <=> Picked(s)
          /\ Queued(s)' <=> Queued(s) /\ s # t
          /\ heard'[s] <= 1 /\ Once(s, channel') /\ Once(s, queue')
        BY <1>5, <2>1 DEF Heard, InChannel, Picked, Queued, OnceOnIt
    <2>3. /\ UnreadParked(s)' <=> UnreadParked(s)
          /\ ParkedListens' => Once(Asked(s), parked')
        BY <2>1, StillLoop
    <2>4. /\ Held(s)' => Held(s)
          /\ Unread(s)' => Unread(s)
          /\ \A p, q \in Rounds : InHandOf(p, s)' /\ InHandOf(q, s)' => p = q
          /\ \A q \in Rounds : watchers'[q].state = "live" => Once(Asked(s), watchers'[q].inbox)
        BY <1>0, <1>2, <2>1, QuietWatchers
    <2>5. OnceOnIt(s)'
        BY <2>2, <2>3, <2>4 DEF OnceOnIt
    <2>6. Acknowledged(s) => Acknowledged(s)'
        BY <1>4 DEF Acknowledged
    <2>7. CASE s = t /\ Queued(s)
        BY <2>1, <2>2, <2>3, <2>4, <2>5, <2>7 DEF OneLane, Answered, OnNoLane
    <2>8. CASE ~(s = t /\ Queued(s))
        <3>1. "cancelled" \in told'[s] => "cancelled" \in told[s]
            BY <1>4, <2>8
        <3> QED
            BY <2>1, <2>2, <2>3, <2>4, <2>5, <2>6, <3>1, LanesFrom
    <2> QED
        BY <2>7, <2>8
<1> QED
    BY <1>6, <1>7, <1>8, <1>9, <1>10 DEF SInv

\* A watcher reads an event: live, dead on its feet, or to serve a clear.
LEMMA ListenKeeps ==
    ASSUME SInv, NEW r \in Rounds, Listen(r)
    PROVE  SInv'
<1>0. /\ Types /\ OneLive /\ Delivered
      /\ watchers[r] \in Watcher /\ watchers[r].inbox \in Seq(SteerEvents)
    BY WatcherTypes DEF SInv
<1> PICK e : e = Head(watchers[r].inbox)
    OBVIOUS
<1>1. /\ watchers[r].state \in {"live", "corpse"} /\ watchers[r].hand = NoSteer
      /\ watchers[r].inbox # <<>>
      /\ UNCHANGED <<pc, round, message, delivered, parked, channel, fallback, heard, world>>
    BY DEF Listen, Listening, loopVars
<1>2. e \in SteerEvents /\ Tail(watchers[r].inbox) \in Seq(SteerEvents)
    BY <1>0, <1>1, FrontMembers
<1>3. CASE e.type = "steer" /\ watchers[r].state = "live"
    <2> DEFINE v == IF watchers[r].state = "live"
                    THEN [watchers[r] EXCEPT !.inbox = Tail(@), !.hand = Head(watchers[r].inbox).steer]
                    ELSE [NoWatcher EXCEPT !.state = "dead"]
    <2>0. Head(watchers[r].inbox).type = "steer"
        BY <1>3
    <2>1. watchers' = [watchers EXCEPT ![r] = v] /\ UNCHANGED <<queue, told>>
        BY <2>0, Zenon DEF Listen
    <2>2. e.steer \in Steers /\ e = Asked(e.steer)
        BY <1>2, <1>3 DEF SteerEvents, Asked, Event
    <2>3. /\ v \in Watcher /\ v.state = "live"
          /\ v.inbox = Tail(watchers[r].inbox) /\ v.hand = e.steer
        BY <1>0, <1>2, <1>3, <2>2 DEF Watcher, SteerEvents
    <2> HIDE DEF v
    <2> QED
        BY <1>1, <1>3, <2>1, <2>2, <2>3, TakesInHand
<1>4. CASE e.type = "steer" /\ watchers[r].state # "live"
    <2> DEFINE v == [NoWatcher EXCEPT !.state = "dead"]
    <2>1. watchers' = [watchers EXCEPT ![r] = v] /\ UNCHANGED <<queue, told>>
        BY <1>4 DEF Listen
    <2>2. v = [state |-> "dead", inbox |-> <<>>, hand |-> NoSteer]
        BY DEF NoWatcher
    <2>3. v \in Watcher /\ v.state = "dead" /\ v.inbox = <<>> /\ v.hand = NoSteer
        BY <2>2, NoEvents DEF Watcher, SteerEvents
    <2> HIDE DEF v
    <2>4. /\ watchers' \in [Rounds -> Watcher] /\ watchers'[r] = v
          /\ \A q \in Rounds \ {r} : watchers'[q] = watchers[q]
        BY <1>0, <2>1, <2>3, WatcherBecomes
    <2>5. Quiet /\ \A q \in Rounds : watchers'[q].hand = watchers[q].hand
        BY <1>1, <2>3, <2>4 DEF Quiet
    <2>6. OneLive'
        <3>1. \A q \in Rounds : watchers[q] = NoWatcher => q # r
            BY <1>1 DEF NoWatcher
        <3> QED
            BY <1>0, <1>1, <2>3, <2>4, <3>1 DEF OneLive
    <2> QED
        BY <1>0, <1>1, <2>1, <2>4, <2>5, <2>6, MovesNothing DEF Delivered, ParkedListens
<1>5. CASE e.type # "steer"
    <2> DEFINE v == [watchers[r] EXCEPT !.inbox = Tail(watchers[r].inbox)]
    <2>1. /\ watchers' = [watchers EXCEPT ![r] = v]
          /\ queue' = Without(queue, {e.steer}) /\ Tell(e.steer, CancelAnswer(e.steer))
        BY <1>5 DEF Listen, Claimed
    <2>2. e.steer \in Steers /\ e = Cleared(e.steer)
        BY <1>2, <1>5 DEF SteerEvents, Cleared, Event
    <2>3. /\ v \in Watcher /\ v.state = watchers[r].state
          /\ v.inbox = Tail(watchers[r].inbox) /\ v.hand = watchers[r].hand
        BY <1>0, <1>2 DEF Watcher, SteerEvents
    <2> HIDE DEF v
    <2> QED
        BY <1>1, <2>1, <2>2, <2>3, ServesClear
<1> QED
    BY <1>3, <1>4, <1>5

-----------------------------------------------------------------------------
(* The user's requests and clears.                                         *)

\* A broadcast moves no steer; it adds an event where somebody listens.
LEMMA BroadcastLanes ==
    ASSUME SInv, NEW e \in SteerEvents, Broadcast(e), UNCHANGED <<pc, round, message>>
    PROVE  /\ Types /\ Delivered /\ OneLive'
           /\ watchers' \in [Rounds -> Watcher] /\ parked' \in Seq(SteerEvents)
           /\ \A r \in Rounds : watchers'[r].hand = watchers[r].hand
           /\ \A r \in Rounds : ToSet(watchers'[r].inbox) \subseteq ToSet(watchers[r].inbox) \cup {e}
           /\ ToSet(parked') \subseteq ToSet(parked) \cup {e}
           /\ \A s \in Steers :
                 /\ Held(s)' <=> Held(s)
                 /\ e # Asked(s) => /\ Unread(s)' <=> Unread(s)
                                    /\ UnreadParked(s)' <=> UnreadParked(s)
                 /\ OnceOnIt(s) =>
                       \A r, q \in Rounds : InHandOf(r, s)' /\ InHandOf(q, s)' => r = q
                 /\ OnceOnIt(s) /\ (e = Asked(s) => ~Unread(s) /\ ~UnreadParked(s)) =>
                       /\ \A r \in Rounds :
                             watchers'[r].state = "live" => Once(Asked(s), watchers'[r].inbox)
                       /\ ParkedListens' => Once(Asked(s), parked')
<1>0. Types /\ Delivered /\ OneLive
    BY DEF SInv
<1>1. /\ watchers' \in [Rounds -> Watcher] /\ parked' \in Seq(SteerEvents)
      /\ \A r \in Rounds :
            /\ watchers'[r].state = watchers[r].state
            /\ watchers'[r].hand = watchers[r].hand
            /\ watchers'[r].inbox = IF Listening(r) THEN Append(watchers[r].inbox, e)
                                    ELSE watchers[r].inbox
            /\ ~Listening(r) => watchers'[r] = watchers[r]
      /\ parked' = IF ParkedListens THEN Append(parked, e) ELSE parked
    BY <1>0, BroadcastEffect
<1>2. ASSUME NEW r \in Rounds
      PROVE  /\ ToSet(watchers'[r].inbox) = ToSet(watchers[r].inbox) \cup {x \in {e} : Listening(r)}
             /\ \A x : Once(x, watchers[r].inbox) /\ (x = e => e \notin ToSet(watchers[r].inbox))
                         => Once(x, watchers'[r].inbox)
    <2>1. watchers[r].inbox \in Seq(SteerEvents)
        BY <1>0, WatcherTypes
    <2>2. /\ ToSet(Append(watchers[r].inbox, e)) = ToSet(watchers[r].inbox) \cup {e}
          /\ \A x : Once(x, watchers[r].inbox) /\ (x = e => e \notin ToSet(watchers[r].inbox))
                      => Once(x, Append(watchers[r].inbox, e))
        BY <2>1, BehindMembers
    <2>3. CASE Listening(r)
        <3>1. watchers'[r].inbox = Append(watchers[r].inbox, e)
            BY <1>1, <2>3
        <3> QED
            BY <2>2, <2>3, <3>1
    <2>4. CASE ~Listening(r)
        <3>1. watchers'[r].inbox = watchers[r].inbox
            BY <1>1, <2>4
        <3> QED
            BY <2>4, <3>1
    <2> QED
        BY <2>3, <2>4
<1>3. /\ ToSet(parked') = ToSet(parked) \cup {x \in {e} : ParkedListens}
      /\ \A x : Once(x, parked) /\ (x = e => e \notin ToSet(parked)) => Once(x, parked')
    <2>1. parked \in Seq(SteerEvents)
        BY <1>0 DEF Types
    <2>2. /\ ToSet(Append(parked, e)) = ToSet(parked) \cup {e}
          /\ \A x : Once(x, parked) /\ (x = e => e \notin ToSet(parked)) => Once(x, Append(parked, e))
        BY <2>1, BehindMembers
    <2>3. CASE ParkedListens
        <3>1. parked' = Append(parked, e)
            BY <1>1, <2>3
        <3> QED
            BY <2>2, <2>3, <3>1
    <2>4. CASE ~ParkedListens
        <3>1. parked' = parked
            BY <1>1, <2>4
        <3> QED
            BY <2>4, <3>1
    <2> QED
        BY <2>3, <2>4
<1>4. OneLive'
    <2>1. \A r \in Rounds : watchers[r] = NoWatcher => ~Listening(r)
        BY DEF NoWatcher, Listening
    <2> QED
        BY <1>0, <1>1, <2>1 DEF OneLive
<1>5. ASSUME NEW s \in Steers
      PROVE  /\ Held(s)' <=> Held(s)
             /\ OnceOnIt(s) =>
                   \A r, q \in Rounds : InHandOf(r, s)' /\ InHandOf(q, s)' => r = q
    BY <1>1 DEF Held, InHandOf, OnceOnIt
<1>6. ASSUME NEW s \in Steers, e # Asked(s)
      PROVE  /\ Unread(s)' <=> Unread(s)
             /\ UnreadParked(s)' <=> UnreadParked(s)
    <2>1. \A r \in Rounds : UnreadBy(r, s)' <=> UnreadBy(r, s)
        BY <1>1, <1>2, <1>6 DEF UnreadBy, Asked, Event
    <2>2. UnreadParked(s)' <=> UnreadParked(s)
        BY <1>3, <1>6 DEF UnreadParked, ParkedListens, Asked, Event
    <2> QED
        BY <2>1, <2>2 DEF Unread
<1>7. ASSUME NEW s \in Steers, OnceOnIt(s), e = Asked(s) => ~Unread(s) /\ ~UnreadParked(s)
      PROVE  /\ \A r \in Rounds :
                   watchers'[r].state = "live" => Once(Asked(s), watchers'[r].inbox)
             /\ ParkedListens' => Once(Asked(s), parked')
    <2>1. ASSUME NEW r \in Rounds, watchers'[r].state = "live"
          PROVE  Once(Asked(s), watchers'[r].inbox)
        BY <1>1, <1>2, <1>7, <2>1 DEF OnceOnIt, Unread, UnreadBy
    <2>2. ParkedListens' => Once(Asked(s), parked')
        BY <1>3, <1>7 DEF OnceOnIt, UnreadParked, ParkedListens, Asked, Event
    <2> QED
        BY <2>1, <2>2
<1> QED
    BY <1>0, <1>1, <1>2, <1>3, <1>4, <1>5, <1>6, <1>7

\* What a broadcast about a requested steer leaves of Requested.
LEMMA BroadcastRequested ==
    ASSUME SInv, NEW e \in SteerEvents, Broadcast(e), UNCHANGED <<pc, round, message, queue, channel>>,
           fallback'[e.steer] # "none", e.type = "clear" => "clear" \in told'[e.steer],
           \A s \in Steers : /\ fallback[s] # "none" => fallback'[s] # "none"
                             /\ "clear" \in told[s] => "clear" \in told'[s]
                             /\ fallback'[s] = "none" => told'[s] = {} /\ heard'[s] = 0
                             /\ "cancelled" \in told'[s] => "clear" \in told'[s]
    PROVE  Requested'
<1>0. Types /\ Requested
    BY DEF SInv
<1>1. /\ \A r \in Rounds : watchers'[r].hand = watchers[r].hand
      /\ \A r \in Rounds : ToSet(watchers'[r].inbox) \subseteq ToSet(watchers[r].inbox) \cup {e}
      /\ ToSet(parked') \subseteq ToSet(parked) \cup {e}
    BY BroadcastLanes
<1>2. ASSUME NEW r \in Rounds
      PROVE  /\ watchers'[r].hand # NoSteer => fallback'[watchers'[r].hand] # "none"
             /\ \A f \in ToSet(watchers'[r].inbox) :
                   /\ fallback'[f.steer] # "none"
                   /\ f.type = "clear" => "clear" \in told'[f.steer]
    <2>1. watchers[r].hand \in Steers \cup {NoSteer}
        BY <1>0, WatcherTypes
    <2>2. \A f \in ToSet(watchers[r].inbox) : f.steer \in Steers
        <3>1. ToSet(watchers[r].inbox) \subseteq SteerEvents
            BY <1>0, WatcherTypes, SequenceMembers
        <3> QED
            BY <3>1 DEF SteerEvents
    <2> QED
        BY <1>0, <1>1, <2>1, <2>2 DEF Requested
<1>3. \A f \in ToSet(parked') : fallback'[f.steer] # "none"
    <2>1. \A f \in ToSet(parked) : f.steer \in Steers
        <3>1. ToSet(parked) \subseteq SteerEvents
            BY <1>0, SequenceMembers DEF Types
        <3> QED
            BY <3>1 DEF SteerEvents
    <2> QED
        BY <1>0, <1>1, <2>1 DEF Requested
<1> QED
    BY <1>0, <1>2, <1>3 DEF Requested

\* A steer nobody asked for is on no lane.
LEMMA UnaskedOnNoLane ==
    ASSUME Types, Requested, NEW s \in Steers, fallback[s] = "none"
    PROVE  OnNoLane(s)
<1>0. NoSteer \notin Steers
    BY SteersAssumption
<1>1. ~Heard(s) /\ ~Queued(s) /\ ~InChannel(s) /\ ~Picked(s)
    BY DEF Types, Requested, Heard, Queued, InChannel, Picked
<1>2. ~Held(s)
    BY <1>0 DEF Requested, Held, InHandOf
<1>3. Asked(s).steer = s
    BY DEF Asked, Event
<1>4. ~Unread(s)
    BY <1>3 DEF Requested, Unread, UnreadBy
<1>5. ~UnreadParked(s)
    BY <1>3 DEF Requested, UnreadParked
<1> QED
    BY <1>1, <1>2, <1>4, <1>5 DEF OnNoLane

\* A steer is requested: its event is unread somewhere, or its fallback waits for nobody.
LEMMA SteerKeeps ==
    ASSUME SInv, NEW t \in Steers, Steer(t)
    PROVE  SInv'
<1>0. Types /\ Requested /\ Delivered /\ OneLive /\ NoSteerLost /\ Lanes
    BY DEF SInv
<1>1. /\ fallback[t] = "none" /\ fallback' = [fallback EXCEPT ![t] = "waiting"]
      /\ Broadcast(Asked(t)) /\ Tell(t, "requested") /\ Asked(t) \in SteerEvents
      /\ UNCHANGED <<pc, round, queue, channel, message, delivered, heard, world>>
    BY DEF Steer, Asked, Event, SteerEvents
<1>2. /\ told[t] = {} /\ heard[t] = 0 /\ OnNoLane(t)
    BY <1>0, <1>1, UnaskedOnNoLane DEF Requested
<1>3. /\ told' \in [Steers -> SUBSET {"requested", "clear", "accepted", "queued", "delivered",
                                      "cancelled", "refused"}]
      /\ told'[t] = {"requested"}
      /\ \A s \in Steers \ {t} : told'[s] = told[s]
    BY <1>0, <1>1, <1>2, TellEffect
<1>4. /\ fallback' \in [Steers -> {"none", "waiting", "over"}] /\ fallback'[t] = "waiting"
      /\ \A s \in Steers \ {t} : fallback'[s] = fallback[s]
    BY <1>0, <1>1 DEF Types
<1>5. /\ watchers' \in [Rounds -> Watcher] /\ parked' \in Seq(SteerEvents) /\ OneLive'
      /\ \A r \in Rounds : watchers'[r].hand = watchers[r].hand
    BY <1>1, BroadcastLanes
<1>6. Types'
    BY <1>0, <1>1, <1>3, <1>4, <1>5 DEF Types
<1>7. Requested'
    <2>1. Asked(t).steer = t /\ Asked(t).type = "steer"
        BY DEF Asked, Event
    <2>2. \A s \in Steers : /\ fallback[s] # "none" => fallback'[s] # "none"
                            /\ "clear" \in told[s] => "clear" \in told'[s]
                            /\ fallback'[s] = "none" => told'[s] = {} /\ heard'[s] = 0
                            /\ "cancelled" \in told'[s] => "clear" \in told'[s]
        BY <1>0, <1>1, <1>2, <1>3, <1>4 DEF Requested
    <2>3. fallback'[Asked(t).steer] # "none"
        BY <1>4, <2>1
    <2> HIDE DEF Asked
    <2> QED
        BY <1>1, <2>1, <2>2, <2>3, BroadcastRequested
<1>8. Delivered'
    BY <1>0, <1>1 DEF Delivered
<1>9. NoSteerLost'
    <2> SUFFICES ASSUME NEW s \in Steers, pc # "over", "requested" \in told'[s],
                        "clear" \notin told'[s], heard[s] = 0
                 PROVE  OnItsWay(s)'
        BY <1>1 DEF NoSteerLost
    <2>1. CASE s = t
        BY <1>3, <1>4, <2>1 DEF OnItsWay, Acknowledged
    <2>2. CASE s # t
        <3>1. told'[s] = told[s] /\ fallback'[s] = fallback[s]
            BY <1>3, <1>4, <2>2
        <3>2. OnItsWay(s)
            BY <1>0, <3>1 DEF NoSteerLost
        <3> QED
            BY <1>1, <1>5, <3>1, <3>2 DEF OnItsWay, Acknowledged
    <2> QED
        BY <2>1, <2>2
<1>10. Lanes'
    <2> SUFFICES ASSUME ~world.slow, NEW s \in Steers
                 PROVE  OneLane(s)' /\ OnceOnIt(s)' /\ Answered(s)'
        BY <1>1 DEF Lanes
    <2>1. OneLane(s) /\ OnceOnIt(s) /\ Answered(s)
        BY <1>0 DEF Lanes
    <2>2. /\ Heard(s)' <=> Heard(s)
          /\ Queued(s)' <=> Queued(s)
          /\ InChannel(s)' <=> InChannel(s)
          /\ Picked(s)' <=> Picked(s)
        BY <1>1 DEF Heard, Queued, InChannel, Picked
    <2>3. Asked(t) = Asked(s) => s = t
        BY DEF Asked, Event
    <2>4. /\ Held(s)' <=> Held(s)
          /\ s # t => (Unread(s)' <=> Unread(s)) /\ (UnreadParked(s)' <=> UnreadParked(s))
          /\ \A r, q \in Rounds : InHandOf(r, s)' /\ InHandOf(q, s)' => r = q
          /\ \A r \in Rounds : watchers'[r].state = "live" => Once(Asked(s), watchers'[r].inbox)
          /\ ParkedListens' => Once(Asked(s), parked')
        <3>1. Asked(t) = Asked(s) => ~Unread(s) /\ ~UnreadParked(s)
            BY <1>2, <2>3 DEF OnNoLane
        <3>2. PICK e \in SteerEvents : e = Asked(t)
            BY <1>1
        <3>3. Broadcast(e)
            BY <1>1, <3>2
        <3> QED
            BY <1>1, <2>1, <2>3, <3>1, <3>2, <3>3, BroadcastLanes
    <2>5. OnceOnIt(s)'
        BY <1>1, <2>1, <2>4 DEF OnceOnIt
    <2>6. CASE s = t
        <3>1. ~Heard(s)' /\ ~Queued(s)' /\ ~InChannel(s)' /\ ~Picked(s)' /\ ~Held(s)'
            BY <1>2, <2>2, <2>4, <2>6 DEF OnNoLane
        <3> QED
            BY <1>3, <2>5, <2>6, <3>1 DEF OneLane, Answered
    <2>7. CASE s # t
        <3>1. /\ Acknowledged(s) => Acknowledged(s)'
              /\ "cancelled" \in told'[s] => "cancelled" \in told[s]
            BY <1>3, <2>7 DEF Acknowledged
        <3> QED
            BY <2>1, <2>2, <2>4, <2>5, <2>7, <3>1, LanesFrom
    <2> QED
        BY <2>6, <2>7
<1> QED
    BY <1>5, <1>6, <1>7, <1>8, <1>9, <1>10 DEF SInv

\* A clear is broadcast like a request, and moves nothing before somebody serves it.
LEMMA CancelSteerKeeps ==
    ASSUME SInv, NEW t \in Steers, CancelSteer(t)
    PROVE  SInv'
<1>0. Types /\ Requested /\ Delivered /\ OneLive /\ NoSteerLost /\ Lanes
    BY DEF SInv
<1>1. /\ "requested" \in told[t]
      /\ Broadcast(Cleared(t)) /\ Tell(t, "clear") /\ Cleared(t) \in SteerEvents
      /\ UNCHANGED <<pc, round, queue, channel, message, delivered, fallback, heard, world>>
    BY DEF CancelSteer, Cleared, Event, SteerEvents
<1>2. fallback[t] # "none"
    BY <1>0, <1>1 DEF Requested
<1>3. /\ told' \in [Steers -> SUBSET {"requested", "clear", "accepted", "queued", "delivered",
                                      "cancelled", "refused"}]
      /\ told'[t] = told[t] \cup {"clear"}
      /\ \A s \in Steers \ {t} : told'[s] = told[s]
    BY <1>0, <1>1, TellEffect
<1>5. /\ watchers' \in [Rounds -> Watcher] /\ parked' \in Seq(SteerEvents) /\ OneLive'
      /\ \A r \in Rounds : watchers'[r].hand = watchers[r].hand
    BY <1>1, BroadcastLanes
<1>6. Types'
    BY <1>0, <1>1, <1>3, <1>5 DEF Types
<1>7. Requested'
    <2>1. Cleared(t).steer = t
        BY DEF Cleared, Event
    <2>2. \A s \in Steers : /\ fallback[s] # "none" => fallback'[s] # "none"
                            /\ "clear" \in told[s] => "clear" \in told'[s]
                            /\ fallback'[s] = "none" => told'[s] = {} /\ heard'[s] = 0
                            /\ "cancelled" \in told'[s] => "clear" \in told'[s]
        BY <1>0, <1>1, <1>2, <1>3 DEF Requested
    <2>3. fallback'[Cleared(t).steer] # "none" /\ "clear" \in told'[Cleared(t).steer]
        BY <1>1, <1>2, <1>3, <2>1
    <2> HIDE DEF Cleared
    <2> QED
        BY <1>1, <2>2, <2>3, BroadcastRequested
<1>8. Delivered'
    BY <1>0, <1>1 DEF Delivered
<1>9. NoSteerLost'
    <2> SUFFICES ASSUME NEW s \in Steers, pc # "over", "requested" \in told'[s],
                        "clear" \notin told'[s], heard[s] = 0
                 PROVE  OnItsWay(s)'
        BY <1>1 DEF NoSteerLost
    <2>1. s # t /\ told'[s] = told[s]
        BY <1>3
    <2>2. OnItsWay(s)
        BY <1>0, <2>1 DEF NoSteerLost
    <2> QED
        BY <1>1, <1>5, <2>1, <2>2 DEF OnItsWay, Acknowledged
<1>10. Lanes'
    <2> SUFFICES ASSUME ~world.slow, NEW s \in Steers
                 PROVE  OneLane(s)' /\ OnceOnIt(s)' /\ Answered(s)'
        BY <1>1 DEF Lanes
    <2>1. OneLane(s) /\ OnceOnIt(s) /\ Answered(s)
        BY <1>0 DEF Lanes
    <2>2. /\ Heard(s)' => Heard(s)
          /\ Queued(s)' => Queued(s)
          /\ InChannel(s)' => InChannel(s)
          /\ Picked(s)' => Picked(s)
        BY <1>1 DEF Heard, Queued, InChannel, Picked
    <2>3. Cleared(t) # Asked(s)
        BY DEF Asked, Cleared, Event
    <2>4. /\ Held(s)' => Held(s)
          /\ (Unread(s)' => Unread(s)) /\ (UnreadParked(s)' => UnreadParked(s))
          /\ \A r, q \in Rounds : InHandOf(r, s)' /\ InHandOf(q, s)' => r = q
          /\ \A r \in Rounds : watchers'[r].state = "live" => Once(Asked(s), watchers'[r].inbox)
          /\ ParkedListens' => Once(Asked(s), parked')
        <3>1. PICK e \in SteerEvents : e = Cleared(t)
            BY <1>1
        <3>2. Broadcast(e)
            BY <1>1, <3>1
        <3> QED
            BY <1>1, <2>1, <2>3, <3>1, <3>2, BroadcastLanes
    <2>5. OnceOnIt(s)'
        BY <1>1, <2>1, <2>4 DEF OnceOnIt
    <2>6. /\ Acknowledged(s) => Acknowledged(s)'
          /\ "cancelled" \in told'[s] => "cancelled" \in told[s]
        BY <1>3 DEF Acknowledged
    <2> QED
        BY <2>1, <2>2, <2>4, <2>5, <2>6, LanesFrom
<1> QED
    BY <1>5, <1>6, <1>7, <1>8, <1>9, <1>10 DEF SInv

-----------------------------------------------------------------------------
(* The theorems.                                                           *)

\* Nothing is asked before the session begins.
LEMMA SInvInit == Init => SInv
<1> SUFFICES ASSUME Init PROVE SInv
    OBVIOUS
<1>0. NoSteer \notin Steers /\ Plain \notin Steers /\ Plain # NoSteer
    BY SteersAssumption
<1>1. /\ watchers = [r \in Rounds |-> NoWatcher] /\ NoWatcher \in Watcher
      /\ \A r \in Rounds : watchers[r] = NoWatcher
      /\ NoWatcher.state = "none" /\ NoWatcher.hand = NoSteer /\ NoWatcher.inbox = <<>>
    BY DEF Init, NoWatcher, Watcher
<1>2. /\ parked = <<>> /\ queue = <<>> /\ channel = <<>>
      /\ ToSet(parked) = {} /\ ToSet(queue) = {} /\ ToSet(channel) = {}
      /\ \A e : Once(e, parked) /\ Once(e, queue) /\ Once(e, channel)
    BY DEF Init, ToSet, Once
<1>3. Types
    BY <1>1, <1>2 DEF Init, Types
<1>4. Requested
    <2>1. \A r \in Rounds : ToSet(watchers[r].inbox) = {}
        BY <1>1 DEF ToSet
    <2>2. \A s \in Steers : fallback[s] = "none" /\ told[s] = {} /\ heard[s] = 0
        BY DEF Init
    <2>3. message = NoSteer
        BY DEF Init
    <2> QED
        BY <1>0, <1>1, <1>2, <2>1, <2>2, <2>3 DEF Requested
<1>5. Delivered /\ OneLive
    BY <1>1 DEF Init, Delivered, OneLive
<1>6. \A s \in Steers : fallback[s] = "none" /\ told[s] = {} /\ heard[s] = 0
    BY DEF Init
<1>7. NoSteerLost
    BY <1>6 DEF NoSteerLost
<1>8. Lanes
    <2> SUFFICES ASSUME NEW s \in Steers
                 PROVE  OneLane(s) /\ OnceOnIt(s) /\ Answered(s)
        BY DEF Lanes
    <2>1. OnNoLane(s)
        BY <1>3, <1>4, <1>6, UnaskedOnNoLane
    <2>2. OnceOnIt(s)
        BY <1>0, <1>1, <1>2, <1>6 DEF OnceOnIt, InHandOf
    <2> QED
        BY <1>6, <2>1, <2>2 DEF OneLane, OnNoLane, Answered
<1> QED
    BY <1>3, <1>4, <1>5, <1>7, <1>8 DEF SInv

\* Every step of the user, the fallbacks, the watchers and the loop keeps the invariant.
LEMMA SInvStep == SInv /\ [Next]_vars => SInv'
<1> SUFFICES ASSUME SInv, [Next]_vars PROVE SInv'
    OBVIOUS
<1>1. CASE LoopStep
    BY <1>1, RoundsTurn, TurnTopKeeps, SweepKeeps, PickSteerKeeps, PickFollowUpKeeps,
       StartRoundKeeps DEF LoopStep
<1>2. CASE FollowUp
    BY <1>2, FollowUpKeeps
<1>3. CASE \E s \in Steers : Steer(s) \/ CancelSteer(s) \/ Retire(s) \/ TimeOut(s)
    BY <1>3, SteerKeeps, CancelSteerKeeps, RetireKeeps, TimeOutKeeps
<1>4. CASE \E r \in Rounds : Listen(r) \/ QueueSteer(r) \/ Reap(r) \/ Lag(r)
    BY <1>4, ListenKeeps, QueueSteerKeeps, WatcherForgets
<1>5. CASE UNCHANGED vars
    <2>1. UNCHANGED <<pc, round, watchers, parked, queue, channel, message, delivered,
                      fallback, told, heard, world>>
        BY <1>5 DEF vars
    <2>2. Types /\ Delivered /\ OneLive
        BY DEF SInv
    <2>3. OneLive' /\ watchers' \in [Rounds -> Watcher]
        BY <2>1, <2>2 DEF OneLive, Types
    <2> QED
        BY <2>1, <2>2, <2>3, StillIsQuiet, MovesNothing DEF Delivered, ParkedListens
<1> QED
    BY <1>1, <1>2, <1>3, <1>4, <1>5 DEF Next

\* The invariant holds in every reachable state.
LEMMA SteersInvariant == Spec => []SInv
BY SInvInit, SInvStep, PTL DEF Spec

\* A steer its user has not cleared is heard or on its way while the session lives:
\* for any number of steers, rounds, stalls, overflows and late timers.
THEOREM NoSteerLostAlways == Spec => []NoSteerLost
<1>1. SInv => NoSteerLost
    BY DEF SInv
<1> QED
    BY <1>1, SteersInvariant, PTL

\* Without a late timer a steer enters the conversation once.
THEOREM HeardOnceAlways == Spec => []HeardOnce
<1>1. SInv => HeardOnce
    BY DEF SInv, HeardOnce, Lanes, OnceOnIt
<1> QED
    BY <1>1, SteersInvariant, PTL

\* Without a late timer a steer whose clear was confirmed is never heard.
THEOREM CancelledNeverHeardAlways == Spec => []CancelledNeverHeard
<1>1. SInv => CancelledNeverHeard
    <2> SUFFICES ASSUME SInv, ~world.slow, NEW s \in Steers, "cancelled" \in told[s]
                 PROVE  heard[s] = 0
        BY DEF CancelledNeverHeard
    <2>1. ~Heard(s)
        BY DEF SInv, Lanes, Answered, OnNoLane
    <2>2. heard[s] \in Nat
        BY DEF SInv, Types
    <2> QED
        BY <2>1, <2>2 DEF Heard
<1> QED
    BY <1>1, SteersInvariant, PTL
=============================================================================
