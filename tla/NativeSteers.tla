---------------------------- MODULE NativeSteers ----------------------------
(***************************************************************************)
(* Steering a native session: a user's text for a conversation that may be *)
(* in the middle of a round (agent_loop.rs, steering.rs, and route_steer   *)
(* of session_supervisor/routing.rs).                                      *)
(*                                                                         *)
(* route_steer broadcasts SteerRequested and leaves a fallback task that   *)
(* waits for an acknowledgement.  During a round a watcher task queues the *)
(* text for the next turn; between rounds the parked loop starts a round   *)
(* with it; if nobody answers in time, the fallback queues it as a         *)
(* follow-up.  The same steer can so be on several lanes at once.          *)
(*                                                                         *)
(* The end of a round cancels the watcher's token and aborts it, but the   *)
(* abort lands at its next yield: until then the watcher goes on reading,  *)
(* and one that has passed the token's check still queues what it holds.   *)
(*                                                                         *)
(* An event is broadcast to the subscriptions that exist when it is sent.  *)
(***************************************************************************)
EXTENDS FiniteSets, SequencesExt, Filtering

CONSTANTS
    Steers,         \* steer ids
    NoSteer,
    Plain,          \* a follow-up that is not a steer
    MaxPlain,       \* bound on the plain follow-ups of the user
    MaxTurns,       \* SAFETY_CAP
    Worlds          \* scenarios: what the user sends, what the scheduling may do

\* steers, plain: the steers and the number of follow-ups the user may send
\* stalls: a watcher may be descheduled past the end of its round
\* slow:   the fallback's timer may fire over an event it has not seen
\* lags:   a watcher's subscription may overflow
ASSUME SteersAssumption ==
    /\ Worlds \subseteq [steers : SUBSET Steers, plain : 0..MaxPlain,
                         stalls : BOOLEAN, slow : BOOLEAN, lags : BOOLEAN]
    /\ MaxPlain \in Nat /\ MaxTurns \in Nat \ {0}
    /\ NoSteer \notin Steers /\ Plain \notin Steers /\ Plain # NoSteer

Rounds == 1..(1 + MaxPlain + 2 * Len(SetToSeq(Steers)))

VARIABLES
    pc,         \* where the round loop stands
    round,      \* the current round
    turn,       \* the current turn of the round
    watchers,   \* each round's watcher: its state, its unread events, the steer
                \* that passed the token's check and is not queued yet
    parked,     \* unread events of the parked subscription
    queue,      \* context_injection
    channel,    \* the follow-up channel
    message,    \* the message the loop starts its next round with
    delivered,  \* delivered_steer_ids
    fallback,   \* of each steer: "none", "waiting" or "over"
    told,       \* events sent about each steer
    heard,      \* how often each steer entered the conversation
    plain,      \* plain follow-ups sent
    world

vars == <<pc, round, turn, watchers, parked, queue, channel, message, delivered,
          fallback, told, heard, plain, world>>
loopVars == <<pc, round, turn, message, delivered, parked>>

NoWatcher == [state |-> "none", inbox |-> <<>>, hand |-> NoSteer]

Init ==
    /\ pc = "starting" /\ round = 1 /\ turn = 1
    /\ watchers = [r \in Rounds |-> NoWatcher]
    /\ parked = <<>> /\ queue = <<>> /\ channel = <<>>
    /\ message = NoSteer /\ delivered = {}
    /\ fallback = [s \in Steers |-> "none"]
    /\ told = [s \in Steers |-> {}]
    /\ heard = [s \in Steers |-> 0]
    /\ plain = 0
    /\ world \in Worlds

-----------------------------------------------------------------------------
(* Helpers.                                                                *)

Event(type, s) == [type |-> type, steer |-> s]
Listening(r) == watchers[r].state \in {"live", "corpse"}
ParkedListens == pc \in {"sweep", "parked"}

Broadcast(e) ==
    /\ watchers' = [r \in Rounds |-> IF Listening(r)
                                     THEN [watchers[r] EXCEPT !.inbox = Append(@, e)]
                                     ELSE watchers[r]]
    /\ parked' = IF ParkedListens THEN Append(parked, e) ELSE parked

Tell(s, what) == told' = [told EXCEPT ![s] = @ \cup {what}]

\* the text enters the conversation, and SteerDelivered is sent
Enters(texts) ==
    /\ heard' = [s \in Steers |-> heard[s] + Cardinality({i \in 1..Len(texts) : texts[i] = s})]
    /\ told' = [s \in Steers |-> told[s] \cup {"delivered" : t \in {s} \cap ToSet(texts)}]

\* claim_steer_injections of one id
Claimed(s) == Without(queue, {s})

\* Mutant: a cancel that found nothing is reported as done.
AlwaysCancelled(s) == "cancelled"

\* cancel_queued_steers_for_session, else emit_steer_cancel_failed_for_unmatched
CancelAnswer(s) == IF s \in ToSet(queue) THEN "cancelled" ELSE "refused"

-----------------------------------------------------------------------------
(* The user, through the supervisor.                                       *)

\* route_steer
Steer(s) ==
    /\ pc # "over"
    /\ s \in world.steers
    /\ fallback[s] = "none"
    /\ fallback' = [fallback EXCEPT ![s] = "waiting"]
    /\ Broadcast(Event("steer", s))
    /\ Tell(s, "requested")
    /\ UNCHANGED <<pc, round, turn, queue, channel, message, delivered, heard, plain, world>>

\* route_cancel_steer
CancelSteer(s) ==
    /\ pc # "over"
    /\ "requested" \in told[s] /\ "clear" \notin told[s]
    /\ Broadcast(Event("clear", s))
    /\ Tell(s, "clear")
    /\ UNCHANGED <<pc, round, turn, queue, channel, message, delivered, fallback, heard, plain,
                   world>>

FollowUp ==
    /\ pc # "over"
    /\ plain < world.plain
    /\ plain' = plain + 1
    /\ channel' = Append(channel, Plain)
    /\ UNCHANGED <<loopVars, watchers, queue, fallback, told, heard, world>>

-----------------------------------------------------------------------------
(* The fallback of a steer (spawn_steer_fallback).                         *)

Acknowledged(s) ==
    told[s] \cap {"accepted", "queued", "delivered", "cancelled", "clear"} # {}

\* a task has the request before it and is about to answer
InHand(s) ==
    \/ \E r \in Rounds : \/ watchers[r].hand = s
                         \/ watchers[r].state = "live"
                            /\ Event("steer", s) \in ToSet(watchers[r].inbox)
    \/ ParkedListens /\ Event("steer", s) \in ToSet(parked)

Retire(s) ==
    /\ fallback[s] = "waiting"
    /\ Acknowledged(s)
    /\ fallback' = [fallback EXCEPT ![s] = "over"]
    /\ UNCHANGED <<loopVars, watchers, queue, channel, told, heard, plain, world>>

\* a closed channel drops the text with a warning
TimeOut(s) ==
    /\ fallback[s] = "waiting"
    /\ world.slow \/ ~(Acknowledged(s) \/ InHand(s))
    /\ fallback' = [fallback EXCEPT ![s] = "over"]
    /\ IF pc = "over" THEN UNCHANGED <<channel, told>>
       ELSE channel' = Append(channel, s) /\ Tell(s, "queued")
    /\ UNCHANGED <<loopVars, watchers, queue, heard, plain, world>>

-----------------------------------------------------------------------------
(* A round's watcher.                                                      *)

\* A cancelled token ends the watcher at its next steer; a cancel is served.
Listen(r) ==
    LET e == Head(watchers[r].inbox)
    IN  /\ Listening(r)
        /\ watchers[r].hand = NoSteer
        /\ watchers[r].inbox # <<>>
        /\ IF e.type = "steer"
           THEN /\ watchers' = [watchers EXCEPT ![r] =
                        IF @.state = "live"
                        THEN [watchers[r] EXCEPT !.inbox = Tail(@), !.hand = e.steer]
                        ELSE [NoWatcher EXCEPT !.state = "dead"]]
                /\ UNCHANGED <<queue, told>>
           ELSE /\ watchers' = [watchers EXCEPT ![r].inbox = Tail(@)]
                /\ queue' = Claimed(e.steer)
                /\ Tell(e.steer, CancelAnswer(e.steer))
        /\ UNCHANGED <<loopVars, channel, fallback, heard, plain, world>>

QueueSteer(r) ==
    /\ watchers[r].hand # NoSteer
    /\ queue' = Append(queue, watchers[r].hand)
    /\ Tell(watchers[r].hand, "accepted")
    /\ watchers' = [watchers EXCEPT ![r].hand = NoSteer]
    /\ UNCHANGED <<loopVars, channel, fallback, heard, plain, world>>

\* the abort lands
Reap(r) ==
    /\ watchers[r].state = "corpse"
    /\ watchers[r].hand = NoSteer
    /\ watchers' = [watchers EXCEPT ![r] = [NoWatcher EXCEPT !.state = "dead"]]
    /\ UNCHANGED <<loopVars, queue, channel, fallback, told, heard, plain, world>>

\* the oldest event is overwritten before it is read
Lag(r) ==
    /\ world.lags
    /\ Listening(r) /\ watchers[r].inbox # <<>>
    /\ watchers' = [watchers EXCEPT ![r].inbox = Tail(@)]
    /\ UNCHANGED <<loopVars, queue, channel, fallback, told, heard, plain, world>>

-----------------------------------------------------------------------------
(* The round loop (run_round_loop, and the turns of run_agent_loop).       *)

offLoop == <<channel, fallback, plain, world>>

\* the watcher of the new round subscribes; what was sent before it did is lost to it
Subscribe ==
    /\ pc = "starting"
    /\ pc' = "top"
    /\ watchers' = [watchers EXCEPT ![round].state = "live"]
    /\ UNCHANGED <<round, turn, parked, queue, message, delivered, told, heard, offLoop>>

\* the top of a turn drains the whole queue into the conversation
TurnTop ==
    /\ pc = "top"
    /\ pc' = "model"
    /\ queue' = <<>>
    /\ Enters(queue)
    /\ UNCHANGED <<round, turn, watchers, parked, message, delivered, offLoop>>

NextTurn ==
    /\ pc = "model" /\ turn < MaxTurns
    /\ pc' = "top" /\ turn' = turn + 1
    /\ UNCHANGED <<round, watchers, parked, queue, message, delivered, told, heard, offLoop>>

\* the model is done: the guard cancels the token, then aborts the watcher
EndRound ==
    /\ pc = "model"
    /\ world.stalls \/ watchers[round].hand = NoSteer
    /\ pc' = "ended"
    /\ watchers' = [watchers EXCEPT ![round].state = "corpse"]
    /\ UNCHANGED <<round, turn, parked, queue, message, delivered, told, heard, offLoop>>

\* an interrupt, a spent budget, the safety cap, or a closed channel ends the session
Stop ==
    /\ pc \in {"top", "model", "parked"}
    /\ pc' = "over"
    /\ watchers' = [r \in Rounds |-> NoWatcher]
    /\ UNCHANGED <<round, turn, parked, queue, message, delivered, told, heard, offLoop>>

\* Mutant: the round-long subscription is used, requests of the round included.
RoundBacklog ==
    LET asked == SetToSeq({s \in Steers : "requested" \in told[s]})
    IN  [i \in DOMAIN asked |-> Event("steer", asked[i])]

\* a new subscription starts empty
FreshSubscription == <<>>

\* the parked subscription is made before the sweep
Park ==
    /\ pc = "ended"
    /\ pc' = "sweep"
    /\ parked' = FreshSubscription
    /\ UNCHANGED <<round, turn, watchers, queue, message, delivered, told, heard, offLoop>>

\* Mutants: what the dying watcher accepted is left in the queue; the rest of what the
\* sweep claimed is not put back.
NoOrphans == <<>>
FirstOrphan ==
    Without(SubSeq(queue, 1, IF queue = <<>> THEN 0 ELSE 1), delivered)

\* split_already_delivered_steer_injections over everything claimed
Orphans == Without(queue, delivered)

\* the sweep claims every steer, starts a round with the first, puts the rest back
Sweep ==
    /\ pc = "sweep"
    /\ IF Orphans = <<>>
       THEN pc' = "parked" /\ queue' = <<>> /\ UNCHANGED <<message, told>>
       ELSE /\ pc' = "picked" /\ queue' = Tail(Orphans)
            /\ message' = Head(Orphans)
            /\ Tell(Head(Orphans), "accepted")
    /\ UNCHANGED <<round, turn, watchers, parked, delivered, heard, offLoop>>

\* parked, a steer's request starts a round; a cancel has no reader here
PickSteer ==
    /\ pc = "parked" /\ parked # <<>>
    /\ parked' = Tail(parked)
    /\ LET e == Head(parked)
       IN  IF e.type = "steer"
           THEN /\ pc' = "picked" /\ message' = e.steer
                /\ queue' = Claimed(e.steer)
                /\ Tell(e.steer, "accepted")
           ELSE UNCHANGED <<pc, message, queue, told>>
    /\ UNCHANGED <<round, turn, watchers, delivered, heard, offLoop>>

\* the select is biased: the channel comes last
PickFollowUp ==
    /\ pc = "parked" /\ parked = <<>>
    /\ channel # <<>>
    /\ pc' = "picked"
    /\ message' = Head(channel)
    /\ channel' = Tail(channel)
    /\ UNCHANGED <<round, turn, watchers, parked, queue, delivered, told, heard, fallback,
                   plain, world>>

\* the message enters the conversation and the next round starts; the parked
\* subscription is dropped with what it has not read
StartRound ==
    /\ pc = "picked"
    /\ pc' = "starting"
    /\ round' = round + 1 /\ turn' = 1
    /\ message' = NoSteer
    /\ parked' = <<>>
    /\ queue' = Claimed(message)
    /\ delivered' = delivered \cup ({message} \cap Steers)
    /\ Enters(<<message>>)
    /\ UNCHANGED <<watchers, offLoop>>

LoopStep ==
    \/ Subscribe \/ TurnTop \/ NextTurn \/ EndRound \/ Stop \/ Park \/ Sweep
    \/ PickSteer \/ PickFollowUp \/ StartRound

-----------------------------------------------------------------------------
Next ==
    \/ LoopStep \/ FollowUp
    \/ \E s \in Steers : Steer(s) \/ CancelSteer(s) \/ Retire(s) \/ TimeOut(s)
    \/ \E r \in Rounds : Listen(r) \/ QueueSteer(r) \/ Reap(r) \/ Lag(r)

Spec == Init /\ [][Next]_vars

\* The tasks run and the timer fires.  A round ends some day because its turns are
\* capped; nothing is assumed of the user, or of an idle session's end.
Fairness ==
    /\ WF_vars(LoopStep /\ (pc = "parked" => pc' # "over"))
    /\ \A s \in Steers : WF_vars(Retire(s) \/ TimeOut(s))
    /\ \A r \in Rounds : WF_vars(Listen(r) \/ QueueSteer(r))

FairSpec == Spec /\ Fairness

-----------------------------------------------------------------------------
(* Properties.                                                             *)

Watcher == [state : {"none", "live", "corpse", "dead"},
            inbox : Seq([type : {"steer", "clear"}, steer : Steers]),
            hand  : Steers \cup {NoSteer}]

\* Type invariant.
TypeOK ==
    /\ pc \in {"starting", "top", "model", "ended", "sweep", "parked", "picked", "over"}
    /\ round \in Rounds /\ turn \in 1..MaxTurns
    /\ watchers \in [Rounds -> Watcher]
    /\ parked \in Seq([type : {"steer", "clear"}, steer : Steers])
    /\ queue \in Seq(Steers)
    /\ channel \in Seq(Steers \cup {Plain})
    /\ message \in Steers \cup {Plain, NoSteer}
    /\ delivered \subseteq Steers
    /\ fallback \in [Steers -> {"none", "waiting", "over"}]
    /\ told \in [Steers -> SUBSET {"requested", "clear", "accepted", "queued", "delivered",
                                   "cancelled", "refused"}]
    /\ heard \in [Steers -> Nat]
    /\ plain \in 0..MaxPlain
    /\ world \in Worlds

\* where a steer that has not been heard can still come from
OnItsWay(s) ==
    \/ s \in ToSet(queue) \cup ToSet(channel) \cup {message}
    \/ \E r \in Rounds : watchers[r].hand = s
    \/ fallback[s] = "waiting" /\ ~Acknowledged(s)

\* While the session lives, a steer its user has not cleared is heard or on its way,
\* whichever round died around it, whatever a subscription missed and however late a
\* watcher answered (the sweep, the put-back and the fallback).
NoSteerLost ==
    pc # "over" =>
        \A s \in Steers : /\ "requested" \in told[s]
                          /\ "clear" \notin told[s]
                          /\ heard[s] = 0
                          => OnItsWay(s)

\* A steer enters the conversation once, as long as the fallback's timer does not
\* overtake an answer: the round-end races between watcher, sweep and parked pick-up
\* do not duplicate it (claim_steer_injections, the fresh parked subscription).
HeardOnce == ~world.slow => \A s \in Steers : heard[s] <= 1

\* Under the same condition a clear that was confirmed to the user is true: the text
\* has not been heard and will not be (SteerCancelled in cancel_queued_steers_for_session).
CancelledNeverHeard ==
    ~world.slow => \A s \in Steers : "cancelled" \in told[s] => heard[s] = 0

\* A steer its user does not clear is heard some day if the session lives, also one
\* that fell between two subscriptions; a watcher that stalls past its round may leave
\* it in the queue of an idle session, see the README (spawn_steer_fallback).
EverySteerHeard ==
    \A s \in Steers :
        (~world.stalls /\ "requested" \in told[s])
            ~> (heard[s] > 0 \/ "clear" \in told[s] \/ pc = "over")

\* "nothing pending to clear -- the message already delivered at a model checkpoint"
\* (steering.rs:271): a steer whose clear was refused has been heard, or will be.
RefusedMeansHeard ==
    pc # "over" =>
        \A s \in Steers : "refused" \in told[s] /\ fallback[s] = "over"
            => heard[s] > 0 \/ OnItsWay(s)

\* "The round loop's delivered-id dedup at the orphan sweep is the serialized layer that
\* closes it" (agent_loop.rs:1262): a steer is heard once whatever stalls.
AlwaysHeardOnce == \A s \in Steers : heard[s] <= 1
=============================================================================
