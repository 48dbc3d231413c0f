-------------------------------- MODULE Rewind --------------------------------
(***************************************************************************)
(* Rolling a session back (web_gateway/routes_sessions.rs, run_modes.rs):  *)
(* the gateway's handlers look at the agent's phase, read the parameters   *)
(* of the conversation half under the watcher's lock, restore the files    *)
(* under the lock again, and send the conversation half to the agent loop  *)
(* as an event; finished rounds reach the store as events too.             *)
(*                                                                         *)
(* A turn is its number and one message of the conversation.  A round is   *)
(* one turn.  Crashes concern the store (RoundHistory): what a resumed     *)
(* session still remembers is not modelled.                                *)
(***************************************************************************)
EXTENDS RoundHistory, FiniteSetsExt

CONSTANTS
    Clients,        \* requests to the gateway
    MaxTools        \* bound: tool calls in one turn

ASSUME RewindAssumption ==
    \A w \in Worlds : /\ w.backend \in {"native", "codex", "reset"}
                      /\ w.asks \in Nat /\ w.talk \in BOOLEAN

VARIABLES
    conv,           \* the agent's conversation
    turns,          \* turns started so far
    busy,           \* the agent's phase is not idle
    completed,      \* RoundComplete events the watcher's listener has to take
    client,         \* each gateway handler
    requests,       \* ConversationRollbackRequested events in outer_bus_rx
    asked           \* bound: rollbacks and redos asked for so far

talkVars == <<conv, turns, busy, completed>>
gatewayVars == <<client, requests, asked>>
vars == <<storeVars, talkVars, gatewayVars>>

Quiet == [pc |-> "none"]

Init ==
    /\ StoreInit
    /\ conv = <<>> /\ turns = 0 /\ busy = FALSE /\ completed = <<>>
    /\ client = [c \in Clients |-> Quiet]
    /\ requests = <<>> /\ asked = 0

-----------------------------------------------------------------------------
(* The agent's turns and the listener that records them.                   *)

StartTurn ==
    /\ up /\ ~busy /\ turns < MaxId
    /\ busy' = TRUE
    /\ turns' = turns + 1
    /\ conv' = Append(conv, turns + 1)
    /\ UNCHANGED <<storeVars, completed, gatewayVars>>

\* RoundComplete: native loops report the length of the conversation, external
\* drains only how many tools were started
EndTurn(tools) ==
    /\ up /\ busy
    /\ busy' = FALSE
    /\ completed' = Append(completed, [tools |-> tools, said |-> conv])
    /\ UNCHANGED <<storeVars, conv, turns, gatewayVars>>

Record ==
    /\ completed # <<>>
    /\ BeginRecord(Head(completed))
    /\ completed' = Tail(completed)
    /\ UNCHANGED <<conv, turns, busy, gatewayVars>>

\* the agent's own edits, and anybody else's
Edit(f, c) == Work(f, c) /\ UNCHANGED <<talkVars, gatewayVars>>

-----------------------------------------------------------------------------
(* The gateway: handle_history_rollback, handle_history_redo, ..._prune.   *)

\* ensure_idle, once, before any lock is taken
MayAsk(c) ==
    /\ up /\ client[c] = Quiet /\ ~busy
    /\ asked < world.asks /\ asked' = asked + 1

Ask(c, id, files, talk) ==
    /\ MayAsk(c)
    /\ files \/ talk
    /\ talk => world.talk
    /\ client' = [client EXCEPT ![c] =
                     [pc |-> IF talk THEN "params" ELSE "files", id |-> id,
                      files |-> files, request |-> <<>>]]
    /\ UNCHANGED <<storeVars, talkVars, requests>>

\* the rounds after the target up to the head
Undone(id) ==
    {r \in RowsOf(hist) : /\ hist.head \in LinearIds(hist)
                          /\ Position(hist, r.id) > Position(hist, id)
                          /\ Position(hist, r.id) <= Position(hist, hist.head)}

\* Mutant: the count of the message before the target's last.
ShortRequest(id) ==
    [messages |-> Len(RowOf(hist, id).note.said) - 1,
     drop |-> MapThenSumSet(LAMBDA r : r.note.tools, Undone(id)),
     said |-> RowOf(hist, id).note.said]

\* conv_params: the target's message count and the turn counts to drop
Request(id) ==
    [messages |-> Len(RowOf(hist, id).note.said),
     drop |-> MapThenSumSet(LAMBDA r : r.note.tools, Undone(id)),
     said |-> RowOf(hist, id).note.said]

\* the first stretch under the lock; an unknown round is refused
Params(c) ==
    /\ client[c].pc = "params" /\ Free
    /\ client' = [client EXCEPT ![c] =
                     IF @.id \notin LinearIds(hist) THEN Quiet
                     ELSE [@ EXCEPT !.pc = IF client[c].files THEN "files" ELSE "send",
                                    !.request = <<Request(client[c].id)>>]]
    /\ UNCHANGED <<storeVars, talkVars, requests, asked>>

\* the second stretch: the rollback begins, or is refused
RestoreBegins(c) ==
    /\ client[c].pc = "files"
    /\ Rollback(client[c].id)
    /\ client' = [client EXCEPT ![c].pc = "restoring"]
    /\ UNCHANGED <<talkVars, requests, asked>>

RestoreRefused(c) ==
    /\ client[c].pc = "files" /\ Free
    /\ ~(client[c].id \in LinearIds(hist) /\ Resolved(client[c].id) # {})
    /\ client' = [client EXCEPT ![c] = Quiet]
    /\ UNCHANGED <<storeVars, talkVars, requests, asked>>

\* a redo asks for the phase too, then for the lock
RedoAsked(c) ==
    /\ MayAsk(c)
    /\ client' = [client EXCEPT ![c] = [pc |-> "redo"]]
    /\ UNCHANGED <<storeVars, talkVars, requests>>

RedoBegins(c) ==
    /\ client[c].pc = "redo"
    /\ Redo
    /\ client' = [client EXCEPT ![c] = [pc |-> "restoring", request |-> <<>>]]
    /\ UNCHANGED <<talkVars, requests, asked>>

RedoRefused(c) ==
    /\ client[c].pc = "redo" /\ Free
    /\ ~\E r \in RowsOf(hist) : IsNext(r) /\ Resolved(r.id) # {}
    /\ client' = [client EXCEPT ![c] = Quiet]
    /\ UNCHANGED <<storeVars, talkVars, requests, asked>>

Prune == PruneAbandoned /\ UNCHANGED <<talkVars, gatewayVars>>

\* what the restoring handler does once its rollback has returned
Afterwards(next(_)) ==
    client' = [c \in Clients |->
                 IF client[c].pc # "restoring" THEN client[c]
                 ELSE IF client[c].request = <<>> THEN Quiet ELSE next(client[c])]

Persist ==
    /\ PersistHistory
    /\ Afterwards(LAMBDA r : [r EXCEPT !.pc = "send"])
    /\ UNCHANGED <<talkVars, requests, asked>>

\* an error ends the handler before it sends the conversation half
PersistFails ==
    /\ WriteFails
    /\ Afterwards(LAMBDA r : Quiet)
    /\ UNCHANGED <<talkVars, requests, asked>>

Send(c) ==
    /\ client[c].pc = "send"
    /\ requests' = requests \o client[c].request
    /\ client' = [client EXCEPT ![c] = Quiet]
    /\ UNCHANGED <<storeVars, talkVars, asked>>

-----------------------------------------------------------------------------
(* The agent loop takes a request between two tasks.                       *)

Shortened(s, n) == SubSeq(s, 1, IF n < Len(s) THEN n ELSE Len(s))

\* truncate_to; thread/rollback; or a session reset
After(r) ==
    CASE world.backend = "native" -> Shortened(conv, r.messages)
      [] world.backend = "codex"  -> Shortened(conv, IF r.drop < Len(conv) THEN Len(conv) - r.drop ELSE 0)
      [] world.backend = "reset"  -> <<>>

RewindConversation ==
    /\ up /\ ~busy /\ requests # <<>>
    /\ conv' = After(Head(requests))
    /\ requests' = Tail(requests)
    /\ UNCHANGED <<storeVars, turns, busy, completed, client, asked>>

-----------------------------------------------------------------------------

StoreStep ==
    /\ \/ WriteManifest \/ UnderCap \/ DropOldestBranch \/ Settle \/ Boot
       \/ \E f \in Files : RestoreFile(f)
    /\ UNCHANGED <<talkVars, gatewayVars>>

Dies ==
    /\ Crash
    /\ conv' = <<>> /\ busy' = FALSE /\ completed' = <<>>
    /\ client' = [c \in Clients |-> Quiet] /\ requests' = <<>>
    /\ UNCHANGED <<turns, asked>>

Next ==
    \/ StartTurn
    \/ \E tools \in 0..MaxTools : EndTurn(tools)
    \/ Record
    \/ \E f \in Files, c \in Contents \cup {Absent} : Edit(f, c)
    \/ \E c \in Clients, id \in Ids, files, talk \in BOOLEAN : Ask(c, id, files, talk)
    \/ \E c \in Clients : \/ Params(c) \/ RestoreBegins(c) \/ RestoreRefused(c)
                          \/ RedoAsked(c) \/ RedoBegins(c) \/ RedoRefused(c)
                          \/ Send(c)
    \/ Prune
    \/ Persist \/ PersistFails
    \/ RewindConversation
    \/ StoreStep
    \/ Dies

Spec == Init /\ [][Next]_vars

-----------------------------------------------------------------------------
(* Properties.                                                             *)

\* The type of every variable, the store's included.
RewindTypeOK ==
    /\ TypeOK
    /\ conv \in Seq(1..MaxId) /\ turns \in 0..MaxId /\ busy \in BOOLEAN
    /\ completed \in Seq(Notes)
    /\ \A c \in Clients :
          client[c].pc \in {"none", "params", "files", "restoring", "redo", "send"}
    /\ \A i \in DOMAIN requests : requests[i].messages \in Nat /\ requests[i].drop \in Nat

\* Rolling the conversation back to a round never takes away what the round
\* itself had: neither the gap between reading the parameters and restoring, nor
\* another handler's rollback, nor a turn that began meanwhile makes the agent
\* forget a turn of the target ("the number of turns we want to undo").
KeepsTheTargetsTurns ==
    [][world.backend # "reset" /\ requests # <<>> /\ requests' = Tail(requests) /\ up' =>
          \A i \in DOMAIN conv : \A j \in DOMAIN Head(requests).said :
              conv[i] = Head(requests).said[j] => \E k \in DOMAIN conv' : conv'[k] = conv[i]]_vars
=============================================================================
