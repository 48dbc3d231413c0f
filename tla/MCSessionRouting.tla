--------------------------- MODULE MCSessionRouting ---------------------------
EXTENDS SessionRouting

CONSTANTS w, t, n, c1, c2, c3, c4

\* w is a wrapper with a log, t the id its backend has; a resume by t alone
\* opens the fresh wrapper n.  All stand for one conversation.
OneConversation == [id \in Ids |-> "first"]
NoIdentity == [id \in Ids |-> NoKey]
Identity == [id \in Ids |-> IF id \in {w, n} THEN t ELSE NoKey]
Logs == [id \in Ids |-> IF id = t /\ n \in Ids THEN n ELSE id]

\* Two full resumes of the conversation and a command by each of its ids.
FullResumes == [c \in Commands |->
  CASE c \in {c1, c2} -> <<w, t>> [] c = c3 -> <<w>> [] c = c4 -> <<t>>]

\* A full resume, one by the token, and a command by each id.
OverlappingResumes == [c \in Commands |->
  CASE c = c1 -> <<w, t>> [] c = c2 -> <<t>> [] c = c3 -> <<w>> [] c = c4 -> <<t>>]

\* A full resume, a command by the wrapper's id and one by the backend's.
BothIds == [c \in Commands |->
  CASE c = c1 -> <<w, t>> [] c = c2 -> <<w>> [] c = c3 -> <<t>>]

RoutingScenarios == {[targets |-> FullResumes, backend |-> NoIdentity],
                     [targets |-> OverlappingResumes, backend |-> Identity]}
IdentityScenarios == {[targets |-> BothIds, backend |-> Identity]}

\* What the theorems of SessionRoutingProofs ask of the scenarios.
ASSUME ScenariosAreCovered == ResumesOverlap /\ OneWrapper
==============================================================================
