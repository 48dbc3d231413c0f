--------------------------- MODULE OrderedExecutor ---------------------------
(* What the intake executor promises its callers, stated without locks,       *)
(* workers, permits or reservations: the jobs submitted under one key run     *)
(* strictly in submission order and one at a time; keys are independent.      *)
EXTENDS Naturals, Sequences

CONSTANTS Keys,   \* session keys: one ordered queue each
          Jobs    \* every job anyone may ever submit

VARIABLES pending,   \* key -> the jobs submitted under it whose body is not over
          running,   \* the jobs whose body is executing
          ended      \* the jobs whose body is over

vars == <<pending, running, ended>>

Init == /\ pending = [k \in Keys |-> <<>>]
        /\ running = {}
        /\ ended = {}

Waiting(k) == {pending[k][i] : i \in 1..Len(pending[k])}

\* A job is submitted once, under one key.
Submit(j, k) == /\ j \notin ended
                /\ \A q \in Keys : j \notin Waiting(q)
                /\ pending' = [pending EXCEPT ![k] = Append(@, j)]
                /\ UNCHANGED <<running, ended>>

\* Only the oldest unfinished job of a key may start, once.
Start(k) == /\ pending[k] # <<>>
            /\ Head(pending[k]) \notin running
            /\ running' = running \cup {Head(pending[k])}
            /\ UNCHANGED <<pending, ended>>

\* The body returned or panicked: the next job of the key may start.
End(k) == /\ pending[k] # <<>>
          /\ Head(pending[k]) \in running
          /\ running' = running \ {Head(pending[k])}
          /\ pending' = [pending EXCEPT ![k] = Tail(@)]
          /\ ended' = ended \cup {Head(pending[k])}

Next == \E k \in Keys : (\E j \in Jobs : Submit(j, k)) \/ Start(k) \/ End(k)

Spec == Init /\ [][Next]_vars
==============================================================================
