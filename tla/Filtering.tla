------------------------------ MODULE Filtering ------------------------------
(* A sequence without the members of a set, in its order: what retain, filter *)
(* and partition leave of a queue.  (SelectSeq, as a recursive function of the *)
(* position, which is what the proofs about it climb along.)                  *)
EXTENDS Integers, Sequences

\* what is left of each prefix of s
LeftOfPrefixes(s, S) ==
  LET left[n \in 0..Len(s)] == IF n = 0 THEN <<>>
                               ELSE IF s[n] \in S THEN left[n - 1]
                               ELSE Append(left[n - 1], s[n])
  IN  left

Without(s, S) == LeftOfPrefixes(s, S)[Len(s)]

\* e is in s once at most
Once(e, s) == \A i, j \in 1..Len(s) : s[i] = e /\ s[j] = e => i = j
==============================================================================
