--------------------------- MODULE FilteringProofs ---------------------------
(* What Without keeps: the members, their number of occurrences, their order. *)
EXTENDS Filtering, SequencesExt, FiniteSetTheorems, WellFoundedInduction, TLAPS

\* Counting up from nothing reaches every number: the induction the lemmas use.
LEMMA Climb ==
  ASSUME NEW n \in Nat, NEW P, 0 \in P, \A i \in 1..n : i - 1 \in P => i \in P
  PROVE  0..n \subseteq P
<1> SUFFICES ASSUME NEW m \in 0..n, m \notin P PROVE FALSE
  OBVIOUS
<1> DEFINE S == {i \in 1..n : i \notin P}
           Upto(x) == {y \in S : y <= x}
           T == {Upto(x) : x \in S}
<1>1. IsFiniteSet(1..n)
  BY FS_Interval
<1>2. T \in SUBSET (SUBSET (1..n)) /\ T # {}
  <2>1. m \in S
    OBVIOUS
  <2> QED
    BY <2>1
<1>3. \E A \in T : \A B \in T : ~ (<<B, A>> \in StrictSubsetOrdering(1..n))
  <2>1. IsWellFoundedOn(StrictSubsetOrdering(1..n), SUBSET (1..n))
    BY <1>1, FS_StrictSubsetOrderingWellFounded, FS_FiniteSubsetsOfFinite
  <2> HIDE DEF T
  <2> QED
    BY <1>2, <2>1, WFMin
<1>4. PICK x \in S : \A B \in T : ~ (<<B, Upto(x)>> \in StrictSubsetOrdering(1..n))
  BY <1>3
<1>5. x \in 1..n /\ x \notin P /\ x # 1 /\ x - 1 \in S
  OBVIOUS
<1>6. Upto(x - 1) \in T /\ Upto(x - 1) \in SUBSET (1..n) /\ Upto(x) \in SUBSET (1..n)
  BY <1>5
<1>7. Upto(x - 1) \subseteq Upto(x) /\ x \in Upto(x) /\ x \notin Upto(x - 1)
  BY <1>5
<1> QED
  BY <1>4, <1>6, <1>7 DEF StrictSubsetOrdering

\* The recursion has a solution, so the function is what its equation says.
LEMMA LeftEquation ==
  ASSUME NEW T, NEW s \in Seq(T), NEW S
  PROVE  LeftOfPrefixes(s, S) =
           [n \in 0..Len(s) |-> IF n = 0 THEN <<>>
                                ELSE IF s[n] \in S THEN LeftOfPrefixes(s, S)[n - 1]
                                ELSE Append(LeftOfPrefixes(s, S)[n - 1], s[n])]
<1> DEFINE Step(g, n) == IF n = 0 THEN <<>>
                         ELSE IF s[n] \in S THEN g[n - 1] ELSE Append(g[n - 1], s[n])
           P == {m \in 0..Len(s) : \E g : g = [n \in 0..m |-> Step(g, n)]}
<1>1. Len(s) \in Nat
  OBVIOUS
<1>2. 0 \in P
  <2> DEFINE g == [n \in 0..0 |-> <<>>]
  <2>1. g = [n \in 0..0 |-> Step(g, n)]
    OBVIOUS
  <2> HIDE DEF g
  <2> QED
    BY <1>1, <2>1
<1>3. ASSUME NEW i \in 1..Len(s), i - 1 \in P PROVE i \in P
  <2>1. PICK g : g = [n \in 0..(i - 1) |-> Step(g, n)]
    BY <1>3
  <2> DEFINE h == [n \in 0..i |-> IF n = i THEN Step(g, i) ELSE g[n]]
  <2>2. /\ \A n \in 0..(i - 1) : h[n] = g[n] /\ g[n] = Step(g, n)
        /\ h[i] = Step(g, i)
    <3> HIDE DEF Step
    <3>1. ASSUME NEW n \in 0..(i - 1) PROVE g[n] = Step(g, n)
      BY <2>1, <3>1, Zenon
    <3>2. i \in 0..i /\ h[i] = Step(g, i)
      BY <1>1
    <3>3. ASSUME NEW n \in 0..(i - 1) PROVE h[n] = g[n]
      BY <1>1
    <3> QED
      BY <3>1, <3>2, <3>3
  <2>3. ASSUME NEW n \in 0..i PROVE h[n] = Step(h, n)
    <3>1. n \in 0..(i - 1) \/ n = i
      BY <1>1
    <3>2. h[n] = Step(g, n)
      BY <2>2, <3>1, Zenon
    <3> HIDE DEF h
    <3>3. CASE n = 0
      BY <3>2, <3>3, Zenon
    <3>4. CASE n # 0
      <4>1. n - 1 \in 0..(i - 1)
        BY <1>1, <3>4
      <4>2. h[n - 1] = g[n - 1]
        BY <2>2, <4>1
      <4> QED
        BY <3>2, <4>2, Zenon
    <3> QED
      BY <3>3, <3>4
  <2>4. h = [n \in 0..i |-> h[n]]
    OBVIOUS
  <2> HIDE DEF h
  <2>5. h = [n \in 0..i |-> Step(h, n)]
    BY <2>3, <2>4
  <2>6. i \in 0..Len(s)
    BY <1>1
  <2>7. \E f : f = [n \in 0..i |-> Step(f, n)]
    BY <2>5, Zenon
  <2> HIDE DEF Step
  <2> QED
    BY <2>6, <2>7
<1> HIDE DEF P, Step
<1>4. Len(s) \in P
  <2>1. 0..Len(s) \subseteq P
    BY ONLY <1>1, <1>2, <1>3, Climb
  <2>2. Len(s) \in 0..Len(s)
    BY ONLY <1>1
  <2> QED
    BY ONLY <2>1, <2>2
<1>5. \E g : g = [n \in 0..Len(s) |-> Step(g, n)]
  BY <1>4 DEF P
<1> QED
  BY <1>5 DEF LeftOfPrefixes, Step

\* The function by its two cases.
LEMMA LeftSteps ==
  ASSUME NEW T, NEW s \in Seq(T), NEW S
  PROVE  /\ LeftOfPrefixes(s, S)[0] = <<>>
         /\ \A n \in 1..Len(s) :
              LeftOfPrefixes(s, S)[n] = IF s[n] \in S THEN LeftOfPrefixes(s, S)[n - 1]
                                        ELSE Append(LeftOfPrefixes(s, S)[n - 1], s[n])
<1> DEFINE L == LeftOfPrefixes(s, S)
           Step(n) == IF n = 0 THEN <<>>
                      ELSE IF s[n] \in S THEN L[n - 1] ELSE Append(L[n - 1], s[n])
<1>1. L = [n \in 0..Len(s) |-> Step(n)]
  BY LeftEquation
<1> HIDE DEF L
<1>2. \A n \in 0..Len(s) : L[n] = Step(n)
  BY <1>1, Zenon
<1>3. L[0] = <<>>
  <2>1. 0 \in 0..Len(s)
    OBVIOUS
  <2> QED
    BY <1>2, <2>1, Zenon
<1>4. ASSUME NEW n \in 1..Len(s)
      PROVE  L[n] = IF s[n] \in S THEN L[n - 1] ELSE Append(L[n - 1], s[n])
  <2>1. n \in 0..Len(s) /\ n # 0
    OBVIOUS
  <2> QED
    BY <1>2, <2>1, Zenon
<1> QED
  BY <1>3, <1>4 DEF L

\* q has the members outside S of the first n elements of s, and all of them.
KeepsOthers(q, s, S, n) ==
  /\ \A i \in 1..Len(q) : \E h \in 1..n : q[i] = s[h] /\ s[h] \notin S
  /\ \A h \in 1..n : s[h] \notin S => \E i \in 1..Len(q) : q[i] = s[h]

\* Each prefix is left with its members outside the set, all of them.
LEMMA LeftMembers ==
  ASSUME NEW T, NEW s \in Seq(T), NEW S
  PROVE  \A n \in 0..Len(s) : /\ LeftOfPrefixes(s, S)[n] \in Seq(T)
                              /\ KeepsOthers(LeftOfPrefixes(s, S)[n], s, S, n)
<1> DEFINE L == LeftOfPrefixes(s, S)
           Fine(n) == /\ L[n] \in Seq(T)
                      /\ \A i \in 1..Len(L[n]) : \E h \in 1..n : L[n][i] = s[h] /\ s[h] \notin S
                      /\ \A h \in 1..n : s[h] \notin S => \E i \in 1..Len(L[n]) : L[n][i] = s[h]
           P == {n \in 0..Len(s) : Fine(n)}
<1>0. Len(s) \in Nat /\ \A i \in 1..Len(s) : s[i] \in T
  OBVIOUS
<1>1. /\ L[0] = <<>>
      /\ \A n \in 1..Len(s) : L[n] = IF s[n] \in S THEN L[n - 1] ELSE Append(L[n - 1], s[n])
  BY LeftSteps
<1> HIDE DEF L
<1>2. 0 \in P
  <2>1. L[0] \in Seq(T) /\ Len(L[0]) = 0 /\ 0 \in 0..Len(s)
    BY <1>0, <1>1
  <2> QED
    BY <2>1
<1>3. ASSUME NEW n \in 1..Len(s), n - 1 \in P PROVE n \in P
  <2>1. n - 1 \in 0..Len(s) /\ n \in 0..Len(s) /\ Fine(n - 1)
    BY <1>0, <1>3
  <2>2. CASE s[n] \in S
    <3>1. L[n] = L[n - 1]
      BY <1>1, <2>2
    <3>2. \A i \in 1..Len(L[n]) : \E h \in 1..n : L[n][i] = s[h] /\ s[h] \notin S
      BY <2>1, <3>1
    <3>3. \A h \in 1..n : s[h] \notin S => h \in 1..(n - 1)
      BY <1>0, <2>2
    <3> QED
      BY <2>1, <3>1, <3>2, <3>3
  <2>3. CASE s[n] \notin S
    <3>1. L[n] = Append(L[n - 1], s[n])
      BY <1>1, <2>3
    <3>2. /\ L[n] \in Seq(T) /\ Len(L[n - 1]) \in Nat /\ Len(L[n]) = Len(L[n - 1]) + 1
          /\ \A i \in 1..Len(L[n - 1]) : L[n][i] = L[n - 1][i]
          /\ L[n][Len(L[n])] = s[n]
      BY <1>0, <2>1, <3>1
    <3> HIDE DEF P
    <3>3. ASSUME NEW i \in 1..Len(L[n]) PROVE \E h \in 1..n : L[n][i] = s[h] /\ s[h] \notin S
      <4>1. CASE i = Len(L[n])
        BY <2>3, <3>2, <4>1
      <4>2. CASE i \in 1..Len(L[n - 1])
        BY <2>1, <3>2, <4>2
      <4> QED
        BY <3>2, <4>1, <4>2
    <3>4. ASSUME NEW h \in 1..n, s[h] \notin S PROVE \E i \in 1..Len(L[n]) : L[n][i] = s[h]
      <4>1. CASE h = n
        BY <3>2, <4>1
      <4>2. CASE h \in 1..(n - 1)
        BY <2>1, <3>2, <3>4, <4>2
      <4> QED
        BY <4>1, <4>2
    <3> QED
      BY <2>1, <3>2, <3>3, <3>4 DEF P
  <2> QED
    BY <2>2, <2>3
<1>4. 0..Len(s) \subseteq P
  <2> HIDE DEF P
  <2> QED
    BY <1>0, <1>2, <1>3, Climb
<1> QED
  BY <1>4 DEF L, KeepsOthers

\* Without is a sequence of the members outside the set, and of all of them.
LEMMA WithoutMembers ==
  ASSUME NEW T, NEW s \in Seq(T), NEW S
  PROVE  /\ Without(s, S) \in Seq(T)
         /\ ToSet(Without(s, S)) = ToSet(s) \ S
<1> DEFINE W == Without(s, S)
<1>1. Len(s) \in 0..Len(s) /\ W = LeftOfPrefixes(s, S)[Len(s)]
  BY DEF Without
<1>2. W \in Seq(T) /\ KeepsOthers(W, s, S, Len(s))
  BY <1>1, LeftMembers, Zenon
<1> HIDE DEF W
<1>3. /\ \A x : x \in ToSet(W) <=> \E i \in 1..Len(W) : W[i] = x
      /\ \A x : x \in ToSet(s) <=> \E h \in 1..Len(s) : s[h] = x
  BY <1>2 DEF ToSet
<1>4. ASSUME NEW x PROVE x \in ToSet(W) <=> x \in ToSet(s) /\ x \notin S
  <2>1. ASSUME x \in ToSet(W) PROVE x \in ToSet(s) /\ x \notin S
    <3>1. PICK i \in 1..Len(W) : W[i] = x
      BY <1>3, <2>1
    <3>2. PICK h \in 1..Len(s) : W[i] = s[h] /\ s[h] \notin S
      BY <1>2 DEF KeepsOthers
    <3> QED
      BY ONLY <1>3, <3>1, <3>2
  <2>2. ASSUME x \in ToSet(s), x \notin S PROVE x \in ToSet(W)
    <3>1. PICK h \in 1..Len(s) : s[h] = x
      BY <1>3, <2>2
    <3>2. PICK i \in 1..Len(W) : W[i] = s[h]
      BY <1>2, <2>2, <3>1 DEF KeepsOthers
    <3> QED
      BY ONLY <1>3, <3>1, <3>2
  <2> QED
    BY ONLY <2>1, <2>2
<1> QED
  BY <1>2, <1>4 DEF W

\* What was in the sequence once is not there twice afterwards.
LEMMA WithoutOnce ==
  ASSUME NEW T, NEW s \in Seq(T), NEW S, NEW e, Once(e, s)
  PROVE  Once(e, Without(s, S))
<1> DEFINE L == LeftOfPrefixes(s, S)
           P == {n \in 0..Len(s) : Once(e, L[n])}
<1>0. Len(s) \in Nat /\ \A i \in 1..Len(s) : s[i] \in T
  OBVIOUS
<1>1. /\ L[0] = <<>>
      /\ \A n \in 1..Len(s) : L[n] = IF s[n] \in S THEN L[n - 1] ELSE Append(L[n - 1], s[n])
  BY LeftSteps
<1>2. \A n \in 0..Len(s) : L[n] \in Seq(T) /\ KeepsOthers(L[n], s, S, n)
  BY LeftMembers, Zenon
<1> HIDE DEF L
<1>3. 0 \in P
  BY <1>0, <1>1 DEF Once
<1>4. ASSUME NEW n \in 1..Len(s), n - 1 \in P PROVE n \in P
  <2>1. n - 1 \in 0..Len(s) /\ n \in 0..Len(s) /\ L[n - 1] \in Seq(T) /\ Once(e, L[n - 1])
    BY <1>0, <1>2, <1>4
  <2>2. CASE s[n] \in S
    <3>1. L[n] = L[n - 1]
      BY <1>1, <2>2
    <3> QED
      BY <2>1, <3>1
  <2>3. CASE s[n] \notin S
    <3>1. L[n] = Append(L[n - 1], s[n])
      BY <1>1, <2>3
    <3>2. /\ Len(L[n - 1]) \in Nat /\ Len(L[n]) = Len(L[n - 1]) + 1
          /\ \A i \in 1..Len(L[n - 1]) : L[n][i] = L[n - 1][i]
          /\ L[n][Len(L[n])] = s[n]
      BY <1>0, <2>1, <3>1
    <3>3. ASSUME s[n] = e, NEW i \in 1..Len(L[n - 1])
          PROVE  L[n - 1][i] # e
      <4>1. \E h \in 1..(n - 1) : L[n - 1][i] = s[h]
        BY <1>2, <2>1 DEF KeepsOthers
      <4>2. \A h \in 1..(n - 1) : s[h] # e
        BY <1>0, <3>3 DEF Once
      <4> QED
        BY <4>1, <4>2
    <3>4. ASSUME NEW i \in 1..Len(L[n]), NEW h \in 1..Len(L[n]), L[n][i] = e, L[n][h] = e
          PROVE  i = h
      <4>1. \A k \in 1..Len(L[n]) : k \in 1..Len(L[n - 1]) \/ k = Len(L[n])
        BY <3>2
      <4>2. i \in 1..Len(L[n - 1]) <=> h \in 1..Len(L[n - 1])
        BY <3>2, <3>3, <3>4, <4>1
      <4>3. i \in 1..Len(L[n - 1]) /\ h \in 1..Len(L[n - 1]) => i = h
        BY <2>1, <3>2, <3>4 DEF Once
      <4> QED
        BY <4>1, <4>2, <4>3
    <3>5. Once(e, L[n])
      BY <3>4 DEF Once
    <3> QED
      BY <2>1, <3>5
  <2> QED
    BY <2>2, <2>3
<1>5. Once(e, L[Len(s)])
  <2> HIDE DEF P
  <2>1. 0..Len(s) \subseteq P
    BY <1>0, <1>3, <1>4, Climb
  <2> QED
    BY <1>0, <2>1 DEF P
<1> QED
  BY <1>5 DEF L, Without

\* The members of a sequence over T are in T.
LEMMA SequenceMembers == ASSUME NEW T, NEW s \in Seq(T) PROVE ToSet(s) \subseteq T
<1>1. DOMAIN s = 1..Len(s) /\ \A i \in 1..Len(s) : s[i] \in T
  OBVIOUS
<1> QED
  BY <1>1 DEF ToSet

\* An append adds its element behind the others.
LEMMA BehindMembers ==
  ASSUME NEW T, NEW s \in Seq(T), NEW e \in T
  PROVE  /\ Append(s, e) \in Seq(T)
         /\ ToSet(Append(s, e)) = ToSet(s) \cup {e}
         /\ \A x : Once(x, s) /\ (x = e => e \notin ToSet(s)) => Once(x, Append(s, e))
<1> DEFINE q == Append(s, e)
<1>1. /\ q \in Seq(T) /\ Len(s) \in Nat /\ Len(q) = Len(s) + 1
      /\ \A i \in 1..Len(s) : q[i] = s[i]
      /\ q[Len(s) + 1] = e
      /\ DOMAIN q = 1..Len(q) /\ DOMAIN s = 1..Len(s)
  OBVIOUS
<1> HIDE DEF q
<1>2. \A i \in 1..Len(q) : i \in 1..Len(s) \/ i = Len(s) + 1
  BY <1>1
<1>3. \A x : x \in ToSet(q) <=> x \in ToSet(s) \cup {e}
  BY <1>1, <1>2 DEF ToSet
<1>4. ASSUME NEW x, Once(x, s), x = e => e \notin ToSet(s)
      PROVE  Once(x, q)
  <2> SUFFICES ASSUME NEW i \in 1..Len(q), NEW h \in 1..Len(q), q[i] = x, q[h] = x
               PROVE  i = h
    BY DEF Once
  <2>1. i \in 1..Len(s) <=> h \in 1..Len(s)
    BY <1>1, <1>2, <1>4 DEF ToSet
  <2>2. i \in 1..Len(s) /\ h \in 1..Len(s) => i = h
    BY <1>1, <1>4 DEF Once
  <2> QED
    BY <1>2, <2>1, <2>2
<1> QED
  BY <1>1, <1>3, <1>4 DEF q

\* The head of a sequence and what is behind it.
LEMMA FrontMembers ==
  ASSUME NEW T, NEW s \in Seq(T), s # <<>>
  PROVE  /\ Head(s) \in T /\ Tail(s) \in Seq(T)
         /\ ToSet(s) = {Head(s)} \cup ToSet(Tail(s))
         /\ Once(Head(s), s) => Head(s) \notin ToSet(Tail(s))
         /\ \A x : Once(x, s) => Once(x, Tail(s))
<1> DEFINE q == Tail(s)
<1>1. /\ q \in Seq(T) /\ Len(s) \in Nat \ {0} /\ Len(q) = Len(s) - 1
      /\ \A i \in 1..Len(q) : q[i] = s[i + 1]
      /\ Head(s) = s[1] /\ s[1] \in T
      /\ DOMAIN q = 1..Len(q) /\ DOMAIN s = 1..Len(s)
  OBVIOUS
<1> HIDE DEF q
<1>2. /\ \A i \in 1..Len(s) : i = 1 \/ i - 1 \in 1..Len(q)
      /\ \A i \in 1..Len(q) : i + 1 \in 1..Len(s) /\ i + 1 # 1
  BY <1>1
<1>3. ASSUME NEW x PROVE x \in ToSet(s) <=> x \in {Head(s)} \cup ToSet(q)
  <2>1. ASSUME x \in ToSet(s) PROVE x \in {Head(s)} \cup ToSet(q)
    <3>1. PICK i \in 1..Len(s) : s[i] = x
      BY <1>1, <2>1 DEF ToSet
    <3>2. CASE i # 1
      <4>1. i - 1 \in 1..Len(q) /\ (i - 1) + 1 = i
        BY <1>2, <3>2
      <4>2. q[i - 1] = x
        BY <1>1, <3>1, <4>1
      <4> QED
        BY <1>1, <4>1, <4>2 DEF ToSet
    <3> QED
      BY <1>1, <3>1, <3>2
  <2>2. ASSUME x \in ToSet(q) PROVE x \in ToSet(s)
    BY <1>1, <1>2, <2>2 DEF ToSet
  <2>3. Head(s) \in ToSet(s)
    BY <1>1 DEF ToSet
  <2> QED
    BY <2>1, <2>2, <2>3
<1>4. ASSUME Once(Head(s), s) PROVE Head(s) \notin ToSet(q)
  BY <1>1, <1>2, <1>4 DEF ToSet, Once
<1>5. ASSUME NEW x, Once(x, s) PROVE Once(x, q)
  <2> SUFFICES ASSUME NEW i \in 1..Len(q), NEW h \in 1..Len(q), q[i] = x, q[h] = x
               PROVE  i = h
    BY DEF Once
  <2>1. i + 1 = h + 1
    BY <1>1, <1>2, <1>5 DEF Once
  <2> QED
    BY <2>1
<1> QED
  BY <1>1, <1>3, <1>4, <1>5 DEF q
==============================================================================
