------------------------------ MODULE NfaProofs ------------------------------
(***************************************************************************)
(* Proofs about Nfa: whatever is called in whatever order, the             *)
(* representation of the automaton stays sound and what is seen of it is   *)
(* what TransitionGraph promises.                                          *)
(*                                                                         *)
(* The invariant is that the automaton is sound and within the bound on    *)
(* its states.  The argument goes from the inside out.  Sequences first:   *)
(* insertion at the place that lower_bound() finds keeps a vector ordered, *)
(* and so does filter().  Then a state post, whose moves are what the      *)
(* insertions put there, a delta, whose transitions are the moves of its   *)
(* posts, and an automaton, of which num_of_states() is seen beside the    *)
(* transitions.  Each operation of the code has a lemma that says what it  *)
(* makes of these; where it goes through a container the lemma is about a  *)
(* fold or a recursive function, by induction over finite sets or numbers. *)
(* Languages come last: what the letters of a word lead to, one by one, in *)
(* the automaton that an operation makes is related to the same in those   *)
(* it was given.                                                           *)
(* Each action has one lemma, that it keeps the invariant and is a step of *)
(* the promise or a stutter.                                               *)
(***************************************************************************)
EXTENDS Nfa, AutomataProofs

(* The places of the smaller keys come first.                              *)
LEMMA Below ==
  ASSUME NEW n \in Nat, NEW key \in [1..n -> Nat],
         \A i \in 1..n : \A j \in 1..i-1 : key[j] < key[i], NEW x \in Nat
  PROVE  \E m \in 0..n : /\ Cardinality({i \in 1..n : key[i] < x}) = m
                         /\ \A i \in 1..n : key[i] < x <=> i <= m
<1> DEFINE T == {k \in Nat : \A i \in 1..n : key[i] < x => i <= k}
<1>1. n \in T
  OBVIOUS
<1>2. PICK m \in T : \A k \in T : m <= k
  BY <1>1, LeastNumber, T \in SUBSET Nat
<1>3. m \in 0..n
  BY <1>1, <1>2
<1>4. ASSUME NEW i \in 1..n, i <= m PROVE key[i] < x
  <2>1. m-1 \in Nat /\ m-1 \notin T
    <3>1. m \in Nat /\ m-1 \in Nat /\ ~ (m <= m-1)
      BY <1>3, <1>4
    <3> HIDE DEF T
    <3> QED BY <1>2, <3>1
  <2>2. PICK j \in 1..n : key[j] < x /\ ~ (j <= m-1)
    BY <2>1
  <2>3. j = m
    BY <1>2, <2>2
  <2>4. i = m \/ i \in 1..m-1
    BY <1>3, <1>4
  <2> QED BY <2>2, <2>3, <2>4
<1>5. \A i \in 1..n : key[i] < x <=> i <= m
  BY <1>2, <1>4
<1>6. {i \in 1..n : key[i] < x} = 1..m
  BY <1>3, <1>5
<1>7. Cardinality(1..m) = m
  BY <1>3, FS_Interval
<1> QED BY <1>3, <1>5, <1>6, <1>7

(* InsertAt() makes room at place p and puts x there.                      *)
LEMMA InsertAtPlace ==
  ASSUME NEW S, NEW s \in Seq(S), NEW p \in 1..Len(s)+1, NEW x \in S
  PROVE  /\ InsertAt(s, p, x) \in Seq(S)
         /\ Len(InsertAt(s, p, x)) = Len(s) + 1
         /\ \A i \in 1..Len(s)+1 :
              InsertAt(s, p, x)[i] = IF i < p THEN s[i] ELSE IF i = p THEN x ELSE s[i-1]
<1> DEFINE n == Len(s)
           front == SubSeq(s, 1, p-1)
           back == SubSeq(s, p, n)
<1>1. n \in Nat /\ \A i \in 1..n : s[i] \in S
  BY LenProperties, ElementOfSeq
<1>2. /\ front \in Seq(S) /\ Len(front) = p-1
      /\ \A i \in 1..p-1 : front[i] = s[i]
  <2>1. /\ front \in Seq(S)
        /\ Len(front) = IF 1 <= p-1 THEN p-1-1+1 ELSE 0
        /\ \A i \in 1..p-1-1+1 : front[i] = s[1+i-1]
    BY <1>1, SubSeqProperties
  <2> QED BY <2>1, <1>1
<1>3. /\ back \in Seq(S) /\ Len(back) = n-p+1
      /\ \A i \in 1..n-p+1 : back[i] = s[p+i-1]
  <2>1. /\ back \in Seq(S)
        /\ Len(back) = IF p <= n THEN n-p+1 ELSE 0
        /\ \A i \in 1..n-p+1 : back[i] = s[p+i-1]
    BY <1>1, SubSeqProperties
  <2> QED BY <2>1, <1>1
<1>4. InsertAt(s, p, x) = (front \o <<x>>) \o back
  BY DEF InsertAt
<1> HIDE DEF front, back
<1>5. <<x>> \in Seq(S) /\ Len(<<x>>) = 1 /\ <<x>>[1] = x
  OBVIOUS
<1>6. /\ front \o <<x>> \in Seq(S)
      /\ Len(front \o <<x>>) = p
      /\ \A i \in 1..p : (front \o <<x>>)[i] = IF i < p THEN s[i] ELSE x
  <2>1. /\ front \o <<x>> \in Seq(S)
        /\ Len(front \o <<x>>) = Len(front) + Len(<<x>>)
        /\ \A i \in 1..Len(front)+Len(<<x>>) :
             (front \o <<x>>)[i] = IF i <= Len(front) THEN front[i] ELSE <<x>>[i-Len(front)]
    BY <1>2, <1>5, ConcatProperties
  <2>2. p \in 1..n+1
    OBVIOUS
  <2> HIDE DEF n
  <2>3. p-1 \in Nat /\ p-1+1 = p
    BY <2>2, <1>1
  <2>4. ASSUME NEW i \in 1..p PROVE (front \o <<x>>)[i] = IF i < p THEN s[i] ELSE x
    <3>1. i \in 1..Len(front)+Len(<<x>>)
      BY <2>3, <1>2, <1>5
    <3>2. CASE i < p
      <4>1. i \in 1..p-1
        BY <3>2, <2>3
      <4> QED BY <4>1, <3>1, <3>2, <2>1, <1>2
    <3>3. CASE i = p
      <4>1. ~ (i <= Len(front)) /\ i - Len(front) = 1
        BY <3>3, <2>3, <1>2
      <4>2. (front \o <<x>>)[i] = <<x>>[i-Len(front)]
        BY <4>1, <3>1, <2>1
      <4>3. <<x>>[i-Len(front)] = x
        BY <4>1, <1>5
      <4>4. ~ (i < p)
        BY <3>3, <2>2
      <4> QED BY <4>2, <4>3, <4>4, Zenon
    <3>4. i < p \/ i = p
      BY <1>1, <2>2
    <3> QED BY <3>2, <3>3, <3>4
  <2> QED BY <2>1, <2>3, <2>4, <1>2, <1>5
<1> DEFINE pre == front \o <<x>>
<1>61. pre \in Seq(S)
  BY <1>6
<1> HIDE DEF pre
<1>7. /\ pre \o back \in Seq(S)
      /\ Len(pre \o back) = Len(pre) + Len(back)
      /\ \A i \in 1..Len(pre)+Len(back) :
           (pre \o back)[i] = IF i <= Len(pre) THEN pre[i] ELSE back[i-Len(pre)]
  BY <1>3, <1>61, ConcatProperties
<1>8. InsertAt(s, p, x) = pre \o back
  BY <1>4 DEF pre
<1>9. /\ Len(pre) = p /\ \A i \in 1..p : pre[i] = IF i < p THEN s[i] ELSE x
  BY <1>6 DEF pre
<1>10. p \in 1..n+1
  OBVIOUS
<1> HIDE DEF n
<1>11. Len(pre) + Len(back) = n + 1
  BY <1>1, <1>3, <1>9, <1>10
<1>12. ASSUME NEW i \in 1..n+1
       PROVE (pre \o back)[i] = IF i < p THEN s[i] ELSE IF i = p THEN x ELSE s[i-1]
  <2>1. CASE i <= p
    BY <2>1, <1>1, <1>7, <1>9, <1>10, <1>11
  <2>2. CASE i > p
    <3>1. i-p \in 1..n-p+1 /\ p+(i-p)-1 = i-1
      BY <2>2, <1>1, <1>10
    <3>2. back[i-p] = s[i-1]
      BY <3>1, <1>3
    <3> QED BY <3>2, <2>2, <1>1, <1>7, <1>9, <1>10, <1>11
  <2>3. i <= p \/ i > p
    BY <1>10
  <2> QED BY <2>1, <2>2, <2>3, Zenon
<1> QED BY <1>7, <1>8, <1>11, <1>12 DEF n

(* RemoveAt() closes the gap at place p.                                   *)
LEMMA RemoveAtPlace ==
  ASSUME NEW S, NEW s \in Seq(S), NEW p \in 1..Len(s)
  PROVE  /\ RemoveAt(s, p) \in Seq(S)
         /\ Len(RemoveAt(s, p)) = Len(s) - 1
         /\ \A i \in 1..Len(s)-1 : RemoveAt(s, p)[i] = IF i < p THEN s[i] ELSE s[i+1]
<1> DEFINE n == Len(s)
           front == SubSeq(s, 1, p-1)
           back == SubSeq(s, p+1, n)
<1>1. n \in Nat /\ \A i \in 1..n : s[i] \in S
  BY LenProperties, ElementOfSeq
<1>2. /\ front \in Seq(S) /\ Len(front) = p-1
      /\ \A i \in 1..p-1 : front[i] = s[i]
  <2>1. /\ front \in Seq(S)
        /\ Len(front) = IF 1 <= p-1 THEN p-1-1+1 ELSE 0
        /\ \A i \in 1..p-1-1+1 : front[i] = s[1+i-1]
    BY <1>1, SubSeqProperties
  <2> QED BY <2>1, <1>1
<1>3. /\ back \in Seq(S) /\ Len(back) = n-p
      /\ \A i \in 1..n-p : back[i] = s[p+i]
  <2>1. /\ back \in Seq(S)
        /\ Len(back) = IF p+1 <= n THEN n-(p+1)+1 ELSE 0
        /\ \A i \in 1..n-(p+1)+1 : back[i] = s[p+1+i-1]
    BY <1>1, SubSeqProperties
  <2> QED BY <2>1, <1>1
<1>4. RemoveAt(s, p) = front \o back
  BY DEF RemoveAt
<1> HIDE DEF front, back
<1>5. /\ front \o back \in Seq(S)
      /\ Len(front \o back) = Len(front) + Len(back)
      /\ \A i \in 1..Len(front)+Len(back) :
           (front \o back)[i] = IF i <= Len(front) THEN front[i] ELSE back[i-Len(front)]
  BY <1>2, <1>3, ConcatProperties
<1>6. p \in 1..n
  OBVIOUS
<1> HIDE DEF n
<1>7. Len(front) + Len(back) = n-1
  BY <1>1, <1>2, <1>3, <1>6
<1>8. ASSUME NEW i \in 1..n-1
      PROVE (front \o back)[i] = IF i < p THEN s[i] ELSE s[i+1]
  <2>1. CASE i < p
    BY <2>1, <1>1, <1>2, <1>5, <1>6, <1>7
  <2>2. CASE i >= p
    <3>1. i-(p-1) \in 1..n-p /\ p+(i-(p-1)) = i+1
      BY <2>2, <1>1, <1>6
    <3>2. back[i-(p-1)] = s[i+1]
      BY <3>1, <1>3
    <3> QED BY <3>2, <2>2, <1>1, <1>2, <1>5, <1>6, <1>7
  <2>3. i < p \/ i >= p
    BY <1>6
  <2> QED BY <2>1, <2>2, <2>3, Zenon
<1> QED BY <1>4, <1>5, <1>7, <1>8 DEF n

-----------------------------------------------------------------------------
(* Induction over the subsets of a finite set, one element at a time.      *)
LEMMA SubsetInduction ==
  ASSUME NEW S, IsFiniteSet(S), NEW Good \in SUBSET SUBSET S, {} \in Good,
         \A s \in SUBSET S : s # {} => \E x \in s : s \ {x} \in Good => s \in Good
  PROVE  \A s \in SUBSET S : s \in Good
<1> DEFINE N == Cardinality(S)
           G == {n \in 0..N : \A s \in SUBSET S : Cardinality(s) = n => s \in Good}
<1>1. N \in Nat /\ \A s \in SUBSET S : IsFiniteSet(s) /\ Cardinality(s) \in 0..N
  <2>1. N \in Nat
    BY FS_CardinalityType
  <2>2. ASSUME NEW s \in SUBSET S PROVE IsFiniteSet(s) /\ Cardinality(s) \in 0..N
    BY <2>1, FS_Subset, FS_CardinalityType
  <2> QED BY <2>1, <2>2
<1>2. 0 \in G
  <2>1. \A s \in SUBSET S : Cardinality(s) = 0 => s = {}
    BY <1>1, FS_EmptySet
  <2>2. \A s \in SUBSET S : Cardinality(s) = 0 => s \in Good
    BY <2>1
  <2> HIDE DEF N
  <2> QED BY <2>2, <1>1
<1>3. ASSUME NEW n \in 1..N, n-1 \in G PROVE n \in G
  <2>1. ASSUME NEW s \in SUBSET S, Cardinality(s) = n PROVE s \in Good
    <3>1. s # {}
      BY <2>1, FS_EmptySet
    <3>2. PICK x \in s : s \ {x} \in Good => s \in Good
      BY <3>1
    <3>3. Cardinality(s \ {x}) = n-1 /\ s \ {x} \in SUBSET S
      BY <1>1, <2>1, FS_RemoveElement
    <3>4. s \ {x} \in Good
      BY <1>3, <3>3
    <3> QED BY <3>2, <3>4
  <2> HIDE DEF N
  <2> QED BY <2>1, <1>1
<1>4. \A n \in 0..N : n \in G
  <2>1. G \in SUBSET (0..N)
    OBVIOUS
  <2> HIDE DEF G, N
  <2> QED BY <1>1, <1>2, <1>3, <2>1, UpTo
<1> QED BY <1>1, <1>4

\* pick chooses an element of each subset of S that is not empty, ...
IsPick(pick, S) == \A s \in SUBSET S : s # {} => pick[s] \in s

\* ... and step[x] maps U into itself.
StepsOver(step, S, U) == \A x \in S : \A u \in U : step[x][u] \in U

\* g is what taking a step for each element gives, the picked element last.
IsFold(g, S, U, start, step, pick) ==
  /\ g \in [SUBSET S -> U]
  /\ g[{}] = start
  /\ \A s \in SUBSET S : s # {} => g[s] = step[pick[s]][g[s \ {pick[s]}]]

(* A fold over a finite set has a meaning.                                 *)
LEMMA FoldExists ==
  ASSUME NEW S, IsFiniteSet(S), NEW U, NEW start \in U, NEW step, NEW pick,
         StepsOver(step, S, U), IsPick(pick, S)
  PROVE  \E g : IsFold(g, S, U, start, step, pick)
<1> USE DEF StepsOver, IsPick
<1> DEFINE N == Cardinality(S)
           Small(n) == {s \in SUBSET S : Cardinality(s) <= n}
           value(g, s) == IF s = {} THEN start ELSE step[pick[s]][g[s \ {pick[s]}]]
           IsRun(g, n) == \A s \in Small(n) : g[s] = value(g, s)
           Good == {n \in 0..N : \E g \in [Small(n) -> U] : IsRun(g, n)}
<1>1. N \in Nat /\ \A s \in SUBSET S : IsFiniteSet(s) /\ Cardinality(s) \in 0..N
  <2>1. N \in Nat
    BY FS_CardinalityType
  <2>2. ASSUME NEW s \in SUBSET S PROVE IsFiniteSet(s) /\ Cardinality(s) \in 0..N
    BY <2>1, FS_Subset, FS_CardinalityType
  <2> QED BY <2>1, <2>2
<1>2. ASSUME NEW s \in SUBSET S, s # {}
      PROVE  /\ s \ {pick[s]} \in SUBSET S
             /\ Cardinality(s) \in Nat \ {0}
             /\ Cardinality(s \ {pick[s]}) = Cardinality(s) - 1
  <2>1. IsFiniteSet(s) /\ pick[s] \in s
    BY <1>1, <1>2
  <2>2. Cardinality(s) # 0
    BY <2>1, <1>2, FS_EmptySet
  <2> QED BY <1>1, <2>1, <2>2, FS_RemoveElement
<1>3. 0 \in Good
  <2>1. \A s \in Small(0) : s = {}
    BY <1>1, FS_EmptySet
  <2> DEFINE g == [s \in Small(0) |-> start]
  <2>2. g \in [Small(0) -> U] /\ 0 \in 0..N
    BY <1>1
  <2>3. IsRun(g, 0)
    BY <2>1
  <2> HIDE DEF IsRun, g, Small, N
  <2> QED BY <2>2, <2>3
<1>4. ASSUME NEW n \in 1..N, n-1 \in Good PROVE n \in Good
  <2>1. PICK g \in [Small(n-1) -> U] : IsRun(g, n-1)
    BY <1>4
  <2> DEFINE h == [s \in Small(n) |-> value(g, s)]
  <2>2. ASSUME NEW s \in Small(n), s # {}
        PROVE  s \ {pick[s]} \in Small(n-1) /\ s \in SUBSET S /\ pick[s] \in S
    <3>1. s \in SUBSET S /\ Cardinality(s) <= n /\ n \in Nat
      BY <1>1
    <3> HIDE DEF N
    <3> QED BY <2>2, <3>1, <1>2
  <2>3. h \in [Small(n) -> U]
    <3>1. ASSUME NEW s \in Small(n) PROVE value(g, s) \in U
      <4>1. CASE s = {}
        BY <4>1
      <4>2. CASE s # {}
        <5>1. g[s \ {pick[s]}] \in U
          BY <2>1, <2>2, <4>2
        <5>2. step[pick[s]][g[s \ {pick[s]}]] \in U
          BY <2>2, <4>2, <5>1
        <5> QED BY <4>2, <5>2
      <4> QED BY <4>1, <4>2
    <3> HIDE DEF Small, value
    <3> QED BY <3>1
  <2>4. \A s \in Small(n-1) : s \in Small(n) /\ h[s] = g[s]
    <3>1. \A s \in Small(n-1) : s \in Small(n)
      BY <1>1
    <3>2. \A s \in Small(n-1) : g[s] = value(g, s)
      BY <2>1
    <3> HIDE DEF Small, value
    <3> QED BY <3>1, <3>2
  <2>5. ASSUME NEW s \in Small(n) PROVE h[s] = value(h, s)
    <3>1. h[s] = value(g, s)
      <4> HIDE DEF Small, value
      <4> QED OBVIOUS
    <3>2. CASE s = {}
      BY <3>1, <3>2
    <3>3. CASE s # {}
      <4>1. h[s \ {pick[s]}] = g[s \ {pick[s]}]
        BY <2>2, <2>4, <3>3
      <4> HIDE DEF h
      <4> QED BY <3>1, <3>3, <4>1
    <3> QED BY <3>2, <3>3
  <2> HIDE DEF h, Small, N, value
  <2> QED BY <2>3, <2>5
<1>5. N \in Good
  <2>1. Good \in SUBSET (0..N)
    OBVIOUS
  <2> HIDE DEF Good, N
  <2>2. \A n \in 0..N : n \in Good
    BY <1>1, <1>3, <1>4, <2>1, UpTo
  <2> QED BY <1>1, <2>2
<1>6. PICK g \in [Small(N) -> U] : IsRun(g, N)
  BY <1>5
<1>7. Small(N) = SUBSET S
  BY <1>1
<1>8. g[{}] = start
  <2>1. {} \in Small(N)
    BY <1>7
  <2> QED BY <1>6, <2>1
<1>9. ASSUME NEW s \in SUBSET S, s # {} PROVE g[s] = step[pick[s]][g[s \ {pick[s]}]]
  <2>1. g[s] = value(g, s)
    BY <1>6, <1>7
  <2> QED BY <2>1, <1>9
<1>10. g \in [SUBSET S -> U]
  BY <1>6, <1>7
<1> HIDE DEF Small, value, N, IsRun, Good
<1> QED BY <1>8, <1>9, <1>10 DEF IsFold

\* FoldLeft() takes the last place last.
LastPlace(n) == [s \in SUBSET (1..n) |-> Max(s)]

(* A fold over the places of a list takes them in order.                   *)
LEMMA FoldOverList ==
  ASSUME NEW n \in Nat, NEW U, NEW start \in U, NEW step, Steps(step, n, U)
  PROVE  \E g : /\ IsFold(g, 1..n, U, start, step, LastPlace(n))
                /\ IsPick(LastPlace(n), 1..n)
                /\ \E layer : /\ IsIteration(layer, n, U, start, step)
                              /\ g[1..n] = layer[n]
<1> DEFINE pick == [s \in SUBSET (1..n) |-> Max(s)]
<1>1. IsFiniteSet(1..n)
  BY FS_Interval
<1>2. ASSUME NEW s \in SUBSET (1..n), s # {}
      PROVE  pick[s] \in s /\ \A x \in s : x <= pick[s]
  <2>1. \E m \in s : \A x \in s : m >= x
    <3> DEFINE T == {n - x : x \in s}
    <3>0. \A x \in s : n - x \in Nat
      BY <1>2
    <3>1. T \in SUBSET Nat /\ T # {}
      BY <1>2, <3>0
    <3>2. PICK t \in T : \A u \in T : t <= u
      BY <3>1, LeastNumber
    <3>3. PICK m \in s : t = n - m
      BY <3>2
    <3>4. \A x \in s : n - m <= n - x
      BY <3>2, <3>3
    <3> QED BY <3>4
  <2>2. Max(s) \in s /\ \A x \in s : Max(s) >= x
    BY <2>1 DEF Max
  <2> QED BY <2>2
<1> HIDE DEF pick
<1>3. PICK g : IsFold(g, 1..n, U, start, step, pick)
  <2>1. IsPick(pick, 1..n)
    BY <1>2 DEF IsPick
  <2>2. StepsOver(step, 1..n, U)
    BY DEF Steps, StepsOver
  <2> DEFINE D == 1..n
  <2>3. IsPick(pick, D) /\ StepsOver(step, D, U) /\ IsFiniteSet(D)
    BY <1>1, <2>1, <2>2
  <2> HIDE DEF D
  <2>4. \E f : IsFold(f, D, U, start, step, pick)
    BY <2>3, FoldExists
  <2> QED BY <2>4 DEF D
<1> DEFINE layer == [i \in 0..n |-> g[1..i]]
<1>4. /\ g \in [SUBSET (1..n) -> U] /\ g[{}] = start
      /\ \A s \in SUBSET (1..n) : s # {} => g[s] = step[pick[s]][g[s \ {pick[s]}]]
  BY <1>3 DEF IsFold
<1>5. \A i \in 0..n : 1..i \in SUBSET (1..n)
  OBVIOUS
<1>6. layer \in [0..n -> U]
  BY <1>4, <1>5
<1>7. layer[0] = start
  <2>1. 1..0 = {} /\ 0 \in 0..n
    OBVIOUS
  <2> QED BY <2>1, <1>4
<1>8. ASSUME NEW i \in 1..n PROVE layer[i] = step[i][layer[i-1]]
  <2>1. 1..i \in SUBSET (1..n) /\ 1..i # {} /\ i \in 1..i
    OBVIOUS
  <2>2. pick[1..i] \in 1..i /\ i <= pick[1..i]
    BY <1>2, <2>1
  <2>3. pick[1..i] = i
    BY <2>2
  <2>4. (1..i) \ {i} = 1..i-1
    OBVIOUS
  <2>5. g[1..i] = step[i][g[1..i-1]]
    BY <1>4, <2>1, <2>3, <2>4
  <2>6. i \in 0..n /\ i-1 \in 0..n
    OBVIOUS
  <2> QED BY <2>5, <2>6
<1>9. layer[n] = g[1..n]
  OBVIOUS
<1> HIDE DEF layer
<1>10. IsIteration(layer, n, U, start, step)
  BY <1>6, <1>7, <1>8 DEF IsIteration
<1>11. IsPick(pick, 1..n)
  BY <1>2 DEF IsPick
<1>12. pick = LastPlace(n)
  BY DEF pick, LastPlace
<1> QED BY <1>3, <1>9, <1>10, <1>11, <1>12

\* r takes the steps of the fold as far as it stays in U.
Follows(r, S, U, start, step, pick) ==
  /\ r[{}] = start
  /\ \A s \in SUBSET S : s # {} /\ r[s \ {pick[s]}] \in U =>
                           r[s] = step[pick[s]][r[s \ {pick[s]}]]

(* A fold is the only function that takes those steps.                     *)
LEMMA FoldUnique ==
  ASSUME NEW S, IsFiniteSet(S), NEW U, NEW start, NEW step, NEW pick, NEW g,
         IsFold(g, S, U, start, step, pick),
         IsPick(pick, S), NEW r, Follows(r, S, U, start, step, pick)
  PROVE  \A s \in SUBSET S : r[s] = g[s]
<1> USE DEF IsPick, Follows
<1> DEFINE Good == {s \in SUBSET S : r[s] = g[s]}
<1>1. {} \in Good
  BY DEF IsFold
<1>2. ASSUME NEW s \in SUBSET S, s # {}, s \ {pick[s]} \in Good PROVE s \in Good
  BY <1>2 DEF IsFold
<1>3. \A s \in SUBSET S : s \in Good
  <2>1. Good \in SUBSET SUBSET S
    OBVIOUS
  <2> HIDE DEF Good
  <2>2. \A s \in SUBSET S : s # {} => \E x \in s : s \ {x} \in Good => s \in Good
    BY <1>2
  <2> QED BY <1>1, <2>1, <2>2, SubsetInduction
<1> QED BY <1>3

-----------------------------------------------------------------------------
(* Ordered vectors.                                                        *)
OrdVector == {s \in Seq(Nat) : Ascending(s)}

(* What is known of any sequence: its elements and its range.              *)
LEMMA RangeOf ==
  ASSUME NEW T, NEW s \in Seq(T)
  PROVE  /\ Range(s) = {s[i] : i \in 1..Len(s)}
         /\ Range(s) \subseteq T
         /\ Len(s) \in Nat
         /\ \A i \in 1..Len(s) : s[i] \in T
         /\ s # << >> <=> Len(s) # 0
<1>1. Len(s) \in Nat /\ DOMAIN s = 1..Len(s) /\ \A i \in 1..Len(s) : s[i] \in T
  BY LenProperties, ElementOfSeq
<1>2. Range(s) = {s[i] : i \in 1..Len(s)}
  BY <1>1 DEF Range
<1> QED BY <1>1, <1>2, EmptySeq

(* An ordered vector stays ordered when a larger number is appended.       *)
LEMMA AscendingAppend ==
  ASSUME NEW s \in OrdVector, NEW x \in Nat, \A y \in Range(s) : y < x
  PROVE  Append(s, x) \in OrdVector
<1>1. s \in Seq(Nat) /\ Ascending(s)
  BY DEF OrdVector
<1>2. /\ Append(s, x) \in Seq(Nat) /\ Len(Append(s, x)) = Len(s) + 1
      /\ \A i \in 1..Len(s) : Append(s, x)[i] = s[i]
      /\ Append(s, x)[Len(s)+1] = x
  BY <1>1, AppendTo
<1>3. Len(s) \in Nat /\ \A i \in 1..Len(s) : s[i] \in Range(s)
  BY <1>1, RangeOf
<1>4. ASSUME NEW i \in 1..Len(s)+1, NEW j \in 1..i-1
      PROVE  Append(s, x)[j] < Append(s, x)[i]
  <2>1. j \in 1..Len(s)
    BY <1>3
  <2>2. CASE i \in 1..Len(s)
    BY <2>1, <2>2, <1>1, <1>2 DEF Ascending
  <2>3. CASE i = Len(s)+1
    BY <2>1, <2>3, <1>2, <1>3
  <2> QED BY <2>2, <2>3, <1>3
<1> QED BY <1>2, <1>4 DEF OrdVector, Ascending

(* filter() goes through the sequence once: g[i] is what it keeps of the   *)
(* first i elements.                                                       *)
LEMMA FilterLayers ==
  ASSUME NEW T, NEW s \in Seq(T), NEW S
  PROVE  \E g : /\ g \in [0..Len(s) -> Seq(T)] /\ g[0] = << >>
                /\ \A i \in 1..Len(s) :
                     g[i] = IF s[i] \in S THEN Append(g[i-1], s[i]) ELSE g[i-1]
                /\ filter(s, S) = g[Len(s)]
<1> DEFINE n == Len(s)
           Next1(i, u) == IF s[i] \in S THEN Append(u, s[i]) ELSE u
           step == [i \in 1..n |-> [u \in Seq(T) |-> Next1(i, u)]]
           IsRun(g) == g = [i \in 0..n |-> IF i = 0 THEN << >> ELSE Next1(i, g[i-1])]
           r == CHOOSE g : IsRun(g)
<1>1. n \in Nat /\ \A i \in 1..n : s[i] \in T
  BY RangeOf
<1>2. \A i \in 1..n : \A u \in Seq(T) : Next1(i, u) \in Seq(T)
  BY <1>1, AppendProperties
<1>3. \A i \in 1..n : \A u \in Seq(T) : step[i][u] = Next1(i, u)
  OBVIOUS
<1>4. << >> \in Seq(T)
  OBVIOUS
<1> HIDE DEF n, step, Next1
<1>5. PICK g : IsIteration(g, n, Seq(T), << >>, step)
  BY <1>1, <1>2, <1>3, <1>4, Iteration DEF Steps
<1>6. /\ g \in [0..n -> Seq(T)] /\ g[0] = << >>
      /\ \A i \in 1..n : g[i] = Next1(i, g[i-1])
  <2>1. /\ g \in [0..n -> Seq(T)] /\ g[0] = << >>
        /\ \A i \in 1..n : g[i] = step[i][g[i-1]]
    BY <1>5 DEF IsIteration
  <2>2. \A i \in 1..n : i-1 \in 0..n
    BY <1>1
  <2> QED BY <2>1, <2>2, <1>3
<1>7. IsRun(g)
  <2>1. \A i \in 0..n : i = 0 \/ i \in 1..n
    BY <1>1
  <2>2. \A i \in 0..n : g[i] = IF i = 0 THEN << >> ELSE Next1(i, g[i-1])
    BY <1>6, <2>1
  <2> QED BY <1>6, <2>2
<1>8. IsRun(r)
  BY <1>7
<1>9. filter(s, S) = r[n]
  BY DEF filter, n, Next1
<1>10. \A f : IsRun(f) => /\ f[0] = << >>
                          /\ \A i \in 1..n : f[i] = Next1(i, f[i-1])
  <2>1. \A i \in 1..n : i \in 0..n /\ i # 0
    BY <1>1
  <2>2. 0 \in 0..n
    BY <1>1
  <2> QED BY <2>1, <2>2
<1> HIDE DEF r
<1>11. r[0] = << >> /\ \A i \in 1..n : r[i] = Next1(i, r[i-1])
  BY <1>8, <1>10
<1> DEFINE Good == {i \in 0..n : r[i] = g[i]}
<1>12. \A i \in 0..n : i \in Good
  <2>1. 0 \in Good
    BY <1>1, <1>6, <1>11
  <2>2. \A i \in 1..n : i-1 \in Good => i \in Good
    BY <1>1, <1>6, <1>11
  <2>3. Good \in SUBSET (0..n)
    OBVIOUS
  <2> HIDE DEF Good
  <2> QED BY <1>1, <2>1, <2>2, <2>3, UpTo
<1>13. r[n] = g[n]
  BY <1>1, <1>12
<1> QED BY <1>6, <1>9, <1>13 DEF n, Next1

(* Of an ordered vector, filter() keeps the elements in the set.           *)
LEMMA FilterOrdered ==
  ASSUME NEW s \in OrdVector, NEW S
  PROVE  filter(s, S) \in OrdVector /\ Range(filter(s, S)) = Range(s) \cap S
<1> DEFINE n == Len(s)
<1>1. s \in Seq(Nat) /\ Ascending(s)
  BY DEF OrdVector
<1>2. n \in Nat /\ (\A i \in 1..n : s[i] \in Nat) /\ Range(s) = {s[i] : i \in 1..n}
  BY <1>1, RangeOf
<1>3. PICK g : /\ g \in [0..n -> Seq(Nat)] /\ g[0] = << >>
               /\ \A i \in 1..n :
                    g[i] = IF s[i] \in S THEN Append(g[i-1], s[i]) ELSE g[i-1]
               /\ filter(s, S) = g[n]
  <2> DEFINE T == Nat
  <2>1. s \in Seq(T)
    BY <1>1
  <2> HIDE DEF T
  <2>2. \E g : /\ g \in [0..n -> Seq(T)] /\ g[0] = << >>
               /\ \A i \in 1..n :
                    g[i] = IF s[i] \in S THEN Append(g[i-1], s[i]) ELSE g[i-1]
               /\ filter(s, S) = g[n]
    BY <2>1, FilterLayers
  <2> QED BY <2>2 DEF T
<1>4. \A i \in 1..n : \A j \in 1..i-1 : s[j] < s[i]
  BY <1>1 DEF Ascending
<1> HIDE DEF n
<1> DEFINE Good == {i \in 0..n : g[i] \in OrdVector /\ Range(g[i]) = {s[j] : j \in 1..i} \cap S}
<1>5. 0 \in Good
  <2>1. << >> \in OrdVector /\ Range(<< >>) = {}
    BY DEF OrdVector, Ascending, Range
  <2> QED BY <2>1, <1>2, <1>3
<1>6. ASSUME NEW i \in 1..n, i-1 \in Good PROVE i \in Good
  <2>1. g[i-1] \in OrdVector /\ Range(g[i-1]) = {s[j] : j \in 1..i-1} \cap S
    BY <1>6
  <2>2. {s[j] : j \in 1..i} = {s[j] : j \in 1..i-1} \cup {s[i]}
    <3>1. 1..i = (1..i-1) \cup {i}
      BY <1>2
    <3> QED BY <3>1
  <2>3. i \in 0..n
    BY <1>2
  <2>4. CASE s[i] \in S
    <3>1. g[i] = Append(g[i-1], s[i]) /\ s[i] \in Nat
      BY <1>2, <1>3, <2>4
    <3>2. \A y \in Range(g[i-1]) : y < s[i]
      BY <1>4, <2>1
    <3>3. g[i] \in OrdVector
      BY <2>1, <3>1, <3>2, AscendingAppend
    <3>4. Range(g[i]) = Range(g[i-1]) \cup {s[i]}
      <4>1. g[i-1] \in Seq(Nat)
        BY <2>1 DEF OrdVector
      <4> DEFINE T == Nat
      <4>2. g[i-1] \in Seq(T) /\ s[i] \in T
        BY <3>1, <4>1
      <4> HIDE DEF T
      <4> QED BY <4>2, <3>1, AppendTo
    <3> QED BY <2>1, <2>2, <2>3, <2>4, <3>3, <3>4
  <2>5. CASE s[i] \notin S
    BY <1>3, <2>1, <2>2, <2>3, <2>5
  <2> QED BY <2>4, <2>5
<1>7. \A i \in 0..n : i \in Good
  <2>1. Good \in SUBSET (0..n)
    OBVIOUS
  <2> HIDE DEF Good
  <2> QED BY <1>2, <1>5, <1>6, <2>1, UpTo
<1>8. n \in Good
  BY <1>2, <1>7
<1> QED BY <1>2, <1>3, <1>8

-----------------------------------------------------------------------------
(* lower_bound() is the first place whose element is not smaller than x.   *)
LEMMA LowerBound ==
  ASSUME NEW s \in OrdVector, NEW x \in Nat
  PROVE  /\ lower_bound(s, x) \in 1..Len(s)+1
         /\ \A i \in 1..Len(s) : s[i] < x <=> i < lower_bound(s, x)
<1>1. s \in Seq(Nat) /\ Ascending(s)
  BY DEF OrdVector
<1>2. Len(s) \in Nat /\ s \in [1..Len(s) -> Nat]
  BY <1>1, LenProperties
<1>3. PICK m \in 0..Len(s) : /\ Cardinality({i \in 1..Len(s) : s[i] < x}) = m
                             /\ \A i \in 1..Len(s) : s[i] < x <=> i <= m
  BY <1>1, <1>2, Below DEF Ascending
<1>4. lower_bound(s, x) = m + 1
  BY <1>3 DEF lower_bound
<1> QED BY <1>2, <1>3, <1>4

(* An inserted element is there, once, beside those that were.             *)
LEMMA InsertTarget ==
  ASSUME NEW s \in OrdVector, NEW q \in Nat
  PROVE  /\ insert_target(s, q) \in OrdVector
         /\ Range(insert_target(s, q)) = Range(s) \cup {q}
<1> DEFINE p == lower_bound(s, q)
           r == InsertAt(s, p, q)
<1>1. s \in Seq(Nat) /\ (\A i \in 1..Len(s) : \A j \in 1..i-1 : s[j] < s[i])
  BY DEF OrdVector, Ascending
<1>2. Len(s) \in Nat /\ (\A i \in 1..Len(s) : s[i] \in Nat) /\ Range(s) = {s[i] : i \in 1..Len(s)}
  BY <1>1, RangeOf
<1>3. p \in 1..Len(s)+1 /\ \A i \in 1..Len(s) : s[i] < q <=> i < p
  BY LowerBound
<1>4. insert_target(s, q) = IF p <= Len(s) /\ s[p] = q THEN s ELSE r
  BY DEF insert_target
<1> HIDE DEF p
<1>5. CASE p <= Len(s) /\ s[p] = q
  <2>1. p \in 1..Len(s)
    BY <1>2, <1>3, <1>5
  <2>2. q \in Range(s)
    BY <1>2, <1>5, <2>1
  <2> QED BY <1>4, <1>5, <2>2
<1>6. CASE ~ (p <= Len(s) /\ s[p] = q)
  <2>1. /\ r \in Seq(Nat) /\ Len(r) = Len(s) + 1
        /\ \A i \in 1..Len(s)+1 : r[i] = IF i < p THEN s[i] ELSE IF i = p THEN q ELSE s[i-1]
    <3> DEFINE T == Nat
    <3>1. s \in Seq(T) /\ q \in T
      BY <1>1
    <3> HIDE DEF T
    <3>2. /\ r \in Seq(T) /\ Len(r) = Len(s) + 1
          /\ \A i \in 1..Len(s)+1 : r[i] = IF i < p THEN s[i] ELSE IF i = p THEN q ELSE s[i-1]
      BY <1>3, <3>1, InsertAtPlace
    <3> QED BY <3>2 DEF T
  <2> HIDE DEF r
  <2>2. \A i \in 1..Len(s) : i >= p => s[i] > q
    <3>1. ASSUME NEW i \in 1..Len(s), i >= p PROVE s[i] > q
      <4>1. ~ (s[i] < q)
        BY <1>2, <1>3, <3>1
      <4>2. CASE i = p
        BY <4>1, <4>2, <1>2, <1>6
      <4>3. CASE i > p
        <5>1. p \in 1..Len(s) /\ p \in 1..i-1
          BY <1>2, <1>3, <4>3
        <5>2. s[p] < s[i] /\ ~ (s[p] < q)
          BY <1>1, <1>3, <5>1
        <5> QED BY <5>1, <5>2, <1>2
      <4> QED BY <4>2, <4>3, <3>1, <1>3
    <3> QED BY <3>1
  <2>3. ASSUME NEW i \in 1..Len(s)+1, NEW j \in 1..i-1 PROVE r[j] < r[i]
    <3>1. j \in 1..Len(s)+1 /\ j \in 1..Len(s)
      BY <1>2
    <3>2. CASE i < p
      <4>1. i \in 1..Len(s) /\ j < p
        BY <3>2, <1>2, <1>3
      <4> QED BY <4>1, <3>1, <3>2, <2>1, <1>1
    <3>3. CASE i = p
      <4>1. j < p
        BY <3>3, <1>3
      <4>2. r[i] = q /\ r[j] = s[j]
        BY <4>1, <3>1, <3>3, <2>1
      <4> QED BY <4>1, <4>2, <3>1, <1>3
    <3>4. CASE i > p
      <4>1. i-1 \in 1..Len(s) /\ i-1 >= p
        BY <3>4, <1>2, <1>3
      <4>2. r[i] = s[i-1]
        BY <3>4, <2>1, <1>3
      <4>3. CASE j < p
        <5>1. r[j] = s[j] /\ s[j] < q /\ s[i-1] > q
          BY <4>1, <4>3, <3>1, <2>1, <2>2, <1>3
        <5> QED BY <5>1, <4>1, <4>2, <3>1, <1>2
      <4>4. CASE j = p
        <5>1. r[j] = q /\ s[i-1] > q
          BY <4>1, <4>4, <3>1, <2>1, <2>2
        <5> QED BY <5>1, <4>1, <4>2, <1>2
      <4>5. CASE j > p
        <5>1. r[j] = s[j-1]
          BY <4>5, <3>1, <2>1, <1>3
        <5>2. j-1 \in 1..(i-1)-1
          BY <4>5, <1>3
        <5> QED BY <5>1, <5>2, <4>1, <4>2, <1>1
      <4> QED BY <4>3, <4>4, <4>5, <1>3
    <3> QED BY <3>2, <3>3, <3>4, <1>3
  <2>4. r \in OrdVector
    BY <2>1, <2>3 DEF OrdVector, Ascending
  <2>5. Range(r) = {r[i] : i \in 1..Len(s)+1}
    BY <2>1, RangeOf
  <2>6. ASSUME NEW i \in 1..Len(s)+1 PROVE r[i] \in Range(s) \cup {q}
    <3>1. i < p => i \in 1..Len(s)
      BY <1>2, <1>3
    <3>2. i > p => i-1 \in 1..Len(s)
      BY <1>2, <1>3
    <3>3. i < p \/ i = p \/ i > p
      BY <1>3
    <3> QED BY <3>1, <3>2, <3>3, <2>1, <1>2
  <2>7. q \in Range(r)
    <3>1. r[p] = q
      BY <2>1, <1>3
    <3> QED BY <3>1, <2>5, <1>3
  <2>8. ASSUME NEW i \in 1..Len(s) PROVE s[i] \in Range(r)
    <3>1. CASE i < p
      <4>1. i \in 1..Len(s)+1 /\ r[i] = s[i]
        BY <3>1, <2>1, <1>2
      <4> QED BY <4>1, <2>5
    <3>2. CASE i >= p
      <4>1. i+1 \in 1..Len(s)+1 /\ ~ (i+1 < p) /\ i+1 # p /\ (i+1)-1 = i
        BY <3>2, <1>2, <1>3
      <4>2. r[i+1] = s[i]
        BY <4>1, <2>1
      <4> QED BY <4>1, <4>2, <2>5
    <3> QED BY <3>1, <3>2, <1>3
  <2>9. Range(r) = Range(s) \cup {q}
    BY <2>5, <2>6, <2>7, <2>8, <1>2
  <2> QED BY <1>4, <1>6, <2>4, <2>9 DEF r
<1> QED BY <1>5, <1>6

(* Inserting many one by one leaves all of them and those that were there. *)
LEMMA InsertTargets ==
  ASSUME NEW s \in OrdVector, NEW more \in Seq(Nat)
  PROVE  /\ insert_targets(s, more) \in OrdVector
         /\ Range(insert_targets(s, more)) = Range(s) \cup Range(more)
<1> DEFINE n == Len(more)
           pick == LastPlace(n)
           step == [i \in 1..n |-> [t \in OrdVector |-> insert_target(t, more[i])]]
           IsRun(g) == g = [S \in SUBSET (1..n) |-> IF S = {} THEN s
                              ELSE insert_target(g[S \ {Max(S)}], more[Max(S)])]
           r == CHOOSE g : IsRun(g)
<1>1. n \in Nat /\ DOMAIN more = 1..n /\ (\A i \in 1..n : more[i] \in Nat)
      /\ Range(more) = {more[i] : i \in 1..n}
  BY RangeOf, LenProperties
<1>2. insert_targets(s, more) = r[1..n]
  BY <1>1 DEF insert_targets, FoldLeft, MapThenFoldSet
<1>3. \A i \in 1..n : \A t \in OrdVector :
        step[i][t] = insert_target(t, more[i]) /\ step[i][t] \in OrdVector
  BY <1>1, InsertTarget
<1> HIDE DEF n, step
<1>4. PICK g : /\ IsFold(g, 1..n, OrdVector, s, step, pick)
               /\ IsPick(pick, 1..n)
               /\ \E layer : /\ IsIteration(layer, n, OrdVector, s, step)
                             /\ g[1..n] = layer[n]
  <2>1. Steps(step, n, OrdVector)
    BY <1>3 DEF Steps
  <2> HIDE DEF r, IsRun
  <2> QED BY <1>1, <2>1, FoldOverList
<1>5. \A S \in SUBSET (1..n) : S # {} => pick[S] = Max(S) /\ Max(S) \in 1..n
  BY <1>4 DEF IsPick, LastPlace
<1> HIDE DEF pick
<1>6. /\ g \in [SUBSET (1..n) -> OrdVector] /\ g[{}] = s
      /\ \A S \in SUBSET (1..n) : S # {} => g[S] = insert_target(g[S \ {Max(S)}], more[Max(S)])
  <2>1. /\ g \in [SUBSET (1..n) -> OrdVector] /\ g[{}] = s
        /\ \A S \in SUBSET (1..n) : S # {} => g[S] = step[Max(S)][g[S \ {Max(S)}]]
    BY <1>4, <1>5 DEF IsFold
  <2>2. \A S \in SUBSET (1..n) : g[S \ {Max(S)}] \in OrdVector
    BY <2>1
  <2> QED BY <2>1, <2>2, <1>3, <1>5
<1>7. IsRun(r)
  <2>1. \A S \in SUBSET (1..n) : g[S] = IF S = {} THEN s ELSE insert_target(g[S \ {Max(S)}], more[Max(S)])
    BY <1>6
  <2>2. IsRun(g)
    BY <1>6, <2>1
  <2> QED BY <2>2
<1> HIDE DEF r
<1>8. r[{}] = s /\ \A S \in SUBSET (1..n) : S # {} => r[S] = insert_target(r[S \ {Max(S)}], more[Max(S)])
  BY <1>7
<1>9. r[1..n] = g[1..n]
  <2>1. IsFiniteSet(1..n) /\ 1..n \in SUBSET (1..n)
    BY <1>1, FS_Interval
  <2>3. ASSUME NEW S \in SUBSET (1..n), S # {}, r[S \ {pick[S]}] \in OrdVector
        PROVE  r[S] = step[pick[S]][r[S \ {pick[S]}]]
    <3>1. pick[S] = Max(S) /\ Max(S) \in 1..n
      BY <1>5, <2>3
    <3>2. step[Max(S)][r[S \ {Max(S)}]] = insert_target(r[S \ {Max(S)}], more[Max(S)])
      BY <1>3, <2>3, <3>1
    <3> QED BY <3>1, <3>2, <1>8, <2>3
  <2> DEFINE D == 1..n
  <2>4. /\ IsFold(g, D, OrdVector, s, step, pick) /\ IsPick(pick, D) /\ IsFiniteSet(D)
        /\ Follows(r, D, OrdVector, s, step, pick)
    BY <1>4, <1>8, <2>1, <2>3 DEF Follows
  <2>5. D \in SUBSET D /\ D = 1..n
    OBVIOUS
  <2> HIDE DEF IsRun, D
  <2>6. r[D] = g[D]
    BY <2>4, <2>5, FoldUnique
  <2> QED BY <2>5, <2>6
<1>10. PICK layer : /\ layer \in [0..n -> OrdVector] /\ layer[0] = s
                    /\ \A i \in 1..n : layer[i] = step[i][layer[i-1]]
                    /\ g[1..n] = layer[n]
  BY <1>4 DEF IsIteration
<1> DEFINE Good == {i \in 0..n : Range(layer[i]) = Range(s) \cup {more[j] : j \in 1..i}}
<1>11. \A i \in 0..n : i \in Good
  <2>1. 0 \in Good
    BY <1>1, <1>10
  <2>2. ASSUME NEW i \in 1..n, i-1 \in Good PROVE i \in Good
    <3>1. i-1 \in 0..n /\ i \in 0..n /\ more[i] \in Nat
      BY <1>1
    <3>2. layer[i-1] \in OrdVector
      BY <1>10, <3>1
    <3>3. Range(layer[i]) = Range(layer[i-1]) \cup {more[i]}
      <4>1. layer[i] = insert_target(layer[i-1], more[i])
        BY <1>3, <1>10, <3>2
      <4> QED BY <4>1, <3>1, <3>2, InsertTarget
    <3>4. 1..i = (1..i-1) \cup {i}
      BY <1>1
    <3> QED BY <2>2, <3>1, <3>3, <3>4
  <2>3. Good \in SUBSET (0..n)
    OBVIOUS
  <2> HIDE DEF Good
  <2> QED BY <1>1, <2>1, <2>2, <2>3, UpTo
<1>12. n \in 0..n
  BY <1>1
<1>13. Range(layer[n]) = Range(s) \cup Range(more) /\ layer[n] \in OrdVector
  BY <1>1, <1>10, <1>11, <1>12
<1> QED BY <1>2, <1>9, <1>10, <1>13

-----------------------------------------------------------------------------
(* State posts.                                                            *)
SymbolPost == [symbol : Symbol, targets : Seq(Nat)]
StatePost == Seq(SymbolPost)

\* The post has a move over a to q.
Has(post, a, q) ==
  \E k \in 1..Len(post) : post[k].symbol = a /\ q \in Range(post[k].targets)

\* A post of a delta with N posts.
SoundPost(post, N) ==
  /\ post \in StatePost
  /\ \A i \in 1..Len(post) : \A j \in 1..i-1 : post[j].symbol < post[i].symbol
  /\ \A k \in 1..Len(post) : /\ post[k].targets # << >>
                             /\ post[k].targets \in OrdVector
                             /\ Range(post[k].targets) \subseteq 0..N-1

(* The types of the parts of a state post.                                 *)
LEMMA PostParts ==
  ASSUME NEW post \in StatePost
  PROVE  /\ Len(post) \in Nat
         /\ \A k \in 1..Len(post) : /\ post[k] \in SymbolPost
                                    /\ post[k].symbol \in Symbol /\ post[k].symbol \in Nat
                                    /\ post[k].targets \in Seq(Nat)
<1>1. Len(post) \in Nat /\ \A k \in 1..Len(post) : post[k] \in SymbolPost
  BY RangeOf DEF StatePost
<1>2. \A sp \in SymbolPost : sp.symbol \in Symbol /\ sp.symbol \in Nat /\ sp.targets \in Seq(Nat)
  BY SymbolAssumption DEF SymbolPost
<1> QED BY <1>1, <1>2

(* place_of() divides a sound post into the smaller symbols and the        *)
(* others, ...                                                             *)
LEMMA PlaceOf ==
  ASSUME NEW N \in Nat, NEW post, SoundPost(post, N), NEW a \in Nat
  PROVE  /\ place_of(post, a) \in 1..Len(post)+1
         /\ \A k \in 1..Len(post) : post[k].symbol < a <=> k < place_of(post, a)
<1> DEFINE n == Len(post)
           key == [k \in 1..n |-> post[k].symbol]
<1>1. n \in Nat /\ \A k \in 1..n : post[k].symbol \in Nat
  BY PostParts DEF SoundPost
<1>2. key \in [1..n -> Nat] /\ \A i \in 1..n : \A j \in 1..i-1 : key[j] < key[i]
  <2>1. \A i \in 1..n : \A j \in 1..i-1 : j \in 1..n
    BY <1>1
  <2>2. \A i \in 1..n : \A j \in 1..i-1 : post[j].symbol < post[i].symbol
    BY DEF SoundPost
  <2> HIDE DEF n
  <2> QED BY <1>1, <2>1, <2>2
<1>3. \A k \in 1..n : key[k] = post[k].symbol
  OBVIOUS
<1> HIDE DEF n, key
<1>4. PICK m \in 0..n : /\ Cardinality({k \in 1..n : key[k] < a}) = m
                        /\ \A k \in 1..n : key[k] < a <=> k <= m
  BY <1>1, <1>2, Below
<1>5. {k \in 1..n : key[k] < a} = {k \in 1..n : post[k].symbol < a}
  BY <1>3
<1>6. place_of(post, a) = m + 1
  BY <1>4, <1>5 DEF place_of, n
<1> QED BY <1>1, <1>3, <1>4, <1>6 DEF n

(* ... and finds the only symbol post with the symbol if there is one.     *)
LEMMA PlaceFound ==
  ASSUME NEW N \in Nat, NEW post, SoundPost(post, N), NEW a \in SymbolsOf(post)
  PROVE  /\ place_of(post, a) \in 1..Len(post)
         /\ post[place_of(post, a)].symbol = a
         /\ \A k \in 1..Len(post) : post[k].symbol = a => k = place_of(post, a)
<1> DEFINE p == place_of(post, a)
<1>1. Len(post) \in Nat /\ \A k \in 1..Len(post) : post[k].symbol \in Nat
  BY PostParts DEF SoundPost
<1>2. PICK m \in 1..Len(post) : post[m].symbol = a
  BY DEF SymbolsOf
<1>3. a \in Nat
  BY <1>1, <1>2
<1>4. p \in 1..Len(post)+1 /\ \A k \in 1..Len(post) : post[k].symbol < a <=> k < p
  BY <1>3, PlaceOf
<1> HIDE DEF p
<1>5. ASSUME NEW k \in 1..Len(post), post[k].symbol = a PROVE k = p
  <2>1. ~ (k < p)
    BY <1>3, <1>4, <1>5
  <2>2. ASSUME k > p PROVE FALSE
    <3>1. p \in 1..Len(post) /\ p \in 1..k-1
      BY <1>1, <1>4, <2>2
    <3>2. post[p].symbol < post[k].symbol
      BY <3>1 DEF SoundPost
    <3>3. ~ (post[p].symbol < a)
      BY <1>4, <3>1
    <3> QED BY <1>5, <3>2, <3>3
  <2> QED BY <1>4, <2>1, <2>2
<1>6. m = p
  BY <1>2, <1>5
<1> QED BY <1>2, <1>5, <1>6 DEF p

(* A symbol that the post has gets the targets beside those it had.        *)
LEMMA InsertSymbolFound ==
  ASSUME NEW N \in Nat, NEW post, SoundPost(post, N), NEW a \in Symbol,
         NEW t \in OrdVector, t # << >>, Range(t) \subseteq 0..N-1, a \in SymbolsOf(post)
  PROVE  /\ SoundPost(insert_symbol(post, a, t), N)
         /\ \A b, q : Has(insert_symbol(post, a, t), b, q)
                       <=> Has(post, b, q) \/ (b = a /\ q \in Range(t))
<1> DEFINE p == place_of(post, a)
           both == insert_targets(post[p].targets, t)
           r == [post EXCEPT ![p].targets = both]
<1>1. insert_symbol(post, a, t) = r
  BY DEF insert_symbol
<1>2. p \in 1..Len(post) /\ post[p].symbol = a /\ \A k \in 1..Len(post) : post[k].symbol = a => k = p
  BY PlaceFound
<1>3. /\ post \in StatePost /\ Len(post) \in Nat
      /\ \A k \in 1..Len(post) : post[k] \in SymbolPost /\ post[k].symbol \in Nat
  BY PostParts DEF SoundPost
<1>4. /\ \A i \in 1..Len(post) : \A j \in 1..i-1 : post[j].symbol < post[i].symbol
      /\ \A k \in 1..Len(post) : /\ post[k].targets # << >>
                                 /\ post[k].targets \in OrdVector
                                 /\ Range(post[k].targets) \subseteq 0..N-1
  BY DEF SoundPost
<1> HIDE DEF p
<1>5. both \in OrdVector /\ Range(both) = Range(post[p].targets) \cup Range(t)
  <2>1. t \in Seq(Nat)
    BY DEF OrdVector
  <2> QED BY <1>2, <1>4, <2>1, InsertTargets
<1>6. both # << >>
  <2>1. t \in Seq(Nat) /\ Len(t) # 0 /\ Len(t) \in Nat
    BY RangeOf DEF OrdVector
  <2>2. t[1] \in Range(t)
    BY <2>1, RangeOf
  <2>3. Range(<< >>) = {}
    BY DEF Range
  <2> QED BY <2>2, <2>3, <1>5
<1> HIDE DEF both
<1>7. DOMAIN post = 1..Len(post)
  BY <1>3, LenProperties DEF StatePost
<1>8. post[p] \in SymbolPost /\ [post[p] EXCEPT !.targets = both] \in SymbolPost
  <2>1. both \in Seq(Nat)
    BY <1>5 DEF OrdVector
  <2> QED BY <2>1, <1>2, <1>3 DEF SymbolPost
<1>9. r = [post EXCEPT ![p] = [post[p] EXCEPT !.targets = both]]
  BY <1>2, <1>7
<1> DEFINE sp == [post[p] EXCEPT !.targets = both]
<1>10. sp.symbol = a /\ sp.targets = both
  <2>1. \A u \in SymbolPost : [u EXCEPT !.targets = both].symbol = u.symbol
                              /\ [u EXCEPT !.targets = both].targets = both
    BY DEF SymbolPost
  <2> QED BY <1>2, <1>8, <2>1
<1> HIDE DEF sp
<1>11. /\ r \in StatePost /\ Len(r) = Len(post)
       /\ \A k \in 1..Len(post) : r[k] = IF k = p THEN sp ELSE post[k]
  <2>1. sp \in SymbolPost
    BY <1>8 DEF sp
  <2> DEFINE T == SymbolPost
  <2>2. post \in Seq(T) /\ sp \in T /\ p \in 1..Len(post)
    BY <1>2, <1>3, <2>1 DEF StatePost
  <2>3. r = [post EXCEPT ![p] = sp]
    BY <1>9 DEF sp
  <2> HIDE DEF T, r
  <2>4. /\ [post EXCEPT ![p] = sp] \in Seq(T)
        /\ Len([post EXCEPT ![p] = sp]) = Len(post)
    BY <2>2, ExceptSeq
  <2>5. \A k \in 1..Len(post) : [post EXCEPT ![p] = sp][k] = IF k = p THEN sp ELSE post[k]
    BY <1>7
  <2> QED BY <2>3, <2>4, <2>5 DEF T, StatePost
<1> HIDE DEF r
<1>12. \A k \in 1..Len(post) : r[k].symbol = post[k].symbol
  BY <1>2, <1>10, <1>11
<1>13. SoundPost(r, N)
  <2>1. ASSUME NEW i \in 1..Len(r), NEW j \in 1..i-1 PROVE r[j].symbol < r[i].symbol
    <3>1. i \in 1..Len(post) /\ j \in 1..Len(post)
      BY <1>3, <1>11
    <3> QED BY <3>1, <1>4, <1>12
  <2>2. ASSUME NEW k \in 1..Len(r)
        PROVE  r[k].targets # << >> /\ r[k].targets \in OrdVector /\ Range(r[k].targets) \subseteq 0..N-1
    <3>1. k \in 1..Len(post)
      BY <1>11
    <3>2. CASE k = p
      <4>1. r[k].targets = both
        BY <3>1, <3>2, <1>10, <1>11
      <4>2. Range(both) \subseteq 0..N-1
        BY <1>2, <1>4, <1>5
      <4> QED BY <4>1, <4>2, <1>5, <1>6
    <3>3. CASE k # p
      BY <3>1, <3>3, <1>4, <1>11
    <3> QED BY <3>2, <3>3
  <2> QED BY <2>1, <2>2, <1>11 DEF SoundPost
<1>14. ASSUME NEW b, NEW q
       PROVE  Has(r, b, q) <=> Has(post, b, q) \/ (b = a /\ q \in Range(t))
  <2>1. ASSUME NEW k \in 1..Len(post), r[k].symbol = b, q \in Range(r[k].targets)
        PROVE  Has(post, b, q) \/ (b = a /\ q \in Range(t))
    <3>1. CASE k = p
      <4>1. q \in Range(both)
        BY <2>1, <3>1, <1>10, <1>11
      <4>2. b = a
        BY <2>1, <3>1, <1>2, <1>12
      <4> QED BY <4>1, <4>2, <1>2, <1>5 DEF Has
    <3>2. CASE k # p
      BY <2>1, <3>2, <1>11 DEF Has
    <3> QED BY <3>1, <3>2
  <2>2. ASSUME NEW k \in 1..Len(post), post[k].symbol = b, q \in Range(post[k].targets)
        PROVE  q \in Range(r[k].targets)
    <3>1. CASE k = p
      <4>1. q \in Range(both)
        BY <2>2, <3>1, <1>5
      <4> QED BY <4>1, <3>1, <1>10, <1>11
    <3>2. CASE k # p
      BY <2>2, <3>2, <1>11
    <3> QED BY <3>1, <3>2
  <2>3. ASSUME b = a, q \in Range(t) PROVE r[p].symbol = b /\ q \in Range(r[p].targets)
    BY <2>3, <1>2, <1>5, <1>10, <1>11
  <2>4. Has(r, b, q) => Has(post, b, q) \/ (b = a /\ q \in Range(t))
    BY <2>1, <1>11 DEF Has
  <2>5. Has(post, b, q) => Has(r, b, q)
    BY <2>2, <1>11, <1>12 DEF Has
  <2>6. b = a /\ q \in Range(t) => Has(r, b, q)
    BY <2>3, <1>2, <1>11 DEF Has
  <2> QED BY <2>4, <2>5, <2>6
<1> QED BY <1>1, <1>13, <1>14

(* A symbol that the post does not have gets a symbol post at its place.   *)
LEMMA InsertSymbolNew ==
  ASSUME NEW N \in Nat, NEW post, SoundPost(post, N), NEW a \in Symbol,
         NEW t \in OrdVector, t # << >>, Range(t) \subseteq 0..N-1, a \notin SymbolsOf(post)
  PROVE  /\ SoundPost(insert_symbol(post, a, t), N)
         /\ \A b, q : Has(insert_symbol(post, a, t), b, q)
                       <=> Has(post, b, q) \/ (b = a /\ q \in Range(t))
<1> DEFINE p == place_of(post, a)
           sp == [symbol |-> a, targets |-> t]
           r == InsertAt(post, p, sp)
           n == Len(post)
<1>1. insert_symbol(post, a, t) = r
  BY DEF insert_symbol
<1>2. a \in Nat /\ p \in 1..n+1 /\ \A k \in 1..n : post[k].symbol < a <=> k < p
  BY PlaceOf, SymbolAssumption
<1>3. /\ post \in StatePost /\ n \in Nat
      /\ \A k \in 1..n : post[k] \in SymbolPost /\ post[k].symbol \in Nat
  BY PostParts DEF SoundPost
<1>4. /\ \A i \in 1..n : \A j \in 1..i-1 : post[j].symbol < post[i].symbol
      /\ \A k \in 1..n : /\ post[k].targets # << >>
                         /\ post[k].targets \in OrdVector
                         /\ Range(post[k].targets) \subseteq 0..N-1
  BY DEF SoundPost
<1>5. \A k \in 1..n : post[k].symbol # a
  BY DEF SymbolsOf
<1>6. sp \in SymbolPost /\ sp.symbol = a /\ sp.targets = t
  BY DEF SymbolPost, OrdVector
<1> HIDE DEF p, sp
<1>7. /\ r \in StatePost /\ Len(r) = n + 1
      /\ \A i \in 1..n+1 : r[i] = IF i < p THEN post[i] ELSE IF i = p THEN sp ELSE post[i-1]
  <2> DEFINE T == SymbolPost
  <2>1. post \in Seq(T) /\ sp \in T /\ p \in 1..Len(post)+1
    BY <1>2, <1>3, <1>6 DEF StatePost
  <2> HIDE DEF T
  <2> HIDE DEF n
  <2>2. r \in Seq(T)
    BY <2>1, InsertAtPlace
  <2>3. Len(r) = Len(post) + 1
    BY <2>1, InsertAtPlace
  <2>4. ASSUME NEW i \in 1..Len(post)+1
        PROVE  r[i] = IF i < p THEN post[i] ELSE IF i = p THEN sp ELSE post[i-1]
    BY <2>1, InsertAtPlace
  <2> QED BY <2>2, <2>3, <2>4 DEF n, T, StatePost
<1> HIDE DEF r, n
<1>8. ASSUME NEW i \in 1..n+1
      PROVE  /\ i < p => i \in 1..n /\ r[i] = post[i] /\ post[i].symbol < a
             /\ i = p => r[i] = sp
             /\ i > p => i-1 \in 1..n /\ i-1 >= p /\ r[i] = post[i-1] /\ post[i-1].symbol > a
  <2>1. i < p => i \in 1..n
    BY <1>2, <1>3
  <2>2. i > p => i-1 \in 1..n /\ ~ (i-1 < p)
    BY <1>2, <1>3
  <2>3. i > p => post[i-1].symbol > a
    BY <2>2, <1>2, <1>3, <1>5
  <2>4. i > p => ~ (i < p) /\ i # p /\ i-1 >= p
    BY <1>2
  <2>5. i = p => ~ (i < p)
    BY <1>2
  <2> QED BY <2>1, <2>2, <2>3, <2>4, <2>5, <1>2, <1>7
<1>9. \A i \in 1..n+1 : i < p \/ i = p \/ i > p
  BY <1>2
<1>10. SoundPost(r, N)
  <2>1. ASSUME NEW i \in 1..n+1, NEW j \in 1..i-1 PROVE r[j].symbol < r[i].symbol
    <3>1. j \in 1..n+1
      BY <1>3
    <3>2. CASE i < p
      <4>1. j < p
        BY <3>2, <1>2
      <4> QED BY <4>1, <3>1, <3>2, <1>4, <1>8
    <3>3. CASE i = p
      <4>1. j < p
        BY <3>3, <1>2
      <4>2. r[j] = post[j] /\ post[j].symbol < a /\ r[i] = sp
        BY <4>1, <3>1, <3>3, <1>8
      <4> QED BY <4>2, <1>6
    <3>4. CASE i > p
      <4>1. i-1 \in 1..n /\ r[i] = post[i-1] /\ post[i-1].symbol > a
        BY <3>4, <1>8
      <4>2. CASE j < p
        <5>1. j \in 1..n /\ r[j] = post[j] /\ post[j].symbol < a
          BY <4>2, <3>1, <1>8
        <5> QED BY <5>1, <4>1, <1>2, <1>3
      <4>3. CASE j = p
        <5>1. r[j] = sp
          BY <4>3, <3>1, <1>8
        <5>2. post[i-1].symbol \in Nat
          BY <4>1, <1>3
        <5> QED BY <5>1, <5>2, <4>1, <1>2, <1>6
      <4>4. CASE j > p
        <5>1. j-1 \in 1..n /\ r[j] = post[j-1]
          BY <4>4, <3>1, <1>8
        <5>2. j-1 \in 1..(i-1)-1
          BY <5>1
        <5> QED BY <5>1, <5>2, <4>1, <1>4
      <4> QED BY <4>2, <4>3, <4>4, <3>1, <1>9
    <3> QED BY <3>2, <3>3, <3>4, <1>9
  <2>2. ASSUME NEW i \in 1..n+1
        PROVE  r[i].targets # << >> /\ r[i].targets \in OrdVector /\ Range(r[i].targets) \subseteq 0..N-1
    BY <1>4, <1>6, <1>8, <1>9
  <2> QED BY <2>1, <2>2, <1>7 DEF SoundPost
<1>11. ASSUME NEW b, NEW q
       PROVE  Has(r, b, q) <=> Has(post, b, q) \/ (b = a /\ q \in Range(t))
  <2>1. ASSUME NEW i \in 1..n+1, r[i].symbol = b, q \in Range(r[i].targets)
        PROVE  Has(post, b, q) \/ (b = a /\ q \in Range(t))
    <3>1. CASE i < p
      BY <2>1, <3>1, <1>8 DEF Has, n
    <3>2. CASE i = p
      BY <2>1, <3>2, <1>6, <1>8
    <3>3. CASE i > p
      BY <2>1, <3>3, <1>8 DEF Has, n
    <3> QED BY <3>1, <3>2, <3>3, <1>9
  <2>2. ASSUME NEW k \in 1..n, post[k].symbol = b, q \in Range(post[k].targets)
        PROVE  \E i \in 1..n+1 : r[i].symbol = b /\ q \in Range(r[i].targets)
    <3>1. CASE k < p
      <4>1. k \in 1..n+1 /\ r[k] = post[k]
        BY <3>1, <1>3, <1>7
      <4> QED BY <4>1, <2>2
    <3>2. CASE k >= p
      <4>1. k+1 \in 1..n+1 /\ k+1 > p /\ (k+1)-1 = k
        BY <3>2, <1>2, <1>3
      <4>2. r[k+1] = post[k]
        BY <4>1, <1>8
      <4> QED BY <4>1, <4>2, <2>2
    <3> QED BY <3>1, <3>2, <1>2
  <2>3. p \in 1..n+1 /\ r[p] = sp
    BY <1>2, <1>8
  <2>4. Has(r, b, q) => Has(post, b, q) \/ (b = a /\ q \in Range(t))
    BY <2>1, <1>7 DEF Has
  <2>5. Has(post, b, q) => Has(r, b, q)
    BY <2>2, <1>7 DEF Has, n
  <2>6. b = a /\ q \in Range(t) => Has(r, b, q)
    BY <2>3, <1>6, <1>7 DEF Has
  <2> QED BY <2>4, <2>5, <2>6
<1> QED BY <1>1, <1>10, <1>11

(* Either way the post stays sound and has the new moves beside the old.   *)
LEMMA InsertSymbol ==
  ASSUME NEW N \in Nat, NEW post, SoundPost(post, N), NEW a \in Symbol,
         NEW t \in OrdVector, t # << >>, Range(t) \subseteq 0..N-1
  PROVE  /\ SoundPost(insert_symbol(post, a, t), N)
         /\ \A b, q : Has(insert_symbol(post, a, t), b, q)
                       <=> Has(post, b, q) \/ (b = a /\ q \in Range(t))
<1>1. CASE a \in SymbolsOf(post)
  BY <1>1, InsertSymbolFound
<1>2. CASE a \notin SymbolsOf(post)
  BY <1>2, InsertSymbolNew
<1> QED BY <1>1, <1>2

-----------------------------------------------------------------------------
(* Deltas.                                                                 *)
IsDelta(d) ==
  /\ d \in Seq(StatePost)
  /\ \A i \in 1..Len(d) : SoundPost(d[i], Len(d))

\* Of what type transitions are.
Triple == Nat \X Symbol \X Nat

(* WellFormedDelta says of a delta that each of its posts is sound, ...    *)
LEMMA DeltaSound ==
  ASSUME NEW d \in Seq(StatePost)
  PROVE  WellFormedDelta(d) <=> \A i \in 1..Len(d) : SoundPost(d[i], Len(d))
<1>1. \A i \in 1..Len(d) : d[i] \in StatePost
  BY RangeOf
<1>2. ASSUME NEW i \in 1..Len(d)
      PROVE  Ascending([k \in 1..Len(d[i]) |-> d[i][k].symbol])
               <=> \A k \in 1..Len(d[i]) : \A j \in 1..k-1 : d[i][j].symbol < d[i][k].symbol
  <2> DEFINE n == Len(d[i])
             key == [k \in 1..n |-> d[i][k].symbol]
  <2>1. n \in Nat
    BY <1>1, PostParts
  <2>2. Len(key) = n /\ \A k \in 1..n : key[k] = d[i][k].symbol
    BY <2>1
  <2>3. \A k \in 1..n : \A j \in 1..k-1 : j \in 1..n
    BY <2>1
  <2> HIDE DEF n, key
  <2>4. Ascending(key) <=> \A k \in 1..n : \A j \in 1..k-1 : d[i][j].symbol < d[i][k].symbol
    BY <2>2, <2>3 DEF Ascending
  <2> QED BY <2>4 DEF n, key
<1>3. ASSUME NEW i \in 1..Len(d), NEW k \in 1..Len(d[i])
      PROVE  d[i][k].targets \in OrdVector <=> Ascending(d[i][k].targets)
  BY <1>1, PostParts DEF OrdVector
<1> QED BY <1>1, <1>2, <1>3 DEF WellFormedDelta, SoundPost

(* ... so IsDelta is WellFormedDelta with the types.                       *)
LEMMA IsDeltaSound ==
  ASSUME NEW d
  PROVE  IsDelta(d) <=> d \in Seq(StatePost) /\ WellFormedDelta(d)
BY DeltaSound DEF IsDelta

(* A sound post is sound in a larger delta.                                *)
LEMMA SoundPostIn ==
  ASSUME NEW M \in Nat, NEW N \in Nat, M <= N, NEW post, SoundPost(post, M)
  PROVE  SoundPost(post, N)
<1>1. 0..M-1 \subseteq 0..N-1
  OBVIOUS
<1> QED BY <1>1 DEF SoundPost

(* The post that allocate() adds is sound and has no moves.                *)
LEMMA EmptyPost ==
  ASSUME NEW N \in Nat
  PROVE  SoundPost(<< >>, N) /\ << >> \in StatePost /\ \A a, q : ~ Has(<< >>, a, q)
BY DEF SoundPost, StatePost, Has

(* A move of a sound post is over a symbol of it, to a state with a post.  *)
LEMMA HasParts ==
  ASSUME NEW N \in Nat, NEW post, SoundPost(post, N), NEW a, NEW q, Has(post, a, q)
  PROVE  a \in Symbol /\ q \in 0..N-1 /\ q \in Nat /\ a \in SymbolsOf(post)
<1>1. PICK k \in 1..Len(post) : post[k].symbol = a /\ q \in Range(post[k].targets)
  BY DEF Has
<1>2. post[k].symbol \in Symbol
  BY PostParts DEF SoundPost
<1>3. Range(post[k].targets) \subseteq 0..N-1
  BY DEF SoundPost
<1> QED BY <1>1, <1>2, <1>3 DEF SymbolsOf

(* Each symbol of a sound post has a target.                               *)
LEMMA SymbolHasTarget ==
  ASSUME NEW N \in Nat, NEW post, SoundPost(post, N), NEW a \in SymbolsOf(post)
  PROVE  \E q : Has(post, a, q)
<1>1. PICK k \in 1..Len(post) : post[k].symbol = a
  BY DEF SymbolsOf
<1>2. post[k].targets \in Seq(Nat) /\ post[k].targets # << >>
  BY DEF SoundPost, OrdVector
<1>3. Len(post[k].targets) \in Nat /\ Len(post[k].targets) # 0
  BY <1>2, RangeOf
<1>4. post[k].targets[1] \in Range(post[k].targets)
  BY <1>2, <1>3, RangeOf
<1> QED BY <1>1, <1>4 DEF Has

(* The transitions are the moves of the posts.                             *)
LEMMA TransitionsOf ==
  ASSUME NEW d, IsDelta(d)
  PROVE  /\ Len(d) \in Nat
         /\ \A i \in 1..Len(d) : d[i] \in StatePost /\ SoundPost(d[i], Len(d))
         /\ \A p, a, q : <<p, a, q>> \in transitions(d)
                          <=> p \in 0..Len(d)-1 /\ Has(d[p+1], a, q)
         /\ \A t \in transitions(d) :
              \E p \in 0..Len(d)-1, a \in Symbol, q \in 0..Len(d)-1 : t = <<p, a, q>>
<1> DEFINE n == Len(d)
           of(i, k) == {<<i-1, d[i][k].symbol, q>> : q \in Range(d[i][k].targets)}
<1>1. n \in Nat /\ \A i \in 1..n : d[i] \in StatePost /\ SoundPost(d[i], n)
  BY RangeOf DEF IsDelta
<1>2. transitions(d) = UNION {UNION {of(i, k) : k \in 1..Len(d[i])} : i \in 1..n}
  BY DEF transitions
<1>3. \A t : t \in transitions(d) <=> \E i \in 1..n : \E k \in 1..Len(d[i]) : t \in of(i, k)
  <2> HIDE DEF of, n
  <2> QED BY <1>2
<1>4. \A t : t \in transitions(d) <=>
        \E i \in 1..n : \E k \in 1..Len(d[i]) : \E q \in Range(d[i][k].targets) :
           t = <<i-1, d[i][k].symbol, q>>
  BY <1>3
<1>5. ASSUME NEW p, NEW a, NEW q
      PROVE  <<p, a, q>> \in transitions(d) <=> p \in 0..n-1 /\ Has(d[p+1], a, q)
  <2>1. ASSUME <<p, a, q>> \in transitions(d) PROVE p \in 0..n-1 /\ Has(d[p+1], a, q)
    <3>1. PICK i \in 1..n : \E k \in 1..Len(d[i]) : \E r \in Range(d[i][k].targets) :
                   <<p, a, q>> = <<i-1, d[i][k].symbol, r>>
      BY <1>4, <2>1
    <3>2. p = i-1 /\ \E k \in 1..Len(d[i]) : a = d[i][k].symbol /\ q \in Range(d[i][k].targets)
      BY <3>1
    <3>3. p+1 = i /\ p \in 0..n-1
      BY <1>1, <3>2
    <3> QED BY <3>2, <3>3 DEF Has
  <2>2. ASSUME p \in 0..n-1, Has(d[p+1], a, q) PROVE <<p, a, q>> \in transitions(d)
    <3>1. p+1 \in 1..n /\ (p+1)-1 = p
      BY <1>1, <2>2
    <3>2. PICK k \in 1..Len(d[p+1]) : d[p+1][k].symbol = a /\ q \in Range(d[p+1][k].targets)
      BY <2>2 DEF Has
    <3> QED BY <1>4, <3>1, <3>2
  <2> QED BY <2>1, <2>2
<1>6. ASSUME NEW t \in transitions(d)
      PROVE  \E p \in 0..n-1, a \in Symbol, q \in 0..n-1 : t = <<p, a, q>>
  <2>1. PICK i \in 1..n : \E k \in 1..Len(d[i]) : \E q \in Range(d[i][k].targets) :
                 t = <<i-1, d[i][k].symbol, q>>
    BY <1>4
  <2>5. PICK k \in 1..Len(d[i]) : \E q \in Range(d[i][k].targets) :
                 t = <<i-1, d[i][k].symbol, q>>
    BY <2>1
  <2>6. PICK q \in Range(d[i][k].targets) : t = <<i-1, d[i][k].symbol, q>>
    BY <2>5
  <2>2. Has(d[i], d[i][k].symbol, q)
    BY DEF Has
  <2>3. d[i][k].symbol \in Symbol /\ q \in 0..n-1
    BY <1>1, <2>2, HasParts
  <2>4. i-1 \in 0..n-1
    BY <1>1
  <2> QED BY <2>6, <2>3, <2>4
<1> QED BY <1>1, <1>5, <1>6

(* The transitions of a delta are finitely many triples over its posts.    *)
LEMMA TransitionTypes ==
  ASSUME NEW d, IsDelta(d)
  PROVE  /\ transitions(d) \subseteq Triple
         /\ \A t \in transitions(d) : /\ t = <<t[1], t[2], t[3]>>
                                      /\ t[1] \in 0..Len(d)-1 /\ t[2] \in Symbol
                                      /\ t[3] \in 0..Len(d)-1
         /\ IsFiniteSet(transitions(d))
<1> DEFINE n == Len(d)
           Box == (0..n-1) \X Symbol \X (0..n-1)
<1>1. n \in Nat /\ \A t \in transitions(d) :
         \E p \in 0..n-1, a \in Symbol, q \in 0..n-1 : t = <<p, a, q>>
  BY TransitionsOf
<1> HIDE DEF n
<1>2. \A t \in transitions(d) : t = <<t[1], t[2], t[3]>> /\ t[1] \in 0..n-1
                                /\ t[2] \in Symbol /\ t[3] \in 0..n-1
  BY <1>1
<1>3. transitions(d) \subseteq Triple
  BY <1>1, <1>2 DEF Triple
<1>4. transitions(d) \subseteq Box
  BY <1>1, <1>2
<1>5. IsFiniteSet(Box)
  <2>1. IsFiniteSet(0..n-1) /\ IsFiniteSet(Symbol)
    BY <1>1, FS_Interval, SymbolAssumption
  <2>2. IsFiniteSet((0..n-1) \X Symbol)
    BY <2>1, FS_Product
  <2> DEFINE Pairs == ((0..n-1) \X Symbol) \X (0..n-1)
             f == [x \in Pairs |-> <<x[1][1], x[1][2], x[2]>>]
  <2>3. IsFiniteSet(Pairs)
    BY <2>1, <2>2, FS_Product
  <2>4. ASSUME NEW y \in Box PROVE \E x \in Pairs : y = <<x[1][1], x[1][2], x[2]>>
    <3>1. <<<<y[1], y[2]>>, y[3]>> \in Pairs
      OBVIOUS
    <3>2. y = <<y[1], y[2], y[3]>>
      OBVIOUS
    <3> QED BY <3>1, <3>2
  <2>5. Box \subseteq {<<x[1][1], x[1][2], x[2]>> : x \in Pairs}
    BY <2>4
  <2>6. IsFiniteSet({<<x[1][1], x[1][2], x[2]>> : x \in Pairs})
    <3> HIDE DEF Pairs
    <3>1. f \in [Pairs -> {<<x[1][1], x[1][2], x[2]>> : x \in Pairs}]
      OBVIOUS
    <3>2. \A t \in {<<x[1][1], x[1][2], x[2]>> : x \in Pairs} : \E x \in Pairs : f[x] = t
      OBVIOUS
    <3>3. f \in Surjection(Pairs, {<<x[1][1], x[1][2], x[2]>> : x \in Pairs})
      BY <3>1, <3>2 DEF Surjection
    <3> QED BY <2>3, <3>3, FS_Surjection
  <2> QED BY <2>5, <2>6, FS_Subset
<1>6. IsFiniteSet(transitions(d))
  BY <1>4, <1>5, FS_Subset
<1> QED BY <1>2, <1>3, <1>6 DEF n

(* Sets of triples are equal when they have the same ones.                 *)
LEMMA SameTriples ==
  ASSUME NEW S \in SUBSET Triple, NEW T \in SUBSET Triple,
         \A p \in Nat, a \in Symbol, q \in Nat : <<p, a, q>> \in S <=> <<p, a, q>> \in T
  PROVE  S = T
<1>1. \A t \in Triple : t = <<t[1], t[2], t[3]>> /\ t[1] \in Nat /\ t[2] \in Symbol /\ t[3] \in Nat
  BY DEF Triple
<1>2. \A t \in Triple : t \in S <=> t \in T
  BY <1>1
<1> QED BY <1>2

(* Larger() is one of the two, and not less than either.                   *)
LEMMA LargerOf ==
  ASSUME NEW m \in Nat, NEW n \in Nat
  PROVE  /\ Larger(m, n) \in Nat /\ m <= Larger(m, n) /\ n <= Larger(m, n)
         /\ Larger(m, n) = m \/ Larger(m, n) = n
BY DEF Larger

(* allocate() adds posts without moves.                                    *)
LEMMA Allocate ==
  ASSUME NEW d, IsDelta(d), NEW n \in Nat
  PROVE  /\ IsDelta(allocate(d, n))
         /\ Len(allocate(d, n)) = Larger(n, Len(d))
         /\ transitions(allocate(d, n)) = transitions(d)
         /\ \A i \in 1..Larger(n, Len(d)) :
              allocate(d, n)[i] = IF i <= Len(d) THEN d[i] ELSE << >>
<1> DEFINE m == Larger(n, Len(d))
           r == allocate(d, n)
<1>1. Len(d) \in Nat /\ \A i \in 1..Len(d) : d[i] \in StatePost /\ SoundPost(d[i], Len(d))
  BY TransitionsOf
<1>2. m \in Nat /\ Len(d) <= m
  BY <1>1, LargerOf
<1>3. r = [i \in 1..m |-> IF i <= Len(d) THEN d[i] ELSE << >>]
  BY DEF allocate
<1> HIDE DEF m, r
<1>4. \A i \in 1..m : /\ r[i] = IF i <= Len(d) THEN d[i] ELSE << >>
                      /\ r[i] \in StatePost /\ SoundPost(r[i], m)
  <2>1. ASSUME NEW i \in 1..m PROVE r[i] \in StatePost /\ SoundPost(r[i], m)
    <3>1. CASE i <= Len(d)
      <4>1. i \in 1..Len(d) /\ r[i] = d[i]
        BY <1>1, <1>3, <3>1
      <4>2. SoundPost(d[i], m)
        BY <1>1, <1>2, <4>1, SoundPostIn
      <4> QED BY <1>1, <4>1, <4>2
    <3>2. CASE ~ (i <= Len(d))
      BY <1>2, <1>3, <3>2, EmptyPost
    <3> QED BY <3>1, <3>2
  <2> QED BY <1>3, <2>1
<1>5. r \in Seq(StatePost) /\ Len(r) = m
  <2>1. r \in [1..m -> StatePost]
    BY <1>3, <1>4
  <2> QED BY <1>2, <2>1, SeqDef
<1>6. IsDelta(r)
  BY <1>4, <1>5 DEF IsDelta
<1>7. ASSUME NEW p \in Nat, NEW a \in Symbol, NEW q \in Nat
      PROVE  <<p, a, q>> \in transitions(r) <=> <<p, a, q>> \in transitions(d)
  <2>1. <<p, a, q>> \in transitions(r) <=> p \in 0..m-1 /\ Has(r[p+1], a, q)
    BY <1>5, <1>6, TransitionsOf
  <2>2. <<p, a, q>> \in transitions(d) <=> p \in 0..Len(d)-1 /\ Has(d[p+1], a, q)
    BY TransitionsOf
  <2>3. CASE p < Len(d)
    <3>1. p \in 0..m-1 /\ p \in 0..Len(d)-1 /\ p+1 \in 1..m /\ p+1 <= Len(d)
      BY <1>1, <1>2, <2>3
    <3>2. r[p+1] = d[p+1]
      BY <1>4, <3>1
    <3> QED BY <2>1, <2>2, <3>1, <3>2
  <2>4. CASE ~ (p < Len(d))
    <3>1. p \notin 0..Len(d)-1
      BY <1>1, <2>4
    <3>2. ASSUME p \in 0..m-1 PROVE ~ Has(r[p+1], a, q)
      <4>1. p+1 \in 1..m /\ ~ (p+1 <= Len(d))
        BY <1>1, <1>2, <2>4, <3>2
      <4>2. r[p+1] = << >>
        BY <1>4, <4>1
      <4> QED BY <4>2, EmptyPost
    <3> QED BY <2>1, <2>2, <3>1, <3>2
  <2> QED BY <2>3, <2>4
<1>8. transitions(r) = transitions(d)
  <2>1. transitions(r) \in SUBSET Triple /\ transitions(d) \in SUBSET Triple
    BY <1>6, TransitionTypes
  <2> QED BY <1>7, <2>1, SameTriples
<1> QED BY <1>4, <1>5, <1>6, <1>8 DEF m, r

-----------------------------------------------------------------------------
\* d with one post replaced.
Replaced(d, p, post) == [d EXCEPT ![p+1] = post]

(* One post replaced.                                                      *)
LEMMA UpdatePost ==
  ASSUME NEW d, IsDelta(d), NEW p \in 0..Len(d)-1, NEW post, SoundPost(post, Len(d))
  PROVE  /\ IsDelta(Replaced(d, p, post)) /\ Len(Replaced(d, p, post)) = Len(d)
         /\ \A u, b, q : <<u, b, q>> \in transitions(Replaced(d, p, post))
              <=> IF u = p THEN Has(post, b, q) ELSE <<u, b, q>> \in transitions(d)
<1> DEFINE n == Len(d)
           r == Replaced(d, p, post)
<1>1. n \in Nat /\ \A i \in 1..n : d[i] \in StatePost /\ SoundPost(d[i], n)
  BY TransitionsOf
<1>2. p+1 \in 1..n /\ p \in Nat
  BY <1>1
<1>3. d \in [1..n -> StatePost]
  BY RangeOf DEF IsDelta
<1>4. post \in StatePost
  BY DEF SoundPost
<1>5. r \in [1..n -> StatePost] /\ \A i \in 1..n : r[i] = IF i = p+1 THEN post ELSE d[i]
  BY <1>2, <1>3, <1>4 DEF Replaced
<1> HIDE DEF r
<1>6. r \in Seq(StatePost) /\ Len(r) = n
  BY <1>1, <1>5, SeqDef
<1>7. IsDelta(r)
  BY <1>1, <1>5, <1>6 DEF IsDelta
<1>8. ASSUME NEW u, NEW b, NEW q
      PROVE  <<u, b, q>> \in transitions(r)
               <=> IF u = p THEN Has(post, b, q) ELSE <<u, b, q>> \in transitions(d)
  <2>1. <<u, b, q>> \in transitions(r) <=> u \in 0..n-1 /\ Has(r[u+1], b, q)
    BY <1>6, <1>7, TransitionsOf
  <2>2. <<u, b, q>> \in transitions(d) <=> u \in 0..n-1 /\ Has(d[u+1], b, q)
    BY TransitionsOf
  <2>3. CASE u = p
    BY <1>2, <1>5, <2>1, <2>3
  <2>4. CASE u # p
    <3>1. ASSUME u \in 0..n-1 PROVE r[u+1] = d[u+1]
      <4>1. u+1 \in 1..n /\ u+1 # p+1
        BY <1>1, <1>2, <2>4, <3>1
      <4> QED BY <1>5, <4>1
    <3> QED BY <2>1, <2>2, <2>4, <3>1
  <2> QED BY <2>3, <2>4
<1> QED BY <1>6, <1>7, <1>8 DEF r

(* The last element of an ordered vector is the largest.                   *)
LEMMA LastIsMax ==
  ASSUME NEW t \in OrdVector, t # << >>
  PROVE  Last(t) \in Range(t) /\ Last(t) \in Nat /\ \A q \in Range(t) : q <= Last(t)
<1> DEFINE n == Len(t)
<1>1. t \in Seq(Nat) /\ Ascending(t)
  BY DEF OrdVector
<1>2. n \in Nat /\ n # 0 /\ Range(t) = {t[i] : i \in 1..n} /\ \A i \in 1..n : t[i] \in Nat
  BY <1>1, RangeOf
<1>3. Last(t) = t[n] /\ n \in 1..n
  BY <1>2 DEF Last
<1>4. \A i \in 1..n-1 : t[i] < t[n]
  BY <1>1, <1>3 DEF Ascending
<1>5. \A i \in 1..n : i = n \/ i \in 1..n-1
  BY <1>2
<1>6. \A i \in 1..n : t[i] <= t[n]
  BY <1>2, <1>3, <1>4, <1>5
<1> QED BY <1>2, <1>3, <1>6

\* The transitions from p over a into T.
Arrows(p, a, T) == {<<p, a, q>> : q \in T}

(* add() adds the transitions, and the posts that they need.               *)
LEMMA AddTo ==
  ASSUME NEW d, IsDelta(d), NEW p \in Nat, NEW a \in Symbol, NEW t \in OrdVector, t # << >>
  PROVE  /\ IsDelta(add(d, p, a, t))
         /\ Len(add(d, p, a, t)) = Larger(Larger(p, Last(t)) + 1, Len(d))
         /\ transitions(add(d, p, a, t)) = transitions(d) \cup Arrows(p, a, Range(t))
<1> DEFINE n == Larger(p, Last(t)) + 1
           e == allocate(d, n)
           m == Larger(n, Len(d))
           post == insert_symbol(e[p+1], a, t)
           r == add(d, p, a, t)
<1>1. Last(t) \in Nat /\ \A q \in Range(t) : q <= Last(t)
  BY LastIsMax
<1>2. n \in Nat /\ p < n /\ \A q \in Range(t) : q < n
  <2>1. Range(t) \subseteq Nat
    BY RangeOf DEF OrdVector
  <2>2. LET l == Larger(p, Last(t)) IN l \in Nat /\ p <= l /\ Last(t) <= l
    BY <1>1, LargerOf
  <2> HIDE DEF n
  <2>3. n \in Nat /\ p < n /\ Last(t) < n
    BY <1>1, <2>2 DEF n
  <2> QED BY <1>1, <2>1, <2>3
<1>3. Len(d) \in Nat
  BY TransitionsOf
<1>4. m \in Nat /\ n <= m
  BY <1>2, <1>3, LargerOf
<1>5. IsDelta(e) /\ Len(e) = m /\ transitions(e) = transitions(d)
  BY <1>2, Allocate
<1>6. r = [e EXCEPT ![p+1] = post]
  BY DEF add
<1> HIDE DEF n, e, m, r
<1>7. p+1 \in 1..m /\ p \in 0..m-1
  BY <1>2, <1>4
<1>8. SoundPost(e[p+1], m)
  BY <1>5, <1>7, TransitionsOf
<1>9. Range(t) \subseteq 0..m-1
  <2>1. Range(t) \subseteq Nat
    BY RangeOf DEF OrdVector
  <2> QED BY <1>2, <1>4, <2>1
<1>10. SoundPost(post, m) /\ \A b, q : Has(post, b, q)
                                         <=> Has(e[p+1], b, q) \/ (b = a /\ q \in Range(t))
  BY <1>4, <1>8, <1>9, InsertSymbol
<1> HIDE DEF post
<1>11. /\ IsDelta(r) /\ Len(r) = m
       /\ \A u, b, q : <<u, b, q>> \in transitions(r)
            <=> IF u = p THEN Has(post, b, q) ELSE <<u, b, q>> \in transitions(e)
  <2>1. p \in 0..Len(e)-1 /\ SoundPost(post, Len(e))
    BY <1>5, <1>7, <1>10
  <2>2. r = Replaced(e, p, post)
    BY <1>6 DEF Replaced
  <2> QED BY <1>5, <2>1, <2>2, UpdatePost
<1>12. \A b, q : Has(e[p+1], b, q) <=> <<p, b, q>> \in transitions(e)
  BY <1>5, <1>7, TransitionsOf
<1>13. transitions(r) = transitions(d) \cup {<<p, a, q>> : q \in Range(t)}
  <2>1. transitions(r) \in SUBSET Triple /\ transitions(d) \in SUBSET Triple
    BY <1>11, TransitionTypes
  <2>2. Range(t) \subseteq Nat
    BY RangeOf DEF OrdVector
  <2>3. {<<p, a, q>> : q \in Range(t)} \in SUBSET Triple
    BY <2>2 DEF Triple
  <2>4. ASSUME NEW u \in Nat, NEW b \in Symbol, NEW q \in Nat
        PROVE  <<u, b, q>> \in transitions(r)
                 <=> <<u, b, q>> \in transitions(d) \cup {<<p, a, x>> : x \in Range(t)}
    <3>1. <<u, b, q>> \in {<<p, a, x>> : x \in Range(t)} <=> u = p /\ b = a /\ q \in Range(t)
      OBVIOUS
    <3> QED BY <1>5, <1>10, <1>11, <1>12, <3>1
  <2> DEFINE both == transitions(d) \cup {<<p, a, q>> : q \in Range(t)}
  <2>5. both \in SUBSET Triple
    BY <2>1, <2>3
  <2>6. \A u \in Nat, b \in Symbol, q \in Nat : <<u, b, q>> \in transitions(r) <=> <<u, b, q>> \in both
    BY <2>4
  <2> HIDE DEF both
  <2>7. transitions(r) = both
    BY <2>1, <2>5, <2>6, SameTriples
  <2> QED BY <2>7 DEF both
<1> QED BY <1>11, <1>13 DEF n, m, r, Arrows

(* Without targets, add() does nothing.                                    *)
LEMMA AddNothing ==
  ASSUME NEW d, NEW p, NEW a
  PROVE  add(d, p, a, << >>) = d
BY DEF add

(* A single target is an ordered vector.                                   *)
LEMMA SingleVector ==
  ASSUME NEW q \in Nat
  PROVE  <<q>> \in OrdVector /\ <<q>> # << >> /\ Last(<<q>>) = q /\ Range(<<q>>) = {q}
<1>1. <<q>> \in Seq(Nat) /\ Len(<<q>>) = 1 /\ <<q>>[1] = q
  OBVIOUS
<1>2. Ascending(<<q>>)
  BY <1>1 DEF Ascending
<1>3. Range(<<q>>) = {<<q>>[i] : i \in 1..1}
  <2> DEFINE T == Nat
             s == <<q>>
  <2>1. s \in Seq(T) /\ Len(s) = 1
    OBVIOUS
  <2> HIDE DEF T, s
  <2>2. Range(s) = {s[i] : i \in 1..1}
    BY <2>1, RangeOf
  <2> QED BY <2>2 DEF s
<1>4. 1..1 = {1}
  OBVIOUS
<1> QED BY <1>1, <1>2, <1>3, <1>4 DEF OrdVector, Last

\* S and one more.
With(S, t) == S \cup {t}

(* One transition added.                                                   *)
LEMMA AddOne ==
  ASSUME NEW d, IsDelta(d), NEW p \in Nat, NEW a \in Symbol, NEW q \in Nat
  PROVE  /\ IsDelta(add(d, p, a, <<q>>))
         /\ Len(add(d, p, a, <<q>>)) = Larger(Larger(p, q) + 1, Len(d))
         /\ transitions(add(d, p, a, <<q>>)) = With(transitions(d), <<p, a, q>>)
<1>1. <<q>> \in OrdVector /\ <<q>> # << >> /\ Last(<<q>>) = q /\ Range(<<q>>) = {q}
  BY SingleVector
<1>5. PICK one : one = <<q>>
  OBVIOUS
<1>2. one \in OrdVector /\ one # << >> /\ Last(one) = q /\ Range(one) = {q}
  BY <1>1, <1>5
<1>8. one \in OrdVector /\ one # << >>
  BY <1>2
<1>3. IsDelta(add(d, p, a, one))
  BY <1>2, AddTo
<1>6. Len(add(d, p, a, one)) = Larger(Larger(p, q) + 1, Len(d))
  BY <1>2, AddTo
<1>7. transitions(add(d, p, a, one)) = transitions(d) \cup Arrows(p, a, Range(one))
  BY <1>8, AddTo
<1>4. Arrows(p, a, Range(one)) = {<<p, a, q>>}
  BY <1>2 DEF Arrows
<1> QED BY <1>2, <1>3, <1>4, <1>5, <1>6, <1>7 DEF With

-----------------------------------------------------------------------------
(* remove() takes one transition away and leaves no symbol post empty.     *)
LEMMA RemoveFrom ==
  ASSUME NEW d, IsDelta(d), NEW p \in Nat, NEW a \in Symbol, NEW q \in Nat,
         ~ remove_throws(d, p, a)
  PROVE  /\ IsDelta(remove(d, p, a, q))
         /\ Len(remove(d, p, a, q)) = Len(d)
         /\ transitions(remove(d, p, a, q)) = transitions(d) \ {<<p, a, q>>}
<1> DEFINE n == Len(d)
           r == remove(d, p, a, q)
           post == d[p+1]
           k == place_of(post, a)
           left == filter(post[k].targets, Nat \ {q})
           new == IF left = << >> THEN RemoveAt(post, k) ELSE [post EXCEPT ![k].targets = left]
<1>1. n \in Nat /\ \A i \in 1..n : d[i] \in StatePost /\ SoundPost(d[i], n)
  BY TransitionsOf
<1>2. CASE ~ (p < n)
  <2>1. r = d
    BY <1>1, <1>2 DEF remove
  <2>2. <<p, a, q>> \notin transitions(d)
    <3>1. p \notin 0..n-1
      BY <1>1, <1>2
    <3> QED BY <3>1, TransitionsOf
  <2> QED BY <2>1, <2>2
<1>3. CASE p < n
  <2>1. a \in SymbolsOf(post) /\ p+1 \in 1..n /\ p \in 0..n-1
    BY <1>1, <1>3 DEF remove_throws
  <2>2. SoundPost(post, n) /\ post \in StatePost
    BY <1>1, <2>1
  <2>3. r = [d EXCEPT ![p+1] = new]
    BY <1>1, <1>3 DEF remove
  <2> HIDE DEF r, n
  <2>4. /\ k \in 1..Len(post) /\ post[k].symbol = a
        /\ \A j \in 1..Len(post) : post[j].symbol = a => j = k
    BY <1>1, <2>1, <2>2, PlaceFound
  <2>5. /\ Len(post) \in Nat
        /\ \A j \in 1..Len(post) : /\ post[j] \in SymbolPost
                                   /\ post[j].symbol \in Symbol
                                   /\ post[j].targets \in Seq(Nat)
                                   /\ post[j].targets # << >> /\ post[j].targets \in OrdVector
                                   /\ Range(post[j].targets) \subseteq 0..n-1
                                   /\ \A i \in 1..j-1 : post[i].symbol < post[j].symbol
    BY <2>2, PostParts DEF SoundPost
  <2>6. left \in OrdVector /\ Range(left) = Range(post[k].targets) \ {q}
    <3>1. post[k].targets \in OrdVector /\ Range(post[k].targets) \subseteq Nat
      BY <2>4, <2>5, RangeOf
    <3>2. left \in OrdVector /\ Range(left) = Range(post[k].targets) \cap (Nat \ {q})
      BY <3>1, FilterOrdered
    <3> QED BY <3>1, <3>2
  <2> HIDE DEF k, post
  <2>7. SoundPost(new, n) /\ \A b, x : Has(new, b, x) <=> Has(post, b, x) /\ ~ (b = a /\ x = q)
    <3> HIDE DEF left
    <3>1. CASE left = << >>
      <4> DEFINE T == SymbolPost
                 m == Len(post)
      <4>1. post \in Seq(T)
        BY <2>2 DEF StatePost
      <4>2. new = RemoveAt(post, k)
        BY <3>1
      <4> HIDE DEF T, new
      <4>3. new \in Seq(T) /\ Len(new) = m-1
            /\ \A i \in 1..m-1 : new[i] = IF i < k THEN post[i] ELSE post[i+1]
        BY <2>4, <4>1, <4>2, RemoveAtPlace
      <4>4. new \in StatePost
        BY <4>3 DEF T, StatePost
      <4>5. Range(post[k].targets) \subseteq {q}
        <5>1. Range(left) = {}
          <6>1. left = << >> /\ Len(<< >>) = 0
            BY <3>1
          <6> QED BY <6>1 DEF Range
        <5> QED BY <2>6, <5>1
      <4> HIDE DEF m
      <4>6. m \in Nat /\ k \in 1..m
        BY <2>4, <2>5 DEF m
      <4>7. \A i \in 1..m-1 : \E j \in 1..m : /\ new[i] = post[j] /\ j # k
                                              /\ IF i < k THEN j = i ELSE j = i+1
        BY <4>3, <4>6
      <4>8. \A i \in 1..m-1 : \A j \in 1..i-1 : new[j].symbol < new[i].symbol
        <5> SUFFICES ASSUME NEW i \in 1..m-1, NEW j \in 1..i-1
                     PROVE  new[j].symbol < new[i].symbol
          OBVIOUS
        <5>1. PICK x \in 1..m : new[i] = post[x] /\ IF i < k THEN x = i ELSE x = i+1
          BY <4>7
        <5>2. j \in 1..m-1
          BY <4>6
        <5>3. PICK y \in 1..m : new[j] = post[y] /\ IF j < k THEN y = j ELSE y = j+1
          BY <4>7, <5>2
        <5>4. y \in 1..x-1
          BY <4>6, <5>1, <5>3
        <5> QED BY <2>5, <5>1, <5>3, <5>4 DEF m
      <4>9. \A i \in 1..m-1 : /\ new[i].targets # << >> /\ new[i].targets \in OrdVector
                              /\ Range(new[i].targets) \subseteq 0..n-1
        BY <2>5, <4>7 DEF m
      <4>10. SoundPost(new, n)
        BY <4>3, <4>4, <4>8, <4>9 DEF SoundPost
      <4>11. ASSUME NEW b, NEW x
             PROVE  Has(new, b, x) <=> Has(post, b, x) /\ ~ (b = a /\ x = q)
        <5>1. ASSUME Has(new, b, x) PROVE Has(post, b, x) /\ ~ (b = a /\ x = q)
          <6>1. PICK i \in 1..m-1 : new[i].symbol = b /\ x \in Range(new[i].targets)
            BY <4>3, <5>1 DEF Has
          <6>2. PICK j \in 1..m : new[i] = post[j] /\ j # k
            BY <4>7
          <6>3. b # a
            BY <2>4, <6>1, <6>2 DEF m
          <6> QED BY <6>1, <6>2, <6>3 DEF Has, m
        <5>2. ASSUME Has(post, b, x), ~ (b = a /\ x = q) PROVE Has(new, b, x)
          <6>1. PICK j \in 1..m : post[j].symbol = b /\ x \in Range(post[j].targets)
            BY <5>2 DEF Has, m
          <6>2. j # k
            BY <2>4, <4>5, <5>2, <6>1
          <6>3. \E i \in 1..m-1 : new[i] = post[j]
            <7>1. CASE j < k
              <8>1. j \in 1..m-1
                BY <4>6, <7>1
              <8> QED BY <4>3, <7>1, <8>1
            <7>2. CASE ~ (j < k)
              <8>1. j-1 \in 1..m-1 /\ ~ (j-1 < k) /\ (j-1)+1 = j
                BY <4>6, <6>2, <7>2
              <8> QED BY <4>3, <8>1
            <7> QED BY <7>1, <7>2
          <6> QED BY <4>3, <6>1, <6>3 DEF Has
        <5> QED BY <5>1, <5>2
      <4> QED BY <4>10, <4>11
    <3>2. CASE left # << >>
      <4> DEFINE m == Len(post)
      <4>1. new = [post EXCEPT ![k] = [post[k] EXCEPT !.targets = left]]
        BY <3>2
      <4> HIDE DEF new
      <4> DEFINE sp == [post[k] EXCEPT !.targets = left]
      <4>2. sp \in SymbolPost /\ sp.symbol = a /\ sp.targets = left
        <5>1. post[k] \in SymbolPost /\ left \in Seq(Nat)
          BY <2>4, <2>5, <2>6 DEF OrdVector
        <5> QED BY <2>4, <5>1 DEF SymbolPost
      <4> HIDE DEF sp
      <4>3. new = [post EXCEPT ![k] = sp]
        BY <4>1 DEF sp
      <4>4. post \in [1..m -> SymbolPost] /\ m \in Nat
        BY <2>2, <2>5 DEF StatePost
      <4>5. new \in [1..m -> SymbolPost] /\ \A i \in 1..m : new[i] = IF i = k THEN sp ELSE post[i]
        BY <4>2, <4>3, <4>4
      <4>6. new \in StatePost /\ Len(new) = m
        BY <4>4, <4>5, SeqDef DEF StatePost
      <4>7. \A i \in 1..m : new[i].symbol = post[i].symbol
        BY <2>4, <4>2, <4>5
      <4>8. \A i \in 1..m : \A j \in 1..i-1 : new[j].symbol < new[i].symbol
        <5>1. \A i \in 1..m : \A j \in 1..i-1 : j \in 1..m
          BY <4>4
        <5> QED BY <2>5, <4>7, <5>1
      <4>9. \A i \in 1..m : /\ new[i].targets # << >> /\ new[i].targets \in OrdVector
                            /\ Range(new[i].targets) \subseteq 0..n-1
        BY <2>4, <2>5, <2>6, <3>2, <4>2, <4>5
      <4>10. SoundPost(new, n)
        BY <4>6, <4>8, <4>9 DEF SoundPost
      <4>11. ASSUME NEW b, NEW x
             PROVE  Has(new, b, x) <=> Has(post, b, x) /\ ~ (b = a /\ x = q)
        <5>1. Has(new, b, x) <=> \E i \in 1..m : new[i].symbol = b /\ x \in Range(new[i].targets)
          BY <4>6 DEF Has
        <5>2. Has(post, b, x) <=> \E i \in 1..m : post[i].symbol = b /\ x \in Range(post[i].targets)
          BY DEF Has
        <5> QED BY <2>4, <2>6, <4>2, <4>5, <4>7, <5>1, <5>2
      <4> QED BY <4>10, <4>11
    <3> QED BY <3>1, <3>2
  <2> HIDE DEF new
  <2>8. /\ IsDelta(r) /\ Len(r) = n
        /\ \A u, b, x : <<u, b, x>> \in transitions(r)
             <=> IF u = p THEN Has(new, b, x) ELSE <<u, b, x>> \in transitions(d)
    <3>1. p \in 0..Len(d)-1 /\ SoundPost(new, Len(d)) /\ r = Replaced(d, p, new)
      BY <2>1, <2>3, <2>7 DEF n, Replaced
    <3> QED BY <3>1, UpdatePost DEF n
  <2>9. \A b, x : Has(post, b, x) <=> <<p, b, x>> \in transitions(d)
    BY <2>1, TransitionsOf DEF post, n
  <2>10. transitions(r) = transitions(d) \ {<<p, a, q>>}
    <3> DEFINE rest == transitions(d) \ {<<p, a, q>>}
    <3>1. transitions(r) \in SUBSET Triple /\ rest \in SUBSET Triple
      BY <2>8, TransitionTypes
    <3>2. \A u \in Nat, b \in Symbol, x \in Nat : <<u, b, x>> \in transitions(r) <=> <<u, b, x>> \in rest
      BY <2>7, <2>8, <2>9
    <3> HIDE DEF rest
    <3>3. transitions(r) = rest
      BY <3>1, <3>2, SameTriples
    <3> QED BY <3>3 DEF rest
  <2> QED BY <2>8, <2>10 DEF r, n
<1> QED BY <1>2, <1>3

-----------------------------------------------------------------------------
\* The set of sound deltas.
Deltas == {d \in Seq(StatePost) : IsDelta(d)}

\* From d, T is added and the posts that T needs.
Extends(d, T, r) ==
  /\ r \in Deltas
  /\ transitions(r) = transitions(d) \cup T
  /\ Len(d) <= Len(r)
  /\ \A t \in T : t[1] < Len(r) /\ t[3] < Len(r)
  /\ Len(r) = Len(d) \/ \E t \in T : Len(r) = t[1] + 1 \/ Len(r) = t[3] + 1

(* Membership in Deltas is IsDelta.                                        *)
LEMMA DeltasAre ==
  /\ \A d : d \in Deltas <=> IsDelta(d)
  /\ \A d \in Deltas : Len(d) \in Nat
BY TransitionsOf DEF Deltas, IsDelta

(* One add() more: the posts needed are still no more than those there.    *)
LEMMA ExtendsByOne ==
  ASSUME NEW d \in Deltas, NEW T \in SUBSET Triple, NEW r, Extends(d, T, r), NEW t \in Triple
  PROVE  Extends(d, T \cup {t}, add(r, t[1], t[2], <<t[3]>>))
<1> DEFINE e == add(r, t[1], t[2], <<t[3]>>)
           m == Larger(t[1], t[3])
<1>1. t[1] \in Nat /\ t[2] \in Symbol /\ t[3] \in Nat /\ t = <<t[1], t[2], t[3]>>
  BY DEF Triple
<1>2. /\ r \in Deltas /\ IsDelta(r) /\ Len(r) \in Nat /\ Len(d) \in Nat
      /\ transitions(r) = transitions(d) \cup T /\ Len(d) <= Len(r)
      /\ \A u \in T : u[1] < Len(r) /\ u[3] < Len(r)
      /\ Len(r) = Len(d) \/ \E u \in T : Len(r) = u[1] + 1 \/ Len(r) = u[3] + 1
  BY DeltasAre DEF Extends
<1>3. IsDelta(e)
  BY <1>1, <1>2, AddOne
<1>4. Len(e) = Larger(m + 1, Len(r))
  BY <1>1, <1>2, AddOne
<1>5. transitions(e) = transitions(r) \cup {t}
  <2>0. IsDelta(r) /\ t[1] \in Nat /\ t[2] \in Symbol /\ t[3] \in Nat
    BY <1>1, <1>2
  <2>1. transitions(e) = With(transitions(r), <<t[1], t[2], t[3]>>)
    BY <2>0, AddOne
  <2> QED BY <1>1, <2>1 DEF With
<1>6. m \in Nat /\ t[1] <= m /\ t[3] <= m /\ (m = t[1] \/ m = t[3])
  BY <1>1, LargerOf
<1> HIDE DEF e, m
<1>7. /\ Len(e) \in Nat /\ m + 1 <= Len(e) /\ Len(r) <= Len(e)
      /\ Len(e) = m + 1 \/ Len(e) = Len(r)
  BY <1>2, <1>4, <1>6, LargerOf
<1>8. transitions(e) = transitions(d) \cup (T \cup {t})
  BY <1>1, <1>2, <1>5
<1>9. \A u \in T \cup {t} : u[1] < Len(e) /\ u[3] < Len(e)
  <2>1. t[1] < Len(e) /\ t[3] < Len(e)
    BY <1>1, <1>6, <1>7
  <2>2. ASSUME NEW u \in T PROVE u[1] < Len(e) /\ u[3] < Len(e)
    <3>1. u[1] \in Nat /\ u[3] \in Nat
      BY DEF Triple
    <3>2. u[1] < Len(r) /\ u[3] < Len(r)
      BY <1>2
    <3> QED BY <1>2, <1>7, <3>1, <3>2
  <2> QED BY <2>1, <2>2
<1>10. Len(e) = Len(d) \/ \E u \in T \cup {t} : Len(e) = u[1] + 1 \/ Len(e) = u[3] + 1
  BY <1>2, <1>6, <1>7
<1>11. Len(d) <= Len(e)
  BY <1>2, <1>7
<1> QED BY <1>3, <1>8, <1>9, <1>10, <1>11, DeltasAre DEF Extends, e

(* add() for each of a finite set of transitions, in any order.            *)
LEMMA AddAll ==
  ASSUME NEW d, IsDelta(d), NEW T \in SUBSET Triple, IsFiniteSet(T)
  PROVE  Extends(d, T, add_all(d, T))
<1> DEFINE pick == [s \in SUBSET T |-> CHOOSE x \in s : TRUE]
           after(e, t) == add(e, t[1], t[2], <<t[3]>>)
           step == [t \in T |-> [e \in Deltas |-> after(e, t)]]
           IsRun(g) == g = [s \in SUBSET T |-> IF s = {} THEN d
                              ELSE after(g[s \ {CHOOSE x \in s : TRUE}], CHOOSE x \in s : TRUE)]
           r == CHOOSE g : IsRun(g)
<1>1. add_all(d, T) = r[T]
  BY DEF add_all, FoldSet, MapThenFoldSet
<1>2. d \in Deltas
  BY DeltasAre
<1>3. \A t \in T : \A e \in Deltas : step[t][e] = after(e, t) /\ step[t][e] \in Deltas
  <2>1. ASSUME NEW t \in T, NEW e \in Deltas PROVE after(e, t) \in Deltas
    <3>1. t[1] \in Nat /\ t[2] \in Symbol /\ t[3] \in Nat
      BY DEF Triple
    <3>2. IsDelta(after(e, t))
      BY <3>1, AddOne, DeltasAre
    <3> QED BY <3>2, DeltasAre
  <2> QED BY <2>1
<1> HIDE DEF step
<1>4. IsPick(pick, T)
  <2>1. ASSUME NEW s \in SUBSET T, s # {} PROVE pick[s] \in s
    <3>1. pick[s] = CHOOSE x \in s : TRUE
      OBVIOUS
    <3> QED BY <2>1, <3>1
  <2> QED BY <2>1 DEF IsPick
<1>5. \A s \in SUBSET T : s # {} => pick[s] = (CHOOSE x \in s : TRUE) /\ pick[s] \in T
  BY <1>4 DEF IsPick
<1> HIDE DEF pick
<1>6. PICK g : IsFold(g, T, Deltas, d, step, pick)
  <2>1. StepsOver(step, T, Deltas)
    BY <1>3 DEF StepsOver
  <2> HIDE DEF r, IsRun, after
  <2> QED BY <1>2, <1>4, <2>1, FoldExists
<1>7. /\ g \in [SUBSET T -> Deltas] /\ g[{}] = d
      /\ \A s \in SUBSET T : s # {} => g[s] = after(g[s \ {pick[s]}], pick[s])
  <2>1. /\ g \in [SUBSET T -> Deltas] /\ g[{}] = d
        /\ \A s \in SUBSET T : s # {} => g[s] = step[pick[s]][g[s \ {pick[s]}]]
    BY <1>6 DEF IsFold
  <2>2. \A s \in SUBSET T : g[s \ {pick[s]}] \in Deltas
    BY <2>1
  <2> HIDE DEF after
  <2> QED BY <2>1, <2>2, <1>3, <1>5
<1>8. IsRun(r)
  <2> HIDE DEF after
  <2>1. ASSUME NEW s \in SUBSET T
        PROVE  g[s] = IF s = {} THEN d
                      ELSE after(g[s \ {CHOOSE x \in s : TRUE}], CHOOSE x \in s : TRUE)
    BY <1>5, <1>7
  <2>2. IsRun(g)
    BY <1>7, <2>1
  <2> HIDE DEF IsRun
  <2>3. \E h : IsRun(h)
    BY <2>2
  <2> QED BY <2>3 DEF r
<1> HIDE DEF r
<1>9. r[{}] = d /\ \A s \in SUBSET T : s # {} => r[s] = after(r[s \ {pick[s]}], pick[s])
  <2> HIDE DEF after
  <2>1. \A s \in SUBSET T : r[s] = IF s = {} THEN d
                      ELSE after(r[s \ {CHOOSE x \in s : TRUE}], CHOOSE x \in s : TRUE)
    BY <1>8
  <2> QED BY <1>5, <2>1
<1>10. \A s \in SUBSET T : r[s] = g[s]
  <2> HIDE DEF after, IsRun
  <2>1. ASSUME NEW s \in SUBSET T, s # {}, r[s \ {pick[s]}] \in Deltas
        PROVE  r[s] = step[pick[s]][r[s \ {pick[s]}]]
    <3>1. pick[s] \in T
      BY <1>5, <2>1
    <3>2. step[pick[s]][r[s \ {pick[s]}]] = after(r[s \ {pick[s]}], pick[s])
      BY <1>3, <2>1, <3>1
    <3>3. r[s] = after(r[s \ {pick[s]}], pick[s])
      BY <1>9, <2>1
    <3> QED BY <3>2, <3>3
  <2>2. Follows(r, T, Deltas, d, step, pick)
    BY <1>9, <2>1 DEF Follows
  <2> QED BY <1>4, <1>6, <2>2, FoldUnique
<1> DEFINE Good == {s \in SUBSET T : Extends(d, s, g[s])}
<1>11. \A s \in SUBSET T : s \in Good
  <2>1. {} \in Good
    <3>1. Extends(d, {}, d)
      BY <1>2, DeltasAre DEF Extends
    <3> QED BY <1>7, <3>1
  <2>2. ASSUME NEW s \in SUBSET T, s # {}, s \ {pick[s]} \in Good PROVE s \in Good
    <3>1. pick[s] \in s /\ pick[s] \in Triple
      BY <1>4, <2>2 DEF IsPick
    <3> DEFINE rest == s \ {pick[s]}
               t == pick[s]
    <3>2. Extends(d, rest, g[rest]) /\ rest \in SUBSET Triple
      BY <2>2
    <3>3. Extends(d, rest \cup {t}, after(g[rest], t))
      <4> HIDE DEF rest, t
      <4>1. t \in Triple
        BY <3>1 DEF t
      <4> QED BY <1>2, <3>2, <4>1, ExtendsByOne
    <3>4. rest \cup {t} = s /\ g[s] = after(g[rest], t)
      <4> HIDE DEF after
      <4> QED BY <1>7, <2>2, <3>1
    <3> HIDE DEF after, rest, t
    <3> QED BY <3>3, <3>4
  <2>3. Good \in SUBSET SUBSET T
    OBVIOUS
  <2> HIDE DEF Good
  <2>4. \A s \in SUBSET T : s # {} => \E x \in s : s \ {x} \in Good => s \in Good
    <3>1. ASSUME NEW s \in SUBSET T, s # {} PROVE \E x \in s : s \ {x} \in Good => s \in Good
      <4>1. pick[s] \in s
        BY <1>4, <3>1 DEF IsPick
      <4> QED BY <2>2, <3>1, <4>1
    <3> QED BY <3>1
  <2> QED BY <2>1, <2>3, <2>4, SubsetInduction
<1>12. T \in Good /\ r[T] = g[T]
  BY <1>10, <1>11
<1> QED BY <1>1, <1>12

-----------------------------------------------------------------------------
\* What renumber_targets() makes of a vector, ...
shifted_vector(s, n) == [j \in 1..Len(s) |-> s[j] + n]

\* ... and of a state post.
shifted_post(post, n) ==
  [k \in 1..Len(post) |-> [post[k] EXCEPT !.targets = shifted_vector(@, n)]]

(* Adding a number to all keeps an ordered vector ordered.                 *)
LEMMA ShiftedVector ==
  ASSUME NEW s \in OrdVector, NEW n \in Nat
  PROVE  /\ shifted_vector(s, n) \in OrdVector
         /\ Range(shifted_vector(s, n)) = {x + n : x \in Range(s)}
         /\ s # << >> => shifted_vector(s, n) # << >>
<1> DEFINE r == shifted_vector(s, n)
           T == Nat
<1>1. /\ s \in Seq(T) /\ Len(s) \in Nat /\ (\A j \in 1..Len(s) : s[j] \in Nat)
      /\ Range(s) = {s[j] : j \in 1..Len(s)} /\ (s # << >> <=> Len(s) # 0)
  BY RangeOf DEF OrdVector
<1>2. r \in [1..Len(s) -> Nat] /\ \A j \in 1..Len(s) : r[j] = s[j] + n
  BY <1>1 DEF shifted_vector
<1> HIDE DEF r
<1>3. r \in Seq(Nat) /\ Len(r) = Len(s)
  BY <1>1, <1>2, SeqDef
<1>4. Ascending(r)
  <2>1. \A i \in 1..Len(s) : \A j \in 1..i-1 : j \in 1..Len(s) /\ s[j] < s[i]
    BY <1>1 DEF OrdVector, Ascending
  <2> SUFFICES ASSUME NEW i \in 1..Len(s), NEW j \in 1..i-1 PROVE r[j] < r[i]
    BY <1>3 DEF Ascending
  <2>2. j \in 1..Len(s) /\ s[j] < s[i] /\ s[j] \in Nat /\ s[i] \in Nat
    BY <1>1, <2>1
  <2>3. r[i] = s[i] + n /\ r[j] = s[j] + n
    BY <1>2, <2>2
  <2> QED BY <2>2, <2>3
<1>5. r \in Seq(T)
  BY <1>3
<1> HIDE DEF T
<1>6. Range(r) = {r[j] : j \in 1..Len(r)} /\ (r # << >> <=> Len(r) # 0)
  BY <1>5, RangeOf
<1>7. Range(r) = {x + n : x \in Range(s)}
  <2>1. \A y : y \in Range(r) <=> \E j \in 1..Len(s) : y = s[j] + n
    BY <1>2, <1>3, <1>6
  <2>2. \A y : y \in {x + n : x \in Range(s)} <=> \E j \in 1..Len(s) : y = s[j] + n
    BY <1>1
  <2> QED BY <2>1, <2>2
<1> QED BY <1>1, <1>3, <1>4, <1>6, <1>7 DEF r, OrdVector

\* The post has a move over a to a state that is n below q.
HasBefore(post, n, a, q) == \E x : Has(post, a, x) /\ q = x + n

(* Adding a number to the targets of a post moves its moves along.         *)
LEMMA ShiftedPost ==
  ASSUME NEW N \in Nat, NEW post, SoundPost(post, N), NEW n \in Nat
  PROVE  /\ SoundPost(shifted_post(post, n), N + n)
         /\ \A a, q : Has(shifted_post(post, n), a, q) <=> HasBefore(post, n, a, q)
<1> DEFINE r == shifted_post(post, n)
           m == Len(post)
<1>1. /\ post \in StatePost /\ m \in Nat
      /\ \A k \in 1..m : /\ post[k] \in SymbolPost
                         /\ post[k].symbol \in Symbol
                         /\ post[k].targets # << >> /\ post[k].targets \in OrdVector
                         /\ Range(post[k].targets) \subseteq 0..N-1
                         /\ \A j \in 1..k-1 : j \in 1..m /\ post[j].symbol < post[k].symbol
  BY PostParts DEF SoundPost
<1>2. \A k \in 1..m : r[k] = [post[k] EXCEPT !.targets = shifted_vector(post[k].targets, n)]
  BY DEF shifted_post
<1>3. ASSUME NEW k \in 1..m
      PROVE  /\ r[k] \in SymbolPost /\ r[k].symbol = post[k].symbol
             /\ r[k].targets = shifted_vector(post[k].targets, n)
             /\ r[k].targets \in OrdVector /\ r[k].targets # << >>
             /\ Range(r[k].targets) = {x + n : x \in Range(post[k].targets)}
  <2>1. /\ shifted_vector(post[k].targets, n) \in OrdVector
        /\ shifted_vector(post[k].targets, n) # << >>
        /\ Range(shifted_vector(post[k].targets, n)) = {x + n : x \in Range(post[k].targets)}
    BY <1>1, ShiftedVector
  <2>2. shifted_vector(post[k].targets, n) \in Seq(Nat)
    BY <2>1 DEF OrdVector
  <2>3. /\ r[k] \in SymbolPost /\ r[k].symbol = post[k].symbol
        /\ r[k].targets = shifted_vector(post[k].targets, n)
    BY <1>1, <1>2, <2>2 DEF SymbolPost
  <2> QED BY <2>1, <2>3
<1>4. r \in [1..m -> SymbolPost]
  BY <1>3 DEF shifted_post
<1> HIDE DEF r
<1>5. r \in StatePost /\ Len(r) = m
  BY <1>1, <1>4, SeqDef DEF StatePost
<1>6. SoundPost(r, N + n)
  <2>1. ASSUME NEW k \in 1..m PROVE Range(r[k].targets) \subseteq 0..(N+n)-1
    <3>1. \A x \in 0..N-1 : x + n \in 0..(N+n)-1
      OBVIOUS
    <3>2. \A y \in Range(r[k].targets) : \E x \in 0..N-1 : y = x + n
      BY <1>1, <1>3
    <3> QED BY <3>1, <3>2
  <2>2. \A k \in 1..m : \A j \in 1..k-1 : r[j].symbol < r[k].symbol
    BY <1>1, <1>3
  <2> QED BY <1>3, <1>5, <2>1, <2>2 DEF SoundPost
<1>7. ASSUME NEW a, NEW q
      PROVE  Has(r, a, q) <=> \E x : Has(post, a, x) /\ q = x + n
  <2>1. Has(r, a, q) <=> \E k \in 1..m : r[k].symbol = a /\ q \in Range(r[k].targets)
    BY <1>5 DEF Has
  <2>2. Has(r, a, q) <=> \E k \in 1..m : post[k].symbol = a
                                          /\ \E x \in Range(post[k].targets) : q = x + n
    BY <1>3, <2>1
  <2> QED BY <2>2 DEF Has
<1> QED BY <1>6, <1>7 DEF r, HasBefore

\* The transitions with n added to both their states.
Shifted(T, n) == {<<t[1] + n, t[2], t[3] + n>> : t \in T}

(* The posts of two deltas in a row, the second one's targets moved along. *)
LEMMA UnitedDelta ==
  ASSUME NEW d, IsDelta(d), NEW b, IsDelta(b), NEW n \in Nat, Len(d) <= n
  PROVE  /\ IsDelta(allocate(d, n) \o renumber_targets(b, n))
         /\ Len(allocate(d, n) \o renumber_targets(b, n)) = n + Len(b)
         /\ transitions(allocate(d, n) \o renumber_targets(b, n))
              = transitions(d) \cup Shifted(transitions(b), n)
<1> DEFINE e == allocate(d, n)
           c == renumber_targets(b, n)
           r == e \o c
           m == Len(b)
<1>1. m \in Nat /\ Len(d) \in Nat /\ \A i \in 1..m : b[i] \in StatePost /\ SoundPost(b[i], m)
  BY TransitionsOf
<1>2. Larger(n, Len(d)) = n
  BY <1>1 DEF Larger
<1>3. IsDelta(e) /\ Len(e) = n /\ transitions(e) = transitions(d)
  BY <1>2, Allocate
<1>4. c = [i \in 1..m |-> shifted_post(b[i], n)]
  BY DEF renumber_targets, shifted_post, shifted_vector
<1> HIDE DEF e, c, m
<1>5. \A i \in 1..m : /\ c[i] = shifted_post(b[i], n)
                      /\ SoundPost(c[i], m + n) /\ c[i] \in StatePost
  <2>1. ASSUME NEW i \in 1..m PROVE c[i] = shifted_post(b[i], n) /\ SoundPost(c[i], m + n)
    <3>1. SoundPost(shifted_post(b[i], n), m + n)
      BY <1>1, ShiftedPost
    <3> QED BY <1>4, <3>1
  <2> QED BY <2>1 DEF SoundPost
<1>16. ASSUME NEW i \in 1..m
       PROVE  \A a, y : Has(shifted_post(b[i], n), a, y) <=> HasBefore(b[i], n, a, y)
  <2> DEFINE post == b[i]
  <2>1. SoundPost(post, m) /\ m \in Nat
    BY <1>1
  <2> HIDE DEF post
  <2>2. \A a, y : Has(shifted_post(post, n), a, y) <=> HasBefore(post, n, a, y)
    BY <2>1, ShiftedPost
  <2> QED BY <2>2 DEF post
<1>6. c \in Seq(StatePost) /\ Len(c) = m
  <2>1. c \in [1..m -> StatePost]
    BY <1>4, <1>5
  <2> QED BY <1>1, <2>1, SeqDef
<1>7. e \in Seq(StatePost) /\ \A i \in 1..n : SoundPost(e[i], n)
  BY <1>3, TransitionsOf DEF IsDelta
<1>8. /\ r \in Seq(StatePost) /\ Len(r) = n + m
      /\ \A i \in 1..n+m : r[i] = IF i <= n THEN e[i] ELSE c[i-n]
  BY <1>1, <1>3, <1>6, <1>7, ConcatProperties
<1> HIDE DEF r
<1>9. \A i \in 1..n : r[i] = e[i] /\ SoundPost(r[i], n + m)
  <2>1. ASSUME NEW i \in 1..n PROVE r[i] = e[i] /\ SoundPost(r[i], n + m)
    <3>1. i \in 1..n+m /\ i <= n
      BY <1>1
    <3>2. SoundPost(e[i], n) /\ n <= n + m /\ n + m \in Nat
      BY <1>1, <1>7
    <3>3. SoundPost(e[i], n + m)
      BY <3>2, SoundPostIn
    <3> QED BY <1>8, <3>1, <3>3
  <2> QED BY <2>1
<1>10. \A i \in n+1..n+m : r[i] = c[i-n] /\ i-n \in 1..m /\ SoundPost(r[i], n + m)
  <2>1. ASSUME NEW i \in n+1..n+m PROVE r[i] = c[i-n] /\ i-n \in 1..m /\ SoundPost(r[i], n + m)
    <3>1. i \in 1..n+m /\ ~ (i <= n) /\ i-n \in 1..m /\ m + n = n + m
      BY <1>1
    <3> QED BY <1>5, <1>8, <3>1
  <2> QED BY <2>1
<1>11. IsDelta(r)
  <2>1. \A i \in 1..n+m : i \in 1..n \/ i \in n+1..n+m
    BY <1>1
  <2>2. \A i \in 1..n+m : SoundPost(r[i], n + m)
    BY <1>9, <1>10, <2>1
  <2> QED BY <1>8, <2>2 DEF IsDelta
<1> DEFINE both == transitions(d) \cup Shifted(transitions(b), n)
<1>12. \A t \in transitions(b) : /\ t = <<t[1], t[2], t[3]>> /\ t[1] \in 0..m-1
                                 /\ t[2] \in Symbol /\ t[3] \in 0..m-1
  BY TransitionTypes DEF m
<1>13. transitions(r) \in SUBSET Triple /\ both \in SUBSET Triple
  <2>1. transitions(r) \in SUBSET Triple /\ transitions(d) \in SUBSET Triple
    BY <1>11, TransitionTypes
  <2>2. Shifted(transitions(b), n) \in SUBSET Triple
    <3>1. ASSUME NEW t \in transitions(b) PROVE <<t[1] + n, t[2], t[3] + n>> \in Triple
      <4>1. t[1] + n \in Nat /\ t[3] + n \in Nat
        BY <1>1, <1>12
      <4> QED BY <4>1, <1>12 DEF Triple
    <3> QED BY <3>1 DEF Shifted
  <2> QED BY <2>1, <2>2
<1>14. ASSUME NEW p \in Nat, NEW a \in Symbol, NEW q \in Nat
       PROVE  <<p, a, q>> \in transitions(r) <=> <<p, a, q>> \in both
  <2>1. <<p, a, q>> \in transitions(r) <=> p \in 0..(n+m)-1 /\ Has(r[p+1], a, q)
    BY <1>8, <1>11, TransitionsOf
  <2>2. <<p, a, q>> \in transitions(d) <=> p \in 0..n-1 /\ Has(e[p+1], a, q)
    BY <1>3, TransitionsOf
  <2>3. <<p, a, q>> \in Shifted(transitions(b), n)
          <=> \E t \in transitions(b) : p = t[1] + n /\ a = t[2] /\ q = t[3] + n
    BY DEF Shifted
  <2>4. CASE p < n
    <3>1. p \in 0..n-1 /\ p \in 0..(n+m)-1 /\ p+1 \in 1..n
      BY <1>1, <2>4
    <3>2. <<p, a, q>> \notin Shifted(transitions(b), n)
      <4>1. \A t \in transitions(b) : p # t[1] + n
        BY <1>1, <1>12, <2>4
      <4> QED BY <2>3, <4>1
    <3> QED BY <1>9, <2>1, <2>2, <3>1, <3>2
  <2>5. CASE ~ (p < n)
    <3>1. p \notin 0..n-1 /\ (p \in 0..(n+m)-1 <=> p-n \in 0..m-1)
      BY <1>1, <2>5
    <3>2. <<p, a, q>> \in transitions(r)
            <=> p-n \in 0..m-1 /\ \E x : Has(b[(p-n)+1], a, x) /\ q = x + n
      <4>1. ASSUME p-n \in 0..m-1 PROVE Has(r[p+1], a, q) <=> \E x : Has(b[(p-n)+1], a, x) /\ q = x + n
        <5>1. p+1 \in n+1..n+m /\ (p+1)-n = (p-n)+1 /\ (p-n)+1 \in 1..m
          BY <1>1, <2>5, <4>1
        <5>2. r[p+1] = shifted_post(b[(p-n)+1], n)
          BY <1>5, <1>10, <5>1
        <5>3. Has(shifted_post(b[(p-n)+1], n), a, q) <=> HasBefore(b[(p-n)+1], n, a, q)
          BY <1>16, <5>1
        <5> QED BY <5>2, <5>3 DEF HasBefore
      <4> QED BY <2>1, <3>1, <4>1
    <3>3. <<p, a, q>> \in transitions(r) <=> \E x : <<p-n, a, x>> \in transitions(b) /\ q = x + n
      BY <3>2, TransitionsOf DEF m
    <3>4. (\E x : <<p-n, a, x>> \in transitions(b) /\ q = x + n)
             <=> \E t \in transitions(b) : p = t[1] + n /\ a = t[2] /\ q = t[3] + n
      <4>1. ASSUME NEW x, <<p-n, a, x>> \in transitions(b), q = x + n
            PROVE  \E t \in transitions(b) : p = t[1] + n /\ a = t[2] /\ q = t[3] + n
        <5>1. p = (p-n) + n
          BY <2>5
        <5> QED BY <4>1, <5>1
      <4>2. ASSUME NEW t \in transitions(b), p = t[1] + n, a = t[2], q = t[3] + n
            PROVE  <<p-n, a, t[3]>> \in transitions(b)
        <5>1. p-n = t[1]
          BY <1>1, <1>12, <4>2
        <5> QED BY <1>12, <4>2, <5>1
      <4> QED BY <4>1, <4>2
    <3> QED BY <2>2, <2>3, <3>1, <3>3, <3>4
  <2> QED BY <2>4, <2>5
<1>15. transitions(r) = both
  <2> HIDE DEF both
  <2> QED BY <1>13, <1>14, SameTriples
<1> QED BY <1>8, <1>11, <1>15 DEF r, m, e, c

-----------------------------------------------------------------------------
(* Automata.                                                               *)
IsSparse(S) ==
  /\ S \in [set : SUBSET Nat, domain : Nat]
  /\ \A q \in S.set : q < S.domain

\* What is seen of an automaton.
Seen(A, T, I, F, n) ==
  /\ IsNfa(A)
  /\ transitions(A.delta) = T
  /\ A.initial.set = I
  /\ A.final.set = F
  /\ num_of_states(A) = n

(* A sound automaton is a sound delta and two sound sparse sets, ...       *)
LEMMA NfaParts ==
  ASSUME NEW A, IsNfa(A)
  PROVE  /\ A = [delta |-> A.delta, initial |-> A.initial, final |-> A.final]
         /\ IsDelta(A.delta) /\ IsSparse(A.initial) /\ IsSparse(A.final)
<1>1. /\ A \in [delta : Seq(StatePost), initial : [set : SUBSET Nat, domain : Nat],
                final : [set : SUBSET Nat, domain : Nat]]
      /\ Sound(A)
  BY DEF IsNfa, StatePost, SymbolPost
<1>2. IsDelta(A.delta)
  BY <1>1, IsDeltaSound DEF Sound
<1> QED BY <1>1, <1>2 DEF IsSparse, Sound

(* ... and any three such parts make one.                                  *)
LEMMA NfaMade ==
  ASSUME NEW d, NEW i, NEW f, IsDelta(d), IsSparse(i), IsSparse(f)
  PROVE  IsNfa([delta |-> d, initial |-> i, final |-> f])
<1>1. d \in Seq(StatePost) /\ WellFormedDelta(d)
  BY IsDeltaSound
<1> QED BY <1>1 DEF IsNfa, StatePost, SymbolPost, Sound, IsSparse

\* n is the largest of the three.
IsSize(A, n) ==
  /\ n \in Nat
  /\ A.initial.domain <= n /\ A.final.domain <= n /\ Len(A.delta) <= n
  /\ n \in {A.initial.domain, A.final.domain, Len(A.delta)}

(* num_of_states() is the least number not below the domains and the       *)
(* posts.                                                                  *)
LEMMA SizeIs ==
  ASSUME NEW A, IsNfa(A)
  PROVE  /\ IsSize(A, num_of_states(A))
         /\ \A n : IsSize(A, n) => num_of_states(A) = n
<1> DEFINE S == {A.initial.domain, A.final.domain, Len(A.delta)}
<1>1. A.initial.domain \in Nat /\ A.final.domain \in Nat /\ Len(A.delta) \in Nat
  BY NfaParts, TransitionsOf DEF IsSparse
<1>2. \E m \in S : \A x \in S : m >= x
  BY <1>1
<1>3. num_of_states(A) = CHOOSE m \in S : \A x \in S : m >= x
  BY DEF num_of_states, Max
<1>4. num_of_states(A) \in S /\ \A x \in S : num_of_states(A) >= x
  BY <1>2, <1>3
<1>5. IsSize(A, num_of_states(A))
  BY <1>1, <1>4 DEF IsSize
<1>6. ASSUME NEW n, IsSize(A, n) PROVE num_of_states(A) = n
  BY <1>1, <1>4, <1>6 DEF IsSize
<1> QED BY <1>5, <1>6

(* What num_of_states() says of the parts of an automaton.                 *)
LEMMA SizeParts ==
  ASSUME NEW A, IsNfa(A)
  PROVE  /\ num_of_states(A) \in Nat
         /\ A.initial.domain \in Nat /\ A.initial.domain <= num_of_states(A)
         /\ A.final.domain \in Nat /\ A.final.domain <= num_of_states(A)
         /\ Len(A.delta) \in Nat /\ Len(A.delta) <= num_of_states(A)
         /\ \/ num_of_states(A) = A.initial.domain
            \/ num_of_states(A) = A.final.domain
            \/ num_of_states(A) = Len(A.delta)
         /\ A.initial.set \subseteq 0..num_of_states(A)-1
         /\ A.final.set \subseteq 0..num_of_states(A)-1
<1>1. /\ A.initial.domain \in Nat /\ A.final.domain \in Nat /\ Len(A.delta) \in Nat
      /\ A.initial.set \subseteq Nat /\ A.final.set \subseteq Nat
      /\ \A q \in A.initial.set : q < A.initial.domain
      /\ \A q \in A.final.set : q < A.final.domain
  BY NfaParts, TransitionsOf DEF IsSparse
<1>2. IsSize(A, num_of_states(A))
  BY SizeIs
<1> QED BY <1>1, <1>2 DEF IsSize

(* An automaton made of its three parts is seen as they are.               *)
LEMMA Made ==
  ASSUME NEW d, NEW i, NEW f, IsDelta(d), IsSparse(i), IsSparse(f), NEW n \in Nat,
         i.domain <= n, f.domain <= n, Len(d) <= n,
         n = i.domain \/ n = f.domain \/ n = Len(d)
  PROVE  Seen([delta |-> d, initial |-> i, final |-> f], transitions(d), i.set, f.set, n)
<1> DEFINE A == [delta |-> d, initial |-> i, final |-> f]
<1>1. A.delta = d /\ A.initial = i /\ A.final = f
  OBVIOUS
<1>2. IsNfa(A)
  BY NfaMade
<1> HIDE DEF A
<1>3. IsSize(A, n)
  BY <1>1 DEF IsSize
<1>4. num_of_states(A) = n
  BY <1>2, <1>3, SizeIs
<1>5. Seen(A, transitions(d), i.set, f.set, n)
  BY <1>1, <1>2, <1>4 DEF Seen
<1> QED BY <1>5 DEF A

-----------------------------------------------------------------------------
(* insert() of a sparse set.                                               *)
LEMMA Inserted ==
  ASSUME NEW S, IsSparse(S), NEW q \in Nat
  PROVE  /\ IsSparse(inserted(S, q)) /\ inserted(S, q).set = S.set \cup {q}
         /\ inserted(S, q).domain = Larger(S.domain, q+1)
<1>1. LET l == Larger(S.domain, q+1) IN l \in Nat /\ S.domain <= l /\ q+1 <= l
  BY LargerOf DEF IsSparse
<1>2. inserted(S, q) = [set |-> S.set \cup {q}, domain |-> Larger(S.domain, q+1)]
  BY DEF inserted
<1> QED BY <1>1, <1>2 DEF IsSparse

(* erase() of a sparse set: the domain stays.                              *)
LEMMA Erased ==
  ASSUME NEW S, IsSparse(S), NEW q
  PROVE  /\ IsSparse(erased(S, q)) /\ erased(S, q).set = S.set \ {q}
         /\ erased(S, q).domain = S.domain
BY DEF erased, IsSparse

-----------------------------------------------------------------------------
(* Posts allocated add nothing but states, ...                             *)
LEMMA AllocateSeen ==
  ASSUME NEW A, IsNfa(A), NEW n \in Nat
  PROVE  Seen([A EXCEPT !.delta = allocate(@, n)],
              transitions(A.delta), A.initial.set, A.final.set, Larger(num_of_states(A), n))
<1> DEFINE d == allocate(A.delta, n)
           m == Larger(num_of_states(A), n)
<1>1. [A EXCEPT !.delta = allocate(@, n)] = [delta |-> d, initial |-> A.initial, final |-> A.final]
  BY NfaParts
<1>2. IsDelta(A.delta) /\ IsSparse(A.initial) /\ IsSparse(A.final)
  BY NfaParts
<1>3. IsDelta(d) /\ Len(d) = Larger(n, Len(A.delta)) /\ transitions(d) = transitions(A.delta)
  BY <1>2, Allocate
<1>4. m \in Nat /\ A.initial.domain <= m /\ A.final.domain <= m /\ Len(d) <= m
      /\ (m = A.initial.domain \/ m = A.final.domain \/ m = Len(d))
  BY <1>3, SizeParts DEF Larger
<1> HIDE DEF d, m
<1>5. Seen([delta |-> d, initial |-> A.initial, final |-> A.final],
           transitions(d), A.initial.set, A.final.set, m)
  BY <1>2, <1>3, <1>4, Made
<1> QED BY <1>1, <1>3, <1>5 DEF d, m

(* ... as add_state() uses it, ...                                         *)
LEMMA AddStateSeen ==
  ASSUME NEW A, IsNfa(A)
  PROVE  Seen(add_state(A), transitions(A.delta), A.initial.set, A.final.set,
              num_of_states(A) + 1)
<1> DEFINE n == num_of_states(A)
<1>1. n \in Nat
  BY SizeParts
<1>2. Larger(n, n+1) = n+1
  BY <1>1 DEF Larger
<1>3. n+1 \in Nat
  BY <1>1
<1> HIDE DEF n
<1>4. Seen([A EXCEPT !.delta = allocate(@, n+1)],
           transitions(A.delta), A.initial.set, A.final.set, Larger(num_of_states(A), n+1))
  BY <1>3, AllocateSeen
<1> QED BY <1>2, <1>4 DEF add_state, n

(* ... and add_state() with a number.                                      *)
LEMMA AddStateAtSeen ==
  ASSUME NEW A, IsNfa(A), NEW q \in Nat
  PROVE  Seen(add_state_at(A, q), transitions(A.delta), A.initial.set, A.final.set,
              Larger(num_of_states(A), q+1))
<1>1. q+1 \in Nat
  OBVIOUS
<1> QED BY <1>1, AllocateSeen DEF add_state_at

(* A state made initial exists from then on, ...                           *)
LEMMA MakeInitialSeen ==
  ASSUME NEW A, IsNfa(A), NEW q \in Nat
  PROVE  Seen([A EXCEPT !.initial = inserted(@, q)], transitions(A.delta),
              A.initial.set \cup {q}, A.final.set, Larger(num_of_states(A), q+1))
<1> DEFINE i == inserted(A.initial, q)
           m == Larger(num_of_states(A), q+1)
<1>1. [A EXCEPT !.initial = inserted(@, q)] = [delta |-> A.delta, initial |-> i, final |-> A.final]
  BY NfaParts
<1>2. IsDelta(A.delta) /\ IsSparse(A.initial) /\ IsSparse(A.final)
  BY NfaParts
<1>3. IsSparse(i) /\ i.set = A.initial.set \cup {q} /\ i.domain = Larger(A.initial.domain, q+1)
  BY <1>2, Inserted
<1>4. m \in Nat /\ i.domain <= m /\ A.final.domain <= m /\ Len(A.delta) <= m
      /\ (m = i.domain \/ m = A.final.domain \/ m = Len(A.delta))
  BY <1>3, SizeParts DEF Larger
<1> HIDE DEF i, m
<1>5. Seen([delta |-> A.delta, initial |-> i, final |-> A.final],
           transitions(A.delta), i.set, A.final.set, m)
  <2>1. IsSparse(i)
    BY <1>3
  <2> QED BY <1>2, <2>1, <1>4, Made
<1> QED BY <1>1, <1>3, <1>5 DEF i, m

(* ... and so does one made final.                                         *)
LEMMA MakeFinalSeen ==
  ASSUME NEW A, IsNfa(A), NEW q \in Nat
  PROVE  Seen([A EXCEPT !.final = inserted(@, q)], transitions(A.delta),
              A.initial.set, A.final.set \cup {q}, Larger(num_of_states(A), q+1))
<1> DEFINE f == inserted(A.final, q)
           m == Larger(num_of_states(A), q+1)
<1>1. [A EXCEPT !.final = inserted(@, q)] = [delta |-> A.delta, initial |-> A.initial, final |-> f]
  BY NfaParts
<1>2. IsDelta(A.delta) /\ IsSparse(A.initial) /\ IsSparse(A.final)
  BY NfaParts
<1>3. IsSparse(f) /\ f.set = A.final.set \cup {q} /\ f.domain = Larger(A.final.domain, q+1)
  BY <1>2, Inserted
<1>4. m \in Nat /\ A.initial.domain <= m /\ f.domain <= m /\ Len(A.delta) <= m
      /\ (m = A.initial.domain \/ m = f.domain \/ m = Len(A.delta))
  BY <1>3, SizeParts DEF Larger
<1> HIDE DEF f, m
<1>5. Seen([delta |-> A.delta, initial |-> A.initial, final |-> f],
           transitions(A.delta), A.initial.set, f.set, m)
  <2>1. IsSparse(f)
    BY <1>3
  <2> QED BY <1>2, <2>1, <1>4, Made
<1> QED BY <1>1, <1>3, <1>5 DEF f, m

(* A state that is initial or final no more remains a state.               *)
LEMMA UnmarkSeen ==
  ASSUME NEW A, IsNfa(A), NEW q
  PROVE  Seen([A EXCEPT !.initial = erased(@, q), !.final = erased(@, q)],
              transitions(A.delta), A.initial.set \ {q}, A.final.set \ {q}, num_of_states(A))
<1> DEFINE i == erased(A.initial, q)
           f == erased(A.final, q)
           m == num_of_states(A)
<1>1. [A EXCEPT !.initial = erased(@, q), !.final = erased(@, q)]
        = [delta |-> A.delta, initial |-> i, final |-> f]
  <2> DEFINE B == [A EXCEPT !.initial = i]
  <2>1. B = [delta |-> A.delta, initial |-> i, final |-> A.final]
    BY NfaParts
  <2>4. B.final = A.final /\ erased(B.final, q) = f
    BY <2>1
  <2>2. [B EXCEPT !.final = erased(B.final, q)] = [delta |-> A.delta, initial |-> i, final |-> f]
    <3> HIDE DEF B, i, f
    <3> QED BY <2>1, <2>4
  <2>3. [A EXCEPT !.initial = erased(@, q), !.final = erased(@, q)]
          = [B EXCEPT !.final = erased(B.final, q)]
    OBVIOUS
  <2> QED BY <2>2, <2>3
<1>2. IsDelta(A.delta) /\ IsSparse(A.initial) /\ IsSparse(A.final)
  BY NfaParts
<1>3. /\ IsSparse(i) /\ i.set = A.initial.set \ {q} /\ i.domain = A.initial.domain
      /\ IsSparse(f) /\ f.set = A.final.set \ {q} /\ f.domain = A.final.domain
  BY <1>2, Erased
<1>4. m \in Nat /\ i.domain <= m /\ f.domain <= m /\ Len(A.delta) <= m
      /\ (m = i.domain \/ m = f.domain \/ m = Len(A.delta))
  BY <1>3, SizeParts
<1> HIDE DEF i, f, m
<1>5. Seen([delta |-> A.delta, initial |-> i, final |-> f],
           transitions(A.delta), i.set, f.set, m)
  <2>1. IsSparse(i) /\ IsSparse(f)
    BY <1>3
  <2> QED BY <1>2, <2>1, <1>4, Made
<1> QED BY <1>1, <1>3, <1>5 DEF i, f, m

(* clear() takes all away but, perhaps, the domains of the sparse sets.    *)
LEMMA ClearSeen ==
  ASSUME NEW A, IsNfa(A)
  PROVE  \E n \in 0..num_of_states(A) : Seen(clear(A), {}, {}, {}, n)
<1> DEFINE i == [A.initial EXCEPT !.set = {}]
           f == [A.final EXCEPT !.set = {}]
           n == Larger(A.initial.domain, A.final.domain)
<1>1. /\ IsSparse(i) /\ i.set = {} /\ i.domain = A.initial.domain
      /\ IsSparse(f) /\ f.set = {} /\ f.domain = A.final.domain
  BY NfaParts DEF IsSparse
<1>2. IsDelta(<< >>) /\ Len(<< >>) = 0 /\ transitions(<< >>) = {}
  BY DEF IsDelta, transitions
<1>3. clear(A) = [delta |-> << >>, initial |-> i, final |-> f]
  BY DEF clear
<1>4. n \in Nat /\ n \in 0..num_of_states(A) /\ i.domain <= n /\ f.domain <= n /\ 0 <= n
      /\ (n = i.domain \/ n = f.domain)
  BY <1>1, SizeParts DEF Larger
<1> HIDE DEF i, f, n
<1>5. Seen([delta |-> << >>, initial |-> i, final |-> f], transitions(<< >>), i.set, f.set, n)
  <2>1. PICK d : d = << >>
    OBVIOUS
  <2>2. IsDelta(d) /\ Len(d) <= n /\ IsSparse(i) /\ IsSparse(f)
    BY <1>1, <1>2, <1>4, <2>1
  <2>3. Seen([delta |-> d, initial |-> i, final |-> f], transitions(d), i.set, f.set, n)
    BY <1>4, <2>2, Made
  <2> QED BY <2>1, <2>3
<1>6. Seen(clear(A), {}, {}, {}, n)
  BY <1>1, <1>2, <1>3, <1>5
<1> QED BY <1>4, <1>6

(* What is seen of an automaton with n posts and nothing else.             *)
LEMMA BlankSeen ==
  ASSUME NEW n \in Nat
  PROVE  Seen(Blank(n), {}, {}, {}, n)
<1> DEFINE e == << >>
           d == allocate(e, n)
           s == NoStates
<1>1. IsDelta(e) /\ Len(e) = 0 /\ transitions(e) = {}
  BY DEF IsDelta, transitions
<1> HIDE DEF e
<1>2. IsDelta(d) /\ Len(d) = Larger(n, Len(e)) /\ transitions(d) = transitions(e)
  BY <1>1, Allocate
<1>3. Len(d) = n
  BY <1>1, <1>2 DEF Larger
<1>4. IsSparse(s) /\ s.set = {} /\ s.domain = 0
  BY DEF IsSparse, NoStates
<1>5. Blank(n) = [delta |-> d, initial |-> s, final |-> s]
  BY DEF Blank, e
<1> HIDE DEF d, s
<1>6. IsDelta(d) /\ IsSparse(s) /\ s.domain <= n /\ Len(d) <= n /\ n = Len(d)
  BY <1>2, <1>3, <1>4
<1>7. Seen([delta |-> d, initial |-> s, final |-> s], transitions(d), s.set, s.set, n)
  BY <1>6, Made
<1> QED BY <1>1, <1>2, <1>4, <1>5, <1>7

-----------------------------------------------------------------------------
(* The operations on automata that change transitions.                     *)

(* A delta put in the place of a smaller one.                              *)
LEMMA DeltaSeen ==
  ASSUME NEW A, IsNfa(A), NEW d, IsDelta(d), NEW n \in Nat,
         Len(A.delta) <= Len(d), Len(d) <= n, num_of_states(A) <= n,
         n = num_of_states(A) \/ n = Len(d)
  PROVE  Seen([A EXCEPT !.delta = d], transitions(d), A.initial.set, A.final.set, n)
<1>1. [A EXCEPT !.delta = d] = [delta |-> d, initial |-> A.initial, final |-> A.final]
  BY NfaParts
<1>2. IsSparse(A.initial) /\ IsSparse(A.final) /\ Len(d) \in Nat
  BY NfaParts, TransitionsOf
<1>3. A.initial.domain <= n /\ A.final.domain <= n
      /\ (n = A.initial.domain \/ n = A.final.domain \/ n = Len(d))
  BY <1>2, SizeParts
<1>4. Seen([delta |-> d, initial |-> A.initial, final |-> A.final],
           transitions(d), A.initial.set, A.final.set, n)
  BY <1>2, <1>3, Made
<1> QED BY <1>1, <1>4

(* What add() does to an automaton.                                        *)
LEMMA AddTransitionsSeen ==
  ASSUME NEW A, IsNfa(A), NEW p \in Nat, NEW a \in Symbol, NEW t \in OrdVector, t # << >>
  PROVE  Seen([A EXCEPT !.delta = add(A.delta, p, a, t)],
              transitions(A.delta) \cup Arrows(p, a, Range(t)), A.initial.set, A.final.set,
              Larger(num_of_states(A), Larger(p, Last(t)) + 1))
<1> DEFINE d == add(A.delta, p, a, t)
           m == Larger(p, Last(t)) + 1
           n == Larger(num_of_states(A), m)
<1>1. IsDelta(A.delta) /\ Last(t) \in Nat
  BY NfaParts, LastIsMax
<1>2. IsDelta(d)
  BY <1>1, AddTo
<1>3. Len(d) = Larger(m, Len(A.delta))
  BY <1>1, AddTo
<1>4. transitions(d) = transitions(A.delta) \cup Arrows(p, a, Range(t))
  BY <1>1, AddTo
<1>5. m \in Nat
  <2>1. Larger(p, Last(t)) \in Nat
    BY <1>1, LargerOf
  <2> QED BY <2>1
<1> HIDE DEF d, m
<1>6. n \in Nat /\ Len(A.delta) <= Len(d) /\ Len(d) <= n /\ num_of_states(A) <= n
      /\ (n = num_of_states(A) \/ n = Len(d))
  BY <1>3, <1>5, SizeParts DEF Larger
<1> HIDE DEF n
<1>7. Seen([A EXCEPT !.delta = d], transitions(d), A.initial.set, A.final.set, n)
  BY <1>2, <1>6, DeltaSeen
<1> QED BY <1>4, <1>7 DEF d, m, n

(* What remove() does to an automaton.                                     *)
LEMMA RemoveSeen ==
  ASSUME NEW A, IsNfa(A), NEW p \in Nat, NEW a \in Symbol, NEW q \in Nat,
         ~ remove_throws(A.delta, p, a)
  PROVE  Seen([A EXCEPT !.delta = remove(@, p, a, q)],
              transitions(A.delta) \ {<<p, a, q>>}, A.initial.set, A.final.set,
              num_of_states(A))
<1> DEFINE d == remove(A.delta, p, a, q)
           n == num_of_states(A)
<1>1. IsDelta(A.delta)
  BY NfaParts
<1>2. IsDelta(d)
  BY <1>1, RemoveFrom
<1>3. Len(d) = Len(A.delta)
  BY <1>1, RemoveFrom
<1>4. transitions(d) = transitions(A.delta) \ {<<p, a, q>>}
  BY <1>1, RemoveFrom
<1> HIDE DEF d
<1>5. n \in Nat /\ Len(A.delta) <= Len(d) /\ Len(d) <= n
  BY <1>3, SizeParts
<1>6. Seen([A EXCEPT !.delta = d], transitions(d), A.initial.set, A.final.set, n)
  BY <1>2, <1>5, DeltaSeen
<1> QED BY <1>4, <1>6 DEF d

(* swap_final_nonfinal() complements the final states.                     *)
LEMMA SwapSeen ==
  ASSUME NEW A, IsNfa(A)
  PROVE  Seen(swap_final_nonfinal(A), transitions(A.delta), A.initial.set,
              (0..num_of_states(A)-1) \ A.final.set, num_of_states(A))
<1> DEFINE n == num_of_states(A)
           f == [set |-> (0..n-1) \ A.final.set, domain |-> Larger(A.final.domain, n)]
<1>1. swap_final_nonfinal(A) = [delta |-> A.delta, initial |-> A.initial, final |-> f]
  BY NfaParts DEF swap_final_nonfinal
<1>2. IsDelta(A.delta) /\ IsSparse(A.initial)
  BY NfaParts
<1>3. n \in Nat /\ f.domain = n /\ f.set = (0..n-1) \ A.final.set
      /\ f = [set |-> (0..n-1) \ A.final.set, domain |-> n]
  <2>1. n \in Nat /\ A.final.domain \in Nat /\ A.final.domain <= n
    BY SizeParts
  <2> HIDE DEF n
  <2>2. Larger(A.final.domain, n) = n
    BY <2>1 DEF Larger
  <2> QED BY <2>1, <2>2
<1>4. A.initial.domain <= n /\ Len(A.delta) <= n
  BY SizeParts
<1> HIDE DEF n, f
<1>5. IsSparse(f)
  <2>1. f.set \subseteq Nat /\ \A q \in f.set : q < f.domain
    BY <1>3
  <2> QED BY <1>3, <2>1 DEF IsSparse
<1>6. n <= n
  BY <1>3
<1>7. Seen([delta |-> A.delta, initial |-> A.initial, final |-> f],
           transitions(A.delta), A.initial.set, f.set, n)
  BY <1>2, <1>3, <1>4, <1>5, <1>6, Made
<1> QED BY <1>1, <1>3, <1>7 DEF n

-----------------------------------------------------------------------------
(* Transitions from one new state, or to it, need one more post.           *)
LEMMA ExtendedByState ==
  ASSUME NEW d, IsDelta(d), NEW n \in Nat, Len(d) <= n, NEW T \in SUBSET Triple, IsFiniteSet(T),
         \A t \in T : t[1] <= n /\ t[3] <= n
  PROVE  /\ IsDelta(add_all(allocate(d, n+1), T))
         /\ Len(add_all(allocate(d, n+1), T)) = n+1
         /\ transitions(add_all(allocate(d, n+1), T)) = transitions(d) \cup T
<1> DEFINE e == allocate(d, n+1)
           r == add_all(e, T)
<1>1. Len(d) \in Nat /\ n+1 \in Nat /\ Larger(n+1, Len(d)) = n+1
  BY TransitionsOf DEF Larger
<1>2. IsDelta(e) /\ Len(e) = n+1 /\ transitions(e) = transitions(d)
  BY <1>1, Allocate
<1> HIDE DEF e
<1>3. Extends(e, T, r)
  BY <1>2, AddAll
<1> HIDE DEF r
<1>4. /\ IsDelta(r) /\ transitions(r) = transitions(d) \cup T /\ n+1 <= Len(r) /\ Len(r) \in Nat
      /\ Len(r) = n+1 \/ \E t \in T : Len(r) = t[1] + 1 \/ Len(r) = t[3] + 1
  BY <1>2, <1>3, DeltasAre DEF Extends
<1>5. \A t \in T : t[1] \in Nat /\ t[3] \in Nat
  BY DEF Triple
<1>6. Len(r) = n+1
  BY <1>4, <1>5
<1> QED BY <1>4, <1>6 DEF r, e

\* The transitions that a new state gets, leaving it or entering it.
Leaving(n, T, I) == {<<n, t[2], t[3]>> : t \in {u \in T : u[1] \in I}}
\* The copies, ending in n, of the transitions into F.
Entering(n, T, F) == {<<t[1], t[2], n>> : t \in {u \in T : u[3] \in F}}

(* The transitions that the unify operations copy are finitely many        *)
(* triples that need no more than one new state.                           *)
LEMMA CopiedTransitions ==
  ASSUME NEW d, IsDelta(d), NEW n \in Nat, Len(d) <= n, NEW S
  PROVE  /\ Leaving(n, transitions(d), S) \in SUBSET Triple
         /\ IsFiniteSet(Leaving(n, transitions(d), S))
         /\ \A t \in Leaving(n, transitions(d), S) : t[1] <= n /\ t[3] <= n
         /\ Entering(n, transitions(d), S) \in SUBSET Triple
         /\ IsFiniteSet(Entering(n, transitions(d), S))
         /\ \A t \in Entering(n, transitions(d), S) : t[1] <= n /\ t[3] <= n
<1> DEFINE T == transitions(d)
           from == {u \in T : u[1] \in S}
           to == {u \in T : u[3] \in S}
           L == {<<n, t[2], t[3]>> : t \in from}
           E == {<<t[1], t[2], n>> : t \in to}
           f == [t \in from |-> <<n, t[2], t[3]>>]
           g == [t \in to |-> <<t[1], t[2], n>>]
<1>1. IsFiniteSet(T) /\ Len(d) \in Nat
      /\ \A t \in T : t[1] \in 0..Len(d)-1 /\ t[2] \in Symbol /\ t[3] \in 0..Len(d)-1
  BY TransitionTypes, TransitionsOf
<1>2. \A t \in T : t[1] \in Nat /\ t[1] <= n /\ t[2] \in Symbol /\ t[3] \in Nat /\ t[3] <= n
  BY <1>1
<1>3. IsFiniteSet(from) /\ IsFiniteSet(to)
  BY <1>1, FS_Subset
<1> HIDE DEF T
<1>4. IsFiniteSet(L)
  <2> HIDE DEF from
  <2>1. f \in [from -> L] /\ \A t \in L : \E x \in from : f[x] = t
    OBVIOUS
  <2>2. f \in Surjection(from, L)
    BY <2>1 DEF Surjection
  <2> HIDE DEF L, f
  <2> QED BY <1>3, <2>2, FS_Surjection
<1>5. IsFiniteSet(E)
  <2> HIDE DEF to
  <2>1. g \in [to -> E] /\ \A t \in E : \E x \in to : g[x] = t
    OBVIOUS
  <2>2. g \in Surjection(to, E)
    BY <2>1 DEF Surjection
  <2> HIDE DEF E, g
  <2> QED BY <1>3, <2>2, FS_Surjection
<1>6. L \in SUBSET Triple /\ \A t \in L : t[1] <= n /\ t[3] <= n
  BY <1>2 DEF Triple
<1>7. E \in SUBSET Triple /\ \A t \in E : t[1] <= n /\ t[3] <= n
  BY <1>2 DEF Triple
<1>8. L = Leaving(n, transitions(d), S) /\ E = Entering(n, transitions(d), S)
  BY DEF Leaving, Entering, T
<1> HIDE DEF L, E
<1> QED BY <1>4, <1>5, <1>6, <1>7, <1>8

(* A sparse set that is cleared and given one new state.                   *)
LEMMA OnlyInserted ==
  ASSUME NEW S, IsSparse(S), NEW n \in Nat, S.domain <= n
  PROVE  /\ IsSparse(inserted([S EXCEPT !.set = {}], n))
         /\ inserted([S EXCEPT !.set = {}], n).set = {n}
         /\ inserted([S EXCEPT !.set = {}], n).domain = n+1
<1> DEFINE e == [S EXCEPT !.set = {}]
<1>1. IsSparse(e) /\ e.set = {} /\ e.domain = S.domain /\ S.domain \in Nat
  BY DEF IsSparse
<1> HIDE DEF e
<1>2. IsSparse(inserted(e, n)) /\ inserted(e, n).set = e.set \cup {n}
      /\ inserted(e, n).domain = Larger(e.domain, n+1)
  BY <1>1, Inserted
<1>3. Larger(e.domain, n+1) = n+1
  BY <1>1 DEF Larger
<1>4. e.set \cup {n} = {n}
  BY <1>1
<1> QED BY <1>2, <1>3, <1>4 DEF e

\* The states that a new state n joins when those it stands for are among them.
Joined(S, T, n) == IF T \cap S = {} THEN S ELSE S \cup {n}

(* A sparse set that a new state may join.                                 *)
LEMMA JoinedBy ==
  ASSUME NEW S, IsSparse(S), NEW n \in Nat, S.domain <= n, NEW T, NEW U,
         T \cap S.set = {} <=> U
  PROVE  /\ IsSparse(IF U THEN S ELSE inserted(S, n))
         /\ (IF U THEN S ELSE inserted(S, n)).set = Joined(S.set, T, n)
         /\ (IF U THEN S ELSE inserted(S, n)).domain <= n+1
<1>1. S.domain \in Nat
  BY DEF IsSparse
<1>2. CASE U
  BY <1>1, <1>2 DEF Joined
<1>3. CASE ~ U
  <2>1. IsSparse(inserted(S, n)) /\ inserted(S, n).set = S.set \cup {n}
        /\ inserted(S, n).domain = Larger(S.domain, n+1)
    BY Inserted
  <2>2. Larger(S.domain, n+1) <= n+1
    BY <1>1 DEF Larger
  <2> QED BY <1>3, <2>1, <2>2 DEF Joined
<1> QED BY <1>2, <1>3

(* unify_initial() adds one state that does what the initial ones could.   *)
LEMMA UnifyInitialSeen ==
  ASSUME NEW A, IsNfa(A), Cardinality(A.initial.set) > 1
  PROVE  Seen(unify_initial(A),
              transitions(A.delta)
                \cup Leaving(num_of_states(A), transitions(A.delta), A.initial.set),
              {num_of_states(A)}, Joined(A.final.set, A.initial.set, num_of_states(A)),
              num_of_states(A) + 1)
<1> DEFINE n == num_of_states(A)
           T == Leaving(n, transitions(A.delta), A.initial.set)
           d == add_all(allocate(A.delta, n+1), T)
           i == inserted([A.initial EXCEPT !.set = {}], n)
           U == A.initial.set \cap A.final.set = {}
           f == IF U THEN A.final ELSE inserted(A.final, n)
<1>1. IsDelta(A.delta) /\ IsSparse(A.initial) /\ IsSparse(A.final)
  BY NfaParts
<1>2. n \in Nat /\ A.initial.domain <= n /\ A.final.domain <= n /\ Len(A.delta) <= n
  BY SizeParts
<1>3. unify_initial(A) = [delta |-> d, initial |-> i, final |-> f]
  BY DEF unify_initial, Leaving
<1> HIDE DEF n
<1>4. T \in SUBSET Triple /\ IsFiniteSet(T) /\ \A t \in T : t[1] <= n /\ t[3] <= n
  BY <1>1, <1>2, CopiedTransitions
<1> HIDE DEF T
<1>5. IsDelta(d) /\ Len(d) = n+1
  BY <1>1, <1>2, <1>4, ExtendedByState
<1>6. transitions(d) = transitions(A.delta) \cup T
  BY <1>1, <1>2, <1>4, ExtendedByState
<1>7. IsSparse(i) /\ i.set = {n} /\ i.domain = n+1
  BY <1>1, <1>2, OnlyInserted
<1>8. IsSparse(f) /\ f.set = Joined(A.final.set, A.initial.set, n) /\ f.domain <= n+1
  <2>1. A.initial.set \cap A.final.set = {} <=> U
    OBVIOUS
  <2> HIDE DEF U
  <2> QED BY <1>1, <1>2, <2>1, JoinedBy
<1>9. n+1 \in Nat /\ n+1 <= n+1
  BY <1>2
<1> HIDE DEF d, i, f
<1>10. Seen([delta |-> d, initial |-> i, final |-> f], transitions(d), i.set, f.set, n+1)
  <2>1. IsSparse(i) /\ IsSparse(f) /\ i.domain <= n+1 /\ f.domain <= n+1
    BY <1>7, <1>8, <1>9
  <2>2. Len(d) <= n+1 /\ n+1 = Len(d)
    BY <1>5, <1>9
  <2> DEFINE m == n+1
  <2>3. m \in Nat /\ i.domain <= m /\ f.domain <= m /\ Len(d) <= m /\ m = Len(d)
    BY <1>9, <2>1, <2>2
  <2> HIDE DEF m
  <2>4. Seen([delta |-> d, initial |-> i, final |-> f], transitions(d), i.set, f.set, m)
    BY <1>5, <2>1, <2>3, Made
  <2> QED BY <2>4 DEF m
<1> QED BY <1>3, <1>6, <1>7, <1>8, <1>10 DEF n, T

(* unify_final() adds one state that is reached as the final ones were.    *)
LEMMA UnifyFinalSeen ==
  ASSUME NEW A, IsNfa(A), Cardinality(A.final.set) > 1
  PROVE  Seen(unify_final(A),
              transitions(A.delta)
                \cup Entering(num_of_states(A), transitions(A.delta), A.final.set),
              Joined(A.initial.set, A.final.set, num_of_states(A)), {num_of_states(A)},
              num_of_states(A) + 1)
<1> DEFINE n == num_of_states(A)
           T == Entering(n, transitions(A.delta), A.final.set)
           d == add_all(allocate(A.delta, n+1), T)
           f == inserted([A.final EXCEPT !.set = {}], n)
           U == A.initial.set \cap A.final.set = {}
           i == IF U THEN A.initial ELSE inserted(A.initial, n)
<1>1. IsDelta(A.delta) /\ IsSparse(A.initial) /\ IsSparse(A.final)
  BY NfaParts
<1>2. n \in Nat /\ A.initial.domain <= n /\ A.final.domain <= n /\ Len(A.delta) <= n
  BY SizeParts
<1>3. unify_final(A) = [delta |-> d, initial |-> i, final |-> f]
  BY DEF unify_final, Entering
<1> HIDE DEF n
<1>4. T \in SUBSET Triple /\ IsFiniteSet(T) /\ \A t \in T : t[1] <= n /\ t[3] <= n
  BY <1>1, <1>2, CopiedTransitions
<1> HIDE DEF T
<1>5. IsDelta(d) /\ Len(d) = n+1
  BY <1>1, <1>2, <1>4, ExtendedByState
<1>6. transitions(d) = transitions(A.delta) \cup T
  BY <1>1, <1>2, <1>4, ExtendedByState
<1>7. IsSparse(f) /\ f.set = {n} /\ f.domain = n+1
  BY <1>1, <1>2, OnlyInserted
<1>8. IsSparse(i) /\ i.set = Joined(A.initial.set, A.final.set, n) /\ i.domain <= n+1
  <2>1. A.final.set \cap A.initial.set = {} <=> U
    OBVIOUS
  <2> HIDE DEF U
  <2> QED BY <1>1, <1>2, <2>1, JoinedBy
<1>9. n+1 \in Nat /\ n+1 <= n+1
  BY <1>2
<1> HIDE DEF d, i, f
<1>10. Seen([delta |-> d, initial |-> i, final |-> f], transitions(d), i.set, f.set, n+1)
  <2>1. IsSparse(i) /\ IsSparse(f) /\ i.domain <= n+1 /\ f.domain <= n+1
    BY <1>7, <1>8, <1>9
  <2>2. Len(d) <= n+1 /\ n+1 = Len(d)
    BY <1>5, <1>9
  <2> DEFINE m == n+1
  <2>3. m \in Nat /\ i.domain <= m /\ f.domain <= m /\ Len(d) <= m /\ m = Len(d)
    BY <1>9, <2>1, <2>2
  <2> HIDE DEF m
  <2>4. Seen([delta |-> d, initial |-> i, final |-> f], transitions(d), i.set, f.set, m)
    BY <1>5, <2>1, <2>3, Made
  <2> QED BY <2>4 DEF m
<1> QED BY <1>3, <1>6, <1>7, <1>8, <1>10 DEF n, T

-----------------------------------------------------------------------------
(* Completion.                                                             *)
Lacking(T, n, symbols) == ((0..n-1) \X symbols) \ {<<t[1], t[2]>> : t \in T}

\* A transition to the sink for each of the pairs.
IntoSink(pairs, sink) == {<<m[1], m[2], sink>> : m \in pairs}
\* The transitions from the sink to itself.
SinkLoops(symbols, sink) == {<<sink, a, sink>> : a \in symbols}

\* What make_complete() adds, ...
Completion(T, n, symbols, sink) ==
  IntoSink(Lacking(T, n, symbols), sink)
    \cup IF Lacking(T, n, symbols) # {} /\ sink >= n THEN SinkLoops(symbols, sink) ELSE {}

(* The pairs that make_complete() finds lacking are those without a        *)
(* transition.                                                             *)
LEMMA MissingIs ==
  ASSUME NEW A, IsNfa(A), NEW symbols \in SUBSET Symbol
  PROVE  missing(A, symbols) = Lacking(transitions(A.delta), num_of_states(A), symbols)
<1> DEFINE d == A.delta
           n == num_of_states(A)
           T == transitions(d)
<1>1. IsDelta(d) /\ n \in Nat /\ Len(d) \in Nat
  BY NfaParts, SizeParts
<1> HIDE DEF d
<1>2. /\ \A i \in 1..Len(d) : SoundPost(d[i], Len(d))
      /\ \A p, a, q : <<p, a, q>> \in T <=> p \in 0..Len(d)-1 /\ Has(d[p+1], a, q)
      /\ \A t \in T : \E p \in 0..Len(d)-1, a \in Symbol, q \in 0..Len(d)-1 : t = <<p, a, q>>
  BY <1>1, TransitionsOf
<1> HIDE DEF T, n
<1>3. ASSUME NEW p \in 0..n-1, NEW a \in symbols
      PROVE  a \in SymbolsOf(state_post(d, p)) <=> \E t \in T : t[1] = p /\ t[2] = a
  <2>1. CASE p < Len(d)
    <3>1. p \in 0..Len(d)-1 /\ p+1 \in 1..Len(d) /\ state_post(d, p) = d[p+1]
      BY <1>1, <2>1 DEF state_post
    <3>2. SoundPost(d[p+1], Len(d))
      BY <1>2, <3>1
    <3>3. a \in SymbolsOf(d[p+1]) => \E q : Has(d[p+1], a, q)
      BY <1>1, <3>2, SymbolHasTarget
    <3>4. \A q : Has(d[p+1], a, q) => a \in SymbolsOf(d[p+1])
      BY DEF Has, SymbolsOf
    <3>5. (\E q : Has(d[p+1], a, q)) <=> \E q : <<p, a, q>> \in T
      BY <1>2, <3>1
    <3>6. (\E q : <<p, a, q>> \in T) <=> \E t \in T : t[1] = p /\ t[2] = a
      <4>1. ASSUME NEW t \in T, t[1] = p, t[2] = a PROVE \E q : <<p, a, q>> \in T
        <5>1. PICK pp \in 0..Len(d)-1, aa \in Symbol, q \in 0..Len(d)-1 : t = <<pp, aa, q>>
          BY <1>2
        <5>2. t = <<p, a, q>>
          BY <4>1, <5>1
        <5> QED BY <5>2
      <4>2. ASSUME NEW q, <<p, a, q>> \in T PROVE \E t \in T : t[1] = p /\ t[2] = a
        BY <4>2
      <4> QED BY <4>1, <4>2
    <3> QED BY <3>1, <3>3, <3>4, <3>5, <3>6
  <2>2. CASE ~ (p < Len(d))
    <3>1. state_post(d, p) = << >> /\ p \notin 0..Len(d)-1
      BY <1>1, <2>2 DEF state_post
    <3>2. a \notin SymbolsOf(state_post(d, p))
      <4>1. Len(<< >>) = 0 /\ 1..0 = {}
        OBVIOUS
      <4> QED BY <3>1, <4>1 DEF SymbolsOf
    <3>3. \A t \in T : t[1] # p
      BY <1>2, <3>1
    <3> QED BY <3>2, <3>3
  <2> QED BY <2>1, <2>2
<1> DEFINE all == (0..n-1) \X symbols
           found == {<<t[1], t[2]>> : t \in T}
<1>4. ASSUME NEW m \in all PROVE m[2] \in SymbolsOf(state_post(d, m[1])) <=> m \in found
  <2>1. m = <<m[1], m[2]>> /\ m[1] \in 0..n-1 /\ m[2] \in symbols
    OBVIOUS
  <2>2. m \in found <=> \E t \in T : t[1] = m[1] /\ t[2] = m[2]
    BY <2>1
  <2> QED BY <1>3, <2>1, <2>2
<1>5. missing(A, symbols) = {m \in all : m[2] \notin SymbolsOf(state_post(d, m[1]))}
  BY DEF missing, d, n
<1>6. Lacking(T, n, symbols) = all \ found
  BY DEF Lacking
<1> HIDE DEF all, found
<1>7. missing(A, symbols) = Lacking(T, n, symbols)
  BY <1>4, <1>5, <1>6
<1> QED BY <1>7 DEF T, n, d

(* What completion adds are finitely many triples.                         *)
LEMMA CompletionTypes ==
  ASSUME NEW T, NEW n \in Nat, NEW symbols \in SUBSET Symbol, NEW sink \in Nat
  PROVE  /\ IntoSink(Lacking(T, n, symbols), sink) \in SUBSET Triple
         /\ IsFiniteSet(IntoSink(Lacking(T, n, symbols), sink))
         /\ SinkLoops(symbols, sink) \in SUBSET Triple
         /\ IsFiniteSet(SinkLoops(symbols, sink))
<1> DEFINE pairs == Lacking(T, n, symbols)
           I == {<<m[1], m[2], sink>> : m \in pairs}
           L == {<<sink, a, sink>> : a \in symbols}
           f == [m \in pairs |-> <<m[1], m[2], sink>>]
           g == [a \in symbols |-> <<sink, a, sink>>]
<1>1. pairs \subseteq (0..n-1) \X symbols
  BY DEF Lacking
<1>2. IsFiniteSet(symbols) /\ IsFiniteSet(0..n-1)
  <2>1. IsFiniteSet(symbols)
    BY SymbolAssumption, FS_Subset
  <2>2. IsFiniteSet(0..n-1)
    BY FS_Interval
  <2> QED BY <2>1, <2>2
<1>3. IsFiniteSet(pairs)
  BY <1>1, <1>2, FS_Product, FS_Subset
<1> HIDE DEF pairs
<1>4. IsFiniteSet(I)
  <2>1. f \in [pairs -> I] /\ \A t \in I : \E x \in pairs : f[x] = t
    OBVIOUS
  <2>2. f \in Surjection(pairs, I)
    BY <2>1 DEF Surjection
  <2> HIDE DEF I, f
  <2> QED BY <1>3, <2>2, FS_Surjection
<1>5. IsFiniteSet(L)
  <2>1. g \in [symbols -> L] /\ \A t \in L : \E x \in symbols : g[x] = t
    OBVIOUS
  <2>2. g \in Surjection(symbols, L)
    BY <2>1 DEF Surjection
  <2> HIDE DEF L, g
  <2> QED BY <1>2, <2>2, FS_Surjection
<1>6. I \in SUBSET Triple /\ L \in SUBSET Triple
  <2>1. \A m \in pairs : m[1] \in Nat /\ m[2] \in Symbol
    BY <1>1
  <2> QED BY <2>1 DEF Triple
<1>7. I = IntoSink(pairs, sink) /\ L = SinkLoops(symbols, sink)
  BY DEF IntoSink, SinkLoops
<1> HIDE DEF I, L
<1> QED BY <1>4, <1>5, <1>6, <1>7 DEF pairs

\* ... and how many states there are then.
CompletedSize(T, n, symbols, sink) ==
  IF Lacking(T, n, symbols) # {} THEN Larger(n, sink+1) ELSE n

(* make_complete() sends what is missing to the sink, and the sink to      *)
(* itself if it is new.                                                    *)
LEMMA MakeCompleteSeen ==
  ASSUME NEW A, IsNfa(A), NEW symbols \in SUBSET Symbol, NEW sink \in Nat
  PROVE  Seen(make_complete(A, symbols, sink),
              transitions(A.delta)
                \cup Completion(transitions(A.delta), num_of_states(A), symbols, sink),
              A.initial.set, A.final.set,
              CompletedSize(transitions(A.delta), num_of_states(A), symbols, sink))
<1> DEFINE n == num_of_states(A)
           T == transitions(A.delta)
           pairs == Lacking(T, n, symbols)
           T1 == IntoSink(pairs, sink)
           loops == IF pairs # {} /\ n <= sink THEN symbols ELSE {}
           T2 == SinkLoops(loops, sink)
           e == add_all(A.delta, T1)
           d == add_all(e, T2)
           N == CompletedSize(T, n, symbols, sink)
<1>1. n \in Nat /\ Len(A.delta) \in Nat /\ Len(A.delta) <= n /\ IsDelta(A.delta)
  BY NfaParts, SizeParts
<1>2. make_complete(A, symbols, sink) = [A EXCEPT !.delta = d]
  <2>1. missing(A, symbols) = pairs
    BY MissingIs
  <2> QED BY <2>1 DEF make_complete, IntoSink, SinkLoops
<1> HIDE DEF n, T
<1>3. T1 \in SUBSET Triple /\ IsFiniteSet(T1)
  BY <1>1, CompletionTypes
<1>4. T2 \in SUBSET Triple /\ IsFiniteSet(T2)
  <2>1. loops \in SUBSET Symbol
    OBVIOUS
  <2> HIDE DEF loops
  <2> QED BY <1>1, <2>1, CompletionTypes
<1>5. \A t \in T1 : t[1] \in 0..n-1 /\ t[3] = sink
  BY DEF IntoSink, Lacking
<1>6. \A t \in T2 : t[1] = sink /\ t[3] = sink
  BY DEF SinkLoops
<1>7. pairs = {} => T1 = {} /\ T2 = {}
  BY DEF IntoSink, SinkLoops
<1>8. pairs # {} => \E t \in T1 : t[3] = sink
  <2> HIDE DEF pairs
  <2> SUFFICES ASSUME NEW m \in pairs PROVE \E t \in T1 : t[3] = sink
    OBVIOUS
  <2>1. <<m[1], m[2], sink>> \in T1
    BY DEF IntoSink
  <2> QED BY <2>1
<1>9. T \cup Completion(T, n, symbols, sink) = T \cup T1 \cup T2
  <2>1. sink >= n <=> n <= sink
    BY <1>1
  <2>2. SinkLoops({}, sink) = {}
    BY DEF SinkLoops
  <2> QED BY <2>1, <2>2 DEF Completion
<1> HIDE DEF T1, T2
<1>10. Extends(A.delta, T1, e)
  BY <1>1, <1>3, AddAll
<1>11. /\ IsDelta(e) /\ Len(e) \in Nat /\ Len(A.delta) <= Len(e)
       /\ \A t \in T1 : t[1] < Len(e) /\ t[3] < Len(e)
       /\ Len(e) = Len(A.delta) \/ \E t \in T1 : Len(e) = t[1] + 1 \/ Len(e) = t[3] + 1
  BY <1>10, DeltasAre DEF Extends
<1>12. transitions(e) = T \cup T1
  BY <1>10 DEF Extends, T
<1> HIDE DEF e
<1>13. Extends(e, T2, d)
  <2>1. IsDelta(e)
    BY <1>11
  <2> QED BY <1>4, <2>1, AddAll
<1>14. /\ IsDelta(d) /\ Len(d) \in Nat /\ Len(e) <= Len(d)
       /\ Len(d) = Len(e) \/ \E t \in T2 : Len(d) = t[1] + 1 \/ Len(d) = t[3] + 1
  BY <1>13, DeltasAre DEF Extends
<1>15. transitions(d) = T \cup T1 \cup T2
  BY <1>12, <1>13 DEF Extends
<1> HIDE DEF d
<1>16. N \in Nat /\ Len(A.delta) <= Len(d) /\ Len(d) <= N /\ n <= N /\ (N = n \/ N = Len(d))
  <2>1. CASE pairs = {}
    <3>1. N = n
      BY <2>1 DEF CompletedSize
    <3>2. Len(d) = Len(A.delta)
      BY <1>7, <1>11, <1>14, <2>1
    <3> QED BY <1>1, <3>1, <3>2
  <2>2. CASE pairs # {}
    <3>1. N = Larger(n, sink+1)
      BY <2>2 DEF CompletedSize
    <3>2. N \in Nat /\ n <= N /\ sink+1 <= N /\ (N = n \/ N = sink+1)
      BY <1>1, <3>1 DEF Larger
    <3> HIDE DEF N
    <3>3. Len(e) <= N
      BY <1>1, <1>5, <1>11, <3>2
    <3>4. Len(d) <= N
      BY <1>6, <1>14, <3>2, <3>3
    <3>5. sink < Len(e)
      BY <1>8, <1>11, <2>2
    <3> QED BY <1>1, <1>11, <1>14, <3>2, <3>4, <3>5
  <2> QED BY <2>1, <2>2
<1> HIDE DEF N
<1>17. Seen([A EXCEPT !.delta = d], transitions(d), A.initial.set, A.final.set, N)
  BY <1>14, <1>16, DeltaSeen DEF n
<1> QED BY <1>2, <1>9, <1>15, <1>17 DEF N, T, n

(* complement_deterministic() completes with a new sink, initial if there  *)
(* was no initial state, and swaps the final states.                       *)
LEMMA ComplementSeen ==
  ASSUME NEW A, IsNfa(A), NEW symbols \in SUBSET Symbol, NEW n, n = num_of_states(A),
         NEW m, m = IF A.initial.set = {} THEN n+1 ELSE n,
         NEW T, T = transitions(A.delta)
  PROVE  Seen(complement_deterministic(A, symbols),
              T \cup Completion(T, m, symbols, n),
              IF A.initial.set = {} THEN {n} ELSE A.initial.set,
              (0..CompletedSize(T, m, symbols, n)-1) \ A.final.set,
              CompletedSize(T, m, symbols, n))
<1> DEFINE B == IF A.initial.set = {} THEN [A EXCEPT !.initial = inserted(@, n)] ELSE A
           I == IF A.initial.set = {} THEN {n} ELSE A.initial.set
           C == make_complete(B, symbols, n)
           N == CompletedSize(T, m, symbols, n)
<1>1. n \in Nat
  BY SizeParts
<1>2. Seen(B, T, I, A.final.set, m)
  <2>1. CASE A.initial.set = {}
    <3>1. Seen([A EXCEPT !.initial = inserted(@, n)], transitions(A.delta),
               A.initial.set \cup {n}, A.final.set, Larger(num_of_states(A), n+1))
      BY <1>1, MakeInitialSeen
    <3>2. Larger(n, n+1) = n+1
      BY <1>1 DEF Larger
    <3>3. A.initial.set \cup {n} = {n}
      BY <2>1
    <3> QED BY <2>1, <3>1, <3>2, <3>3
  <2>2. CASE A.initial.set # {}
    BY <2>2 DEF Seen
  <2> QED BY <2>1, <2>2
<1>3. complement_deterministic(A, symbols) = swap_final_nonfinal(C)
  BY DEF complement_deterministic, complement_deterministic_at
<1> HIDE DEF B, I
<1>4. /\ IsNfa(B) /\ transitions(B.delta) = T /\ B.initial.set = I
      /\ B.final.set = A.final.set /\ num_of_states(B) = m
  BY <1>2 DEF Seen
<1>5. Seen(C, T \cup Completion(T, m, symbols, n), I, A.final.set, N)
  <2>1. IsNfa(B)
    BY <1>4
  <2>2. Seen(C, transitions(B.delta) \cup Completion(transitions(B.delta), num_of_states(B), symbols, n),
              B.initial.set, B.final.set,
              CompletedSize(transitions(B.delta), num_of_states(B), symbols, n))
    BY <1>1, <2>1, MakeCompleteSeen
  <2> QED BY <1>4, <2>2
<1> HIDE DEF C, N
<1>6. /\ IsNfa(C) /\ transitions(C.delta) = T \cup Completion(T, m, symbols, n)
      /\ C.initial.set = I /\ C.final.set = A.final.set /\ num_of_states(C) = N
  BY <1>5 DEF Seen
<1>7. Seen(swap_final_nonfinal(C), transitions(C.delta), C.initial.set,
           (0..num_of_states(C)-1) \ C.final.set, num_of_states(C))
  <2>1. IsNfa(C)
    BY <1>6
  <2> QED BY <2>1, SwapSeen
<1> QED BY <1>3, <1>6, <1>7 DEF I, N

-----------------------------------------------------------------------------
\* The states of S, n further on.
Moved(S, n) == {q + n : q \in S}

\* A sparse set with the domain that is reserved for it.
Reserved(S, n) == [set |-> S, domain |-> n]

(* The sparse set of the one automaton with the states of the other moved  *)
(* behind them.                                                            *)
LEMMA ShiftedInto ==
  ASSUME NEW S, IsSparse(S), NEW n \in Nat, S.domain <= n, NEW k \in Nat,
         NEW T \in SUBSET (0..k-1), NEW N, N = n+k
  PROVE  /\ IsSparse(shifted_into(S, n, T, N))
         /\ shifted_into(S, n, T, N) = Reserved(S.set \cup Moved(T, n), N)
<1> DEFINE D == {S.domain, n+k} \cup {q+n+1 : q \in T}
<1>1. S.domain \in Nat /\ S.set \subseteq Nat /\ \A q \in S.set : q < S.domain
  BY DEF IsSparse
<1>2. n+k \in D /\ \A x \in D : x \in Nat /\ n+k >= x
  BY <1>1
<1>3. Max(D) = n+k
  <2>1. Max(D) \in D /\ \A x \in D : Max(D) >= x
    BY <1>2 DEF Max
  <2> HIDE DEF D
  <2>2. Max(D) \in Nat /\ n+k >= Max(D) /\ Max(D) >= n+k
    BY <1>2, <2>1
  <2> QED BY <2>2
<1>4. shifted_into(S, n, T, N) = [set |-> S.set \cup {q + n : q \in T}, domain |-> n+k]
  BY <1>3 DEF shifted_into
<1>5. /\ S.set \cup {q + n : q \in T} \subseteq Nat /\ n+k \in Nat
      /\ \A q \in S.set \cup {x + n : x \in T} : q < n+k
  BY <1>1
<1> QED BY <1>4, <1>5 DEF IsSparse, Moved, Reserved

(* unite_nondet_with() puts two automata with nonempty ends side by side.  *)
LEMMA UniteSeen ==
  ASSUME NEW A, IsNfa(A), NEW B, IsNfa(B),
         A.final.set # {}, A.initial.set # {}, B.final.set # {}, B.initial.set # {}
  PROVE  Seen(unite_nondet_with(A, B),
              transitions(A.delta) \cup Shifted(transitions(B.delta), num_of_states(A)),
              A.initial.set \cup Moved(B.initial.set, num_of_states(A)),
              A.final.set \cup Moved(B.final.set, num_of_states(A)),
              num_of_states(A) + num_of_states(B))
<1> DEFINE n == num_of_states(A)
           k == num_of_states(B)
           N == n + k
           d == allocate(A.delta, n) \o renumber_targets(B.delta, n)
           i == shifted_into(A.initial, n, B.initial.set, N)
           f == shifted_into(A.final, n, B.final.set, N)
<1>1. unite_nondet_with(A, B) = [delta |-> d, initial |-> i, final |-> f]
  BY DEF unite_nondet_with
<1>2. /\ IsDelta(A.delta) /\ IsSparse(A.initial) /\ IsSparse(A.final) /\ IsDelta(B.delta)
  BY NfaParts
<1>3. /\ n \in Nat /\ A.initial.domain <= n /\ A.final.domain <= n /\ Len(A.delta) <= n
      /\ k \in Nat /\ B.initial.set \in SUBSET (0..k-1) /\ B.final.set \in SUBSET (0..k-1)
      /\ Len(B.delta) \in Nat /\ Len(B.delta) <= k
  BY SizeParts
<1> HIDE DEF n, k
<1>13. /\ n \in Nat /\ k \in Nat /\ IsSparse(A.initial)
       /\ A.initial.domain <= n /\ B.initial.set \in SUBSET (0..k-1)
  BY <1>2, <1>3
<1>15. /\ n \in Nat /\ k \in Nat /\ IsSparse(A.final)
       /\ A.final.domain <= n /\ B.final.set \in SUBSET (0..k-1)
  BY <1>2, <1>3
<1>4. IsDelta(d)
  BY <1>2, <1>3, UnitedDelta
<1>5. Len(d) = n + Len(B.delta)
  BY <1>2, <1>3, UnitedDelta
<1>6. transitions(d) = transitions(A.delta) \cup Shifted(transitions(B.delta), n)
  BY <1>2, <1>3, UnitedDelta
<1>7. IsSparse(i)
  BY <1>13, ShiftedInto
<1>9. i = Reserved(A.initial.set \cup Moved(B.initial.set, n), N)
  <2> DEFINE T == B.initial.set
             S == A.initial
  <2>1. n \in Nat /\ k \in Nat /\ IsSparse(S) /\ S.domain <= n /\ T \in SUBSET (0..k-1) /\ N = n+k
    BY <1>13
  <2> HIDE DEF N, S, T
  <2>2. shifted_into(S, n, T, N) = Reserved(S.set \cup Moved(T, n), N)
    BY <2>1, ShiftedInto
  <2> QED BY <2>2 DEF S, T
<1>8. IsSparse(f)
  BY <1>15, ShiftedInto
<1>10. f = Reserved(A.final.set \cup Moved(B.final.set, n), N)
  <2> DEFINE T == B.final.set
             S == A.final
  <2>1. n \in Nat /\ k \in Nat /\ IsSparse(S) /\ S.domain <= n /\ T \in SUBSET (0..k-1) /\ N = n+k
    BY <1>15
  <2> HIDE DEF N, S, T
  <2>2. shifted_into(S, n, T, N) = Reserved(S.set \cup Moved(T, n), N)
    BY <2>1, ShiftedInto
  <2> QED BY <2>2 DEF S, T
<1>14. /\ i.domain = N /\ i.set = A.initial.set \cup Moved(B.initial.set, n)
       /\ f.domain = N /\ f.set = A.final.set \cup Moved(B.final.set, n)
  <2> HIDE DEF i, f, N
  <2> QED BY <1>9, <1>10 DEF Reserved
<1> HIDE DEF d, i, f
<1>11. N \in Nat /\ i.domain <= N /\ f.domain <= N /\ Len(d) <= N /\ N = i.domain
  BY <1>3, <1>5, <1>14
<1> HIDE DEF N
<1>12. Seen([delta |-> d, initial |-> i, final |-> f], transitions(d), i.set, f.set, N)
  BY <1>4, <1>7, <1>8, <1>11, Made
<1> QED BY <1>1, <1>6, <1>14, <1>12 DEF N, n, k

-----------------------------------------------------------------------------
(* insert_word().                                                          *)
PathOf(n, p, w, q) ==
  [i \in 0..Len(w) |-> IF i = 0 THEN p ELSE IF i = Len(w) THEN q ELSE n + i - 1]

\* The first i transitions of the path, which spell w.
Spelled(path, w, i) == {<<path[j-1], w[j], path[j]>> : j \in 1..i}

(* The path of new states spells the word.                                 *)
LEMMA InsertWordSeen ==
  ASSUME NEW A, IsNfa(A), NEW w \in Seq(Symbol), w # << >>,
         NEW n, n = num_of_states(A), NEW p \in 0..n-1, NEW q \in 0..n-1
  PROVE  Seen(insert_word(A, p, w, q),
              transitions(A.delta) \cup Spelled(PathOf(n, p, w, q), w, Len(w)),
              A.initial.set, A.final.set, n + Len(w) - 1)
<1> DEFINE L == Len(w)
           N == n + L - 1
           path == PathOf(n, p, w, q)
           room == IF L = 1 THEN A.delta ELSE allocate(A.delta, n + L - 1)
           pick == LastPlace(L)
           after(e, i) == add(e, path[i-1], w[i], <<path[i]>>)
           step == [i \in 1..L |-> [e \in Deltas |-> after(e, i)]]
           id == [i \in 1..L |-> i]
           IsRun(g) == g = [S \in SUBSET (1..L) |-> IF S = {} THEN room
                              ELSE after(g[S \ {Max(S)}], id[Max(S)])]
           r == CHOOSE g : IsRun(g)
<1>1. /\ L \in Nat /\ L # 0 /\ \A i \in 1..L : w[i] \in Symbol
      /\ n \in Nat /\ Len(A.delta) \in Nat /\ Len(A.delta) <= n /\ IsDelta(A.delta)
  BY RangeOf, NfaParts, SizeParts
<1>2. insert_word(A, p, w, q) = [A EXCEPT !.delta = r[1..L]]
  <2>1. DOMAIN id = 1..L
    OBVIOUS
  <2> QED BY <2>1 DEF insert_word, PathOf, FoldLeft, MapThenFoldSet
<1>24. \A i \in 1..L : id[i] = i
  OBVIOUS
<1> HIDE DEF id
<1>3. \A i \in 0..L : path[i] \in 0..N-1
  <2>1. ASSUME NEW i \in 0..L PROVE path[i] \in 0..N-1
    <3>1. path[i] = IF i = 0 THEN p ELSE IF i = L THEN q ELSE n + i - 1
      BY DEF PathOf
    <3> HIDE DEF L, path
    <3>2. n <= N
      BY <1>1
    <3>3. CASE i = 0
      BY <1>1, <3>1, <3>2, <3>3
    <3>4. CASE i # 0 /\ i = L
      BY <1>1, <3>1, <3>2, <3>4
    <3>5. CASE i # 0 /\ i # L
      BY <1>1, <3>1, <3>5
    <3> QED BY <3>3, <3>4, <3>5
  <2> QED BY <2>1
<1> HIDE DEF path, L
<1>4. N \in Nat /\ n <= N
  BY <1>1
<1>5. /\ IsDelta(room) /\ Len(room) \in Nat /\ Len(A.delta) <= Len(room) /\ Len(room) <= N
      /\ N = n \/ N = Len(room)
  <2>1. CASE L = 1
    BY <1>1, <2>1
  <2>2. CASE L # 1
    <3>1. room = allocate(A.delta, N)
      BY <2>2
    <3>2. Larger(N, Len(A.delta)) = N
      BY <1>1, <1>4 DEF Larger
    <3> HIDE DEF N
    <3>3. IsDelta(allocate(A.delta, N)) /\ Len(allocate(A.delta, N)) = Larger(N, Len(A.delta))
      BY <1>1, <1>4, Allocate
    <3> QED BY <1>1, <1>4, <3>1, <3>2, <3>3
  <2> QED BY <2>1, <2>2
<1>6. transitions(room) = transitions(A.delta)
  <2>1. CASE L = 1
    BY <2>1
  <2>2. CASE L # 1
    <3>1. room = allocate(A.delta, N)
      BY <2>2
    <3> HIDE DEF N
    <3>2. transitions(allocate(A.delta, N)) = transitions(A.delta)
      BY <1>1, <1>4, Allocate
    <3> QED BY <3>1, <3>2
  <2> QED BY <2>1, <2>2
<1> HIDE DEF room, N
<1>7. room \in Deltas
  BY <1>5, DeltasAre
<1>8. \A i \in 1..L : \A e \in Deltas : step[i][e] = after(e, i) /\ step[i][e] \in Deltas
  <2>1. ASSUME NEW i \in 1..L, NEW e \in Deltas PROVE after(e, i) \in Deltas
    <3>1. i-1 \in 0..L /\ i \in 0..L
      BY <1>1
    <3>2. path[i-1] \in Nat /\ path[i] \in Nat /\ w[i] \in Symbol
      BY <1>1, <1>3, <1>4, <3>1
    <3>3. IsDelta(e)
      BY DeltasAre
    <3>4. IsDelta(after(e, i))
      BY <3>2, <3>3, AddOne
    <3> QED BY <3>4, DeltasAre
  <2> QED BY <2>1
<1> HIDE DEF step
<1>9. PICK g : /\ IsFold(g, 1..L, Deltas, room, step, pick)
               /\ IsPick(pick, 1..L)
               /\ \E layer : /\ IsIteration(layer, L, Deltas, room, step)
                             /\ g[1..L] = layer[L]
  <2>1. Steps(step, L, Deltas)
    BY <1>8 DEF Steps
  <2> HIDE DEF r, IsRun, after
  <2> QED BY <1>1, <1>7, <2>1, FoldOverList
<1>10. \A S \in SUBSET (1..L) : S # {} => pick[S] = Max(S) /\ Max(S) \in 1..L
  BY <1>9 DEF IsPick, LastPlace
<1> HIDE DEF pick
<1>11. /\ g \in [SUBSET (1..L) -> Deltas] /\ g[{}] = room
       /\ \A S \in SUBSET (1..L) : S # {} => g[S] = after(g[S \ {Max(S)}], Max(S))
  <2>1. /\ g \in [SUBSET (1..L) -> Deltas] /\ g[{}] = room
        /\ \A S \in SUBSET (1..L) : S # {} => g[S] = step[Max(S)][g[S \ {Max(S)}]]
    BY <1>9, <1>10 DEF IsFold
  <2>2. \A S \in SUBSET (1..L) : g[S \ {Max(S)}] \in Deltas
    BY <2>1
  <2> HIDE DEF after
  <2> QED BY <2>1, <2>2, <1>8, <1>10
<1>12. IsRun(r)
  <2> HIDE DEF after
  <2>1. \A S \in SUBSET (1..L) : g[S] = IF S = {} THEN room ELSE after(g[S \ {Max(S)}], id[Max(S)])
    BY <1>10, <1>11, <1>24
  <2>2. IsRun(g)
    BY <1>11, <2>1
  <2> HIDE DEF IsRun
  <2>3. \E h : IsRun(h)
    BY <2>2
  <2> QED BY <2>3 DEF r
<1> HIDE DEF r
<1>13. r[{}] = room /\ \A S \in SUBSET (1..L) : S # {} => r[S] = after(r[S \ {Max(S)}], Max(S))
  <2> HIDE DEF after
  <2>1. \A S \in SUBSET (1..L) : r[S] = IF S = {} THEN room ELSE after(r[S \ {Max(S)}], id[Max(S)])
    BY <1>12
  <2> HIDE DEF IsRun
  <2> QED BY <2>1, <1>10, <1>24
<1>14. r[1..L] = g[1..L]
  <2> HIDE DEF after, IsRun
  <2>1. IsFiniteSet(1..L) /\ 1..L \in SUBSET (1..L)
    BY <1>1, FS_Interval
  <2>3. ASSUME NEW S \in SUBSET (1..L), S # {}, r[S \ {pick[S]}] \in Deltas
        PROVE  r[S] = step[pick[S]][r[S \ {pick[S]}]]
    <3>1. pick[S] = Max(S) /\ Max(S) \in 1..L
      BY <1>10, <2>3
    <3>2. step[Max(S)][r[S \ {Max(S)}]] = after(r[S \ {Max(S)}], Max(S))
      BY <1>8, <2>3, <3>1
    <3>3. r[S] = after(r[S \ {Max(S)}], Max(S))
      BY <1>13, <2>3
    <3> QED BY <3>1, <3>2, <3>3
  <2> DEFINE D == 1..L
  <2>4. /\ IsFold(g, D, Deltas, room, step, pick) /\ IsPick(pick, D) /\ IsFiniteSet(D)
        /\ Follows(r, D, Deltas, room, step, pick)
    BY <1>9, <1>13, <2>1, <2>3 DEF Follows
  <2>5. D \in SUBSET D /\ D = 1..L
    OBVIOUS
  <2> HIDE DEF D
  <2>6. r[D] = g[D]
    BY <2>4, <2>5, FoldUnique
  <2> QED BY <2>5, <2>6
<1>15. PICK layer : /\ layer \in [0..L -> Deltas] /\ layer[0] = room
                    /\ \A i \in 1..L : layer[i] = step[i][layer[i-1]]
                    /\ g[1..L] = layer[L]
  BY <1>9 DEF IsIteration
<1> DEFINE Good == {i \in 0..L : Extends(room, Spelled(path, w, i), layer[i])}
<1>16. ASSUME NEW i \in 0..L PROVE Spelled(path, w, i) \in SUBSET Triple
  <2>1. \A j \in 1..i : j \in 1..L /\ j-1 \in 0..L /\ j \in 0..L
    BY <1>1
  <2>2. \A j \in 1..i : path[j-1] \in Nat /\ w[j] \in Symbol /\ path[j] \in Nat
    BY <1>1, <1>3, <1>4, <2>1
  <2> QED BY <2>2 DEF Spelled, Triple
<1>17. \A i \in 0..L : i \in Good
  <2>1. 0 \in Good
    <3>1. Spelled(path, w, 0) = {}
      BY DEF Spelled
    <3>2. Extends(room, {}, room)
      BY <1>7, DeltasAre DEF Extends
    <3>3. 0 \in 0..L /\ layer[0] = room
      BY <1>1, <1>15
    <3> QED BY <3>1, <3>2, <3>3
  <2>2. ASSUME NEW i \in 1..L, i-1 \in Good PROVE i \in Good
    <3>1. i-1 \in 0..L /\ i \in 0..L
      BY <1>1
    <3> DEFINE t == <<path[i-1], w[i], path[i]>>
               before == Spelled(path, w, i-1)
    <3>2. t \in Triple /\ before \in SUBSET Triple
      <4>1. path[i-1] \in Nat /\ w[i] \in Symbol /\ path[i] \in Nat
        BY <1>1, <1>3, <1>4, <3>1
      <4>2. before \in SUBSET Triple
        BY <1>16, <3>1
      <4> QED BY <4>1, <4>2 DEF Triple
    <3>3. Extends(room, before, layer[i-1])
      BY <2>2
    <3>4. layer[i] = add(layer[i-1], t[1], t[2], <<t[3]>>)
      BY <1>8, <1>15, <3>1
    <3>5. Spelled(path, w, i) = before \cup {t}
      <4>1. 1..i = (1..i-1) \cup {i}
        BY <1>1
      <4> QED BY <4>1 DEF Spelled
    <3> HIDE DEF t, before
    <3>6. Extends(room, before \cup {t}, add(layer[i-1], t[1], t[2], <<t[3]>>))
      BY <1>7, <3>2, <3>3, ExtendsByOne
    <3> QED BY <3>1, <3>4, <3>5, <3>6
  <2>3. Good \in SUBSET (0..L)
    OBVIOUS
  <2> HIDE DEF Good
  <2> QED BY <1>1, <2>1, <2>2, <2>3, UpTo
<1> DEFINE d == r[1..L]
           all == Spelled(path, w, L)
<1>18. Extends(room, all, d)
  <2>1. L \in 0..L
    BY <1>1
  <2> QED BY <1>14, <1>15, <1>17, <2>1
<1> HIDE DEF d
<1>19. \A t \in all : t[1] \in 0..N-1 /\ t[3] \in 0..N-1
  <2>1. \A j \in 1..L : j-1 \in 0..L /\ j \in 0..L
    BY <1>1
  <2> QED BY <1>3, <2>1 DEF Spelled
<1> HIDE DEF all
<1>20. /\ IsDelta(d) /\ Len(d) \in Nat /\ Len(room) <= Len(d)
       /\ Len(d) = Len(room) \/ \E t \in all : Len(d) = t[1] + 1 \/ Len(d) = t[3] + 1
  BY <1>18, DeltasAre DEF Extends
<1>21. transitions(d) = transitions(A.delta) \cup all
  BY <1>6, <1>18 DEF Extends
<1>22. Len(A.delta) <= Len(d) /\ Len(d) <= N /\ (N = n \/ N = Len(d))
  <2>1. Len(d) <= N
    BY <1>4, <1>5, <1>19, <1>20
  <2>2. N = Len(room) => N = Len(d)
    BY <1>4, <1>5, <1>20, <2>1
  <2>3. Len(A.delta) <= Len(d)
    BY <1>1, <1>5, <1>20
  <2> QED BY <1>5, <2>1, <2>2, <2>3
<1>23. Seen([A EXCEPT !.delta = d], transitions(d), A.initial.set, A.final.set, N)
  BY <1>4, <1>20, <1>22, DeltaSeen
<1> QED BY <1>2, <1>21, <1>23 DEF d, all, path, N, L

-----------------------------------------------------------------------------
(* The useful states.                                                      *)
Grows(r, M, succ, S) ==
  r[0] = S /\ \A i \in 1..M : r[i] = r[i-1] \cup UNION {succ[q] : q \in r[i-1]}

(* As many layers as nodes, or more, are a closure.                        *)
LEMMA LayersReach ==
  ASSUME NEW succ, IsGraph(succ), NEW S \in SUBSET DOMAIN succ, NEW M \in Nat,
         Cardinality(DOMAIN succ) <= M, NEW r, Grows(r, M, succ, S)
  PROVE  r[M] = Closure(succ, S)
<1> DEFINE C == Closure(succ, S)
           N == Cardinality(DOMAIN succ)
<1>1. PICK within : Layers(within, succ, S) /\ C = within[N]
  BY ClosureLayers
<1>2. S \subseteq C /\ C \in SUBSET DOMAIN succ /\ \A q \in C : succ[q] \subseteq C
  BY ClosureType, ClosureContains, ClosureClosed DEF ClosedUnder
<1> HIDE DEF C
<1>3. N \in Nat /\ N <= M
  BY FS_CardinalityType DEF IsGraph
<1>4. /\ within[0] = S
      /\ \A n \in 1..N : within[n] = within[n-1] \cup UNION {succ[q] : q \in within[n-1]}
  BY <1>1 DEF Layers
<1>5. r[0] = S /\ \A i \in 1..M : r[i] = r[i-1] \cup UNION {succ[q] : q \in r[i-1]}
  BY DEF Grows
<1> HIDE DEF N
<1> DEFINE Inside == {i \in 0..M : r[i] \subseteq C}
           Same == {i \in 0..N : r[i] = within[i]}
           More == {i \in 0..M : i >= N => C \subseteq r[i]}
<1>6. \A i \in 0..M : i \in Inside
  <2>1. 0 \in Inside
    BY <1>2, <1>5
  <2>2. ASSUME NEW i \in 1..M, i-1 \in Inside PROVE i \in Inside
    BY <1>2, <1>5, <2>2
  <2>3. Inside \in SUBSET (0..M)
    OBVIOUS
  <2> HIDE DEF Inside
  <2> QED BY <2>1, <2>2, <2>3, UpTo
<1>7. \A i \in 0..N : i \in Same
  <2>1. 0 \in Same
    BY <1>3, <1>4, <1>5
  <2>2. ASSUME NEW i \in 1..N, i-1 \in Same PROVE i \in Same
    <3>1. i \in 1..M /\ i \in 0..N
      BY <1>3
    <3>2. r[i-1] = within[i-1]
      BY <2>2
    <3>3. within[i] = within[i-1] \cup UNION {succ[q] : q \in within[i-1]}
      BY <1>4
    <3>4. r[i] = r[i-1] \cup UNION {succ[q] : q \in r[i-1]}
      BY <1>5, <3>1
    <3>5. r[i] = within[i]
      BY ONLY <3>2, <3>3, <3>4
    <3> QED BY <3>1, <3>5
  <2>3. Same \in SUBSET (0..N)
    OBVIOUS
  <2> HIDE DEF Same
  <2> QED BY <1>3, <2>1, <2>2, <2>3, UpTo
<1>8. \A i \in 0..M : i \in More
  <2>0. N \in 0..N /\ r[N] = C
    BY <1>1, <1>3, <1>7
  <2>1. 0 \in More
    <3>1. 0 >= N => N = 0
      BY <1>3
    <3> QED BY <2>0, <3>1
  <2>2. ASSUME NEW i \in 1..M, i-1 \in More PROVE i \in More
    <3>1. i >= N => i = N \/ i-1 >= N
      BY <1>3
    <3>2. r[i-1] \subseteq r[i]
      BY <1>5
    <3>3. i-1 >= N => C \subseteq r[i-1]
      BY <2>2
    <3>4. i >= N => C \subseteq r[i]
      BY <2>0, <3>1, <3>2, <3>3
    <3> QED BY <3>4
  <2>3. More \in SUBSET (0..M)
    OBVIOUS
  <2> HIDE DEF More
  <2> QED BY <2>1, <2>2, <2>3, UpTo
<1>9. M \in 0..M /\ M >= N
  BY <1>3
<1> QED BY <1>6, <1>8, <1>9 DEF C

\* The states before q.
Backwards(succ) == [q \in DOMAIN succ |-> {p \in DOMAIN succ : q \in succ[p]}]

(* To lead into S is to be reached from S against the moves.               *)
LEMMA CoClosureBackwards ==
  ASSUME NEW succ, IsGraph(succ), NEW S \in SUBSET DOMAIN succ
  PROVE  CoClosure(succ, S) = Closure(Backwards(succ), S)
<1> DEFINE V == DOMAIN succ
           pred == Backwards(succ)
           C == Closure(pred, S)
           D == CoClosure(succ, S)
<1>1. /\ IsGraph(pred) /\ DOMAIN pred = V
      /\ \A p \in V, q \in V : p \in pred[q] <=> q \in succ[p]
  BY DEF Backwards, IsGraph
<1>2. \A q \in V : succ[q] \subseteq V
  BY DEF IsGraph
<1> HIDE DEF pred
<1>3. S \subseteq C /\ C \in SUBSET V /\ \A q \in C : pred[q] \subseteq C
  BY <1>1, ClosureType, ClosureContains, ClosureClosed DEF ClosedUnder
<1>4. \A p : p \in D <=> p \in V /\ \E q \in S : Reaches(succ, p, q)
  BY DEF CoClosure, Reaches
<1> HIDE DEF C, D
<1>5. ASSUME NEW p \in D PROVE p \in C
  <2> SUFFICES ASSUME p \notin C PROVE FALSE
    OBVIOUS
  <2> DEFINE T == V \ C
  <2>1. PICK q \in S : Reaches(succ, p, q)
    BY <1>4
  <2>2. p \in T
    BY <1>4
  <2>3. \A r \in T \cap V : succ[r] \subseteq T
    BY <1>1, <1>2, <1>3
  <2>4. q \in T
    <3> HIDE DEF T
    <3>1. p \in V
      BY <1>4
    <3> QED BY <2>1, <2>2, <2>3, <3>1, ReachesWithin
  <2> QED BY <1>3, <2>4
<1>6. C \subseteq D
  <2>1. ASSUME NEW q \in S PROVE q \in D
    <3>1. Reaches(succ, q, q)
      BY ReachesSelf
    <3> QED BY <1>4, <3>1
  <2>2. ASSUME NEW q \in D, NEW p \in pred[q] PROVE p \in D
    <3>1. PICK f \in S : Reaches(succ, q, f)
      BY <1>4
    <3>2. q \in V /\ p \in V /\ q \in succ[p]
      BY <1>1, <1>4, <2>2 DEF IsGraph
    <3>3. Reaches(succ, p, p)
      BY <3>2, ReachesSelf
    <3>4. Reaches(succ, p, q)
      BY <3>2, <3>3, ReachesOn
    <3>5. Reaches(succ, p, f)
      BY <3>1, <3>2, <3>4, ReachesTransitive
    <3> QED BY <1>4, <3>2, <3>5
  <2>3. S \subseteq D /\ \A q \in D \cap DOMAIN pred : pred[q] \subseteq D
    BY <2>1, <2>2
  <2> QED BY <1>1, <2>3, ClosureLeast DEF C
<1> QED BY <1>5, <1>6 DEF C, D, pred

\* The moves of a set of transitions between n states.
Next1(T, q) == {t[3] : t \in {u \in T : u[1] = q}}
\* ... as a successor graph.
Moves(T, n) == [q \in 0..n-1 |-> Next1(T, q)]

\* The useful states as the promise finds them, in M rounds.
UsefulIn(T, I, F, n, M) ==
  LET onward[k \in 0..M] ==
        IF k = 0 THEN I
        ELSE LET seen == onward[k-1] IN seen \cup UNION {Next1(T, q) : q \in seen}
      back[k \in 0..M] ==
        IF k = 0 THEN F
        ELSE LET seen == back[k-1]
             IN  seen \cup {q \in 0..n-1 : Next1(T, q) \cap seen # {}}
  IN  onward[M] \cap back[M]

\* The transitions are between the first n states.
Between(T, n) == T \subseteq (0..n-1) \X Symbol \X (0..n-1)

(* The moves of transitions between n states are a graph over them.        *)
LEMMA MovesGraph ==
  ASSUME NEW n \in Nat, NEW T, Between(T, n)
  PROVE  /\ IsGraph(Moves(T, n)) /\ DOMAIN Moves(T, n) = 0..n-1
         /\ Cardinality(0..n-1) = n
         /\ \A q \in 0..n-1 : Moves(T, n)[q] = Next1(T, q) /\ Next1(T, q) \subseteq 0..n-1
         /\ \A q : Next1(T, q) \subseteq 0..n-1
<1>1. \A q : Next1(T, q) \subseteq 0..n-1
  BY DEF Next1, Between
<1>2. IsFiniteSet(0..n-1) /\ Cardinality(0..n-1) = n
  <2>1. IsFiniteSet(0..n-1)
    BY FS_Interval
  <2>2. Cardinality(0..n-1) = IF 0 > n-1 THEN 0 ELSE (n-1)-0+1
    BY FS_Interval
  <2> QED BY <2>1, <2>2
<1> QED BY <1>1, <1>2 DEF Moves, IsGraph

(* A layer of a definition by recursion, once for either direction.        *)
LEMMA GrowingExists ==
  ASSUME NEW succ, IsGraph(succ), NEW S \in SUBSET DOMAIN succ, NEW M \in Nat
  PROVE  \E g : /\ Grows(g, M, succ, S)
                /\ g \in [0..M -> SUBSET DOMAIN succ]
<1> DEFINE V == DOMAIN succ
           Nxt(T) == T \cup UNION {succ[q] : q \in T}
           step == [i \in 1..M |-> [T \in SUBSET V |-> Nxt(T)]]
<1>1. \A T \in SUBSET V : Nxt(T) \in SUBSET V
  BY DEF IsGraph
<1>2. Steps(step, M, SUBSET V) /\ \A i \in 1..M, T \in SUBSET V : step[i][T] = Nxt(T)
  <2> HIDE DEF Nxt, V
  <2> QED BY <1>1 DEF Steps
<1>3. PICK g : IsIteration(g, M, SUBSET V, S, step)
  <2> HIDE DEF step
  <2>1. S \in SUBSET V
    OBVIOUS
  <2> HIDE DEF V
  <2> QED BY ONLY M \in Nat, <1>2, <2>1, Iteration
<1>4. /\ g \in [0..M -> SUBSET V] /\ g[0] = S
      /\ \A i \in 1..M : g[i] = step[i][g[i-1]]
  BY <1>3 DEF IsIteration
<1>5. \A i \in 1..M : g[i] = Nxt(g[i-1])
  <2>1. \A i \in 1..M : g[i-1] \in SUBSET V
    BY <1>4
  <2> HIDE DEF Nxt, V, step
  <2> QED BY <1>2, <1>4, <2>1
<1> QED BY <1>4, <1>5 DEF Grows

(* The promise's useful states are reachable from I, and lead into F.      *)
LEMMA UsefulIs ==
  ASSUME NEW n \in Nat, NEW M \in Nat, n <= M, NEW T, Between(T, n),
         NEW I \in SUBSET (0..n-1), NEW F \in SUBSET (0..n-1)
  PROVE  UsefulIn(T, I, F, n, M)
           = Closure(Moves(T, n), I) \cap CoClosure(Moves(T, n), F)
<1> DEFINE succ == Moves(T, n)
           pred == Backwards(succ)
           On(g) == g = [k \in 0..M |-> IF k = 0 THEN I
                          ELSE g[k-1] \cup UNION {Next1(T, q) : q \in g[k-1]}]
           Ba(g) == g = [k \in 0..M |-> IF k = 0 THEN F
                          ELSE g[k-1] \cup {q \in 0..n-1 : Next1(T, q) \cap g[k-1] # {}}]
           onward == CHOOSE g : On(g)
           back == CHOOSE g : Ba(g)
<1>1. UsefulIn(T, I, F, n, M) = onward[M] \cap back[M]
  BY DEF UsefulIn
<1>2. /\ IsGraph(succ) /\ DOMAIN succ = 0..n-1 /\ Cardinality(DOMAIN succ) <= M
      /\ \A q \in 0..n-1 : succ[q] = Next1(T, q) /\ Next1(T, q) \subseteq 0..n-1
  BY MovesGraph
<1> HIDE DEF succ
<1>3. IsGraph(pred) /\ DOMAIN pred = 0..n-1 /\ Cardinality(DOMAIN pred) <= M
      /\ \A p \in 0..n-1, q \in 0..n-1 : p \in pred[q] <=> q \in Next1(T, p)
  BY <1>2 DEF Backwards, IsGraph
<1> HIDE DEF pred
<1>4. onward[M] = Closure(succ, I)
  <2>1. PICK g : Grows(g, M, succ, I) /\ g \in [0..M -> SUBSET (0..n-1)]
    BY <1>2, GrowingExists
  <2>2. On(g)
    <3>1. \A k \in 0..M : k = 0 \/ (k \in 1..M /\ k-1 \in 0..M)
      OBVIOUS
    <3>2. ASSUME NEW k \in 1..M PROVE g[k] = g[k-1] \cup UNION {Next1(T, q) : q \in g[k-1]}
      <4>1. g[k-1] \subseteq 0..n-1
        BY <2>1, <3>1
      <4>2. \A q \in g[k-1] : succ[q] = Next1(T, q)
        BY <1>2, <4>1
      <4>3. g[k] = g[k-1] \cup UNION {succ[q] : q \in g[k-1]}
        BY <2>1 DEF Grows
      <4> QED BY <4>2, <4>3
    <3>3. g[0] = I
      BY <2>1 DEF Grows
    <3>4. \A k \in 0..M : g[k] = IF k = 0 THEN I ELSE g[k-1] \cup UNION {Next1(T, q) : q \in g[k-1]}
      BY <3>1, <3>2, <3>3
    <3> QED BY <2>1, <3>4
  <2>3. On(onward)
    BY <2>2
  <2> HIDE DEF onward
  <2>4. /\ onward[0] = I
        /\ \A k \in 1..M : onward[k] = onward[k-1] \cup UNION {Next1(T, q) : q \in onward[k-1]}
    <3>1. 0 \in 0..M /\ \A k \in 1..M : k \in 0..M /\ k # 0
      OBVIOUS
    <3> QED BY <2>3, <3>1
  <2> HIDE DEF On
  <2> DEFINE Good == {k \in 0..M : onward[k] \subseteq 0..n-1}
  <2>5. \A k \in 0..M : k \in Good
    <3>0. onward[0] \in SUBSET (0..n-1)
      BY <2>4
    <3>1. 0 \in Good
      BY <3>0
    <3>2. ASSUME NEW k \in 1..M, k-1 \in Good PROVE k \in Good
      <4>1. \A q \in onward[k-1] : Next1(T, q) \subseteq 0..n-1
        BY <1>2, <3>2
      <4> QED BY <2>4, <3>2, <4>1
    <3>3. Good \in SUBSET (0..M)
      OBVIOUS
    <3> HIDE DEF Good
    <3> QED BY <3>1, <3>2, <3>3, UpTo
  <2>6. Grows(onward, M, succ, I)
    <3>1. ASSUME NEW k \in 1..M
          PROVE  onward[k] = onward[k-1] \cup UNION {succ[q] : q \in onward[k-1]}
      <4>1. k-1 \in 0..M
        OBVIOUS
      <4>2. \A q \in onward[k-1] : succ[q] = Next1(T, q)
        BY <1>2, <2>5, <4>1
      <4>3. onward[k] = onward[k-1] \cup UNION {Next1(T, q) : q \in onward[k-1]}
        BY <2>4
      <4> QED BY <4>2, <4>3
    <3> QED BY <2>4, <3>1 DEF Grows
  <2> QED BY <1>2, <2>6, LayersReach
<1>5. back[M] = Closure(pred, F)
  <2>0. ASSUME NEW S \in SUBSET (0..n-1)
        PROVE  UNION {pred[q] : q \in S} = {q \in 0..n-1 : Next1(T, q) \cap S # {}}
    <3>1. \A q \in S : pred[q] \subseteq 0..n-1
      BY <1>3 DEF IsGraph
    <3> QED BY <1>3, <3>1
  <2>1. PICK g : Grows(g, M, pred, F) /\ g \in [0..M -> SUBSET (0..n-1)]
    BY <1>3, GrowingExists
  <2>2. Ba(g)
    <3>1. \A k \in 0..M : k = 0 \/ (k \in 1..M /\ k-1 \in 0..M)
      OBVIOUS
    <3>2. ASSUME NEW k \in 1..M
          PROVE  g[k] = g[k-1] \cup {q \in 0..n-1 : Next1(T, q) \cap g[k-1] # {}}
      <4>1. g[k-1] \in SUBSET (0..n-1)
        BY <2>1, <3>1
      <4>3. g[k] = g[k-1] \cup UNION {pred[q] : q \in g[k-1]}
        BY <2>1 DEF Grows
      <4> QED BY <2>0, <4>1, <4>3
    <3>3. g[0] = F
      BY <2>1 DEF Grows
    <3>4. \A k \in 0..M : g[k] = IF k = 0 THEN F
                ELSE g[k-1] \cup {q \in 0..n-1 : Next1(T, q) \cap g[k-1] # {}}
      BY <3>1, <3>2, <3>3
    <3> QED BY <2>1, <3>4
  <2>3. Ba(back)
    <3> HIDE DEF Ba
    <3>1. \E h : Ba(h)
      BY <2>2
    <3> QED BY <3>1 DEF back
  <2> HIDE DEF back
  <2>4. /\ back[0] = F
        /\ \A k \in 1..M : back[k] = back[k-1] \cup {q \in 0..n-1 : Next1(T, q) \cap back[k-1] # {}}
    <3>1. 0 \in 0..M /\ \A k \in 1..M : k \in 0..M /\ k # 0
      OBVIOUS
    <3> QED BY <2>3, <3>1
  <2> HIDE DEF Ba
  <2> DEFINE Good == {k \in 0..M : back[k] \in SUBSET (0..n-1)}
  <2>5. \A k \in 0..M : k \in Good
    <3>0. back[0] \in SUBSET (0..n-1)
      BY <2>4
    <3>1. 0 \in Good
      BY <3>0
    <3>2. ASSUME NEW k \in 1..M, k-1 \in Good PROVE k \in Good
      BY <2>4, <3>2
    <3>3. Good \in SUBSET (0..M)
      OBVIOUS
    <3> HIDE DEF Good
    <3> QED BY <3>1, <3>2, <3>3, UpTo
  <2>6. Grows(back, M, pred, F)
    <3>1. ASSUME NEW k \in 1..M
          PROVE  back[k] = back[k-1] \cup UNION {pred[q] : q \in back[k-1]}
      <4>1. k-1 \in 0..M
        OBVIOUS
      <4>2. back[k-1] \in SUBSET (0..n-1)
        BY <2>5, <4>1
      <4>3. back[k] = back[k-1] \cup {q \in 0..n-1 : Next1(T, q) \cap back[k-1] # {}}
        BY <2>4
      <4> QED BY <2>0, <4>2, <4>3
    <3> QED BY <2>4, <3>1 DEF Grows
  <2> QED BY <1>3, <2>6, LayersReach
<1>6. CoClosure(succ, F) = Closure(pred, F)
  BY <1>2, CoClosureBackwards DEF pred
<1> HIDE DEF onward, back
<1> QED BY <1>1, <1>4, <1>5, <1>6 DEF succ

-----------------------------------------------------------------------------
(* The mathematical automaton of an automaton.                             *)
LEMMA AutomatonIs ==
  ASSUME NEW A, IsNfa(A), NEW n, n = num_of_states(A), NEW T, T = transitions(A.delta)
  PROVE  /\ AsAutomaton(A) \in AutomataOver(0..n-1, Symbol)
         /\ AsAutomaton(A).initial = A.initial.set /\ AsAutomaton(A).final = A.final.set
         /\ \A p \in 0..n-1, a \in Symbol : \A q :
              q \in AsAutomaton(A).delta[p][a] <=> <<p, a, q>> \in T
         /\ Between(T, n)
<1> DEFINE d == A.delta
           of(p, a) == targets_over(state_post(d, p), a)
<1>1. /\ IsDelta(d) /\ n \in Nat /\ Len(d) \in Nat /\ Len(d) <= n
      /\ A.initial.set \subseteq 0..n-1 /\ A.final.set \subseteq 0..n-1
  BY NfaParts, SizeParts
<1>2. T = transitions(d)
  OBVIOUS
<1>3. AsAutomaton(A) = [initial |-> A.initial.set, final |-> A.final.set,
                        delta |-> [p \in 0..n-1 |-> [a \in Symbol |-> of(p, a)]]]
  BY DEF AsAutomaton
<1> HIDE DEF d
<1>4. /\ \A i \in 1..Len(d) : SoundPost(d[i], Len(d))
      /\ \A p, a, q : <<p, a, q>> \in T <=> p \in 0..Len(d)-1 /\ Has(d[p+1], a, q)
      /\ \A t \in T : \E p \in 0..Len(d)-1, a \in Symbol, q \in 0..Len(d)-1 : t = <<p, a, q>>
  BY <1>1, <1>2, TransitionsOf
<1>5. ASSUME NEW p \in 0..n-1, NEW a, NEW q PROVE q \in of(p, a) <=> <<p, a, q>> \in T
  <2>0. \A post : q \in targets_over(post, a) <=> Has(post, a, q)
    BY DEF targets_over, Has
  <2>1. CASE p < Len(d)
    <3>1. p \in 0..Len(d)-1 /\ state_post(d, p) = d[p+1]
      BY <1>1, <2>1 DEF state_post
    <3> QED BY <1>4, <2>0, <3>1
  <2>2. CASE ~ (p < Len(d))
    <3>1. p \notin 0..Len(d)-1 /\ state_post(d, p) = << >>
      BY <1>1, <2>2 DEF state_post
    <3>2. ~ Has(<< >>, a, q)
      BY EmptyPost
    <3> QED BY <1>4, <2>0, <3>1, <3>2
  <2> QED BY <2>1, <2>2
<1>6. Between(T, n)
  <2>1. \A i \in 0..Len(d)-1 : i \in 0..n-1
    BY <1>1
  <2> QED BY <1>4, <2>1 DEF Between
<1>7. \A p \in 0..n-1, a \in Symbol : of(p, a) \subseteq 0..n-1
  <2> SUFFICES ASSUME NEW p \in 0..n-1, NEW a \in Symbol, NEW q \in of(p, a) PROVE q \in 0..n-1
    OBVIOUS
  <2> HIDE DEF of
  <2>1. <<p, a, q>> \in T
    BY <1>5
  <2>2. \A t \in T : t[3] \in 0..n-1
    BY <1>6 DEF Between
  <2>3. <<p, a, q>>[3] \in 0..n-1
    BY <2>1, <2>2
  <2> QED BY <2>3
<1> HIDE DEF of
<1>8. [p \in 0..n-1 |-> [a \in Symbol |-> of(p, a)]] \in [0..n-1 -> [Symbol -> SUBSET (0..n-1)]]
  BY <1>7
<1>9. AsAutomaton(A) \in AutomataOver(0..n-1, Symbol)
  BY <1>1, <1>3, <1>8 DEF AutomataOver
<1>10. \A p \in 0..n-1, a \in Symbol : AsAutomaton(A).delta[p][a] = of(p, a)
  BY <1>3
<1> QED BY <1>3, <1>5, <1>6, <1>9, <1>10

(* get_useful_states() is between the initial and the final states along   *)
(* the moves.                                                              *)
LEMMA MovesOf ==
  ASSUME NEW A, IsNfa(A), NEW n, n = num_of_states(A), NEW T, T = transitions(A.delta)
  PROVE  /\ AutSuccessors(AsAutomaton(A)) = Moves(T, n)
         /\ get_useful_states(A)
              = Closure(Moves(T, n), A.initial.set) \cap CoClosure(Moves(T, n), A.final.set)
<1> DEFINE B == AsAutomaton(A)
<1>1. n \in Nat
  BY SizeParts
<1>2. /\ B \in AutomataOver(0..n-1, Symbol) /\ B.initial = A.initial.set /\ B.final = A.final.set
      /\ \A p \in 0..n-1, a \in Symbol : \A q : q \in B.delta[p][a] <=> <<p, a, q>> \in T
      /\ Between(T, n)
  BY AutomatonIs
<1> HIDE DEF B
<1>3. IsFiniteSet(0..n-1)
  <2>1. 0 \in Int /\ n-1 \in Int
    BY <1>1
  <2> QED BY <2>1, FS_Interval
<1>4. /\ DOMAIN AutSuccessors(B) = 0..n-1
      /\ \A q \in 0..n-1 : AutSuccessors(B)[q] = UNION {B.delta[q][a] : a \in Symbol}
  <2> DEFINE states == 0..n-1
  <2>1. IsFiniteSet(states) /\ B \in AutomataOver(states, Symbol)
    BY <1>2, <1>3
  <2> HIDE DEF states
  <2>2. /\ DOMAIN AutSuccessors(B) = states
        /\ \A q \in states : AutSuccessors(B)[q] = UNION {B.delta[q][a] : a \in Symbol}
    BY <2>1, AutomatonGraph
  <2> QED BY <2>2 DEF states
<1>5. ASSUME NEW q \in 0..n-1 PROVE AutSuccessors(B)[q] = Next1(T, q)
  <2>1. \A x : x \in UNION {B.delta[q][a] : a \in Symbol} <=> \E a \in Symbol : <<q, a, x>> \in T
    BY <1>2
  <2>2. \A t \in T : t = <<t[1], t[2], t[3]>> /\ t[2] \in Symbol
    BY <1>2 DEF Between
  <2>3. \A x : x \in Next1(T, q) <=> \E a \in Symbol : <<q, a, x>> \in T
    <3> SUFFICES ASSUME NEW x PROVE x \in Next1(T, q) <=> \E a \in Symbol : <<q, a, x>> \in T
      OBVIOUS
    <3>1. x \in Next1(T, q) <=> \E t \in T : t[1] = q /\ t[3] = x
      BY DEF Next1
    <3>2. ASSUME NEW t \in T, t[1] = q, t[3] = x PROVE \E a \in Symbol : <<q, a, x>> \in T
      BY <2>2, <3>2
    <3>3. ASSUME NEW a \in Symbol, <<q, a, x>> \in T PROVE \E t \in T : t[1] = q /\ t[3] = x
      BY <3>3
    <3> QED BY <3>1, <3>2, <3>3
  <2> QED BY <1>4, <2>1, <2>3
<1>6. AutSuccessors(B) = Moves(T, n)
  <2>1. AutSuccessors(B) = [q \in DOMAIN AutSuccessors(B) |-> AutSuccessors(B)[q]]
    BY DEF AutSuccessors
  <2>2. AutSuccessors(B) = [q \in 0..n-1 |-> Next1(T, q)]
    BY <1>4, <1>5, <2>1
  <2> QED BY <2>2 DEF Moves
<1>7. get_useful_states(A) = Closure(AutSuccessors(B), A.initial.set)
                               \cap CoClosure(AutSuccessors(B), A.final.set)
  BY <1>2 DEF get_useful_states, UsefulStates, B
<1> QED BY <1>6, <1>7 DEF B

(* A useful state without a post of its own is initial and final.          *)
LEMMA UsefulTypes ==
  ASSUME NEW A, IsNfa(A)
  PROVE  /\ get_useful_states(A) \subseteq 0..num_of_states(A)-1
         /\ \A q \in get_useful_states(A) :
              q >= Len(A.delta) => q \in A.initial.set /\ q \in A.final.set
<1> DEFINE n == num_of_states(A)
           T == transitions(A.delta)
           m == Len(A.delta)
           succ == Moves(T, n)
           I == A.initial.set
           F == A.final.set
<1>1. /\ n \in Nat /\ m \in Nat /\ m <= n /\ I \subseteq 0..n-1 /\ F \subseteq 0..n-1
  BY SizeParts
<1>2. \A t \in T : t[1] \in 0..m-1 /\ t[3] \in 0..m-1
  BY NfaParts, TransitionTypes
<1>3. Between(T, n)
  BY AutomatonIs
<1>4. get_useful_states(A) = Closure(succ, I) \cap CoClosure(succ, F)
  BY MovesOf
<1> HIDE DEF n, T, m, I, F
<1>5. /\ IsGraph(succ) /\ DOMAIN succ = 0..n-1
      /\ \A q \in 0..n-1 : succ[q] = Next1(T, q) /\ Next1(T, q) \subseteq 0..n-1
  BY <1>1, <1>3, MovesGraph
<1> HIDE DEF succ
<1>6. \A q : Next1(T, q) \subseteq 0..m-1 /\ (Next1(T, q) # {} => q \in 0..m-1)
  BY <1>2 DEF Next1
<1>7. Closure(succ, I) \subseteq 0..n-1
  BY <1>1, <1>5, ClosureType
<1>8. ASSUME NEW q \in Closure(succ, I), q >= m PROVE q \in I
  <2> DEFINE X == I \cup 0..m-1
  <2>1. I \subseteq X /\ \A r \in X \cap DOMAIN succ : succ[r] \subseteq X
    BY <1>5, <1>6
  <2>2. Closure(succ, I) \subseteq X
    <3> HIDE DEF X
    <3> QED BY <1>1, <1>5, <2>1, ClosureLeast
  <2>3. q \notin 0..m-1
    BY <1>1, <1>8
  <2> QED BY <2>2, <2>3
<1>9. ASSUME NEW q \in CoClosure(succ, F), q >= m PROVE q \in F
  <2>1. q \in 0..n-1 /\ q \notin 0..m-1
    BY <1>1, <1>5, <1>9 DEF CoClosure
  <2>2. PICK f \in F : Reaches(succ, q, f)
    BY <1>9 DEF CoClosure, Reaches
  <2>3. succ[q] = {}
    BY <1>5, <1>6, <2>1
  <2>4. f = q \/ \E r \in succ[q] : Reaches(succ, r, f)
    BY <1>5, <2>1, <2>2, ReachesFirst
  <2> QED BY <2>2, <2>3, <2>4
<1> QED BY <1>4, <1>7, <1>8, <1>9 DEF n, m, I, F

-----------------------------------------------------------------------------
(* The places of the states that stay.                                     *)
Rank(U, i) == Cardinality({p \in U : p < i})

(* How ranks count: from none to all, one more past each state that        *)
(* stays.                                                                  *)
LEMMA Ranks ==
  ASSUME NEW n \in Nat, NEW U \in SUBSET (0..n-1)
  PROVE  /\ IsFiniteSet(U) /\ Cardinality(U) \in Nat
         /\ Rank(U, 0) = 0 /\ Rank(U, n) = Cardinality(U)
         /\ \A i \in Nat : /\ Rank(U, i) \in Nat /\ Rank(U, i) <= Cardinality(U)
                           /\ Rank(U, i) <= i
                           /\ Rank(U, i+1) = Rank(U, i) + IF i \in U THEN 1 ELSE 0
         /\ \A i, j \in Nat : i <= j => Rank(U, i) <= Rank(U, j)
         /\ \A i \in U : i \in Nat /\ \A j \in Nat : i < j => Rank(U, i) < Rank(U, j)
<1> DEFINE below(i) == {p \in U : p < i}
<1>0. \A p \in U : p \in 0..n-1 /\ p \in Nat /\ p < n /\ 0 <= p
  OBVIOUS
<1>1. IsFiniteSet(U) /\ Cardinality(U) \in Nat
  <2>1. IsFiniteSet(0..n-1)
    BY FS_Interval
  <2>2. IsFiniteSet(U)
    BY <2>1, FS_Subset
  <2> QED BY <2>2, FS_CardinalityType
<1>2. ASSUME NEW i \in Nat
      PROVE  IsFiniteSet(below(i)) /\ Cardinality(below(i)) \in Nat
             /\ Cardinality(below(i)) <= Cardinality(U)
  <2>1. below(i) \subseteq U
    OBVIOUS
  <2> HIDE DEF below
  <2> QED BY <1>1, <2>1, FS_Subset, FS_CardinalityType
<1>3. ASSUME NEW i \in Nat, NEW j \in Nat, i <= j
      PROVE  Cardinality(below(i)) <= Cardinality(below(j))
  <2>1. \A p \in U : p < i => p < j
    BY <1>0, <1>3
  <2>2. below(i) \subseteq below(j)
    BY <2>1
  <2> HIDE DEF below
  <2> QED BY <1>2, <2>2, FS_Subset
<1>4. ASSUME NEW i \in Nat
      PROVE  Cardinality(below(i+1)) = Cardinality(below(i)) + IF i \in U THEN 1 ELSE 0
  <2>1. CASE i \in U
    <3>0. \A p \in U : p < i+1 <=> p < i \/ p = i
      BY <1>0
    <3>1. \A p : p \in below(i+1) <=> p \in below(i) \/ p = i
      BY <1>4, <2>1, <3>0
    <3>2. i \notin below(i)
      BY <1>0, <2>1
    <3>3. below(i+1) = below(i) \cup {i}
      <4> HIDE DEF below
      <4> QED BY <3>1
    <3> HIDE DEF below
    <3> QED BY <1>2, <2>1, <3>2, <3>3, FS_AddElement
  <2>2. CASE i \notin U
    <3>0. \A p \in U : p < i+1 <=> p < i \/ p = i
      BY <1>0
    <3>1. below(i+1) = below(i)
      BY <2>2, <3>0
    <3> HIDE DEF below
    <3> QED BY <1>2, <2>2, <3>1
  <2> QED BY <2>1, <2>2
<1>5. Cardinality(below(0)) = 0
  <2>1. \A p \in U : ~ (p < 0)
    BY <1>0
  <2>2. below(0) = {}
    BY <2>1
  <2> QED BY <2>2, FS_EmptySet
<1>6. below(n) = U
  BY <1>0
<1>7. ASSUME NEW i \in U, NEW j \in Nat, i < j
      PROVE  Cardinality(below(i)) < Cardinality(below(j))
  <2>1. i \in Nat /\ i+1 \in Nat /\ i+1 <= j
    BY <1>0, <1>7
  <2>2. Cardinality(below(i+1)) = Cardinality(below(i)) + 1
    BY <1>4, <2>1
  <2>3. Cardinality(below(i+1)) <= Cardinality(below(j))
    BY <1>3, <2>1
  <2> HIDE DEF below
  <2> QED BY <1>2, <2>1, <2>2, <2>3
<1>8. \A i \in Nat : Cardinality(below(i)) <= i
  <2> SUFFICES ASSUME NEW i \in Nat PROVE Cardinality(below(i)) <= i
    OBVIOUS
  <2>0. \A p \in U : p < i => p \in 0..i-1
    BY <1>0
  <2>1. below(i) \subseteq 0..i-1
    BY <2>0
  <2>2. IsFiniteSet(0..i-1) /\ Cardinality(0..i-1) = IF 0 > i-1 THEN 0 ELSE (i-1)-0+1
    BY FS_Interval
  <2>3. Cardinality(0..i-1) = i
    BY <2>2
  <2> HIDE DEF below
  <2>4. Cardinality(below(i)) <= Cardinality(0..i-1)
    BY <2>1, <2>2, FS_Subset
  <2> QED BY <2>3, <2>4
<1>9. \A i : Rank(U, i) = Cardinality(below(i))
  BY DEF Rank
<1>10. Rank(U, 0) = 0 /\ Rank(U, n) = Cardinality(U)
  BY <1>5, <1>6, <1>9
<1>11. ASSUME NEW i \in Nat
       PROVE  /\ Rank(U, i) \in Nat /\ Rank(U, i) <= Cardinality(U) /\ Rank(U, i) <= i
              /\ Rank(U, i+1) = Rank(U, i) + IF i \in U THEN 1 ELSE 0
  <2> HIDE DEF below
  <2>1. Rank(U, i) = Cardinality(below(i)) /\ Rank(U, i+1) = Cardinality(below(i+1))
    BY <1>9
  <2>2. Rank(U, i) \in Nat /\ Rank(U, i) <= Cardinality(U) /\ Rank(U, i) <= i
    BY <1>2, <1>8, <2>1
  <2>3. Rank(U, i+1) = Rank(U, i) + IF i \in U THEN 1 ELSE 0
    BY <1>4, <2>1
  <2> QED BY <2>2, <2>3
<1>12. \A i, j \in Nat : i <= j => Rank(U, i) <= Rank(U, j)
  <2> HIDE DEF below
  <2> QED BY <1>3, <1>9
<1>13. \A i \in U : i \in Nat
  BY <1>0
<1>14. \A i \in U : \A j \in Nat : i < j => Rank(U, i) < Rank(U, j)
  <2> HIDE DEF below
  <2> QED BY <1>7, <1>9
<1> QED BY <1>1, <1>10, <1>11, <1>12, <1>13, <1>14

-----------------------------------------------------------------------------
(* trim().                                                                 *)
Renaming(U) == [q \in U |-> Rank(U, q)]

\* What the targets of a symbol post become.
kept_targets(t, U) == rename(filter(t, U), Renaming(U))

\* The new numbers of the states in S.
Ranked(U, S) == {Rank(U, x) : x \in S}

(* In a vector of states that stay, one that is its own index is preceded  *)
(* by every smaller state, so rename() is right not to change it.          *)
LEMMA RenamedVector ==
  ASSUME NEW n \in Nat, NEW U \in SUBSET (0..n-1), NEW t \in OrdVector, Range(t) \subseteq U
  PROVE  /\ rename(t, Renaming(U)) \in OrdVector
         /\ Range(rename(t, Renaming(U))) = Ranked(U, Range(t))
<1> DEFINE m == Len(t)
           r == rename(t, Renaming(U))
<1>1. t \in Seq(Nat) /\ Ascending(t)
  BY DEF OrdVector
<1>2. m \in Nat /\ (\A i \in 1..m : t[i] \in Nat /\ t[i] \in U) /\ Range(t) = {t[i] : i \in 1..m}
  BY <1>1, RangeOf
<1>3. \A i \in 1..m : \A j \in 1..i-1 : t[j] < t[i]
  BY <1>1 DEF Ascending
<1>4. /\ \A i \in Nat : /\ Rank(U, i) \in Nat /\ Rank(U, i) <= i
                        /\ Rank(U, i+1) = Rank(U, i) + IF i \in U THEN 1 ELSE 0
      /\ \A i, j \in Nat : i <= j => Rank(U, i) <= Rank(U, j)
      /\ \A i \in U : i \in Nat /\ \A j \in Nat : i < j => Rank(U, i) < Rank(U, j)
  BY Ranks
<1> DEFINE Good == {k \in 0..m : k = 0 \/ Rank(U, t[k]) >= k-1}
<1>5. \A k \in 0..m : k \in Good
  <2>1. 0 \in Good
    BY <1>2
  <2>2. ASSUME NEW k \in 1..m, k-1 \in Good PROVE k \in Good
    <3>1. CASE k = 1
      <4>1. Rank(U, t[1]) \in Nat
        BY <1>2, <1>4, <3>1
      <4> QED BY <3>1, <4>1
    <3>2. CASE k # 1
      <4>1. k-1 \in 1..m /\ k-1 # 0 /\ k-1 \in 1..k-1
        BY <1>2, <3>2
      <4>2. Rank(U, t[k-1]) >= (k-1)-1
        BY <2>2, <4>1
      <4>3. t[k-1] < t[k] /\ t[k-1] \in U /\ t[k] \in Nat /\ t[k-1] \in Nat
        BY <1>2, <1>3, <4>1
      <4>4. Rank(U, t[k-1]) < Rank(U, t[k]) /\ Rank(U, t[k-1]) \in Nat /\ Rank(U, t[k]) \in Nat
        BY <1>4, <4>3
      <4>5. Rank(U, t[k]) >= k-1
        BY <4>2, <4>4
      <4> QED BY <4>5
    <3> QED BY <3>1, <3>2
  <2>3. Good \in SUBSET (0..m)
    OBVIOUS
  <2> HIDE DEF Good
  <2> QED BY <1>2, <2>1, <2>2, <2>3, UpTo
<1>6. ASSUME NEW i \in 1..m PROVE r[i] = Rank(U, t[i])
  <2>1. r[i] = IF t[i] = i-1 THEN t[i] ELSE Renaming(U)[t[i]]
    BY DEF rename
  <2>2. Renaming(U)[t[i]] = Rank(U, t[i])
    BY <1>2 DEF Renaming
  <2>3. ASSUME t[i] = i-1 PROVE t[i] = Rank(U, t[i])
    <3>1. i \in 0..m /\ i # 0
      BY <1>2
    <3>2. Rank(U, t[i]) >= i-1
      BY <1>5, <3>1
    <3>3. t[i] \in Nat /\ Rank(U, t[i]) \in Nat /\ Rank(U, t[i]) <= t[i]
      BY <1>2, <1>4
    <3> QED BY <2>3, <3>2, <3>3
  <2> QED BY <2>1, <2>2, <2>3
<1>7. r \in [1..m -> Nat] /\ DOMAIN r = 1..m
  <2>1. r = [i \in 1..m |-> r[i]]
    BY DEF rename
  <2>2. \A i \in 1..m : r[i] \in Nat
    BY <1>2, <1>4, <1>6
  <2> HIDE DEF r
  <2> QED BY <2>1, <2>2
<1> HIDE DEF r
<1>8. r \in Seq(Nat) /\ Len(r) = m
  BY <1>2, <1>7, SeqDef
<1>9. Ascending(r)
  <2> SUFFICES ASSUME NEW i \in 1..m, NEW j \in 1..i-1 PROVE r[j] < r[i]
    BY <1>8 DEF Ascending
  <2>1. j \in 1..m /\ t[j] < t[i] /\ t[j] \in U /\ t[i] \in Nat
    BY <1>2, <1>3
  <2>2. Rank(U, t[j]) < Rank(U, t[i])
    BY <1>4, <2>1
  <2> QED BY <1>6, <2>1, <2>2
<1>10. Range(r) = {r[i] : i \in 1..m}
  BY <1>7 DEF Range
<1>11. Range(r) = Ranked(U, Range(t))
  <2>1. \A y : y \in Range(r) <=> \E i \in 1..m : y = Rank(U, t[i])
    BY <1>6, <1>10
  <2>2. \A y : y \in Ranked(U, Range(t)) <=> \E i \in 1..m : y = Rank(U, t[i])
    BY <1>2 DEF Ranked
  <2> QED BY <2>1, <2>2
<1> QED BY <1>8, <1>9, <1>11 DEF r, OrdVector

(* The targets that stay, renamed.                                         *)
LEMMA KeptTargets ==
  ASSUME NEW n \in Nat, NEW U \in SUBSET (0..n-1), NEW t \in OrdVector
  PROVE  /\ kept_targets(t, U) \in OrdVector /\ kept_targets(t, U) \in Seq(Nat)
         /\ \A y : y \in Range(kept_targets(t, U))
                     <=> \E x \in U : x \in Range(t) /\ y = Rank(U, x)
<1> DEFINE s == filter(t, U)
           R == Ranked(U, Range(s))
<1>1. s \in OrdVector /\ Range(s) = Range(t) \cap U
  BY FilterOrdered
<1>2. Range(s) \subseteq U
  BY <1>1
<1> HIDE DEF s
<1>6. s \in OrdVector
  BY <1>1
<1>3. rename(s, Renaming(U)) \in OrdVector
  BY <1>6, <1>2, RenamedVector
<1>4. Range(rename(s, Renaming(U))) = Ranked(U, Range(s))
  BY <1>6, <1>2, RenamedVector
<1>5. \A y : y \in Ranked(U, Range(s)) <=> \E x \in U : x \in Range(t) /\ y = Rank(U, x)
  BY <1>1 DEF Ranked
<1> QED BY <1>3, <1>4, <1>5 DEF kept_targets, s, OrdVector

\* The symbols of the post are smaller than a.
AllBefore(post, a) == \A k \in 1..Len(post) : post[k].symbol < a

\* A symbol post.
SymbolPostOf(a, t) == [symbol |-> a, targets |-> t]

\* The moves of r are those of the post, and over a into T.
MovesAdded(r, post, a, T) ==
  \A b, q : Has(r, b, q) <=> Has(post, b, q) \/ (b = a /\ q \in T)

(* A symbol post that comes after all others.                              *)
LEMMA AppendSymbolPost ==
  ASSUME NEW N \in Nat, NEW post, SoundPost(post, N), NEW a \in Symbol,
         NEW t \in OrdVector, t # << >>, Range(t) \subseteq 0..N-1,
         AllBefore(post, a), NEW r, r = Append(post, SymbolPostOf(a, t))
  PROVE  /\ SoundPost(r, N) /\ r \in StatePost
         /\ MovesAdded(r, post, a, Range(t))
         /\ \A k \in 1..Len(r) : r[k].symbol = a \/ \E j \in 1..Len(post) : r[k].symbol = post[j].symbol
<1> DEFINE sp == [symbol |-> a, targets |-> t]
           n == Len(post)
<1>1. sp \in SymbolPost /\ sp.symbol = a /\ sp.targets = t
  BY DEF SymbolPost, OrdVector
<1>2. post \in Seq(SymbolPost) /\ n \in Nat
  BY LenProperties DEF SoundPost, StatePost
<1>3. r = Append(post, sp)
  BY DEF SymbolPostOf
<1> HIDE DEF sp
<1>4. /\ r \in Seq(SymbolPost) /\ Len(r) = n+1
      /\ \A i \in 1..n : r[i] = post[i]
      /\ r[n+1] = sp
  BY <1>1, <1>2, <1>3, AppendTo
<1> HIDE DEF n
<1>5. \A k \in 1..n+1 : k \in 1..n \/ k = n+1
  BY <1>2
<1>6. n+1 \in 1..n+1 /\ \A k \in 1..n : k \in 1..n+1
  BY <1>2
<1>7. ASSUME NEW i \in 1..n+1, NEW j \in 1..i-1 PROVE r[j].symbol < r[i].symbol
  <2>1. j \in 1..n
    BY <1>2
  <2>2. CASE i \in 1..n
    BY <1>4, <2>1, <2>2 DEF SoundPost, n
  <2>3. CASE i = n+1
    BY <1>1, <1>4, <2>1, <2>3 DEF AllBefore, n
  <2> QED BY <1>5, <2>2, <2>3
<1>8. \A k \in 1..n+1 : /\ r[k].targets # << >>
                        /\ r[k].targets \in OrdVector
                        /\ Range(r[k].targets) \subseteq 0..N-1
  <2>1. \A k \in 1..n : /\ post[k].targets # << >>
                        /\ post[k].targets \in OrdVector
                        /\ Range(post[k].targets) \subseteq 0..N-1
    BY DEF SoundPost, n
  <2> QED BY <1>1, <1>4, <1>5, <2>1
<1>9. SoundPost(r, N)
  BY <1>4, <1>7, <1>8 DEF SoundPost, StatePost
<1>10. ASSUME NEW b, NEW q
       PROVE  Has(r, b, q) <=> Has(post, b, q) \/ (b = a /\ q \in Range(t))
  <2>1. Has(r, b, q) <=> \E k \in 1..n+1 : r[k].symbol = b /\ q \in Range(r[k].targets)
    BY <1>4 DEF Has
  <2>2. Has(post, b, q) <=> \E k \in 1..n : post[k].symbol = b /\ q \in Range(post[k].targets)
    BY DEF Has, n
  <2> QED BY <1>1, <1>4, <1>5, <1>6, <2>1, <2>2
<1>11. \A k \in 1..n+1 : r[k].symbol = a \/ \E j \in 1..n : r[k].symbol = post[j].symbol
  BY <1>1, <1>4, <1>5
<1> QED BY <1>4, <1>9, <1>10, <1>11 DEF n, StatePost, MovesAdded

\* What defragment_post() makes of a symbol post.
kept_symbol_post(sp, U) == [sp EXCEPT !.targets = kept_targets(@, U)]

\* The first k posts are kept as g[k].
IsKept(g, post, U) ==
  /\ g \in [0..Len(post) -> StatePost] /\ g[0] = << >>
  /\ \A k \in 1..Len(post) :
       g[k] = IF kept_targets(post[k].targets, U) = << >> THEN g[k-1]
              ELSE Append(g[k-1], kept_symbol_post(post[k], U))

(* The posts that defragment_post() goes through.                          *)
LEMMA KeptLayers ==
  ASSUME NEW n \in Nat, NEW U \in SUBSET (0..n-1), NEW N \in Nat, NEW post, SoundPost(post, N)
  PROVE  \E g : /\ IsKept(g, post, U)
                /\ defragment_post(post, U, Renaming(U)) = g[Len(post)]
<1> DEFINE m == Len(post)
           Nxt(k, u) == IF kept_targets(post[k].targets, U) = << >> THEN u
                        ELSE Append(u, kept_symbol_post(post[k], U))
           step == [i \in 1..m |-> [u \in StatePost |-> Nxt(i, u)]]
           IsRun(g) == g = [i \in 0..m |-> IF i = 0 THEN << >> ELSE Nxt(i, g[i-1])]
           r == CHOOSE g : IsRun(g)
<1>1. m \in Nat /\ \A k \in 1..m : post[k] \in SymbolPost /\ post[k].targets \in OrdVector
  BY PostParts DEF SoundPost
<1>2. ASSUME NEW k \in 1..m PROVE kept_symbol_post(post[k], U) \in SymbolPost
  <2>1. kept_targets(post[k].targets, U) \in Seq(Nat)
    BY <1>1, KeptTargets
  <2>2. post[k] \in SymbolPost
    BY <1>1
  <2> QED BY <2>1, <2>2 DEF kept_symbol_post, SymbolPost
<1>3. \A i \in 1..m : \A u \in StatePost : Nxt(i, u) \in StatePost
  BY <1>2, AppendProperties DEF StatePost
<1>4. \A i \in 1..m : \A u \in StatePost : step[i][u] = Nxt(i, u)
  OBVIOUS
<1>5. << >> \in StatePost
  BY DEF StatePost
<1> HIDE DEF m, step, Nxt
<1>6. PICK g : IsIteration(g, m, StatePost, << >>, step)
  BY <1>1, <1>3, <1>4, <1>5, Iteration DEF Steps
<1>7. /\ g \in [0..m -> StatePost] /\ g[0] = << >>
      /\ \A i \in 1..m : g[i] = Nxt(i, g[i-1])
  <2>1. /\ g \in [0..m -> StatePost] /\ g[0] = << >>
        /\ \A i \in 1..m : g[i] = step[i][g[i-1]]
    BY <1>6 DEF IsIteration
  <2>2. \A i \in 1..m : i-1 \in 0..m
    BY <1>1
  <2> QED BY <2>1, <2>2, <1>4
<1>8. IsRun(g)
  <2>1. \A i \in 0..m : i = 0 \/ i \in 1..m
    BY <1>1
  <2>2. \A i \in 0..m : g[i] = IF i = 0 THEN << >> ELSE Nxt(i, g[i-1])
    BY <1>7, <2>1
  <2> QED BY <1>7, <2>2
<1>9. IsRun(r)
  BY <1>8
<1>10. defragment_post(post, U, Renaming(U)) = r[m]
  BY DEF defragment_post, m, Nxt, kept_targets, kept_symbol_post
<1>11. \A f : IsRun(f) => /\ f[0] = << >>
                          /\ \A i \in 1..m : f[i] = Nxt(i, f[i-1])
  <2>1. \A i \in 1..m : i \in 0..m /\ i # 0
    BY <1>1
  <2>2. 0 \in 0..m
    BY <1>1
  <2> QED BY <2>1, <2>2
<1> HIDE DEF r
<1>12. r[0] = << >> /\ \A i \in 1..m : r[i] = Nxt(i, r[i-1])
  BY <1>9, <1>11
<1> DEFINE Good == {i \in 0..m : r[i] = g[i]}
<1>13. \A i \in 0..m : i \in Good
  <2>1. 0 \in Good
    BY <1>1, <1>7, <1>12
  <2>2. \A i \in 1..m : i-1 \in Good => i \in Good
    BY <1>1, <1>7, <1>12
  <2>3. Good \in SUBSET (0..m)
    OBVIOUS
  <2> HIDE DEF Good
  <2> QED BY <1>1, <2>1, <2>2, <2>3, UpTo
<1>14. r[m] = g[m]
  BY <1>1, <1>13
<1>15. IsKept(g, post, U)
  BY <1>7 DEF IsKept, m, Nxt
<1> QED BY <1>10, <1>14, <1>15 DEF m

\* q is the new number of a state that a leads to.
HasRanked(post, U, a, y) == \E x \in U : Has(post, a, x) /\ y = Rank(U, x)

(* defragment_post() keeps the moves to the states that stay.              *)
LEMMA DefragmentedPost ==
  ASSUME NEW n \in Nat, NEW U \in SUBSET (0..n-1), NEW N \in Nat, NEW post, SoundPost(post, N)
  PROVE  /\ SoundPost(defragment_post(post, U, Renaming(U)), Rank(U, N))
         /\ \A a, y : Has(defragment_post(post, U, Renaming(U)), a, y)
                        <=> HasRanked(post, U, a, y)
<1> DEFINE m == Len(post)
           M == Rank(U, N)
           Kept(k) == kept_targets(post[k].targets, U)
           Upto(k, a, y) == \E j \in 1..k : post[j].symbol = a /\ y \in Range(Kept(j))
<1>1. /\ m \in Nat
      /\ \A k \in 1..m : /\ post[k] \in SymbolPost /\ post[k].targets \in OrdVector
                         /\ post[k].symbol \in Symbol /\ post[k].symbol \in Nat
                         /\ Range(post[k].targets) \subseteq 0..N-1
      /\ \A i \in 1..m : \A j \in 1..i-1 : post[j].symbol < post[i].symbol
  BY PostParts DEF SoundPost
<1>2. M \in Nat
  BY Ranks
<1>3. ASSUME NEW k \in 1..m
      PROVE  /\ Kept(k) \in OrdVector
             /\ \A y : y \in Range(Kept(k))
                        <=> \E x \in U : x \in Range(post[k].targets) /\ y = Rank(U, x)
  BY <1>1, KeptTargets
<1>4. ASSUME NEW k \in 1..m PROVE Range(Kept(k)) \subseteq 0..M-1
  <2> SUFFICES ASSUME NEW y \in Range(Kept(k)) PROVE y \in 0..M-1
    OBVIOUS
  <2>1. PICK x \in U : x \in Range(post[k].targets) /\ y = Rank(U, x)
    BY <1>3
  <2>2. x \in Nat /\ x < N
    <3>1. x \in 0..N-1
      BY <1>1, <2>1
    <3> QED BY <3>1
  <2>3. Rank(U, x) \in Nat /\ Rank(U, x) < M
    BY <2>2, Ranks
  <2> QED BY <1>2, <2>1, <2>3
<1>5. \A k \in 1..m : kept_symbol_post(post[k], U) = [symbol |-> post[k].symbol, targets |-> Kept(k)]
  BY <1>1 DEF kept_symbol_post, SymbolPost
<1> HIDE DEF M, Kept
<1>6. PICK g : IsKept(g, post, U) /\ defragment_post(post, U, Renaming(U)) = g[m]
  BY KeptLayers
<1>7. /\ g \in [0..m -> StatePost] /\ g[0] = << >>
      /\ \A k \in 1..m : g[k] = IF Kept(k) = << >> THEN g[k-1]
                                ELSE Append(g[k-1], [symbol |-> post[k].symbol, targets |-> Kept(k)])
  BY <1>5, <1>6 DEF IsKept, Kept
<1> DEFINE Right(k) ==
             /\ SoundPost(g[k], M)
             /\ \A j \in 1..Len(g[k]) : \E i \in 1..k : g[k][j].symbol = post[i].symbol
             /\ \A a, y : Has(g[k], a, y) <=> Upto(k, a, y)
           Good == {k \in 0..m : Right(k)}
<1>8. Right(0)
  <2>1. SoundPost(<< >>, M) /\ \A a, q : ~ Has(<< >>, a, q)
    BY <1>2, EmptyPost
  <2>2. 1..Len(<< >>) = {} /\ 1..0 = {}
    OBVIOUS
  <2> QED BY <1>7, <2>1, <2>2
<1>9. ASSUME NEW k \in 1..m, Right(k-1) PROVE Right(k)
  <2>1. k-1 \in 0..m /\ k \in Nat /\ \A j : j \in 1..k <=> j \in 1..k-1 \/ j = k
    BY <1>1
  <2>2. \A a, y : Upto(k, a, y) <=> Upto(k-1, a, y) \/ (a = post[k].symbol /\ y \in Range(Kept(k)))
    BY <2>1
  <2> HIDE DEF Upto
  <2>3. CASE Kept(k) = << >>
    <3>1. g[k] = g[k-1]
      BY <1>7, <2>3
    <3>2. Range(Kept(k)) = {}
      BY <2>3 DEF Range
    <3>3. \A a, y : Upto(k, a, y) <=> Upto(k-1, a, y)
      BY <2>2, <3>2
    <3>4. \A j \in 1..Len(g[k]) : \E i \in 1..k : g[k][j].symbol = post[i].symbol
      BY <1>9, <2>1, <3>1
    <3> QED BY <1>9, <3>1, <3>3, <3>4
  <2>4. CASE Kept(k) # << >>
    <3> DEFINE a0 == post[k].symbol
               t == Kept(k)
               old == g[k-1]
    <3>1. /\ SoundPost(old, M) /\ a0 \in Symbol /\ t \in OrdVector /\ t # << >>
          /\ Range(t) \subseteq 0..M-1
      BY <1>1, <1>3, <1>4, <1>9, <2>4
    <3>2. AllBefore(old, a0)
      <4>1. \A i \in 1..k-1 : post[i].symbol < a0
        BY <1>1
      <4> QED BY <1>9, <4>1 DEF AllBefore
    <3>3. g[k] = Append(old, [symbol |-> a0, targets |-> t])
      BY <1>7, <2>4
    <3>5. \A j \in 1..Len(old) : \E i \in 1..k-1 : old[j].symbol = post[i].symbol
      BY <1>9
    <3>6. \A a, y : Has(old, a, y) <=> Upto(k-1, a, y)
      BY <1>9
    <3>7. \A a, y : Upto(k, a, y) <=> Upto(k-1, a, y) \/ (a = a0 /\ y \in Range(t))
      BY <2>2
    <3>9. a0 = post[k].symbol
      OBVIOUS
    <3> DEFINE new == g[k]
    <3>8. new = Append(old, SymbolPostOf(a0, t))
      BY <3>3 DEF SymbolPostOf
    <3> HIDE DEF a0, t, old, new
    <3> HIDE DEF Right, Good
    <3>41. SoundPost(new, M)
      BY <1>2, <3>1, <3>2, <3>8, AppendSymbolPost
    <3>42. MovesAdded(new, old, a0, Range(t))
      BY <1>2, <3>1, <3>2, <3>8, AppendSymbolPost
    <3>43. \A j \in 1..Len(new) : new[j].symbol = a0 \/ \E i \in 1..Len(old) : new[j].symbol = old[i].symbol
      BY <1>2, <3>1, <3>2, <3>8, AppendSymbolPost
    <3> USE DEF Right
    <3>10. \A j \in 1..Len(new) : \E i \in 1..k : new[j].symbol = post[i].symbol
      BY <2>1, <3>43, <3>5, <3>9
    <3>11. \A a, y : Has(new, a, y) <=> Upto(k, a, y)
      BY <3>42, <3>6, <3>7 DEF MovesAdded
    <3> QED BY <3>41, <3>10, <3>11 DEF new
  <2> QED BY <2>3, <2>4
<1>10. \A k \in 0..m : k \in Good
  <2> HIDE DEF Right
  <2>1. 0 \in Good
    BY <1>1, <1>8
  <2>2. \A k \in 1..m : k-1 \in Good => k \in Good
    BY <1>1, <1>9
  <2>3. Good \in SUBSET (0..m)
    OBVIOUS
  <2> HIDE DEF Good
  <2> QED BY <1>1, <2>1, <2>2, <2>3, UpTo
<1>11. Right(m)
  <2> HIDE DEF Right, m
  <2>2. m \in 0..m
    BY <1>1
  <2>1. m \in Good
    BY <1>10, <2>2
  <2> QED BY <2>1
<1>12. ASSUME NEW a, NEW y PROVE Upto(m, a, y) <=> HasRanked(post, U, a, y)
  <2>1. Upto(m, a, y) <=> \E j \in 1..m : post[j].symbol = a /\ \E x \in U :
                            x \in Range(post[j].targets) /\ y = Rank(U, x)
    BY <1>3
  <2> HIDE DEF Upto
  <2>2. HasRanked(post, U, a, y) <=> \E x \in U : y = Rank(U, x) /\ \E j \in 1..m :
                                       post[j].symbol = a /\ x \in Range(post[j].targets)
    BY DEF HasRanked, Has
  <2> QED BY <2>1, <2>2
<1> QED BY <1>6, <1>11, <1>12 DEF M

\* The posts of the first i states are moved together as g[i].
IsMovedUp(g, d, U) ==
  /\ g \in [0..Len(d) -> Seq(StatePost)] /\ g[0] = << >>
  /\ \A i \in 1..Len(d) :
       g[i] = IF i-1 \notin U THEN g[i-1]
              ELSE Append(g[i-1], defragment_post(d[i], U, Renaming(U)))

(* The deltas that defragment() goes through.                              *)
LEMMA MovedUpLayers ==
  ASSUME NEW n \in Nat, NEW U \in SUBSET (0..n-1), NEW d, IsDelta(d)
  PROVE  \E g : IsMovedUp(g, d, U) /\ defragment(d, U, Renaming(U)) = g[Len(d)]
<1> DEFINE m == Len(d)
           Nxt(i, u) == IF i-1 \notin U THEN u
                        ELSE Append(u, defragment_post(d[i], U, Renaming(U)))
           Us == Seq(StatePost)
           step == [i \in 1..m |-> [u \in Us |-> Nxt(i, u)]]
           IsRun(g) == g = [i \in 0..m |-> IF i = 0 THEN << >> ELSE Nxt(i, g[i-1])]
           r == CHOOSE g : IsRun(g)
<1>1. m \in Nat /\ \A i \in 1..m : SoundPost(d[i], m)
  BY TransitionsOf
<1>2. ASSUME NEW i \in 1..m PROVE defragment_post(d[i], U, Renaming(U)) \in StatePost
  <2>1. SoundPost(d[i], m)
    BY <1>1
  <2>2. SoundPost(defragment_post(d[i], U, Renaming(U)), Rank(U, m))
    BY <1>1, <2>1, DefragmentedPost
  <2> QED BY <2>2 DEF SoundPost
<1>3. \A i \in 1..m : \A u \in Us : Nxt(i, u) \in Us
  BY <1>2, AppendProperties
<1>4. \A i \in 1..m : \A u \in Us : step[i][u] = Nxt(i, u)
  OBVIOUS
<1>5. << >> \in Us
  OBVIOUS
<1> HIDE DEF m, step, Nxt, Us
<1>6. PICK g : IsIteration(g, m, Us, << >>, step)
  BY <1>1, <1>3, <1>4, <1>5, Iteration DEF Steps
<1>7. /\ g \in [0..m -> Us] /\ g[0] = << >>
      /\ \A i \in 1..m : g[i] = Nxt(i, g[i-1])
  <2>1. /\ g \in [0..m -> Us] /\ g[0] = << >>
        /\ \A i \in 1..m : g[i] = step[i][g[i-1]]
    BY <1>6 DEF IsIteration
  <2>2. \A i \in 1..m : i-1 \in 0..m
    BY <1>1
  <2> QED BY <2>1, <2>2, <1>4
<1>8. IsRun(g)
  <2>1. \A i \in 0..m : i = 0 \/ i \in 1..m
    BY <1>1
  <2>2. \A i \in 0..m : g[i] = IF i = 0 THEN << >> ELSE Nxt(i, g[i-1])
    BY <1>7, <2>1
  <2> QED BY <1>7, <2>2
<1>9. IsRun(r)
  BY <1>8
<1>10. defragment(d, U, Renaming(U)) = r[m]
  BY DEF defragment, m, Nxt
<1>11. \A f : IsRun(f) => /\ f[0] = << >>
                          /\ \A i \in 1..m : f[i] = Nxt(i, f[i-1])
  <2>1. \A i \in 1..m : i \in 0..m /\ i # 0
    BY <1>1
  <2>2. 0 \in 0..m
    BY <1>1
  <2> QED BY <2>1, <2>2
<1> HIDE DEF r
<1>12. r[0] = << >> /\ \A i \in 1..m : r[i] = Nxt(i, r[i-1])
  BY <1>9, <1>11
<1> DEFINE Good == {i \in 0..m : r[i] = g[i]}
<1>13. \A i \in 0..m : i \in Good
  <2>1. 0 \in Good
    BY <1>1, <1>7, <1>12
  <2>2. \A i \in 1..m : i-1 \in Good => i \in Good
    BY <1>1, <1>7, <1>12
  <2>3. Good \in SUBSET (0..m)
    OBVIOUS
  <2> HIDE DEF Good
  <2> QED BY <1>1, <2>1, <2>2, <2>3, UpTo
<1>14. r[m] = g[m]
  BY <1>1, <1>13
<1>15. IsMovedUp(g, d, U)
  BY <1>7 DEF IsMovedUp, m, Nxt, Us
<1> QED BY <1>10, <1>14, <1>15 DEF m

\* The transitions between states that stay, renamed.
Kept(T, U) == {<<Rank(U, t[1]), t[2], Rank(U, t[3])>> : t \in {u \in T : {u[1], u[3]} \subseteq U}}

(* defragment() keeps the transitions between the states that stay, and    *)
(* each post has the place that its state is renamed to.                   *)
LEMMA Defragmented ==
  ASSUME NEW n \in Nat, NEW U \in SUBSET (0..n-1), NEW d, IsDelta(d),
         NEW r, r = defragment(d, U, Renaming(U))
  PROVE  /\ IsDelta(r) /\ Len(r) = Rank(U, Len(d))
         /\ transitions(r) = Kept(transitions(d), U)
<1> DEFINE m == Len(d)
           M == Rank(U, m)
           P(q) == defragment_post(d[q+1], U, Renaming(U))
<1>1. m \in Nat /\ \A i \in 1..m : SoundPost(d[i], m)
  BY TransitionsOf
<1>2. /\ Rank(U, 0) = 0
      /\ \A i \in Nat : /\ Rank(U, i) \in Nat
                        /\ Rank(U, i+1) = Rank(U, i) + IF i \in U THEN 1 ELSE 0
      /\ \A i \in U : i \in Nat /\ \A j \in Nat : i < j => Rank(U, i) < Rank(U, j)
  BY Ranks
<1>3. M \in Nat
  BY <1>1, <1>2
<1>4. ASSUME NEW q \in 0..m-1
      PROVE  SoundPost(P(q), M) /\ \A a, y : Has(P(q), a, y) <=> HasRanked(d[q+1], U, a, y)
  <2>1. SoundPost(d[q+1], m)
    BY <1>1
  <2>2. SoundPost(P(q), M)
    BY <1>1, <2>1, DefragmentedPost
  <2>3. \A a, y : Has(P(q), a, y) <=> HasRanked(d[q+1], U, a, y)
    BY <1>1, <2>1, DefragmentedPost
  <2> QED BY <2>2, <2>3
<1>5. \A i \in 1..m : defragment_post(d[i], U, Renaming(U)) = P(i-1)
  BY <1>1
<1> HIDE DEF m, M, P
<1>6. PICK g : IsMovedUp(g, d, U) /\ r = g[m]
  BY MovedUpLayers DEF m
<1>7. /\ g \in [0..m -> Seq(StatePost)] /\ g[0] = << >>
      /\ \A i \in 1..m : g[i] = IF i-1 \notin U THEN g[i-1] ELSE Append(g[i-1], P(i-1))
  BY <1>5, <1>6 DEF IsMovedUp, m
<1> DEFINE At(i, j) == \E q \in U : q < i /\ j = Rank(U, q) + 1 /\ g[i][j] = P(q)
           Right(i) == Len(g[i]) = Rank(U, i) /\ \A j \in 1..Rank(U, i) : At(i, j)
           Good == {i \in 0..m : Right(i)}
<1>8. Right(0)
  BY <1>2, <1>7
<1>9. ASSUME NEW i \in 1..m, Right(i-1) PROVE Right(i)
  <2>1. i-1 \in Nat /\ i-1 \in 0..m /\ i-1 \in 0..m-1 /\ (i-1)+1 = i
    BY <1>1
  <2>2. Rank(U, i) = Rank(U, i-1) + IF i-1 \in U THEN 1 ELSE 0
    BY <1>2, <2>1
  <2>3. CASE i-1 \notin U
    <3>1. Rank(U, i) = Rank(U, i-1) /\ g[i] = g[i-1]
      BY <1>2, <1>7, <2>1, <2>2, <2>3
    <3>2. \A q \in U : q < i-1 => q < i
      BY <1>1, <1>2
    <3> QED BY <1>9, <3>1, <3>2
  <2>4. CASE i-1 \in U
    <3> DEFINE old == g[i-1]
               k == Rank(U, i-1)
    <3>1. old \in Seq(StatePost) /\ k \in Nat /\ Len(old) = k
      BY <1>2, <1>7, <1>9, <2>1
    <3>2. Rank(U, i) = k+1 /\ g[i] = Append(old, P(i-1))
      BY <1>2, <1>7, <2>1, <2>2, <2>4
    <3>3. P(i-1) \in StatePost
      BY <1>4, <2>1 DEF SoundPost
    <3>4. \A j \in 1..k : At(i-1, j)
      BY <1>9
    <3> HIDE DEF old
    <3>5. /\ Len(g[i]) = k+1 /\ g[i][k+1] = P(i-1) /\ \A j \in 1..k : g[i][j] = old[j]
      BY <3>1, <3>2, <3>3, AppendTo
    <3>6. ASSUME NEW j \in 1..k PROVE At(i, j)
      <4>1. PICK q \in U : q < i-1 /\ j = Rank(U, q) + 1 /\ old[j] = P(q)
        BY <3>4 DEF old
      <4>2. q < i
        BY <1>2, <2>1, <4>1
      <4> QED BY <3>5, <4>1, <4>2
    <3>7. At(i, k+1)
      <4>1. i-1 < i
        BY <2>1
      <4> QED BY <2>4, <3>5, <4>1
    <3>8. \A j \in 1..k+1 : j \in 1..k \/ j = k+1
      BY <3>1
    <3> HIDE DEF At
    <3> QED BY <3>2, <3>5, <3>6, <3>7, <3>8
  <2> QED BY <2>3, <2>4
<1>10. \A i \in 0..m : i \in Good
  <2> HIDE DEF Right
  <2>1. 0 \in Good
    BY <1>1, <1>8
  <2>2. \A i \in 1..m : i-1 \in Good => i \in Good
    BY <1>1, <1>9
  <2>3. Good \in SUBSET (0..m)
    OBVIOUS
  <2> HIDE DEF Good
  <2> QED BY <1>1, <2>1, <2>2, <2>3, UpTo
<1>11. Right(m) /\ r \in Seq(StatePost)
  <2> HIDE DEF Right
  <2>1. m \in 0..m
    BY <1>1
  <2> QED BY <1>6, <1>7, <1>10, <2>1
<1>12. Len(r) = M /\ \A j \in 1..M : \E q \in U : q \in 0..m-1 /\ j = Rank(U, q) + 1 /\ r[j] = P(q)
  <2>1. \A q \in U : q < m => q \in 0..m-1
    BY <1>1, <1>2
  <2> QED BY <1>6, <1>11, <2>1 DEF M
<1>13. IsDelta(r)
  <2>1. \A j \in 1..M : SoundPost(r[j], M)
    BY <1>4, <1>12
  <2> QED BY <1>11, <1>12, <2>1 DEF IsDelta
<1>14. ASSUME NEW q \in U, q \in 0..m-1 PROVE Rank(U, q) \in 0..M-1 /\ r[Rank(U, q) + 1] = P(q)
  <2>1. Rank(U, q) \in Nat /\ Rank(U, q) < M
    BY <1>1, <1>2, <1>14 DEF M
  <2>2. Rank(U, q) + 1 \in 1..M
    BY <1>3, <2>1
  <2>3. PICK x \in U : x \in 0..m-1 /\ Rank(U, q) + 1 = Rank(U, x) + 1 /\ r[Rank(U, q) + 1] = P(x)
    BY <1>12, <2>2
  <2>4. q \in Nat /\ x \in Nat /\ Rank(U, q) \in Nat /\ Rank(U, x) \in Nat
    BY <1>2
  <2>5. Rank(U, q) = Rank(U, x)
    BY <2>3, <2>4
  <2>6. ~ (q < x) /\ ~ (x < q)
    BY <1>2, <2>4, <2>5
  <2>7. q = x
    BY <2>4, <2>6
  <2> QED BY <1>3, <2>1, <2>3, <2>7
<1>15. \A j \in 0..M-1 : \E q \in U : q \in 0..m-1 /\ j = Rank(U, q)
  <2> SUFFICES ASSUME NEW j \in 0..M-1 PROVE \E q \in U : q \in 0..m-1 /\ j = Rank(U, q)
    OBVIOUS
  <2>1. j+1 \in 1..M
    BY <1>3
  <2>2. PICK q \in U : q \in 0..m-1 /\ j+1 = Rank(U, q) + 1
    BY <1>12, <2>1
  <2>3. q \in Nat
    BY <1>2
  <2>4. Rank(U, q) \in Nat
    BY <1>2, <2>3
  <2>5. j = Rank(U, q)
    BY <2>2, <2>4
  <2> QED BY <2>2, <2>5
<1> DEFINE T == transitions(d)
           K == transitions(r)
           Q == Kept(T, U)
<1>16. /\ \A p, a, q : <<p, a, q>> \in T <=> p \in 0..m-1 /\ Has(d[p+1], a, q)
       /\ \A t \in T : \E p \in 0..m-1, a \in Symbol, q \in 0..m-1 : t = <<p, a, q>>
  BY TransitionsOf DEF m
<1>17. \A p, a, q : <<p, a, q>> \in K <=> p \in 0..M-1 /\ Has(r[p+1], a, q)
  BY <1>12, <1>13, TransitionsOf
<1>18. K \subseteq Triple
  BY <1>13, TransitionTypes
<1>22. \A t \in T : t = <<t[1], t[2], t[3]>> /\ t[2] \in Symbol
  BY TransitionTypes
<1>19. Q \subseteq Triple
  <2> SUFFICES ASSUME NEW t \in T, {t[1], t[3]} \subseteq U
               PROVE  <<Rank(U, t[1]), t[2], Rank(U, t[3])>> \in Triple
    BY DEF Kept
  <2>1. t[1] \in Nat /\ t[3] \in Nat /\ t[2] \in Symbol
    BY <1>2, <1>22
  <2> QED BY <1>2, <2>1 DEF Triple
<1> HIDE DEF T, K
<1>20. ASSUME NEW p, NEW a, NEW y
       PROVE  <<p, a, y>> \in Q <=> \E q, x \in U : <<q, a, x>> \in T /\ p = Rank(U, q) /\ y = Rank(U, x)
  <2>1. ASSUME NEW q \in U, NEW x \in U, <<q, a, x>> \in T, p = Rank(U, q), y = Rank(U, x)
        PROVE  <<p, a, y>> \in Q
    BY <2>1 DEF Kept
  <2>2. ASSUME <<p, a, y>> \in Q
        PROVE  \E q, x \in U : <<q, a, x>> \in T /\ p = Rank(U, q) /\ y = Rank(U, x)
    <3>1. PICK t \in T : {t[1], t[3]} \subseteq U /\ <<p, a, y>> = <<Rank(U, t[1]), t[2], Rank(U, t[3])>>
      BY <2>2 DEF Kept
    <3>2. t[1] \in U /\ t[3] \in U /\ p = Rank(U, t[1]) /\ a = t[2] /\ y = Rank(U, t[3])
      BY <3>1
    <3> QED BY <1>22, <3>2 DEF T
  <2> QED BY <2>1, <2>2
<1> HIDE DEF Q
<1>21. ASSUME NEW p, NEW a, NEW y
       PROVE  <<p, a, y>> \in K <=> \E q, x \in U : <<q, a, x>> \in T /\ p = Rank(U, q) /\ y = Rank(U, x)
  <2>1. ASSUME <<p, a, y>> \in K
        PROVE  \E q, x \in U : <<q, a, x>> \in T /\ p = Rank(U, q) /\ y = Rank(U, x)
    <3>1. p \in 0..M-1 /\ Has(r[p+1], a, y)
      BY <1>17, <2>1
    <3>2. PICK q \in U : q \in 0..m-1 /\ p = Rank(U, q)
      BY <1>15, <3>1
    <3>3. Has(P(q), a, y)
      BY <1>14, <3>1, <3>2
    <3>4. PICK x \in U : Has(d[q+1], a, x) /\ y = Rank(U, x)
      BY <1>4, <3>2, <3>3 DEF HasRanked
    <3> QED BY <1>16, <3>2, <3>4
  <2>2. ASSUME NEW q \in U, NEW x \in U, <<q, a, x>> \in T, p = Rank(U, q), y = Rank(U, x)
        PROVE  <<p, a, y>> \in K
    <3>1. q \in 0..m-1 /\ Has(d[q+1], a, x)
      BY <1>16, <2>2
    <3>2. Has(P(q), a, y)
      BY <1>4, <2>2, <3>1 DEF HasRanked
    <3>3. p \in 0..M-1 /\ r[p+1] = P(q)
      BY <1>14, <2>2, <3>1
    <3> QED BY <1>17, <3>2, <3>3
  <2> QED BY <2>1, <2>2
<1>23. K = Q
  <2>1. ASSUME NEW p \in Nat, NEW a \in Symbol, NEW y \in Nat
        PROVE  <<p, a, y>> \in K <=> <<p, a, y>> \in Q
    <3> DEFINE Is == \E q, x \in U : <<q, a, x>> \in T /\ p = Rank(U, q) /\ y = Rank(U, x)
    <3>1. <<p, a, y>> \in K <=> Is
      BY <1>21
    <3>2. <<p, a, y>> \in Q <=> Is
      BY <1>20
    <3> HIDE DEF Is
    <3> QED BY <3>1, <3>2
  <2> QED BY <1>18, <1>19, <2>1, SameTriples
<1> QED BY <1>12, <1>13, <1>23 DEF K, Q, T, M, m

(* The sparse set of a set of states has as large a domain as it needs.    *)
LEMMA SparseMade ==
  ASSUME NEW N \in Nat, NEW S \in SUBSET (0..N-1)
  PROVE  /\ IsSparse(sparse(S)) /\ sparse(S).set = S
         /\ sparse(S).domain <= N
         /\ N-1 \in S => sparse(S).domain = N
<1> DEFINE D == {0} \cup {q+1 : q \in S}
           bounds == {k \in Nat : \A x \in D : x <= k}
<1>1. /\ \A q \in S : q \in Nat /\ q+1 <= N /\ q < q+1 /\ q+1 \in Nat
      /\ 0 \in Nat
  OBVIOUS
<1>2. D \subseteq Nat /\ \A x \in D : x <= N
  BY <1>1
<1>3. 0 \in D /\ \A q \in S : q+1 \in D
  OBVIOUS
<1> HIDE DEF D
<1>4. PICK k \in bounds : \A l \in bounds : k <= l
  <2>1. N \in bounds /\ bounds \in SUBSET Nat
    BY <1>2
  <2> HIDE DEF bounds
  <2> QED BY <2>1, LeastNumber
<1>5. k \in Nat /\ k <= N /\ \A x \in D : x <= k
  BY <1>2, <1>4
<1>6. k \in D
  <2> SUFFICES ASSUME k \notin D PROVE FALSE
    OBVIOUS
  <2>1. \A x \in D : x <= k-1
    BY <1>2, <1>5
  <2>2. k-1 \in Nat
    BY <1>3, <1>5
  <2>3. k-1 \in bounds
    BY <2>1, <2>2
  <2>4. k <= k-1
    BY <1>4, <2>3
  <2> QED BY <1>5, <2>4
<1>7. Max(D) = k
  <2>1. Max(D) \in D /\ \A x \in D : Max(D) >= x
    <3>1. \A x \in D : k >= x
      BY <1>2, <1>5
    <3> QED BY <1>6, <3>1 DEF Max
  <2>2. Max(D) \in Nat /\ Max(D) >= k /\ Max(D) <= k
    BY <1>2, <1>5, <1>6, <2>1
  <2> QED BY <1>5, <2>2
<1>8. sparse(S) = [set |-> S, domain |-> k]
  BY <1>7 DEF sparse, D
<1>9. \A q \in S : q+1 <= k
  BY <1>3, <1>5
<1>10. \A q \in S : q < k
  BY <1>1, <1>5, <1>9
<1>11. N-1 \in S => k = N
  BY <1>5, <1>9
<1>12. S \in SUBSET Nat
  BY <1>1
<1>13. sparse(S) \in [set : SUBSET Nat, domain : Nat]
  BY <1>5, <1>8, <1>12
<1>14. sparse(S).set = S /\ sparse(S).domain = k
  BY <1>8
<1>15. IsSparse(sparse(S))
  BY <1>10, <1>13, <1>14 DEF IsSparse
<1> QED BY <1>5, <1>11, <1>14, <1>15

(* The states that stay take the first numbers.                            *)
LEMMA RenamedSet ==
  ASSUME NEW n \in Nat, NEW U \in SUBSET (0..n-1), NEW S \in SUBSET U
  PROVE  /\ IsSparse(renamed(S, Renaming(U)))
         /\ renamed(S, Renaming(U)).set = Ranked(U, S)
         /\ renamed(S, Renaming(U)).domain \in Nat
         /\ renamed(S, Renaming(U)).domain <= Cardinality(U)
         /\ (\E q \in S : Rank(U, q) = Cardinality(U) - 1)
              => renamed(S, Renaming(U)).domain = Cardinality(U)
<1> DEFINE N == Cardinality(U)
           R == Ranked(U, S)
<1>1. {Renaming(U)[q] : q \in S} = R
  BY DEF Renaming, Ranked
<1>2. N \in Nat
  BY Ranks
<1>3. R \in SUBSET (0..N-1)
  <2> SUFFICES ASSUME NEW q \in S PROVE Rank(U, q) \in 0..N-1
    BY DEF Ranked
  <2>1. q \in Nat /\ q < n
    OBVIOUS
  <2>2. Rank(U, q) \in Nat /\ Rank(U, q) < Rank(U, n) /\ Rank(U, n) = N
    BY <2>1, Ranks
  <2> HIDE DEF N
  <2> QED BY <1>2, <2>2
<1>4. renamed(S, Renaming(U)) = sparse(R)
  BY <1>1 DEF renamed
<1>5. (\E q \in S : Rank(U, q) = N - 1) => N-1 \in R
  BY DEF Ranked
<1> HIDE DEF R, N
<1>6. IsSparse(sparse(R))
  BY <1>2, <1>3, SparseMade
<1>7. sparse(R).set = R
  BY <1>2, <1>3, SparseMade
<1>8. sparse(R).domain <= N
  BY <1>2, <1>3, SparseMade
<1>9. N-1 \in R => sparse(R).domain = N
  BY <1>2, <1>3, SparseMade
<1>10. sparse(R).domain \in Nat
  BY <1>6 DEF IsSparse
<1> QED BY <1>4, <1>5, <1>6, <1>7, <1>8, <1>9, <1>10 DEF R, N

(* If the places up to m do not hold all of U, the last of U is at m or    *)
(* after it.                                                               *)
LEMMA LastRank ==
  ASSUME NEW n \in Nat, NEW U \in SUBSET (0..n-1), NEW m \in Nat, Rank(U, m) # Cardinality(U)
  PROVE  \E q \in U : q >= m /\ Rank(U, q) = Cardinality(U) - 1
<1> DEFINE N == Cardinality(U)
           full == {i \in Nat : Rank(U, i) = N}
<1>1. /\ N \in Nat /\ Rank(U, n) = N /\ Rank(U, 0) = 0
      /\ \A i \in Nat : /\ Rank(U, i) \in Nat /\ Rank(U, i) <= N
                        /\ Rank(U, i+1) = Rank(U, i) + IF i \in U THEN 1 ELSE 0
      /\ \A i, j \in Nat : i <= j => Rank(U, i) <= Rank(U, j)
  BY Ranks
<1> HIDE DEF N
<1>2. PICK k \in full : \A l \in full : k <= l
  <2>1. n \in full /\ full \in SUBSET Nat
    BY <1>1
  <2> HIDE DEF full
  <2> QED BY <2>1, LeastNumber
<1>3. k \in Nat /\ Rank(U, k) = N
  BY <1>2
<1>4. ~ (k <= m)
  <2> SUFFICES ASSUME k <= m PROVE FALSE
    OBVIOUS
  <2>1. Rank(U, k) <= Rank(U, m) /\ Rank(U, m) <= N /\ Rank(U, m) \in Nat
    BY <1>1, <1>3
  <2>2. Rank(U, m) = N
    BY <1>1, <1>3, <2>1
  <2> QED BY <2>2 DEF N
<1>5. k-1 \in Nat /\ (k-1)+1 = k /\ k-1 >= m
  BY <1>3, <1>4
<1>6. k-1 \notin full
  <2> SUFFICES ASSUME k-1 \in full PROVE FALSE
    OBVIOUS
  <2>1. k <= k-1
    BY <1>2
  <2> QED BY <1>3, <2>1
<1>7. Rank(U, k) = Rank(U, k-1) + IF k-1 \in U THEN 1 ELSE 0
  BY <1>1, <1>5
<1>8. Rank(U, k-1) # N /\ Rank(U, k-1) \in Nat
  BY <1>1, <1>5, <1>6
<1>9. k-1 \in U /\ Rank(U, k-1) = N-1
  <2>1. N \in Nat
    BY <1>1
  <2>2. CASE k-1 \in U
    BY <1>3, <1>7, <1>8, <2>1, <2>2
  <2>3. CASE k-1 \notin U
    BY <1>3, <1>7, <1>8, <2>1, <2>3
  <2> QED BY <2>2, <2>3
<1> QED BY <1>5, <1>9 DEF N

(* The set of one automaton in trim() binds it, no more.                   *)
LEMMA TrimIs ==
  ASSUME NEW A
  PROVE  trim(A) = trimmed(A, get_useful_states(A))
BY DEF trim

(* trim() keeps the useful states, renamed, and nothing else.              *)
LEMMA TrimSeen ==
  ASSUME NEW A, IsNfa(A), NEW U, U = get_useful_states(A)
  PROVE  Seen(trim(A), Kept(transitions(A.delta), U),
              Ranked(U, A.initial.set \cap U), Ranked(U, A.final.set \cap U), Cardinality(U))
<1> DEFINE n == num_of_states(A)
           N == Cardinality(U)
           m == Len(A.delta)
           I == A.initial.set \cap U
           F == A.final.set \cap U
           d == defragment(A.delta, U, Renaming(U))
           i == renamed(I, Renaming(U))
           f == renamed(F, Renaming(U))
<1>1. trim(A) = [delta |-> d, initial |-> i, final |-> f]
  <2>1. [q \in U |-> Cardinality({p \in U : p < q})] = Renaming(U)
    BY DEF Renaming, Rank
  <2>2. trim(A) = trimmed(A, U)
    BY TrimIs
  <2> QED BY <2>1, <2>2 DEF trimmed
<1>2. IsDelta(A.delta)
  BY NfaParts
<1>3. n \in Nat /\ m \in Nat
  BY SizeParts
<1>4. /\ U \in SUBSET (0..n-1)
      /\ \A q \in U : q >= m => q \in A.initial.set /\ q \in A.final.set
  BY UsefulTypes
<1>5. I \in SUBSET U /\ F \in SUBSET U
  OBVIOUS
<1>16. N \in Nat /\ Rank(U, m) \in Nat /\ Rank(U, m) <= N
  BY <1>3, <1>4, Ranks
<1>6. Rank(U, m) = N \/ \E q \in I : Rank(U, q) = N-1
  <2> SUFFICES ASSUME Rank(U, m) # N PROVE \E q \in I : Rank(U, q) = N-1
    OBVIOUS
  <2>1. PICK q \in U : q >= m /\ Rank(U, q) = N-1
    BY <1>3, <1>4, LastRank
  <2> QED BY <1>4, <2>1
<1> HIDE DEF n, N, m, d
<1>7. IsDelta(d)
  BY <1>2, <1>3, <1>4, Defragmented DEF d
<1>8. Len(d) = Rank(U, m)
  BY <1>2, <1>3, <1>4, Defragmented DEF d, m
<1>9. transitions(d) = Kept(transitions(A.delta), U)
  BY <1>2, <1>3, <1>4, Defragmented DEF d
<1> HIDE DEF I, F, i, f
<1>10. IsSparse(i) /\ IsSparse(f)
  BY <1>3, <1>4, <1>5, RenamedSet DEF i, f
<1>11. i.set = Ranked(U, I)
  BY <1>3, <1>4, <1>5, RenamedSet DEF i
<1>12. f.set = Ranked(U, F)
  BY <1>3, <1>4, <1>5, RenamedSet DEF f
<1>13. i.domain <= N /\ f.domain <= N /\ i.domain \in Nat /\ f.domain \in Nat
  BY <1>3, <1>4, <1>5, RenamedSet DEF i, f, N
<1>14. (\E q \in I : Rank(U, q) = N-1) => i.domain = N
  BY <1>3, <1>4, <1>5, RenamedSet DEF i, N
<1>15. N = i.domain \/ N = f.domain \/ N = Len(d)
  BY <1>6, <1>8, <1>14
<1>17. Len(d) <= N
  BY <1>8, <1>16
<1>18. Seen([delta |-> d, initial |-> i, final |-> f], transitions(d), i.set, f.set, N)
  BY <1>7, <1>10, <1>13, <1>15, <1>16, <1>17, Made
<1> QED BY <1>1, <1>9, <1>11, <1>12, <1>18 DEF I, F, N

-----------------------------------------------------------------------------
(* The invariant: the automaton is sound, and within the bound.            *)
Inv == IsNfa(aut) /\ num_of_states(aut) <= MaxStates

(* What is seen of the automaton that a call leaves.                       *)
LEMMA Becoming ==
  ASSUME NEW A, Becomes(A), NEW T, NEW I, NEW F, NEW n, Seen(A, T, I, F, n)
  PROVE  Inv' /\ Seen(aut', T, I, F, n)
<1>1. aut' = A /\ num_of_states(A) <= MaxStates
  BY DEF Becomes
<1>2. Seen(aut', T, I, F, n)
  BY <1>1
<1>3. IsNfa(aut') /\ num_of_states(aut') <= MaxStates
  BY <1>1, <1>2 DEF Seen
<1> QED BY <1>2, <1>3 DEF Inv

(* The promise's helpers are those of the same name here.                  *)
LEMMA SameHelpers ==
  /\ Promise!State = State
  /\ \A m, n : Promise!Larger(m, n) = Larger(m, n)
  /\ \A S : Promise!Cardinality(S) = Cardinality(S)
BY DEF Promise!State, State, Promise!Larger, Larger, Promise!Cardinality, Cardinality

(* Any call that leaves what is seen as it was is a stutter.               *)
LEMMA Stutters ==
  ASSUME Seen(aut', transitions(aut.delta), aut.initial.set, aut.final.set, num_of_states(aut))
  PROVE  UNCHANGED Promise!vars
BY DEF Seen, Promise!vars

-----------------------------------------------------------------------------
(* Each call is a step of the promise, or a stutter.                       *)
LEMMA InitStep ==
  ASSUME Init
  PROVE  Inv /\ Promise!Init
<1>1. PICK n \in 0..MaxStates : aut = Blank(n)
  BY DEF Init
<1>2. n \in Nat /\ n <= MaxStates
  BY BoundsAssumption
<1>3. Seen(aut, {}, {}, {}, n)
  BY <1>1, <1>2, BlankSeen
<1>4. IsNfa(aut) /\ transitions(aut.delta) = {} /\ aut.initial.set = {} /\ aut.final.set = {}
      /\ num_of_states(aut) = n
  BY <1>3 DEF Seen
<1> QED BY <1>2, <1>4 DEF Inv, Promise!Init

(* add_state() adds a state.                                               *)
LEMMA AddStateStep ==
  ASSUME Inv, AddState
  PROVE  Inv' /\ Promise!AddState
<1>1. Seen(add_state(aut), transitions(aut.delta), aut.initial.set, aut.final.set,
           num_of_states(aut) + 1)
  BY AddStateSeen DEF Inv
<1>2. Inv' /\ Seen(aut', transitions(aut.delta), aut.initial.set, aut.final.set,
                   num_of_states(aut) + 1)
  BY <1>1, Becoming DEF AddState
<1> QED BY <1>2 DEF Seen, Promise!AddState

(* add_state() with a number makes the state and those below it.           *)
LEMMA AddStateAtStep ==
  ASSUME Inv, NEW q \in State, AddStateAt(q)
  PROVE  Inv' /\ Promise!Allocate(q)
<1>0. q \in Nat
  BY DEF State
<1>1. Seen(add_state_at(aut, q), transitions(aut.delta), aut.initial.set, aut.final.set,
           Larger(num_of_states(aut), q+1))
  BY <1>0, AddStateAtSeen DEF Inv
<1>2. Inv' /\ Seen(aut', transitions(aut.delta), aut.initial.set, aut.final.set,
                   Larger(num_of_states(aut), q+1))
  BY <1>1, Becoming DEF AddStateAt
<1> QED BY <1>2, SameHelpers DEF Seen, Promise!Allocate, Promise!Grow

(* A state becomes initial.                                                *)
LEMMA MakeInitialStep ==
  ASSUME Inv, NEW q \in State, MakeInitial(q)
  PROVE  Inv' /\ Promise!MakeInitial(q)
<1>0. q \in Nat
  BY DEF State
<1> DEFINE A == [aut EXCEPT !.initial = inserted(@, q)]
           I == aut.initial.set \cup {q}
           n == Larger(num_of_states(aut), q+1)
<1>1. Seen(A, transitions(aut.delta), I, aut.final.set, n)
  BY <1>0, MakeInitialSeen DEF Inv
<1>3. Becomes(A)
  BY DEF MakeInitial
<1> HIDE DEF A, I, n
<1>2. Inv' /\ Seen(aut', transitions(aut.delta), I, aut.final.set, n)
  BY <1>1, <1>3, Becoming
<1> QED BY <1>2, SameHelpers DEF Seen, Promise!MakeInitial, Promise!Grow, I, n

(* A state becomes final.                                                  *)
LEMMA MakeFinalStep ==
  ASSUME Inv, NEW q \in State, MakeFinal(q)
  PROVE  Inv' /\ Promise!MakeFinal(q)
<1>0. q \in Nat
  BY DEF State
<1> DEFINE A == [aut EXCEPT !.final = inserted(@, q)]
           F == aut.final.set \cup {q}
           n == Larger(num_of_states(aut), q+1)
<1>1. Seen(A, transitions(aut.delta), aut.initial.set, F, n)
  BY <1>0, MakeFinalSeen DEF Inv
<1>3. Becomes(A)
  BY DEF MakeFinal
<1> HIDE DEF A, F, n
<1>2. Inv' /\ Seen(aut', transitions(aut.delta), aut.initial.set, F, n)
  BY <1>1, <1>3, Becoming
<1> QED BY <1>2, SameHelpers DEF Seen, Promise!MakeFinal, Promise!Grow, F, n

(* A state is initial and final no more.                                   *)
LEMMA UnmarkStep ==
  ASSUME Inv, NEW q \in State, Unmark(q)
  PROVE  Inv' /\ Promise!Unmark(q)
<1> DEFINE A == [aut EXCEPT !.initial = erased(@, q), !.final = erased(@, q)]
           I == aut.initial.set \ {q}
           F == aut.final.set \ {q}
<1>1. Seen(A, transitions(aut.delta), I, F, num_of_states(aut))
  BY UnmarkSeen DEF Inv
<1>3. Becomes(A)
  BY DEF Unmark
<1> HIDE DEF A, I, F
<1>2. Inv' /\ Seen(aut', transitions(aut.delta), I, F, num_of_states(aut))
  BY <1>1, <1>3, Becoming
<1> QED BY <1>2 DEF Seen, Promise!Unmark, I, F

(* The vectors of targets are ordered vectors of states.                   *)
LEMMA TargetVectorsOrdered ==
  ASSUME NEW t \in TargetVectors
  PROVE  t \in OrdVector /\ Range(t) \subseteq State
<1>1. PICK n \in 0..MaxStates : t \in [1..n -> State] /\ Ascending(t)
  BY DEF TargetVectors
<1>2. n \in Nat
  BY BoundsAssumption
<1>3. State \subseteq Nat
  BY DEF State
<1>6. DOMAIN t = 1..n /\ t \in [1..n -> Nat] /\ \A i \in 1..n : t[i] \in State
  BY <1>1, <1>3
<1>4. t \in Seq(Nat)
  BY <1>2, <1>6, SeqDef
<1>5. Range(t) \subseteq State
  BY <1>6 DEF Range
<1> QED BY <1>1, <1>4, <1>5 DEF OrdVector

(* add() adds the transitions to its targets.                              *)
LEMMA AddTransitionsStep ==
  ASSUME Inv, NEW p \in State, NEW a \in Symbol, NEW t \in TargetVectors, t # << >>,
         AddTransitions(p, a, t)
  PROVE  /\ Inv' /\ Range(t) \in SUBSET Promise!State /\ Range(t) # {}
         /\ Promise!Add(p, a, Range(t))
<1> DEFINE A == [aut EXCEPT !.delta = add(aut.delta, p, a, t)]
           T == transitions(aut.delta) \cup Arrows(p, a, Range(t))
           m == Larger(p, Last(t))
           n == Larger(num_of_states(aut), m + 1)
<1>1. t \in OrdVector /\ Range(t) \subseteq State /\ p \in Nat
  BY TargetVectorsOrdered DEF State
<1>2. Last(t) \in Range(t) /\ Last(t) \in Nat /\ \A q \in Range(t) : q <= Last(t)
  BY <1>1, LastIsMax
<1>3. Seen(A, T, aut.initial.set, aut.final.set, n)
  BY <1>1, AddTransitionsSeen DEF Inv
<1>4. Becomes(A)
  BY DEF AddTransitions
<1>5. m \in Nat /\ p <= m /\ Last(t) <= m /\ (m = p \/ m = Last(t))
  BY <1>1, <1>2, LargerOf
<1> HIDE DEF A, T, n, m
<1>6. Inv' /\ Seen(aut', T, aut.initial.set, aut.final.set, n)
  BY <1>3, <1>4, Becoming
<1>7. m \in Range(t) \cup {p} /\ (\A q \in Range(t) : q <= m) /\ p <= m
  <2>1. Range(t) \subseteq Nat
    BY <1>1, RangeOf DEF OrdVector
  <2> QED BY <1>1, <1>2, <1>5, <2>1
<1>8. Promise!Grow(m)
  BY <1>6, SameHelpers DEF Seen, Promise!Grow, n
<1>9. transitions(aut.delta)' = transitions(aut.delta) \cup {<<p, a, q>> : q \in Range(t)}
  BY <1>6 DEF Seen, T, Arrows
<1>10. UNCHANGED <<aut.initial.set, aut.final.set>>
  BY <1>6 DEF Seen
<1>11. Promise!Add(p, a, Range(t))
  BY <1>7, <1>8, <1>9, <1>10 DEF Promise!Add
<1> QED BY <1>1, <1>2, <1>6, <1>11, SameHelpers

(* Without targets, nothing is added.                                      *)
LEMMA AddNoTransitionStep ==
  ASSUME Inv, NEW p, NEW a, AddTransitions(p, a, << >>)
  PROVE  Inv' /\ UNCHANGED Promise!vars
<1>1. [aut EXCEPT !.delta = add(aut.delta, p, a, << >>)] = aut
  <2>1. aut = [delta |-> aut.delta, initial |-> aut.initial, final |-> aut.final]
    BY NfaParts DEF Inv
  <2>2. add(aut.delta, p, a, << >>) = aut.delta
    BY AddNothing
  <2> QED BY <2>1, <2>2
<1>2. aut' = aut
  BY <1>1 DEF AddTransitions, Becomes
<1> QED BY <1>2 DEF Inv, Promise!vars

(* remove() takes a transition away, or finds none to take.                *)
LEMMA RemoveStep ==
  ASSUME Inv, NEW p \in State, NEW a \in Symbol, NEW q \in State, RemoveTransition(p, a, q)
  PROVE  Inv' /\ (Promise!Remove \/ UNCHANGED Promise!vars)
<1> DEFINE A == [aut EXCEPT !.delta = remove(@, p, a, q)]
           T == transitions(aut.delta) \ {<<p, a, q>>}
<1>1. p \in Nat /\ q \in Nat /\ ~ remove_throws(aut.delta, p, a)
  BY DEF State, RemoveTransition
<1>2. Seen(A, T, aut.initial.set, aut.final.set, num_of_states(aut))
  BY <1>1, RemoveSeen DEF Inv
<1>3. Becomes(A)
  BY DEF RemoveTransition
<1>4. T = transitions(aut.delta) \/ <<p, a, q>> \in transitions(aut.delta)
  OBVIOUS
<1> HIDE DEF A
<1>5. Inv' /\ Seen(aut', T, aut.initial.set, aut.final.set, num_of_states(aut))
  BY <1>2, <1>3, Becoming
<1>6. CASE T = transitions(aut.delta)
  BY <1>5, <1>6, Stutters
<1>7. CASE <<p, a, q>> \in transitions(aut.delta)
  <2>1. transitions(aut.delta)' = transitions(aut.delta) \ {<<p, a, q>>}
    BY <1>5 DEF Seen
  <2>2. UNCHANGED <<aut.initial.set, aut.final.set, num_of_states(aut)>>
    BY <1>5 DEF Seen
  <2>3. Promise!Remove
    BY <1>7, <2>1, <2>2 DEF Promise!Remove
  <2> QED BY <1>5, <2>3
<1> QED BY <1>4, <1>6, <1>7

-----------------------------------------------------------------------------
\* The transitions that leave a state of I.
Starting(T, I) == {t \in T : t[1] \in I}

\* What concatenate() adds: the states in F do what the starting transitions do,
\* n states further on.
Bridges(F, S, n) == UNION {{<<q, t[2], t[3] + n>> : t \in S} : q \in F}

\* The same, read off the transitions of the two automata in a row.
BridgesWithin(F, T, I, n) ==
  UNION {{<<q, t[2], t[3]>> : t \in {u \in T : u[1] - n \in I}} : q \in F}

\* Each transition of T leaves one of the first n states.
LeaveThose(T, n) == \A t \in T : t[1] \in 0..n-1

\* Both ways to read the bridges are the same.
SameBridges(F, T1, T2, I, n) ==
  BridgesWithin(F, T1 \cup Shifted(T2, n), I, n) = Bridges(F, Starting(T2, I), n)

(* In the posts of the two automata in a row, the bridges are copies of    *)
(* the second one's transitions from its initial states.                   *)
LEMMA BridgesAre ==
  ASSUME NEW n \in Nat, NEW m \in Nat, NEW T1, NEW T2, NEW F, NEW I,
         LeaveThose(T1, n), LeaveThose(T2, m), I \in SUBSET (0..m-1)
  PROVE  SameBridges(F, T1, T2, I, n)
<1> USE DEF LeaveThose
<1> DEFINE S == {u \in T1 \cup Shifted(T2, n) : u[1] - n \in I}
           moved(t) == <<t[1] + n, t[2], t[3] + n>>
<1>1. \A u \in S : \E t \in Starting(T2, I) : u = moved(t)
  <2>1. ASSUME NEW u \in S PROVE \E t \in Starting(T2, I) : u = moved(t)
    <3>1. u \notin T1
      <4>1. u[1] - n \in 0..m-1
        BY <2>1
      <4>2. \A k \in 0..n-1 : k - n \notin 0..m-1
        OBVIOUS
      <4> QED BY <4>1, <4>2
    <3>2. PICK t \in T2 : u = moved(t)
      BY <2>1, <3>1 DEF Shifted
    <3>3. t[1] \in 0..m-1 /\ u[1] = t[1] + n /\ u[1] - n \in I
      BY <2>1, <3>2
    <3>4. t[1] \in I
      BY <3>3
    <3> QED BY <3>2, <3>4 DEF Starting
  <2> QED BY <2>1
<1>2. \A t \in Starting(T2, I) : moved(t) \in S /\ moved(t)[2] = t[2] /\ moved(t)[3] = t[3] + n
  <2>1. ASSUME NEW t \in Starting(T2, I) PROVE moved(t) \in S
    <3>1. t \in T2 /\ t[1] \in I /\ t[1] \in 0..m-1
      BY DEF Starting
    <3>2. moved(t)[1] - n = t[1]
      BY <3>1
    <3>3. moved(t) \in Shifted(T2, n)
      BY <3>1 DEF Shifted
    <3> QED BY <3>1, <3>2, <3>3
  <2> QED BY <2>1
<1> HIDE DEF S
<1>3. ASSUME NEW x, x \in UNION {{<<q, t[2], t[3]>> : t \in S} : q \in F}
      PROVE  x \in Bridges(F, Starting(T2, I), n)
  <2>1. PICK q \in F, u \in S : x = <<q, u[2], u[3]>>
    BY <1>3
  <2>2. PICK t \in Starting(T2, I) : u = moved(t)
    BY <1>1
  <2>3. x = <<q, t[2], t[3] + n>>
    BY <1>2, <2>1, <2>2
  <2> QED BY <2>3 DEF Bridges
<1>4. ASSUME NEW x, x \in Bridges(F, Starting(T2, I), n)
      PROVE  x \in UNION {{<<q, t[2], t[3]>> : t \in S} : q \in F}
  <2>1. PICK q \in F, t \in Starting(T2, I) : x = <<q, t[2], t[3] + n>>
    BY <1>4 DEF Bridges
  <2> DEFINE u == moved(t)
  <2>2. u \in S /\ x = <<q, u[2], u[3]>>
    BY <1>2, <2>1
  <2> HIDE DEF u
  <2> QED BY <2>2
<1>5. UNION {{<<q, t[2], t[3]>> : t \in S} : q \in F} = Bridges(F, Starting(T2, I), n)
  BY <1>3, <1>4
<1> QED BY <1>5 DEF S, BridgesWithin, SameBridges

(* The bridges are finitely many, between states that there are.           *)
LEMMA BridgeTypes ==
  ASSUME NEW n \in Nat, NEW m \in Nat, NEW T, IsFiniteSet(T),
         \A t \in T : t[2] \in Symbol /\ t[3] \in 0..m-1,
         NEW F \in SUBSET (0..n-1), NEW I
  PROVE  /\ Bridges(F, Starting(T, I), n) \in SUBSET Triple
         /\ IsFiniteSet(Bridges(F, Starting(T, I), n))
         /\ \A t \in Bridges(F, Starting(T, I), n) : t[1] \in 0..n-1 /\ t[3] \in n..(n+m)-1
<1> DEFINE S == Starting(T, I)
           B == Bridges(F, S, n)
           X == F \X S
           f == [x \in X |-> <<x[1], x[2][2], x[2][3] + n>>]
<1>1. IsFiniteSet(S) /\ \A t \in S : t[2] \in Symbol /\ t[3] \in 0..m-1
  BY FS_Subset DEF Starting
<1>2. IsFiniteSet(F)
  <2>1. 0 \in Int /\ n-1 \in Int
    OBVIOUS
  <2>2. IsFiniteSet(0..n-1)
    BY <2>1, FS_Interval
  <2> QED BY <2>2, FS_Subset
<1> HIDE DEF S
<1>3. IsFiniteSet(X)
  BY <1>1, <1>2, FS_Product
<1>4. f \in Surjection(X, B)
  <2>1. ASSUME NEW x \in X PROVE f[x] \in B
    <3>1. x[1] \in F /\ x[2] \in S /\ f[x] = <<x[1], x[2][2], x[2][3] + n>>
      OBVIOUS
    <3>2. \A q \in F : \A t \in S : <<q, t[2], t[3] + n>> \in B
      BY DEF Bridges
    <3> HIDE DEF X, f, B
    <3> QED BY <3>1, <3>2
  <2>2. ASSUME NEW b \in B PROVE \E x \in X : f[x] = b
    <3>1. PICK q \in F, t \in S : b = <<q, t[2], t[3] + n>>
      BY DEF Bridges
    <3> DEFINE x == <<q, t>>
    <3>2. x \in X /\ f[x] = b
      BY <3>1
    <3> HIDE DEF x, X, f
    <3> QED BY <3>2
  <2>3. f \in [X -> B]
    <3> HIDE DEF X, B
    <3> QED BY <2>1
  <2> HIDE DEF X, f, B
  <2> QED BY <2>2, <2>3 DEF Surjection
<1>5. IsFiniteSet(B)
  <2> HIDE DEF X, f, B
  <2> QED BY <1>3, <1>4, FS_Surjection
<1>6. ASSUME NEW b \in B PROVE b \in Triple /\ b[1] \in 0..n-1 /\ b[3] \in n..(n+m)-1
  <2>1. PICK q \in F, t \in S : b = <<q, t[2], t[3] + n>>
    BY DEF Bridges
  <2>2. q \in 0..n-1 /\ t[2] \in Symbol /\ t[3] + n \in n..(n+m)-1 /\ t[3] + n \in Nat
    BY <1>1
  <2> QED BY <2>1, <2>2 DEF Triple
<1> HIDE DEF B
<1>7. B \in SUBSET Triple
  BY <1>6
<1> QED BY <1>5, <1>6, <1>7 DEF B, S

(* Transitions between posts that are there add no posts.                  *)
LEMMA ExtendedWithin ==
  ASSUME NEW d, IsDelta(d), NEW T \in SUBSET Triple, IsFiniteSet(T),
         \A t \in T : t[1] < Len(d) /\ t[3] < Len(d)
  PROVE  /\ IsDelta(add_all(d, T)) /\ Len(add_all(d, T)) = Len(d)
         /\ transitions(add_all(d, T)) = transitions(d) \cup T
<1> DEFINE r == add_all(d, T)
<1>1. Extends(d, T, r)
  BY AddAll
<1> HIDE DEF r
<1>2. /\ IsDelta(r) /\ transitions(r) = transitions(d) \cup T
      /\ Len(d) \in Nat /\ Len(r) \in Nat /\ Len(d) <= Len(r)
      /\ Len(r) = Len(d) \/ \E t \in T : Len(r) = t[1] + 1 \/ Len(r) = t[3] + 1
  BY <1>1, DeltasAre, TransitionsOf DEF Extends
<1>3. \A t \in T : t[1] \in Nat /\ t[3] \in Nat
  BY DEF Triple
<1>4. Len(r) = Len(d)
  BY <1>2, <1>3
<1> QED BY <1>2, <1>4 DEF r

\* The final states of a concatenation: those of the second automaton, and of the
\* first one when the empty word is in the second one's language.
Ending(F1, I2, F2, n) == Moved(F2, n) \cup IF I2 \cap F2 = {} THEN {} ELSE F1

(* concatenate() puts the second automaton behind the first one and bridges *)
(* the two.                                                                *)
LEMMA ConcatenateSeen ==
  ASSUME NEW A, IsNfa(A), NEW B, IsNfa(B)
  PROVE  Seen(concatenate(A, B),
              transitions(A.delta) \cup Shifted(transitions(B.delta), num_of_states(A))
                \cup Bridges(A.final.set, Starting(transitions(B.delta), B.initial.set),
                             num_of_states(A)),
              A.initial.set,
              Ending(A.final.set, B.initial.set, B.final.set, num_of_states(A)),
              num_of_states(A) + num_of_states(B))
<1> DEFINE n == num_of_states(A)
           k == num_of_states(B)
           N == n + k
           T1 == transitions(A.delta)
           T2 == transitions(B.delta)
           moved == allocate(A.delta, n) \o renumber_targets(B.delta, n)
           F1 == A.final.set
           I2 == B.initial.set
           F2 == B.final.set
           S == {t \in transitions(moved) : t[1] - n \in I2}
           T == UNION {{<<q, t[2], t[3]>> : t \in S} : q \in F1}
           d == add_all(moved, T)
           e == shifted_into(NoStates, n, F2, N)
           U == I2 \cap F2 = {}
           f == IF U THEN e ELSE [e EXCEPT !.set = @ \cup F1]
           b == Bridges(F1, Starting(T2, I2), n)
<1>1. concatenate(A, B) = [delta |-> d, initial |-> A.initial, final |-> f]
  BY DEF concatenate
<1>2. /\ IsDelta(A.delta) /\ IsSparse(A.initial) /\ IsDelta(B.delta)
  BY NfaParts
<1>3. /\ n \in Nat /\ A.initial.domain <= n /\ Len(A.delta) <= n /\ Len(A.delta) \in Nat
      /\ F1 \in SUBSET (0..n-1)
      /\ k \in Nat /\ I2 \in SUBSET (0..k-1) /\ F2 \in SUBSET (0..k-1)
      /\ Len(B.delta) \in Nat /\ Len(B.delta) <= k /\ A.initial.domain \in Nat
  BY SizeParts
<1>4. /\ IsFiniteSet(T2)
      /\ \A t \in T1 : t[1] \in 0..n-1
      /\ \A t \in T2 : t[1] \in 0..k-1 /\ t[2] \in Symbol /\ t[3] \in 0..k-1
      /\ \A t \in T2 : t[3] \in 0..Len(B.delta)-1
  <2>1. \A t \in T1 : t[1] \in 0..Len(A.delta)-1
    BY <1>2, TransitionTypes
  <2>2. /\ IsFiniteSet(T2)
        /\ \A t \in T2 : t[1] \in 0..Len(B.delta)-1 /\ t[2] \in Symbol /\ t[3] \in 0..Len(B.delta)-1
    BY <1>2, TransitionTypes
  <2>3. 0..Len(A.delta)-1 \subseteq 0..n-1 /\ 0..Len(B.delta)-1 \subseteq 0..k-1
    <3> HIDE DEF n, k
    <3> QED BY <1>3
  <2>4. \A t \in T1 : t[1] \in 0..n-1
    BY <2>1, <2>3
  <2>5. \A t \in T2 : t[1] \in 0..k-1 /\ t[2] \in Symbol /\ t[3] \in 0..k-1
    BY <2>2, <2>3
  <2> HIDE DEF n, k, T1, T2
  <2> QED BY <2>2, <2>4, <2>5
<1> HIDE DEF n, k, T1, T2, I2, F1, F2
<1>5. IsDelta(moved) /\ Len(moved) = n + Len(B.delta)
  BY <1>2, <1>3, UnitedDelta
<1>6. transitions(moved) = T1 \cup Shifted(T2, n)
  <2>1. IsDelta(A.delta) /\ IsDelta(B.delta) /\ n \in Nat /\ Len(A.delta) <= n
    BY <1>2, <1>3
  <2>2. transitions(moved) = transitions(A.delta) \cup Shifted(transitions(B.delta), n)
    BY ONLY <2>1, UnitedDelta
  <2> QED BY <2>2 DEF T1, T2
<1> HIDE DEF moved
<1>7. T = b
  <2>1. T = BridgesWithin(F1, transitions(moved), I2, n)
    BY DEF BridgesWithin
  <2>2. /\ n \in Nat /\ k \in Nat /\ I2 \in SUBSET (0..k-1)
        /\ LeaveThose(T1, n) /\ LeaveThose(T2, k)
    BY <1>3, <1>4 DEF LeaveThose
  <2> HIDE DEF S, T
  <2>4. SameBridges(F1, T1, T2, I2, n)
    BY ONLY <2>2, BridgesAre
  <2>3. BridgesWithin(F1, T1 \cup Shifted(T2, n), I2, n) = b
    BY ONLY <2>4 DEF SameBridges
  <2> HIDE DEF b
  <2> QED BY <1>6, <2>1, <2>3
<1> HIDE DEF S, T
<1>8. b \in SUBSET Triple /\ IsFiniteSet(b) /\ \A t \in b : t[1] < Len(moved) /\ t[3] < Len(moved)
  <2> DEFINE l == Len(B.delta)
  <2>1. /\ n \in Nat /\ l \in Nat /\ IsFiniteSet(T2) /\ F1 \in SUBSET (0..n-1)
        /\ \A t \in T2 : t[2] \in Symbol /\ t[3] \in 0..l-1
    BY <1>3, <1>4
  <2> HIDE DEF l, b
  <2>2. /\ Bridges(F1, Starting(T2, I2), n) \in SUBSET Triple
        /\ IsFiniteSet(Bridges(F1, Starting(T2, I2), n))
        /\ \A t \in Bridges(F1, Starting(T2, I2), n) : t[1] \in 0..n-1 /\ t[3] \in n..(n+l)-1
    BY <2>1, BridgeTypes
  <2>3. \A x \in Nat : (x \in 0..n-1 \/ x \in n..(n+l)-1) => x < n+l
    BY <2>1
  <2>4. \A t \in b : t[1] \in 0..n-1 /\ t[3] \in n..(n+l)-1
    BY <2>2 DEF b
  <2>5. \A t \in b : t[1] < n+l /\ t[3] < n+l
    BY <2>1, <2>4
  <2> QED BY <1>5, <2>2, <2>5 DEF b, l
<1>9. IsDelta(d) /\ Len(d) = n + Len(B.delta) /\ transitions(d) = T1 \cup Shifted(T2, n) \cup b
  <2> HIDE DEF b
  <2>1. /\ IsDelta(add_all(moved, b)) /\ Len(add_all(moved, b)) = Len(moved)
        /\ transitions(add_all(moved, b)) = transitions(moved) \cup b
    BY <1>5, <1>8, ExtendedWithin
  <2> QED BY <1>5, <1>6, <1>7, <2>1
<1> HIDE DEF d, b
<1>10. e = Reserved(Moved(F2, n), N)
  <2>1. IsSparse(NoStates) /\ NoStates.domain <= n /\ NoStates.set = {}
    BY <1>3 DEF NoStates, IsSparse
  <2>2. n \in Nat /\ k \in Nat /\ F2 \in SUBSET (0..k-1) /\ N = n+k
    BY <1>3
  <2> HIDE DEF N
  <2>3. shifted_into(NoStates, n, F2, N) = Reserved(NoStates.set \cup Moved(F2, n), N)
    BY <2>1, <2>2, ShiftedInto
  <2>4. NoStates.set \cup Moved(F2, n) = Moved(F2, n)
    BY <2>1
  <2> QED BY <2>3, <2>4
<1>11. f = Reserved(Ending(F1, I2, F2, n), N)
  <2> HIDE DEF e, N
  <2>1. e.set = Moved(F2, n) /\ e = [set |-> Moved(F2, n), domain |-> N]
    BY <1>10 DEF Reserved
  <2>2. CASE U
    BY <2>1, <2>2 DEF Ending, Reserved
  <2>3. CASE ~ U
    <3>1. f = [set |-> Moved(F2, n) \cup F1, domain |-> N]
      BY <2>1, <2>3
    <3> QED BY <2>3, <3>1 DEF Ending, Reserved
  <2> QED BY <2>2, <2>3
<1> HIDE DEF e, f, U
<1>12. f.set = Ending(F1, I2, F2, n) /\ f.domain = N
  BY <1>11 DEF Reserved
<1>13. Ending(F1, I2, F2, n) \subseteq 0..N-1
  <2>1. Moved(F2, n) \subseteq 0..N-1
    <3>1. \A q \in F2 : q + n \in 0..N-1
      BY <1>3
    <3> HIDE DEF N
    <3> QED BY <3>1 DEF Moved
  <2>2. F1 \subseteq 0..N-1
    BY <1>3
  <2> QED BY <2>1, <2>2 DEF Ending
<1>14. N \in Nat /\ A.initial.domain <= N /\ N <= N /\ Len(d) <= N
  BY <1>3, <1>9
<1> HIDE DEF N
<1>15. IsSparse(f)
  <2>1. \A q \in f.set : q \in Nat /\ q < N
    BY <1>12, <1>13, <1>14
  <2> QED BY <1>11, <1>12, <1>14, <2>1 DEF IsSparse, Reserved
<1>16. Seen([delta |-> d, initial |-> A.initial, final |-> f],
            transitions(d), A.initial.set, f.set, N)
  BY <1>2, <1>9, <1>12, <1>14, <1>15, Made
<1>17. Seen(concatenate(A, B), T1 \cup Shifted(T2, n) \cup b, A.initial.set,
            Ending(F1, I2, F2, n), N)
  BY <1>1, <1>9, <1>12, <1>16
<1> QED BY <1>17 DEF T1, T2, F1, I2, F2, n, k, N, b

(* An automaton that has allocated its posts is seen as before.            *)
LEMMA AllocatedSeen ==
  ASSUME NEW A, IsNfa(A)
  PROVE  Seen([A EXCEPT !.delta = allocate(@, num_of_states(A))],
              transitions(A.delta), A.initial.set, A.final.set, num_of_states(A))
<1> DEFINE n == num_of_states(A)
<1>1. n \in Nat
  BY SizeParts
<1> HIDE DEF n
<1>2. Larger(n, n) = n
  BY <1>1 DEF Larger
<1>3. Seen([A EXCEPT !.delta = allocate(@, n)], transitions(A.delta), A.initial.set, A.final.set,
           Larger(num_of_states(A), n))
  BY <1>1, AllocateSeen
<1> QED BY <1>2, <1>3 DEF n

(* insert_word() adds a path.                                              *)
LEMMA InsertWordStep ==
  ASSUME Inv, NEW p \in State, NEW q \in State, NEW w \in InsertedWords, InsertWord(p, w, q)
  PROVE  Inv' /\ Promise!InsertWord(p, w, q)
<1> DEFINE n == num_of_states(aut)
           T == transitions(aut.delta) \cup Spelled(PathOf(n, p, w, q), w, Len(w))
           m == n + Len(w) - 1
<1>1. w \in Seq(Symbol) /\ w # << >>
  BY WordsAssumption
<1>2. p \in 0..n-1 /\ q \in 0..n-1 /\ Becomes(insert_word(aut, p, w, q))
  BY DEF InsertWord
<1>3. Seen(insert_word(aut, p, w, q), T, aut.initial.set, aut.final.set, m)
  BY <1>1, <1>2, InsertWordSeen DEF Inv
<1> HIDE DEF T, m
<1>4. Inv' /\ Seen(aut', T, aut.initial.set, aut.final.set, m)
  BY <1>2, <1>3, Becoming
<1>5. /\ transitions(aut.delta)' = T /\ num_of_states(aut)' = m
      /\ UNCHANGED <<aut.initial.set, aut.final.set>>
  BY <1>4 DEF Seen
<1> QED BY <1>4, <1>5 DEF Promise!InsertWord, T, m, PathOf, Spelled

(* The final states are complemented.                                      *)
LEMMA SwapStep ==
  ASSUME Inv, SwapFinalNonfinal
  PROVE  Inv' /\ Promise!SwapFinal
<1> DEFINE F == (0..num_of_states(aut)-1) \ aut.final.set
<1>1. Seen(swap_final_nonfinal(aut), transitions(aut.delta), aut.initial.set, F,
           num_of_states(aut))
  BY SwapSeen DEF Inv
<1> HIDE DEF F
<1>2. Inv' /\ Seen(aut', transitions(aut.delta), aut.initial.set, F, num_of_states(aut))
  BY <1>1, Becoming DEF SwapFinalNonfinal
<1> QED BY <1>2 DEF Seen, Promise!SwapFinal, F

(* One initial state stands for several.                                   *)
LEMMA UnifyInitialStep ==
  ASSUME Inv, UnifyInitial
  PROVE  Inv' /\ Promise!UnifyInitial
<1> DEFINE n == num_of_states(aut)
           T == transitions(aut.delta) \cup Leaving(n, transitions(aut.delta), aut.initial.set)
           I == {n}
           F == Joined(aut.final.set, aut.initial.set, n)
<1>2. Cardinality(aut.initial.set) > 1 /\ Becomes(unify_initial(aut))
  BY DEF UnifyInitial
<1>1. Seen(unify_initial(aut), T, I, F, n + 1)
  BY <1>2, UnifyInitialSeen DEF Inv
<1> HIDE DEF T, I, F
<1>3. Inv' /\ Seen(aut', T, I, F, n + 1)
  BY <1>1, <1>2, Becoming
<1>4. /\ transitions(aut.delta)' = T /\ aut.initial.set' = I /\ aut.final.set' = F
      /\ num_of_states(aut)' = n + 1
  BY <1>3 DEF Seen
<1>5. T = transitions(aut.delta)
            \cup {<<n, t[2], t[3]>> : t \in {u \in transitions(aut.delta) : u[1] \in aut.initial.set}}
  BY DEF T, Leaving
<1>6. F = IF aut.initial.set \cap aut.final.set = {} THEN aut.final.set
          ELSE aut.final.set \cup {n}
  BY DEF F, Joined
<1>7. Promise!Cardinality(aut.initial.set) > 1
  BY <1>2, SameHelpers
<1> QED BY <1>3, <1>4, <1>5, <1>6, <1>7 DEF Promise!UnifyInitial, I

(* One final state stands for several.                                     *)
LEMMA UnifyFinalStep ==
  ASSUME Inv, UnifyFinal
  PROVE  Inv' /\ Promise!UnifyFinal
<1> DEFINE n == num_of_states(aut)
           T == transitions(aut.delta) \cup Entering(n, transitions(aut.delta), aut.final.set)
           I == Joined(aut.initial.set, aut.final.set, n)
           F == {n}
<1>2. Cardinality(aut.final.set) > 1 /\ Becomes(unify_final(aut))
  BY DEF UnifyFinal
<1>1. Seen(unify_final(aut), T, I, F, n + 1)
  BY <1>2, UnifyFinalSeen DEF Inv
<1>5. aut.final.set \cap aut.initial.set = {} <=> aut.initial.set \cap aut.final.set = {}
  OBVIOUS
<1>6. I = IF aut.initial.set \cap aut.final.set = {} THEN aut.initial.set
          ELSE aut.initial.set \cup {n}
  BY <1>5 DEF Joined
<1> HIDE DEF T, I, F
<1>3. Inv' /\ Seen(aut', T, I, F, n + 1)
  BY <1>1, <1>2, Becoming
<1>4. /\ transitions(aut.delta)' = T /\ aut.initial.set' = I /\ aut.final.set' = F
      /\ num_of_states(aut)' = n + 1
  BY <1>3 DEF Seen
<1>7. T = transitions(aut.delta)
            \cup {<<t[1], t[2], n>> : t \in {u \in transitions(aut.delta) : u[3] \in aut.final.set}}
  BY DEF T, Entering
<1>8. Promise!Cardinality(aut.final.set) > 1
  BY <1>2, SameHelpers
<1> QED BY <1>3, <1>4, <1>6, <1>7, <1>8 DEF Promise!UnifyFinal, F

(* The two completions agree.                                              *)
LEMMA SameCompletion ==
  ASSUME NEW n, NEW symbols, NEW sink
  PROVE  /\ Promise!Missing(n, symbols) = Lacking(transitions(aut.delta), n, symbols)
         /\ Promise!Completing(n, symbols, sink)
              = Completion(transitions(aut.delta), n, symbols, sink)
<1>1. Promise!Missing(n, symbols) = Lacking(transitions(aut.delta), n, symbols)
  BY DEF Promise!Missing, Lacking
<1>2. Promise!Completing(n, symbols, sink)
        = Completion(transitions(aut.delta), n, symbols, sink)
  BY <1>1 DEF Promise!Completing, Completion, IntoSink, SinkLoops
<1> QED BY <1>1, <1>2

(* The automaton is completed.                                             *)
LEMMA MakeCompleteStep ==
  ASSUME Inv, NEW symbols \in SUBSET Symbol, NEW sink \in State, MakeComplete(symbols, sink)
  PROVE  Inv' /\ Promise!MakeComplete(symbols, sink)
<1> DEFINE n == num_of_states(aut)
           T0 == transitions(aut.delta)
           T == T0 \cup Completion(T0, n, symbols, sink)
           m == CompletedSize(T0, n, symbols, sink)
<1>0. sink \in Nat
  BY DEF State
<1>1. Seen(make_complete(aut, symbols, sink), T, aut.initial.set, aut.final.set, m)
  BY <1>0, MakeCompleteSeen DEF Inv
<1>2. Becomes(make_complete(aut, symbols, sink))
  BY DEF MakeComplete
<1> HIDE DEF T, m
<1>3. Inv' /\ Seen(aut', T, aut.initial.set, aut.final.set, m)
  BY <1>1, <1>2, Becoming
<1>4. /\ transitions(aut.delta)' = T /\ num_of_states(aut)' = m
      /\ UNCHANGED <<aut.initial.set, aut.final.set>>
  BY <1>3 DEF Seen
<1>5. T = T0 \cup Promise!Completing(n, symbols, sink)
  BY SameCompletion DEF T
<1>6. m = IF Promise!Missing(n, symbols) # {} THEN Promise!Larger(n, sink+1) ELSE n
  BY SameCompletion, SameHelpers DEF m, CompletedSize
<1> QED BY <1>3, <1>4, <1>5, <1>6 DEF Promise!MakeComplete

(* The automaton is completed and its final states are swapped.            *)
LEMMA ComplementStep ==
  ASSUME Inv, NEW symbols \in SUBSET Symbol, ComplementDeterministic(symbols)
  PROVE  Inv' /\ Promise!ComplementDeterministic(symbols)
<1> DEFINE n == num_of_states(aut)
           m == IF aut.initial.set = {} THEN n+1 ELSE n
           T0 == transitions(aut.delta)
           T == T0 \cup Completion(T0, m, symbols, n)
           I == IF aut.initial.set = {} THEN {n} ELSE aut.initial.set
           k == CompletedSize(T0, m, symbols, n)
           F == (0..k-1) \ aut.final.set
<1>0. n \in Nat
  BY SizeParts DEF Inv
<1>1. Seen(complement_deterministic(aut, symbols), T, I, F, k)
  BY ComplementSeen DEF Inv
<1>2. Becomes(complement_deterministic(aut, symbols))
  BY DEF ComplementDeterministic
<1> HIDE DEF T, I, F, k, m
<1>3. Inv' /\ Seen(aut', T, I, F, k)
  BY <1>1, <1>2, Becoming
<1>4. /\ transitions(aut.delta)' = T /\ num_of_states(aut)' = k
      /\ aut.initial.set' = I /\ aut.final.set' = F
  BY <1>3 DEF Seen
<1>5. T = T0 \cup Promise!Completing(m, symbols, n)
  BY SameCompletion DEF T
<1>6. k = IF Promise!Missing(m, symbols) # {} THEN n+1 ELSE m
  <2>1. Larger(m, n+1) = n+1
    BY <1>0 DEF m, Larger
  <2> QED BY <2>1, SameCompletion DEF k, CompletedSize
<1> QED BY <1>3, <1>4, <1>5, <1>6 DEF Promise!ComplementDeterministic, I, F, m

(* The other automaton replaces this one, is ignored, or comes behind it.  *)
LEMMA UniteStep ==
  ASSUME Inv, NEW B \in Other, UniteNondetWith(B)
  PROVE  Inv' /\ Promise!Unite(Graph(B))
<1> DEFINE n == num_of_states(aut)
           G == Graph(B)
           T0 == transitions(aut.delta)
           I0 == aut.initial.set
           F0 == aut.final.set
           C == unite_nondet_with(aut, B)
<1>1. IsNfa(aut) /\ IsNfa(B) /\ Becomes(C)
  BY OtherAssumption DEF Inv, UniteNondetWith
<1>2. /\ G.trans = transitions(B.delta) /\ G.initial = B.initial.set
      /\ G.final = B.final.set /\ G.size = num_of_states(B)
  BY DEF Graph
<1> HIDE DEF G, C
<1>3. CASE F0 = {} \/ I0 = {}
  <2>1. C = B
    BY <1>3 DEF unite_nondet_with, C
  <2>2. Seen(B, G.trans, G.initial, G.final, G.size)
    BY <1>1, <1>2 DEF Seen
  <2>3. Inv' /\ Seen(aut', G.trans, G.initial, G.final, G.size)
    BY <1>1, <2>1, <2>2, Becoming
  <2> QED BY <1>3, <2>3 DEF Seen, Promise!Unite, G
<1>4. CASE ~ (F0 = {} \/ I0 = {}) /\ (B.final.set = {} \/ B.initial.set = {})
  <2>1. C = aut
    BY <1>4 DEF unite_nondet_with, C
  <2>2. aut' = aut
    BY <1>1, <2>1 DEF Becomes
  <2>3. UNCHANGED Promise!vars
    BY <2>2 DEF Promise!vars
  <2>4. G.final = {} \/ G.initial = {}
    BY <1>2, <1>4
  <2> QED BY <1>4, <2>2, <2>3, <2>4 DEF Inv, Promise!Unite, G
<1>5. CASE F0 # {} /\ I0 # {} /\ B.final.set # {} /\ B.initial.set # {}
  <2> DEFINE T == T0 \cup Shifted(transitions(B.delta), n)
             I == I0 \cup Moved(B.initial.set, n)
             F == F0 \cup Moved(B.final.set, n)
             k == n + num_of_states(B)
  <2>1. Seen(C, T, I, F, k)
    BY <1>1, <1>5, UniteSeen DEF C
  <2> HIDE DEF T, I, F, k
  <2>2. Inv' /\ Seen(aut', T, I, F, k)
    BY <1>1, <2>1, Becoming
  <2>3. /\ transitions(aut.delta)' = T /\ num_of_states(aut)' = k
        /\ aut.initial.set' = I /\ aut.final.set' = F
    BY <2>2 DEF Seen
  <2>4. /\ T = T0 \cup {<<t[1]+n, t[2], t[3]+n>> : t \in G.trans}
        /\ I = I0 \cup {q + n : q \in G.initial}
        /\ F = F0 \cup {q + n : q \in G.final}
        /\ k = n + G.size
    BY <1>2 DEF T, I, F, k, Shifted, Moved
  <2>5. G.final # {} /\ G.initial # {}
    BY <1>2, <1>5
  <2> QED BY <1>5, <2>2, <2>3, <2>4, <2>5 DEF Promise!Unite, G
<1> QED BY <1>3, <1>4, <1>5

(* The other automaton, or this one again, comes behind it.                *)
LEMMA ConcatenationStep ==
  ASSUME Inv, NEW B, IsNfa(B), Becomes(concatenate(aut, B)), NEW G, G = Graph(B)
  PROVE  Inv' /\ Promise!Concatenate(G)
<1> DEFINE n == num_of_states(aut)
           T0 == transitions(aut.delta)
           I0 == aut.initial.set
           F0 == aut.final.set
           b == Bridges(F0, Starting(transitions(B.delta), B.initial.set), n)
           T == T0 \cup Shifted(transitions(B.delta), n) \cup b
           F == Ending(F0, B.initial.set, B.final.set, n)
           k == n + num_of_states(B)
<1>1. IsNfa(aut)
  BY DEF Inv
<1>2. Seen(concatenate(aut, B), T, I0, F, k)
  BY <1>1, ConcatenateSeen
<1>3. /\ G.trans = transitions(B.delta) /\ G.initial = B.initial.set
      /\ G.final = B.final.set /\ G.size = num_of_states(B)
  BY DEF Graph
<1>4. T = T0 \cup {<<t[1]+n, t[2], t[3]+n>> : t \in G.trans}
             \cup UNION {{<<q, t[2], t[3]+n>> : t \in {u \in G.trans : u[1] \in G.initial}} : q \in F0}
  BY <1>3 DEF Shifted, Bridges, Starting
<1>5. F = {q + n : q \in G.final} \cup IF G.initial \cap G.final = {} THEN {} ELSE F0
  BY <1>3 DEF Ending, Moved
<1>6. k = n + G.size
  BY <1>3
<1> HIDE DEF T, F, k
<1>7. Inv' /\ Seen(aut', T, I0, F, k)
  BY <1>2, Becoming
<1>8. /\ transitions(aut.delta)' = T /\ num_of_states(aut)' = k
      /\ aut.initial.set' = I0 /\ aut.final.set' = F
  BY <1>7 DEF Seen
<1> QED BY <1>4, <1>5, <1>6, <1>7, <1>8 DEF Promise!Concatenate

(* Another automaton is concatenated ...                                   *)
LEMMA ConcatenateStep ==
  ASSUME Inv, NEW B \in Other, Concatenate(B)
  PROVE  Inv' /\ Promise!Concatenate(Graph(B))
<1>1. IsNfa(B) /\ Becomes(concatenate(aut, B))
  BY OtherAssumption DEF Concatenate
<1> QED BY <1>1, ConcatenationStep

(* ... or this one.                                                        *)
LEMMA ConcatenateItselfStep ==
  ASSUME Inv, ConcatenateItself
  PROVE  Inv' /\ Promise!Concatenate(Promise!Itself)
<1> DEFINE B == [aut EXCEPT !.delta = allocate(@, num_of_states(aut))]
           G == Promise!Itself
<1>1. Seen(B, transitions(aut.delta), aut.initial.set, aut.final.set, num_of_states(aut))
  BY AllocatedSeen DEF Inv
<1>2. Becomes(concatenate(aut, B))
  BY DEF ConcatenateItself, concatenate_itself
<1> HIDE DEF B
<1>3. IsNfa(B) /\ G = Graph(B)
  BY <1>1 DEF Seen, Graph, Promise!Itself
<1> HIDE DEF G
<1>4. Inv' /\ Promise!Concatenate(G)
  BY <1>2, <1>3, ConcatenationStep
<1> QED BY <1>4 DEF G

(* All is forgotten, the states perhaps not.                               *)
LEMMA ClearStep ==
  ASSUME Inv, Clear
  PROVE  Inv' /\ Promise!Clear
<1>1. PICK n \in 0..num_of_states(aut) : Seen(clear(aut), {}, {}, {}, n)
  BY ClearSeen DEF Inv
<1>2. Inv' /\ Seen(aut', {}, {}, {}, n)
  BY <1>1, Becoming DEF Clear
<1> QED BY <1>2 DEF Seen, Promise!Clear

-----------------------------------------------------------------------------
(* The promise's useful states are those that trim() finds.                *)
LEMMA SameUseful ==
  ASSUME Inv
  PROVE  Promise!Useful = get_useful_states(aut)
<1> DEFINE n == num_of_states(aut)
           T == transitions(aut.delta)
           I == aut.initial.set
           F == aut.final.set
<1>1. Promise!Useful = UsefulIn(T, I, F, n, MaxStates)
  BY DEF Promise!Useful, Promise!Succ, UsefulIn, Next1
<1>2. n \in Nat /\ MaxStates \in Nat /\ n <= MaxStates /\ Between(T, n)
  BY SizeParts, AutomatonIs, BoundsAssumption DEF Inv
<1>3. I \in SUBSET (0..n-1) /\ F \in SUBSET (0..n-1)
  BY SizeParts DEF Inv
<1>4. get_useful_states(aut) = Closure(Moves(T, n), I) \cap CoClosure(Moves(T, n), F)
  BY MovesOf DEF Inv
<1> HIDE DEF n, T, I, F
<1>5. UsefulIn(T, I, F, n, MaxStates) = Closure(Moves(T, n), I) \cap CoClosure(Moves(T, n), F)
  BY <1>2, <1>3, UsefulIs
<1> QED BY <1>1, <1>4, <1>5

(* The useful states stay, renamed.                                        *)
LEMMA TrimStep ==
  ASSUME Inv, Trim
  PROVE  Inv' /\ Promise!Trim
<1> DEFINE U == get_useful_states(aut)
           T == Kept(transitions(aut.delta), U)
           I == Ranked(U, aut.initial.set \cap U)
           F == Ranked(U, aut.final.set \cap U)
           n == Cardinality(U)
           new == [q \in U |-> Cardinality({p \in U : p < q})]
<1>1. Seen(trim(aut), T, I, F, n)
  BY TrimSeen DEF Inv
<1>2. Becomes(trim(aut))
  BY DEF Trim
<1>3. Promise!Useful = U
  BY SameUseful
<1> HIDE DEF T, I, F, n
<1>4. Inv' /\ Seen(aut', T, I, F, n)
  BY <1>1, <1>2, Becoming
<1>5. /\ transitions(aut.delta)' = T /\ num_of_states(aut)' = n
      /\ aut.initial.set' = I /\ aut.final.set' = F
  BY <1>4 DEF Seen
<1> HIDE DEF U
<1>6. \A q \in U : new[q] = Rank(U, q)
  BY DEF Rank
<1> DEFINE PromisedFor(V) ==
             LET ren == [q \in V |-> Promise!Cardinality({p \in V : p < q})]
             IN  /\ aut.initial.set' = {ren[q] : q \in aut.initial.set \cap V}
                 /\ aut.final.set' = {ren[q] : q \in aut.final.set \cap V}
                 /\ num_of_states(aut)' = Promise!Cardinality(V)
                 /\ transitions(aut.delta)' =
                      {<<ren[t[1]], t[2], ren[t[3]]>> :
                         t \in {u \in transitions(aut.delta) : {u[1], u[3]} \subseteq V}}
           promised == [q \in U |-> Promise!Cardinality({p \in U : p < q})]
<1>11. Promise!Trim <=> PromisedFor(Promise!Useful)
  BY DEF Promise!Trim
<1>12. PromisedFor(Promise!Useful) <=> PromisedFor(U)
  <2> HIDE DEF PromisedFor
  <2> QED BY <1>3
<1>13. promised = new /\ Promise!Cardinality(U) = Cardinality(U)
  BY SameHelpers
<1>14. PromisedFor(U) <=>
         /\ aut.initial.set' = {promised[q] : q \in aut.initial.set \cap U}
         /\ aut.final.set' = {promised[q] : q \in aut.final.set \cap U}
         /\ num_of_states(aut)' = Promise!Cardinality(U)
         /\ transitions(aut.delta)' = {<<promised[t[1]], t[2], promised[t[3]]>> :
                        t \in {u \in transitions(aut.delta) : {u[1], u[3]} \subseteq U}}
  OBVIOUS
<1> HIDE DEF new, promised, PromisedFor
<1>8. I = {new[q] : q \in aut.initial.set \cap U}
  BY <1>6 DEF I, Ranked
<1>9. F = {new[q] : q \in aut.final.set \cap U}
  BY <1>6 DEF F, Ranked
<1>10. T = {<<new[t[1]], t[2], new[t[3]]>> :
              t \in {u \in transitions(aut.delta) : {u[1], u[3]} \subseteq U}}
  <2>1. \A t \in {u \in transitions(aut.delta) : {u[1], u[3]} \subseteq U} :
          <<new[t[1]], t[2], new[t[3]]>> = <<Rank(U, t[1]), t[2], Rank(U, t[3])>>
    BY <1>6
  <2> QED BY <2>1 DEF T, Kept
<1>15. PromisedFor(U)
  BY <1>5, <1>8, <1>9, <1>10, <1>13, <1>14 DEF n
<1> QED BY <1>4, <1>11, <1>12, <1>15

-----------------------------------------------------------------------------
(* Any step keeps the invariant and is a step of the promise.              *)
LEMMA AnyStep ==
  ASSUME Inv, [Next]_aut
  PROVE  Inv' /\ [Promise!Next]_(Promise!vars)
<1> USE DEF Promise!Next
<1>1. CASE AddState
  BY <1>1, AddStateStep
<1>2. CASE SwapFinalNonfinal
  BY <1>2, SwapStep
<1>3. CASE UnifyInitial
  BY <1>3, UnifyInitialStep
<1>4. CASE UnifyFinal
  BY <1>4, UnifyFinalStep
<1>5. CASE Trim
  BY <1>5, TrimStep
<1>6. CASE Clear
  BY <1>6, ClearStep
<1>7. ASSUME NEW q \in State, AddStateAt(q) \/ MakeInitial(q) \/ MakeFinal(q) \/ Unmark(q)
      PROVE  Inv' /\ [Promise!Next]_(Promise!vars)
  BY <1>7, AddStateAtStep, MakeInitialStep, MakeFinalStep, UnmarkStep, SameHelpers
<1>8. ASSUME NEW p \in State, NEW a \in Symbol, NEW t \in TargetVectors, AddTransitions(p, a, t)
      PROVE  Inv' /\ [Promise!Next]_(Promise!vars)
  <2>1. CASE t = << >>
    BY <1>8, <2>1, AddNoTransitionStep
  <2>2. CASE t # << >>
    <3>1. /\ Inv' /\ Range(t) \in SUBSET Promise!State /\ Range(t) # {}
          /\ Promise!Add(p, a, Range(t))
      BY <1>8, <2>2, AddTransitionsStep
    <3>2. p \in Promise!State
      BY SameHelpers
    <3> QED BY <3>1, <3>2
  <2> QED BY <2>1, <2>2
<1>9. ASSUME NEW p \in State, NEW q \in State, NEW a \in Symbol, RemoveTransition(p, a, q)
      PROVE  Inv' /\ [Promise!Next]_(Promise!vars)
  BY <1>9, RemoveStep
<1>10. ASSUME NEW p \in State, NEW q \in State, NEW w \in InsertedWords, InsertWord(p, w, q)
       PROVE  Inv' /\ [Promise!Next]_(Promise!vars)
  BY <1>10, InsertWordStep, SameHelpers
<1>11. ASSUME NEW symbols \in SUBSET Symbol, ComplementDeterministic(symbols)
       PROVE  Inv' /\ [Promise!Next]_(Promise!vars)
  BY <1>11, ComplementStep
<1>12. ASSUME NEW symbols \in SUBSET Symbol, NEW sink \in State, MakeComplete(symbols, sink)
       PROVE  Inv' /\ [Promise!Next]_(Promise!vars)
  BY <1>12, MakeCompleteStep, SameHelpers
<1>13. ASSUME NEW B \in Other, UniteNondetWith(B)
       PROVE  Inv' /\ [Promise!Next]_(Promise!vars)
  <2>1. Inv' /\ Promise!Unite(Graph(B))
    BY <1>13, UniteStep
  <2>2. Graph(B) \in OtherGraphs
    BY DEF OtherGraphs
  <2> QED BY <2>1, <2>2
<1>14. CASE UNCHANGED aut
  BY <1>14 DEF Inv, Promise!vars
<1>15. ASSUME NEW B \in Other, Concatenate(B)
       PROVE  Inv' /\ [Promise!Next]_(Promise!vars)
  <2>1. Inv' /\ Promise!Concatenate(Graph(B))
    BY <1>15, ConcatenateStep
  <2>2. Graph(B) \in OtherGraphs
    BY DEF OtherGraphs
  <2> QED BY <2>1, <2>2
<1>16. CASE ConcatenateItself
  BY <1>16, ConcatenateItselfStep
<1> QED BY <1>1, <1>2, <1>3, <1>4, <1>5, <1>6, <1>7, <1>8, <1>9, <1>10, <1>11, <1>12, <1>13,
           <1>14, <1>15, <1>16 DEF Next

(* After any calls in any order, the representation of the automaton is    *)
(* sound: its posts and targets are ordered and none is empty, each target *)
(* has a post, and no state in use is num_of_states() or more.  Lookups,   *)
(* the iterators over moves and every algorithm that reads a Delta assume  *)
(* it, and only some of the operations search for the place they write to. *)
THEOREM NfaWellFormed == Spec => []WellFormed
<1>1. Init => Inv
  BY InitStep
<1>2. Inv /\ [Next]_aut => Inv'
  BY AnyStep
<1>3. Inv => WellFormed
  BY DEF Inv, IsNfa, WellFormed
<1> QED BY <1>1, <1>2, <1>3, PTL DEF Spec

(* Whatever vectors, orders and allocated posts the calls of a history     *)
(* leave behind, what the user sees of the automaton -- a set of           *)
(* transitions, the initial and the final states, a number of states --    *)
(* changes only as TransitionGraph says.                                   *)
THEOREM NfaImplementsTransitionGraph == Spec => ImplementsTransitionGraph
<1>1. Init => Inv /\ Promise!Init
  BY InitStep
<1>2. Inv /\ [Next]_aut => Inv' /\ [Promise!Next]_(Promise!vars)
  BY AnyStep
<1> QED BY <1>1, <1>2, PTL DEF Spec, ImplementsTransitionGraph, Promise!Spec

-----------------------------------------------------------------------------
(* Languages.                                                              *)

\* g[k] is what the first k letters of w lead to from I.
Layered(g, T, I, w, n) ==
  /\ Len(w) \in Nat /\ g[0] = I
  /\ \A k \in 0..Len(w) : g[k] \subseteq 0..n-1
  /\ \A k \in 1..Len(w) : w[k] \in Symbol /\ k-1 \in 0..Len(w) /\ k \in 0..Len(w)
  /\ \A k \in 1..Len(w) : \A q : q \in g[k] <=> \E p \in g[k-1] : <<p, w[k], q>> \in T

\* The last of these layers tells whether A accepts w.
Decides(g, A, T, I, F, w, n) ==
  /\ Layered(g, T, I, w, n)
  /\ w \in Language(A) <=> g[Len(w)] \cap F # {}

(* The letters of a word.                                                  *)
LEMMA Letters ==
  ASSUME NEW symbols \in SUBSET Symbol, NEW w \in Words(symbols, MaxWord)
  PROVE  /\ Len(w) \in Nat /\ \A k \in 1..Len(w) : w[k] \in symbols
         /\ w \in Words(Symbol, MaxWord)
<1>1. PICK m \in 0..MaxWord : w \in [1..m -> symbols]
  BY DEF Words
<1>2. m \in Nat
  BY <1>1, BoundsAssumption
<1>3. Len(w) = m
  <2>1. w \in Seq(symbols) /\ DOMAIN w = 1..m
    BY <1>1, <1>2
  <2> QED BY <2>1, <1>2, LenProperties
<1>4. w \in [1..m -> Symbol]
  BY <1>1
<1> QED BY <1>1, <1>2, <1>3, <1>4 DEF Words

(* The language of an automaton, read off what is seen of it.              *)
LEMMA LanguageLayers ==
  ASSUME NEW A, NEW T, NEW I, NEW F, NEW n, Seen(A, T, I, F, n),
         NEW w \in Words(Symbol, MaxWord)
  PROVE  \E g : Decides(g, A, T, I, F, w, n)
<1> DEFINE M == AsAutomaton(A)
           N == Len(w)
           U == 0..n-1
<1>1. /\ M \in AutomataOver(U, Symbol) /\ M.initial = I /\ M.final = F
      /\ \A p \in U, a \in Symbol : \A q : q \in M.delta[p][a] <=> <<p, a, q>> \in T
  BY AutomatonIs DEF Seen
<1>2. N \in Nat /\ \A k \in 1..N : w[k] \in Symbol
  <2>1. Symbol \in SUBSET Symbol
    OBVIOUS
  <2> QED BY <2>1, Letters
<1>3. I \in SUBSET U /\ M.delta \in [U -> [Symbol -> SUBSET U]]
  <2> HIDE DEF M, U
  <2> QED BY <1>1 DEF AutomataOver
<1>4. \A k \in 1..N : \A S \in SUBSET U :
        \A q : q \in Post(M, S, w[k]) <=> \E p \in S : <<p, w[k], q>> \in T
  <2> HIDE DEF M, N, U
  <2> QED BY <1>1, <1>2 DEF Post
<1>5. \A k \in 1..N : \A S \in SUBSET U : Post(M, S, w[k]) \in SUBSET U
  <2> HIDE DEF M, N, U
  <2> QED BY <1>2, <1>3 DEF Post
<1>6. PICK g : WordLayers(g, M, U, I, w) /\ PostWord(M, I, w) = g[Len(w)]
  <2>1. /\ Len(w) \in Nat
        /\ \A k \in 1..Len(w) : \A S \in SUBSET U : Post(M, S, w[k]) \in SUBSET U
    BY <1>2, <1>5
  <2>2. I \in SUBSET U
    BY <1>3
  <2> HIDE DEF M, U
  <2> QED BY ONLY <2>1, <2>2, PostWordLayers
<1>7. /\ g \in [0..N -> SUBSET U] /\ g[0] = I
      /\ \A k \in 1..N : g[k] = Post(M, g[k-1], w[k])
  BY <1>6 DEF WordLayers
<1>8. \A k \in 1..N : g[k-1] \in SUBSET U
  <2>1. \A k \in 1..N : k-1 \in 0..N
    BY <1>2
  <2> HIDE DEF M, N, U
  <2> QED BY <1>7, <2>1
<1>9. Layered(g, T, I, w, n)
  <2> HIDE DEF M
  <2>1. \A k \in 1..N : \A q : q \in g[k] <=> \E p \in g[k-1] : <<p, w[k], q>> \in T
    <3>1. ASSUME NEW k \in 1..N
          PROVE  \A q : q \in g[k] <=> \E p \in g[k-1] : <<p, w[k], q>> \in T
      <4>1. g[k] = Post(M, g[k-1], w[k]) /\ g[k-1] \in SUBSET U
        BY <1>7, <1>8
      <4> DEFINE S == g[k-1]
      <4>2. \A q : q \in Post(M, S, w[k]) <=> \E p \in S : <<p, w[k], q>> \in T
        <5> HIDE DEF M, N, U, S
        <5>1. S \in SUBSET U
          BY <4>1 DEF S
        <5> QED BY <1>4, <5>1
      <4> QED BY <4>1, <4>2
    <3> QED BY <3>1
  <2>2. \A k \in 0..N : g[k] \subseteq U
    <3> HIDE DEF N, U
    <3> QED BY <1>7
  <2>3. \A k \in 1..N : k-1 \in 0..N /\ k \in 0..N
    BY <1>2
  <2> QED BY <1>2, <1>7, <2>1, <2>2, <2>3 DEF Layered
<1>10. w \in Language(A) <=> g[N] \cap F # {}
  <2>1. w \in Language(A) <=> Accepts(M, w)
    BY DEF Language
  <2>2. Accepts(M, w) <=> g[N] \cap F # {}
    <3> HIDE DEF M
    <3> QED BY <1>1, <1>6 DEF Accepts
  <2> QED BY <2>1, <2>2
<1> QED BY <1>9, <1>10 DEF Decides

(* What is seen of the transitions, which lead from state to state.        *)
LEMMA SeenBetween ==
  ASSUME NEW A, NEW T, NEW I, NEW F, NEW n, Seen(A, T, I, F, n)
  PROVE  /\ n \in Nat /\ I \in SUBSET (0..n-1) /\ F \in SUBSET (0..n-1) /\ Between(T, n)
         /\ \A p, a, q : <<p, a, q>> \in T => p \in 0..n-1 /\ a \in Symbol /\ q \in 0..n-1
<1>1. n \in Nat /\ I \in SUBSET (0..n-1) /\ F \in SUBSET (0..n-1)
  BY SizeParts DEF Seen
<1>2. Between(T, n)
  BY AutomatonIs DEF Seen
<1> QED BY <1>1, <1>2 DEF Between

(* Languages with the same words are the same.                             *)
LEMMA SameWords ==
  ASSUME NEW A, NEW B,
         \A w \in Words(Symbol, MaxWord) : w \in Language(A) <=> w \in Language(B)
  PROVE  Language(A) = Language(B)
BY DEF Language

-----------------------------------------------------------------------------
(* The languages of the unions.                                            *)

(* The copied transitions leave the new state as the others leave I.       *)
LEMMA LeavingMoves ==
  ASSUME NEW n \in Nat, NEW T, Between(T, n), NEW I
  PROVE  \A p, a, q : <<p, a, q>> \in T \cup Leaving(n, T, I)
                        <=> <<p, a, q>> \in T \/ (p = n /\ \E i \in I : <<i, a, q>> \in T)
<1> SUFFICES ASSUME NEW p, NEW a, NEW q
             PROVE  <<p, a, q>> \in Leaving(n, T, I) <=> p = n /\ \E i \in I : <<i, a, q>> \in T
  OBVIOUS
<1>1. ASSUME <<p, a, q>> \in Leaving(n, T, I)
      PROVE  p = n /\ \E i \in I : <<i, a, q>> \in T
  <2>1. PICK t \in T : t[1] \in I /\ <<p, a, q>> = <<n, t[2], t[3]>>
    BY <1>1 DEF Leaving
  <2>2. t = <<t[1], t[2], t[3]>>
    BY DEF Between
  <2> QED BY <2>1, <2>2
<1>2. ASSUME p = n, NEW i \in I, <<i, a, q>> \in T
      PROVE  <<p, a, q>> \in Leaving(n, T, I)
  <2> DEFINE t == <<i, a, q>>
  <2>1. t[1] = i /\ t[2] = a /\ t[3] = q
    OBVIOUS
  <2>2. t \in {u \in T : u[1] \in I}
    BY <1>2, <2>1
  <2>3. <<p, a, q>> = <<n, t[2], t[3]>>
    BY <1>2, <2>1
  <2> HIDE DEF t
  <2> QED BY <2>2, <2>3 DEF Leaving
<1> QED BY <1>1, <1>2

(* The copied transitions enter the new state as the others enter F.       *)
LEMMA EnteringMoves ==
  ASSUME NEW n \in Nat, NEW T, Between(T, n), NEW F
  PROVE  \A p, a, q : <<p, a, q>> \in T \cup Entering(n, T, F)
                        <=> <<p, a, q>> \in T \/ (q = n /\ \E f \in F : <<p, a, f>> \in T)
<1> SUFFICES ASSUME NEW p, NEW a, NEW q
             PROVE  <<p, a, q>> \in Entering(n, T, F) <=> q = n /\ \E f \in F : <<p, a, f>> \in T
  OBVIOUS
<1>1. ASSUME <<p, a, q>> \in Entering(n, T, F)
      PROVE  q = n /\ \E f \in F : <<p, a, f>> \in T
  <2>1. PICK t \in T : t[3] \in F /\ <<p, a, q>> = <<t[1], t[2], n>>
    BY <1>1 DEF Entering
  <2>2. t = <<t[1], t[2], t[3]>>
    BY DEF Between
  <2> QED BY <2>1, <2>2
<1>2. ASSUME q = n, NEW f \in F, <<p, a, f>> \in T
      PROVE  <<p, a, q>> \in Entering(n, T, F)
  <2> DEFINE t == <<p, a, f>>
  <2>1. t[1] = p /\ t[2] = a /\ t[3] = f
    OBVIOUS
  <2>2. t \in {u \in T : u[3] \in F}
    BY <1>2, <2>1
  <2>3. <<p, a, q>> = <<t[1], t[2], n>>
    BY <1>2, <2>1
  <2> HIDE DEF t
  <2> QED BY <2>2, <2>3 DEF Entering
<1> QED BY <1>1, <1>2

(* unify_initial() keeps the language: from the first letter on, the       *)
(* layers are the same.                                                    *)
LEMMA UnifyInitialLanguage ==
  ASSUME NEW A, IsNfa(A), Cardinality(A.initial.set) > 1, NEW w \in Words(Symbol, MaxWord)
  PROVE  w \in Language(unify_initial(A)) <=> w \in Language(A)
<1> DEFINE n == num_of_states(A)
           T == transitions(A.delta)
           I == A.initial.set
           F == A.final.set
           B == unify_initial(A)
           T1 == T \cup Leaving(n, T, I)
           F1 == Joined(F, I, n)
           N == Len(w)
<1>1. Seen(A, T, I, F, n)
  BY DEF Seen
<1>2. Seen(B, T1, {n}, F1, n+1)
  BY UnifyInitialSeen
<1>3. /\ n \in Nat /\ I \in SUBSET (0..n-1) /\ F \in SUBSET (0..n-1) /\ Between(T, n)
      /\ \A p, a, q : <<p, a, q>> \in T => p \in 0..n-1 /\ a \in Symbol /\ q \in 0..n-1
  <2> HIDE DEF n, T, I, F
  <2> QED BY <1>1, SeenBetween
<1>4. \A p, a, q : <<p, a, q>> \in T1
                     <=> <<p, a, q>> \in T \/ (p = n /\ \E i \in I : <<i, a, q>> \in T)
  <2> HIDE DEF n, T, I
  <2> QED BY <1>3, LeavingMoves
<1> HIDE DEF n, T, I, F, B, T1, F1
<1>5. PICK g : Decides(g, A, T, I, F, w, n)
  BY <1>1, LanguageLayers
<1>6. PICK h : Decides(h, B, T1, {n}, F1, w, n+1)
  BY <1>2, LanguageLayers
<1>7. /\ N \in Nat /\ g[0] = I
      /\ \A k \in 0..N : g[k] \subseteq 0..n-1
      /\ \A k \in 1..N : w[k] \in Symbol /\ k-1 \in 0..N /\ k \in 0..N
      /\ \A k \in 1..N : \A q : q \in g[k] <=> \E p \in g[k-1] : <<p, w[k], q>> \in T
      /\ w \in Language(A) <=> g[N] \cap F # {}
  BY <1>5 DEF Decides, Layered
<1>8. /\ h[0] = {n}
      /\ \A k \in 1..N : \A q : q \in h[k] <=> \E p \in h[k-1] : <<p, w[k], q>> \in T1
      /\ w \in Language(B) <=> h[N] \cap F1 # {}
  BY <1>6 DEF Decides, Layered
<1> HIDE DEF N
<1>9. \A k \in 0..N : n \notin g[k]
  BY <1>3, <1>7
<1> DEFINE Good == {k \in 0..N : k = 0 \/ h[k] = g[k]}
<1>10. ASSUME NEW k \in 1..N, k-1 \in Good PROVE k \in Good
  <2>1. CASE k-1 = 0
    <3>1. g[k-1] = I /\ h[k-1] = {n} /\ n \notin I
      BY <1>7, <1>8, <1>9, <2>1
    <3>2. \A q : q \in h[k] <=> <<n, w[k], q>> \in T1
      BY <1>8, <3>1
    <3>3. \A q : <<n, w[k], q>> \notin T
      BY <1>3
    <3>4. \A q : q \in h[k] <=> \E i \in I : <<i, w[k], q>> \in T
      BY <1>4, <3>2, <3>3
    <3>5. \A q : q \in g[k] <=> \E i \in I : <<i, w[k], q>> \in T
      BY <1>7, <3>1
    <3>6. h[k] = g[k]
      BY <3>4, <3>5
    <3> QED BY <1>7, <3>6
  <2>2. CASE k-1 # 0
    <3>1. h[k-1] = g[k-1] /\ n \notin g[k-1]
      BY <1>7, <1>9, <1>10, <2>2
    <3>2. \A q : q \in h[k] <=> \E p \in g[k-1] : <<p, w[k], q>> \in T1
      BY <1>8, <3>1
    <3>3. \A p \in g[k-1] : \A q : <<p, w[k], q>> \in T1 <=> <<p, w[k], q>> \in T
      BY <1>4, <3>1
    <3>4. \A q : q \in h[k] <=> q \in g[k]
      BY <1>7, <3>2, <3>3
    <3>5. h[k] = g[k]
      BY <3>4
    <3> QED BY <1>7, <3>5
  <2> QED BY <2>1, <2>2
<1>11. \A k \in 0..N : k \in Good
  <2>1. Good \in SUBSET (0..N) /\ 0 \in Good
    BY <1>7
  <2> HIDE DEF Good
  <2> QED BY <1>7, <1>10, <2>1, UpTo
<1>12. n \notin F /\ n \notin I
  BY <1>3
<1>13. h[N] \cap F1 # {} <=> g[N] \cap F # {}
  <2>1. CASE N = 0
    <3>1. h[N] = {n} /\ g[N] = I
      BY <1>7, <1>8, <2>1
    <3>2. n \in F1 <=> I \cap F # {}
      BY <1>12 DEF Joined, F1
    <3> QED BY <3>1, <3>2
  <2>2. CASE N # 0
    <3>1. h[N] = g[N] /\ n \notin g[N]
      BY <1>7, <1>9, <1>11, <2>2
    <3>2. \A q : q # n => (q \in F1 <=> q \in F)
      BY DEF Joined, F1
    <3> QED BY <3>1, <3>2
  <2> QED BY <2>1, <2>2
<1> QED BY <1>7, <1>8, <1>13 DEF B

(* unify_final() keeps the language: the new state joins the layers that   *)
(* have a final state.                                                     *)
LEMMA UnifyFinalLanguage ==
  ASSUME NEW A, IsNfa(A), Cardinality(A.final.set) > 1, NEW w \in Words(Symbol, MaxWord)
  PROVE  w \in Language(unify_final(A)) <=> w \in Language(A)
<1> DEFINE n == num_of_states(A)
           T == transitions(A.delta)
           I == A.initial.set
           F == A.final.set
           B == unify_final(A)
           T1 == T \cup Entering(n, T, F)
           I1 == Joined(I, F, n)
           N == Len(w)
<1>1. Seen(A, T, I, F, n)
  BY DEF Seen
<1>2. Seen(B, T1, I1, {n}, n+1)
  BY UnifyFinalSeen
<1>3. /\ n \in Nat /\ I \in SUBSET (0..n-1) /\ F \in SUBSET (0..n-1) /\ Between(T, n)
      /\ \A p, a, q : <<p, a, q>> \in T => p \in 0..n-1 /\ a \in Symbol /\ q \in 0..n-1
  <2> HIDE DEF n, T, I, F
  <2> QED BY <1>1, SeenBetween
<1>4. \A p, a, q : <<p, a, q>> \in T1
                     <=> <<p, a, q>> \in T \/ (q = n /\ \E f \in F : <<p, a, f>> \in T)
  <2> HIDE DEF n, T, F
  <2> QED BY <1>3, EnteringMoves
<1> HIDE DEF n, T, I, F, B, T1, I1
<1>5. PICK g : Decides(g, A, T, I, F, w, n)
  BY <1>1, LanguageLayers
<1>6. PICK h : Decides(h, B, T1, I1, {n}, w, n+1)
  BY <1>2, LanguageLayers
<1>7. /\ N \in Nat /\ g[0] = I
      /\ \A k \in 0..N : g[k] \subseteq 0..n-1
      /\ \A k \in 1..N : w[k] \in Symbol /\ k-1 \in 0..N /\ k \in 0..N
      /\ \A k \in 1..N : \A q : q \in g[k] <=> \E p \in g[k-1] : <<p, w[k], q>> \in T
      /\ w \in Language(A) <=> g[N] \cap F # {}
  BY <1>5 DEF Decides, Layered
<1>8. /\ h[0] = I1
      /\ \A k \in 1..N : \A q : q \in h[k] <=> \E p \in h[k-1] : <<p, w[k], q>> \in T1
      /\ w \in Language(B) <=> h[N] \cap {n} # {}
  BY <1>6 DEF Decides, Layered
<1> HIDE DEF N
<1>9. /\ \A k \in 0..N : n \notin g[k]
      /\ n \notin F /\ n \notin I
      /\ \A a, q : <<n, a, q>> \notin T
      /\ \A p, a : <<p, a, n>> \notin T
  BY <1>3, <1>7
<1> DEFINE Good == {k \in 0..N : \A q : q \in h[k] <=> q \in g[k] \/ (q = n /\ g[k] \cap F # {})}
<1>10. 0 \in Good
  <2>1. \A q : q \in h[0] <=> q \in g[0] \/ (q = n /\ g[0] \cap F # {})
    BY <1>7, <1>8 DEF I1, Joined
  <2> QED BY <1>7, <2>1
<1>11. ASSUME NEW k \in 1..N, k-1 \in Good PROVE k \in Good
  <2>1. \A p : p \in h[k-1] <=> p \in g[k-1] \/ (p = n /\ g[k-1] \cap F # {})
    BY <1>11
  <2>2. \A q : q \in h[k] <=> \E p \in g[k-1] : <<p, w[k], q>> \in T1
    <3>1. \A q : <<n, w[k], q>> \notin T1
      BY <1>4, <1>9
    <3> HIDE DEF Good
    <3> QED BY <1>8, <2>1, <3>1
  <2>3. \A p, q : <<p, w[k], q>> \in T1
                    <=> <<p, w[k], q>> \in T \/ (q = n /\ \E f \in F : <<p, w[k], f>> \in T)
    BY <1>4
  <2>4. \A q : q \in g[k] <=> \E p \in g[k-1] : <<p, w[k], q>> \in T
    BY <1>7
  <2>5. g[k] \cap F # {} <=> \E p \in g[k-1] : \E f \in F : <<p, w[k], f>> \in T
    BY <2>4
  <2>6. \A q : q \in h[k] <=> q \in g[k] \/ (q = n /\ g[k] \cap F # {})
    BY <2>2, <2>3, <2>4, <2>5
  <2> QED BY <1>7, <2>6
<1>12. \A k \in 0..N : k \in Good
  <2>1. Good \in SUBSET (0..N)
    OBVIOUS
  <2> HIDE DEF Good
  <2> QED BY <1>7, <1>10, <1>11, <2>1, UpTo
<1>13. n \in h[N] <=> g[N] \cap F # {}
  <2>1. N \in Good
    BY <1>7, <1>12
  <2>2. n \notin g[N]
    BY <1>7, <1>9
  <2> QED BY <2>1, <2>2
<1>14. h[N] \cap {n} # {} <=> n \in h[N]
  OBVIOUS
<1> QED BY <1>7, <1>8, <1>13, <1>14 DEF B

(* An automaton without initial or without final states accepts nothing.   *)
LEMMA NoLanguage ==
  ASSUME NEW A, IsNfa(A), A.final.set = {} \/ A.initial.set = {},
         NEW w \in Words(Symbol, MaxWord)
  PROVE  w \notin Language(A)
<1> DEFINE n == num_of_states(A)
           T == transitions(A.delta)
           I == A.initial.set
           F == A.final.set
           N == Len(w)
<1>1. Seen(A, T, I, F, n)
  BY DEF Seen
<1> HIDE DEF n, T, I, F
<1>2. PICK g : Decides(g, A, T, I, F, w, n)
  BY <1>1, LanguageLayers
<1>3. /\ N \in Nat /\ g[0] = I
      /\ \A k \in 1..N : k-1 \in 0..N /\ k \in 0..N
      /\ \A k \in 1..N : \A q : q \in g[k] <=> \E p \in g[k-1] : <<p, w[k], q>> \in T
      /\ w \in Language(A) <=> g[N] \cap F # {}
  BY <1>2 DEF Decides, Layered
<1> HIDE DEF N
<1>4. CASE I = {}
  <2> DEFINE Good == {k \in 0..N : g[k] = {}}
  <2>1. 0 \in Good
    BY <1>3, <1>4
  <2>2. ASSUME NEW k \in 1..N, k-1 \in Good PROVE k \in Good
    <3>1. \A q : q \notin g[k]
      BY <1>3, <2>2
    <3> QED BY <1>3, <3>1
  <2>3. Good \in SUBSET (0..N)
    OBVIOUS
  <2>4. \A k \in 0..N : k \in Good
    <3> HIDE DEF Good
    <3> QED BY <1>3, <2>1, <2>2, <2>3, UpTo
  <2> QED BY <1>3, <2>4
<1> QED BY <1>3, <1>4 DEF F, I

\* The moves of the second automaton, n states further on.
MovesFurther(T, m, n) ==
  \A p, a, q : <<p, a, q>> \in Shifted(T, n)
                 <=> \E x, y \in 0..m-1 : p = x+n /\ q = y+n /\ <<x, a, y>> \in T

(* Shifted() moves both ends of a transition.                              *)
LEMMA ShiftedMoves ==
  ASSUME NEW n \in Nat, NEW m \in Nat, NEW T, Between(T, m)
  PROVE  MovesFurther(T, m, n)
<1> SUFFICES ASSUME NEW p, NEW a, NEW q
             PROVE  <<p, a, q>> \in Shifted(T, n)
                      <=> \E x, y \in 0..m-1 : p = x+n /\ q = y+n /\ <<x, a, y>> \in T
  BY DEF MovesFurther
<1>1. ASSUME <<p, a, q>> \in Shifted(T, n)
      PROVE  \E x, y \in 0..m-1 : p = x+n /\ q = y+n /\ <<x, a, y>> \in T
  <2>1. PICK t \in T : <<p, a, q>> = <<t[1] + n, t[2], t[3] + n>>
    BY <1>1 DEF Shifted
  <2>2. t = <<t[1], t[2], t[3]>> /\ t[1] \in 0..m-1 /\ t[3] \in 0..m-1
    BY DEF Between
  <2>3. p = t[1] + n /\ a = t[2] /\ q = t[3] + n
    BY <2>1
  <2> QED BY <2>2, <2>3
<1>2. ASSUME NEW x \in 0..m-1, NEW y \in 0..m-1, p = x+n, q = y+n, <<x, a, y>> \in T
      PROVE  <<p, a, q>> \in Shifted(T, n)
  <2> DEFINE t == <<x, a, y>>
  <2>1. t[1] = x /\ t[2] = a /\ t[3] = y
    OBVIOUS
  <2>2. t \in T /\ <<p, a, q>> = <<t[1] + n, t[2], t[3] + n>>
    BY <1>2, <2>1
  <2> HIDE DEF t
  <2> QED BY <2>2 DEF Shifted
<1> QED BY <1>1, <1>2

\* S has the elements of the one set, and of the other n further on.
SideBySide(S, S1, S2, n) == \A q : q \in S <=> q \in S1 \/ \E x \in S2 : q = x + n

\* The states of an automaton, and the sets that have one in common.
StatesOf(S, n) == S \subseteq 0..n-1
Meet(S, F) == S \cap F # {}

(* Sets side by side meet sets side by side as the parts meet.             *)
LEMMA SidesMeet ==
  ASSUME NEW n \in Nat, NEW m \in Nat,
         NEW S1, NEW S2, NEW S, SideBySide(S, S1, S2, n), StatesOf(S1, n), StatesOf(S2, m),
         NEW F1, NEW F2, NEW F, SideBySide(F, F1, F2, n), StatesOf(F1, n), StatesOf(F2, m)
  PROVE  Meet(S, F) <=> Meet(S1, F1) \/ Meet(S2, F2)
<1> USE DEF StatesOf, Meet
<1>1. ASSUME NEW q \in S, q \in F PROVE S1 \cap F1 # {} \/ S2 \cap F2 # {}
  <2>1. q \in S1 \/ \E x \in S2 : q = x + n
    BY DEF SideBySide
  <2>2. q \in F1 \/ \E x \in F2 : q = x + n
    BY <1>1 DEF SideBySide
  <2>3. CASE q \in S1 /\ q \in F1
    BY <2>3
  <2>4. CASE q \notin S1 \/ q \notin F1
    <3>1. PICK x \in 0..m-1 : q = x + n
      BY <2>1, <2>2, <2>4
    <3>2. q \notin 0..n-1
      BY <3>1
    <3>3. (\E y \in S2 : q = y + n) /\ \E y \in F2 : q = y + n
      BY <2>1, <2>2, <3>2
    <3>4. PICK y \in S2 : q = y + n
      BY <3>3
    <3>5. PICK z \in F2 : q = z + n
      BY <3>3
    <3>6. y = z
      BY <3>4, <3>5
    <3> QED BY <3>6
  <2> QED BY <2>3, <2>4
<1>2. ASSUME NEW q \in S1, q \in F1 PROVE S \cap F # {}
  BY <1>2 DEF SideBySide
<1>3. ASSUME NEW x \in S2, x \in F2 PROVE S \cap F # {}
  <2>1. x + n \in S /\ x + n \in F
    BY <1>3 DEF SideBySide
  <2> QED BY <2>1
<1> QED BY <1>1, <1>2, <1>3

(* unite_nondet_with() unites the languages: its layers are those of the   *)
(* two automata, side by side.                                             *)
LEMMA UniteLanguage ==
  ASSUME NEW A, IsNfa(A), NEW B, IsNfa(B), NEW w \in Words(Symbol, MaxWord)
  PROVE  w \in Language(unite_nondet_with(A, B)) <=> w \in Language(A) \/ w \in Language(B)
<1>1. CASE A.final.set = {} \/ A.initial.set = {}
  <2>1. unite_nondet_with(A, B) = B
    BY <1>1 DEF unite_nondet_with
  <2> QED BY <1>1, <2>1, NoLanguage
<1>2. CASE ~ (A.final.set = {} \/ A.initial.set = {}) /\ (B.final.set = {} \/ B.initial.set = {})
  <2>1. unite_nondet_with(A, B) = A
    BY <1>2 DEF unite_nondet_with
  <2> QED BY <1>2, <2>1, NoLanguage
<1>3. CASE A.final.set # {} /\ A.initial.set # {} /\ B.final.set # {} /\ B.initial.set # {}
  <2> DEFINE n == num_of_states(A)
             m == num_of_states(B)
             T1 == transitions(A.delta)
             T2 == transitions(B.delta)
             I1 == A.initial.set
             I2 == B.initial.set
             F1 == A.final.set
             F2 == B.final.set
             C == unite_nondet_with(A, B)
             T == T1 \cup Shifted(T2, n)
             I == I1 \cup Moved(I2, n)
             F == F1 \cup Moved(F2, n)
             N == Len(w)
  <2>1. Seen(A, T1, I1, F1, n) /\ Seen(B, T2, I2, F2, m)
    BY DEF Seen
  <2>2. Seen(C, T, I, F, n + m)
    BY <1>3, UniteSeen
  <2>3. SideBySide(I, I1, I2, n) /\ SideBySide(F, F1, F2, n)
    BY DEF SideBySide, Moved
  <2>4. \A p, a, q : <<p, a, q>> \in T <=> <<p, a, q>> \in T1 \/ <<p, a, q>> \in Shifted(T2, n)
    OBVIOUS
  <2> HIDE DEF n, m, T1, T2, I1, I2, F1, F2, C, T, I, F
  <2>5. /\ n \in Nat /\ F1 \in SUBSET (0..n-1) /\ I1 \in SUBSET (0..n-1)
        /\ \A p, a, q : <<p, a, q>> \in T1 => p \in 0..n-1 /\ a \in Symbol /\ q \in 0..n-1
    BY <2>1, SeenBetween
  <2>6. /\ m \in Nat /\ F2 \in SUBSET (0..m-1) /\ I2 \in SUBSET (0..m-1) /\ Between(T2, m)
    BY <2>1, SeenBetween
  <2>7. \A p, a, q : <<p, a, q>> \in Shifted(T2, n)
                       <=> \E x, y \in 0..m-1 : p = x+n /\ q = y+n /\ <<x, a, y>> \in T2
    <3>1. n \in Nat /\ m \in Nat /\ Between(T2, m)
      BY <2>5, <2>6
    <3>2. MovesFurther(T2, m, n)
      BY ONLY <3>1, ShiftedMoves
    <3> QED BY <3>2 DEF MovesFurther
  <2>8. PICK g1 : Decides(g1, A, T1, I1, F1, w, n)
    BY <2>1, LanguageLayers
  <2>9. PICK g2 : Decides(g2, B, T2, I2, F2, w, m)
    BY <2>1, LanguageLayers
  <2>10. PICK h : Decides(h, C, T, I, F, w, n + m)
    BY <2>2, LanguageLayers
  <2>11. /\ N \in Nat /\ g1[0] = I1
         /\ \A k \in 0..N : g1[k] \subseteq 0..n-1
         /\ \A k \in 1..N : w[k] \in Symbol /\ k-1 \in 0..N /\ k \in 0..N
         /\ \A k \in 1..N : \A q : q \in g1[k] <=> \E p \in g1[k-1] : <<p, w[k], q>> \in T1
         /\ w \in Language(A) <=> g1[N] \cap F1 # {}
    BY <2>8 DEF Decides, Layered
  <2>12. /\ g2[0] = I2
         /\ \A k \in 0..N : g2[k] \subseteq 0..m-1
         /\ \A k \in 1..N : \A q : q \in g2[k] <=> \E p \in g2[k-1] : <<p, w[k], q>> \in T2
         /\ w \in Language(B) <=> g2[N] \cap F2 # {}
    BY <2>9 DEF Decides, Layered
  <2>13. /\ h[0] = I
         /\ \A k \in 1..N : \A q : q \in h[k] <=> \E p \in h[k-1] : <<p, w[k], q>> \in T
         /\ w \in Language(C) <=> h[N] \cap F # {}
    BY <2>10 DEF Decides, Layered
  <2> HIDE DEF N
  <2> DEFINE Good == {k \in 0..N : SideBySide(h[k], g1[k], g2[k], n)}
  <2>14. 0 \in Good
    BY <2>3, <2>11, <2>12, <2>13
  <2>15. ASSUME NEW k \in 1..N, k-1 \in Good PROVE k \in Good
    <3>1. \A p : p \in h[k-1] <=> p \in g1[k-1] \/ \E x \in g2[k-1] : p = x + n
      BY <2>15 DEF SideBySide
    <3>2. \A q : q \in h[k] <=> \E p \in h[k-1] : <<p, w[k], q>> \in T
      BY <2>13
    <3>3. g1[k-1] \subseteq 0..n-1 /\ g2[k-1] \subseteq 0..m-1
      BY <2>11, <2>12
    <3>4. \A q : q \in g1[k] <=> \E p \in g1[k-1] : <<p, w[k], q>> \in T1
      BY <2>11
    <3>5. \A q : q \in g2[k] <=> \E p \in g2[k-1] : <<p, w[k], q>> \in T2
      BY <2>12
    <3>6. \A p \in g1[k-1] : \A q : <<p, w[k], q>> \in T <=> <<p, w[k], q>> \in T1
      <4>1. ASSUME NEW p \in g1[k-1], NEW q, <<p, w[k], q>> \in Shifted(T2, n) PROVE FALSE
        <5>1. PICK x, y \in 0..m-1 : p = x+n
          BY <2>7, <4>1
        <5> QED BY <2>5, <2>6, <3>3, <5>1
      <4> QED BY <2>4, <4>1
    <3>7. \A x \in g2[k-1] : \A q : <<x+n, w[k], q>> \in T
                                      <=> \E y \in 0..m-1 : q = y+n /\ <<x, w[k], y>> \in T2
      <4>1. ASSUME NEW x \in g2[k-1], NEW q, <<x+n, w[k], q>> \in T
            PROVE  \E y \in 0..m-1 : q = y+n /\ <<x, w[k], y>> \in T2
        <5>1. x \in 0..m-1 /\ x+n \notin 0..n-1
          BY <2>5, <2>6, <3>3
        <5>2. <<x+n, w[k], q>> \in Shifted(T2, n)
          BY <2>4, <2>5, <4>1, <5>1
        <5>3. PICK z, y \in 0..m-1 : x+n = z+n /\ q = y+n /\ <<z, w[k], y>> \in T2
          <6> DEFINE p == x+n
          <6>1. <<p, w[k], q>> \in Shifted(T2, n)
            BY <5>2
          <6> HIDE DEF p
          <6>2. \E z, y \in 0..m-1 : p = z+n /\ q = y+n /\ <<z, w[k], y>> \in T2
            BY ONLY <2>7, <6>1
          <6> QED BY <6>2 DEF p
        <5>4. z = x
          BY <2>5, <2>6, <5>1, <5>3
        <5> QED BY <5>3, <5>4
      <4>2. ASSUME NEW x \in g2[k-1], NEW y \in 0..m-1, <<x, w[k], y>> \in T2
            PROVE  <<x+n, w[k], y+n>> \in T
        BY <2>4, <2>7, <3>3, <4>2
      <4> QED BY <4>1, <4>2
    <3>8. \A q : q \in h[k] <=> \/ \E p \in g1[k-1] : <<p, w[k], q>> \in T
                                \/ \E x \in g2[k-1] : <<x+n, w[k], q>> \in T
      BY <3>1, <3>2
    <3>9. \A y : y \in g2[k] => y \in 0..m-1
      BY <2>11, <2>12
    <3>10. \A q : q \in h[k] <=> q \in g1[k] \/ \E y \in g2[k] : q = y + n
      <4>1. \A q : (\E p \in g1[k-1] : <<p, w[k], q>> \in T) <=> q \in g1[k]
        BY <3>4, <3>6
      <4>2. ASSUME NEW q
            PROVE  (\E x \in g2[k-1] : <<x+n, w[k], q>> \in T) <=> \E y \in g2[k] : q = y + n
        BY <3>5, <3>7, <3>9
      <4> QED BY <3>8, <4>1, <4>2
    <3> QED BY <2>11, <3>10 DEF SideBySide
  <2>16. \A k \in 0..N : k \in Good
    <3>1. Good \in SUBSET (0..N)
      OBVIOUS
    <3> HIDE DEF Good
    <3> QED BY <2>11, <2>14, <2>15, <3>1, UpTo
  <2>17. SideBySide(h[N], g1[N], g2[N], n) /\ g1[N] \in SUBSET (0..n-1) /\ g2[N] \in SUBSET (0..m-1)
    BY <2>11, <2>12, <2>16
  <2>18. h[N] \cap F # {} <=> g1[N] \cap F1 # {} \/ g2[N] \cap F2 # {}
    <3> DEFINE S == h[N]
               S1 == g1[N]
               S2 == g2[N]
    <3>1. /\ n \in Nat /\ m \in Nat
          /\ StatesOf(S1, n) /\ StatesOf(S2, m) /\ SideBySide(S, S1, S2, n)
          /\ StatesOf(F1, n) /\ StatesOf(F2, m) /\ SideBySide(F, F1, F2, n)
      BY <2>3, <2>5, <2>6, <2>17 DEF StatesOf
    <3> HIDE DEF S, S1, S2
    <3>2. Meet(S, F) <=> Meet(S1, F1) \/ Meet(S2, F2)
      BY ONLY <3>1, SidesMeet
    <3> QED BY <3>2 DEF S, S1, S2, Meet
  <2> QED BY <2>11, <2>12, <2>13, <2>18 DEF C
<1> QED BY <1>1, <1>2, <1>3

-----------------------------------------------------------------------------
(* The language of a trimmed automaton.                                    *)

\* No move leads out of S ...
Onward(S, T) == \A p, a, q : <<p, a, q>> \in T /\ p \in S => q \in S
\* ... or into it.
Back(S, T) == \A p, a, q : <<p, a, q>> \in T /\ q \in S => p \in S

\* R is what I leads to, and K what leads into F.
Useful(R, K, T, I, F, n) ==
  /\ R \in SUBSET (0..n-1) /\ I \subseteq R /\ Onward(R, T)
  /\ \A X \in SUBSET (0..n-1) : I \subseteq X /\ Onward(X, T) => R \subseteq X
  /\ K \in SUBSET (0..n-1) /\ F \subseteq K /\ Back(K, T)
  /\ \A X \in SUBSET (0..n-1) : F \subseteq X /\ Back(X, T) => K \subseteq X

(* The successors of a state are where the moves from it lead.             *)
LEMMA SuccessorsAre ==
  ASSUME NEW n, NEW T, Between(T, n), NEW p, NEW q
  PROVE  q \in Next1(T, p) <=> \E a : <<p, a, q>> \in T
<1>1. ASSUME q \in Next1(T, p) PROVE \E a : <<p, a, q>> \in T
  <2>1. PICK t \in T : t[1] = p /\ t[3] = q
    BY <1>1 DEF Next1
  <2>2. t = <<t[1], t[2], t[3]>>
    BY DEF Between
  <2> QED BY <2>1, <2>2
<1>2. ASSUME NEW a, <<p, a, q>> \in T PROVE q \in Next1(T, p)
  <2> DEFINE t == <<p, a, q>>
  <2>1. t \in T /\ t[1] = p /\ t[3] = q
    BY <1>2
  <2> HIDE DEF t
  <2> QED BY <2>1 DEF Next1
<1> QED BY <1>1, <1>2

(* A closure along the moves is the least set that they do not leave.      *)
LEMMA LeastOnward ==
  ASSUME NEW n \in Nat, NEW T, Between(T, n), NEW I \in SUBSET (0..n-1),
         NEW R, R = Closure(Moves(T, n), I)
  PROVE  /\ R \in SUBSET (0..n-1) /\ I \subseteq R /\ Onward(R, T)
         /\ \A X \in SUBSET (0..n-1) : I \subseteq X /\ Onward(X, T) => R \subseteq X
<1> DEFINE succ == Moves(T, n)
           V == 0..n-1
<1>1. /\ IsGraph(succ) /\ DOMAIN succ = V
      /\ \A q \in V : succ[q] = Next1(T, q)
  BY MovesGraph
<1>2. \A p, q : q \in Next1(T, p) <=> \E a : <<p, a, q>> \in T
  BY SuccessorsAre
<1> HIDE DEF succ
<1>3. R = Closure(succ, I)
  BY DEF succ
<1>4. R \in SUBSET V /\ I \subseteq R /\ \A q \in R : succ[q] \subseteq R
  BY <1>1, <1>3, ClosureType, ClosureContains, ClosureClosed DEF ClosedUnder
<1>5. Onward(R, T)
  <2>1. ASSUME NEW p, NEW a, NEW q, <<p, a, q>> \in T, p \in R PROVE q \in R
    <3>1. p \in V /\ q \in Next1(T, p)
      BY <1>2, <1>4, <2>1
    <3> QED BY <1>1, <1>4, <2>1, <3>1
  <2> QED BY <2>1 DEF Onward
<1>6. ASSUME NEW X \in SUBSET V, I \subseteq X, Onward(X, T) PROVE R \subseteq X
  <2>1. \A q \in X \cap DOMAIN succ : succ[q] \subseteq X
    <3>1. ASSUME NEW p \in X, NEW q \in succ[p] PROVE q \in X
      <4>1. \E a : <<p, a, q>> \in T
        BY <1>1, <1>2, <3>1
      <4> QED BY <1>6, <4>1 DEF Onward
    <3> QED BY <3>1
  <2>2. IsGraph(succ) /\ I \in SUBSET DOMAIN succ
    BY <1>1
  <2> QED BY <1>3, <1>6, <2>1, <2>2, ClosureLeast
<1> QED BY <1>4, <1>5, <1>6

(* A closure against the moves is the least set that they do not enter.    *)
LEMMA LeastBack ==
  ASSUME NEW n \in Nat, NEW T, Between(T, n), NEW F \in SUBSET (0..n-1),
         NEW K, K = CoClosure(Moves(T, n), F)
  PROVE  /\ K \in SUBSET (0..n-1) /\ F \subseteq K /\ Back(K, T)
         /\ \A X \in SUBSET (0..n-1) : F \subseteq X /\ Back(X, T) => K \subseteq X
<1> DEFINE back == {<<t[3], t[2], t[1]>> : t \in T}
           V == 0..n-1
<1>1. \A p, a, q : <<p, a, q>> \in back <=> <<q, a, p>> \in T
  <2>1. ASSUME NEW p, NEW a, NEW q, <<p, a, q>> \in back PROVE <<q, a, p>> \in T
    <3>1. PICK t \in T : <<p, a, q>> = <<t[3], t[2], t[1]>>
      BY <2>1
    <3>2. t = <<t[1], t[2], t[3]>>
      BY DEF Between
    <3> QED BY <3>1, <3>2
  <2>2. ASSUME NEW p, NEW a, NEW q, <<q, a, p>> \in T PROVE <<p, a, q>> \in back
    <3> DEFINE t == <<q, a, p>>
    <3>1. t \in T /\ <<p, a, q>> = <<t[3], t[2], t[1]>>
      BY <2>2
    <3> HIDE DEF t
    <3> QED BY <3>1
  <2> QED BY <2>1, <2>2
<1>2. Between(back, n)
  BY DEF Between
<1> HIDE DEF back
<1>3. /\ IsGraph(Moves(T, n)) /\ DOMAIN Moves(T, n) = V
      /\ \A p \in V : Moves(T, n)[p] = Next1(T, p)
  BY MovesGraph
<1>4. /\ DOMAIN Moves(back, n) = V
      /\ \A p \in V : Moves(back, n)[p] = Next1(back, p)
      /\ \A q : Next1(back, q) \subseteq V
  BY <1>2, MovesGraph
<1>5. K = Closure(Backwards(Moves(T, n)), F)
  BY <1>3, CoClosureBackwards
<1>6. Backwards(Moves(T, n)) = Moves(back, n)
  <2>1. \A q \in V : {p \in V : q \in Next1(T, p)} = Next1(back, q)
    <3>1. \A p, q : q \in Next1(T, p) <=> p \in Next1(back, q)
      <4>1. \A p, q : q \in Next1(T, p) <=> \E a : <<p, a, q>> \in T
        BY SuccessorsAre
      <4>2. \A p, q : p \in Next1(back, q) <=> \E a : <<q, a, p>> \in back
        BY <1>2, SuccessorsAre
      <4> QED BY <1>1, <4>1, <4>2
    <3> QED BY <1>4, <3>1
  <2>2. Backwards(Moves(T, n)) = [q \in V |-> {p \in V : q \in Next1(T, p)}]
    BY <1>3 DEF Backwards
  <2>3. Moves(back, n) = [q \in V |-> Next1(back, q)]
    BY DEF Moves
  <2> HIDE DEF V
  <2> QED BY <2>1, <2>2, <2>3
<1>7. K = Closure(Moves(back, n), F)
  BY <1>5, <1>6
<1>8. \A X : Onward(X, back) <=> Back(X, T)
  BY <1>1 DEF Onward, Back
<1>9. /\ K \in SUBSET V /\ F \subseteq K /\ Onward(K, back)
      /\ \A X \in SUBSET V : F \subseteq X /\ Onward(X, back) => K \subseteq X
  BY <1>2, <1>7, LeastOnward
<1> QED BY <1>8, <1>9

(* The useful states are those that are between I and F.                   *)
LEMMA UsefulAre ==
  ASSUME NEW A, NEW T, NEW I, NEW F, NEW n, Seen(A, T, I, F, n)
  PROVE  \E R, K : Useful(R, K, T, I, F, n) /\ get_useful_states(A) = R \cap K
<1>1. n \in Nat /\ I \in SUBSET (0..n-1) /\ F \in SUBSET (0..n-1) /\ Between(T, n)
  BY SeenBetween
<1> DEFINE R == Closure(Moves(T, n), I)
           K == CoClosure(Moves(T, n), F)
<1>2. get_useful_states(A) = R \cap K
  BY MovesOf DEF Seen
<1> HIDE DEF R, K
<1>3. /\ R \in SUBSET (0..n-1) /\ I \subseteq R /\ Onward(R, T)
      /\ \A X \in SUBSET (0..n-1) : I \subseteq X /\ Onward(X, T) => R \subseteq X
  BY <1>1, LeastOnward DEF R
<1>4. /\ K \in SUBSET (0..n-1) /\ F \subseteq K /\ Back(K, T)
      /\ \A X \in SUBSET (0..n-1) : F \subseteq X /\ Back(X, T) => K \subseteq X
  BY <1>1, LeastBack DEF K
<1>5. Useful(R, K, T, I, F, n)
  BY <1>3, <1>4 DEF Useful
<1> QED BY <1>2, <1>5

\* S1 has the ranks of the useful states in S.
RanksOf(S1, S, U) == \A x : x \in S1 <=> \E q \in S \cap U : x = Rank(U, q)

\* The moves of T1 are those of T among the useful states.
KeepsMoves(T1, T, U) ==
  \A x, a, y : <<x, a, y>> \in T1
                 <=> \E p, q \in U : x = Rank(U, p) /\ y = Rank(U, q) /\ <<p, a, q>> \in T

\* Useful states are told apart by their ranks.
Ranking(U) == \A p, q \in U : Rank(U, p) = Rank(U, q) => p = q

(* The moves that defragment() keeps.                                      *)
LEMMA KeptMoves ==
  ASSUME NEW n, NEW T, Between(T, n), NEW U
  PROVE  KeepsMoves(Kept(T, U), T, U)
<1> SUFFICES ASSUME NEW x, NEW a, NEW y
             PROVE  <<x, a, y>> \in Kept(T, U)
                      <=> \E p, q \in U : x = Rank(U, p) /\ y = Rank(U, q) /\ <<p, a, q>> \in T
  BY DEF KeepsMoves
<1>1. ASSUME <<x, a, y>> \in Kept(T, U)
      PROVE  \E p, q \in U : x = Rank(U, p) /\ y = Rank(U, q) /\ <<p, a, q>> \in T
  <2>1. PICK t \in T : {t[1], t[3]} \subseteq U
                         /\ <<x, a, y>> = <<Rank(U, t[1]), t[2], Rank(U, t[3])>>
    BY <1>1 DEF Kept
  <2>2. t = <<t[1], t[2], t[3]>>
    BY DEF Between
  <2>3. x = Rank(U, t[1]) /\ a = t[2] /\ y = Rank(U, t[3]) /\ t[1] \in U /\ t[3] \in U
    BY <2>1
  <2> QED BY <2>2, <2>3
<1>2. ASSUME NEW p \in U, NEW q \in U, x = Rank(U, p), y = Rank(U, q), <<p, a, q>> \in T
      PROVE  <<x, a, y>> \in Kept(T, U)
  <2> DEFINE t == <<p, a, q>>
  <2>1. t \in T /\ t[1] = p /\ t[2] = a /\ t[3] = q
    BY <1>2
  <2>2. <<x, a, y>> = <<Rank(U, t[1]), t[2], Rank(U, t[3])>> /\ {t[1], t[3]} \subseteq U
    BY <1>2, <2>1
  <2> HIDE DEF t
  <2> QED BY <2>1, <2>2 DEF Kept
<1> QED BY <1>1, <1>2

(* Ranks differ and go up to the number of useful states.                  *)
LEMMA RanksOnto ==
  ASSUME NEW n \in Nat, NEW U \in SUBSET (0..n-1), NEW m, m = Cardinality(U)
  PROVE  /\ m \in Nat /\ Ranking(U)
         /\ \A q \in U : Rank(U, q) \in 0..m-1
         /\ \A x \in 0..m-1 : \E q \in U : Rank(U, q) = x
<1>1. /\ m \in Nat /\ Rank(U, 0) = 0 /\ Rank(U, n) = m
      /\ \A i \in Nat : /\ Rank(U, i) \in Nat
                        /\ Rank(U, i+1) = Rank(U, i) + IF i \in U THEN 1 ELSE 0
      /\ \A i \in U : i \in Nat /\ \A j \in Nat : i < j => Rank(U, i) < Rank(U, j)
  BY Ranks
<1>2. Ranking(U)
  <2> SUFFICES ASSUME NEW p \in U, NEW q \in U, Rank(U, p) = Rank(U, q), p # q PROVE FALSE
    BY DEF Ranking
  <2>1. p \in Nat /\ q \in Nat
    BY <1>1
  <2>2. p < q \/ q < p
    BY <2>1
  <2>3. Rank(U, p) < Rank(U, q) \/ Rank(U, q) < Rank(U, p)
    BY <1>1, <2>1, <2>2
  <2> QED BY <1>1, <2>1, <2>3
<1>3. \A q \in U : Rank(U, q) \in 0..m-1
  <2> SUFFICES ASSUME NEW q \in U PROVE Rank(U, q) \in 0..m-1
    OBVIOUS
  <2>1. q \in Nat /\ q < n
    OBVIOUS
  <2>2. Rank(U, q) \in Nat /\ Rank(U, q) < m
    BY <1>1, <2>1
  <2> QED BY <1>1, <2>2
<1> DEFINE Good == {i \in 0..n : \A x \in 0..Rank(U, i)-1 : \E q \in U : Rank(U, q) = x}
<1>4. 0 \in Good
  BY <1>1
<1>5. ASSUME NEW i \in 1..n, i-1 \in Good PROVE i \in Good
  <2>1. i-1 \in Nat /\ i = (i-1)+1 /\ i \in 0..n
    OBVIOUS
  <2>2. Rank(U, i-1) \in Nat /\ Rank(U, i) = Rank(U, i-1) + IF i-1 \in U THEN 1 ELSE 0
    BY <1>1, <2>1
  <2>3. \A x \in 0..Rank(U, i-1)-1 : \E q \in U : Rank(U, q) = x
    BY <1>5
  <2>4. \A x \in 0..Rank(U, i)-1 : \E q \in U : Rank(U, q) = x
    <3> SUFFICES ASSUME NEW x \in 0..Rank(U, i)-1 PROVE \E q \in U : Rank(U, q) = x
      OBVIOUS
    <3>1. x \in 0..Rank(U, i-1)-1 \/ (i-1 \in U /\ x = Rank(U, i-1))
      BY <2>2
    <3> QED BY <2>3, <3>1
  <2> QED BY <2>1, <2>4
<1>6. \A i \in 0..n : i \in Good
  <2>1. Good \in SUBSET (0..n)
    OBVIOUS
  <2> HIDE DEF Good
  <2> QED BY <1>4, <1>5, <2>1, UpTo
<1>7. \A x \in 0..m-1 : \E q \in U : Rank(U, q) = x
  <2>1. n \in Good
    BY <1>6
  <2> QED BY <1>1, <2>1
<1> QED BY <1>1, <1>2, <1>3, <1>7

\* What is seen of a trimmed automaton.
Trimmed(T, I, F, n, T1, I1, F1, U, R, K) ==
  /\ Useful(R, K, T, I, F, n) /\ U = R \cap K
  /\ KeepsMoves(T1, T, U) /\ RanksOf(I1, I, U) /\ RanksOf(F1, F, U)

(* trim() keeps what is useful under other names.                          *)
LEMMA TrimmedSeen ==
  ASSUME NEW A, NEW T, NEW I, NEW F, NEW n, Seen(A, T, I, F, n), NEW U, U = get_useful_states(A)
  PROVE  \E T1, I1, F1, R, K :
           Seen(trim(A), T1, I1, F1, Cardinality(U)) /\ Trimmed(T, I, F, n, T1, I1, F1, U, R, K)
<1> DEFINE T1 == Kept(T, U)
           I1 == Ranked(U, I \cap U)
           F1 == Ranked(U, F \cap U)
<1>1. Seen(trim(A), T1, I1, F1, Cardinality(U))
  <2>1. IsNfa(A) /\ transitions(A.delta) = T /\ A.initial.set = I /\ A.final.set = F
    BY DEF Seen
  <2>2. Seen(trim(A), Kept(transitions(A.delta), U), Ranked(U, A.initial.set \cap U),
             Ranked(U, A.final.set \cap U), Cardinality(U))
    BY <2>1, TrimSeen
  <2> QED BY <2>1, <2>2
<1>2. PICK R, K : Useful(R, K, T, I, F, n) /\ U = R \cap K
  BY UsefulAre
<1>3. KeepsMoves(T1, T, U)
  BY SeenBetween, KeptMoves
<1>4. RanksOf(I1, I, U) /\ RanksOf(F1, F, U)
  BY DEF RanksOf, Ranked
<1> HIDE DEF T1, I1, F1
<1>5. Trimmed(T, I, F, n, T1, I1, F1, U, R, K)
  BY <1>2, <1>3, <1>4 DEF Trimmed
<1> QED BY <1>1, <1>5

(* trim() keeps the language: its layers are the useful parts of those     *)
(* before, for a state that lies on an accepting run is useful.            *)
LEMMA TrimLanguage ==
  ASSUME NEW A, IsNfa(A), NEW w \in Words(Symbol, MaxWord)
  PROVE  w \in Language(trim(A)) <=> w \in Language(A)
<1> DEFINE n == num_of_states(A)
           T == transitions(A.delta)
           I == A.initial.set
           F == A.final.set
           U == get_useful_states(A)
           B == trim(A)
           m == Cardinality(U)
           N == Len(w)
<1>1. Seen(A, T, I, F, n)
  BY DEF Seen
<1> HIDE DEF n, T, I, F
<1>2. PICK T1, I1, F1, R, K : Seen(B, T1, I1, F1, m) /\ Trimmed(T, I, F, n, T1, I1, F1, U, R, K)
  BY <1>1, TrimmedSeen
<1> HIDE DEF U, B
<1>3. /\ n \in Nat /\ U = R \cap K /\ U \in SUBSET (0..n-1) /\ I \subseteq R /\ F \subseteq K
      /\ \A p, a, q : <<p, a, q>> \in T => (p \in R => q \in R) /\ (q \in K => p \in K)
  BY <1>1, <1>2, SeenBetween DEF Trimmed, Useful, Onward, Back
<1>4. /\ \A x, a, y : <<x, a, y>> \in T1
           <=> \E p, q \in U : x = Rank(U, p) /\ y = Rank(U, q) /\ <<p, a, q>> \in T
      /\ RanksOf(I1, I, U) /\ RanksOf(F1, F, U)
  BY <1>2 DEF Trimmed, KeepsMoves
<1>5. \A p, q \in U : Rank(U, p) = Rank(U, q) => p = q
  <2>1. n \in Nat /\ U \in SUBSET (0..n-1)
    BY <1>3
  <2>2. Ranking(U)
    BY ONLY <2>1, RanksOnto
  <2> QED BY <2>2 DEF Ranking
<1>6. PICK g : Decides(g, A, T, I, F, w, n)
  BY <1>1, LanguageLayers
<1>7. PICK h : Decides(h, B, T1, I1, F1, w, m)
  BY <1>2, LanguageLayers
<1>8. /\ N \in Nat /\ g[0] = I
      /\ \A k \in 1..N : w[k] \in Symbol /\ k-1 \in 0..N /\ k \in 0..N
      /\ \A k \in 1..N : \A q : q \in g[k] <=> \E p \in g[k-1] : <<p, w[k], q>> \in T
      /\ w \in Language(A) <=> g[N] \cap F # {}
  BY <1>6 DEF Decides, Layered
<1>9. /\ h[0] = I1
      /\ \A k \in 1..N : \A q : q \in h[k] <=> \E p \in h[k-1] : <<p, w[k], q>> \in T1
      /\ w \in Language(B) <=> h[N] \cap F1 # {}
  BY <1>7 DEF Decides, Layered
<1> HIDE DEF N, m
<1> DEFINE Good == {k \in 0..N : g[k] \subseteq R /\ RanksOf(h[k], g[k], U)}
<1>10. 0 \in Good
  <2>1. 0 \in 0..N
    BY <1>8
  <2>2. g[0] \subseteq R
    BY <1>3, <1>8
  <2>3. RanksOf(h[0], g[0], U)
    BY ONLY <1>4, <1>8, <1>9
  <2> QED BY <2>1, <2>2, <2>3
<1>11. ASSUME NEW k \in 1..N, k-1 \in Good PROVE k \in Good
  <2>1. g[k-1] \subseteq R /\ \A x : x \in h[k-1] <=> \E q \in g[k-1] \cap U : x = Rank(U, q)
    BY <1>11 DEF RanksOf
  <2>2. \A q : q \in g[k] <=> \E p \in g[k-1] : <<p, w[k], q>> \in T
    BY <1>8
  <2>3. g[k] \subseteq R
    BY <1>3, <2>1, <2>2
  <2>4. \A y : y \in h[k] <=> \E x \in h[k-1] : <<x, w[k], y>> \in T1
    BY <1>9
  <2>5. ASSUME NEW y \in h[k] PROVE \E q \in g[k] \cap U : y = Rank(U, q)
    <3>1. PICK x \in h[k-1] : <<x, w[k], y>> \in T1
      BY <2>4
    <3>2. PICK p, q \in U : x = Rank(U, p) /\ y = Rank(U, q) /\ <<p, w[k], q>> \in T
      <4> DEFINE a == w[k]
      <4>1. <<x, a, y>> \in T1
        BY <3>1
      <4> HIDE DEF a
      <4>2. \E p, q \in U : x = Rank(U, p) /\ y = Rank(U, q) /\ <<p, a, q>> \in T
        BY ONLY <1>4, <4>1
      <4> QED BY <4>2 DEF a
    <3>3. PICK r \in g[k-1] \cap U : x = Rank(U, r)
      BY <2>1
    <3>4. r = p
      BY <1>5, <3>2, <3>3
    <3>5. q \in g[k]
      BY <2>2, <3>2, <3>3, <3>4
    <3> QED BY <3>2, <3>5
  <2>6. ASSUME NEW q \in g[k] \cap U PROVE Rank(U, q) \in h[k]
    <3>1. PICK p \in g[k-1] : <<p, w[k], q>> \in T
      BY <2>2
    <3>2. p \in U
      BY <1>3, <2>1, <3>1
    <3>3. Rank(U, p) \in h[k-1]
      BY <2>1, <3>2
    <3>4. <<Rank(U, p), w[k], Rank(U, q)>> \in T1
      BY <1>4, <3>1, <3>2
    <3> QED BY <2>4, <3>3, <3>4
  <2>7. RanksOf(h[k], g[k], U)
    BY <2>5, <2>6 DEF RanksOf
  <2> QED BY <1>8, <2>3, <2>7
<1>12. \A k \in 0..N : k \in Good
  <2>1. Good \in SUBSET (0..N)
    OBVIOUS
  <2> HIDE DEF Good
  <2> QED BY <1>8, <1>10, <1>11, <2>1, UpTo
<1>13. /\ g[N] \subseteq R
       /\ \A x : x \in h[N] <=> \E q \in g[N] \cap U : x = Rank(U, q)
       /\ \A x : x \in F1 <=> \E q \in F \cap U : x = Rank(U, q)
  BY <1>4, <1>8, <1>12 DEF RanksOf
<1>14. ASSUME NEW x \in h[N], x \in F1 PROVE g[N] \cap F # {}
  <2>1. PICK q \in g[N] \cap U : x = Rank(U, q)
    BY <1>13
  <2>2. PICK f \in F \cap U : x = Rank(U, f)
    BY <1>13, <1>14
  <2>3. q = f
    BY <1>5, <2>1, <2>2
  <2> QED BY <2>1, <2>2, <2>3
<1>15. ASSUME NEW q \in g[N], q \in F PROVE h[N] \cap F1 # {}
  <2>1. q \in U
    BY <1>3, <1>13, <1>15
  <2>2. Rank(U, q) \in h[N] /\ Rank(U, q) \in F1
    BY <1>13, <1>15, <2>1
  <2> QED BY <2>2
<1> QED BY <1>8, <1>9, <1>14, <1>15 DEF B

(* Each state of a trimmed automaton is useful, and there are no gaps.     *)
LEMMA TrimNumbering ==
  ASSUME NEW A, IsNfa(A)
  PROVE  get_useful_states(trim(A)) = 0..num_of_states(trim(A))-1
<1> DEFINE n == num_of_states(A)
           T == transitions(A.delta)
           I == A.initial.set
           F == A.final.set
           U == get_useful_states(A)
           B == trim(A)
           m == Cardinality(U)
<1>1. Seen(A, T, I, F, n)
  BY DEF Seen
<1> HIDE DEF n, T, I, F
<1>2. PICK T1, I1, F1, R, K : Seen(B, T1, I1, F1, m) /\ Trimmed(T, I, F, n, T1, I1, F1, U, R, K)
  BY <1>1, TrimmedSeen
<1> HIDE DEF U, B
<1>3. PICK R1, K1 : Useful(R1, K1, T1, I1, F1, m) /\ get_useful_states(B) = R1 \cap K1
  BY <1>2, UsefulAre
<1>4. /\ n \in Nat /\ U = R \cap K /\ U \in SUBSET (0..n-1)
      /\ R \in SUBSET (0..n-1) /\ I \subseteq R /\ K \in SUBSET (0..n-1) /\ F \subseteq K
      /\ \A p, a, q : <<p, a, q>> \in T => (p \in R => q \in R) /\ (q \in K => p \in K)
  BY <1>1, <1>2, SeenBetween DEF Trimmed, Useful, Onward, Back
<1>5. /\ \A X \in SUBSET (0..n-1) : I \subseteq X /\ Onward(X, T) => R \subseteq X
      /\ \A X \in SUBSET (0..n-1) : F \subseteq X /\ Back(X, T) => K \subseteq X
  BY <1>2 DEF Trimmed, Useful
<1>6. /\ \A x, a, y : <<x, a, y>> \in T1
           <=> \E p, q \in U : x = Rank(U, p) /\ y = Rank(U, q) /\ <<p, a, q>> \in T
      /\ \A q \in I \cap U : Rank(U, q) \in I1
      /\ \A q \in F \cap U : Rank(U, q) \in F1
  BY <1>2 DEF Trimmed, KeepsMoves, RanksOf
<1>7. /\ R1 \in SUBSET (0..m-1) /\ I1 \subseteq R1 /\ K1 \in SUBSET (0..m-1) /\ F1 \subseteq K1
      /\ \A p, a, q : <<p, a, q>> \in T1 => (p \in R1 => q \in R1) /\ (q \in K1 => p \in K1)
  BY <1>3 DEF Useful, Onward, Back
<1>8. \A q \in U : Rank(U, q) \in R1
  <2> DEFINE X == {q \in R : q \in U => Rank(U, q) \in R1}
  <2>1. I \subseteq X
    BY <1>4, <1>6, <1>7
  <2>2. Onward(X, T)
    <3> SUFFICES ASSUME NEW p \in X, NEW a, NEW q, <<p, a, q>> \in T PROVE q \in X
      BY DEF Onward
    <3>1. q \in R
      BY <1>4
    <3>2. ASSUME q \in U PROVE Rank(U, q) \in R1
      <4>1. p \in U
        BY <1>4, <3>2
      <4>2. <<Rank(U, p), a, Rank(U, q)>> \in T1 /\ Rank(U, p) \in R1
        BY <1>6, <3>2, <4>1
      <4> QED BY <1>7, <4>2
    <3> QED BY <3>1, <3>2
  <2>3. X \in SUBSET (0..n-1)
    BY <1>4
  <2>4. R \subseteq X
    <3> HIDE DEF X
    <3> QED BY <1>5, <2>1, <2>2, <2>3
  <2> QED BY <1>4, <2>4
<1>9. \A q \in U : Rank(U, q) \in K1
  <2> DEFINE X == {q \in K : q \in U => Rank(U, q) \in K1}
  <2>1. F \subseteq X
    BY <1>4, <1>6, <1>7
  <2>2. Back(X, T)
    <3> SUFFICES ASSUME NEW p, NEW a, NEW q \in X, <<p, a, q>> \in T PROVE p \in X
      BY DEF Back
    <3>1. p \in K
      BY <1>4
    <3>2. ASSUME p \in U PROVE Rank(U, p) \in K1
      <4>1. q \in U
        BY <1>4, <3>2
      <4>2. <<Rank(U, p), a, Rank(U, q)>> \in T1 /\ Rank(U, q) \in K1
        BY <1>6, <3>2, <4>1
      <4> QED BY <1>7, <4>2
    <3> QED BY <3>1, <3>2
  <2>3. X \in SUBSET (0..n-1)
    BY <1>4
  <2>4. K \subseteq X
    <3> HIDE DEF X
    <3> QED BY <1>5, <2>1, <2>2, <2>3
  <2> QED BY <1>4, <2>4
<1>10. \A x \in 0..m-1 : \E q \in U : Rank(U, q) = x
  BY <1>4, RanksOnto
<1>11. num_of_states(B) = m
  BY <1>2 DEF Seen
<1> HIDE DEF m
<1>12. R1 \cap K1 = 0..m-1
  <2>1. R1 \subseteq 0..m-1
    BY <1>7
  <2>2. \A x \in 0..m-1 : x \in R1 /\ x \in K1
    BY <1>8, <1>9, <1>10
  <2> QED BY ONLY <2>1, <2>2
<1> QED BY <1>3, <1>11, <1>12 DEF B

-----------------------------------------------------------------------------
(* The language of a concatenation.                                        *)

\* What A says of the rest of w from place k: K[j] is what the letters between k
\* and j lead to from I.
LayersFrom(K, A, T, I, F, w, k, n) ==
  /\ K[k] = I
  /\ \A j \in k..Len(w) : K[j] \subseteq 0..n-1
  /\ \A j \in k+1..Len(w) : \A q : q \in K[j] <=> \E p \in K[j-1] : <<p, w[j], q>> \in T
  /\ SubSeq(w, k+1, Len(w)) \in Language(A) <=> Meet(K[Len(w)], F)

\* u and v are the two parts into which w is divided at place k.
Divides(u, v, w, k) ==
  /\ u \in Words(Symbol, MaxWord) /\ Len(u) = k /\ \A i \in 1..k : u[i] = w[i]
  /\ v \in Words(Symbol, MaxWord) /\ Len(v) = Len(w) - k
  /\ \A i \in 1..Len(w)-k : v[i] = w[k+i]

(* A word can be divided anywhere.                                         *)
LEMMA Division ==
  ASSUME NEW w \in Words(Symbol, MaxWord), NEW k \in 0..Len(w)
  PROVE  Divides(SubSeq(w, 1, k), SubSeq(w, k+1, Len(w)), w, k)
<1> DEFINE u == SubSeq(w, 1, k)
           v == SubSeq(w, k+1, Len(w))
<1>1. PICK m \in 0..MaxWord : w \in [1..m -> Symbol]
  BY DEF Words
<1>2. m \in Nat /\ MaxWord \in Nat
  BY BoundsAssumption
<1>3. w \in Seq(Symbol) /\ Len(w) = m
  <2>1. w \in Seq(Symbol) /\ DOMAIN w = 1..m
    BY <1>1, <1>2
  <2> QED BY <2>1, <1>2, LenProperties
<1>4. k \in Nat /\ k <= m /\ m-k \in 0..MaxWord /\ k \in 0..MaxWord
  BY <1>1, <1>2, <1>3
<1>5. u \in [1..k -> Symbol] /\ \A i \in 1..k : u[i] = w[i]
  <2>1. u = [i \in 1..k |-> w[i]]
    BY <1>3, <1>4
  <2>2. \A i \in 1..k : w[i] \in Symbol
    BY <1>1, <1>4
  <2> HIDE DEF u
  <2> QED BY <2>1, <2>2
<1>6. v \in [1..m-k -> Symbol] /\ \A i \in 1..m-k : v[i] = w[k+i]
  <2>1. v = [i \in 1..m-k |-> w[k+i]]
    BY <1>3, <1>4
  <2>2. \A i \in 1..m-k : w[k+i] \in Symbol
    BY <1>1, <1>4
  <2> HIDE DEF v
  <2> QED BY <2>1, <2>2
<1> HIDE DEF u, v
<1>7. u \in Words(Symbol, MaxWord) /\ Len(u) = k
  <2>1. u \in Seq(Symbol) /\ DOMAIN u = 1..k
    BY <1>4, <1>5
  <2> QED BY <1>4, <1>5, <2>1, LenProperties DEF Words
<1>8. v \in Words(Symbol, MaxWord) /\ Len(v) = m-k
  <2> DEFINE l == m-k
  <2>1. l \in Nat /\ v \in [1..l -> Symbol] /\ l \in 0..MaxWord
    BY <1>4, <1>6
  <2> HIDE DEF l
  <2>2. v \in Seq(Symbol) /\ DOMAIN v = 1..l
    BY <2>1
  <2>3. v \in Words(Symbol, MaxWord) /\ Len(v) = l
    BY <2>1, <2>2, LenProperties DEF Words
  <2> QED BY <2>3 DEF l
<1>9. Divides(u, v, w, k)
  BY <1>3, <1>5, <1>6, <1>7, <1>8 DEF Divides
<1> QED BY <1>9 DEF u, v

(* The layers of a word are those of its beginnings.                       *)
LEMMA PrefixLayers ==
  ASSUME NEW A, NEW T, NEW I, NEW F, NEW n, Seen(A, T, I, F, n),
         NEW w \in Words(Symbol, MaxWord), NEW g, Decides(g, A, T, I, F, w, n),
         NEW k \in 0..Len(w)
  PROVE  SubSeq(w, 1, k) \in Language(A) <=> Meet(g[k], F)
<1> DEFINE u == SubSeq(w, 1, k)
<1>1. u \in Words(Symbol, MaxWord) /\ Len(u) = k /\ \A i \in 1..k : u[i] = w[i]
  BY Division DEF Divides
<1> HIDE DEF u
<1>2. PICK h : Decides(h, A, T, I, F, u, n)
  BY <1>1, LanguageLayers
<1>3. /\ Len(w) \in Nat /\ g[0] = I
      /\ \A j \in 1..Len(w) : \A q : q \in g[j] <=> \E p \in g[j-1] : <<p, w[j], q>> \in T
  BY DEF Decides, Layered
<1>4. /\ h[0] = I
      /\ \A j \in 1..k : \A q : q \in h[j] <=> \E p \in h[j-1] : <<p, u[j], q>> \in T
      /\ u \in Language(A) <=> h[k] \cap F # {}
  BY <1>1, <1>2 DEF Decides, Layered
<1>5. k \in Nat /\ \A j \in 1..k : j \in 1..Len(w)
  BY <1>3
<1> DEFINE Good == {j \in 0..k : \A q : q \in g[j] <=> q \in h[j]}
<1>6. 0 \in Good
  BY <1>3, <1>4, <1>5
<1>7. ASSUME NEW j \in 1..k, j-1 \in Good PROVE j \in Good
  <2>1. /\ \A q : q \in g[j] <=> \E p \in g[j-1] : <<p, w[j], q>> \in T
        /\ \A q : q \in h[j] <=> \E p \in h[j-1] : <<p, w[j], q>> \in T
    BY <1>1, <1>3, <1>4, <1>5
  <2>2. \A p : p \in g[j-1] <=> p \in h[j-1]
    BY <1>7
  <2>3. \A q : q \in g[j] <=> q \in h[j]
    BY <2>1, <2>2
  <2> QED BY <1>5, <2>3
<1>8. k \in Good
  <2>1. Good \in SUBSET (0..k) /\ k \in 0..k
    BY <1>5
  <2> HIDE DEF Good
  <2> QED BY <1>5, <1>6, <1>7, <2>1, UpTo
<1>9. g[k] \cap F # {} <=> h[k] \cap F # {}
  BY <1>8
<1> QED BY <1>4, <1>9 DEF Meet, u

(* The layers of the rest of a word.                                       *)
LEMMA SuffixLayers ==
  ASSUME NEW A, NEW T, NEW I, NEW F, NEW n, Seen(A, T, I, F, n),
         NEW w \in Words(Symbol, MaxWord), NEW k \in 0..Len(w)
  PROVE  \E K : LayersFrom(K, A, T, I, F, w, k, n)
<1> DEFINE v == SubSeq(w, k+1, Len(w))
           N == Len(w)
<1>1. /\ v \in Words(Symbol, MaxWord) /\ Len(v) = N - k
      /\ \A i \in 1..N-k : v[i] = w[k+i]
  BY Division DEF Divides
<1>2. N \in Nat /\ k \in 0..N
  <2>1. Symbol \in SUBSET Symbol
    OBVIOUS
  <2> QED BY <2>1, Letters
<1> HIDE DEF v
<1>3. PICK h : Decides(h, A, T, I, F, v, n)
  BY <1>1, LanguageLayers
<1>4. /\ h[0] = I
      /\ \A j \in 0..N-k : h[j] \subseteq 0..n-1
      /\ \A j \in 1..N-k : \A q : q \in h[j] <=> \E p \in h[j-1] : <<p, v[j], q>> \in T
      /\ v \in Language(A) <=> h[N-k] \cap F # {}
  BY <1>1, <1>3 DEF Decides, Layered
<1> DEFINE K == [j \in k..N |-> h[j-k]]
<1> HIDE DEF N
<1>5. K[k] = I /\ K[N] = h[N-k]
  <2>1. k \in k..N /\ N \in k..N /\ k-k = 0
    BY <1>2
  <2> QED BY <1>4, <2>1
<1>6. \A j \in k..N : K[j] \subseteq 0..n-1
  <2>1. \A j \in k..N : j-k \in 0..N-k
    BY <1>2
  <2> QED BY <1>4, <2>1
<1>7. ASSUME NEW j \in k+1..N
      PROVE  \A q : q \in K[j] <=> \E p \in K[j-1] : <<p, w[j], q>> \in T
  <2> DEFINE i == j-k
  <2>1. i \in 1..N-k /\ k+i = j /\ j \in k..N /\ j-1 \in k..N /\ i-1 = (j-1)-k
    BY <1>2
  <2>2. K[j] = h[i] /\ K[j-1] = h[i-1] /\ v[i] = w[j]
    BY <1>1, <2>1
  <2> HIDE DEF i, K
  <2>3. \A q : q \in h[i] <=> \E p \in h[i-1] : <<p, v[i], q>> \in T
    BY <1>4, <2>1
  <2> QED BY <2>2, <2>3
<1>8. v \in Language(A) <=> Meet(K[N], F)
  BY <1>4, <1>5 DEF Meet
<1> HIDE DEF K
<1>9. LayersFrom(K, A, T, I, F, w, k, n)
  BY <1>5, <1>6, <1>7, <1>8 DEF LayersFrom, N, v
<1> QED BY <1>9

\* Those states of the second automaton that a word divided before place j can
\* have led to: the first part is accepted, and the second one leads there.
Beyond(P, g, F, K, m, j) ==
  P = {x \in 0..m-1 : \E k \in 0..j-1 : Meet(g[k], F) /\ x \in K[k][j]}

\* A move on a of a concatenation: within the first automaton, within the second
\* one, or from a final state of the first to where the second begins.
JoinedMoves(T, T1, T2, F, I, n, m, a) ==
  /\ \A p \in 0..n-1 : \A q :
       <<p, a, q>> \in T
         <=> (<<p, a, q>> \in T1
              \/ (p \in F /\ \E i \in I : \E y \in 0..m-1 : <<i, a, y>> \in T2 /\ q = y + n))
  /\ \A x \in 0..m-1 : \A q :
       <<x + n, a, q>> \in T <=> \E y \in 0..m-1 : <<x, a, y>> \in T2 /\ q = y + n

\* A bridge that leads from p to q on a.
IsBridge(p, a, q, T, F, I, n, m) ==
  p \in F /\ \E i \in I : \E y \in 0..m-1 : <<i, a, y>> \in T /\ q = y + n

(* The bridges, move by move.                                              *)
LEMMA BridgeMoves ==
  ASSUME NEW n \in Nat, NEW m \in Nat, NEW T, Between(T, m), NEW F, NEW I,
         NEW p, NEW a, NEW q
  PROVE  (<<p, a, q>> \in Bridges(F, Starting(T, I), n)) <=> IsBridge(p, a, q, T, F, I, n, m)
<1>1. ASSUME <<p, a, q>> \in Bridges(F, Starting(T, I), n)
      PROVE  p \in F /\ \E i \in I : \E y \in 0..m-1 : <<i, a, y>> \in T /\ q = y + n
  <2>1. PICK r \in F, t \in Starting(T, I) : <<p, a, q>> = <<r, t[2], t[3] + n>>
    BY <1>1 DEF Bridges
  <2>2. t \in T /\ t[1] \in I /\ t = <<t[1], t[2], t[3]>> /\ t[3] \in 0..m-1
    BY DEF Starting, Between
  <2>3. p = r /\ a = t[2] /\ q = t[3] + n
    BY <2>1
  <2>4. <<t[1], a, t[3]>> \in T
    BY <2>2, <2>3
  <2> QED BY <2>2, <2>3, <2>4
<1>2. ASSUME p \in F, NEW i \in I, NEW y \in 0..m-1, <<i, a, y>> \in T, q = y + n
      PROVE  <<p, a, q>> \in Bridges(F, Starting(T, I), n)
  <2> DEFINE t == <<i, a, y>>
  <2>1. t \in Starting(T, I)
    BY <1>2 DEF Starting
  <2>2. <<p, a, q>> = <<p, t[2], t[3] + n>>
    BY <1>2
  <2> HIDE DEF t
  <2> QED BY <1>2, <2>1, <2>2 DEF Bridges
<1> QED BY <1>1, <1>2 DEF IsBridge

(* The moves of a concatenation.                                           *)
LEMMA ConcatenatedMoves ==
  ASSUME NEW n \in Nat, NEW m \in Nat, NEW T1, Between(T1, n), NEW T2, Between(T2, m),
         NEW F \in SUBSET (0..n-1), NEW I \in SUBSET (0..m-1), NEW a,
         NEW T, T = T1 \cup Shifted(T2, n) \cup Bridges(F, Starting(T2, I), n)
  PROVE  JoinedMoves(T, T1, T2, F, I, n, m, a)
<1>1. MovesFurther(T2, m, n)
  BY ShiftedMoves
<1>2. \A p, q : <<p, a, q>> \in Shifted(T2, n)
                  <=> \E x, y \in 0..m-1 : p = x+n /\ q = y+n /\ <<x, a, y>> \in T2
  BY <1>1 DEF MovesFurther
<1> DEFINE b == Bridges(F, Starting(T2, I), n)
           Bridge(p, q) == IsBridge(p, a, q, T2, F, I, n, m)
<1>3. ASSUME NEW p, NEW q PROVE (<<p, a, q>> \in b) <=> Bridge(p, q)
  BY BridgeMoves
<1> HIDE DEF b
<1>4. \A p, q : <<p, a, q>> \in T
                  <=> (<<p, a, q>> \in T1 \/ <<p, a, q>> \in Shifted(T2, n) \/ <<p, a, q>> \in b)
  BY DEF b
<1>5. \A p, q : <<p, a, q>> \in T1 => p \in 0..n-1
  BY DEF Between
<1>6. ASSUME NEW p \in 0..n-1, NEW q
      PROVE  <<p, a, q>> \in T <=> (<<p, a, q>> \in T1 \/ Bridge(p, q))
  <2>1. \A x \in 0..m-1 : p # x + n
    OBVIOUS
  <2>2. <<p, a, q>> \notin Shifted(T2, n)
    BY <1>2, <2>1
  <2> HIDE DEF Bridge
  <2> QED BY <1>3, <1>4, <2>2
<1>7. ASSUME NEW x \in 0..m-1, NEW q
      PROVE  <<x + n, a, q>> \in T <=> \E y \in 0..m-1 : <<x, a, y>> \in T2 /\ q = y + n
  <2> DEFINE p == x + n
  <2>1. p \notin 0..n-1
    OBVIOUS
  <2>2. <<p, a, q>> \notin T1 /\ <<p, a, q>> \notin b
    <3>1. ~ Bridge(p, q)
      BY <2>1 DEF IsBridge
    <3> HIDE DEF p, Bridge
    <3> QED BY <1>3, <1>5, <2>1, <3>1
  <2>3. \A z \in 0..m-1 : p = z + n <=> z = x
    OBVIOUS
  <2> HIDE DEF p
  <2>4. <<p, a, q>> \in T <=> <<p, a, q>> \in Shifted(T2, n)
    BY <1>4, <2>2
  <2>5. <<p, a, q>> \in Shifted(T2, n) <=> \E y \in 0..m-1 : <<x, a, y>> \in T2 /\ q = y + n
    <3>1. ASSUME <<p, a, q>> \in Shifted(T2, n)
          PROVE  \E y \in 0..m-1 : <<x, a, y>> \in T2 /\ q = y + n
      <4>1. \E z, y \in 0..m-1 : p = z+n /\ q = y+n /\ <<z, a, y>> \in T2
        BY <1>2, <3>1
      <4> QED BY <2>3, <4>1
    <3>2. ASSUME NEW y \in 0..m-1, <<x, a, y>> \in T2, q = y + n
          PROVE  <<p, a, q>> \in Shifted(T2, n)
      <4>1. \E z, r \in 0..m-1 : p = z+n /\ q = r+n /\ <<z, a, r>> \in T2
        BY <2>3, <3>2
      <4> QED BY <1>2, <4>1
    <3> QED BY <3>1, <3>2
  <2>6. <<p, a, q>> \in T <=> \E y \in 0..m-1 : <<x, a, y>> \in T2 /\ q = y + n
    BY <2>4, <2>5
  <2> QED BY <2>6 DEF p
<1> QED BY <1>6, <1>7 DEF JoinedMoves, IsBridge

\* R is what S leads to on a.
LeadsTo(R, S, T, a) == \A q : q \in R <=> \E p \in S : <<p, a, q>> \in T

\* R is what P leads to on a, and I also if the first part may end in S.
Crosses(R, P, S, F, I, T, a) ==
  \A y : y \in R <=> ( \/ (Meet(S, F) /\ \E i \in I : <<i, a, y>> \in T)
                      \/ \E x \in P : <<x, a, y>> \in T )

\* The layers of all the ends of w.
Rests(K, T, I, w, m, N) ==
  /\ \A k \in 0..N : K[k][k] = I
  /\ \A k \in 0..N : \A i \in k+1..N : LeadsTo(K[k][i], K[k][i-1], T, w[i])
  /\ \A k \in 0..N : \A i \in k..N : K[k][i] \subseteq 0..m-1

(* What has crossed before place j stays in the second automaton, or       *)
(* crosses at this place.                                                  *)
LEMMA BeyondStep ==
  ASSUME NEW N \in Nat, NEW m \in Nat, NEW T2, NEW I, NEW F, NEW g, NEW K, NEW w, NEW j \in 1..N,
         Rests(K, T2, I, w, m, N),
         NEW P, Beyond(P, g, F, K, m, j-1), NEW R, Beyond(R, g, F, K, m, j)
  PROVE  Crosses(R, P, g[j-1], F, I, T2, w[j])
<1> USE DEF Rests, LeadsTo
<1>1. /\ j-1 \in 0..N /\ j \in (j-1)+1..N /\ j-1 \in 0..j-1
      /\ \A k \in 0..(j-1)-1 : /\ k \in 0..N /\ k \in 0..j-1 /\ j \in k+1..N /\ j-1 \in k..N
      /\ \A k \in 0..j-1 : k = j-1 \/ k \in 0..(j-1)-1
      /\ \A k \in 0..j-1 : k \in 0..N /\ j \in k..N
  OBVIOUS
<1> DEFINE a == w[j]
           i0 == j-1
<1>2. \A y : y \in K[i0][j] <=> \E i \in I : <<i, a, y>> \in T2
  <2>1. \A y : y \in K[i0][j] <=> \E x \in K[i0][j-1] : <<x, w[j], y>> \in T2
    BY <1>1
  <2>2. K[i0][j-1] = I
    BY <1>1
  <2> QED BY <2>1, <2>2
<1>3. \A k \in 0..i0-1 : \A y : y \in K[k][j] <=> \E x \in K[k][i0] : <<x, a, y>> \in T2
  BY <1>1
<1>4. \A y : y \in R <=> y \in 0..m-1 /\ \E k \in 0..j-1 : Meet(g[k], F) /\ y \in K[k][j]
  BY DEF Beyond
<1>5. \A x : x \in P <=> x \in 0..m-1 /\ \E k \in 0..i0-1 : Meet(g[k], F) /\ x \in K[k][i0]
  BY DEF Beyond
<1>6. /\ \A k \in 0..j-1 : \A y \in K[k][j] : y \in 0..m-1
      /\ \A k \in 0..i0-1 : \A x \in K[k][i0] : x \in 0..m-1
  BY <1>1
<1>8. /\ i0 \in 0..j-1
      /\ \A k \in 0..i0-1 : k \in 0..j-1
      /\ \A k \in 0..j-1 : k = i0 \/ k \in 0..i0-1
  BY <1>1
<1> HIDE DEF a, i0
<1>7. ASSUME NEW y
      PROVE  y \in R <=> \/ Meet(g[i0], F) /\ \E i \in I : <<i, a, y>> \in T2
                         \/ \E x \in P : <<x, a, y>> \in T2
  <2>1. ASSUME y \in R PROVE \/ Meet(g[i0], F) /\ \E i \in I : <<i, a, y>> \in T2
                             \/ \E x \in P : <<x, a, y>> \in T2
    <3>1. PICK k \in 0..j-1 : Meet(g[k], F) /\ y \in K[k][j]
      BY <1>4, <2>1
    <3>2. CASE k = i0
      BY <1>2, <3>1, <3>2
    <3>3. CASE k \in 0..i0-1
      <4>1. PICK x \in K[k][i0] : <<x, a, y>> \in T2
        BY <1>3, <3>1, <3>3
      <4>2. x \in P
        BY <1>5, <1>6, <3>1, <3>3
      <4> QED BY <4>1, <4>2
    <3> QED BY <1>8, <3>2, <3>3
  <2>2. ASSUME Meet(g[i0], F), NEW i \in I, <<i, a, y>> \in T2 PROVE y \in R
    <3>1. y \in K[i0][j]
      BY <1>2, <2>2
    <3> QED BY <1>4, <1>6, <1>8, <2>2, <3>1
  <2>3. ASSUME NEW x \in P, <<x, a, y>> \in T2 PROVE y \in R
    <3>1. PICK k \in 0..i0-1 : Meet(g[k], F) /\ x \in K[k][i0]
      BY <1>5
    <3>2. y \in K[k][j]
      BY <1>3, <2>3, <3>1
    <3> QED BY <1>4, <1>6, <1>8, <3>1, <3>2
  <2> QED BY <2>1, <2>2, <2>3
<1> QED BY <1>7 DEF a, i0, Crosses

(* A step of a concatenation from sets side by side leads to sets side by  *)
(* side.                                                                   *)
LEMMA JoinedStep ==
  ASSUME NEW n \in Nat, NEW m \in Nat, NEW T, NEW T1, NEW T2, NEW F, NEW I, NEW a,
         JoinedMoves(T, T1, T2, F, I, n, m, a), Between(T2, m), I \in SUBSET (0..m-1),
         NEW S, NEW S1 \in SUBSET (0..n-1), NEW S2 \in SUBSET (0..m-1), SideBySide(S, S1, S2, n),
         NEW R, LeadsTo(R, S, T, a), NEW R1, LeadsTo(R1, S1, T1, a),
         NEW R2, Crosses(R2, S2, S1, F, I, T2, a)
  PROVE  SideBySide(R, R1, R2, n)
<1> USE DEF LeadsTo, Crosses
<1>1. \A p, q : <<p, a, q>> \in T2 => q \in 0..m-1
  BY DEF Between
<1>2. ASSUME NEW q \in R PROVE q \in R1 \/ \E y \in R2 : q = y + n
  <2>1. PICK p \in S : <<p, a, q>> \in T
    OBVIOUS
  <2>2. CASE p \in S1
    <3>1. <<p, a, q>> \in T1
            \/ (p \in F /\ \E i \in I : \E y \in 0..m-1 : <<i, a, y>> \in T2 /\ q = y + n)
      BY <2>1, <2>2 DEF JoinedMoves
    <3>2. p \in F => Meet(S1, F)
      BY <2>2 DEF Meet
    <3> QED BY <2>2, <3>1, <3>2
  <2>3. CASE \E x \in S2 : p = x + n
    <3>1. PICK x \in S2 : p = x + n
      BY <2>3
    <3>2. <<x + n, a, q>> \in T
      BY <2>1, <3>1
    <3>3. PICK y \in 0..m-1 : <<x, a, y>> \in T2 /\ q = y + n
      BY <3>2 DEF JoinedMoves
    <3>4. y \in R2
      BY <3>3
    <3> QED BY <3>3, <3>4
  <2> QED BY <2>2, <2>3 DEF SideBySide
<1>3. ASSUME NEW q \in R1 PROVE q \in R
  <2>1. PICK p \in S1 : <<p, a, q>> \in T1
    OBVIOUS
  <2>2. p \in S /\ <<p, a, q>> \in T
    BY <2>1 DEF SideBySide, JoinedMoves
  <2> QED BY <2>2
<1>4. ASSUME NEW y \in R2 PROVE y + n \in R
  <2>1. CASE Meet(S1, F) /\ \E i \in I : <<i, a, y>> \in T2
    <3>1. PICK i \in I : <<i, a, y>> \in T2
      BY <2>1
    <3>2. PICK p \in S1 : p \in F
      BY <2>1 DEF Meet
    <3> DEFINE q == y + n
    <3>3. y \in 0..m-1 /\ q = y + n
      BY <1>1, <3>1
    <3> HIDE DEF q
    <3>4. p \in S /\ <<p, a, q>> \in T
      BY <3>1, <3>2, <3>3 DEF SideBySide, JoinedMoves
    <3>5. q \in R
      BY <3>4
    <3> QED BY <3>3, <3>5
  <2>2. CASE \E x \in S2 : <<x, a, y>> \in T2
    <3>1. PICK x \in S2 : <<x, a, y>> \in T2
      BY <2>2
    <3> DEFINE q == y + n
               p == x + n
    <3>2. y \in 0..m-1 /\ q = y + n
      BY <1>1, <3>1
    <3>3. p \in S
      BY DEF SideBySide
    <3> HIDE DEF q
    <3>4. <<p, a, q>> \in T
      BY <3>1, <3>2 DEF JoinedMoves
    <3> HIDE DEF p
    <3>5. q \in R
      BY <3>3, <3>4
    <3> QED BY <3>2, <3>5
  <2> QED BY <2>1, <2>2
<1> QED BY <1>2, <1>3, <1>4 DEF SideBySide

\* A word is divided into one that is accepted and one that leads on into F2.
Divided(g, K, F1, F2, N) == \E k \in 0..N : Meet(g[k], F1) /\ Meet(K[k][N], F2)

(* concatenate() accepts what can be divided into words of the two         *)
(* automata: its layers are those of the first one beside what the second  *)
(* one makes of all the rests of the word that may have begun.             *)
LEMMA ConcatenateLanguage ==
  ASSUME NEW A, IsNfa(A), NEW B, IsNfa(B), NEW w \in Words(Symbol, MaxWord)
  PROVE  w \in Language(concatenate(A, B))
           <=> \E k \in 0..Len(w) : /\ SubSeq(w, 1, k) \in Language(A)
                                    /\ SubSeq(w, k+1, Len(w)) \in Language(B)
<1> DEFINE n == num_of_states(A)
           m == num_of_states(B)
           T1 == transitions(A.delta)
           T2 == transitions(B.delta)
           I1 == A.initial.set
           I2 == B.initial.set
           F1 == A.final.set
           F2 == B.final.set
           C == concatenate(A, B)
           T == T1 \cup Shifted(T2, n) \cup Bridges(F1, Starting(T2, I2), n)
           F == Ending(F1, I2, F2, n)
           N == Len(w)
<1>1. Seen(A, T1, I1, F1, n) /\ Seen(B, T2, I2, F2, m)
  BY DEF Seen
<1>2. Seen(C, T, I1, F, n + m)
  BY ConcatenateSeen
<1> HIDE DEF n, m, T1, T2, I1, I2, F1, F2, C, F
<1>3. n \in Nat /\ F1 \in SUBSET (0..n-1) /\ I1 \in SUBSET (0..n-1) /\ Between(T1, n)
  BY <1>1, SeenBetween
<1>4. m \in Nat /\ F2 \in SUBSET (0..m-1) /\ I2 \in SUBSET (0..m-1) /\ Between(T2, m)
  BY <1>1, SeenBetween
<1>5. ASSUME NEW a PROVE JoinedMoves(T, T1, T2, F1, I2, n, m, a)
  <2> HIDE DEF T
  <2>1. T = T1 \cup Shifted(T2, n) \cup Bridges(F1, Starting(T2, I2), n)
    BY DEF T
  <2> QED BY ONLY <1>3, <1>4, <2>1, ConcatenatedMoves
<1> HIDE DEF T
<1>6. PICK g : Decides(g, A, T1, I1, F1, w, n)
  BY <1>1, LanguageLayers
<1>7. PICK c : Decides(c, C, T, I1, F, w, n + m)
  BY <1>2, LanguageLayers
<1>8. /\ N \in Nat /\ g[0] = I1
      /\ \A k \in 0..N : g[k] \subseteq 0..n-1
      /\ \A k \in 1..N : k-1 \in 0..N /\ k \in 0..N
      /\ \A k \in 1..N : LeadsTo(g[k], g[k-1], T1, w[k])
  BY <1>6 DEF Decides, Layered, LeadsTo
<1>9. /\ c[0] = I1
      /\ \A k \in 1..N : LeadsTo(c[k], c[k-1], T, w[k])
      /\ w \in Language(C) <=> Meet(c[N], F)
  BY <1>7 DEF Decides, Layered, LeadsTo, Meet
<1> DEFINE K == [k \in 0..N |-> CHOOSE f : LayersFrom(f, B, T2, I2, F2, w, k, m)]
<1>10. ASSUME NEW k \in 0..N PROVE LayersFrom(K[k], B, T2, I2, F2, w, k, m)
  <2>1. \E f : LayersFrom(f, B, T2, I2, F2, w, k, m)
    BY <1>1, SuffixLayers
  <2>2. K[k] = CHOOSE f : LayersFrom(f, B, T2, I2, F2, w, k, m)
    OBVIOUS
  <2> HIDE DEF K
  <2> QED BY <2>1, <2>2
<1> HIDE DEF K
<1>11. Rests(K, T2, I2, w, m, N)
  BY <1>10 DEF LayersFrom, Rests, LeadsTo
<1>12. /\ \A k \in 0..N : SubSeq(w, 1, k) \in Language(A) <=> Meet(g[k], F1)
       /\ \A k \in 0..N : SubSeq(w, k+1, N) \in Language(B) <=> Meet(K[k][N], F2)
  <2>1. ASSUME NEW k \in 0..N PROVE SubSeq(w, 1, k) \in Language(A) <=> Meet(g[k], F1)
    BY <1>1, <1>6, PrefixLayers
  <2>2. ASSUME NEW k \in 0..N PROVE SubSeq(w, k+1, N) \in Language(B) <=> Meet(K[k][N], F2)
    BY <1>10 DEF LayersFrom
  <2> QED BY <2>1, <2>2
<1> DEFINE P == [j \in 0..N |-> {x \in 0..m-1 : \E k \in 0..j-1 : Meet(g[k], F1) /\ x \in K[k][j]}]
<1>13. \A j \in 0..N : Beyond(P[j], g, F1, K, m, j) /\ P[j] \in SUBSET (0..m-1)
  BY DEF Beyond
<1> HIDE DEF N, P
<1> DEFINE Good == {j \in 0..N : SideBySide(c[j], g[j], P[j], n)}
<1>14. 0 \in Good
  <2>1. 0 \in 0..N
    BY <1>8
  <2>2. P[0] = {}
    <3>1. \A k : k \notin 0..0-1
      OBVIOUS
    <3> QED BY <1>13, <2>1, <3>1 DEF Beyond
  <2>3. SideBySide(c[0], g[0], P[0], n)
    BY <1>8, <1>9, <2>2 DEF SideBySide
  <2> QED BY <2>1, <2>3
<1>15. ASSUME NEW j \in 1..N, j-1 \in Good PROVE j \in Good
  <2> DEFINE a == w[j]
             S == c[j-1]
             S1 == g[j-1]
             S2 == P[j-1]
             R == c[j]
             R1 == g[j]
             R2 == P[j]
  <2>1. j-1 \in 0..N /\ j \in 0..N
    BY <1>8
  <2>2. /\ N \in Nat /\ m \in Nat /\ j \in 1..N /\ Rests(K, T2, I2, w, m, N)
        /\ Beyond(S2, g, F1, K, m, j-1) /\ Beyond(R2, g, F1, K, m, j)
    BY <1>4, <1>8, <1>11, <1>13, <2>1
  <2> HIDE DEF S2, R2
  <2>3. Crosses(R2, S2, g[j-1], F1, I2, T2, w[j])
    BY ONLY <2>2, BeyondStep
  <2>4. /\ n \in Nat /\ m \in Nat /\ Between(T2, m) /\ I2 \in SUBSET (0..m-1)
        /\ JoinedMoves(T, T1, T2, F1, I2, n, m, a)
        /\ S1 \in SUBSET (0..n-1) /\ S2 \in SUBSET (0..m-1) /\ SideBySide(S, S1, S2, n)
        /\ LeadsTo(R, S, T, a) /\ LeadsTo(R1, S1, T1, a) /\ Crosses(R2, S2, S1, F1, I2, T2, a)
    BY <1>3, <1>4, <1>5, <1>8, <1>9, <1>13, <1>15, <2>1, <2>3 DEF S2
  <2> HIDE DEF a, S, S1, R, R1
  <2>5. SideBySide(R, R1, R2, n)
    BY ONLY <2>4, JoinedStep
  <2> QED BY <2>1, <2>5 DEF R, R1, R2
<1>16. SideBySide(c[N], g[N], P[N], n)
  <2>1. Good \in SUBSET (0..N) /\ N \in 0..N
    BY <1>8
  <2>2. \A k \in 0..N : k \in Good
    <3> HIDE DEF Good
    <3> QED BY <1>8, <1>14, <1>15, <2>1, UpTo
  <2> QED BY <2>1, <2>2
<1>17. Meet(c[N], F) <=> Divided(g, K, F1, F2, N)
  <2> DEFINE E == IF I2 \cap F2 = {} THEN {} ELSE F1
             S == c[N]
             S1 == g[N]
             S2 == P[N]
  <2>1. SideBySide(F, E, F2, n)
    BY DEF F, Ending, Moved, SideBySide
  <2>2. /\ n \in Nat /\ m \in Nat
        /\ StatesOf(S1, n) /\ StatesOf(S2, m) /\ SideBySide(S, S1, S2, n)
        /\ StatesOf(E, n) /\ StatesOf(F2, m) /\ SideBySide(F, E, F2, n)
    <3>1. N \in 0..N
      BY <1>8
    <3> QED BY <1>3, <1>4, <1>8, <1>13, <1>16, <2>1, <3>1 DEF StatesOf
  <2>3. Meet(S1, E) <=> Meet(g[N], F1) /\ Meet(I2, F2)
    BY DEF Meet
  <2> HIDE DEF E, S, S1, S2
  <2>4. Meet(S, F) <=> Meet(S1, E) \/ Meet(S2, F2)
    BY ONLY <2>2, SidesMeet
  <2>5. N \in 0..N /\ K[N][N] = I2 /\ \A k \in 0..N : k = N \/ k \in 0..N-1
    BY <1>8, <1>11 DEF Rests
  <2>6. \A k \in 0..N-1 : k \in 0..N
    BY <1>8
  <2>7. Meet(S2, F2) <=> \E k \in 0..N-1 : Meet(g[k], F1) /\ Meet(K[k][N], F2)
    <3>1. \A x : x \in S2 <=> x \in 0..m-1 /\ \E k \in 0..N-1 : Meet(g[k], F1) /\ x \in K[k][N]
      BY <1>13, <2>5 DEF Beyond, S2
    <3> QED BY <1>4, <3>1 DEF Meet
  <2>8. Divided(g, K, F1, F2, N)
          <=> ( \/ (Meet(g[N], F1) /\ Meet(I2, F2))
                \/ \E k \in 0..N-1 : Meet(g[k], F1) /\ Meet(K[k][N], F2) )
    BY <2>5, <2>6 DEF Divided
  <2> QED BY <2>3, <2>4, <2>7, <2>8 DEF S
<1>18. Divided(g, K, F1, F2, N)
         <=> \E k \in 0..N : SubSeq(w, 1, k) \in Language(A) /\ SubSeq(w, k+1, N) \in Language(B)
  BY <1>12 DEF Divided
<1> QED BY <1>9, <1>17, <1>18 DEF C, N

(* The property says so of the languages.                                  *)
LEMMA ConcatenationRight ==
  ASSUME NEW A, IsNfa(A), NEW B, IsNfa(B)
  PROVE  Language(concatenate(A, B)) = Concatenation(Language(A), Language(B))
<1>1. \A w \in Words(Symbol, MaxWord) :
        w \in Language(concatenate(A, B))
          <=> \E k \in 0..Len(w) : /\ SubSeq(w, 1, k) \in Language(A)
                                   /\ SubSeq(w, k+1, Len(w)) \in Language(B)
  BY ConcatenateLanguage
<1>2. Language(concatenate(A, B)) \subseteq Words(Symbol, MaxWord)
  BY DEF Language
<1> QED BY <1>1, <1>2 DEF Concatenation

(* Allocating its posts leaves the language of an automaton.               *)
LEMMA AllocatedLanguage ==
  ASSUME NEW A, IsNfa(A)
  PROVE  Language([A EXCEPT !.delta = allocate(@, num_of_states(A))]) = Language(A)
<1> DEFINE B == [A EXCEPT !.delta = allocate(@, num_of_states(A))]
           n == num_of_states(A)
           T == transitions(A.delta)
           I == A.initial.set
           F == A.final.set
<1>1. Seen(A, T, I, F, n)
  BY DEF Seen
<1>2. Seen(B, T, I, F, n)
  BY AllocatedSeen
<1> HIDE DEF B, n, T, I, F
<1>3. ASSUME NEW w \in Words(Symbol, MaxWord) PROVE w \in Language(B) <=> w \in Language(A)
  <2>1. PICK g : Decides(g, A, T, I, F, w, n)
    BY <1>1, LanguageLayers
  <2>2. PICK h : Decides(h, B, T, I, F, w, n)
    BY <1>2, LanguageLayers
  <2> DEFINE N == Len(w)
             Good == {k \in 0..N : \A q : q \in g[k] <=> q \in h[k]}
  <2>3. /\ N \in Nat /\ g[0] = I /\ h[0] = I
        /\ \A k \in 1..N : k \in 0..N
        /\ \A k \in 1..N : \A q : q \in g[k] <=> \E p \in g[k-1] : <<p, w[k], q>> \in T
        /\ \A k \in 1..N : \A q : q \in h[k] <=> \E p \in h[k-1] : <<p, w[k], q>> \in T
        /\ w \in Language(A) <=> g[N] \cap F # {}
        /\ w \in Language(B) <=> h[N] \cap F # {}
    BY <2>1, <2>2 DEF Decides, Layered
  <2> HIDE DEF N
  <2>4. 0 \in Good
    BY <2>3
  <2>5. ASSUME NEW k \in 1..N, k-1 \in Good PROVE k \in Good
    <3>1. \A p : p \in g[k-1] <=> p \in h[k-1]
      BY <2>5
    <3> QED BY <2>3, <3>1
  <2>6. N \in Good
    <3>1. Good \in SUBSET (0..N) /\ N \in 0..N
      BY <2>3
    <3> HIDE DEF Good
    <3> QED BY <2>3, <2>4, <2>5, <3>1, UpTo
  <2> QED BY <2>3, <2>6
<1>4. Language(B) = Language(A)
  BY <1>3, SameWords
<1> QED BY <1>4 DEF B

-----------------------------------------------------------------------------
(* The language of a complement.                                           *)

\* From some state, or from the sink itself, complement_deterministic() can
\* get to the sink.
Sinking(T, m, symbols, n) == Lacking(T, m, symbols) # {} \/ m = n+1

\* Completion moves from p to the sink on a: there was nothing on a, or p is
\* the sink itself, numbered past the other states.
ToSink(p, a, T, m, symbols, n) ==
  \/ <<p, a>> \in Lacking(T, m, symbols)
  \/ Lacking(T, m, symbols) # {} /\ n >= m /\ p = n /\ a \in symbols

(* What completion adds, move by move.                                     *)
LEMMA CompletionMoves ==
  ASSUME NEW T, NEW m, NEW symbols, NEW n, NEW p, NEW a, NEW q
  PROVE  (<<p, a, q>> \in Completion(T, m, symbols, n))
           <=> (q = n /\ ToSink(p, a, T, m, symbols, n))
<1> DEFINE L == Lacking(T, m, symbols)
<1>1. <<p, a, q>> \in IntoSink(L, n) <=> q = n /\ <<p, a>> \in L
  <2>1. \A l \in L : l = <<l[1], l[2]>>
    BY DEF Lacking
  <2>2. ASSUME <<p, a, q>> \in IntoSink(L, n) PROVE q = n /\ <<p, a>> \in L
    <3> HIDE DEF L
    <3>1. PICK l \in L : <<p, a, q>> = <<l[1], l[2], n>>
      BY <2>2 DEF IntoSink
    <3> QED BY <2>1, <3>1
  <2>3. ASSUME q = n, <<p, a>> \in L PROVE <<p, a, q>> \in IntoSink(L, n)
    <3> DEFINE l == <<p, a>>
    <3>1. l \in L /\ <<p, a, q>> = <<l[1], l[2], n>>
      BY <2>3
    <3> HIDE DEF l, L
    <3> QED BY <3>1 DEF IntoSink
  <2> QED BY <2>2, <2>3
<1>2. <<p, a, q>> \in SinkLoops(symbols, n) <=> q = n /\ p = n /\ a \in symbols
  BY DEF SinkLoops
<1> HIDE DEF L
<1>3. (<<p, a, q>> \in Completion(T, m, symbols, n))
        <=> ( \/ <<p, a, q>> \in IntoSink(L, n)
              \/ (L # {} /\ n >= m /\ <<p, a, q>> \in SinkLoops(symbols, n)) )
  BY DEF Completion, L
<1>4. ToSink(p, a, T, m, symbols, n)
        <=> (<<p, a>> \in L \/ (L # {} /\ n >= m /\ p = n /\ a \in symbols))
  BY DEF ToSink, L
<1> QED BY <1>1, <1>2, <1>3, <1>4

\* With completion, what moved on a moves as before, and what did not, moves
\* to the sink, and the sink to itself.
Completes(T, T1, m, symbols, n, a) ==
  /\ \A p \in 0..n-1 : (\E r : <<p, a, r>> \in T) =>
       \A q : <<p, a, q>> \in T1 <=> <<p, a, q>> \in T
  /\ \A p \in 0..n-1 : ~ (\E r : <<p, a, r>> \in T) =>
       (Sinking(T, m, symbols, n) /\ \A q : <<p, a, q>> \in T1 <=> q = n)
  /\ Sinking(T, m, symbols, n) => \A q : <<n, a, q>> \in T1 <=> q = n

(* Completion does so, with a sink that is the last state or one more.     *)
LEMMA CompletedMoves ==
  ASSUME NEW n \in Nat, NEW T, Between(T, n), NEW symbols, NEW m, m = n \/ m = n+1,
         NEW a \in symbols, NEW T1, T1 = T \cup Completion(T, m, symbols, n)
  PROVE  Completes(T, T1, m, symbols, n, a)
<1> DEFINE L == Lacking(T, m, symbols)
<1>1. \A p : <<p, a>> \in L <=> p \in 0..m-1 /\ ~ \E r : <<p, a, r>> \in T
  <2>1. \A p : <<p, a>> \in {<<t[1], t[2]>> : t \in T} <=> \E r : <<p, a, r>> \in T
    <3>1. ASSUME NEW p, <<p, a>> \in {<<t[1], t[2]>> : t \in T} PROVE \E r : <<p, a, r>> \in T
      <4>1. PICK t \in T : <<p, a>> = <<t[1], t[2]>>
        BY <3>1
      <4>2. t = <<t[1], t[2], t[3]>>
        BY DEF Between
      <4>3. <<p, a, t[3]>> \in T
        BY <4>1, <4>2
      <4> QED BY <4>3
    <3>2. ASSUME NEW p, NEW r, <<p, a, r>> \in T PROVE <<p, a>> \in {<<t[1], t[2]>> : t \in T}
      <4> DEFINE t == <<p, a, r>>
      <4>1. t \in T /\ <<p, a>> = <<t[1], t[2]>>
        BY <3>2
      <4> HIDE DEF t
      <4> QED BY <4>1
    <3> QED BY <3>1, <3>2
  <2>2. \A p : <<p, a>> \in (0..m-1) \X symbols <=> p \in 0..m-1
    OBVIOUS
  <2> QED BY <2>1, <2>2 DEF Lacking
<1>2. ASSUME NEW p, NEW q
      PROVE  (<<p, a, q>> \in T1)
               <=> (<<p, a, q>> \in T \/ (q = n /\ ToSink(p, a, T, m, symbols, n)))
  <2>1. (<<p, a, q>> \in Completion(T, m, symbols, n))
          <=> (q = n /\ ToSink(p, a, T, m, symbols, n))
    BY CompletionMoves
  <2> QED BY <2>1
<1>3. \A p, q : <<p, a, q>> \in T => p \in 0..n-1
  BY DEF Between
<1>4. /\ Sinking(T, m, symbols, n) <=> (L # {} \/ m = n+1)
      /\ \A p : ToSink(p, a, T, m, symbols, n)
                 <=> (<<p, a>> \in L \/ (L # {} /\ n >= m /\ p = n))
  BY DEF Sinking, ToSink
<1> HIDE DEF L
<1>5. 0..n-1 \subseteq 0..m-1 /\ n \notin 0..n-1 /\ (m = n+1 => n \in 0..m-1)
  OBVIOUS
<1>6. ASSUME NEW p \in 0..n-1, NEW r, <<p, a, r>> \in T, NEW q
      PROVE  <<p, a, q>> \in T1 <=> <<p, a, q>> \in T
  <2>1. ~ ToSink(p, a, T, m, symbols, n)
    <3>1. <<p, a>> \notin L
      BY <1>1, <1>6
    <3>2. p # n
      BY <1>5
    <3> QED BY <1>4, <3>1, <3>2
  <2> QED BY <1>2, <2>1
<1>7. ASSUME NEW p \in 0..n-1, ~ \E r : <<p, a, r>> \in T
      PROVE  Sinking(T, m, symbols, n) /\ \A q : <<p, a, q>> \in T1 <=> q = n
  <2>1. <<p, a>> \in L
    BY <1>1, <1>5, <1>7
  <2>2. Sinking(T, m, symbols, n) /\ ToSink(p, a, T, m, symbols, n)
    BY <1>4, <2>1
  <2>3. ASSUME NEW q PROVE <<p, a, q>> \in T1 <=> q = n
    <3>1. <<p, a, q>> \notin T
      BY <1>7
    <3> QED BY <1>2, <2>2, <3>1
  <2> QED BY <2>2, <2>3
<1>8. ASSUME Sinking(T, m, symbols, n), NEW q
      PROVE  <<n, a, q>> \in T1 <=> q = n
  <2>1. ~ \E r : <<n, a, r>> \in T
    BY <1>3, <1>5
  <2>2. ToSink(n, a, T, m, symbols, n)
    <3>1. CASE m = n+1
      BY <1>1, <1>4, <1>5, <2>1, <3>1
    <3>2. CASE m # n+1
      <4>1. L # {} /\ n >= m
        BY <1>4, <1>8, <3>2
      <4> QED BY <1>4, <4>1
    <3> QED BY <3>1, <3>2
  <2> QED BY <1>2, <2>1, <2>2
<1> QED BY <1>6, <1>7, <1>8 DEF Completes

\* The complement follows the one run there is, or is in the sink.
InStep(S, S1, T, m, symbols, n) ==
  \/ \E q \in 0..n-1 : S = {q} /\ S1 = {q}
  \/ S = {} /\ S1 = {n} /\ Sinking(T, m, symbols, n)

(* A deterministic automaton is in at most one state.                      *)
LEMMA OneInitial ==
  ASSUME NEW n \in Nat, NEW I \in SUBSET (0..n-1), Cardinality(I) <= 1
  PROVE  I = {} \/ \E q \in 0..n-1 : I = {q}
<1>1. IsFiniteSet(I)
  <2>1. 0 \in Int /\ n-1 \in Int
    OBVIOUS
  <2>2. IsFiniteSet(0..n-1)
    BY <2>1, FS_Interval
  <2> QED BY <2>2, FS_Subset
<1>2. Cardinality(I) \in Nat
  BY <1>1, FS_CardinalityType
<1>3. CASE Cardinality(I) = 0
  BY <1>1, <1>3, FS_EmptySet
<1>4. CASE Cardinality(I) = 1
  <2>1. \E x : I = {x}
    BY <1>1, <1>4, FS_Singleton
  <2> QED BY <2>1
<1> QED BY <1>2, <1>3, <1>4

(* complement_deterministic() of a deterministic automaton accepts the     *)
(* words over its symbols that the automaton does not.                     *)
LEMMA ComplementLanguage ==
  ASSUME NEW A, IsNfa(A), Deterministic(A), NEW symbols \in SUBSET Symbol,
         NEW w \in Words(symbols, MaxWord)
  PROVE  w \in Language(complement_deterministic(A, symbols)) <=> w \notin Language(A)
<1> DEFINE n == num_of_states(A)
           T == transitions(A.delta)
           I == A.initial.set
           F == A.final.set
           m == IF I = {} THEN n+1 ELSE n
           B == complement_deterministic(A, symbols)
           T1 == T \cup Completion(T, m, symbols, n)
           I1 == IF I = {} THEN {n} ELSE I
           c == CompletedSize(T, m, symbols, n)
           F1 == (0..c-1) \ F
           N == Len(w)
<1>1. Seen(A, T, I, F, n)
  BY DEF Seen
<1>2. Seen(B, T1, I1, F1, c)
  BY ComplementSeen
<1>3. /\ Cardinality(I) <= 1
      /\ \A p, a, q, r : <<p, a, q>> \in T /\ <<p, a, r>> \in T => q = r
  <2>1. \A t, u \in T : t[1] = u[1] /\ t[2] = u[2] => t = u
    BY DEF Deterministic
  <2>2. ASSUME NEW p, NEW a, NEW q, NEW r, <<p, a, q>> \in T, <<p, a, r>> \in T PROVE q = r
    <3> DEFINE t == <<p, a, q>>
               u == <<p, a, r>>
    <3>1. t \in T /\ u \in T /\ t[1] = u[1] /\ t[2] = u[2]
      BY <2>2
    <3>2. t = u
      <4> HIDE DEF t, u, T
      <4> QED BY <2>1, <3>1
    <3> QED BY <3>2
  <2> QED BY <2>2 DEF Deterministic
<1> HIDE DEF n, T, I, F, B
<1>4. /\ n \in Nat /\ I \in SUBSET (0..n-1) /\ F \in SUBSET (0..n-1) /\ Between(T, n)
      /\ \A p, a, q : <<p, a, q>> \in T => p \in 0..n-1 /\ a \in Symbol /\ q \in 0..n-1
  BY <1>1, SeenBetween
<1>5. I = {} \/ \E q \in 0..n-1 : I = {q}
  BY <1>3, <1>4, OneInitial
<1>6. m = n \/ m = n+1
  OBVIOUS
<1>7. c \in Nat /\ n <= c /\ (Sinking(T, m, symbols, n) => n < c)
  <2>1. m \in Nat /\ n <= m
    BY <1>4
  <2>2. c = IF Lacking(T, m, symbols) # {} THEN Larger(m, n+1) ELSE m
    BY DEF CompletedSize
  <2>3. Larger(m, n+1) \in Nat /\ m <= Larger(m, n+1) /\ n+1 <= Larger(m, n+1)
    <3> HIDE DEF m
    <3> QED BY <1>4, <2>1 DEF Larger
  <2> HIDE DEF m, c
  <2> QED BY <1>4, <2>1, <2>2, <2>3 DEF Sinking
<1>8. /\ \A k \in 1..N : w[k] \in symbols
      /\ w \in Words(Symbol, MaxWord)
  BY Letters
<1>9. ASSUME NEW a \in symbols PROVE Completes(T, T1, m, symbols, n, a)
  <2>1. /\ n \in Nat /\ Between(T, n) /\ a \in symbols
        /\ m = n \/ m = n+1
        /\ T1 = T \cup Completion(T, m, symbols, n)
    BY <1>4, <1>6
  <2> HIDE DEF m, T1
  <2> QED BY ONLY <2>1, CompletedMoves
<1>10. InStep(I, I1, T, m, symbols, n)
  BY <1>4, <1>5 DEF InStep, Sinking
<1> HIDE DEF m, T1, I1, c, F1
<1>11. PICK g : Decides(g, A, T, I, F, w, n)
  BY <1>1, <1>8, LanguageLayers
<1>12. PICK h : Decides(h, B, T1, I1, F1, w, c)
  BY <1>2, <1>8, LanguageLayers
<1>13. /\ N \in Nat /\ g[0] = I
       /\ \A k \in 1..N : k-1 \in 0..N /\ k \in 0..N
       /\ \A k \in 1..N : \A q : q \in g[k] <=> \E p \in g[k-1] : <<p, w[k], q>> \in T
       /\ w \in Language(A) <=> g[N] \cap F # {}
  BY <1>11 DEF Decides, Layered
<1>14. /\ h[0] = I1
       /\ \A k \in 1..N : \A q : q \in h[k] <=> \E p \in h[k-1] : <<p, w[k], q>> \in T1
       /\ w \in Language(B) <=> h[N] \cap F1 # {}
  BY <1>12 DEF Decides, Layered
<1> HIDE DEF N
<1> DEFINE Good == {k \in 0..N : InStep(g[k], h[k], T, m, symbols, n)}
<1>15. 0 \in Good
  <2>1. 0 \in 0..N
    BY <1>13
  <2>2. InStep(g[0], h[0], T, m, symbols, n)
    BY ONLY <1>10, <1>13, <1>14
  <2> QED BY <2>1, <2>2
<1>16. ASSUME NEW k \in 1..N, k-1 \in Good PROVE k \in Good
  <2> DEFINE a == w[k]
             S == g[k-1]
             S1 == h[k-1]
             G == g[k]
             H == h[k]
  <2>1. /\ a \in symbols /\ InStep(S, S1, T, m, symbols, n)
        /\ \A q : q \in G <=> \E p \in S : <<p, a, q>> \in T
        /\ \A q : q \in H <=> \E p \in S1 : <<p, a, q>> \in T1
    BY <1>8, <1>13, <1>14, <1>16
  <2>9. Completes(T, T1, m, symbols, n, a)
    BY <1>9, <2>1
  <2> HIDE DEF a, S, S1, G, H, Good
  <2>2. ASSUME \E q \in 0..n-1 : S = {q} /\ S1 = {q}
        PROVE  InStep(G, H, T, m, symbols, n)
    <3>1. PICK p \in 0..n-1 : S = {p} /\ S1 = {p}
      BY <2>2
    <3>2. (\A q : q \in G <=> <<p, a, q>> \in T) /\ (\A q : q \in H <=> <<p, a, q>> \in T1)
      BY <2>1, <3>1
    <3>3. CASE \E r : <<p, a, r>> \in T
      <4>1. PICK r : <<p, a, r>> \in T
        BY <3>3
      <4>2. r \in 0..n-1 /\ \A q : <<p, a, q>> \in T <=> q = r
        BY <1>3, <1>4, <4>1
      <4>3. \A q : <<p, a, q>> \in T1 <=> <<p, a, q>> \in T
        BY <2>9, <3>3 DEF Completes
      <4>4. G = {r} /\ H = {r}
        BY <3>2, <4>2, <4>3
      <4> QED BY <4>2, <4>4 DEF InStep
    <3>4. CASE ~ \E r : <<p, a, r>> \in T
      <4>1. Sinking(T, m, symbols, n) /\ \A q : <<p, a, q>> \in T1 <=> q = n
        BY <2>9, <3>4 DEF Completes
      <4>2. G = {} /\ H = {n}
        BY <3>2, <3>4, <4>1
      <4> QED BY <4>1, <4>2 DEF InStep
    <3> QED BY <3>3, <3>4
  <2>3. ASSUME S = {}, S1 = {n}, Sinking(T, m, symbols, n)
        PROVE  InStep(G, H, T, m, symbols, n)
    <3>1. \A q : <<n, a, q>> \in T1 <=> q = n
      BY <2>9, <2>3 DEF Completes
    <3>2. G = {} /\ H = {n}
      BY <2>1, <2>3, <3>1
    <3> QED BY <2>3, <3>2 DEF InStep
  <2>4. InStep(G, H, T, m, symbols, n)
    BY <2>1, <2>2, <2>3 DEF InStep
  <2> QED BY <1>13, <2>4 DEF G, H, Good
<1>17. InStep(g[N], h[N], T, m, symbols, n)
  <2>1. Good \in SUBSET (0..N) /\ N \in 0..N
    BY <1>13
  <2>2. \A k \in 0..N : k \in Good
    <3> HIDE DEF Good
    <3> QED BY <1>13, <1>15, <1>16, <2>1, UpTo
  <2> QED BY <2>1, <2>2
<1>18. h[N] \cap F1 # {} <=> g[N] \cap F = {}
  <2>1. CASE \E q \in 0..n-1 : g[N] = {q} /\ h[N] = {q}
    <3>1. PICK q \in 0..n-1 : g[N] = {q} /\ h[N] = {q}
      BY <2>1
    <3>2. q \in 0..c-1
      BY <1>4, <1>7
    <3>3. q \in F1 <=> q \notin F
      BY <3>2 DEF F1
    <3> QED BY <3>1, <3>3
  <2>2. CASE g[N] = {} /\ h[N] = {n} /\ Sinking(T, m, symbols, n)
    <3>1. n \in 0..c-1 /\ n \notin F
      BY <1>4, <1>7, <2>2
    <3>2. n \in F1
      BY <3>1 DEF F1
    <3> QED BY <2>2, <3>2
  <2> QED BY <1>17, <2>1, <2>2 DEF InStep
<1> QED BY <1>13, <1>14, <1>18 DEF B

-----------------------------------------------------------------------------
(* In any automaton that calls can make, sound and no larger than the      *)
(* bound, the operations are right about words of any length.              *)
LEMMA LanguagesRight ==
  ASSUME IsNfa(aut)
  PROVE  LanguagesExact
<1>1. TrimExact
  <2>1. \A w \in Words(Symbol, MaxWord) : w \in Language(trim(aut)) <=> w \in Language(aut)
    BY TrimLanguage
  <2>2. Language(trim(aut)) = Language(aut)
    BY <2>1, SameWords
  <2> QED BY <2>2, TrimNumbering DEF TrimExact
<1>2. UnionsExact
  <2>1. Language(unify_initial(aut)) = Language(aut)
    <3>1. CASE Cardinality(aut.initial.set) > 1
      <4>1. \A w \in Words(Symbol, MaxWord) :
              w \in Language(unify_initial(aut)) <=> w \in Language(aut)
        BY <3>1, UnifyInitialLanguage
      <4> QED BY <4>1, SameWords
    <3>2. CASE ~ (Cardinality(aut.initial.set) > 1)
      BY <3>2 DEF unify_initial
    <3> QED BY <3>1, <3>2
  <2>2. Language(unify_final(aut)) = Language(aut)
    <3>1. CASE Cardinality(aut.final.set) > 1
      <4>1. \A w \in Words(Symbol, MaxWord) :
              w \in Language(unify_final(aut)) <=> w \in Language(aut)
        BY <3>1, UnifyFinalLanguage
      <4> QED BY <4>1, SameWords
    <3>2. CASE ~ (Cardinality(aut.final.set) > 1)
      BY <3>2 DEF unify_final
    <3> QED BY <3>1, <3>2
  <2>3. ASSUME NEW C \in Other
        PROVE  Language(unite_nondet_with(aut, C)) = Language(aut) \cup Language(C)
    <3>1. IsNfa(C)
      BY OtherAssumption
    <3>2. \A w \in Words(Symbol, MaxWord) :
            w \in Language(unite_nondet_with(aut, C)) <=> w \in Language(aut) \/ w \in Language(C)
      BY <3>1, UniteLanguage
    <3>3. \A D : Language(D) \subseteq Words(Symbol, MaxWord)
      BY DEF Language
    <3> QED BY <3>2, <3>3
  <2> QED BY <2>1, <2>2, <2>3 DEF UnionsExact
<1>3. ComplementExact
  <2> SUFFICES ASSUME Deterministic(aut), NEW symbols \in SUBSET Symbol,
                      NEW w \in Words(symbols, MaxWord)
               PROVE  w \in Language(complement_deterministic(aut, symbols))
                        <=> w \notin Language(aut)
    BY DEF ComplementExact
  <2> QED BY ComplementLanguage
<1>4. ConcatenationExact
  <2>1. ASSUME NEW C \in Other
        PROVE  Language(concatenate(aut, C)) = Concatenation(Language(aut), Language(C))
    <3>1. IsNfa(C)
      BY OtherAssumption
    <3> QED BY <3>1, ConcatenationRight
  <2>2. Language(concatenate_itself(aut)) = Concatenation(Language(aut), Language(aut))
    <3> DEFINE C == [aut EXCEPT !.delta = allocate(@, num_of_states(aut))]
    <3>1. concatenate_itself(aut) = concatenate(aut, C)
      BY DEF concatenate_itself
    <3>2. Language(C) = Language(aut)
      BY AllocatedLanguage
    <3>3. IsNfa(C)
      <4>1. Seen(C, transitions(aut.delta), aut.initial.set, aut.final.set, num_of_states(aut))
        BY AllocatedSeen
      <4> HIDE DEF C
      <4> QED BY <4>1 DEF Seen
    <3> HIDE DEF C
    <3>4. Language(concatenate(aut, C)) = Concatenation(Language(aut), Language(C))
      BY <3>3, ConcatenationRight
    <3> QED BY <3>1, <3>2, <3>4
  <2> QED BY <2>1, <2>2 DEF ConcatenationExact
<1> QED BY <1>1, <1>2, <1>3, <1>4 DEF LanguagesExact

(* Whatever was called before, trim(), unify_initial() and unify_final()   *)
(* keep the language of an automaton, unite_nondet_with() unites two,      *)
(* concatenate() accepts what can be divided into a word of each, when     *)
(* they are the same automaton too, and complement_deterministic()         *)
(* accepts, of the words over its symbols, those that a deterministic      *)
(* automaton does not.  MaxWord is any number, so this is about words of   *)
(* every length.                                                           *)
THEOREM NfaLanguagesExact == Spec => []LanguagesExact
<1>1. Init => Inv
  BY InitStep
<1>2. Inv /\ [Next]_aut => Inv'
  BY AnyStep
<1>3. Inv => LanguagesExact
  BY LanguagesRight DEF Inv
<1> QED BY <1>1, <1>2, <1>3, PTL DEF Spec
=============================================================================
