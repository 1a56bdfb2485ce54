--------------------------- MODULE AutomataProofs ---------------------------
(***************************************************************************)
(* Lemmas that several proofs need: about lists, about definitions by      *)
(* recursion on numbers, and about the closures and paths of Automata.     *)
(*                                                                         *)
(* Induction over numbers is done through least counterexamples (UpTo):    *)
(* what holds of 0, and of n when it holds of n-1, holds up to any N.      *)
(***************************************************************************)
EXTENDS Automata, SequencesExt, FiniteSetTheorems, SequenceTheorems,
        WellFoundedInduction, TLAPS

(* A set of numbers that is not empty has a least one.                     *)
LEMMA LeastNumber ==
  ASSUME NEW T \in SUBSET Nat, T # {}
  PROVE  \E m \in T : \A n \in T : m <= n
<1>1. IsWellFoundedOn(OpToRel(<, Nat), Nat)
  BY NatLessThanWellFounded
<1>2. PICK m \in T : \A n \in T : ~ (<<n, m>> \in OpToRel(<, Nat))
  BY ONLY <1>1, T \subseteq Nat, T # {}, WFMin, Zenon
<1>3. \A n \in T : ~ (n < m)
  BY <1>2 DEF OpToRel
<1> QED BY <1>3

(* Induction up to N, for the set of numbers that are good.                *)
LEMMA UpTo ==
  ASSUME NEW N \in Nat, NEW Good \in SUBSET (0..N), 0 \in Good,
         \A n \in 1..N : n-1 \in Good => n \in Good
  PROVE  \A n \in 0..N : n \in Good
<1> SUFFICES ASSUME (0..N) \ Good # {} PROVE FALSE OBVIOUS
<1>1. PICK m \in (0..N) \ Good : \A n \in (0..N) \ Good : m <= n
  BY LeastNumber, (0..N) \ Good \in SUBSET Nat
<1>2. m \in 1..N /\ m-1 \in 0..N
  BY <1>1
<1>3. m-1 \in Good
  BY <1>1, <1>2
<1> QED BY <1>1, <1>2, <1>3

(* What taking the last element leaves of a list.                          *)
LEMMA FrontOf ==
  ASSUME NEW T, NEW s \in Seq(T), s # << >>
  PROVE  /\ Front(s) \in Seq(T)
         /\ Last(s) \in T
         /\ Range(s) = Range(Front(s)) \cup {Last(s)}
         /\ Len(Front(s)) = Len(s) - 1
         /\ Last(s) = s[Len(s)]
         /\ \A i \in 1..Len(s)-1 : Front(s)[i] = s[i]
<1>. DEFINE n == Len(s)  front == Front(s)
<1>1. n \in Nat \ {0}
  BY EmptySeq
<1>2. front = SubSeq(s, 1, n-1) /\ Last(s) = s[n]
  BY DEF Front, Last
<1>3. \A i \in 1..n : s[i] \in T
  BY ElementOfSeq
<1>4. s \in [1..n -> T]
  BY LenProperties
<1>. HIDE DEF n
<1>5. \A i \in 1..n-1 : s[i] \in T
  BY <1>1, <1>3
<1>6. /\ SubSeq(s, 1, n-1) \in Seq(T)
      /\ Len(SubSeq(s, 1, n-1)) = IF 1 <= n-1 THEN (n-1)-1+1 ELSE 0
      /\ \A i \in 1..(n-1)-1+1 : SubSeq(s, 1, n-1)[i] = s[1+i-1]
  BY <1>1, <1>5, SubSeqProperties
<1>7. (n-1)-1+1 = n-1 /\ (~ (1 <= n-1) => n-1 = 0) /\ \A i \in 1..n-1 : 1+i-1 = i
  BY <1>1
<1>8. front \in Seq(T) /\ Len(front) = n-1 /\ \A i \in 1..n-1 : front[i] = s[i]
  BY <1>2, <1>6, <1>7
<1>9. front \in [1..n-1 -> T]
  BY <1>8, LenProperties
<1>. HIDE DEF front
<1>10. Range(s) = {s[i] : i \in 1..n} /\ Range(front) = {s[i] : i \in 1..n-1}
  BY <1>4, <1>8, <1>9 DEF Range
<1>11. 1..n = (1..n-1) \cup {n}
  BY <1>1
<1>12. Range(s) = Range(front) \cup {s[n]}
  BY <1>10, <1>11
<1>13. n \in 1..n
  BY <1>1
<1>14. QED BY <1>2, <1>3, <1>8, <1>12, <1>13 DEF n, front

(* What appending adds to a list.                                          *)
LEMMA AppendTo ==
  ASSUME NEW T, NEW s \in Seq(T), NEW x \in T
  PROVE  /\ Append(s, x) \in Seq(T)
         /\ Len(Append(s, x)) = Len(s) + 1
         /\ \A i \in 1..Len(s) : Append(s, x)[i] = s[i]
         /\ Append(s, x)[Len(s)+1] = x
         /\ Range(Append(s, x)) = Range(s) \cup {x}
<1>1. /\ Append(s, x) \in Seq(T) /\ Len(Append(s, x)) = Len(s) + 1
      /\ \A i \in 1..Len(s) : Append(s, x)[i] = s[i]
      /\ Append(s, x)[Len(s)+1] = x
  BY AppendProperties
<1>2. Len(s) \in Nat
  BY LenProperties
<1>3. /\ Range(s) = {s[i] : i \in 1..Len(s)}
      /\ Range(Append(s, x)) = {Append(s, x)[i] : i \in 1..Len(s)+1}
  BY <1>1, LenProperties DEF Range
<1>4. 1..Len(s)+1 = (1..Len(s)) \cup {Len(s)+1}
  BY <1>2
<1>5. QED BY <1>1, <1>3, <1>4

-----------------------------------------------------------------------------
\* step[i] maps U into itself, and g is what repeating the steps gives.
Steps(step, N, U) == \A i \in 1..N : \A u \in U : step[i][u] \in U

IsIteration(g, N, U, start, step) ==
  g \in [0..N -> U] /\ g[0] = start /\ \A i \in 1..N : g[i] = step[i][g[i-1]]

(* Repeating steps gives a function: a recursive definition has a meaning.  *)
LEMMA Iteration ==
  ASSUME NEW U, NEW start \in U, NEW N \in Nat, NEW step, Steps(step, N, U)
  PROVE  \E g : IsIteration(g, N, U, start, step)
<1> USE DEF Steps
<1> DEFINE IsRun(g, n) == g = [i \in 0..n |-> IF i = 0 THEN start ELSE step[i][g[i-1]]]
           Good == {n \in 0..N : \E g \in [0..n -> U] : IsRun(g, n)}
<1>1. 0 \in Good
  <2>1. DEFINE g == [i \in 0..0 |-> start]
  <2>2. g \in [0..0 -> U] /\ 0 \in 0..N
    OBVIOUS
  <2>3. IsRun(g, 0)
    OBVIOUS
  <2> HIDE DEF IsRun, g
  <2> QED BY <2>2, <2>3
<1>2. ASSUME NEW n \in 1..N, n-1 \in Good PROVE n \in Good
  <2>1. PICK g \in [0..n-1 -> U] : IsRun(g, n-1)
    BY <1>2
  <2> DEFINE h == [i \in 0..n |-> IF i = n THEN step[n][g[n-1]] ELSE g[i]]
  <2>2. /\ n \in Nat /\ n >= 1 /\ n-1 \in 0..n-1 /\ \A u \in U : step[n][u] \in U
        /\ \A i \in 0..n : i = n \/ i \in 0..n-1
        /\ \A i \in 0..n-1 : i \in 0..n /\ i # n
        /\ n \in 0..n
    OBVIOUS
  <2>3. step[n][g[n-1]] \in U
    BY <2>1, <2>2
  <2>4. h \in [0..n -> U]
    BY <2>1, <2>2, <2>3
  <2>5. /\ \A i \in 0..n-1 : h[i] = g[i]
        /\ h[n] = step[n][g[n-1]]
        /\ DOMAIN h = 0..n
    BY <2>2
  <2>6. \A i \in 0..n-1 : g[i] = IF i = 0 THEN start ELSE step[i][g[i-1]]
    BY <2>1
  <2>7. ASSUME NEW i \in 0..n
        PROVE  h[i] = IF i = 0 THEN start ELSE step[i][h[i-1]]
    <3> HIDE DEF h
    <3>1. CASE i = n
      BY <3>1, <2>2, <2>5
    <3>2. CASE i \in 0..n-1 /\ i # 0
      <4>1. i-1 \in 0..n-1
        BY <3>2
      <4> QED BY <3>2, <2>5, <2>6, <4>1
    <3>3. CASE i = 0
      BY <3>3, <2>2, <2>5, <2>6
    <3> QED BY <3>1, <3>2, <3>3, <2>2
  <2>8. IsRun(h, n)
    <3> HIDE DEF h
    <3> QED BY <2>4, <2>7
  <2> HIDE DEF IsRun, h
  <2> QED BY <2>4, <2>8
<1>3. N \in Good
  <2> HIDE DEF Good
  <2>1. Good \in SUBSET (0..N) BY DEF Good
  <2>2. \A n \in 0..N : n \in Good
    BY <1>1, <1>2, <2>1, UpTo
  <2> QED BY <2>2
<1>4. PICK g \in [0..N -> U] : IsRun(g, N)
  BY <1>3
<1>5. /\ 0 \in 0..N
      /\ \A i \in 1..N : i \in 0..N /\ i # 0
  OBVIOUS
<1> QED BY <1>4, <1>5 DEF IsIteration

-----------------------------------------------------------------------------
IsGraph(succ) ==
  IsFiniteSet(DOMAIN succ) /\ \A q \in DOMAIN succ : succ[q] \subseteq DOMAIN succ

ClosedUnder(succ, T) == \A q \in T : succ[q] \subseteq T

\* within[n] is what S leads to in at most n moves.
Layers(within, succ, S) ==
  /\ within \in [0..Cardinality(DOMAIN succ) -> SUBSET DOMAIN succ]
  /\ within[0] = S
  /\ \A n \in 1..Cardinality(DOMAIN succ) :
       within[n] = within[n-1] \cup UNION {succ[q] : q \in within[n-1]}

(* Closure is the last of these layers.                                    *)
LEMMA ClosureLayers ==
  ASSUME NEW succ, IsGraph(succ), NEW S \in SUBSET DOMAIN succ
  PROVE  \E within : Layers(within, succ, S)
                      /\ Closure(succ, S) = within[Cardinality(DOMAIN succ)]
<1> DEFINE V == DOMAIN succ
           N == Cardinality(V)
           Nxt(T) == T \cup UNION {succ[q] : q \in T}
           IsRun(g) == g = [n \in 0..N |-> IF n = 0 THEN S ELSE Nxt(g[n-1])]
           w == CHOOSE g : IsRun(g)
<1>1. N \in Nat
  BY FS_CardinalityType DEF IsGraph
<1>2. \E g \in [0..N -> SUBSET V] : IsRun(g)
  <2> DEFINE step == [i \in 1..N |-> [T \in SUBSET V |-> Nxt(T)]]
  <2>1. \A T \in SUBSET V : Nxt(T) \in SUBSET V
    BY DEF IsGraph
  <2>2. Steps(step, N, SUBSET V)
    <3> HIDE DEF Nxt, N, V
    <3> QED BY <2>1 DEF Steps
  <2>3. PICK g : IsIteration(g, N, SUBSET V, S, step)
    <3> HIDE DEF step, N
    <3>1. S \in SUBSET V
      OBVIOUS
    <3> HIDE DEF V
    <3> QED BY ONLY <1>1, <2>2, <3>1, Iteration
  <2>4. \A i \in 0..N : i # 0 => step[i][g[i-1]] = Nxt(g[i-1])
    <3> HIDE DEF Nxt, N, V
    <3> TAKE i \in 0..N
    <3>1. i # 0 => i \in 1..N /\ i-1 \in 0..N
      BY <1>1
    <3> QED BY <2>3, <3>1 DEF IsIteration
  <2>5. IsRun(g)
    <3> HIDE DEF Nxt, N, V, step
    <3>1. \A i \in 0..N : i # 0 => i \in 1..N
      BY <1>1
    <3> QED BY <2>3, <2>4, <3>1 DEF IsIteration
  <2> QED BY <2>3, <2>5 DEF IsIteration
<1>3. Closure(succ, S) = w[N]
  BY DEF Closure
<1>4. IsRun(w)
  <2> HIDE DEF IsRun
  <2> QED BY <1>2
<1>5. w \in [0..N -> SUBSET V]
  <2> HIDE DEF w, N, V
  <2> DEFINE Good == {n \in 0..N : w[n] \in SUBSET V}
  <2>1. 0 \in Good
    BY <1>1, <1>4 DEF V
  <2>2. ASSUME NEW n \in 1..N, n-1 \in Good PROVE n \in Good
    <3>1. w[n] = Nxt(w[n-1]) /\ n \in 0..N
      BY <1>1, <1>4
    <3>2. Nxt(w[n-1]) \in SUBSET V
      BY <2>2 DEF IsGraph, V
    <3> QED BY <3>1, <3>2
  <2>3. \A n \in 0..N : n \in Good
    <3> HIDE DEF Good
    <3>1. Good \in SUBSET (0..N) BY DEF Good
    <3> QED BY <1>1, <2>1, <2>2, <3>1, UpTo
  <2> QED BY <1>4, <2>3
<1>6. Layers(w, succ, S)
  <2> HIDE DEF w
  <2>1. \A n \in 1..N : n \in 0..N /\ n # 0
    BY <1>1
  <2>2. 0 \in 0..N
    BY <1>1
  <2>3. \A n \in 1..N : w[n] = Nxt(w[n-1])
    <3> HIDE DEF N, Nxt
    <3> QED BY <1>4, <2>1
  <2> QED BY <1>4, <1>5, <2>2, <2>3 DEF Layers
<1> QED BY <1>3, <1>6

(* Closure(succ, S) holds nodes only, ...                                  *)
LEMMA ClosureType ==
  ASSUME NEW succ, IsGraph(succ), NEW S \in SUBSET DOMAIN succ
  PROVE  Closure(succ, S) \in SUBSET DOMAIN succ
<1>1. Cardinality(DOMAIN succ) \in Nat
  BY FS_CardinalityType DEF IsGraph
<1> QED BY <1>1, ClosureLayers DEF Layers

(* ... among them S, ...                                                   *)
LEMMA ClosureContains ==
  ASSUME NEW succ, IsGraph(succ), NEW S \in SUBSET DOMAIN succ
  PROVE  S \subseteq Closure(succ, S)
<1> DEFINE N == Cardinality(DOMAIN succ)
<1>1. N \in Nat
  BY FS_CardinalityType DEF IsGraph
<1>2. PICK w : Layers(w, succ, S) /\ Closure(succ, S) = w[N]
  BY ClosureLayers
<1> DEFINE Good == {n \in 0..N : S \subseteq w[n]}
<1>3. 0 \in Good
  BY <1>1, <1>2 DEF Layers
<1>4. ASSUME NEW n \in 1..N, n-1 \in Good PROVE n \in Good
  BY <1>1, <1>2, <1>4 DEF Layers
<1>5. N \in Good
  <2> HIDE DEF Good
  <2>1. Good \in SUBSET (0..N) BY DEF Good
  <2> QED BY <1>1, <1>3, <1>4, <2>1, UpTo
<1> QED BY <1>2, <1>5

(* ... none that a closed set around S does not hold, ...                  *)
LEMMA ClosureLeast ==
  ASSUME NEW succ, IsGraph(succ), NEW S \in SUBSET DOMAIN succ,
         NEW T, S \subseteq T, \A q \in T \cap DOMAIN succ : succ[q] \subseteq T
  PROVE  Closure(succ, S) \subseteq T
<1> DEFINE N == Cardinality(DOMAIN succ)
<1>1. N \in Nat
  BY FS_CardinalityType DEF IsGraph
<1>2. PICK w : Layers(w, succ, S) /\ Closure(succ, S) = w[N]
  BY ClosureLayers
<1> DEFINE Good == {n \in 0..N : w[n] \subseteq T}
<1>3. 0 \in Good
  BY <1>1, <1>2 DEF Layers
<1>4. ASSUME NEW n \in 1..N, n-1 \in Good PROVE n \in Good
  <2>1. n-1 \in 0..N /\ n \in 0..N
    BY <1>1
  <2>2. w[n-1] \subseteq T \cap DOMAIN succ
    BY <1>2, <1>4, <2>1 DEF Layers
  <2>3. UNION {succ[q] : q \in w[n-1]} \subseteq T
    BY <2>2
  <2> QED BY <1>2, <2>1, <2>2, <2>3 DEF Layers
<1>5. N \in Good
  <2> HIDE DEF Good
  <2>1. Good \in SUBSET (0..N) BY DEF Good
  <2> QED BY <1>1, <1>3, <1>4, <2>1, UpTo
<1> QED BY <1>2, <1>5

(* ... and it is closed itself: as many layers as nodes are enough.        *)
LEMMA ClosureClosed ==
  ASSUME NEW succ, IsGraph(succ), NEW S \in SUBSET DOMAIN succ
  PROVE  ClosedUnder(succ, Closure(succ, S))
<1> DEFINE V == DOMAIN succ
           N == Cardinality(V)
<1>1. N \in Nat /\ IsFiniteSet(V)
  BY FS_CardinalityType DEF IsGraph
<1>2. PICK w : Layers(w, succ, S) /\ Closure(succ, S) = w[N]
  BY ClosureLayers
<1>3. /\ w \in [0..N -> SUBSET V]
      /\ \A n \in 1..N : w[n] = w[n-1] \cup UNION {succ[q] : q \in w[n-1]}
  BY <1>2 DEF Layers
<1> DEFINE Good == {n \in 0..N : ClosedUnder(succ, w[n]) \/ Cardinality(w[n]) >= n}
<1> HIDE DEF V, N
<1>4. \A n \in 0..N : IsFiniteSet(w[n]) /\ Cardinality(w[n]) \in Nat
  BY <1>1, <1>3, FS_Subset, FS_CardinalityType
<1>5. 0 \in Good
  BY <1>1, <1>4
<1>6. ASSUME NEW n \in 1..N, n-1 \in Good PROVE n \in Good
  <2>1. n-1 \in 0..N /\ n \in 0..N
    BY <1>1
  <2>2. w[n] = w[n-1] \cup UNION {succ[q] : q \in w[n-1]}
    BY <1>3
  <2>3. CASE ClosedUnder(succ, w[n-1])
    <3>1. UNION {succ[q] : q \in w[n-1]} \subseteq w[n-1]
      BY <2>3 DEF ClosedUnder
    <3>2. w[n] = w[n-1]
      BY <2>2, <3>1
    <3> QED BY <2>1, <2>3, <3>2
  <2>4. CASE ~ ClosedUnder(succ, w[n-1])
    <3>1. Cardinality(w[n-1]) >= n-1
      BY <1>6, <2>4
    <3>2. w[n-1] \subseteq w[n] /\ w[n-1] # w[n]
      BY <2>2, <2>4 DEF ClosedUnder
    <3>3. Cardinality(w[n-1]) < Cardinality(w[n])
      <4>1. /\ Cardinality(w[n-1]) <= Cardinality(w[n])
            /\ Cardinality(w[n-1]) = Cardinality(w[n]) => w[n-1] = w[n]
        BY <1>4, <2>1, <3>2, FS_Subset
      <4> QED BY <1>4, <2>1, <3>2, <4>1
    <3>4. Cardinality(w[n]) >= n
      BY <1>4, <2>1, <3>1, <3>3
    <3> QED BY <2>1, <3>4
  <2> QED BY <2>3, <2>4
<1>7. N \in Good
  <2> HIDE DEF Good
  <2>1. Good \in SUBSET (0..N) BY DEF Good
  <2> QED BY <1>1, <1>5, <1>6, <2>1, UpTo
<1>8. CASE Cardinality(w[N]) >= N
  <2>1. w[N] \subseteq V /\ N \in 0..N
    BY <1>1, <1>3
  <2>2. Cardinality(w[N]) <= N /\ (Cardinality(w[N]) = N => w[N] = V)
    BY <1>1, <2>1, FS_Subset DEF N
  <2>3. w[N] = V
    BY <1>1, <1>4, <1>8, <2>1, <2>2
  <2> QED BY <1>2, <2>3 DEF ClosedUnder, IsGraph, V
<1> QED BY <1>2, <1>7, <1>8

-----------------------------------------------------------------------------
(* Paths: the empty one, ...                                               *)
LEMMA ReachesSelf ==
  ASSUME NEW succ, IsGraph(succ), NEW p \in DOMAIN succ
  PROVE  Reaches(succ, p, p)
<1>1. {p} \subseteq Closure(succ, {p})
  BY ClosureContains
<1> QED BY <1>1 DEF Reaches

(* ... none out of a closed set, ...                                       *)
LEMMA ReachesWithin ==
  ASSUME NEW succ, IsGraph(succ), NEW p \in DOMAIN succ, NEW q, Reaches(succ, p, q),
         NEW T, p \in T, \A r \in T \cap DOMAIN succ : succ[r] \subseteq T
  PROVE  q \in T /\ q \in DOMAIN succ
<1>1. Closure(succ, {p}) \subseteq T
  BY ClosureLeast
<1>2. Closure(succ, {p}) \in SUBSET DOMAIN succ
  BY ClosureType
<1> QED BY <1>1, <1>2 DEF Reaches

(* ... one more move, ...                                                  *)
LEMMA ReachesOn ==
  ASSUME NEW succ, IsGraph(succ), NEW p \in DOMAIN succ, NEW q, Reaches(succ, p, q),
         NEW r \in succ[q]
  PROVE  Reaches(succ, p, r)
<1>1. ClosedUnder(succ, Closure(succ, {p}))
  BY ClosureClosed
<1> QED BY <1>1 DEF Reaches, ClosedUnder

(* ... two paths in a row, ...                                             *)
LEMMA ReachesTransitive ==
  ASSUME NEW succ, IsGraph(succ), NEW p \in DOMAIN succ, NEW q \in DOMAIN succ, NEW r,
         Reaches(succ, p, q), Reaches(succ, q, r)
  PROVE  Reaches(succ, p, r)
<1>1. ClosedUnder(succ, Closure(succ, {p}))
  BY ClosureClosed
<1>2. q \in Closure(succ, {p})
  BY DEF Reaches
<1>3. r \in Closure(succ, {p})
  BY <1>1, <1>2, ReachesWithin DEF ClosedUnder
<1> QED BY <1>3 DEF Reaches

(* ... and a path that is not empty begins with a move.                    *)
LEMMA ReachesFirst ==
  ASSUME NEW succ, IsGraph(succ), NEW p \in DOMAIN succ, NEW q, Reaches(succ, p, q)
  PROVE  q = p \/ \E r \in succ[p] : Reaches(succ, r, q)
<1> DEFINE T == {p} \cup {t \in DOMAIN succ : \E r \in succ[p] : Reaches(succ, r, t)}
<1>1. \A r \in succ[p] : r \in DOMAIN succ
  BY DEF IsGraph
<1>2. ASSUME NEW t \in T \cap DOMAIN succ, NEW u \in succ[t] PROVE u \in T
  <2>1. u \in DOMAIN succ
    BY DEF IsGraph
  <2>2. CASE t = p
    <3>1. Reaches(succ, u, u)
      BY <2>1, ReachesSelf
    <3> QED BY <2>1, <2>2, <3>1
  <2>3. CASE t # p
    <3>1. PICK r \in succ[p] : Reaches(succ, r, t)
      BY <2>3
    <3>2. Reaches(succ, r, u)
      BY <1>1, <3>1, ReachesOn
    <3> QED BY <2>1, <3>2
  <2> QED BY <2>2, <2>3
<1>3. q \in T
  <2> HIDE DEF T
  <2>1. \A r \in T \cap DOMAIN succ : succ[r] \subseteq T
    BY <1>2
  <2>2. p \in T
    BY DEF T
  <2> QED BY <2>1, <2>2, ReachesWithin
<1> QED BY <1>3

(* A closure goes on along paths.                                          *)
LEMMA ClosureReaches ==
  ASSUME NEW succ, IsGraph(succ), NEW S \in SUBSET DOMAIN succ,
         NEW p \in Closure(succ, S), NEW q, Reaches(succ, p, q)
  PROVE  q \in Closure(succ, S)
<1>1. ClosedUnder(succ, Closure(succ, S)) /\ p \in DOMAIN succ
  BY ClosureClosed, ClosureType
<1> QED BY <1>1, ReachesWithin DEF ClosedUnder


-----------------------------------------------------------------------------
\* after[k] is what the first k letters of w lead to from S.
WordLayers(after, A, U, S, w) ==
  /\ after \in [0..Len(w) -> SUBSET U]
  /\ after[0] = S
  /\ \A k \in 1..Len(w) : after[k] = Post(A, after[k-1], w[k])

(* PostWord is the last of these layers.                                   *)
LEMMA PostWordLayers ==
  ASSUME NEW U, NEW A, NEW S \in SUBSET U, NEW w, Len(w) \in Nat,
         \A k \in 1..Len(w) : \A T \in SUBSET U : Post(A, T, w[k]) \in SUBSET U
  PROVE  \E after : WordLayers(after, A, U, S, w) /\ PostWord(A, S, w) = after[Len(w)]
<1> DEFINE N == Len(w)
           IsRun(g) == g = [k \in 0..N |-> IF k = 0 THEN S ELSE Post(A, g[k-1], w[k])]
           r == CHOOSE g : IsRun(g)
           step == [k \in 1..N |-> [T \in SUBSET U |-> Post(A, T, w[k])]]
<1>1. Steps(step, N, SUBSET U)
  <2> HIDE DEF N
  <2> QED BY DEF Steps, N
<1>2. PICK g : IsIteration(g, N, SUBSET U, S, step)
  <2> HIDE DEF step, N
  <2>1. N \in Nat BY DEF N
  <2> QED BY ONLY <1>1, <2>1, S \in SUBSET U, Iteration
<1>3. /\ g \in [0..N -> SUBSET U] /\ g[0] = S
      /\ \A k \in 1..N : g[k] = Post(A, g[k-1], w[k])
  <2>1. g \in [0..N -> SUBSET U] /\ g[0] = S /\ \A k \in 1..N : g[k] = step[k][g[k-1]]
    BY <1>2 DEF IsIteration
  <2>2. \A k \in 1..N : k-1 \in 0..N
    OBVIOUS
  <2>3. \A k \in 1..N : step[k][g[k-1]] = Post(A, g[k-1], w[k])
    <3> HIDE DEF N
    <3> QED BY <2>1, <2>2
  <2> QED BY <2>1, <2>3
<1>4. IsRun(g)
  <2> HIDE DEF step, N
  <2>1. \A k \in 0..N : k # 0 => k \in 1..N
    BY DEF N
  <2> QED BY <1>3, <2>1
<1>5. IsRun(r)
  <2> HIDE DEF IsRun
  <2> QED BY <1>4
<1>6. PostWord(A, S, w) = r[N]
  BY DEF PostWord
<1>7. WordLayers(r, A, U, S, w)
  <2> HIDE DEF r, step
  <2>1. N \in Nat /\ 0 \in 0..N
    OBVIOUS
  <2>2. r[0] = S /\ \A k \in 1..N : r[k] = Post(A, r[k-1], w[k])
    <3>1. \A k \in 1..N : k \in 0..N /\ k # 0
      OBVIOUS
    <3> HIDE DEF N
    <3> QED BY <1>5, <2>1, <3>1
  <2> DEFINE Good == {k \in 0..N : r[k] \in SUBSET U}
  <2>3. 0 \in Good
    BY <2>1, <2>2
  <2>4. ASSUME NEW k \in 1..N, k-1 \in Good PROVE k \in Good
    <3>1. k \in 0..N /\ r[k-1] \in SUBSET U /\ r[k] = Post(A, r[k-1], w[k])
      BY <2>2, <2>4
    <3>2. Post(A, r[k-1], w[k]) \in SUBSET U
      BY <3>1
    <3> QED BY <3>1, <3>2
  <2>5. \A k \in 0..N : k \in Good
    <3>1. Good \in SUBSET (0..N) OBVIOUS
    <3> HIDE DEF Good
    <3> QED BY <2>1, <2>3, <2>4, <3>1, UpTo
  <2>6. r \in [0..N -> SUBSET U]
    <3> HIDE DEF N
    <3> QED BY <1>5, <2>5
  <2> QED BY <2>2, <2>6 DEF WordLayers
<1> QED BY <1>6, <1>7


(* A run over a word ends where the word leads to.                         *)
LEMMA RunFollowsWord ==
  ASSUME NEW states, NEW symbols, NEW A \in AutomataOver(states, symbols),
         NEW S \in SUBSET states, NEW N \in Nat, NEW w \in [1..N -> symbols],
         NEW run, run[1] \in S, \A k \in 1..N : run[k+1] \in A.delta[run[k]][w[k]]
  PROVE  run[N+1] \in PostWord(A, S, w)
<1>1. Len(w) = N /\ \A k \in 1..N : w[k] \in symbols
  OBVIOUS
<1>2. PICK after : WordLayers(after, A, states, S, w) /\ PostWord(A, S, w) = after[N]
  <2>1. \A k \in 1..Len(w) : \A T \in SUBSET states : Post(A, T, w[k]) \in SUBSET states
    BY <1>1 DEF Post, AutomataOver
  <2> QED BY ONLY <1>1, <2>1, N \in Nat, S \in SUBSET states, PostWordLayers
<1>3. after[0] = S /\ \A k \in 1..N : after[k] = Post(A, after[k-1], w[k])
  BY <1>1, <1>2 DEF WordLayers
<1> DEFINE Good == {k \in 0..N : run[k+1] \in after[k]}
<1>4. 0 \in Good
  BY <1>3
<1>5. ASSUME NEW k \in 1..N, k-1 \in Good PROVE k \in Good
  <2>1. k \in 0..N /\ run[(k-1)+1] \in after[k-1] /\ (k-1)+1 = k
    BY <1>5
  <2>2. run[k+1] \in A.delta[run[k]][w[k]] /\ run[k] \in after[k-1]
    BY <2>1
  <2>3. run[k+1] \in Post(A, after[k-1], w[k])
    BY <2>2 DEF Post
  <2> QED BY <1>3, <2>1, <2>3
<1>6. \A k \in 0..N : k \in Good
  <2>1. Good \in SUBSET (0..N) OBVIOUS
  <2> HIDE DEF Good
  <2> QED BY <1>4, <1>5, <2>1, UpTo
<1> QED BY <1>2, <1>6

-----------------------------------------------------------------------------
(* The successors in an automaton with finitely many states are a graph.   *)
LEMMA AutomatonGraph ==
  ASSUME NEW states, IsFiniteSet(states), NEW symbols, NEW A \in AutomataOver(states, symbols)
  PROVE  /\ IsGraph(AutSuccessors(A)) /\ DOMAIN AutSuccessors(A) = states
         /\ \A q \in states : AutSuccessors(A)[q] = UNION {A.delta[q][a] : a \in symbols}
<1>1. AutStates(A) = states /\ \A q \in states : DOMAIN A.delta[q] = symbols
  BY DEF AutStates, AutomataOver
<1>2. /\ DOMAIN AutSuccessors(A) = states
      /\ \A q \in states : AutSuccessors(A)[q] = UNION {A.delta[q][a] : a \in symbols}
  BY <1>1 DEF AutSuccessors
<1>3. \A q \in states, a \in symbols : A.delta[q][a] \subseteq states
  BY DEF AutomataOver
<1>4. \A q \in states : AutSuccessors(A)[q] \subseteq states
  BY <1>2, <1>3
<1> QED BY <1>2, <1>4 DEF IsGraph


-----------------------------------------------------------------------------
(* The empty word leads nowhere else, ...                                  *)
LEMMA PostWordEmpty ==
  ASSUME NEW states, NEW symbols, NEW A \in AutomataOver(states, symbols),
         NEW S \in SUBSET states
  PROVE  PostWord(A, S, << >>) = S
<1>1. Len(<< >>) \in Nat /\ Len(<< >>) = 0
  OBVIOUS
<1>2. \A k \in 1..Len(<< >>) : \A T \in SUBSET states : Post(A, T, << >>[k]) \in SUBSET states
  BY <1>1
<1>3. PICK after : WordLayers(after, A, states, S, << >>)
                   /\ PostWord(A, S, << >>) = after[Len(<< >>)]
  BY ONLY <1>1, <1>2, S \in SUBSET states, PostWordLayers
<1> QED BY <1>1, <1>3 DEF WordLayers

(* ... a word leads to states, ...                                         *)
LEMMA PostWordType ==
  ASSUME NEW states, NEW symbols, NEW A \in AutomataOver(states, symbols),
         NEW S \in SUBSET states, NEW w \in Seq(symbols)
  PROVE  PostWord(A, S, w) \in SUBSET states
<1>1. PICK n \in Nat : n = Len(w) /\ \A k \in 1..n : w[k] \in symbols
  BY LenProperties, ElementOfSeq
<1>2. PICK f : WordLayers(f, A, states, S, w) /\ PostWord(A, S, w) = f[n]
  <2>1. Len(w) \in Nat /\ \A k \in 1..Len(w) : \A T \in SUBSET states : Post(A, T, w[k]) \in SUBSET states
    BY <1>1 DEF Post, AutomataOver
  <2> QED BY ONLY <1>1, <2>1, S \in SUBSET states, PostWordLayers
<1>3. f \in [0..n -> SUBSET states] /\ n \in 0..n
  BY <1>1, <1>2 DEF WordLayers
<1> QED BY <1>2, <1>3

(* ... and a letter more is a move more.                                   *)
LEMMA PostWordAppend ==
  ASSUME NEW states, NEW symbols, NEW A \in AutomataOver(states, symbols),
         NEW S \in SUBSET states, NEW w \in Seq(symbols), NEW a \in symbols
  PROVE  PostWord(A, S, Append(w, a)) = Post(A, PostWord(A, S, w), a)
<1>1. PICK n \in Nat : n = Len(w)
  BY LenProperties
<1>2. \A b \in symbols : \A T \in SUBSET states : Post(A, T, b) \in SUBSET states
  BY DEF Post, AutomataOver
<1>3. PICK v : v = Append(w, a)
  OBVIOUS
<1>4. /\ v \in Seq(symbols) /\ Len(v) = n+1 /\ v[n+1] = a
      /\ \A k \in 1..n : v[k] = w[k]
  BY <1>1, <1>3, AppendProperties
<1>5. (\A k \in 1..n : w[k] \in symbols) /\ (\A k \in 1..n+1 : v[k] \in symbols)
  BY <1>1, <1>4, ElementOfSeq
<1>6. PICK f : WordLayers(f, A, states, S, w) /\ PostWord(A, S, w) = f[n]
  <2>1. Len(w) \in Nat /\ \A k \in 1..Len(w) : \A T \in SUBSET states : Post(A, T, w[k]) \in SUBSET states
    BY <1>1, <1>2, <1>5
  <2> QED BY ONLY <1>1, <2>1, S \in SUBSET states, PostWordLayers
<1>7. PICK g : WordLayers(g, A, states, S, v) /\ PostWord(A, S, v) = g[n+1]
  <2>1. Len(v) \in Nat /\ \A k \in 1..Len(v) : \A T \in SUBSET states : Post(A, T, v[k]) \in SUBSET states
    BY <1>2, <1>4, <1>5
  <2>2. \E g : WordLayers(g, A, states, S, v) /\ PostWord(A, S, v) = g[Len(v)]
    BY ONLY <2>1, S \in SUBSET states, PostWordLayers
  <2> QED BY <1>4, <2>2
<1>8. /\ f \in [0..n -> SUBSET states] /\ f[0] = S
      /\ \A k \in 1..n : f[k] = Post(A, f[k-1], w[k])
  BY <1>1, <1>6 DEF WordLayers
<1>9. g[0] = S /\ \A k \in 1..n+1 : g[k] = Post(A, g[k-1], v[k])
  BY <1>4, <1>7 DEF WordLayers
<1> DEFINE Good == {k \in 0..n : f[k] = g[k]}
<1>10. \A k \in 0..n : k \in Good
  <2>1. 0 \in Good
    BY <1>8, <1>9
  <2>2. ASSUME NEW k \in 1..n, k-1 \in Good PROVE k \in Good
    <3>1. k \in 1..n+1 /\ k \in 0..n /\ f[k-1] = g[k-1]
      BY <2>2
    <3> QED BY <1>4, <1>8, <1>9, <3>1
  <2>3. Good \in SUBSET (0..n) OBVIOUS
  <2> HIDE DEF Good
  <2> QED BY <2>1, <2>2, <2>3, UpTo
<1>11. g[n+1] = Post(A, f[n], a)
  <2>1. n+1 \in 1..n+1 /\ (n+1)-1 = n /\ n \in 0..n
    OBVIOUS
  <2> QED BY <1>4, <1>9, <1>10, <2>1
<1> QED BY <1>3, <1>6, <1>7, <1>11

(* A word leads only where moves do.                                       *)
LEMMA PostWordInClosure ==
  ASSUME NEW states, IsFiniteSet(states), NEW symbols,
         NEW A \in AutomataOver(states, symbols), NEW S \in SUBSET states,
         NEW w \in Seq(symbols)
  PROVE  PostWord(A, S, w) \subseteq Closure(AutSuccessors(A), S)
<1> DEFINE G == AutSuccessors(A)
           C == Closure(G, S)
<1>1. /\ IsGraph(G) /\ DOMAIN G = states
      /\ \A q \in states : G[q] = UNION {A.delta[q][a] : a \in symbols}
  BY ONLY IsFiniteSet(states), A \in AutomataOver(states, symbols), AutomatonGraph
<1>2. S \subseteq C /\ C \in SUBSET states /\ ClosedUnder(G, C)
  <2> HIDE DEF G
  <2> QED BY <1>1, ClosureContains, ClosureType, ClosureClosed
<1>3. PICK n \in Nat : n = Len(w) /\ \A k \in 1..n : w[k] \in symbols
  BY LenProperties, ElementOfSeq
<1>4. PICK f : WordLayers(f, A, states, S, w) /\ PostWord(A, S, w) = f[n]
  <2>1. Len(w) \in Nat /\ \A k \in 1..Len(w) : \A T \in SUBSET states : Post(A, T, w[k]) \in SUBSET states
    BY <1>3 DEF Post, AutomataOver
  <2> QED BY ONLY <1>3, <2>1, S \in SUBSET states, PostWordLayers
<1>5. f[0] = S /\ \A k \in 1..n : f[k] = Post(A, f[k-1], w[k])
  BY <1>3, <1>4 DEF WordLayers
<1> HIDE DEF G, C
<1> DEFINE Good == {k \in 0..n : f[k] \subseteq C}
<1>6. 0 \in Good
  BY <1>2, <1>5
<1>7. ASSUME NEW k \in 1..n, k-1 \in Good PROVE k \in Good
  <2>1. f[k-1] \subseteq C /\ k \in 0..n /\ w[k] \in symbols
    BY <1>3, <1>7
  <2>2. ASSUME NEW r \in Post(A, f[k-1], w[k]) PROVE r \in C
    <3>1. PICK q \in f[k-1] : r \in A.delta[q][w[k]]
      BY <2>2 DEF Post
    <3>2. r \in G[q] /\ q \in C
      BY <1>1, <1>2, <2>1, <3>1
    <3> QED BY <1>2, <3>2 DEF ClosedUnder
  <2> QED BY <1>5, <2>1, <2>2
<1>8. \A k \in 0..n : k \in Good
  <2>1. Good \in SUBSET (0..n) OBVIOUS
  <2> HIDE DEF Good
  <2> QED BY <1>6, <1>7, <2>1, UpTo
<1> QED BY <1>4, <1>8 DEF C, G

(* An automaton without useful states accepts nothing.                     *)
LEMMA NothingUseful ==
  ASSUME NEW states, IsFiniteSet(states), NEW symbols,
         NEW A \in AutomataOver(states, symbols), NEW w \in Seq(symbols),
         Accepts(A, w)
  PROVE  UsefulStates(A) # {}
<1> DEFINE G == AutSuccessors(A)
<1>1. IsGraph(G) /\ DOMAIN G = states
  BY ONLY IsFiniteSet(states), A \in AutomataOver(states, symbols), AutomatonGraph
<1>2. A.initial \in SUBSET states /\ A.final \in SUBSET states
  BY DEF AutomataOver
<1>3. PICK q \in states : q \in PostWord(A, A.initial, w) /\ q \in A.final
  BY <1>2 DEF Accepts
<1>4. q \in Closure(G, A.initial)
  BY <1>2, <1>3, PostWordInClosure
<1>5. Reaches(G, q, q)
  <2> HIDE DEF G
  <2> QED BY <1>1, ReachesSelf
<1>6. q \in CoClosure(G, A.final)
  <2> HIDE DEF G
  <2> QED BY <1>1, <1>3, <1>5 DEF CoClosure, Reaches
<1> QED BY <1>4, <1>6 DEF UsefulStates
=============================================================================
