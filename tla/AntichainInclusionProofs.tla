---------------------- MODULE AntichainInclusionProofs ----------------------
(***************************************************************************)
(* The antichain inclusion check answers right for every pair of automata: *)
(* pairs that are dropped stay represented, and leaving the search by the  *)
(* distances to final states is never wrong.                               *)
(***************************************************************************)
EXTENDS AntichainInclusion, AutomataProofs

(***************************************************************************)
(* Distances to final states.                                              *)
(***************************************************************************)

(* There are finitely many states, so Far is a number.                     *)
LEMMA FarIsNat == Far \in Nat /\ Far >= 1
BY AntichainAssumption, FS_CardinalityType DEF Far

\* What the layers of distances_to_final() are, for the states Q of A.
NearLayers(near, A, Q) ==
  /\ near \in [0..Far-1 -> SUBSET Q]
  /\ near[0] = A.final
  /\ \A n \in 1..Far-1 :
       near[n] = near[n-1] \cup {q \in Q : AutSuccessors(A)[q] \cap near[n-1] # {}}

DistanceBy(near, A, Q) ==
  [q \in Q |-> IF q \in near[Far-1]
               THEN Cardinality({n \in 0..Far-1 : q \notin near[n]}) ELSE Far]

(* The recursive definition of the layers has the value it describes.      *)
LEMMA LayersExist ==
  ASSUME NEW Q, NEW A \in AutomataOver(Q, Symbol)
  PROVE  \E near : NearLayers(near, A, Q)
                     /\ distances_to_final(A) = DistanceBy(near, A, Q)
<1> DEFINE F == Far-1
           Nxt(T) == T \cup {q \in AutStates(A) : AutSuccessors(A)[q] \cap T # {}}
           IsRun(g) == g = [n \in 0..F |-> IF n = 0 THEN A.final ELSE Nxt(g[n-1])]
           w == CHOOSE g : IsRun(g)
           step == [i \in 1..F |-> [T \in SUBSET Q |-> Nxt(T)]]
<1>1. F \in Nat
  BY FarIsNat
<1>2. AutStates(A) = Q /\ A.final \in SUBSET Q
  BY DEF AutStates, AutomataOver
<1>3. \A T \in SUBSET Q : Nxt(T) \in SUBSET Q
  BY <1>2
<1>4. Steps(step, F, SUBSET Q)
  <2> HIDE DEF Nxt, F
  <2> QED BY <1>3 DEF Steps
<1>5. PICK g : IsIteration(g, F, SUBSET Q, A.final, step)
  <2> HIDE DEF step, F
  <2>1. PICK U : U = SUBSET Q
    OBVIOUS
  <2>2. A.final \in U /\ Steps(step, F, U)
    BY <1>2, <1>4, <2>1
  <2>3. \E g : IsIteration(g, F, U, A.final, step)
    BY ONLY <1>1, <2>2, Iteration
  <2> QED BY <2>1, <2>3
<1>6. \A i \in 0..F : i # 0 => i \in 1..F /\ g[i] = Nxt(g[i-1])
  <2> HIDE DEF Nxt, F
  <2> TAKE i \in 0..F
  <2>1. i # 0 => i \in 1..F /\ i-1 \in 0..F
    BY <1>1
  <2> QED BY <1>5, <2>1 DEF IsIteration
<1>7. IsRun(g)
  <2> HIDE DEF Nxt, F, step
  <2> QED BY <1>5, <1>6 DEF IsIteration
<1>8. IsRun(w)
  <2> HIDE DEF IsRun
  <2> QED BY <1>7
<1>9. /\ w[0] = A.final
      /\ \A n \in 1..F : w[n] = Nxt(w[n-1])
  <2> HIDE DEF w, Nxt, F
  <2>1. 0 \in 0..F /\ \A n \in 1..F : n \in 0..F /\ n # 0
    BY <1>1
  <2> QED BY <1>8, <2>1
<1>10. \A n \in 0..F : w[n] \in SUBSET Q
  <2> HIDE DEF w, Nxt, F
  <2> DEFINE Good == {n \in 0..F : w[n] \in SUBSET Q}
  <2>1. 0 \in Good
    BY <1>1, <1>2, <1>9
  <2>2. ASSUME NEW n \in 1..F, n-1 \in Good PROVE n \in Good
    <3>1. n \in 0..F
      BY <1>1
    <3> QED BY <1>3, <1>9, <2>2, <3>1
  <2>3. \A n \in 0..F : n \in Good
    <3> HIDE DEF Good
    <3>1. Good \in SUBSET (0..F) BY DEF Good
    <3> QED BY <1>1, <2>1, <2>2, <3>1, UpTo
  <2> QED BY <2>3
<1>11. NearLayers(w, A, Q)
  <2>1. DOMAIN w = 0..F
    <3> HIDE DEF w, Nxt, F
    <3> QED BY <1>8
  <2>2. w = [n \in 0..F |-> w[n]]
    <3> HIDE DEF w, Nxt, F
    <3> QED BY <1>8
  <2>3. w \in [0..F -> SUBSET Q]
    <3> HIDE DEF w, Nxt, F, IsRun
    <3> QED BY <1>10, <2>2
  <2> HIDE DEF w
  <2> QED BY <1>2, <1>9, <2>3 DEF NearLayers
<1>12. distances_to_final(A) = DistanceBy(w, A, Q)
  BY <1>2 DEF distances_to_final, DistanceBy
<1> QED BY <1>11, <1>12

(* A state lies in the layers from its distance on.                        *)
LEMMA LayerOfDistance ==
  ASSUME NEW Q, NEW A \in AutomataOver(Q, Symbol), NEW near, NearLayers(near, A, Q),
         NEW q \in Q
  PROVE  LET d == DistanceBy(near, A, Q)[q]
         IN  d \in 0..Far /\ \A n \in 0..Far-1 : q \in near[n] <=> d <= n
<1> DEFINE F == Far-1
           d == DistanceBy(near, A, Q)[q]
<1>1. F \in Nat /\ Far = F+1
  BY FarIsNat
<1>2. \A n \in 1..F : near[n-1] \subseteq near[n]
  BY DEF NearLayers
<1> HIDE DEF F
<1>3. ASSUME NEW m \in 0..F, q \in near[m] PROVE \A n \in m..F : q \in near[n]
  <2> DEFINE Good == {k \in 0..F-m : q \in near[m+k]}
  <2>1. 0 \in Good
    BY <1>1, <1>3
  <2>2. ASSUME NEW k \in 1..F-m, k-1 \in Good PROVE k \in Good
    <3>1. m+k \in 1..F /\ (m+k)-1 = m+(k-1) /\ k \in 0..F-m
      BY <1>1
    <3> QED BY <1>2, <2>2, <3>1
  <2>3. \A k \in 0..F-m : k \in Good
    <3> HIDE DEF Good
    <3>1. Good \in SUBSET (0..F-m) /\ F-m \in Nat BY <1>1 DEF Good
    <3> QED BY <2>1, <2>2, <3>1, UpTo
  <2>4. \A n \in m..F : n-m \in 0..F-m /\ m+(n-m) = n
    BY <1>1
  <2> QED BY <2>3, <2>4
<1>4. CASE q \notin near[F]
  <2>1. d = Far
    BY <1>4 DEF F, DistanceBy
  <2>2. \A n \in 0..F : q \notin near[n]
    <3> TAKE n \in 0..F
    <3>1. F \in n..F
      BY <1>1
    <3> QED BY <1>3, <1>4, <3>1
  <2> HIDE DEF d
  <2> QED BY <1>1, <2>1, <2>2 DEF d, F
<1>5. CASE q \in near[F]
  <2> DEFINE T == {n \in 0..F : q \in near[n]}
  <2>1. PICK m \in T : \A n \in T : m <= n
    <3>1. F \in T /\ T \in SUBSET Nat
      BY <1>1, <1>5
    <3> HIDE DEF T
    <3> QED BY <3>1, LeastNumber
  <2>2. \A n \in 0..F : q \in near[n] <=> m <= n
    <3> TAKE n \in 0..F
    <3>1. ASSUME m <= n PROVE n \in m..F
      BY <1>1, <2>1, <3>1
    <3> QED BY <1>3, <2>1, <3>1
  <2>3. {n \in 0..F : q \notin near[n]} = 0..m-1
    BY <1>1, <2>1, <2>2
  <2>4. Cardinality(0..m-1) = m /\ m \in 0..F
    BY <2>1, <1>1, FS_Interval
  <2>5. d = m
    BY <1>5, <2>3, <2>4 DEF F, DistanceBy
  <2> HIDE DEF d
  <2> QED BY <1>1, <2>2, <2>4, <2>5 DEF d, F
<1> QED BY <1>4, <1>5

\* Distances count the moves to the nearest final state; Far is out of reach.
Distances(dist, A, Q) ==
  /\ \A q \in Q : dist[q] \in 0..Far /\ (q \in A.final <=> dist[q] = 0)
  /\ \A q \in Q, a \in Symbol : \A r \in A.delta[q][a] : dist[q] <= dist[r] + 1
  /\ \A q \in Q : dist[q] # 0 /\ dist[q] # Far =>
       \E a \in Symbol : \E r \in A.delta[q][a] : dist[r] < dist[q]

(* distances_to_final() computes them.                                     *)
LEMMA DistancesRight ==
  ASSUME NEW Q, NEW A \in AutomataOver(Q, Symbol)
  PROVE  Distances(distances_to_final(A), A, Q)
<1>1. PICK near : NearLayers(near, A, Q) /\ distances_to_final(A) = DistanceBy(near, A, Q)
  BY LayersExist
<1> DEFINE F == Far-1
           dist == DistanceBy(near, A, Q)
<1>2. F \in Nat /\ Far = F+1
  BY FarIsNat
<1>3. \A q \in Q : dist[q] \in 0..Far /\ \A n \in 0..F : q \in near[n] <=> dist[q] <= n
  BY <1>1, LayerOfDistance
<1>4. /\ near[0] = A.final
      /\ \A n \in 1..F : near[n] = near[n-1] \cup
                           {q \in Q : AutSuccessors(A)[q] \cap near[n-1] # {}}
  BY <1>1 DEF NearLayers
<1>5. \A q \in Q : AutSuccessors(A)[q] = UNION {A.delta[q][a] : a \in Symbol}
  BY DEF AutSuccessors, AutStates, AutomataOver
<1>6. \A q \in Q, a \in Symbol : A.delta[q][a] \subseteq Q
  BY DEF AutomataOver
<1> HIDE DEF F, dist
<1>7. ASSUME NEW q \in Q PROVE q \in A.final <=> dist[q] = 0
  <2>1. 0 \in 0..F /\ dist[q] \in 0..Far
    BY <1>2, <1>3
  <2>2. q \in near[0] <=> dist[q] <= 0
    BY <1>3, <2>1
  <2> QED BY <1>4, <2>1, <2>2, <1>2
<1>8. ASSUME NEW q \in Q, NEW a \in Symbol, NEW r \in A.delta[q][a]
      PROVE  dist[q] <= dist[r] + 1
  <2>1. r \in Q /\ r \in AutSuccessors(A)[q] /\ dist[q] \in 0..Far /\ dist[r] \in 0..Far
    BY <1>3, <1>5, <1>6
  <2>2. CASE dist[r] + 1 \in 1..F
    <3> DEFINE n == dist[r] + 1
    <3>1. n-1 = dist[r] /\ n-1 \in 0..F /\ n \in 0..F
      BY <1>2, <2>1, <2>2
    <3>2. r \in near[n-1]
      BY <1>3, <2>1, <3>1
    <3>3. q \in near[n]
      BY <1>4, <2>1, <2>2, <3>2
    <3> QED BY <1>3, <3>1, <3>3
  <2>3. CASE dist[r] + 1 \notin 1..F
    BY <1>2, <2>1, <2>3
  <2> QED BY <2>2, <2>3
<1>9. ASSUME NEW q \in Q, dist[q] # 0, dist[q] # Far
      PROVE  \E a \in Symbol : \E r \in A.delta[q][a] : dist[r] < dist[q]
  <2> DEFINE n == dist[q]
  <2>1. n \in 1..F /\ n-1 \in 0..F /\ n \in 0..F
    BY <1>2, <1>3, <1>9
  <2>2. q \in near[n] /\ q \notin near[n-1]
    BY <1>3, <2>1
  <2>3. AutSuccessors(A)[q] \cap near[n-1] # {}
    BY <1>4, <2>1, <2>2
  <2>4. PICK a \in Symbol : A.delta[q][a] \cap near[n-1] # {}
    BY <1>5, <2>3
  <2>5. PICK r \in A.delta[q][a] : r \in near[n-1]
    BY <2>4
  <2>6. r \in Q /\ dist[r] <= n-1
    BY <1>3, <1>6, <2>1, <2>5
  <2>7. dist[r] < n
    BY <1>3, <2>1, <2>6
  <2> QED BY <2>5, <2>7
<1>10. Distances(dist, A, Q)
  BY <1>3, <1>7, <1>8, <1>9 DEF Distances
<1> QED BY <1>1, <1>10 DEF dist

(* min_dst(S) is below every distance of a state of S.                     *)
LEMMA MinDistance ==
  ASSUME NEW S, \A q \in S : distances_bigger[q] \in 0..Far
  PROVE  /\ min_dst(S) \in 0..Far
         /\ \A q \in S : min_dst(S) <= distances_bigger[q]
         /\ min_dst(S) = Far \/ \E q \in S : min_dst(S) = distances_bigger[q]
<1> DEFINE T == {Far} \cup {distances_bigger[q] : q \in S}
<1>1. Far \in Nat
  BY FarIsNat
<1>2. T \in SUBSET (0..Far) /\ T # {}
  BY <1>1
<1>3. \E m \in T : \A n \in T : m <= n
  <2>1. T \in SUBSET Nat
    BY <1>1, <1>2
  <2> HIDE DEF T
  <2> QED BY <1>2, <2>1, LeastNumber
<1>4. min_dst(S) \in T /\ \A n \in T : min_dst(S) <= n
  BY <1>3 DEF min_dst, Min
<1> QED BY <1>2, <1>4

(***************************************************************************)
(* Pairs that words lead to.                                               *)
(***************************************************************************)

InputOK ==
  /\ smaller \in AutomataOver(StateS, Symbol) /\ bigger \in AutomataOver(StateB, Symbol)
  /\ distances_smaller = distances_to_final(smaller)
  /\ distances_bigger = distances_to_final(bigger)

Met == MetPairs(smaller, bigger)

(* There are finitely many pairs, and a move leads from a pair to a pair.  *)
LEMMA PairGraph ==
  ASSUME InputOK
  PROVE  /\ IsGraph(PairSteps(smaller, bigger))
         /\ DOMAIN PairSteps(smaller, bigger) = Pair
         /\ {<<q, bigger.initial>> : q \in smaller.initial} \in SUBSET Pair
         /\ \A p \in Pair : \A m \in MovesOf(smaller, p[1]) :
              <<m[2], Post(bigger, p[2], m[1])>> \in PairSteps(smaller, bigger)[p]
<1>1. IsFiniteSet(Pair)
  <2>1. IsFiniteSet(SUBSET StateB)
    BY AntichainAssumption, FS_SUBSET
  <2> QED BY <2>1, AntichainAssumption, FS_Product DEF Pair
<1>2. DOMAIN PairSteps(smaller, bigger) = Pair
  BY DEF PairSteps
<1>3. \A p \in Pair : PairSteps(smaller, bigger)[p] \subseteq Pair
  BY DEF PairSteps
<1>4. {<<q, bigger.initial>> : q \in smaller.initial} \in SUBSET Pair
  BY DEF InputOK, AutomataOver, Pair
<1>5. ASSUME NEW p \in Pair, NEW m \in MovesOf(smaller, p[1])
      PROVE  <<m[2], Post(bigger, p[2], m[1])>> \in PairSteps(smaller, bigger)[p]
  <2>1. m[1] \in Symbol /\ m[2] \in StateS /\ m[2] \in smaller.delta[p[1]][m[1]]
    BY <1>5 DEF MovesOf
  <2>2. Post(bigger, p[2], m[1]) \in SUBSET StateB
    BY <2>1 DEF Post, InputOK, AutomataOver, Pair
  <2>3. <<m[2], Post(bigger, p[2], m[1])>> \in Pair
    BY <2>1, <2>2 DEF Pair
  <2> QED BY <2>1, <2>3 DEF PairSteps
<1> QED BY <1>1, <1>2, <1>3, <1>4, <1>5 DEF IsGraph

(* What is met: the initial pairs and the successors of what is met.       *)
LEMMA MetFacts ==
  ASSUME InputOK
  PROVE  /\ Met \subseteq Pair
         /\ \A q \in smaller.initial : <<q, bigger.initial>> \in Met
         /\ \A p \in Met : \A m \in MovesOf(smaller, p[1]) :
              <<m[2], Post(bigger, p[2], m[1])>> \in Met
<1> DEFINE G == PairSteps(smaller, bigger)
           First == {<<q, bigger.initial>> : q \in smaller.initial}
<1>1. IsGraph(G) /\ DOMAIN G = Pair /\ First \in SUBSET DOMAIN G
  BY PairGraph
<1>2. /\ Closure(G, First) \in SUBSET DOMAIN G
      /\ First \subseteq Closure(G, First)
      /\ ClosedUnder(G, Closure(G, First))
  <2> HIDE DEF G, First
  <2> QED BY <1>1, ClosureType, ClosureContains, ClosureClosed
<1>3. Met = Closure(G, First)
  BY DEF Met, MetPairs
<1>4. \A p \in Met : p \in Pair /\ G[p] \subseteq Met
  <2> HIDE DEF G, First
  <2> QED BY <1>1, <1>2, <1>3 DEF ClosedUnder
<1> QED BY <1>1, <1>2, <1>3, <1>4, PairGraph

(* A pair whose distances disagree leads to one that refutes inclusion: a  *)
(* shortest word that smaller accepts from it is too short for bigger.     *)
LEMMA TooShort ==
  ASSUME InputOK, NEW p0 \in Met, lengths_incompatible(p0)
  PROVE  ~ Included(smaller, bigger)
<1>1. /\ Distances(distances_smaller, smaller, StateS)
      /\ Distances(distances_bigger, bigger, StateB)
  BY DistancesRight DEF InputOK
<1> DEFINE Bad == {p \in Met : lengths_incompatible(p)}
           T == {distances_smaller[p[1]] : p \in Bad}
<1>2. Far \in Nat
  BY FarIsNat
<1>3. Met \subseteq StateS \X SUBSET StateB
  BY MetFacts DEF Pair
<1>4. \A p \in Met : /\ distances_smaller[p[1]] \in 0..Far
                     /\ \A q \in p[2] : distances_bigger[q] \in 0..Far
  BY <1>1, <1>3 DEF Distances
<1>5. PICK k \in T : \A n \in T : k <= n
  <2>1. T \in SUBSET Nat /\ T # {}
    BY <1>2, <1>4
  <2> HIDE DEF T
  <2> QED BY <2>1, LeastNumber
<1>6. PICK p \in Bad : distances_smaller[p[1]] = k
  BY <1>5
<1>7. /\ p \in Met /\ p[1] \in StateS /\ p[2] \in SUBSET StateB
      /\ distances_smaller[p[1]] < min_dst(p[2])
  BY <1>3, <1>6 DEF lengths_incompatible
<1>8. /\ min_dst(p[2]) \in 0..Far
      /\ \A q \in p[2] : min_dst(p[2]) <= distances_bigger[q]
  BY <1>4, <1>7, MinDistance
<1>9. CASE k = 0
  <2>1. p[1] \in smaller.final
    BY <1>1, <1>6, <1>7, <1>9 DEF Distances
  <2>2. ASSUME NEW q \in p[2] PROVE q \notin bigger.final
    <3>1. q \in StateB /\ distances_bigger[q] # 0
      BY <1>2, <1>4, <1>6, <1>7, <1>8, <1>9
    <3> QED BY <1>1, <3>1 DEF Distances
  <2> QED BY <1>7, <2>1, <2>2 DEF Included, Met
<1>10. CASE k # 0
  <2>1. distances_smaller[p[1]] # 0 /\ distances_smaller[p[1]] # Far
    BY <1>2, <1>4, <1>6, <1>7, <1>8, <1>10
  <2>2. PICK a \in Symbol : \E r \in smaller.delta[p[1]][a] : distances_smaller[r] < k
    BY <1>1, <1>6, <1>7, <2>1 DEF Distances
  <2>3. PICK r \in smaller.delta[p[1]][a] : distances_smaller[r] < k
    BY <2>2
  <2> DEFINE m == <<a, r>>
             S == Post(bigger, p[2], a)
             s == <<r, S>>
  <2>4. r \in StateS
    BY <1>7 DEF InputOK, AutomataOver
  <2>5. m \in MovesOf(smaller, p[1])
    BY <2>4 DEF MovesOf
  <2>6. s \in Met
    BY <1>7, <2>5, MetFacts
  <2>7. \A q \in S : distances_bigger[q] \in 0..Far /\ k <= distances_bigger[q]
    <3> TAKE q1 \in S
    <3>1. PICK q \in p[2] : q1 \in bigger.delta[q][a]
      BY DEF Post
    <3>2. q \in StateB /\ distances_bigger[q] <= distances_bigger[q1] + 1
      BY <1>1, <1>7, <3>1 DEF Distances
    <3>3. distances_bigger[q1] \in 0..Far
      BY <1>4, <2>6
    <3>4. distances_bigger[q] \in 0..Far /\ k < distances_bigger[q]
      BY <1>2, <1>4, <1>6, <1>7, <1>8, <3>1
    <3>5. k \in 0..Far
      BY <1>4, <1>6
    <3> QED BY <1>2, <3>2, <3>3, <3>4, <3>5
  <2>8. min_dst(S) \in 0..Far /\ k <= min_dst(S)
    <3> HIDE DEF S
    <3>1. /\ min_dst(S) \in 0..Far
          /\ min_dst(S) = Far \/ \E q \in S : min_dst(S) = distances_bigger[q]
      BY <2>7, MinDistance
    <3>2. k \in 0..Far
      BY <1>4, <1>6
    <3> QED BY <1>2, <2>7, <3>1, <3>2
  <2>9. distances_smaller[r] \in 0..Far /\ k \in 0..Far
    BY <1>4, <1>6, <2>6
  <2>10. distances_smaller[r] < min_dst(S)
    <3> HIDE DEF S
    <3> QED BY <1>2, <2>3, <2>8, <2>9
  <2>11. s \in Bad
    <3> HIDE DEF S
    <3> QED BY <2>6, <2>10 DEF lengths_incompatible
  <2>12. distances_smaller[r] \in T
    BY <2>11
  <2> HIDE DEF T
  <2> QED BY <1>2, <1>5, <2>3, <2>9, <2>12
<1> QED BY <1>9, <1>10

(***************************************************************************)
(* Lists of pairs.                                                         *)
(***************************************************************************)

(* erase_if() keeps exactly the pairs that are not subsumed.               *)
LEMMA UnsubsumedRight ==
  ASSUME NEW list \in Seq(Pair), NEW p
  PROVE  /\ Unsubsumed(list, p) \in Seq(Pair)
         /\ Range(Unsubsumed(list, p)) = {r \in Range(list) : ~ subsumes(p, r)}
<1> DEFINE N == Len(list)
           U == Seq(Pair)
           Nxt(i, b) == IF subsumes(p, list[i]) THEN b ELSE Append(b, list[i])
           IsRun(g) == g = [n \in 0..N |-> IF n = 0 THEN << >> ELSE Nxt(n, g[n-1])]
           w == CHOOSE g : IsRun(g)
           step == [i \in 1..N |-> [b \in U |-> Nxt(i, b)]]
<1>1. N \in Nat /\ list \in [1..N -> Pair] /\ << >> \in U
  BY LenProperties, EmptySeq
<1>2. \A i \in 1..N : \A b \in U : Nxt(i, b) \in U
  BY <1>1, AppendTo
<1>3. Steps(step, N, U)
  <2> HIDE DEF Nxt, N, U
  <2> QED BY <1>2 DEF Steps
<1>4. PICK g : IsIteration(g, N, U, << >>, step)
  <2> HIDE DEF step, N, U
  <2> QED BY ONLY <1>1, <1>3, Iteration
<1>5. \A i \in 0..N : i # 0 => i \in 1..N /\ g[i] = Nxt(i, g[i-1])
  <2> HIDE DEF Nxt, N, U
  <2> TAKE i \in 0..N
  <2>1. i # 0 => i \in 1..N /\ i-1 \in 0..N
    BY <1>1
  <2> QED BY <1>4, <2>1 DEF IsIteration
<1>6. IsRun(g)
  <2> HIDE DEF Nxt, N, U, step
  <2> QED BY <1>4, <1>5 DEF IsIteration
<1>7. IsRun(w)
  <2> HIDE DEF IsRun
  <2> QED BY <1>6
<1>8. Unsubsumed(list, p) = w[N]
  BY DEF Unsubsumed
<1> HIDE DEF w
<1>9. w[0] = << >> /\ \A n \in 1..N : w[n] = Nxt(n, w[n-1])
  <2> HIDE DEF Nxt, N
  <2>1. 0 \in 0..N /\ \A n \in 1..N : n \in 0..N /\ n # 0
    BY <1>1
  <2> QED BY <1>7, <2>1
<1> DEFINE Kept(n) == {r \in {list[i] : i \in 1..n} : ~ subsumes(p, r)}
           Good == {n \in 0..N : w[n] \in U /\ Range(w[n]) = Kept(n)}
<1>10. 0 \in Good
  <2>1. Range(<< >>) = {}
    BY DEF Range
  <2>2. Kept(0) = {}
    OBVIOUS
  <2>3. 0 \in 0..N
    BY <1>1
  <2> HIDE DEF Kept
  <2> QED BY <1>1, <1>9, <2>1, <2>2, <2>3
<1>11. ASSUME NEW n \in 1..N, n-1 \in Good PROVE n \in Good
  <2>1. w[n-1] \in U /\ Range(w[n-1]) = Kept(n-1) /\ n \in 0..N /\ list[n] \in Pair
    BY <1>1, <1>11
  <2>2. w[n] = Nxt(n, w[n-1])
    BY <1>9
  <2>3. 1..n = (1..n-1) \cup {n}
    BY <1>1
  <2>4. CASE subsumes(p, list[n])
    <3>1. Kept(n) = Kept(n-1)
      BY <2>3, <2>4
    <3>2. w[n] = w[n-1]
      BY <2>2, <2>4
    <3> HIDE DEF Kept
    <3> QED BY <2>1, <3>1, <3>2
  <2>5. CASE ~ subsumes(p, list[n])
    <3>1. Kept(n) = Kept(n-1) \cup {list[n]}
      BY <2>3, <2>5
    <3>2. w[n] = Append(w[n-1], list[n])
      BY <2>2, <2>5
    <3>3. /\ Append(w[n-1], list[n]) \in U
          /\ Range(Append(w[n-1], list[n])) = Range(w[n-1]) \cup {list[n]}
      BY <2>1, AppendTo
    <3> HIDE DEF Kept, U
    <3> QED BY <2>1, <3>1, <3>2, <3>3
  <2> QED BY <2>4, <2>5
<1>12. N \in Good
  <2> HIDE DEF Good
  <2>1. Good \in SUBSET (0..N) BY DEF Good
  <2>2. \A n \in 0..N : n \in Good
    BY <1>1, <1>10, <1>11, <2>1, UpTo
  <2> QED BY <1>1, <2>2
<1>13. Range(list) = {list[i] : i \in 1..N}
  BY <1>1 DEF Range
<1> QED BY <1>8, <1>12, <1>13

(* A list of all elements of a finite set, in any order.                   *)
LEMMA ListOfSet ==
  ASSUME NEW S, IsFiniteSet(S), NEW s \in SetToSeqs(S)
  PROVE  s \in Seq(S) /\ Range(s) = S
<1> DEFINE n == Cardinality(S)
<1>1. n \in Nat
  BY FS_CardinalityType
<1>2. s \in [1..n -> S] /\ \A i, j \in 1..n : i # j => s[i] # s[j]
  BY DEF SetToSeqs
<1>3. s \in Seq(S)
  BY <1>1, <1>2, SeqDef
<1>4. Range(s) = {s[i] : i \in 1..n} /\ Range(s) \subseteq S
  BY <1>2 DEF Range
<1>5. Cardinality(Range(s)) = n
  <2>1. IsFiniteSet(1..n) /\ Cardinality(1..n) = n
    BY <1>1, FS_Interval
  <2>2. s \in Surjection(1..n, Range(s))
    BY <1>2, <1>4 DEF Surjection
  <2>3. s \in Injection(1..n, Range(s))
    BY <1>2, <1>4 DEF Injection, IsInjective
  <2>4. s \in Bijection(1..n, Range(s))
    BY <2>2, <2>3 DEF Bijection
  <2>5. ExistsBijection(1..n, Range(s))
    BY <2>4 DEF ExistsBijection
  <2>6. IsFiniteSet(Range(s))
    BY <1>4, FS_Subset
  <2> QED BY <2>1, <2>5, <2>6, FS_Bijection
<1> QED BY <1>3, <1>4, <1>5, FS_Subset

-----------------------------------------------------------------------------
\* Words lead to what is kept and to what is in hand.
AllMet ==
  /\ processed \subseteq Met /\ processed \subseteq DOMAIN paths
  /\ todo # {} => prod_state \in Met /\ todo \subseteq MovesOf(smaller, prod_state[1])

IInv == InputOK /\ AntichainSound /\ AllMet /\ AnswerExact

(* Subsumption is an order, and the smaller pair sees less of bigger.      *)
LEMMA SubsumesOrder ==
  /\ \A p : subsumes(p, p)
  /\ \A p, r, s : subsumes(p, r) /\ subsumes(r, s) => subsumes(p, s)
  /\ \A p, r, a, q : subsumes(p, r) =>
       subsumes(<<q, Post(bigger, p[2], a)>>, <<q, Post(bigger, r[2], a)>>)
BY DEF subsumes, Post

(* The initial pairs are an antichain, or the empty word refutes.          *)
LEMMA InitHolds == Init => IInv
<1> SUFFICES ASSUME Init PROVE IInv
  OBVIOUS
<1> DEFINE first == {<<q, bigger.initial>> : q \in smaller.initial}
           empty == {q \in smaller.initial : q \in smaller.final
                                               /\ bigger.initial \cap bigger.final = {}}
<1>1. InputOK
  BY AntichainAssumption DEF Init, InputOK
<1>2. todo = {}
  BY DEF Init
<1>3. first \in SUBSET Pair /\ first \subseteq Met
  BY <1>1, PairGraph, MetFacts
<1>4. CASE empty # {}
  <2>1. /\ answer = "not included" /\ worklist = << >>
        /\ processed = {} /\ paths = << >>
    BY <1>4 DEF Init
  <2>2. TypeOK
    <3>1. DOMAIN << >> = {} /\ << >> \in Seq(Pair)
      OBVIOUS
    <3> QED BY <1>2, <2>1, <3>1 DEF TypeOK
  <2>3. Antichain /\ Covered /\ AllMet
    <3>1. Range(<< >>) = {}
      BY DEF Range
    <3> QED BY <1>2, <2>1, <3>1 DEF Antichain, Covered, AllMet
  <2>4. PICK q \in smaller.initial : q \in smaller.final /\ bigger.initial \cap bigger.final = {}
    BY <1>4
  <2>5. <<q, bigger.initial>> \in Met
    BY <1>1, MetFacts
  <2>6. ~ Included(smaller, bigger)
    BY <2>4, <2>5 DEF Included, Met
  <2> QED BY <1>1, <2>1, <2>2, <2>3, <2>6 DEF IInv, AntichainSound, AnswerExact
<1>5. CASE empty = {}
  <2>1. /\ worklist \in SetToSeqs(first) /\ processed = first
        /\ paths = [p \in first |-> [from |-> p, symbol |-> 0]]
        /\ answer = "none"
    BY <1>5 DEF Init
  <2>2. worklist \in Seq(first) /\ Range(worklist) = first
    <3>1. IsFiniteSet(first)
      <4>1. IsFiniteSet(Pair)
        BY <1>1, PairGraph DEF IsGraph
      <4> QED BY <1>3, <4>1, FS_Subset
    <3> HIDE DEF first
    <3> QED BY <2>1, <3>1, ListOfSet
  <2>3. worklist \in Seq(Pair)
    <3> HIDE DEF first
    <3> QED BY <1>3, <2>2, SeqMonotonic
  <2>4. /\ DOMAIN paths = first
        /\ \A p \in first : paths[p].from = p
    <3> HIDE DEF first
    <3> QED BY <2>1
  <2>5. TypeOK
    <3> HIDE DEF first
    <3> QED BY <1>2, <1>3, <2>1, <2>3, <2>4 DEF TypeOK
  <2>6. Antichain
    <3>1. \A p, r \in first : subsumes(p, r) => p = r
      BY DEF subsumes
    <3> HIDE DEF first
    <3> QED BY <2>1, <2>2, <3>1 DEF Antichain
  <2>7. Covered
    <3>1. \A q \in smaller.initial : Subsumed(<<q, bigger.initial>>)
      BY <2>1, SubsumesOrder DEF Subsumed
    <3>2. \A p \in first : ~ shows_cex(p)
      BY <1>5 DEF shows_cex
    <3>3. processed \ Range(worklist) = {}
      BY <2>1, <2>2
    <3> HIDE DEF first
    <3> QED BY <2>1, <3>1, <3>2, <3>3 DEF Covered
  <2>8. AllMet
    BY <1>2, <1>3, <2>1, <2>4 DEF AllMet
  <2> QED BY <1>1, <2>1, <2>5, <2>6, <2>7, <2>8 DEF IInv, AntichainSound, AnswerExact
<1> QED BY <1>4, <1>5

(* Taking a pair leaves its successors to be looked at.                    *)
LEMMA TakePairHolds == IInv /\ TakePair => IInv'
<1> SUFFICES ASSUME IInv, TakePair PROVE IInv'
  OBVIOUS
<1>1. /\ answer = "none" /\ todo = {} /\ worklist # << >>
      /\ prod_state' = Last(worklist) /\ worklist' = Front(worklist)
      /\ todo' = MovesOf(smaller, prod_state'[1])
      /\ UNCHANGED <<input, processed, paths, cex, answer>>
  BY DEF TakePair
<1>2. UNCHANGED <<smaller, bigger, distances_smaller, distances_bigger>>
  BY <1>1 DEF input
<1>3. InputOK /\ TypeOK /\ Antichain /\ Covered /\ AllMet
  BY DEF IInv, AntichainSound
<1>4. /\ worklist' \in Seq(Pair) /\ prod_state' \in Pair
      /\ prod_state' \in Range(worklist)
      /\ Range(worklist) = Range(worklist') \cup {prod_state'}
  <2>1. worklist \in Seq(Pair)
    BY <1>3 DEF TypeOK
  <2> QED BY <1>1, <2>1, FrontOf
<1>5. prod_state' \in processed
  BY <1>3, <1>4 DEF Antichain
<1>6. InputOK' /\ Met' = Met
  BY <1>2, <1>3 DEF InputOK, Met
<1>7. TypeOK'
  <2>1. todo' \subseteq Symbol \X StateS
    BY <1>1 DEF MovesOf
  <2>2. prod_state' \in DOMAIN paths'
    BY <1>1, <1>3, <1>5 DEF AllMet
  <2> QED BY <1>1, <1>3, <1>4, <2>1, <2>2 DEF TypeOK
<1>8. Antichain'
  BY <1>1, <1>3, <1>4 DEF Antichain, subsumes
<1>9. AllMet'
  BY <1>1, <1>2, <1>3, <1>5, <1>6 DEF AllMet
<1>10. Covered'
  <2>1. \A p : Subsumed(p)' <=> Subsumed(p)
    BY <1>1 DEF Subsumed, subsumes
  <2>2. \A p : shows_cex(p)' <=> shows_cex(p)
    BY <1>2 DEF shows_cex
  <2>3. \A p : PairSucc(p)' = PairSucc(p)
    BY <1>2 DEF PairSucc
  <2>4. ASSUME NEW p \in processed', p \notin Range(worklist'), NEW s \in PairSucc(p)'
        PROVE  Subsumed(s)' \/ (p = prod_state' /\ \E m \in todo' : s = succ(m)')
    <3>1. CASE p = prod_state'
      <4>1. PICK m \in MovesOf(smaller, p[1]) : s = <<m[2], Post(bigger, p[2], m[1])>>
        BY <2>3, <2>4 DEF PairSucc
      <4>2. m \in todo' /\ s = succ(m)'
        BY <1>1, <1>2, <3>1, <4>1 DEF succ
      <4> QED BY <3>1, <4>2
    <3>2. CASE p # prod_state'
      <4>1. p \in processed \ Range(worklist) /\ s \in PairSucc(p)
        BY <1>1, <1>4, <2>3, <2>4, <3>2
      <4>2. Subsumed(s)
        BY <1>1, <1>3, <4>1 DEF Covered
      <4> QED BY <2>1, <4>2
    <3> QED BY <3>1, <3>2
  <2> QED BY <1>1, <1>2, <1>3, <2>1, <2>2, <2>4 DEF Covered
<1> QED BY <1>1, <1>6, <1>7, <1>8, <1>9, <1>10 DEF IInv, AntichainSound, AnswerExact

(* What the steps that look at a transition rest on: the pair they look at *)
(* is one that a word leads to.                                            *)
LEMMA MoveFacts ==
  ASSUME IInv, NEW m \in todo, answer = "none"
  PROVE  /\ InputOK /\ TypeOK /\ Antichain /\ Covered /\ AllMet
         /\ m[1] \in Symbol /\ m[2] \in StateS
         /\ succ(m) \in Met /\ succ(m) \in Pair
         /\ prod_state \in DOMAIN paths
<1>1. InputOK /\ TypeOK /\ Antichain /\ Covered /\ AllMet
  BY DEF IInv, AntichainSound
<1>2. prod_state \in Met /\ m \in MovesOf(smaller, prod_state[1])
  BY <1>1 DEF AllMet
<1>3. succ(m) \in Met
  BY <1>1, <1>2, MetFacts DEF succ
<1>4. Met \subseteq Pair
  BY <1>1, MetFacts
<1> QED BY <1>1, <1>2, <1>3, <1>4 DEF MovesOf, TypeOK

(* The search is left early only when inclusion does not hold.             *)
LEMMA RefuteHolds == IInv /\ Refute => IInv'
<1> SUFFICES ASSUME IInv, NEW m \in todo,
                    answer = "none",
                    lengths_incompatible(succ(m)) \/ shows_cex(succ(m)),
                    answer' = "not included",
                    UNCHANGED <<input, worklist, processed, paths, prod_state, todo>>
             PROVE  IInv'
  BY DEF Refute
<1>1. /\ InputOK /\ TypeOK /\ Antichain /\ Covered /\ AllMet
      /\ succ(m) \in Met
  BY MoveFacts
<1>2. UNCHANGED <<smaller, bigger, distances_smaller, distances_bigger>>
  BY DEF input
<1>3. InputOK' /\ Met' = Met
  BY <1>1, <1>2 DEF InputOK, Met
<1>4. TypeOK' /\ Antichain' /\ Covered' /\ AllMet'
  BY <1>1, <1>2, <1>3 DEF TypeOK, Antichain, subsumes, Covered, AllMet
<1>5. ~ Included(smaller, bigger)
  <2>1. CASE lengths_incompatible(succ(m))
    BY <1>1, <2>1, TooShort
  <2>2. CASE shows_cex(succ(m))
    BY <1>1, <2>2 DEF shows_cex, Included, Met
  <2> QED BY <2>1, <2>2
<1>6. AnswerExact'
  BY <1>2, <1>5 DEF AnswerExact
<1> QED BY <1>3, <1>4, <1>6 DEF IInv, AntichainSound

(* A pair that is subsumed can be skipped.                                 *)
LEMMA SkipSubsumedHolds == IInv /\ SkipSubsumed => IInv'
<1> SUFFICES ASSUME IInv, NEW m \in todo,
                    answer = "none", Subsumed(succ(m)), todo' = todo \ {m},
                    UNCHANGED <<input, worklist, processed, paths, prod_state, cex, answer>>
             PROVE  IInv'
  BY DEF SkipSubsumed
<1>1. /\ InputOK /\ TypeOK /\ Antichain /\ Covered /\ AllMet
      /\ succ(m) \in Met
  BY MoveFacts
<1>2. UNCHANGED <<smaller, bigger, distances_smaller, distances_bigger>>
  BY DEF input
<1>3. InputOK' /\ Met' = Met
  BY <1>1, <1>2 DEF InputOK, Met
<1>4. TypeOK' /\ Antichain' /\ AllMet'
  BY <1>1, <1>2, <1>3 DEF TypeOK, Antichain, subsumes, AllMet
<1>5. Covered'
  <2>1. \A p : Subsumed(p)' <=> Subsumed(p)
    BY DEF Subsumed, subsumes
  <2>2. \A p : shows_cex(p)' <=> shows_cex(p)
    BY <1>2 DEF shows_cex
  <2>3. \A p : PairSucc(p)' = PairSucc(p)
    BY <1>2 DEF PairSucc
  <2>4. \A n : succ(n)' = succ(n)
    BY <1>2 DEF succ
  <2>5. \A p \in processed \ Range(worklist) : \A s \in PairSucc(p) :
           Subsumed(s) \/ (p = prod_state /\ \E n \in todo \ {m} : s = succ(n))
    BY <1>1 DEF Covered
  <2> QED BY <1>1, <1>2, <2>1, <2>2, <2>3, <2>4, <2>5 DEF Covered
<1> QED BY <1>3, <1>4, <1>5 DEF IInv, AntichainSound, AnswerExact

(* A new pair that replaces those it subsumes takes nothing away.          *)
LEMMA StaysSubsumed ==
  ASSUME NEW x, processed' = {r \in processed : ~ subsumes(x, r)} \cup {x},
         NEW p, Subsumed(p) \/ p = x
  PROVE  Subsumed(p)'
<1>1. CASE p = x
  BY <1>1, SubsumesOrder DEF Subsumed, subsumes
<1>2. CASE Subsumed(p)
  <2>1. PICK r \in processed : subsumes(r, p)
    BY <1>2 DEF Subsumed
  <2>2. CASE subsumes(x, r)
    <3>1. subsumes(x, p) /\ x \in processed'
      BY <2>1, <2>2, SubsumesOrder
    <3> QED BY <3>1 DEF Subsumed, subsumes
  <2>3. CASE ~ subsumes(x, r)
    <3>1. r \in processed'
      BY <2>3
    <3> QED BY <2>1, <3>1 DEF Subsumed, subsumes
  <2> QED BY <2>2, <2>3
<1> QED BY <1>1, <1>2

(* A new pair stands for those it replaces.                                *)
LEMMA AddPairHolds == IInv /\ AddPair => IInv'
<1> SUFFICES ASSUME IInv, NEW m \in todo,
                    answer = "none",
                    ~ shows_cex(succ(m)), ~ Subsumed(succ(m)),
                    processed' = {p \in processed : ~ subsumes(succ(m), p)} \cup {succ(m)},
                    worklist' = Append(Unsubsumed(worklist, succ(m)), succ(m)),
                    paths' = PathsWith(succ(m), [from |-> prod_state, symbol |-> m[1]]),
                    todo' = todo \ {m},
                    UNCHANGED <<input, prod_state, cex, answer>>
             PROVE  IInv'
  BY DEF AddPair
<1>1. /\ InputOK /\ TypeOK /\ Antichain /\ Covered /\ AllMet
      /\ succ(m) \in Met /\ succ(m) \in Pair /\ prod_state \in DOMAIN paths
  BY MoveFacts
<1>2. UNCHANGED <<smaller, bigger, distances_smaller, distances_bigger>>
  BY DEF input
<1>3. InputOK' /\ Met' = Met
  BY <1>1, <1>2 DEF InputOK, Met
<1>4. /\ worklist' \in Seq(Pair)
      /\ Range(worklist') = {p \in Range(worklist) : ~ subsumes(succ(m), p)} \cup {succ(m)}
  <2>1. worklist \in Seq(Pair)
    BY <1>1 DEF TypeOK
  <2> DEFINE kept == Unsubsumed(worklist, succ(m))
  <2>2. /\ kept \in Seq(Pair)
        /\ Range(kept) = {p \in Range(worklist) : ~ subsumes(succ(m), p)}
    BY <2>1, UnsubsumedRight
  <2>3. Append(kept, succ(m)) \in Seq(Pair)
        /\ Range(Append(kept, succ(m))) = Range(kept) \cup {succ(m)}
    <3> HIDE DEF kept
    <3> QED BY <1>1, <2>2, AppendTo
  <2> QED BY <2>2, <2>3
<1>5. /\ DOMAIN paths' = DOMAIN paths \cup {succ(m)}
      /\ \A p \in DOMAIN paths' : paths'[p].from = prod_state \/
                                   (p \in DOMAIN paths /\ paths'[p].from = paths[p].from)
  <2> DEFINE e == [from |-> prod_state, symbol |-> m[1]]
  <2>1. e.from = prod_state
    OBVIOUS
  <2> HIDE DEF e
  <2>2. paths' = [p \in DOMAIN paths \cup {succ(m)} |->
                    IF p = succ(m) THEN e ELSE paths[p]]
    BY DEF PathsWith, e
  <2> QED BY <2>1, <2>2
<1>6. TypeOK'
  BY <1>1, <1>4, <1>5 DEF TypeOK
<1>7. Antichain'
  <2>1. ASSUME NEW p \in processed', NEW r \in processed', subsumes(p, r)
        PROVE  p = r
    <3>1. CASE p \in processed /\ r \in processed
      BY <1>1, <2>1, <3>1 DEF Antichain
    <3>2. CASE r = succ(m) /\ p # succ(m)
      BY <2>1, <3>2 DEF Subsumed
    <3>3. CASE p = succ(m) /\ r # succ(m)
      BY <2>1, <3>3
    <3> QED BY <3>1, <3>2, <3>3
  <2>2. Range(worklist') \subseteq processed'
    BY <1>1, <1>4 DEF Antichain
  <2>3. \A p, r : subsumes(p, r)' <=> subsumes(p, r)
    BY DEF subsumes
  <2> QED BY <2>1, <2>2 DEF Antichain, subsumes
<1>8. AllMet'
  BY <1>1, <1>2, <1>3, <1>5 DEF AllMet
<1>9. Covered'
  <2>1. ASSUME NEW p, Subsumed(p) \/ p = succ(m) PROVE Subsumed(p)'
    <3>1. PICK x : x = succ(m)
      OBVIOUS
    <3>2. processed' = {r \in processed : ~ subsumes(x, r)} \cup {x} /\ (Subsumed(p) \/ p = x)
      BY <2>1, <3>1
    <3> QED BY ONLY <3>2, StaysSubsumed
  <2>2. \A p : shows_cex(p)' <=> shows_cex(p)
    BY <1>2 DEF shows_cex
  <2>3. \A p : PairSucc(p)' = PairSucc(p)
    BY <1>2 DEF PairSucc
  <2>4. \A n : succ(n)' = succ(n)
    BY <1>2 DEF succ
  <2>5. ASSUME NEW p \in processed', p \notin Range(worklist'), NEW s \in PairSucc(p)
        PROVE  Subsumed(s)' \/ (p = prod_state /\ \E n \in todo \ {m} : s = succ(n))
    <3>1. p \in processed /\ p \notin Range(worklist)
      BY <1>4, <2>5
    <3>2. Subsumed(s) \/ (p = prod_state /\ \E n \in todo : s = succ(n))
      BY <1>1, <2>5, <3>1 DEF Covered
    <3> QED BY <2>1, <3>2
  <2>6. \A p \in processed' : ~ shows_cex(p)
    BY <1>1 DEF Covered
  <2>7. \A q \in smaller.initial : Subsumed(<<q, bigger.initial>>)'
    BY <1>1, <1>2, <2>1 DEF Covered
  <2>8. ASSUME NEW p \in processed' \ Range(worklist'), NEW s \in PairSucc(p)'
        PROVE  Subsumed(s)' \/ (p = prod_state' /\ \E n \in todo' : s = succ(n)')
    BY <2>3, <2>4, <2>5
  <2> QED BY <1>2, <2>2, <2>6, <2>7, <2>8 DEF Covered
<1> QED BY <1>3, <1>6, <1>7, <1>8, <1>9 DEF IInv, AntichainSound, AnswerExact

(* When nothing waits, the pairs that are kept stand for all that words    *)
(* lead to, and none of them refutes inclusion.                            *)
LEMMA ConcludeHolds == IInv /\ Conclude => IInv'
<1> SUFFICES ASSUME IInv,
                    answer = "none", todo = {}, worklist = << >>,
                    answer' = "included",
                    UNCHANGED <<input, worklist, processed, paths, prod_state, todo, cex>>
             PROVE  IInv'
  BY DEF Conclude
<1>1. InputOK /\ TypeOK /\ Antichain /\ Covered /\ AllMet
  BY DEF IInv, AntichainSound
<1>2. UNCHANGED <<smaller, bigger, distances_smaller, distances_bigger>>
  BY DEF input
<1>3. InputOK' /\ Met' = Met
  BY <1>1, <1>2 DEF InputOK, Met
<1>4. TypeOK' /\ Antichain' /\ AllMet'
  BY <1>1, <1>2, <1>3 DEF TypeOK, Antichain, subsumes, AllMet
<1>5. Covered'
  <2>1. \A p : Subsumed(p)' <=> Subsumed(p)
    BY DEF Subsumed, subsumes
  <2>2. \A p : shows_cex(p)' <=> shows_cex(p)
    BY <1>2 DEF shows_cex
  <2>3. \A p : PairSucc(p)' = PairSucc(p)
    BY <1>2 DEF PairSucc
  <2> QED BY <1>1, <1>2, <2>1, <2>2, <2>3 DEF Covered
<1>6. Included(smaller, bigger)
  <2> DEFINE T == {p \in Pair : Subsumed(p)}
             G == PairSteps(smaller, bigger)
             first == {<<q, bigger.initial>> : q \in smaller.initial}
  <2>1. Range(worklist) = {}
    BY DEF Range
  <2>2. first \subseteq T /\ first \in SUBSET Pair
    BY <1>1, PairGraph DEF Covered
  <2>3. ASSUME NEW p \in T, NEW s \in G[p] PROVE s \in T
    <3>1. PICK a \in Symbol : s[1] \in smaller.delta[p[1]][a] /\ s[2] = Post(bigger, p[2], a)
      BY <2>3 DEF PairSteps
    <3>2. s \in Pair /\ s = <<s[1], s[2]>> /\ s[1] \in StateS
      BY <2>3 DEF PairSteps, Pair
    <3>3. PICK r \in processed : subsumes(r, p)
      BY DEF Subsumed
    <3> DEFINE t == <<s[1], Post(bigger, r[2], a)>>
    <3>4. r[1] = p[1] /\ <<a, s[1]>> \in MovesOf(smaller, r[1])
      BY <3>1, <3>2, <3>3 DEF subsumes, MovesOf
    <3>5. t \in PairSucc(r)
      BY <3>4 DEF PairSucc
    <3>6. Subsumed(t)
      BY <1>1, <2>1, <3>5 DEF Covered
    <3>7. subsumes(t, s)
      BY <3>1, <3>2, <3>3, SubsumesOrder
    <3> QED BY <3>2, <3>6, <3>7, SubsumesOrder DEF Subsumed
  <2>4. Met \subseteq T
    <3>1. IsGraph(G) /\ DOMAIN G = Pair
      BY <1>1, PairGraph
    <3>2. \A p \in T \cap DOMAIN G : G[p] \subseteq T
      <4> HIDE DEF T, G
      <4> QED BY <2>3
    <3>3. Closure(G, first) \subseteq T
      <4> HIDE DEF T, G, first
      <4> QED BY <2>2, <3>1, <3>2, ClosureLeast
    <3> QED BY <3>3 DEF Met, MetPairs
  <2>5. ASSUME NEW p \in T, p[1] \in smaller.final PROVE p[2] \cap bigger.final # {}
    <3>1. PICK r \in processed : subsumes(r, p)
      BY DEF Subsumed
    <3> QED BY <1>1, <2>5, <3>1 DEF Covered, shows_cex, subsumes
  <2> QED BY <2>4, <2>5 DEF Included, Met
<1> QED BY <1>2, <1>3, <1>4, <1>5, <1>6 DEF IInv, AntichainSound, AnswerExact

(* Every step keeps the invariant.                                         *)
LEMMA NextHolds == IInv /\ [Next]_vars => IInv'
<1> SUFFICES ASSUME IInv, [Next]_vars PROVE IInv'
  OBVIOUS
<1>1. CASE Next
  BY <1>1, TakePairHolds, RefuteHolds, SkipSubsumedHolds, AddPairHolds, ConcludeHolds
     DEF Next
<1>2. CASE UNCHANGED vars
  <2>1. /\ UNCHANGED <<smaller, bigger, distances_smaller, distances_bigger>>
        /\ UNCHANGED <<worklist, processed, paths, prod_state, todo, cex, answer>>
    BY <1>2 DEF vars, input
  <2>2. InputOK /\ TypeOK /\ Antichain /\ Covered /\ AllMet /\ AnswerExact
    BY DEF IInv, AntichainSound
  <2>3. InputOK' /\ Met' = Met
    BY <2>1, <2>2 DEF InputOK, Met
  <2>4. TypeOK' /\ Antichain' /\ AllMet' /\ AnswerExact'
    BY <2>1, <2>2, <2>3 DEF TypeOK, Antichain, subsumes, AllMet, AnswerExact
  <2>5. Covered'
    <3>1. \A p : Subsumed(p)' <=> Subsumed(p)
      BY <2>1 DEF Subsumed, subsumes
    <3>2. \A p : shows_cex(p)' <=> shows_cex(p)
      BY <2>1 DEF shows_cex
    <3>3. \A p : PairSucc(p)' = PairSucc(p)
      BY <2>1 DEF PairSucc
    <3>4. \A n : succ(n)' = succ(n)
      BY <2>1 DEF succ
    <3> QED BY <2>1, <2>2, <3>1, <3>2, <3>3, <3>4 DEF Covered
  <2> QED BY <2>3, <2>4, <2>5 DEF IInv, AntichainSound
<1> QED BY <1>1, <1>2

(* What the steps preserve holds at every point of the search.             *)
LEMMA Invariant == Spec => []IInv
<1>1. QED BY InitHolds, NextHolds, PTL DEF Spec

(* For all finite automata: the pairs kept are an antichain, everything    *)
(* met is represented by one of them, and no kept pair refutes inclusion   *)
(* while the search is on (is_included_antichains()).                      *)
THEOREM Antichains == Spec => []AntichainSound
<1>1. IInv => AntichainSound
  BY DEF IInv
<1>2. QED BY <1>1, Invariant, PTL

(* For all finite automata: is_included_antichains() answers "included"    *)
(* only when every word smaller accepts is accepted by bigger, and "not    *)
(* included" only when one is not, also when the distances to final states *)
(* end the search early.                                                   *)
THEOREM Answers == Spec => []AnswerExact
<1>1. IInv => AnswerExact
  BY DEF IInv
<1>2. QED BY <1>1, Invariant, PTL


(***************************************************************************)
(* The counterexample.  paths is a forest: every pair leads back to an     *)
(* initial one, for a pair that has an entry is subsumed by a kept pair    *)
(* ever after and so never gets a second one.                              *)
(***************************************************************************)

\* An entry of paths is an initial pair or tells a move that leads to its pair.
Entries ==
  \A p \in DOMAIN paths :
    /\ Subsumed(p) /\ paths[p].from \in DOMAIN paths
    /\ paths[p].from = p => p[1] \in smaller.initial /\ p[2] = bigger.initial
    /\ paths[p].from # p =>
         /\ <<paths[p].symbol, p[1]>> \in MovesOf(smaller, paths[p].from[1])
         /\ p[2] = Post(bigger, paths[p].from[2], paths[p].symbol)

\* rank numbers the pairs such that each comes from one of a smaller number.
RankedBy(rank) ==
  /\ rank \in [DOMAIN paths -> 0..Cardinality(DOMAIN paths)-1]
  /\ \A p \in DOMAIN paths : paths[p].from # p => rank[paths[p].from] < rank[p]

Forest == Entries /\ \E rank : RankedBy(rank)

\* t leads from p back to an initial pair.
LeadsBack(t, p) ==
  /\ t \in Seq(DOMAIN paths) /\ t # << >> /\ t[1] = p
  /\ \A i \in 1..Len(t)-1 : t[i+1] = paths[t[i]].from /\ paths[t[i]].from # t[i]
  /\ paths[t[Len(t)]].from = t[Len(t)]

(* There are finitely many pairs.                                          *)
LEMMA FinitePaths == IInv => IsFiniteSet(DOMAIN paths)
<1>1. IInv => DOMAIN paths \subseteq Pair /\ IsFiniteSet(Pair)
  BY PairGraph DEF IInv, AntichainSound, TypeOK, IsGraph
<1> QED BY <1>1, FS_Subset

(* What the code reads off paths does.                                     *)
LEMMA TraceLeadsBack ==
  ASSUME NEW p \in DOMAIN paths, IsFiniteSet(DOMAIN paths), Forest
  PROVE  LeadsBack(Trace(p), p)
<1> DEFINE D == DOMAIN paths
           N == Cardinality(D)
           Nxt(b) == IF paths[Last(b)].from = Last(b) THEN b ELSE Append(b, paths[Last(b)].from)
           IsRun(g) == g = [n \in 0..N |-> IF n = 0 THEN <<p>> ELSE Nxt(g[n-1])]
           back == CHOOSE g : IsRun(g)
           U == {b \in Seq(D) : b # << >>}
           step == [n \in 1..N |-> [b \in U |-> Nxt(b)]]
<1>1. N \in Nat /\ \A q \in D : paths[q].from \in D
  BY FS_CardinalityType DEF Forest, Entries
<1>2. <<p>> \in U
  OBVIOUS
<1>3. \A b \in U : Nxt(b) \in U
  <2> SUFFICES ASSUME NEW b \in U PROVE Nxt(b) \in U
    OBVIOUS
  <2>1. b \in Seq(D) /\ b # << >> /\ Last(b) \in D
    BY FrontOf
  <2>2. Append(b, paths[Last(b)].from) \in Seq(D) /\ Len(b) \in Nat
    BY <1>1, <2>1, AppendProperties, LenProperties
  <2>3. Append(b, paths[Last(b)].from) # << >>
    BY <1>1, <2>1, <2>2, AppendProperties
  <2> QED BY <2>1, <2>2, <2>3
<1> HIDE DEF Nxt, N, U
<1>4. PICK g : IsIteration(g, N, U, <<p>>, step)
  <2>1. Steps(step, N, U)
    BY <1>3 DEF Steps
  <2> HIDE DEF step
  <2> QED BY ONLY <1>1, <1>2, <2>1, Iteration
<1>5. IsRun(g)
  <2>1. \A n \in 0..N : n # 0 => n \in 1..N /\ n-1 \in 0..N
    BY <1>1
  <2>2. g \in [0..N -> U] /\ g[0] = <<p>> /\ \A n \in 1..N : g[n] = step[n][g[n-1]]
    BY <1>4 DEF IsIteration
  <2> QED BY <2>1, <2>2
<1>6. IsRun(back)
  <2> HIDE DEF IsRun
  <2> QED BY <1>5
<1>7. Trace(p) = back[N]
  BY DEF Trace, Nxt, N
<1> HIDE DEF back
<1>8. back[0] = <<p>> /\ \A n \in 1..N : back[n] = Nxt(back[n-1])
  <2>1. 0 \in 0..N /\ \A n \in 1..N : n \in 0..N /\ n # 0
    BY <1>1
  <2> QED BY <1>6, <2>1
<1>9. PICK rank : RankedBy(rank)
  BY DEF Forest
<1>10. /\ \A q \in D : rank[q] \in 0..N-1
       /\ \A q \in D : paths[q].from # q => rank[paths[q].from] < rank[q]
  BY <1>9 DEF RankedBy, N
<1> DEFINE Chain(b) == /\ b \in Seq(D) /\ b # << >> /\ b[1] = p
                       /\ \A i \in 1..Len(b)-1 : b[i+1] = paths[b[i]].from /\ paths[b[i]].from # b[i]
           Rooted(b) == paths[Last(b)].from = Last(b)
           Good == {n \in 0..N : Chain(back[n])
                                   /\ (Rooted(back[n]) \/ rank[Last(back[n])] + n <= rank[p])}
<1>11. 0 \in Good
  <2>1. Chain(<<p>>) /\ Last(<<p>>) = p
    BY DEF Last
  <2>2. back[0] = <<p>> /\ 0 \in 0..N /\ rank[p] + 0 <= rank[p]
    BY <1>1, <1>8, <1>10
  <2>3. Chain(back[0])
    BY <2>1, <2>2
  <2>4. rank[Last(back[0])] + 0 <= rank[p]
    BY <2>1, <2>2
  <2> QED BY <2>2, <2>3, <2>4
<1>12. ASSUME NEW n \in 1..N, n-1 \in Good PROVE n \in Good
  <2> DEFINE b == back[n-1]
  <2>1. /\ b \in Seq(D) /\ b # << >> /\ b[1] = p
        /\ \A i \in 1..Len(b)-1 : b[i+1] = paths[b[i]].from /\ paths[b[i]].from # b[i]
        /\ Rooted(b) \/ rank[Last(b)] + (n-1) <= rank[p]
        /\ back[n] = Nxt(b) /\ n \in 0..N
    BY <1>8, <1>12
  <2> HIDE DEF b
  <2>2. CASE Rooted(b)
    BY <2>1, <2>2 DEF Nxt
  <2>3. CASE ~ Rooted(b)
    <3> DEFINE x == paths[Last(b)].from
               c == Append(b, x)
    <3>1. back[n] = c
      BY <2>1, <2>3 DEF Nxt
    <3>2. Last(b) \in D /\ x \in D /\ Len(b) \in Nat /\ Len(b) # 0 /\ Last(b) = b[Len(b)]
      BY <1>1, <2>1, FrontOf, LenProperties, EmptySeq
    <3>3. /\ c \in Seq(D) /\ Len(c) = Len(b) + 1 /\ c[Len(b)+1] = x
          /\ \A i \in 1..Len(b) : c[i] = b[i]
      BY <2>1, <3>2, AppendProperties
    <3>4. c # << >> /\ Last(c) = x /\ c[1] = p
      BY <2>1, <3>2, <3>3 DEF Last
    <3>5. \A i \in 1..Len(c)-1 : c[i+1] = paths[c[i]].from /\ paths[c[i]].from # c[i]
      <4> SUFFICES ASSUME NEW i \in 1..Len(c)-1
                   PROVE  c[i+1] = paths[c[i]].from /\ paths[c[i]].from # c[i]
        OBVIOUS
      <4> HIDE DEF c
      <4>1. CASE i = Len(b)
        BY <2>3, <3>2, <3>3, <4>1
      <4>2. CASE i # Len(b)
        <5>1. i \in 1..Len(b)-1 /\ i \in 1..Len(b) /\ i+1 \in 1..Len(b)
          BY <3>2, <3>3, <4>2
        <5> QED BY <2>1, <3>3, <5>1
      <4> QED BY <4>1, <4>2
    <3>6. rank[x] + n <= rank[p]
      <4>1. rank[x] < rank[Last(b)]
        BY <1>10, <2>3, <3>2
      <4>2. rank[x] \in Nat /\ rank[Last(b)] \in Nat /\ rank[p] \in Nat
        BY <1>1, <1>10, <3>2
      <4> QED BY <2>1, <2>3, <4>1, <4>2
    <3> HIDE DEF c
    <3> QED BY <2>1, <3>1, <3>3, <3>4, <3>5, <3>6
  <2> QED BY <2>2, <2>3
<1>13. N \in Good
  <2>1. Good \in SUBSET (0..N) OBVIOUS
  <2> HIDE DEF Good
  <2> QED BY <1>1, <1>11, <1>12, <2>1, UpTo
<1>14. Chain(back[N]) /\ Rooted(back[N])
  <2>1. Chain(back[N]) /\ Last(back[N]) \in D
    BY <1>13, FrontOf
  <2>2. rank[Last(back[N])] \in Nat /\ rank[p] \in 0..N-1
    BY <1>10, <2>1
  <2> QED BY <1>1, <1>13, <2>1, <2>2
<1>15. Last(back[N]) = back[N][Len(back[N])]
  BY DEF Last
<1> QED BY <1>7, <1>14, <1>15 DEF LeadsBack


-----------------------------------------------------------------------------
\* The first of the moves M in the order of the code.
FirstOf(m, M) == m \in M /\ \A n \in M : n = m \/ Earlier(m, n)

(* There is one: symbols and states are numbers.                           *)
LEMMA FirstExists ==
  ASSUME NEW M \in SUBSET (Symbol \X StateS), M # {}
  PROVE  \E m \in M : FirstOf(m, M)
<1>1. Symbol \subseteq Nat /\ StateS \subseteq Nat
  BY AntichainAssumption
<1>2. \A m \in M : m = <<m[1], m[2]>> /\ m[1] \in Nat /\ m[2] \in Nat
  <2>1. \A m \in Symbol \X StateS : m = <<m[1], m[2]>> /\ m[1] \in Symbol /\ m[2] \in StateS
    OBVIOUS
  <2> QED BY <1>1, <2>1
<1>3. PICK a \in {m[1] : m \in M} : \A b \in {m[1] : m \in M} : a <= b
  <2>1. {m[1] : m \in M} \in SUBSET Nat /\ {m[1] : m \in M} # {}
    BY <1>2
  <2> QED BY <2>1, LeastNumber
<1> DEFINE R == {m[2] : m \in {n \in M : n[1] = a}}
<1>4. PICK r \in R : \A s \in R : r <= s
  <2>1. R \in SUBSET Nat /\ R # {}
    BY <1>2, <1>3
  <2> HIDE DEF R
  <2> QED BY <2>1, LeastNumber
<1>5. PICK m \in M : m[1] = a /\ m[2] = r
  BY <1>4
<1>6. ASSUME NEW n \in M, n # m PROVE Earlier(m, n)
  <2>1. a <= n[1] /\ n[1] \in Nat /\ n[2] \in Nat /\ a \in Nat /\ r \in Nat
    BY <1>2, <1>3, <1>5
  <2>2. CASE n[1] = a
    <3>1. r <= n[2] /\ n[2] # r
      BY <1>2, <1>4, <1>5, <1>6, <2>2
    <3> QED BY <1>5, <2>1, <2>2, <3>1 DEF Earlier
  <2>3. CASE n[1] # a
    BY <1>5, <2>1, <2>3 DEF Earlier
  <2> QED BY <2>2, <2>3
<1> QED BY <1>5, <1>6 DEF FirstOf

\* path is a run of smaller over word, and every move gets nearer to acceptance.
Nearing(word, path) ==
  /\ word \in Seq(Symbol) /\ path \in Seq(StateS) /\ Len(path) = Len(word) + 1
  /\ \A i \in 1..Len(word) :
       /\ path[i+1] \in smaller.delta[path[i]][word[i]]
       /\ distances_smaller[path[i+1]] < distances_smaller[path[i]]

(* get_shortest_accepting_run_from_state() ends in a final state.          *)
LEMMA LeftoverAccepts ==
  ASSUME InputOK, NEW q \in StateS, distances_smaller[q] < Far
  PROVE  /\ Nearing(Leftover(q).word, Leftover(q).path)
         /\ Leftover(q).path[1] = q /\ Last(Leftover(q).path) \in smaller.final
<1> DEFINE dist == distances_smaller
           nearer(p) == {m \in MovesOf(smaller, p) : dist[m[2]] < dist[p]}
           first(p) == CHOOSE m \in nearer(p) : \A n \in nearer(p) : n = m \/ Earlier(m, n)
           start == [word |-> << >>, path |-> <<q>>]
           Nxt(r) == IF Last(r.path) \in smaller.final THEN r
                     ELSE [word |-> Append(r.word, first(Last(r.path))[1]),
                           path |-> Append(r.path, first(Last(r.path))[2])]
           IsRun(g) == g = [n \in 0..Far |-> IF n = 0 THEN start ELSE Nxt(g[n-1])]
           run == CHOOSE g : IsRun(g)
           Good(r) == /\ r \in [word : Seq(Symbol), path : Seq(StateS)]
                      /\ Nearing(r.word, r.path) /\ r.path[1] = q
                      /\ Last(r.path) \in StateS
                      /\ \/ Last(r.path) \in smaller.final
                         \/ dist[Last(r.path)] + Len(r.word) <= dist[q]
                      /\ dist[Last(r.path)] < Far
           U == {r \in [word : Seq(Symbol), path : Seq(StateS)] : Good(r)}
           step == [n \in 1..Far |-> [r \in U |-> Nxt(r)]]
<1>1. Far \in Nat
  BY FarIsNat
<1>2. Distances(dist, smaller, StateS)
  BY DistancesRight DEF InputOK
<1>3. \A p \in StateS : dist[p] \in 0..Far
  BY <1>2 DEF Distances
<1>4. ASSUME NEW p \in StateS, p \notin smaller.final, dist[p] < Far
      PROVE  /\ first(p) \in Symbol \X StateS /\ first(p)[1] \in Symbol /\ first(p)[2] \in StateS
             /\ first(p)[2] \in smaller.delta[p][first(p)[1]] /\ dist[first(p)[2]] < dist[p]
  <2>1. dist[p] # 0 /\ dist[p] # Far
    BY <1>1, <1>2, <1>3, <1>4 DEF Distances
  <2>2. PICK a \in Symbol : \E r \in smaller.delta[p][a] : dist[r] < dist[p]
    BY <1>2, <2>1 DEF Distances
  <2>3. PICK r \in smaller.delta[p][a] : dist[r] < dist[p]
    BY <2>2
  <2>4. r \in StateS
    BY <2>2, <2>3 DEF InputOK, AutomataOver
  <2>5. <<a, r>> \in nearer(p)
    BY <2>2, <2>3, <2>4 DEF MovesOf
  <2>6. nearer(p) \in SUBSET (Symbol \X StateS) /\ nearer(p) # {}
    BY <2>5 DEF MovesOf
  <2> HIDE DEF nearer
  <2>7. \E m \in nearer(p) : FirstOf(m, nearer(p))
    BY <2>6, FirstExists
  <2>8. first(p) \in nearer(p)
    BY <2>7 DEF FirstOf
  <2> HIDE DEF first
  <2> QED BY <2>6, <2>8 DEF nearer, MovesOf
<1> HIDE DEF first, nearer
<1>5. start \in U
  <2>1. start.word = << >> /\ start.path = <<q>> /\ start \in [word : Seq(Symbol), path : Seq(StateS)]
    OBVIOUS
  <2>2. Last(<<q>>) = q /\ Len(<<q>>) = 1 /\ <<q>>[1] = q /\ Len(<< >>) = 0
    BY DEF Last
  <2>3. Nearing(<< >>, <<q>>)
    BY <2>2 DEF Nearing
  <2>4. dist[q] + 0 <= dist[q]
    BY <1>1, <1>3
  <2> HIDE DEF start
  <2> QED BY <2>1, <2>2, <2>3, <2>4
<1>6. ASSUME NEW r \in U PROVE Nxt(r) \in U /\ (Last(r.path) \notin smaller.final =>
                                     Len(Nxt(r).word) = Len(r.word) + 1)
  <2>1. CASE Last(r.path) \in smaller.final
    BY <2>1
  <2>2. CASE Last(r.path) \notin smaller.final
    <3> DEFINE p == Last(r.path)
               a == first(p)[1]
               x == first(p)[2]
    <3>1. /\ p \in StateS /\ p \notin smaller.final /\ dist[p] < Far
          /\ r.word \in Seq(Symbol) /\ r.path \in Seq(StateS)
          /\ Nearing(r.word, r.path) /\ r.path[1] = q /\ dist[p] + Len(r.word) <= dist[q]
      BY <2>2
    <3>2. a \in Symbol /\ x \in StateS /\ x \in smaller.delta[p][a] /\ dist[x] < dist[p]
      BY <1>4, <3>1
    <3>3. PICK w \in Seq(Symbol) : w = r.word
      BY <3>1
    <3>4. PICK s \in Seq(StateS) : s = r.path
      BY <3>1
    <3>5. /\ Len(w) \in Nat /\ Len(s) = Len(w) + 1 /\ p = s[Len(s)] /\ s[1] = q
          /\ \A i \in 1..Len(w) : /\ s[i+1] \in smaller.delta[s[i]][w[i]]
                                  /\ dist[s[i+1]] < dist[s[i]]
      BY <3>1, <3>3, <3>4, LenProperties DEF Nearing, Last
    <3> DEFINE v == Append(w, a)
               t == Append(s, x)
    <3>6. Nxt(r) = [word |-> v, path |-> t]
      BY <2>2, <3>3, <3>4
    <3> HIDE DEF a, x, p
    <3>7. /\ v \in Seq(Symbol) /\ Len(v) = Len(w) + 1 /\ v[Len(w)+1] = a
          /\ \A i \in 1..Len(w) : v[i] = w[i]
      BY <3>2, AppendProperties
    <3>8. /\ t \in Seq(StateS) /\ Len(t) = Len(s) + 1 /\ t[Len(s)+1] = x
          /\ \A i \in 1..Len(s) : t[i] = s[i]
      BY <3>2, AppendProperties
    <3> HIDE DEF v, t
    <3>9. ASSUME NEW i \in 1..Len(v)
          PROVE  t[i+1] \in smaller.delta[t[i]][v[i]] /\ dist[t[i+1]] < dist[t[i]]
      <4>1. CASE i \in 1..Len(w)
        <5>1. i \in 1..Len(s) /\ i+1 \in 1..Len(s)
          BY <3>5, <4>1
        <5> QED BY <3>5, <3>7, <3>8, <4>1, <5>1
      <4>2. CASE i \notin 1..Len(w)
        <5>1. i = Len(w)+1 /\ i = Len(s) /\ i \in 1..Len(s)
          BY <3>5, <3>7, <4>2
        <5> QED BY <3>2, <3>5, <3>7, <3>8, <5>1
      <4> QED BY <4>1, <4>2
    <3>10. Nearing(v, t)
      BY <3>5, <3>7, <3>8, <3>9 DEF Nearing
    <3>11. Last(t) = x /\ t[1] = q
      BY <3>5, <3>8 DEF Last
    <3>12. dist[x] < Far /\ dist[x] + Len(v) <= dist[q]
      BY <1>1, <1>3, <3>1, <3>2, <3>3, <3>5, <3>7
    <3>13. PICK z : z = [word |-> v, path |-> t]
      OBVIOUS
    <3>14. z = Nxt(r)
      BY <3>6, <3>13
    <3>15. /\ z.word = v /\ z.path = t
           /\ z \in [word : Seq(Symbol), path : Seq(StateS)]
      BY <3>7, <3>8, <3>13
    <3>16. Good(z)
      BY <3>2, <3>10, <3>11, <3>12, <3>15
    <3>17. z \in U
      BY <3>15, <3>16
    <3> HIDE DEF Good, U, Nxt
    <3> QED BY <3>3, <3>5, <3>7, <3>14, <3>15, <3>17
  <2> QED BY <2>1, <2>2
<1> HIDE DEF Nxt, U, start
<1>7. PICK g : IsIteration(g, Far, U, start, step)
  <2>1. Steps(step, Far, U)
    BY <1>6 DEF Steps
  <2> HIDE DEF step
  <2> QED BY ONLY <1>1, <1>5, <2>1, Iteration
<1>8. IsRun(g)
  <2>1. \A n \in 0..Far : n # 0 => n \in 1..Far /\ n-1 \in 0..Far
    BY <1>1
  <2>2. g \in [0..Far -> U] /\ g[0] = start /\ \A n \in 1..Far : g[n] = step[n][g[n-1]]
    BY <1>7 DEF IsIteration
  <2> QED BY <2>1, <2>2
<1>9. IsRun(run)
  <2> HIDE DEF IsRun
  <2> QED BY <1>8
<1>10. Leftover(q) = run[Far]
  BY DEF Leftover, Nxt, first, nearer, start
<1> HIDE DEF run
<1>11. run[0] = start /\ \A n \in 1..Far : run[n] = Nxt(run[n-1])
  <2>1. 0 \in 0..Far /\ \A n \in 1..Far : n \in 0..Far /\ n # 0
    BY <1>1
  <2> QED BY <1>9, <2>1
<1> DEFINE Fine == {n \in 0..Far : /\ run[n] \in U
                                   /\ \/ Last(run[n].path) \in smaller.final
                                      \/ Len(run[n].word) = n}
<1>12. 0 \in Fine
  <2>1. Len(start.word) = 0
    BY DEF start
  <2> QED BY <1>1, <1>5, <1>11, <2>1
<1>13. ASSUME NEW n \in 1..Far, n-1 \in Fine PROVE n \in Fine
  <2>1. PICK r \in U : /\ r = run[n-1] /\ run[n] = Nxt(r) /\ n \in 0..Far
                       /\ Last(r.path) \in smaller.final \/ Len(r.word) = n-1
    BY <1>11, <1>13
  <2>2. CASE Last(r.path) \in smaller.final
    BY <2>1, <2>2 DEF Nxt
  <2>3. CASE Last(r.path) \notin smaller.final
    <3>1. Len(Nxt(r).word) = (n-1) + 1 /\ Nxt(r) \in U
      BY <1>6, <2>1, <2>3
    <3> QED BY <2>1, <3>1
  <2> QED BY <2>2, <2>3
<1>14. Far \in Fine
  <2>1. Fine \in SUBSET (0..Far) OBVIOUS
  <2> HIDE DEF Fine
  <2> QED BY <1>1, <1>12, <1>13, <2>1, UpTo
<1>15. Good(run[Far])
  BY <1>14 DEF U
<1>16. Last(run[Far].path) \in smaller.final
  <2>1. CASE Len(run[Far].word) = Far
    <3>1. dist[q] \in 0..Far /\ dist[Last(run[Far].path)] \in 0..Far
      BY <1>3, <1>15
    <3> QED BY <1>1, <1>15, <2>1, <3>1
  <2> QED BY <1>14, <2>1
<1> QED BY <1>10, <1>15, <1>16


-----------------------------------------------------------------------------
(* The initial pairs are roots.                                            *)
LEMMA ForestInit == Init => Forest
<1> SUFFICES ASSUME Init PROVE Forest
  OBVIOUS
<1>1. InputOK /\ AllMet
  BY InitHolds DEF IInv
<1>2. \A p \in DOMAIN paths :
        paths[p].from = p /\ p \in processed /\ p[1] \in smaller.initial /\ p[2] = bigger.initial
  <2>1. CASE paths = << >>
    BY <2>1
  <2>2. CASE paths # << >>
    <3> DEFINE first == {<<q, bigger.initial>> : q \in smaller.initial}
    <3>1. processed = first /\ paths = [p \in first |-> [from |-> p, symbol |-> 0]]
      BY <2>2 DEF Init
    <3>2. \A p \in first : p[1] \in smaller.initial /\ p[2] = bigger.initial
      OBVIOUS
    <3> HIDE DEF first
    <3> QED BY <3>1, <3>2
  <2> QED BY <2>1, <2>2
<1>3. Entries
  BY <1>2, SubsumesOrder DEF Entries, Subsumed
<1>4. IsFiniteSet(DOMAIN paths)
  BY FinitePaths, InitHolds
<1>5. RankedBy([p \in DOMAIN paths |-> 0])
  <2>1. ASSUME NEW p \in DOMAIN paths PROVE 0 \in 0..Cardinality(DOMAIN paths)-1
    <3>1. Cardinality(DOMAIN paths) \in Nat /\ Cardinality(DOMAIN paths) # 0
      BY <1>4, FS_CardinalityType, FS_EmptySet
    <3> QED BY <3>1
  <2> QED BY <1>2, <2>1 DEF RankedBy
<1> QED BY <1>3, <1>5 DEF Forest

(* A pair gets its entry once: it is not subsumed before, and ever after.  *)
LEMMA ForestNext == IInv /\ Forest /\ [Next]_vars => Forest'
<1> SUFFICES ASSUME IInv, Forest, [Next]_vars PROVE Forest'
  OBVIOUS
<1>1. CASE AddPair
  <2> SUFFICES ASSUME NEW m \in todo,
                      answer = "none", ~ Subsumed(succ(m)),
                      processed' = {p \in processed : ~ subsumes(succ(m), p)} \cup {succ(m)},
                      paths' = PathsWith(succ(m), [from |-> prod_state, symbol |-> m[1]]),
                      UNCHANGED input
               PROVE  Forest'
    BY <1>1 DEF AddPair
  <2> DEFINE D == DOMAIN paths
             N == Cardinality(D)
             f == prod_state
  <2>1. PICK x : x = succ(m)
    OBVIOUS
  <2>2. /\ f \in D /\ AllMet /\ smaller' = smaller /\ bigger' = bigger
        /\ m \in Symbol \X StateS
    BY MoveFacts DEF input, TypeOK
  <2>3. x[1] = m[2] /\ x[2] = Post(bigger, f[2], m[1]) /\ m = <<m[1], m[2]>>
        /\ m \in MovesOf(smaller, f[1])
    BY <2>1, <2>2 DEF succ, AllMet
  <2>4. \A p \in D : Subsumed(p) /\ p # x
    BY <2>1 DEF Forest, Entries
  <2>5. f # x
    BY <2>2, <2>4
  <2> HIDE DEF D, N
  <2>6. /\ DOMAIN paths' = D \cup {x} /\ x \notin D
        /\ paths'[x].from = f /\ paths'[x].symbol = m[1]
        /\ \A p \in D : paths'[p] = paths[p]
    <3> DEFINE e == [from |-> f, symbol |-> m[1]]
    <3>1. e.from = f /\ e.symbol = m[1]
      OBVIOUS
    <3>2. paths' = [r \in D \cup {x} |-> IF r = x THEN e ELSE paths[r]]
      BY <2>1 DEF PathsWith, D
    <3> HIDE DEF e, f
    <3> QED BY <2>4, <3>1, <3>2
  <2>7. \A p \in D \cup {x} : Subsumed(p)'
    <3>1. processed' = {r \in processed : ~ subsumes(x, r)} \cup {x}
      BY <2>1
    <3> QED BY ONLY <2>4, <3>1, StaysSubsumed
  <2>8. \A p : MovesOf(smaller', p) = MovesOf(smaller, p)
    BY <2>2
  <2> HIDE DEF f
  <2>9. \A p \in D \cup {x} :
          /\ Subsumed(p)' /\ paths'[p].from \in D \cup {x}
          /\ paths'[p].from = p => p[1] \in smaller.initial /\ p[2] = bigger.initial
          /\ paths'[p].from # p =>
               /\ <<paths'[p].symbol, p[1]>> \in MovesOf(smaller, paths'[p].from[1])
               /\ p[2] = Post(bigger, paths'[p].from[2], paths'[p].symbol)
    <3> TAKE p \in D \cup {x}
    <3>1. CASE p = x
      <4>1. <<m[1], m[2]>> \in MovesOf(smaller, f[1])
        BY <2>3
      <4> QED BY <2>2, <2>3, <2>5, <2>6, <2>7, <3>1, <4>1
    <3>2. CASE p # x
      <4>1. p \in D /\ paths'[p] = paths[p]
        BY <2>6, <3>2
      <4> QED BY <2>7, <4>1 DEF Forest, Entries, D
    <3> QED BY <3>1, <3>2
  <2>10. Entries'
    BY <2>2, <2>6, <2>8, <2>9 DEF Entries, Post
  <2>11. PICK rank : RankedBy(rank)
    BY DEF Forest
  <2>12. N \in Nat /\ Cardinality(D \cup {x}) = N+1
    BY <2>6, FinitePaths, FS_CardinalityType, FS_AddElement DEF D, N
  <2>13. /\ rank \in [D -> 0..N-1]
         /\ \A p \in D : paths[p].from # p => rank[paths[p].from] < rank[p]
    BY <2>11 DEF RankedBy, D, N
  <2> DEFINE ranked == [p \in D \cup {x} |-> IF p = x THEN N ELSE rank[p]]
  <2>14. PICK k \in [D \cup {x} -> 0..N] :
           k[x] = N /\ \A p \in D : k[p] = rank[p] /\ rank[p] \in 0..N-1
    <3>1. /\ ranked \in [D \cup {x} -> 0..N] /\ ranked[x] = N
          /\ \A p \in D : ranked[p] = rank[p] /\ rank[p] \in 0..N-1
      BY <2>6, <2>12, <2>13
    <3> HIDE DEF ranked
    <3> QED BY <3>1
  <2>15. ASSUME NEW p \in D \cup {x}, paths'[p].from # p
         PROVE  k[paths'[p].from] < k[p]
    <3>1. CASE p = x
      BY <2>2, <2>6, <2>12, <2>14, <3>1 DEF D
    <3>2. CASE p # x
      <4>1. p \in D /\ paths[p].from \in D /\ paths'[p].from = paths[p].from
        BY <2>6, <3>2 DEF Forest, Entries, D
      <4> QED BY <2>13, <2>14, <2>15, <4>1
    <3> QED BY <3>1, <3>2
  <2>16. (RankedBy(k))'
    <3>1. Cardinality(D \cup {x})-1 = N
      BY <2>12
    <3> QED BY <2>6, <2>14, <2>15, <3>1 DEF RankedBy
  <2> QED BY <2>10, <2>16 DEF Forest
<1>2. CASE ~ AddPair
  <2>1. UNCHANGED <<smaller, bigger, processed, paths>>
    BY <1>2 DEF Next, TakePair, Refute, SkipSubsumed, Conclude, vars, input
  <2> QED BY <2>1 DEF Forest, Entries, RankedBy, Subsumed, subsumes, MovesOf, Post
<1> QED BY <1>1, <1>2


-----------------------------------------------------------------------------
(* After the rest of the run bigger is in no final state: it was too far   *)
(* from one, or the rest is empty.                                         *)
LEMMA RestRejected ==
  ASSUME InputOK, NEW p \in Pair, lengths_incompatible(p) \/ shows_cex(p),
         NEW word, NEW path, Nearing(word, path), path[1] = p[1],
         NEW after, WordLayers(after, bigger, StateB, p[2], word)
  PROVE  after[Len(word)] \cap bigger.final = {}
<1> DEFINE N == Len(word)
           near == distances_smaller
           far == distances_bigger
<1>1. Far \in Nat /\ N \in Nat /\ Len(path) = N+1
  BY FarIsNat, LenProperties DEF Nearing
<1>2. Distances(near, smaller, StateS) /\ Distances(far, bigger, StateB)
  BY DistancesRight DEF InputOK
<1>3. /\ \A q \in StateS : near[q] \in 0..Far
      /\ \A q \in StateB : far[q] \in 0..Far /\ (q \in bigger.final <=> far[q] = 0)
  BY <1>2 DEF Distances
<1>4. \A i \in 1..N+1 : path[i] \in StateS /\ near[path[i]] \in 0..Far
  <2>1. path \in Seq(StateS)
    BY DEF Nearing
  <2> QED BY <1>1, <1>3, <2>1, ElementOfSeq
<1>5. /\ \A k \in 0..N : after[k] \subseteq StateB
      /\ after[0] = p[2]
      /\ \A k \in 1..N : after[k] = Post(bigger, after[k-1], word[k])
  BY DEF WordLayers
<1>6. CASE lengths_incompatible(p)
  <2> DEFINE Good == {k \in 0..N : \A s \in after[k] : near[path[k+1]] < far[s]}
  <2>1. 0 \in Good
    <3>1. ASSUME NEW s \in p[2] PROVE near[p[1]] < far[s]
      <4>1. \A r \in p[2] : r \in StateB /\ far[r] \in 0..Far
        BY <1>3 DEF Pair
      <4>2. min_dst(p[2]) \in 0..Far /\ min_dst(p[2]) <= far[s]
        BY <4>1, MinDistance
      <4>3. near[p[1]] < min_dst(p[2]) /\ near[p[1]] \in 0..Far
        BY <1>3, <1>6 DEF lengths_incompatible, Pair
      <4>4. far[s] \in 0..Far
        BY <4>1
      <4> QED BY <1>1, <4>2, <4>3, <4>4
    <3>2. path[0+1] = p[1] /\ 0 \in 0..N
      BY <1>1
    <3> HIDE DEF N, near, far
    <3> QED BY <1>5, <3>1, <3>2
  <2>2. ASSUME NEW k \in 1..N, k-1 \in Good PROVE k \in Good
    <3>1. \A s \in after[k-1] : near[path[(k-1)+1]] < far[s]
      BY <2>2
    <3>2. (k-1)+1 = k /\ k \in 0..N /\ k \in 1..N+1 /\ k+1 \in 1..N+1 /\ k-1 \in 0..N
      BY <1>1
    <3>3. near[path[k+1]] < near[path[k]]
      BY <3>2 DEF Nearing
    <3>4. ASSUME NEW s \in after[k] PROVE near[path[k+1]] < far[s]
      <4>1. PICK r \in after[k-1] : s \in bigger.delta[r][word[k]]
        BY <1>5, <3>4 DEF Post
      <4>2. r \in StateB /\ s \in StateB /\ word[k] \in Symbol
        <5>1. word \in Seq(Symbol)
          BY DEF Nearing
        <5>2. word[k] \in Symbol
          BY <1>1, <5>1, ElementOfSeq
        <5> QED BY <1>5, <3>2, <3>4, <4>1, <5>2
      <4>3. far[r] <= far[s] + 1
        BY <1>2, <4>1, <4>2 DEF Distances
      <4>4. near[path[k]] < far[r]
        BY <3>1, <3>2, <4>1
      <4>5. far[r] \in Nat /\ far[s] \in Nat /\ near[path[k]] \in Nat /\ near[path[k+1]] \in Nat
        BY <1>1, <1>3, <1>4, <3>2, <4>2
      <4> HIDE DEF near, far
      <4> QED BY <3>3, <4>3, <4>4, <4>5
    <3> QED BY <3>2, <3>4
  <2>3. N \in Good
    <3>1. Good \in SUBSET (0..N) OBVIOUS
    <3> HIDE DEF Good, N
    <3> QED BY <1>1, <2>1, <2>2, <3>1, UpTo
  <2>4. ASSUME NEW s \in after[N] PROVE s \notin bigger.final
    <3>1. near[path[N+1]] < far[s] /\ N+1 \in 1..N+1 /\ s \in StateB
      BY <1>1, <1>5, <2>3, <2>4
    <3> QED BY <1>1, <1>3, <1>4, <3>1
  <2> QED BY <2>4
<1>7. CASE shows_cex(p)
  <2>1. near[path[1]] = 0 /\ p[2] \cap bigger.final = {}
    BY <1>2, <1>7 DEF shows_cex, Distances, Pair
  <2>2. N = 0
    <3>1. SUFFICES ASSUME N >= 1 PROVE FALSE
      BY <1>1
    <3>2. 1 \in 1..N /\ 2 \in 1..N+1 /\ 1+1 = 2
      BY <1>1, <3>1
    <3>3. near[path[2]] < near[path[1]] /\ near[path[2]] \in 0..Far
      BY <1>4, <3>2 DEF Nearing
    <3> QED BY <1>1, <2>1, <3>3
  <2> QED BY <1>5, <2>1, <2>2
<1> QED BY <1>6, <1>7


(* Reverse() puts the last element first.                                  *)
LEMMA ReverseOf ==
  ASSUME NEW S, NEW s \in Seq(S)
  PROVE  /\ Reverse(s) \in Seq(S) /\ Len(Reverse(s)) = Len(s)
         /\ \A i \in 1..Len(s) : Reverse(s)[i] = s[Len(s)+1-i]
<1> DEFINE N == Len(s)
<1>1. N \in Nat /\ \A i \in 1..N : (N-i)+1 \in 1..N /\ (N-i)+1 = N+1-i
  BY LenProperties
<1>2. \A i \in 1..N : s[(N-i)+1] \in S
  BY <1>1, ElementOfSeq
<1>3. Reverse(s) = [i \in 1..N |-> s[(N-i)+1]]
  BY DEF Reverse
<1> HIDE DEF N
<1>4. Reverse(s) \in [1..N -> S]
  BY <1>2, <1>3
<1>5. Reverse(s) \in Seq(S) /\ Len(Reverse(s)) = N
  BY <1>1, <1>4
<1>6. \A i \in 1..N : Reverse(s)[i] = s[N+1-i]
  BY <1>1, <1>3
<1> QED BY <1>5, <1>6 DEF N

\* A run of smaller from an initial state over a word, t read backwards and
\* then the move m from t's first pair.
IsBack(w, s, t, m) ==
  /\ w \in Seq(Symbol) /\ Len(w) = Len(t)
  /\ w[Len(t)] = m[1] /\ \A k \in 1..Len(t)-1 : w[k] = paths[t[Len(t)-k]].symbol
  /\ s \in Seq(StateS) /\ Len(s) = Len(t)
  /\ \A k \in 1..Len(t) : s[k] = t[Len(t)+1-k][1]

(* The Run that is written, when the caller's was empty: the way back from *)
(* the pair in hand, reversed, and what is left.                           *)
LEMMA CounterexampleIs ==
  ASSUME IInv, Forest, NEW m \in todo, answer = "none", cex = [word |-> << >>, path |-> << >>],
         LeadsBack(Trace(prod_state), prod_state)
  PROVE  \E w, s : /\ IsBack(w, s, Trace(prod_state), m)
                   /\ Counterexample(m[1], m[2]).word = w \o Leftover(m[2]).word
                   /\ Counterexample(m[1], m[2]).path = s \o Leftover(m[2]).path
<1> DEFINE D == DOMAIN paths
<1>1. D \subseteq Pair /\ m[1] \in Symbol
  BY MoveFacts DEF TypeOK
<1>2. PICK t : t = Trace(prod_state)
  OBVIOUS
<1>3. PICK n \in Nat : n = Len(t) /\ n >= 1
  <2>1. t \in Seq(D) /\ t # << >>
    BY <1>2 DEF LeadsBack
  <2> QED BY <2>1, EmptySeq, LenProperties
<1> DEFINE symbols == [i \in 1..n-1 |-> paths[t[i]].symbol]
           states == [i \in 1..n |-> t[i][1]]
           head == << >> \o <<m[1]>> \o symbols
<1>4. \A i \in 1..n : t[i] \in D
  <2>1. t \in Seq(D)
    BY <1>2 DEF LeadsBack
  <2> QED BY <1>3, <2>1, ElementOfSeq
<1>5. \A i \in 1..n-1 : paths[t[i]].symbol \in Symbol
  <2> TAKE i \in 1..n-1
  <2>1. i \in 1..n /\ t[i] \in D /\ paths[t[i]].from # t[i]
    BY <1>2, <1>3, <1>4 DEF LeadsBack
  <2>2. <<paths[t[i]].symbol, t[i][1]>> \in MovesOf(smaller, paths[t[i]].from[1])
    BY <2>1 DEF Forest, Entries
  <2> QED BY <2>2 DEF MovesOf
<1>6. PICK u \in Seq(Symbol) : u = symbols /\ Len(u) = n-1
                               /\ \A i \in 1..n-1 : u[i] = paths[t[i]].symbol
  <2>1. symbols \in [1..n-1 -> Symbol] /\ n-1 \in Nat
    BY <1>3, <1>5
  <2>2. symbols \in Seq(Symbol) /\ Len(symbols) = n-1
    <3> HIDE DEF symbols
    <3> QED BY <2>1
  <2> QED BY <2>2
<1>7. PICK v \in Seq(StateS) : v = states /\ Len(v) = n /\ \A i \in 1..n : v[i] = t[i][1]
  <2>1. states \in [1..n -> StateS]
    BY <1>1, <1>4 DEF Pair
  <2>2. states \in Seq(StateS) /\ Len(states) = n
    <3> HIDE DEF states
    <3> QED BY <1>3, <2>1
  <2> QED BY <2>2
<1> HIDE DEF symbols, states
<1>8. PICK h \in Seq(Symbol) : h = head /\ Len(h) = n /\ h[1] = m[1]
                               /\ \A i \in 1..n-1 : h[i+1] = paths[t[i]].symbol
  <2>1. PICK x \in Seq(Symbol) : x = <<m[1]>> /\ Len(x) = 1 /\ x[1] = m[1]
    <3>1. PICK a \in Symbol : a = m[1]
      BY <1>1
    <3>2. <<a>> \in Seq(Symbol) /\ Len(<<a>>) = 1 /\ <<a>>[1] = a
      OBVIOUS
    <3> QED BY <3>1, <3>2
  <2>2. << >> \o x = x
    BY ConcatEmptySeq
  <2>3. /\ x \o u \in Seq(Symbol) /\ Len(x \o u) = Len(x) + Len(u)
        /\ \A i \in 1..Len(x)+Len(u) : (x \o u)[i] = IF i <= Len(x) THEN x[i] ELSE u[i - Len(x)]
    BY ConcatProperties
  <2>4. \A i \in 1..n-1 : i+1 \in 1..n /\ ~(i+1 <= 1) /\ (i+1)-1 = i
    BY <1>3
  <2>5. 1 + (n-1) = n /\ 1 \in 1..n
    BY <1>3
  <2>6. /\ Len(x \o u) = n /\ (x \o u)[1] = m[1]
        /\ \A i \in 1..n-1 : (x \o u)[i+1] = paths[t[i]].symbol
    BY <1>6, <2>1, <2>3, <2>4, <2>5
  <2>7. head = x \o u
    BY <1>6, <2>1, <2>2
  <2> HIDE DEF head
  <2> QED BY <2>3, <2>6, <2>7
<1> HIDE DEF head
<1>9. PICK w : w = Reverse(h)
  OBVIOUS
<1>10. PICK s : s = Reverse(v)
  OBVIOUS
<1>11. /\ w \in Seq(Symbol) /\ Len(w) = n /\ \A i \in 1..n : w[i] = h[n+1-i]
       /\ s \in Seq(StateS) /\ Len(s) = n /\ \A i \in 1..n : s[i] = v[n+1-i]
  <2>1. h \in Seq(Symbol) /\ Len(h) = n /\ v \in Seq(StateS) /\ Len(v) = n
    BY <1>7, <1>8
  <2>2. /\ Reverse(h) \in Seq(Symbol) /\ Len(Reverse(h)) = Len(h)
        /\ \A i \in 1..Len(h) : Reverse(h)[i] = h[Len(h)+1-i]
    BY ONLY <2>1, ReverseOf
  <2>3. /\ Reverse(v) \in Seq(StateS) /\ Len(Reverse(v)) = Len(v)
        /\ \A i \in 1..Len(v) : Reverse(v)[i] = v[Len(v)+1-i]
    BY ONLY <2>1, ReverseOf
  <2>4. w \in Seq(Symbol) /\ Len(w) = n /\ \A i \in 1..n : w[i] = h[n+1-i]
    BY ONLY <2>1, <2>2, <1>9
  <2>5. s \in Seq(StateS) /\ Len(s) = n /\ \A i \in 1..n : s[i] = v[n+1-i]
    BY ONLY <2>1, <2>3, <1>10
  <2> QED BY <2>4, <2>5
<1>12. w[n] = m[1] /\ \A k \in 1..n-1 : w[k] = paths[t[n-k]].symbol
  <2>1. n \in 1..n /\ n+1-n = 1
    BY <1>3
  <2>2. \A k \in 1..n-1 : k \in 1..n /\ n-k \in 1..n-1 /\ n+1-k = (n-k)+1
    BY <1>3
  <2> QED BY <1>8, <1>11, <2>1, <2>2
<1>13. \A k \in 1..n : s[k] = t[n+1-k][1]
  <2>1. \A k \in 1..n : n+1-k \in 1..n
    BY <1>3
  <2> QED BY <1>7, <1>11, <2>1
<1>14. IsBack(w, s, t, m)
  BY <1>3, <1>11, <1>12, <1>13 DEF IsBack
<1>15. Counterexample(m[1], m[2]).word = Reverse(head) \o Leftover(m[2]).word
  <2> DEFINE c == Counterexample(m[1], m[2])
  <2>1. c.word = Reverse(<< >> \o <<m[1]>> \o [i \in 1..Len(t)-1 |-> paths[t[i]].symbol])
                   \o Leftover(m[2]).word
    BY <1>2 DEF Counterexample
  <2>2. head = << >> \o <<m[1]>> \o [i \in 1..Len(t)-1 |-> paths[t[i]].symbol]
    BY <1>3 DEF symbols, head
  <2> QED BY <2>1, <2>2
<1>16. Counterexample(m[1], m[2]).path = Reverse(<< >> \o states) \o Leftover(m[2]).path
  BY <1>2, <1>3 DEF Counterexample, states
<1>17. << >> \o v = v
  BY ConcatEmptySeq
<1>18. Reverse(head) = w /\ Reverse(<< >> \o states) = s
  BY <1>7, <1>8, <1>9, <1>10, <1>17
<1> QED BY <1>2, <1>14, <1>15, <1>16, <1>18


\* z is x and then y, sequences over S.
IsJoined(z, x, y, S) ==
  /\ z \in Seq(S) /\ Len(z) = Len(x) + Len(y)
  /\ \A k \in 1..Len(x) : z[k] = x[k]
  /\ \A k \in 1..Len(y) : z[Len(x)+k] = y[k]

(* Concatenation puts the second sequence after the first.                 *)
LEMMA Joined ==
  ASSUME NEW S, NEW x \in Seq(S), NEW y \in Seq(S)
  PROVE  IsJoined(x \o y, x, y, S)
<1>1. PICK n \in Nat : n = Len(x)
  BY LenProperties
<1>2. PICK l \in Nat : l = Len(y)
  BY LenProperties
<1>3. PICK z : z = x \o y
  OBVIOUS
<1>4. /\ z \in Seq(S) /\ Len(z) = n+l
      /\ \A k \in 1..n+l : z[k] = IF k <= n THEN x[k] ELSE y[k-n]
  BY <1>1, <1>2, <1>3, ConcatProperties
<1>5. \A k \in 1..n : z[k] = x[k]
  <2>1. \A k \in 1..n : k \in 1..n+l /\ k <= n
    OBVIOUS
  <2> QED BY ONLY <1>4, <2>1
<1>6. \A k \in 1..l : z[n+k] = y[k]
  <2>1. \A k \in 1..l : n+k \in 1..n+l /\ ~(n+k <= n) /\ (n+k)-n = k
    OBVIOUS
  <2> QED BY ONLY <1>4, <2>1
<1> QED BY <1>1, <1>2, <1>3, <1>4, <1>5, <1>6 DEF IsJoined

\* c is a run of smaller over a word that smaller accepts and bigger rejects.
Refutes(c) ==
  /\ Len(c.path) = Len(c.word) + 1
  /\ c.path[1] \in smaller.initial /\ Last(c.path) \in smaller.final
  /\ \A i \in 1..Len(c.word) : c.path[i+1] \in smaller.delta[c.path[i]][c.word[i]]
  /\ ~ Accepts(bigger, c.word)

(* The way back and what is left of the run make a run of smaller, and     *)
(* bigger, led by the same word, is in the set of each pair in turn.       *)
LEMMA RunRefutes ==
  ASSUME IInv, Forest, NEW m \in todo, answer = "none",
         NEW t, LeadsBack(t, prod_state), NEW w, NEW s, IsBack(w, s, t, m),
         NEW word, NEW path, Nearing(word, path), path[1] = m[2],
         Last(path) \in smaller.final,
         lengths_incompatible(succ(m)) \/ shows_cex(succ(m)),
         NEW c, c.word = w \o word, c.path = s \o path
  PROVE  Refutes(c)
<1> DEFINE D == DOMAIN paths
<1>1. /\ InputOK /\ AllMet /\ D \subseteq Pair
      /\ m \in MovesOf(smaller, prod_state[1]) /\ m[1] \in Symbol /\ m[2] \in StateS
      /\ succ(m) \in Pair
  BY MoveFacts DEF TypeOK, AllMet
<1>2. PICK n \in Nat : n = Len(t) /\ n >= 1 /\ \A i \in 1..n : t[i] \in D
  <2>1. t \in Seq(D) /\ t # << >>
    BY DEF LeadsBack
  <2> QED BY <2>1, EmptySeq, LenProperties, ElementOfSeq
<1>3. /\ word \in Seq(Symbol) /\ path \in Seq(StateS)
      /\ w \in Seq(Symbol) /\ Len(w) = n /\ s \in Seq(StateS) /\ Len(s) = n
  BY <1>2 DEF Nearing, IsBack
<1>4. PICK L \in Nat : L = Len(word) /\ Len(path) = L+1
  BY <1>3, LenProperties DEF Nearing
<1>5. PICK v : v = c.word
  OBVIOUS
<1>6. PICK r : r = c.path
  OBVIOUS
<1>7. /\ v \in Seq(Symbol) /\ Len(v) = n+L
      /\ \A k \in 1..n : v[k] = w[k]
      /\ \A k \in 1..L : v[n+k] = word[k]
  <2>1. w \in Seq(Symbol) /\ Len(w) = n /\ word \in Seq(Symbol) /\ Len(word) = L
    BY <1>3, <1>4
  <2>2. IsJoined(w \o word, w, word, Symbol)
    BY ONLY <2>1, Joined
  <2>3. IsJoined(v, w, word, Symbol)
    BY <1>5, <2>2
  <2> QED BY ONLY <2>1, <2>3 DEF IsJoined
<1>8. /\ r \in Seq(StateS) /\ Len(r) = n+L+1
      /\ \A k \in 1..n : r[k] = s[k]
      /\ \A k \in 1..L+1 : r[n+k] = path[k]
  <2>1. PICK l \in Nat : l = L+1 /\ n+l = n+L+1
    OBVIOUS
  <2>2. s \in Seq(StateS) /\ Len(s) = n /\ path \in Seq(StateS) /\ Len(path) = l
    BY <1>3, <1>4, <2>1
  <2>3. IsJoined(s \o path, s, path, StateS)
    BY ONLY <2>2, Joined
  <2>4. IsJoined(r, s, path, StateS)
    BY <1>6, <2>3
  <2> QED BY ONLY <2>1, <2>2, <2>4 DEF IsJoined
<1>9. /\ w[n] = m[1] /\ \A k \in 1..n-1 : w[k] = paths[t[n-k]].symbol
      /\ \A k \in 1..n : s[k] = t[n+1-k][1]
  BY <1>2 DEF IsBack
<1>10. /\ t[1] = prod_state
       /\ t[n][1] \in smaller.initial /\ t[n][2] = bigger.initial
       /\ \A i \in 1..n-1 :
            /\ <<paths[t[i]].symbol, t[i][1]>> \in MovesOf(smaller, t[i+1][1])
            /\ t[i][2] = Post(bigger, t[i+1][2], paths[t[i]].symbol)
  <2>1. /\ t[1] = prod_state /\ paths[t[n]].from = t[n]
        /\ \A i \in 1..n-1 : t[i+1] = paths[t[i]].from /\ paths[t[i]].from # t[i]
    BY <1>2 DEF LeadsBack
  <2>2. \A i \in 1..n-1 : i \in 1..n
    BY <1>2
  <2>3. n \in 1..n
    BY <1>2
  <2> QED BY <1>2, <2>1, <2>2, <2>3 DEF Forest, Entries
<1>11. r[1] \in smaller.initial
  <2>1. 1 \in 1..n /\ n+1-1 = n
    BY <1>2
  <2> QED BY <1>8, <1>9, <1>10, <2>1
<1>12. Last(r) \in smaller.final
  <2>1. L+1 \in 1..L+1 /\ n+(L+1) = n+L+1
    BY <1>2, <1>4
  <2>2. Last(r) = path[L+1] /\ Last(path) = path[L+1]
    BY <1>4, <1>8, <2>1 DEF Last
  <2> QED BY <2>2
<1>13. ASSUME NEW i \in 1..n+L PROVE r[i+1] \in smaller.delta[r[i]][v[i]]
  <2>1. CASE i \in 1..n-1
    <3> DEFINE j == n-i
    <3>1. i \in 1..n /\ i+1 \in 1..n /\ j \in 1..n-1 /\ n+1-i = j+1 /\ n+1-(i+1) = j
      BY <1>2, <2>1
    <3>2. r[i+1] = t[j][1] /\ r[i] = t[j+1][1] /\ v[i] = paths[t[j]].symbol
      BY <1>7, <1>8, <1>9, <2>1, <3>1
    <3>3. <<paths[t[j]].symbol, t[j][1]>> \in MovesOf(smaller, t[j+1][1])
      BY <1>10, <3>1
    <3> HIDE DEF j
    <3>4. t[j][1] \in smaller.delta[t[j+1][1]][paths[t[j]].symbol]
      BY <3>3 DEF MovesOf
    <3> QED BY <3>2, <3>4
  <2>2. CASE i = n
    <3>1. n \in 1..n /\ n+1-n = 1 /\ 1 \in 1..L+1
      BY <1>2, <1>4
    <3>2. r[n+1] = m[2] /\ r[n] = prod_state[1] /\ v[n] = m[1]
      BY <1>7, <1>8, <1>9, <1>10, <3>1
    <3> QED BY <1>1, <2>2, <3>2 DEF MovesOf
  <2>3. CASE i \notin 1..n
    <3> DEFINE k == i-n
    <3>1. k \in 1..L /\ k \in 1..L+1 /\ k+1 \in 1..L+1 /\ n+k = i /\ n+(k+1) = i+1
      BY <1>2, <1>4, <2>3
    <3>2. v[i] = word[k] /\ r[i] = path[k] /\ r[i+1] = path[k+1]
      BY <1>7, <1>8, <3>1
    <3> HIDE DEF k
    <3>3. path[k+1] \in smaller.delta[path[k]][word[k]]
      BY <1>4, <3>1 DEF Nearing
    <3> QED BY <3>2, <3>3
  <2> QED BY <1>2, <2>1, <2>2, <2>3
<1>14. ~ Accepts(bigger, v)
  <2>1. bigger.initial \in SUBSET StateB
    BY <1>1 DEF InputOK, AutomataOver
  <2>2. \A a \in Symbol : \A T \in SUBSET StateB : Post(bigger, T, a) \in SUBSET StateB
    BY <1>1 DEF InputOK, AutomataOver, Post
  <2>3. n+L \in Nat /\ Len(v) = n+L /\ \A k \in 1..n+L : v[k] \in Symbol
    BY <1>2, <1>4, <1>7, ElementOfSeq
  <2>4. PICK after : WordLayers(after, bigger, StateB, bigger.initial, v)
                     /\ PostWord(bigger, bigger.initial, v) = after[n+L]
    <3>1. \A k \in 1..Len(v) : \A T \in SUBSET StateB : Post(bigger, T, v[k]) \in SUBSET StateB
      BY <2>2, <2>3
    <3>2. Len(v) \in Nat
      BY <2>3
    <3> QED BY ONLY <2>1, <2>3, <3>1, <3>2, PostWordLayers
  <2>5. /\ after \in [0..n+L -> SUBSET StateB]
        /\ after[0] = bigger.initial
        /\ \A k \in 1..n+L : after[k] = Post(bigger, after[k-1], v[k])
    BY <2>3, <2>4 DEF WordLayers
  <2> DEFINE Good == {k \in 0..n-1 : after[k] = t[n-k][2]}
  <2>6. \A k \in 0..n-1 : k \in Good
    <3>1. 0 \in Good
      <4>1. 0 \in 0..n-1 /\ n-0 = n
        BY <1>2
      <4> QED BY <1>10, <2>5, <4>1
    <3>2. ASSUME NEW k \in 1..n-1, k-1 \in Good PROVE k \in Good
      <4>1. after[k-1] = t[n-(k-1)][2]
        BY <3>2
      <4>2. /\ k \in 1..n /\ k \in 0..n-1 /\ k \in 1..n+L
            /\ n-k \in 1..n-1 /\ n-(k-1) = (n-k)+1
        BY <1>2, <1>4
      <4>3. after[k] = Post(bigger, t[(n-k)+1][2], paths[t[n-k]].symbol)
        BY <1>7, <1>9, <2>5, <4>1, <4>2
      <4>4. after[k] = t[n-k][2]
        BY <1>10, <4>2, <4>3
      <4> QED BY <4>2, <4>4
    <3>3. Good \in SUBSET (0..n-1) /\ n-1 \in Nat
      BY <1>2
    <3> HIDE DEF Good
    <3> QED BY ONLY <3>1, <3>2, <3>3, UpTo
  <2>7. after[n] = succ(m)[2]
    <3>1. n-1 \in 0..n-1 /\ n-(n-1) = 1 /\ n \in 1..n+L /\ n \in 1..n
      BY <1>2, <1>4
    <3>2. after[n-1] = prod_state[2]
      BY <1>10, <2>6, <3>1
    <3>3. after[n] = Post(bigger, prod_state[2], m[1])
      BY <1>7, <1>9, <2>5, <3>1, <3>2
    <3> QED BY <3>3 DEF succ
  <2> DEFINE rest == [k \in 0..L |-> after[n+k]]
  <2>8. WordLayers(rest, bigger, StateB, succ(m)[2], word)
    <3>1. \A k \in 0..L : n+k \in 0..n+L
      BY <1>2, <1>4
    <3>2. rest \in [0..L -> SUBSET StateB]
      BY <2>5, <3>1
    <3>3. 0 \in 0..L /\ n+0 = n
      BY <1>2, <1>4
    <3>4. \A k \in 1..L : /\ k \in 0..L /\ k-1 \in 0..L /\ n+k \in 1..n+L
                          /\ (n+k)-1 = n+(k-1)
      BY <1>2, <1>4
    <3>5. rest[0] = succ(m)[2]
      BY <2>7, <3>3
    <3>6. ASSUME NEW k \in 1..L PROVE rest[k] = Post(bigger, rest[k-1], word[k])
      <4>1. after[n+k] = Post(bigger, after[(n+k)-1], v[n+k])
        BY <2>5, <3>4
      <4>2. rest[k] = after[n+k] /\ rest[k-1] = after[(n+k)-1] /\ v[n+k] = word[k]
        BY <1>7, <3>4
      <4> QED BY <4>1, <4>2
    <3> HIDE DEF rest
    <3> QED BY <1>4, <3>2, <3>5, <3>6 DEF WordLayers
  <2>9. path[1] = succ(m)[1]
    BY DEF succ
  <2>10. rest[L] \cap bigger.final = {}
    <3> HIDE DEF rest
    <3> QED BY <1>1, <1>4, <2>8, <2>9, RestRejected
  <2>11. rest[L] = after[n+L]
    BY <1>4
  <2> QED BY <2>4, <2>10, <2>11 DEF Accepts
<1>15. Len(r) = Len(v) + 1 /\ Len(v) = n+L
  BY <1>7, <1>8, <1>2, <1>4
<1> QED BY <1>5, <1>6, <1>11, <1>12, <1>13, <1>14, <1>15 DEF Refutes


\* Nothing has been written into an empty Run before the search ends.
CexInv == Forest /\ (answer = "none" => cex = [word |-> << >>, path |-> << >>]) /\ CexExact

(* A pair that ends the search has a run of smaller left to a final state. *)
LEMMA RefuteTells == IInv /\ CexInv /\ Refute => CexExact'
<1> SUFFICES ASSUME IInv, CexInv, NEW m \in todo, answer = "none",
                    lengths_incompatible(succ(m)) \/ shows_cex(succ(m)),
                    cex' = Counterexample(m[1], m[2]),
                    UNCHANGED input
             PROVE  CexExact'
  BY DEF Refute
<1>1. /\ InputOK /\ TypeOK /\ m[1] \in Symbol /\ m[2] \in StateS
      /\ succ(m) \in Pair /\ prod_state \in DOMAIN paths /\ Forest
      /\ cex = [word |-> << >>, path |-> << >>]
  BY MoveFacts DEF CexInv
<1>2. PICK t : t = Trace(prod_state)
  OBVIOUS
<1>3. LeadsBack(t, prod_state)
  BY <1>1, <1>2, FinitePaths, TraceLeadsBack
<1>4. PICK w, s : /\ IsBack(w, s, t, m)
                  /\ Counterexample(m[1], m[2]).word = w \o Leftover(m[2]).word
                  /\ Counterexample(m[1], m[2]).path = s \o Leftover(m[2]).path
  BY <1>1, <1>2, <1>3, CounterexampleIs
<1>5. distances_smaller[m[2]] < Far
  <2>1. /\ \A q \in StateS : distances_smaller[q] \in 0..Far
        /\ \A q \in smaller.final : distances_smaller[q] = 0
        /\ \A q \in StateB : distances_bigger[q] \in 0..Far
    <3>1. smaller.final \subseteq StateS
      BY <1>1 DEF InputOK, AutomataOver
    <3> QED BY <1>1, <3>1, DistancesRight DEF InputOK, Distances
  <2>2. Far \in Nat /\ Far >= 1 /\ distances_smaller[m[2]] \in 0..Far
    BY <1>1, <2>1, FarIsNat
  <2>3. CASE lengths_incompatible(succ(m))
    <3>1. succ(m)[1] = m[2] /\ succ(m)[2] \subseteq StateB
      BY <1>1 DEF succ, Pair
    <3>2. min_dst(succ(m)[2]) \in 0..Far
      BY <2>1, <3>1, MinDistance
    <3>3. distances_smaller[m[2]] < min_dst(succ(m)[2])
      BY <2>3, <3>1 DEF lengths_incompatible
    <3> QED BY <2>2, <3>2, <3>3
  <2>4. CASE shows_cex(succ(m))
    <3>1. m[2] \in smaller.final
      BY <2>4 DEF shows_cex, succ
    <3> QED BY <2>1, <2>2, <3>1
  <2> QED BY <2>3, <2>4
<1>6. PICK l : l = Leftover(m[2])
  OBVIOUS
<1>7. Nearing(l.word, l.path) /\ l.path[1] = m[2] /\ Last(l.path) \in smaller.final
  BY <1>1, <1>5, <1>6, LeftoverAccepts
<1>8. PICK c : c = Counterexample(m[1], m[2])
  OBVIOUS
<1>9. c.word = w \o l.word /\ c.path = s \o l.path
  BY <1>4, <1>6, <1>8
<1>10. Refutes(c)
  BY <1>1, <1>3, <1>4, <1>7, <1>9, RunRefutes
<1> QED BY <1>8, <1>10 DEF input, Refutes, CexExact

(* The empty word is a run of one state, or nothing is told yet.           *)
LEMMA CexInit ==
  ASSUME Handed \subseteq {[word |-> << >>, path |-> << >>]}
  PROVE  Init => CexInv
<1> SUFFICES ASSUME Init PROVE CexInv
  OBVIOUS
<1> DEFINE empty == {q \in smaller.initial : q \in smaller.final
                                               /\ bigger.initial \cap bigger.final = {}}
<1>1. InputOK /\ Forest
  BY InitHolds, ForestInit DEF IInv
<1>2. CASE empty = {}
  <2>1. answer = "none" /\ cex \in Handed
    BY <1>2 DEF Init
  <2> QED BY <1>1, <2>1 DEF CexInv, CexExact
<1>3. CASE empty # {}
  <2>1. answer = "not included" /\ \E q \in empty : cex = [word |-> << >>, path |-> <<q>>]
    BY <1>3 DEF Init
  <2>2. PICK q \in empty : cex = [word |-> << >>, path |-> <<q>>]
    BY <2>1
  <2>3. cex.word = << >> /\ cex.path = <<q>>
    BY <2>2
  <2>4. Len(cex.path) = 1 /\ Len(cex.word) = 0 /\ cex.path[1] = q /\ Last(cex.path) = q
    BY <2>3 DEF Last
  <2>5. PostWord(bigger, bigger.initial, << >>) = bigger.initial
    <3>1. /\ bigger \in AutomataOver(StateB, Symbol)
          /\ bigger.initial \in SUBSET StateB
      BY <1>1 DEF InputOK, AutomataOver
    <3> QED BY ONLY <3>1, PostWordEmpty
  <2>6. ~ Accepts(bigger, cex.word)
    BY <2>2, <2>3, <2>5 DEF Accepts
  <2>7. \A i \in 1..Len(cex.word) : FALSE
    BY <2>4
  <2>8. Len(cex.path) = Len(cex.word) + 1
    BY <2>4
  <2>9. CexExact
    BY <2>2, <2>4, <2>6, <2>7, <2>8 DEF CexExact
  <2> QED BY <1>1, <2>1, <2>9 DEF CexInv
<1> QED BY <1>2, <1>3

(* Only the step that ends the search writes the Run.                      *)
LEMMA CexNext == IInv /\ CexInv /\ [Next]_vars => CexInv'
<1> SUFFICES ASSUME IInv, CexInv, [Next]_vars PROVE CexInv'
  OBVIOUS
<1>1. Forest'
  BY ForestNext DEF CexInv
<1>2. CASE Refute
  <2>1. answer' = "not included"
    BY <1>2 DEF Refute
  <2> QED BY <1>1, <1>2, <2>1, RefuteTells DEF CexInv
<1>3. CASE ~ Refute
  <2>1. UNCHANGED <<smaller, bigger, cex>> /\ (answer' = answer \/ answer' = "included")
        /\ (answer' = "none" => answer = "none")
    BY <1>3 DEF Next, TakePair, SkipSubsumed, AddPair, Conclude, vars, input
  <2>2. CexExact'
    BY <2>1 DEF CexInv, CexExact
  <2> QED BY <1>1, <2>1, <2>2 DEF CexInv
<1> QED BY <1>2, <1>3

(* For all finite automata, and an empty Run handed in: what               *)
(* is_included_antichains() writes into it is a run of smaller from an     *)
(* initial to a final state over a word that bigger rejects, also when the *)
(* distances ended the search before the run was complete.                 *)
THEOREM Counterexamples ==
  ASSUME Handed \subseteq {[word |-> << >>, path |-> << >>]}
  PROVE  Spec => []CexExact
<1>1. Init => IInv /\ CexInv
  BY InitHolds, CexInit
<1>2. IInv /\ CexInv /\ [Next]_vars => (IInv /\ CexInv)'
  BY NextHolds, CexNext
<1>3. CexInv => CexExact
  BY DEF CexInv
<1> QED BY <1>1, <1>2, <1>3, PTL DEF Spec


-----------------------------------------------------------------------------
(* Included() says what its name does: over words of any length, a pair is *)
(* met exactly when a word leads to its two parts.                         *)
LEMMA IncludedByWords ==
  ASSUME InputOK
  PROVE  Included(smaller, bigger) <=>
           \A w \in Seq(Symbol) : Accepts(smaller, w) => Accepts(bigger, w)
<1> DEFINE A == smaller
           B == bigger
           G == PairSteps(smaller, bigger)
           First == {<<q, bigger.initial>> : q \in smaller.initial}
           ByWord(p, w) == /\ p[1] \in PostWord(A, A.initial, w)
                           /\ p[2] = PostWord(B, B.initial, w)
           T == {p \in Pair : \E w \in Seq(Symbol) : ByWord(p, w)}
<1>1. /\ A \in AutomataOver(StateS, Symbol) /\ B \in AutomataOver(StateB, Symbol)
      /\ A.initial \in SUBSET StateS /\ B.initial \in SUBSET StateB
  BY DEF InputOK, AutomataOver
<1>2. IsGraph(G) /\ DOMAIN G = Pair /\ First \in SUBSET Pair
  BY PairGraph
<1> HIDE DEF A, B
<1>3. /\ PostWord(A, A.initial, << >>) = A.initial
      /\ PostWord(B, B.initial, << >>) = B.initial
  BY <1>1, PostWordEmpty
<1>4. ASSUME NEW w \in Seq(Symbol), NEW a \in Symbol
      PROVE  /\ PostWord(A, A.initial, w) \in SUBSET StateS
             /\ PostWord(B, B.initial, w) \in SUBSET StateB
             /\ PostWord(A, A.initial, Append(w, a)) = Post(A, PostWord(A, A.initial, w), a)
             /\ PostWord(B, B.initial, Append(w, a)) = Post(B, PostWord(B, B.initial, w), a)
  <2>1. PICK I \in SUBSET StateS : I = A.initial
    BY <1>1
  <2>2. PICK J \in SUBSET StateB : J = B.initial
    BY <1>1
  <2>3. A \in AutomataOver(StateS, Symbol) /\ B \in AutomataOver(StateB, Symbol)
    BY <1>1
  <2>4. PostWord(A, I, w) \in SUBSET StateS
    BY ONLY <2>3, w \in Seq(Symbol), I \in SUBSET StateS, PostWordType
  <2>5. PostWord(A, I, Append(w, a)) = Post(A, PostWord(A, I, w), a)
    BY ONLY <2>3, w \in Seq(Symbol), a \in Symbol, I \in SUBSET StateS, PostWordAppend
  <2>6. PostWord(B, J, w) \in SUBSET StateB
    BY ONLY <2>3, w \in Seq(Symbol), J \in SUBSET StateB, PostWordType
  <2>7. PostWord(B, J, Append(w, a)) = Post(B, PostWord(B, J, w), a)
    BY ONLY <2>3, w \in Seq(Symbol), a \in Symbol, J \in SUBSET StateB, PostWordAppend
  <2> QED BY <2>1, <2>2, <2>4, <2>5, <2>6, <2>7
<1>5. Met \subseteq T
  <2>1. First \subseteq T
    <3>1. ASSUME NEW q \in A.initial PROVE ByWord(<<q, B.initial>>, << >>)
      BY <1>3
    <3>2. << >> \in Seq(Symbol)
      BY EmptySeq
    <3> QED BY <1>2, <3>1, <3>2 DEF A, B
  <2>2. ASSUME NEW p \in T, NEW s \in G[p] PROVE s \in T
    <3>1. PICK w \in Seq(Symbol) : ByWord(p, w)
      BY <2>2
    <3>2. s \in Pair /\ p \in Pair /\ \E a \in Symbol : s[1] \in A.delta[p[1]][a] /\ s[2] = Post(B, p[2], a)
      BY <2>2 DEF PairSteps, A, B
    <3>3. PICK a \in Symbol : s[1] \in A.delta[p[1]][a] /\ s[2] = Post(B, p[2], a)
      BY <3>2
    <3>4. ByWord(s, Append(w, a))
      <4>1. s[1] \in Post(A, PostWord(A, A.initial, w), a)
        BY <3>1, <3>3 DEF Post
      <4> QED BY <1>4, <3>1, <3>3, <4>1
    <3>5. Append(w, a) \in Seq(Symbol)
      BY AppendProperties
    <3> QED BY <3>2, <3>4, <3>5
  <2>3. Met = Closure(G, First)
    BY DEF Met, MetPairs
  <2>4. First \in SUBSET DOMAIN G /\ \A p \in T \cap DOMAIN G : G[p] \subseteq T
    BY <1>2, <2>2
  <2> HIDE DEF T, G, First
  <2> QED BY ONLY <1>2, <2>1, <2>3, <2>4, ClosureLeast
<1>6. ASSUME NEW w \in Seq(Symbol), NEW q \in PostWord(A, A.initial, w)
      PROVE  <<q, PostWord(B, B.initial, w)>> \in Met
  <2>1. PICK n \in Nat : n = Len(w) /\ \A k \in 1..n : w[k] \in Symbol
    BY LenProperties, ElementOfSeq
  <2>2. PICK f : WordLayers(f, A, StateS, A.initial, w) /\ PostWord(A, A.initial, w) = f[n]
    <3>1. Len(w) \in Nat /\ \A k \in 1..Len(w) : \A S \in SUBSET StateS : Post(A, S, w[k]) \in SUBSET StateS
      BY <1>1, <2>1 DEF Post, AutomataOver
    <3> QED BY ONLY <1>1, <2>1, <3>1, PostWordLayers
  <2>3. PICK g : WordLayers(g, B, StateB, B.initial, w) /\ PostWord(B, B.initial, w) = g[n]
    <3>1. Len(w) \in Nat /\ \A k \in 1..Len(w) : \A S \in SUBSET StateB : Post(B, S, w[k]) \in SUBSET StateB
      BY <1>1, <2>1 DEF Post, AutomataOver
    <3> QED BY ONLY <1>1, <2>1, <3>1, PostWordLayers
  <2>4. /\ f[0] = A.initial /\ \A k \in 1..n : f[k] = Post(A, f[k-1], w[k])
        /\ g[0] = B.initial /\ \A k \in 1..n : g[k] = Post(B, g[k-1], w[k])
        /\ \A k \in 0..n : f[k] \subseteq StateS
    BY <2>1, <2>2, <2>3 DEF WordLayers
  <2> DEFINE Good == {k \in 0..n : \A r \in f[k] : <<r, g[k]>> \in Met}
  <2>5. 0 \in Good
    BY <2>4, MetFacts DEF A, B
  <2>6. ASSUME NEW k \in 1..n, k-1 \in Good PROVE k \in Good
    <3>1. k \in 0..n /\ k-1 \in 0..n /\ \A r \in f[k-1] : <<r, g[k-1]>> \in Met
      BY <2>6
    <3>2. ASSUME NEW s \in f[k] PROVE <<s, g[k]>> \in Met
      <4>1. PICK r \in f[k-1] : s \in A.delta[r][w[k]]
        BY <2>4, <3>2 DEF Post
      <4>2. s \in StateS /\ w[k] \in Symbol
        BY <2>1, <2>4, <3>1, <3>2
      <4>3. <<w[k], s>> \in MovesOf(smaller, r)
        BY <4>1, <4>2 DEF MovesOf, A
      <4>4. PICK p \in Met : p = <<r, g[k-1]>>
        BY <3>1
      <4>5. PICK m : m = <<w[k], s>>
        OBVIOUS
      <4>6. m \in MovesOf(smaller, p[1]) /\ m[1] = w[k] /\ m[2] = s /\ p[2] = g[k-1]
        BY <4>3, <4>4, <4>5
      <4>7. <<m[2], Post(bigger, p[2], m[1])>> \in Met
        BY <4>6, MetFacts
      <4> QED BY <2>4, <4>6, <4>7 DEF B
    <3> QED BY <3>1, <3>2
  <2>7. n \in Good
    <3>1. Good \in SUBSET (0..n) OBVIOUS
    <3>2. n \in 0..n OBVIOUS
    <3> HIDE DEF Good
    <3> QED BY ONLY n \in Nat, <2>5, <2>6, <3>1, <3>2, UpTo
  <2> QED BY <2>2, <2>3, <2>7
<1>7. Included(smaller, bigger) <=> \A p \in Met : p[1] \in A.final => p[2] \cap B.final # {}
  BY DEF Included, Met, A, B
<1>8. ASSUME \A p \in Met : p[1] \in A.final => p[2] \cap B.final # {},
             NEW w \in Seq(Symbol), Accepts(A, w)
      PROVE  Accepts(B, w)
  <2>1. PICK q \in PostWord(A, A.initial, w) : q \in A.final
    BY <1>8 DEF Accepts
  <2>2. PICK p \in Met : p[1] = q /\ p[2] = PostWord(B, B.initial, w)
    BY <1>6
  <2> QED BY <1>8, <2>1, <2>2 DEF Accepts
<1>9. ASSUME \A w \in Seq(Symbol) : Accepts(A, w) => Accepts(B, w),
             NEW p \in Met, p[1] \in A.final
      PROVE  p[2] \cap B.final # {}
  <2>1. PICK w \in Seq(Symbol) : ByWord(p, w)
    BY <1>5
  <2> QED BY <1>9, <2>1 DEF Accepts
<1> QED BY <1>7, <1>8, <1>9 DEF A, B

(* For all finite automata and words of any length: the answer of          *)
(* is_included_antichains() is "included" exactly when bigger accepts all  *)
(* that smaller accepts.                                                   *)
THEOREM Inclusion ==
  Spec => [](answer # "none" =>
               (answer = "included" <=>
                  \A w \in Seq(Symbol) : Accepts(smaller, w) => Accepts(bigger, w)))
<1>1. IInv => (answer # "none" =>
                 (answer = "included" <=>
                    \A w \in Seq(Symbol) : Accepts(smaller, w) => Accepts(bigger, w)))
  BY IncludedByWords DEF IInv, AnswerExact
<1> QED BY <1>1, Invariant, PTL
=============================================================================
