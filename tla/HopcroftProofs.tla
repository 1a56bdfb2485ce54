--------------------------- MODULE HopcroftProofs ---------------------------
(***************************************************************************)
(* minimize_hopcroft() for every deterministic trimmed automaton: the two  *)
(* partitions fit together, no states with the same words are separated,   *)
(* the smaller halves suffice, and the result is the minimal automaton.    *)
(***************************************************************************)
EXTENDS Hopcroft, AutomataProofs

N == Cardinality(StatesOf(dfa))
States == 0..N-1
Symbol(t) == trans[t+1][2]

Block(q) == brp.set_idx[q]
Splitter(t) == trp.set_idx[t]
Into(t) == brp.set_idx[target(t)]

\* The marked elements of all sets of a partition.
Marks(p) == {e \in DOMAIN p.set_idx : p.location[e] < p.mid[p.set_idx[e]]}

Sources(C) == {source(t) : t \in C}

\* What the variables are.
Typed ==
  /\ dfa \in Inputs /\ trans = transitions(dfa) /\ trans # <<>>
  /\ Represents(brp, N) /\ Represents(trp, Len(trans))
  /\ unready_spls \in Seq(0..trp.num_of_sets-1)
  /\ touched_spls \in Seq(0..trp.num_of_sets-1)
  /\ touched_blocks \in Seq(0..brp.num_of_sets-1)
  /\ trans_idx \in Transitions \cup {NO_MORE_ELEMENTS}
  /\ moved \in Seq(Transitions)
  /\ unmarked \in SUBSET dfa.final
  /\ pc \in {"final", "main", "done"}

\* split_block() runs: transitions are to be marked or splitters to be split.
Busy == moved # <<>> \/ touched_spls # <<>>

\* What is marked has been touched.
Touched ==
  /\ \A t \in Transitions : t \in Marks(trp) => Splitter(t) \in Range(touched_spls)
  /\ pc # "final" => \A q \in States : q \in Marks(brp) => Block(q) \in Range(touched_blocks)
  /\ Busy \/ pc = "done" => trans_idx = NO_MORE_ELEMENTS
  /\ pc = "done" => touched_blocks = <<>> /\ unready_spls = <<>> /\ ~Busy

\* Before the first split.
AtFirst ==
  pc = "final" =>
    /\ ~Busy /\ touched_blocks = <<>> /\ trans_idx = NO_MORE_ELEMENTS
    /\ brp.num_of_sets = 1 /\ Marks(brp) = dfa.final \ unmarked
    /\ \A t \in Transitions : Splitter(t) \in Range(unready_spls)

\* b and c are one block, or the two halves x and y of one.
OneBlock(b, c, x, y) == b = c \/ (b \in {x, y} /\ c \in {x, y})

\* The splitter of t leads into one block, and has nothing left to mark.
Sorted(t) ==
  \A u \in Transitions : Splitter(u) = Splitter(t) =>
    Into(u) = Into(t) /\ u \notin Marks(trp) /\ u \notin Range(moved)

\* What is or will be marked in the splitter of t is what leads into z.
Sorting(t, z) ==
  \A u \in Transitions : Splitter(u) = Splitter(t) =>
    (u \in Marks(trp) \/ u \in Range(moved) <=> Into(u) = z)

\* The splitters fit to the blocks before x and y were separated, and become
\* fit to x and y.
Fit(x, y, z) ==
  /\ z \in {x, y} /\ (~Busy => x = y)
  /\ \A t, u \in Transitions :
       /\ Splitter(t) = Splitter(u) =>
            Symbol(t) = Symbol(u) /\ OneBlock(Into(t), Into(u), x, y)
       /\ Symbol(t) = Symbol(u) /\ Into(t) = Into(u) => Splitter(t) = Splitter(u)
  /\ \A t \in Transitions : Sorted(t) \/ Sorting(t, z)

\* Blocks are unions of classes of states with the same words, ...
Coarse == \A p, q \in States : Residual(p) = Residual(q) => Block(p) = Block(q)

\* ... and tell final states from the others.
Uniform ==
  pc # "final" => \A p, q \in States : Block(p) = Block(q) /\ p \in dfa.final => q \in dfa.final

\* The transitions of C have one symbol, and states with the same words are
\* or are not both their sources.
OneLetter(C) ==
  /\ C \in SUBSET Transitions
  /\ \A t, u \in C : Symbol(t) = Symbol(u)
  /\ \A p, q \in States : Residual(p) = Residual(q) /\ p \in Sources(C) => q \in Sources(C)

\* The transitions C of a splitter are being fired, up to trans_idx.
Firing(C) ==
  trans_idx # NO_MORE_ELEMENTS =>
    /\ C = {t \in Transitions : Splitter(t) = Splitter(trans_idx)}
    /\ \A q \in States :
         q \in Marks(brp) <=>
           \E t \in C : trp.location[t] < trp.location[trans_idx] /\ source(t) = q

\* They have been fired, and block b has been split by it or will be.
Fired(C, b) ==
  \/ \A q \in States : Block(q) = b => (q \in Marks(brp) <=> q \in Sources(C))
  \/ \A p, q \in States : Block(p) = b /\ Block(q) = b =>
       p \notin Marks(brp) /\ (p \in Sources(C) => q \in Sources(C))

\* The transitions of q over the symbol of t.
Beside(t, q) == {u \in Transitions : source(u) = q /\ Symbol(u) = Symbol(t)}

\* t is matched by a transition of q, or a splitter that tells them apart is
\* still to be used, or is the one in use.
Settled(t, q, C) ==
  \/ \E u \in Beside(t, q) : Splitter(u) = Splitter(t)
  \/ \E u \in Beside(t, q) \cup {t} : Splitter(u) \in Range(unready_spls)
  \/ t \in C /\ \A u \in Beside(t, q) : u \notin C
  \/ t \notin C /\ \E u \in Beside(t, q) : u \in C

\* The transitions C of the splitter in use are settled with those to come.
Current(C) ==
  /\ OneLetter(C) /\ Firing(C)
  /\ pc # "final" /\ trans_idx = NO_MORE_ELEMENTS => \A b \in Blocks : Fired(C, b)
  /\ \A t \in Transitions, q \in States : Block(q) = Block(source(t)) => Settled(t, q, C)

\* The invariant while there are transitions.
HInv ==
  /\ Typed /\ Touched /\ AtFirst
  /\ \E x, y, z \in Blocks : Fit(x, y, z)
  /\ Coarse /\ Uniform
  /\ \E C \in SUBSET Transitions : Current(C)

-----------------------------------------------------------------------------
\* Elements ranked by an order, and lists of lists.

\* pred[t] are the elements of S before t, in a total order.
Ordered(S, pred) ==
  /\ IsFiniteSet(S)
  /\ \A t \in S : pred[t] \in SUBSET S /\ t \notin pred[t]
  /\ \A t, u \in S : t = u \/ t \in pred[u] \/ u \in pred[t]
  /\ \A t, u \in S : u \in pred[t] => pred[u] \subseteq pred[t]

(* The number of elements before it is an element's place in the order.    *)
LEMMA Ranks ==
  ASSUME NEW S, NEW pred, Ordered(S, pred)
  PROVE  /\ Cardinality(S) \in Nat
         /\ \A t \in S : Cardinality(pred[t]) \in 0..Cardinality(S)-1
         /\ \A t, u \in S : u \in pred[t] => Cardinality(pred[u]) < Cardinality(pred[t])
         /\ \A t, u \in S : Cardinality(pred[t]) = Cardinality(pred[u]) => t = u
         /\ \A k \in 0..Cardinality(S)-1 : \E t \in S : Cardinality(pred[t]) = k
<1> USE DEF Ordered
<1>1. PICK c \in Nat : c = Cardinality(S)
  BY FS_CardinalityType
<1>2. ASSUME NEW t \in S PROVE IsFiniteSet(pred[t]) /\ Cardinality(pred[t]) \in 0..c-1
  <2>1. IsFiniteSet(S \ {t}) /\ Cardinality(S \ {t}) = c - 1
    BY <1>1, FS_RemoveElement
  <2>2. pred[t] \in SUBSET (S \ {t})
    OBVIOUS
  <2>3. IsFiniteSet(pred[t]) /\ Cardinality(pred[t]) <= c - 1
    BY ONLY <2>1, <2>2, FS_Subset
  <2> QED BY <1>1, <2>3, FS_CardinalityType
<1>3. ASSUME NEW t \in S, NEW u \in S, u \in pred[t]
      PROVE  Cardinality(pred[u]) < Cardinality(pred[t])
  <2>1. pred[u] \cup {u} \in SUBSET pred[t] /\ u \notin pred[u]
    BY <1>3
  <2>2. Cardinality(pred[u] \cup {u}) = Cardinality(pred[u]) + 1
    BY <1>2, <2>1, FS_AddElement
  <2>3. Cardinality(pred[u] \cup {u}) <= Cardinality(pred[t])
    BY <1>2, <2>1, FS_Subset
  <2> QED BY <1>2, <2>2, <2>3
<1>4. ASSUME NEW t \in S, NEW u \in S, Cardinality(pred[t]) = Cardinality(pred[u])
      PROVE  t = u
  BY <1>2, <1>3, <1>4
<1>5. ASSUME NEW k \in 0..c-1 PROVE \E t \in S : Cardinality(pred[t]) = k
  <2> DEFINE f == [t \in S |-> Cardinality(pred[t])]
  <2>1. f \in [S -> 0..c-1] /\ \A t \in S : f[t] = Cardinality(pred[t])
    BY <1>2
  <2>2. f \in Injection(S, 0..c-1)
    <3> HIDE DEF f
    <3> QED BY <2>1, <1>4, Zenon DEF Injection, IsInjective
  <2>3. IsFiniteSet(0..c-1) /\ Cardinality(0..c-1) = c
    <3>1. PICK d \in Int : d = c - 1
      BY <1>1
    <3>2. IsFiniteSet(0..d) /\ Cardinality(0..d) = IF 0 > d THEN 0 ELSE d-0+1
      BY FS_Interval
    <3> QED BY <1>1, <3>1, <3>2
  <2>4. f \in Surjection(S, 0..c-1)
    <3> HIDE DEF f
    <3> QED BY ONLY <1>1, <2>2, <2>3, FS_Injection
  <2>5. \E t \in S : f[t] = k
    <3> HIDE DEF f
    <3> QED BY <2>4 DEF Surjection
  <2> QED BY <2>1, <2>5
<1> QED BY <1>1, <1>2, <1>3, <1>4, <1>5

(* So all elements are listed, each once.                                  *)
LEMMA ListsAll ==
  ASSUME NEW T, NEW before, Ordered(T, before)
  PROVE  /\ Enumerated(T, before) \in Seq(T)
         /\ Len(Enumerated(T, before)) = Cardinality(T)
         /\ \A t \in T : \E k \in 1..Cardinality(T) : Enumerated(T, before)[k] = t
         /\ \A k, l \in 1..Cardinality(T) :
              Enumerated(T, before)[k] = Enumerated(T, before)[l] => k = l
<1>1. PICK c \in Nat : c = Cardinality(T)
  BY FS_CardinalityType DEF Ordered
<1> DEFINE At(k) == CHOOSE t \in T : Cardinality(before[t]) = k-1
           s == [k \in 1..c |-> At(k)]
<1>2. \A k \in 1..c : At(k) \in T /\ Cardinality(before[At(k)]) = k-1
  <2> TAKE k \in 1..c
  <2>1. k - 1 \in 0..c-1
    OBVIOUS
  <2>2. \E t \in T : Cardinality(before[t]) = k-1
    BY <1>1, <2>1, Ranks
  <2> QED BY <2>2
<1>3. s = Enumerated(T, before)
  BY <1>1 DEF Enumerated
<1> HIDE DEF At
<1>4. s \in Seq(T) /\ Len(s) = c /\ \A k \in 1..c : s[k] = At(k)
  BY <1>2
<1> HIDE DEF s
<1>5. ASSUME NEW t \in T PROVE \E k \in 1..c : s[k] = t
  <2>1. PICK k \in 1..c : k = Cardinality(before[t]) + 1
    BY <1>1, Ranks
  <2>2. Cardinality(before[At(k)]) = Cardinality(before[t])
    <3>1. Cardinality(before[t]) \in 0..c-1
      BY <1>1, Ranks
    <3> QED BY <1>2, <2>1, <3>1
  <2>3. At(k) = t
    BY <1>2, <2>2, Ranks
  <2> QED BY <1>4, <2>3
<1>6. ASSUME NEW k \in 1..c, NEW l \in 1..c, s[k] = s[l] PROVE k = l
  <2>1. k - 1 = l - 1
    BY <1>2, <1>4, <1>6
  <2> QED BY <2>1
<1> QED BY <1>1, <1>3, <1>4, <1>5, <1>6

(* What a list holds, ...                                                  *)
LEMMA InRange ==
  ASSUME NEW T, NEW s \in Seq(T)
  PROVE  /\ \A i \in 1..Len(s) : s[i] \in Range(s)
         /\ \A x \in Range(s) : x \in T /\ \E i \in 1..Len(s) : x = s[i]
<1>1. s \in [1..Len(s) -> T]
  BY LenProperties
<1> QED BY <1>1 DEF Range

(* ... and what two lists in a row do.                                     *)
LEMMA RangeConcat ==
  ASSUME NEW T, NEW a \in Seq(T), NEW b \in Seq(T)
  PROVE  a \o b \in Seq(T) /\ Range(a \o b) = Range(a) \cup Range(b)
<1>1. PICK c : c = a \o b
  OBVIOUS
<1>2. /\ c \in Seq(T) /\ Len(c) = Len(a) + Len(b) /\ Len(a) \in Nat /\ Len(b) \in Nat
      /\ \A i \in 1..Len(a)+Len(b) : c[i] = IF i <= Len(a) THEN a[i] ELSE b[i-Len(a)]
  BY <1>1, ConcatProperties, LenProperties
<1>3. ASSUME NEW x \in Range(a) \cup Range(b) PROVE x \in Range(c)
  <2>1. CASE x \in Range(a)
    <3>1. PICK i \in 1..Len(a) : x = a[i]
      BY <2>1, InRange
    <3>2. i \in 1..Len(c) /\ c[i] = x
      BY <1>2, <3>1
    <3> QED BY <1>2, <3>2, InRange
  <2>2. CASE x \in Range(b)
    <3>1. PICK i \in 1..Len(b) : x = b[i]
      BY <2>2, InRange
    <3>2. PICK j \in 1..Len(c) : j = i + Len(a)
      BY <1>2
    <3>3. c[j] = b[j - Len(a)] /\ j - Len(a) = i
      BY <1>2, <3>2
    <3> QED BY <1>2, <3>1, <3>3, InRange
  <2> QED BY <2>1, <2>2
<1>4. ASSUME NEW x \in Range(c) PROVE x \in Range(a) \cup Range(b)
  <2>1. PICK i \in 1..Len(c) : x = c[i]
    BY <1>2, InRange
  <2>2. CASE i <= Len(a)
    <3>1. i \in 1..Len(a) /\ x = a[i]
      BY <1>2, <2>1, <2>2
    <3> QED BY <3>1, InRange
  <2>3. CASE ~(i <= Len(a))
    <3>1. PICK j \in 1..Len(b) : j = i - Len(a)
      BY <1>2, <2>3
    <3>2. x = b[j]
      BY <1>2, <2>1, <2>3, <3>1
    <3> QED BY <3>2, InRange
  <2> QED BY <2>2, <2>3
<1> QED BY <1>1, <1>2, <1>3, <1>4

(* The lists of a list in a row.                                           *)
LEMMA Flattens ==
  ASSUME NEW T, NEW K \in Nat, NEW ss \in [1..K -> Seq(T)]
  PROVE  /\ FlattenSeq(ss) \in Seq(T)
         /\ \A x : x \in Range(FlattenSeq(ss)) <=> \E k \in 1..K : x \in Range(ss[k])
<1>1. Len(ss) = K /\ ss \in Seq(Seq(T))
  OBVIOUS
<1>2. CASE K = 0
  <2>1. FlattenSeq(ss) = << >>
    BY <1>1, <1>2 DEF FlattenSeq
  <2>2. Range(<< >>) = {}
    BY DEF Range
  <2> QED BY <1>2, <2>1, <2>2
<1>3. CASE K # 0
  <2> DEFINE IsRun(g) == g = [i \in 1..K |-> IF i = 1 THEN ss[i] ELSE g[i-1] \o ss[i]]
             w == CHOOSE g : IsRun(g)
  <2>1. K \in Nat \ {0} /\ K-1 \in Nat
    BY <1>3
  <2>2. \E g : IsRun(g)
    <3> DEFINE step == [i \in 1..K-1 |-> [s \in Seq(T) |-> s \o ss[i+1]]]
    <3>1. Steps(step, K-1, Seq(T))
      <4>1. \A i \in 1..K-1, s \in Seq(T) : s \o ss[i+1] \in Seq(T)
        BY <2>1
      <4> QED BY <4>1 DEF Steps
    <3>2. ss[1] \in Seq(T)
      BY <2>1
    <3>3. PICK h : IsIteration(h, K-1, Seq(T), ss[1], step)
      <4> HIDE DEF step
      <4> QED BY ONLY <2>1, <3>1, <3>2, Iteration
    <3> DEFINE g == [i \in 1..K |-> h[i-1]]
    <3>4. \A i \in 1..K : i # 1 => g[i] = g[i-1] \o ss[i]
      <4> TAKE i \in 1..K
      <4> SUFFICES ASSUME i # 1 PROVE g[i] = g[i-1] \o ss[i]
        OBVIOUS
      <4>1. PICK j \in 1..K-1 : j = i - 1
        BY <2>1
      <4>2. h \in [0..K-1 -> Seq(T)] /\ h[j] = step[j][h[j-1]]
        BY <3>3 DEF IsIteration
      <4>3. j - 1 \in 0..K-1 /\ h[j-1] \in Seq(T)
        BY <2>1, <4>2
      <4>4. step[j][h[j-1]] = h[j-1] \o ss[j+1]
        BY <4>3
      <4>5. g[i] = h[j] /\ g[i-1] = h[j-1] /\ j + 1 = i
        BY <2>1, <4>1
      <4> QED BY <4>2, <4>4, <4>5
    <3>5. g[1] = ss[1]
      BY <2>1, <3>3 DEF IsIteration
    <3>6. IsRun(g)
      BY <3>4, <3>5
    <3> QED BY <3>6
  <2>3. FlattenSeq(ss) = w[K]
    BY <1>1, <1>3 DEF FlattenSeq
  <2>4. IsRun(w)
    <3> HIDE DEF IsRun
    <3> QED BY <2>2
  <2> HIDE DEF w
  <2>5. /\ w[1] = ss[1]
        /\ \A i \in 1..K : i # 1 => w[i] = w[i-1] \o ss[i]
    <3>1. 1 \in 1..K
      BY <2>1
    <3>2. \A i \in 1..K : w[i] = IF i = 1 THEN ss[i] ELSE w[i-1] \o ss[i]
      BY <2>4
    <3> QED BY <3>1, <3>2, Zenon
  <2> HIDE DEF IsRun
  <2> DEFINE OfFirst(s, n) == \A x : x \in Range(s) <=> \E k \in 1..n : x \in Range(ss[k])
             Good == {n \in 0..K : n # 0 => w[n] \in Seq(T) /\ OfFirst(w[n], n)}
  <2>6. 0 \in Good
    OBVIOUS
  <2>7. ASSUME NEW n \in 1..K, n-1 \in Good PROVE n \in Good
    <3>1. CASE n = 1
      BY <2>1, <2>5, <3>1
    <3>2. CASE n # 1
      <4>1. w[n-1] \in Seq(T) /\ OfFirst(w[n-1], n-1) /\ w[n] = w[n-1] \o ss[n]
        BY <2>5, <2>7, <3>2
      <4>2. PICK a, b : a = w[n-1] /\ b = ss[n]
        OBVIOUS
      <4>3. a \in Seq(T) /\ b \in Seq(T)
        BY <4>1, <4>2
      <4>4. a \o b \in Seq(T) /\ Range(a \o b) = Range(a) \cup Range(b)
        BY <4>3, RangeConcat
      <4>5. \A k \in 1..n : k = n \/ k \in 1..n-1
        OBVIOUS
      <4>6. \A k \in 1..n-1 : k \in 1..n
        OBVIOUS
      <4>7. OfFirst(w[n], n)
        <5>1. Range(w[n]) = Range(w[n-1]) \cup Range(ss[n])
          BY <4>1, <4>2, <4>4
        <5>2. n \in 1..n
          OBVIOUS
        <5>3. ASSUME NEW x PROVE x \in Range(w[n]) <=> \E k \in 1..n : x \in Range(ss[k])
          <6>1. x \in Range(w[n-1]) <=> \E k \in 1..n-1 : x \in Range(ss[k])
            BY <4>1, Zenon
          <6> QED BY <4>5, <4>6, <5>1, <5>2, <6>1, Zenon
        <5> QED BY <5>3, Zenon
      <4>8. w[n] \in Seq(T)
        BY <4>1, <4>2, <4>4, Zenon
      <4>9. n \in 0..K
        OBVIOUS
      <4> HIDE DEF OfFirst
      <4> QED BY <4>7, <4>8, <4>9
    <3> QED BY <3>1, <3>2
  <2>8. \A n \in 0..K : n \in Good
    <3> HIDE DEF Good
    <3>1. Good \in SUBSET (0..K)
      BY DEF Good
    <3> QED BY <2>6, <2>7, <3>1, UpTo
  <2>9. K \in Good
    <3> HIDE DEF Good
    <3> QED BY <2>8
  <2> QED BY <1>3, <2>3, <2>9
<1> QED BY <1>2, <1>3

-----------------------------------------------------------------------------
\* The refinable partition.

(* Writing an entry of a vector keeps its type.                            *)
LEMMA Written ==
  ASSUME NEW S, NEW T, NEW f \in [S -> T], NEW a, NEW v \in T
  PROVE  [f EXCEPT ![a] = v] \in [S -> T]
OBVIOUS

(* So does writing two.                                                    *)
LEMMA WrittenTwice ==
  ASSUME NEW S, NEW T, NEW f \in [S -> T], NEW a, NEW v \in T, NEW b, NEW w \in T
  PROVE  [f EXCEPT ![a] = v, ![b] = w] \in [S -> T]
BY Written

(* The vectors of a partition.                                             *)
LEMMA Vectors ==
  ASSUME NEW n \in Nat, NEW p, p \in Partition(n)
  PROVE  /\ p.num_of_sets \in 1..n /\ p.set_idx \in [0..n-1 -> 0..n-1]
         /\ p.elems \in [0..n-1 -> 0..n-1] /\ p.location \in [0..n-1 -> 0..n-1]
         /\ p.first \in [0..n-1 -> 0..n] /\ p.mid \in [0..n-1 -> 0..n]
         /\ p.end \in [0..n-1 -> 0..n]
BY DEF Partition

(* Their entries: sets, elements and places, and bounds of sets.           *)
LEMMA VectorEntries ==
  ASSUME NEW n \in Nat, NEW p, p \in Partition(n), NEW k \in 0..n-1
  PROVE  /\ p.set_idx[k] \in 0..n-1 /\ p.elems[k] \in 0..n-1 /\ p.location[k] \in 0..n-1
         /\ p.first[k] \in 0..n /\ p.mid[k] \in 0..n /\ p.end[k] \in 0..n
<1>1. /\ p.set_idx \in [0..n-1 -> 0..n-1] /\ p.elems \in [0..n-1 -> 0..n-1]
      /\ p.location \in [0..n-1 -> 0..n-1] /\ p.first \in [0..n-1 -> 0..n]
      /\ p.mid \in [0..n-1 -> 0..n] /\ p.end \in [0..n-1 -> 0..n]
  BY Vectors
<1> QED BY <1>1

(* The constructor for states makes a partition of one set.                *)
THEOREM StatesRepresent ==
  ASSUME NEW n \in Nat \ {0}
  PROVE  Represents(of_states(n), n)
<1>1. PICK p : p = of_states(n)
  OBVIOUS
<1>2. /\ p.num_of_sets = 1 /\ p.set_idx = [k \in 0..n-1 |-> 0]
      /\ p.elems = [k \in 0..n-1 |-> k] /\ p.location = [k \in 0..n-1 |-> k]
      /\ p.first = [k \in 0..n-1 |-> 0] /\ p.mid = [k \in 0..n-1 |-> 0]
      /\ p.end = [k \in 0..n-1 |-> IF k = 0 THEN n ELSE 0]
  BY <1>1 DEF of_states
<1>3. p \in Partition(n)
  BY <1>1 DEF of_states, Partition
<1>4. \A s \in 0..p.num_of_sets-1 : s = 0
  BY <1>2
<1>5. \A k \in 0..n-1 : k \in 0..n-1 /\ p.set_idx[k] = 0 /\ p.location[k] = k /\ p.elems[k] = k
  BY <1>2
<1>6. p.first[0] = 0 /\ p.mid[0] = 0 /\ p.end[0] = n
  BY <1>2
<1>7. Represents(p, n)
  BY <1>2, <1>3, <1>4, <1>5, <1>6 DEF Represents
<1> QED BY <1>1, <1>7

(* An element is found at its place.                                       *)
LEMMA PlaceOf ==
  ASSUME NEW n \in Nat, NEW p, Represents(p, n), NEW e \in 0..n-1
  PROVE  LET s == p.set_idx[e]
             l == p.location[e]
         IN  /\ s \in 0..p.num_of_sets-1 /\ s \in 0..n-1 /\ l \in 0..n-1
             /\ p.elems[l] = e
             /\ p.first[s] \in 0..n /\ p.mid[s] \in 0..n /\ p.end[s] \in 0..n
             /\ p.first[s] <= l /\ l < p.end[s]
             /\ p.first[s] <= p.mid[s] /\ p.mid[s] <= p.end[s]
<1>1. p \in Partition(n)
  BY DEF Represents
<1>2. /\ p.set_idx[e] \in 0..n-1 /\ p.location[e] \in 0..n-1 /\ p.num_of_sets \in 1..n
      /\ p.set_idx[e] < p.num_of_sets
  BY <1>1 DEF Partition, Represents
<1>3. \A s \in 0..n-1 : p.first[s] \in 0..n /\ p.mid[s] \in 0..n /\ p.end[s] \in 0..n
  BY <1>1 DEF Partition
<1> QED BY <1>2, <1>3 DEF Represents

(* An element at a place before the end of a set is in the set.            *)
LEMMA AtPlace ==
  ASSUME NEW n \in Nat, NEW p, Represents(p, n), NEW s \in 0..p.num_of_sets-1,
         NEW k \in Int, p.first[s] <= k, k < p.end[s]
  PROVE  /\ k \in 0..n-1 /\ p.elems[k] \in 0..n-1 /\ p.location[p.elems[k]] = k
         /\ p.set_idx[p.elems[k]] = s
<1>1. p \in Partition(n) /\ s \in 0..n-1
  BY Vectors DEF Represents
<1>2. p.first[s] \in 0..n /\ p.end[s] \in 0..n
  BY <1>1 DEF Partition
<1>3. k \in 0..n-1
  BY <1>2
<1>4. p.elems[k] \in 0..n-1 /\ p.location[p.elems[k]] = k
  BY <1>1, <1>3 DEF Partition, Represents
<1> QED BY <1>2, <1>3, <1>4 DEF Represents

(* mark() adds one element to the marked ones of its set and moves no      *)
(* element to another set.                                                 *)
THEOREM MarkRepresents ==
  ASSUME NEW n \in Nat, NEW p, Represents(p, n), NEW e \in 0..n-1
  PROVE  /\ Represents(mark(p, e), n)
         /\ mark(p, e).set_idx = p.set_idx
         /\ \A t \in 0..p.num_of_sets-1 :
              marked(mark(p, e), t) =
                marked(p, t) \cup (IF t = p.set_idx[e] THEN {e} ELSE {})
<1>1. PICK s, l, m :
        s = p.set_idx[e] /\ l = p.location[e] /\ m = p.mid[s]
  OBVIOUS
<1>2. /\ s \in 0..p.num_of_sets-1 /\ s \in 0..n-1 /\ l \in 0..n-1 /\ m \in 0..n
      /\ p.elems[l] = e /\ p.first[s] \in 0..n /\ p.end[s] \in 0..n
      /\ p.first[s] <= l /\ l < p.end[s] /\ p.first[s] <= m /\ m <= p.end[s]
  BY <1>1, PlaceOf
<1>3. /\ p \in Partition(n) /\ DOMAIN p.set_idx = 0..n-1 /\ p.mid \in [0..n-1 -> 0..n]
      /\ p.elems \in [0..n-1 -> 0..n-1] /\ p.location \in [0..n-1 -> 0..n-1]
  BY DEF Represents, Partition
<1>4. CASE l < m
  <2>1. mark(p, e) = p
    BY <1>1, <1>4 DEF mark
  <2>2. e \in marked(p, s)
    BY <1>1, <1>3, <1>4 DEF marked
  <2> QED BY <1>1, <2>1, <2>2
<1>5. CASE ~(l < m)
  <2>1. PICK d : d = p.elems[m]
    OBVIOUS
  <2>2. m \in 0..n-1 /\ d \in 0..n-1 /\ p.location[d] = m /\ p.set_idx[d] = s /\ m <= l
    BY <1>2, <1>5, <2>1, AtPlace
  <2>3. PICK q : q = mark(p, e)
    OBVIOUS
  <2>4. q = [num_of_sets |-> p.num_of_sets, set_idx |-> p.set_idx,
             elems |-> [p.elems EXCEPT ![l] = d, ![m] = e],
             location |-> [p.location EXCEPT ![d] = l, ![e] = m],
             first |-> p.first, mid |-> [p.mid EXCEPT ![s] = m + 1], end |-> p.end]
    BY <1>1, <1>5, <2>1, <2>3 DEF mark
  <2>5. /\ q.num_of_sets = p.num_of_sets /\ q.set_idx = p.set_idx
        /\ q.first = p.first /\ q.end = p.end
        /\ q.elems = [p.elems EXCEPT ![l] = d, ![m] = e]
        /\ q.location = [p.location EXCEPT ![d] = l, ![e] = m]
        /\ q.mid = [p.mid EXCEPT ![s] = m + 1]
    BY <2>4
  <2>6. \A k \in 0..n-1 :
          /\ q.elems[k] = IF k = m THEN e ELSE IF k = l THEN d ELSE p.elems[k]
          /\ q.location[k] = IF k = e THEN m ELSE IF k = d THEN l ELSE p.location[k]
          /\ q.mid[k] = IF k = s THEN m + 1 ELSE p.mid[k]
    BY <1>2, <1>3, <2>2, <2>5 DEF Partition
  <2>7. q \in Partition(n)
    <3>1. q.elems \in [0..n-1 -> 0..n-1] /\ q.location \in [0..n-1 -> 0..n-1]
      <4>1. [p.elems EXCEPT ![l] = d, ![m] = e] \in [0..n-1 -> 0..n-1]
        BY <1>3, <2>2, WrittenTwice, Zenon
      <4>2. [p.location EXCEPT ![d] = l, ![e] = m] \in [0..n-1 -> 0..n-1]
        BY <1>2, <1>3, <2>2, WrittenTwice, Zenon
      <4> QED BY <2>5, <4>1, <4>2, Zenon
    <3>2. q.mid \in [0..n-1 -> 0..n]
      <4>1. m + 1 \in 0..n
        BY <2>2
      <4>2. [p.mid EXCEPT ![s] = m + 1] \in [0..n-1 -> 0..n]
        BY <1>3, <4>1, Written, Zenon
      <4> QED BY <2>5, <4>2, Zenon
    <3> QED BY <1>3, <2>4, <3>1, <3>2 DEF Partition
  <2>8. \A k \in 0..n-1 : q.location[q.elems[k]] = k /\ q.elems[q.location[k]] = k
    <3>1. \A k \in 0..n-1 : p.location[p.elems[k]] = k /\ p.elems[p.location[k]] = k
                            /\ p.elems[k] \in 0..n-1 /\ p.location[k] \in 0..n-1
      BY <1>3 DEF Represents, Partition
    <3> TAKE k \in 0..n-1
    <3>2. q.location[q.elems[k]] = k
      <4>1. CASE k = m
        BY <2>6, <4>1
      <4>2. CASE k # m /\ k = l
        <5>1. d # e
          BY <1>1, <2>2, <4>2
        <5>2. q.elems[k] = d
          BY <2>6, <4>2
        <5>3. q.location[d] = l
          BY <2>2, <2>6, <5>1
        <5> QED BY <4>2, <5>2, <5>3
      <4>3. CASE k # m /\ k # l
        <5>1. p.elems[k] # e /\ p.elems[k] # d
          BY <1>1, <2>2, <3>1, <4>3
        <5>2. q.elems[k] = p.elems[k] /\ p.elems[k] \in 0..n-1
          BY <2>6, <3>1, <4>3
        <5>3. q.location[p.elems[k]] = p.location[p.elems[k]]
          BY <2>6, <5>1, <5>2
        <5> QED BY <3>1, <5>2, <5>3
      <4> QED BY <4>1, <4>2, <4>3
    <3>3. q.elems[q.location[k]] = k
      <4>1. CASE k = e
        BY <2>2, <2>6, <4>1
      <4>2. CASE k # e /\ k = d
        <5>1. l # m
          BY <1>2, <2>1, <4>2
        <5>2. q.location[k] = l
          BY <2>6, <4>2
        <5>3. q.elems[l] = d
          BY <1>2, <2>6, <5>1
        <5> QED BY <4>2, <5>2, <5>3
      <4>3. CASE k # e /\ k # d
        <5>1. p.location[k] # l /\ p.location[k] # m
          BY <1>2, <2>1, <3>1, <4>3
        <5>2. q.location[k] = p.location[k] /\ p.location[k] \in 0..n-1
          BY <2>6, <3>1, <4>3
        <5>3. q.elems[p.location[k]] = p.elems[p.location[k]]
          BY <2>6, <5>1, <5>2
        <5> QED BY <3>1, <5>2, <5>3
      <4> QED BY <4>1, <4>2, <4>3
    <3> QED BY <3>2, <3>3
  <2>9. \A t \in 0..q.num_of_sets-1 :
          q.first[t] < q.end[t] /\ q.mid[t] \in q.first[t]..q.end[t]
    <3>1. \A t \in 0..p.num_of_sets-1 :
            t \in 0..n-1 /\ p.first[t] < p.end[t] /\ p.mid[t] \in p.first[t]..p.end[t]
      BY <1>3 DEF Represents, Partition
    <3> QED BY <1>2, <1>5, <2>2, <2>5, <2>6, <3>1
  <2>10. \A x \in 0..n-1, t \in 0..q.num_of_sets-1 :
           q.set_idx[x] = t <=> q.location[x] \in q.first[t]..q.end[t]-1
    <3>1. \A x \in 0..n-1, t \in 0..p.num_of_sets-1 :
            p.set_idx[x] = t <=> p.location[x] \in p.first[t]..p.end[t]-1
      BY DEF Represents
    <3> TAKE x \in 0..n-1, t \in 0..q.num_of_sets-1
    <3>2. t \in 0..p.num_of_sets-1 /\ q.set_idx[x] = p.set_idx[x]
          /\ q.first[t] = p.first[t] /\ q.end[t] = p.end[t]
      BY <2>5
    <3>3. /\ s = t <=> l \in p.first[t]..p.end[t]-1
          /\ s = t <=> m \in p.first[t]..p.end[t]-1
      <4>1. p.set_idx[e] = s /\ p.location[e] = l /\ p.set_idx[d] = s /\ p.location[d] = m
        BY <1>1, <2>2
      <4>2. /\ p.set_idx[e] = t <=> p.location[e] \in p.first[t]..p.end[t]-1
            /\ p.set_idx[d] = t <=> p.location[d] \in p.first[t]..p.end[t]-1
        BY <2>2, <3>1, <3>2, Zenon
      <4> QED BY <4>1, <4>2
    <3>4. CASE x = e
      <4>1. q.location[x] = m /\ p.set_idx[x] = s
        BY <1>1, <2>6, <3>4
      <4> QED BY <3>2, <3>3, <4>1, Zenon
    <3>5. CASE x # e /\ x = d
      <4>1. q.location[x] = l /\ p.set_idx[x] = s
        BY <2>2, <2>6, <3>5
      <4> QED BY <3>2, <3>3, <4>1, Zenon
    <3>6. CASE x # e /\ x # d
      <4>1. q.location[x] = p.location[x]
        BY <2>6, <3>6
      <4>2. p.set_idx[x] = t <=> p.location[x] \in p.first[t]..p.end[t]-1
        BY <3>1, <3>2, Zenon
      <4> QED BY <3>2, <4>1, <4>2, Zenon
    <3> QED BY <3>4, <3>5, <3>6, Zenon
  <2>11. ASSUME NEW t \in 0..p.num_of_sets-1
         PROVE  marked(q, t) = marked(p, t) \cup (IF t = s THEN {e} ELSE {})
    <3>1. t \in 0..n-1 /\ DOMAIN q.set_idx = 0..n-1
      BY <1>3, <2>5 DEF Partition
    <3>2. ASSUME NEW x \in 0..n-1
          PROVE  x \in marked(q, t) <=> x \in marked(p, t) \/ (t = s /\ x = e)
      <4>1. p.location[x] \in 0..n-1 /\ (p.location[x] = m => x = d)
        BY <1>3, <2>1 DEF Represents, Partition
      <4>2. x \in marked(p, t) <=> p.set_idx[x] = t /\ p.location[x] < p.mid[t]
        BY <1>3 DEF marked
      <4>3. x \in marked(q, t) <=> p.set_idx[x] = t /\ q.location[x] < q.mid[t]
        BY <2>5, <3>1 DEF marked
      <4>4. CASE t # s
        BY <1>1, <2>2, <2>6, <3>1, <4>2, <4>3, <4>4
      <4>5. CASE t = s
        <5>1. q.mid[t] = m + 1 /\ p.mid[t] = m
          BY <1>1, <2>6, <3>1, <4>5
        <5>2. CASE x = e
          BY <1>1, <2>2, <2>6, <4>3, <4>5, <5>1, <5>2
        <5>3. CASE x # e /\ x = d
          <6>1. q.location[x] = l /\ p.location[x] = m /\ l # m
            BY <1>1, <2>2, <2>6, <5>3, <1>2, <2>1
          <6>2. x \notin marked(p, t) /\ x \notin marked(q, t)
            BY <1>2, <2>2, <4>2, <4>3, <5>1, <6>1
          <6> QED BY <5>3, <6>2
        <5>4. CASE x # e /\ x # d
          BY <2>2, <2>6, <4>1, <4>2, <4>3, <5>1, <5>4
        <5> QED BY <5>2, <5>3, <5>4
      <4> QED BY <4>4, <4>5
    <3>3. marked(q, t) \subseteq 0..n-1 /\ marked(p, t) \subseteq 0..n-1
      BY <1>3, <3>1 DEF marked
    <3> QED BY <3>2, <3>3
  <2>12. Represents(q, n)
    <3>1. \A x \in 0..n-1 : q.set_idx[x] < q.num_of_sets
      BY <2>5 DEF Represents
    <3> QED BY <2>7, <2>8, <2>9, <2>10, <3>1, Zenon DEF Represents
  <2> QED BY <1>1, <2>3, <2>5, <2>11, <2>12, Zenon
<1> QED BY <1>4, <1>5

(* There is room for one more set wherever a set has some of its elements  *)
(* marked and not all: the vectors of the sets, as long as there are       *)
(* elements, are not written past their end.                               *)
THEOREM RoomForSplit ==
  ASSUME NEW n \in Nat, NEW p, Represents(p, n), NEW s \in 0..p.num_of_sets-1, splits(p, s)
  PROVE  p.num_of_sets < n
<1> DEFINE c == p.num_of_sets
           Place == [t \in 0..c |-> IF t = c THEN p.mid[s] ELSE p.first[t]]
<1>1. c \in 1..n /\ \A t \in 0..c-1 : p.first[t] \in Int /\ p.mid[t] \in Int /\ p.end[t] \in Int
  <2>1. p \in Partition(n)
    BY DEF Represents
  <2>2. c \in 1..n
    BY <2>1, Vectors
  <2>3. \A t \in 0..n-1 : p.first[t] \in 0..n /\ p.mid[t] \in 0..n /\ p.end[t] \in 0..n
    BY <2>1, VectorEntries, Zenon
  <2> QED BY <2>2, <2>3
<1>2. p.first[s] < p.mid[s] /\ p.mid[s] < p.end[s]
  BY <1>1 DEF Represents, splits
<1>3. \A t \in 0..c-1 : p.first[t] \in 0..n-1 /\ p.set_idx[p.elems[p.first[t]]] = t
  <2> TAKE t \in 0..c-1
  <2>1. p.first[t] < p.end[t]
    BY DEF Represents
  <2>2. t \in 0..p.num_of_sets-1 /\ p.first[t] \in Int /\ p.first[t] <= p.first[t]
    BY ONLY <1>1, t \in 0..c-1
  <2> QED BY ONLY n \in Nat, Represents(p, n), <2>1, <2>2, AtPlace
<1>4. p.mid[s] \in 0..n-1 /\ p.set_idx[p.elems[p.mid[s]]] = s
  <2>1. p.mid[s] \in Int /\ p.first[s] <= p.mid[s] /\ p.mid[s] < p.end[s]
    BY <1>1, <1>2
  <2> QED BY ONLY n \in Nat, Represents(p, n), s \in 0..p.num_of_sets-1, <2>1, AtPlace
<1>5. Place \in Injection(0..c, 0..n-1)
  <2>1. Place \in [0..c -> 0..n-1]
    BY <1>1, <1>3, <1>4
  <2>2. Place[c] = p.mid[s] /\ \A t \in 0..c-1 : Place[t] = p.first[t]
    BY <1>1
  <2> HIDE DEF Place
  <2>3. ASSUME NEW t \in 0..c, NEW u \in 0..c, Place[t] = Place[u] PROVE t = u
    <3>1. \A v \in 0..c-1, w \in 0..c-1 : p.first[v] = p.first[w] => v = w
      BY <1>3, Zenon
    <3>2. ASSUME NEW v \in 0..c-1 PROVE p.mid[s] # p.first[v]
      <4>1. p.mid[s] = p.first[v] => v = s
        BY <1>3, <1>4, Zenon
      <4> QED BY <1>1, <1>2, <4>1
    <3>3. \A v \in 0..c : v = c \/ v \in 0..c-1
      BY <1>1
    <3> QED BY <2>2, <2>3, <3>1, <3>2, <3>3, Zenon
  <2> QED BY <2>1, <2>3 DEF Injection, IsInjective
<1>6. Cardinality(0..c) = c + 1 /\ IsFiniteSet(0..n-1) /\ Cardinality(0..n-1) = n
  <2> HIDE DEF c
  <2>1. c \in Nat /\ n-1 \in Int /\ 0 \in Int
    BY <1>1
  <2>2. IsFiniteSet(0..n-1) /\ Cardinality(0..n-1) = n
    <3>1. PICK k \in Int : k = n-1
      BY <2>1
    <3>2. IsFiniteSet(0..k) /\ Cardinality(0..k) = IF 0 > k THEN 0 ELSE k-0+1
      BY FS_Interval
    <3> QED BY <3>1, <3>2
  <2>3. Cardinality(0..c) = c + 1
    BY <2>1, FS_Interval
  <2> QED BY <2>2, <2>3
<1> QED BY <1>1, <1>5, <1>6, FS_Injection

(* split() makes the marked elements of a set a set of their own where     *)
(* that leaves some, moves no other element, and clears the marks.         *)
THEOREM SplitRepresents ==
  ASSUME NEW n \in Nat, NEW p, Represents(p, n), NEW s \in 0..p.num_of_sets-1
  PROVE  /\ Represents(split(p, s), n)
         /\ \A e \in 0..n-1 :
              split(p, s).set_idx[e] =
                IF splits(p, s) /\ e \in marked(p, s) THEN p.num_of_sets ELSE p.set_idx[e]
         /\ has_no_marks(split(p, s), s)
         /\ splits(p, s) => has_no_marks(split(p, s), p.num_of_sets)
<1>1. PICK a, m, b, c :
        a = p.first[s] /\ m = p.mid[s] /\ b = p.end[s] /\ c = p.num_of_sets
  OBVIOUS
<1>2. PICK q : q = split(p, s)
  OBVIOUS
<1>3. p \in Partition(n)
  BY DEF Represents
<1>4. /\ p.set_idx \in [0..n-1 -> 0..n-1] /\ DOMAIN p.set_idx = 0..n-1
      /\ p.elems \in [0..n-1 -> 0..n-1] /\ p.location \in [0..n-1 -> 0..n-1]
      /\ p.first \in [0..n-1 -> 0..n] /\ p.mid \in [0..n-1 -> 0..n]
      /\ p.end \in [0..n-1 -> 0..n]
  BY <1>3, Vectors
<1>5. c \in 1..n /\ s \in 0..c-1 /\ s \in 0..n-1 /\ n \in Nat
  BY <1>3, <1>1, Vectors
<1>6. \A t \in 0..c-1 :
        /\ t \in 0..n-1 /\ p.first[t] \in 0..n /\ p.mid[t] \in 0..n /\ p.end[t] \in 0..n
        /\ p.first[t] < p.end[t] /\ p.first[t] <= p.mid[t] /\ p.mid[t] <= p.end[t]
  <2> TAKE t \in 0..c-1
  <2>1. t \in 0..n-1
    BY <1>5
  <2>2. p.first[t] \in 0..n /\ p.mid[t] \in 0..n /\ p.end[t] \in 0..n
    BY <1>3, <2>1, VectorEntries
  <2> QED BY <1>1, <2>1, <2>2 DEF Represents
<1>7. a \in 0..n /\ m \in 0..n /\ b \in 0..n /\ a < b /\ a <= m /\ m <= b
  BY <1>1, <1>5, <1>6
<1>8. \A e \in 0..n-1, t \in 0..c-1 :
        p.set_idx[e] = t <=> p.first[t] <= p.location[e] /\ p.location[e] < p.end[t]
  <2> TAKE e \in 0..n-1, t \in 0..c-1
  <2>1. p.first[t] \in Int /\ p.end[t] \in Int /\ p.location[e] \in Int
    BY <1>3, <1>6, VectorEntries
  <2>2. p.set_idx[e] = t <=> p.location[e] \in p.first[t]..p.end[t]-1
    BY <1>1 DEF Represents
  <2> QED BY <2>1, <2>2
<1>9. \A e \in 0..n-1 : p.set_idx[e] \in 0..c-1 /\ p.location[e] \in 0..n-1
  <2> TAKE e \in 0..n-1
  <2>1. p.set_idx[e] \in 0..n-1 /\ p.location[e] \in 0..n-1
    BY <1>3, VectorEntries
  <2> QED BY <1>1, <1>5, <2>1 DEF Represents
<1>10. CASE ~splits(p, s)
  <2>1. q = [num_of_sets |-> p.num_of_sets, set_idx |-> p.set_idx,
             elems |-> p.elems, location |-> p.location,
             first |-> p.first, mid |-> [p.mid EXCEPT ![s] = a], end |-> p.end]
    BY <1>1, <1>2, <1>10 DEF split
  <2>2. /\ q.num_of_sets = c /\ q.set_idx = p.set_idx /\ q.elems = p.elems
        /\ q.location = p.location /\ q.first = p.first /\ q.end = p.end
        /\ q.mid = [p.mid EXCEPT ![s] = a]
    BY <1>1, <2>1
  <2>3. [p.mid EXCEPT ![s] = a] \in [0..n-1 -> 0..n]
    BY <1>7, <1>4, Written, Zenon
  <2>4. q \in Partition(n)
    BY <1>1, <1>5, <1>4, <2>1, <2>3 DEF Partition
  <2>5. \A t \in 0..c-1 : q.first[t] < q.end[t] /\ q.mid[t] \in q.first[t]..q.end[t]
    <3> TAKE t \in 0..c-1
    <3>1. q.mid[t] = IF t = s THEN a ELSE p.mid[t]
      BY <1>6, <1>4, <2>2
    <3> QED BY <1>1, <1>6, <2>2, <3>1
  <2>6. Represents(q, n)
    BY <1>1, <1>8, <2>2, <2>4, <2>5 DEF Represents
  <2>7. has_no_marks(q, s)
    BY <1>1, <1>5, <1>4, <2>2 DEF has_no_marks
  <2> QED BY <1>2, <1>10, <2>2, <2>6, <2>7
<1>11. CASE splits(p, s)
  <2>1. c < n /\ c \in 0..n-1 /\ a < m /\ m < b
    BY <1>1, <1>5, <1>7, <1>11, RoomForSplit DEF splits
  <2>2. q = [num_of_sets |-> c + 1,
             set_idx |-> [e \in 0..n-1 |->
                            IF p.location[e] \in a..m-1 THEN c ELSE p.set_idx[e]],
             elems |-> p.elems, location |-> p.location,
             first |-> [p.first EXCEPT ![c] = a, ![s] = m],
             mid |-> [p.mid EXCEPT ![c] = a],
             end |-> [p.end EXCEPT ![c] = m]]
    BY <1>1, <1>2, <1>11, <1>4 DEF split
  <2>3. /\ q.num_of_sets = c + 1 /\ q.elems = p.elems /\ q.location = p.location
        /\ \A e \in 0..n-1 :
             q.set_idx[e] = IF a <= p.location[e] /\ p.location[e] < m THEN c
                            ELSE p.set_idx[e]
    BY <1>7, <1>9, <2>2
  <2>4. /\ q.first = [p.first EXCEPT ![c] = a, ![s] = m]
        /\ q.mid = [p.mid EXCEPT ![c] = a] /\ q.end = [p.end EXCEPT ![c] = m]
    BY <2>2
  <2>5. \A t \in 0..n-1 :
          /\ q.first[t] = IF t = s THEN m ELSE IF t = c THEN a ELSE p.first[t]
          /\ q.mid[t] = IF t = c THEN a ELSE p.mid[t]
          /\ q.end[t] = IF t = c THEN m ELSE p.end[t]
    BY <1>5, <1>4, <2>1, <2>4
  <2>6. q \in Partition(n)
    <3>1. [p.first EXCEPT ![c] = a, ![s] = m] \in [0..n-1 -> 0..n]
      BY <1>7, <1>4, WrittenTwice, Zenon
    <3>2. [p.mid EXCEPT ![c] = a] \in [0..n-1 -> 0..n]
      BY <1>7, <1>4, Written, Zenon
    <3>3. [p.end EXCEPT ![c] = m] \in [0..n-1 -> 0..n]
      BY <1>7, <1>4, Written, Zenon
    <3>4. [e \in 0..n-1 |-> IF p.location[e] \in a..m-1 THEN c ELSE p.set_idx[e]]
            \in [0..n-1 -> 0..n-1]
      BY <1>9, <2>1
    <3>5. c + 1 \in 1..n
      BY <1>5, <2>1
    <3> QED BY <1>4, <2>2, <3>1, <3>2, <3>3, <3>4, <3>5 DEF Partition
  <2>7. \A t \in 0..c : q.first[t] < q.end[t] /\ q.mid[t] \in q.first[t]..q.end[t]
    <3> TAKE t \in 0..c
    <3>1. CASE t = c
      BY <1>5, <1>7, <2>1, <2>5, <3>1
    <3>2. CASE t = s
      BY <1>1, <1>5, <1>7, <2>1, <2>5, <3>2
    <3>3. CASE t # c /\ t # s
      BY <1>5, <1>6, <2>5, <3>3
    <3> QED BY <3>1, <3>2, <3>3
  <2>8. \A e \in 0..n-1 : e \in marked(p, s) <=> a <= p.location[e] /\ p.location[e] < m
    <3> TAKE e \in 0..n-1
    <3>1. e \in marked(p, s) <=> p.set_idx[e] = s /\ p.location[e] < m
      BY <1>1, <1>4 DEF marked
    <3>2. p.set_idx[e] = s <=> a <= p.location[e] /\ p.location[e] < b
      BY <1>1, <1>5, <1>8
    <3> QED BY <1>7, <1>9, <2>1, <3>1, <3>2
  <2>9. \A e \in 0..n-1, t \in 0..c :
          q.set_idx[e] = t <=> q.first[t] <= q.location[e] /\ q.location[e] < q.end[t]
    <3> TAKE e \in 0..n-1, t \in 0..c
    <3>1. CASE t = c
      BY <1>5, <1>9, <2>1, <2>3, <2>5, <3>1
    <3>2. CASE t = s
      BY <1>1, <1>5, <1>7, <1>8, <1>9, <2>1, <2>3, <2>5, <3>2
    <3>3. CASE t # c /\ t # s
      <4>1. a <= p.location[e] /\ p.location[e] < m => p.set_idx[e] = s
        BY <1>1, <1>5, <1>7, <1>8, <1>9, <2>1
      <4> QED BY <1>5, <1>8, <2>1, <2>3, <2>5, <3>3, <4>1
    <3> QED BY <3>1, <3>2, <3>3
  <2>10. \A e \in 0..n-1 : q.set_idx[e] < q.num_of_sets
    BY <1>5, <1>9, <2>3
  <2>11. Represents(q, n)
    <3>1. \A k \in 0..n-1 : q.location[q.elems[k]] = k /\ q.elems[q.location[k]] = k
      BY <2>3 DEF Represents
    <3>2. 0..q.num_of_sets-1 = 0..c
      BY <1>5, <2>3
    <3>3. \A e \in 0..n-1, t \in 0..c :
            q.set_idx[e] = t <=> q.location[e] \in q.first[t]..q.end[t]-1
      <4> TAKE e \in 0..n-1, t \in 0..c
      <4>1. t \in 0..n-1
        BY <1>5, <2>1
      <4>2. q.first[t] \in Int /\ q.end[t] \in Int /\ q.location[e] \in Int
        BY <2>6, <4>1, VectorEntries
      <4> QED BY <2>9, <4>2
    <3> QED BY <2>6, <2>7, <2>10, <3>1, <3>2, <3>3 DEF Represents
  <2>12. has_no_marks(q, s) /\ has_no_marks(q, c)
    BY <1>1, <1>5, <2>1, <2>5 DEF has_no_marks
  <2> QED BY <1>1, <1>2, <1>11, <2>3, <2>8, <2>11, <2>12
<1> QED BY <1>10, <1>11

(* The vectors of a partition at an element and at a set.                  *)
LEMMA SetBounds ==
  ASSUME NEW n \in Nat, NEW p, Represents(p, n), NEW s \in 0..p.num_of_sets-1
  PROVE  /\ s \in 0..n-1 /\ p.first[s] \in 0..n /\ p.mid[s] \in 0..n /\ p.end[s] \in 0..n
         /\ p.first[s] < p.end[s] /\ p.first[s] <= p.mid[s] /\ p.mid[s] <= p.end[s]
<1>1. p \in Partition(n)
  BY DEF Represents
<1>2. s \in 0..n-1
  BY <1>1, Vectors
<1>3. p.first[s] \in 0..n /\ p.mid[s] \in 0..n /\ p.end[s] \in 0..n
  BY <1>1, <1>2, VectorEntries
<1> QED BY <1>2, <1>3 DEF Represents

(* The marked elements are those of each set.                              *)
LEMMA MarksOf ==
  ASSUME NEW n \in Nat, NEW p, Represents(p, n)
  PROVE  /\ DOMAIN p.set_idx = 0..n-1 /\ Marks(p) \in SUBSET (0..n-1)
         /\ \A e \in 0..n-1 :
              /\ e \in Marks(p) <=> p.location[e] < p.mid[p.set_idx[e]]
              /\ e \in Marks(p) <=> e \in marked(p, p.set_idx[e])
<1>1. p.set_idx \in [0..n-1 -> 0..n-1]
  BY Vectors DEF Represents
<1> QED BY <1>1 DEF Marks, marked

(* mark() marks one element.                                               *)
LEMMA MarkMeans ==
  ASSUME NEW n \in Nat, NEW p, Represents(p, n), NEW e \in 0..n-1
  PROVE  /\ Represents(mark(p, e), n)
         /\ mark(p, e).num_of_sets = p.num_of_sets /\ mark(p, e).set_idx = p.set_idx
         /\ Marks(mark(p, e)) = Marks(p) \cup {e}
<1>1. PICK q : q = mark(p, e)
  OBVIOUS
<1>2. Represents(q, n) /\ q.set_idx = p.set_idx
  BY <1>1, MarkRepresents
<1>3. q.num_of_sets = p.num_of_sets
  BY <1>1 DEF mark
<1>4. ASSUME NEW u \in 0..n-1 PROVE u \in Marks(q) <=> u \in Marks(p) \/ u = e
  <2>1. PICK t : t = p.set_idx[u]
    OBVIOUS
  <2>2. t \in 0..p.num_of_sets-1
    BY <2>1, PlaceOf
  <2>3. marked(q, t) = marked(p, t) \cup (IF t = p.set_idx[e] THEN {e} ELSE {})
    BY <1>1, <2>2, MarkRepresents
  <2>4. u \in Marks(q) <=> u \in marked(q, t)
    BY <1>2, <2>1, MarksOf
  <2>5. u \in Marks(p) <=> u \in marked(p, t)
    BY <2>1, MarksOf
  <2> QED BY <2>1, <2>3, <2>4, <2>5
<1>5. Marks(q) \in SUBSET (0..n-1) /\ Marks(p) \in SUBSET (0..n-1)
  BY <1>2, MarksOf
<1> QED BY <1>1, <1>2, <1>3, <1>4, <1>5

(* split() clears the marks of one set.                                    *)
LEMMA SplitMeans ==
  ASSUME NEW n \in Nat, NEW p, Represents(p, n), NEW s \in 0..p.num_of_sets-1
  PROVE  /\ Represents(split(p, s), n)
         /\ split(p, s).num_of_sets = IF splits(p, s) THEN p.num_of_sets + 1 ELSE p.num_of_sets
         /\ \A e \in 0..n-1 :
              split(p, s).set_idx[e] =
                IF splits(p, s) /\ p.set_idx[e] = s /\ e \in Marks(p)
                THEN p.num_of_sets ELSE p.set_idx[e]
         /\ \A e \in 0..n-1 :
              e \in Marks(split(p, s)) <=> e \in Marks(p) /\ p.set_idx[e] # s
<1>1. PICK q, c : q = split(p, s) /\ c = p.num_of_sets
  OBVIOUS
<1>2. Represents(q, n)
  BY <1>1, SplitRepresents
<1>3. q.num_of_sets = IF splits(p, s) THEN c + 1 ELSE c
  BY <1>1 DEF split
<1>4. \A e \in 0..n-1 : e \in marked(p, s) <=> p.set_idx[e] = s /\ e \in Marks(p)
  <2>1. \A e \in 0..n-1 : e \in marked(p, s) => p.set_idx[e] = s
    BY DEF marked
  <2> QED BY <2>1, MarksOf
<1>5. \A e \in 0..n-1 :
        q.set_idx[e] = IF splits(p, s) /\ p.set_idx[e] = s /\ e \in Marks(p)
                       THEN c ELSE p.set_idx[e]
  BY <1>1, <1>4, SplitRepresents
<1>6. c \in Nat /\ p.mid \in [0..n-1 -> 0..n] /\ s \in 0..n-1
  BY <1>1, SetBounds, Vectors DEF Represents
<1>7. q.location = p.location
  BY <1>1 DEF split
<1>8. q.mid = IF splits(p, s) THEN [p.mid EXCEPT ![c] = p.first[s]]
              ELSE [p.mid EXCEPT ![s] = p.first[s]]
  BY <1>1 DEF split
<1>9. splits(p, s) => c \in 0..n-1
  BY <1>1, <1>6, RoomForSplit
<1>10. \A t \in 0..c-1 :
         /\ ~(splits(p, s) /\ t = c)
         /\ q.mid[t] = IF ~splits(p, s) /\ t = s THEN p.first[s] ELSE p.mid[t]
  <2> TAKE t \in 0..c-1
  <2>1. t \in 0..n-1 /\ t # c
    BY <1>1, <1>6, SetBounds
  <2> QED BY <1>6, <1>8, <2>1
<1>11. ASSUME NEW e \in 0..n-1
       PROVE  e \in Marks(q) <=> e \in Marks(p) /\ p.set_idx[e] # s
  <2>1. PICK t, l : t = p.set_idx[e] /\ l = p.location[e]
    OBVIOUS
  <2>2. t \in 0..c-1 /\ t \in 0..n-1 /\ l \in 0..n-1 /\ p.first[t] \in 0..n /\ p.first[t] <= l
        /\ p.mid[t] \in 0..n
    BY <1>1, <2>1, PlaceOf
  <2>3. e \in Marks(p) <=> l < p.mid[t]
    BY <2>1, MarksOf
  <2>4. e \in Marks(q) <=> l < q.mid[q.set_idx[e]]
    BY <1>2, <1>7, <2>1, MarksOf
  <2>5. CASE t # s
    <3>1. q.set_idx[e] = t /\ q.mid[t] = p.mid[t]
      BY <1>5, <1>10, <2>1, <2>2, <2>5
    <3> QED BY <2>1, <2>3, <2>4, <2>5, <3>1
  <2>6. CASE t = s /\ splits(p, s) /\ e \in Marks(p)
    <3>1. q.set_idx[e] = c /\ q.mid[c] = p.first[s]
      BY <1>5, <1>6, <1>8, <1>9, <2>1, <2>6
    <3> QED BY <2>1, <2>2, <2>4, <2>6, <3>1
  <2>7. CASE t = s /\ splits(p, s) /\ e \notin Marks(p)
    <3>1. q.set_idx[e] = s /\ q.mid[s] = p.mid[s]
      BY <1>5, <1>10, <2>1, <2>2, <2>7
    <3> QED BY <2>1, <2>2, <2>3, <2>4, <2>7, <3>1
  <2>8. CASE t = s /\ ~splits(p, s)
    <3>1. q.set_idx[e] = s /\ q.mid[s] = p.first[s]
      BY <1>5, <1>6, <1>8, <2>1, <2>8
    <3> QED BY <2>1, <2>2, <2>4, <2>8, <3>1
  <2> QED BY <2>5, <2>6, <2>7, <2>8
<1> QED BY <1>1, <1>2, <1>3, <1>5, <1>11

(* What get_first() and get_next() walk along: the places of a set.        *)
LEMMA FirstOf ==
  ASSUME NEW n \in Nat, NEW p, Represents(p, n), NEW s \in 0..p.num_of_sets-1
  PROVE  /\ get_first(p, s) \in 0..n-1 /\ p.set_idx[get_first(p, s)] = s
         /\ \A e \in 0..n-1 : p.set_idx[e] = s => p.location[get_first(p, s)] <= p.location[e]
<1>1. PICK f, a : f = get_first(p, s) /\ a = p.first[s]
  OBVIOUS
<1>2. a \in Int /\ a <= a /\ a < p.end[s]
  BY <1>1, SetBounds
<1>3. f = p.elems[a]
  BY <1>1 DEF get_first
<1>4. f \in 0..n-1 /\ p.set_idx[f] = s /\ p.location[f] = a
  BY <1>1, <1>2, <1>3, AtPlace
<1>5. \A e \in 0..n-1 : p.set_idx[e] = s => a <= p.location[e]
  BY <1>1, PlaceOf
<1> QED BY <1>1, <1>4, <1>5

(* get_next() goes to the next place, up to the end of the set.            *)
LEMMA NextOf ==
  ASSUME NEW n \in Nat, NEW p, Represents(p, n), NEW e \in 0..n-1
  PROVE  \/ /\ get_next(p, e) = NO_MORE_ELEMENTS
            /\ \A u \in 0..n-1 : p.set_idx[u] = p.set_idx[e] => p.location[u] <= p.location[e]
         \/ /\ get_next(p, e) \in 0..n-1 /\ p.set_idx[get_next(p, e)] = p.set_idx[e]
            /\ p.location[get_next(p, e)] = p.location[e] + 1
<1>1. PICK x, s, l : x = get_next(p, e) /\ s = p.set_idx[e] /\ l = p.location[e]
  OBVIOUS
<1>2. /\ s \in 0..p.num_of_sets-1 /\ l \in 0..n-1 /\ p.first[s] \in 0..n /\ p.end[s] \in 0..n
      /\ p.first[s] <= l /\ l < p.end[s]
  BY <1>1, PlaceOf
<1>3. CASE l + 1 >= p.end[s]
  <2>1. x = NO_MORE_ELEMENTS
    BY <1>1, <1>3 DEF get_next
  <2>2. ASSUME NEW u \in 0..n-1, p.set_idx[u] = s PROVE p.location[u] <= l
    <3>1. p.location[u] \in Int /\ p.location[u] < p.end[s]
      BY <2>2, PlaceOf
    <3> QED BY <1>2, <1>3, <3>1
  <2> QED BY <1>1, <2>1, <2>2
<1>4. CASE ~(l + 1 >= p.end[s])
  <2>1. x = p.elems[l + 1]
    BY <1>1, <1>4 DEF get_next
  <2>2. PICK k \in Int : k = l + 1
    BY <1>2
  <2>3. p.first[s] <= k /\ k < p.end[s]
    BY <1>2, <1>4, <2>2
  <2>4. x \in 0..n-1 /\ p.location[x] = k /\ p.set_idx[x] = s
    BY ONLY n \in Nat, Represents(p, n), <1>2, <2>1, <2>2, <2>3, AtPlace
  <2> QED BY <1>1, <2>2, <2>4
<1> QED BY <1>3, <1>4

(* Two elements do not share a place.                                      *)
LEMMA PlacesDiffer ==
  ASSUME NEW n \in Nat, NEW p, Represents(p, n), NEW e \in 0..n-1, NEW u \in 0..n-1
  PROVE  /\ p.location[e] \in Nat /\ p.location[u] \in Nat
         /\ p.location[e] = p.location[u] => e = u
BY PlaceOf

(* What the tests of marks say.                                            *)
LEMMA NoMarksMeans ==
  ASSUME NEW n \in Nat, NEW p, Represents(p, n), NEW s \in 0..p.num_of_sets-1
  PROVE  has_no_marks(p, s) <=> \A e \in 0..n-1 : p.set_idx[e] = s => e \notin Marks(p)
<1>1. PICK a, m : a = p.first[s] /\ m = p.mid[s]
  OBVIOUS
<1>2. a \in 0..n /\ m \in 0..n /\ a <= m /\ a < p.end[s]
  BY <1>1, SetBounds
<1>3. ASSUME a = m, NEW e \in 0..n-1, p.set_idx[e] = s PROVE e \notin Marks(p)
  <2>1. a <= p.location[e] /\ p.location[e] \in Int
    <3>1. p.first[p.set_idx[e]] <= p.location[e] /\ p.location[e] \in Int
      BY ONLY n \in Nat, Represents(p, n), e \in 0..n-1, PlaceOf
    <3> QED BY <1>1, <1>3, <3>1
  <2>2. e \in Marks(p) <=> p.location[e] < m
    BY <1>1, <1>3, MarksOf
  <2> QED BY <1>2, <1>3, <2>1, <2>2
<1>4. ASSUME a # m PROVE \E e \in 0..n-1 : p.set_idx[e] = s /\ e \in Marks(p)
  <2>1. PICK e : e = p.elems[a]
    OBVIOUS
  <2>2. e \in 0..n-1 /\ p.location[e] = a /\ p.set_idx[e] = s
    BY <1>1, <1>2, <2>1, AtPlace
  <2>3. e \in Marks(p) <=> a < m
    BY <1>1, <2>2, MarksOf
  <2> QED BY <1>2, <1>4, <2>2, <2>3
<1>5. has_no_marks(p, s) <=> m = a
  BY <1>1 DEF has_no_marks
<1> QED BY <1>3, <1>4, <1>5

(* split() splits a set where some of it is marked, and some is not.       *)
LEMMA SplitsWhere ==
  ASSUME NEW n \in Nat, NEW p, Represents(p, n), NEW s \in 0..p.num_of_sets-1
  PROVE  splits(p, s) <=> /\ \E e \in 0..n-1 : p.set_idx[e] = s /\ e \in Marks(p)
                          /\ \E e \in 0..n-1 : p.set_idx[e] = s /\ e \notin Marks(p)
<1>1. PICK m, b : m = p.mid[s] /\ b = p.end[s]
  OBVIOUS
<1>2. m \in 0..n /\ b \in 0..n /\ p.first[s] \in 0..n /\ p.first[s] < b
      /\ p.first[s] <= m /\ m <= b
  BY <1>1, SetBounds
<1>3. ASSUME m = b, NEW e \in 0..n-1, p.set_idx[e] = s PROVE e \in Marks(p)
  <2>1. p.location[e] < b /\ p.location[e] \in Int
    BY <1>1, <1>3, PlaceOf
  <2>2. e \in Marks(p) <=> p.location[e] < m
    BY <1>1, <1>3, MarksOf
  <2> QED BY <1>2, <1>3, <2>1, <2>2
<1>4. ASSUME m # b PROVE \E e \in 0..n-1 : p.set_idx[e] = s /\ e \notin Marks(p)
  <2>1. PICK e : e = p.elems[m]
    OBVIOUS
  <2>2. m < b
    BY <1>2, <1>4
  <2>3. e \in 0..n-1 /\ p.location[e] = m /\ p.set_idx[e] = s
    BY <1>1, <1>2, <2>1, <2>2, AtPlace
  <2>4. e \in Marks(p) <=> m < m
    BY <1>1, <2>3, MarksOf
  <2> QED BY <1>2, <2>3, <2>4
<1>5. splits(p, s) <=> ~has_no_marks(p, s) /\ m # b
  BY <1>1 DEF splits, has_no_marks
<1> QED BY <1>3, <1>4, <1>5, NoMarksMeans

(* The elements of a set, place by place.                                  *)
LEMMA SetListed ==
  ASSUME NEW n \in Nat, NEW p, Represents(p, n), NEW s \in 0..p.num_of_sets-1
  PROVE  /\ size_of_set(p, s) \in Nat
         /\ \A k \in 1..size_of_set(p, s) :
              /\ p.elems[p.first[s] + k - 1] \in 0..n-1
              /\ p.set_idx[p.elems[p.first[s] + k - 1]] = s
         /\ \A e \in 0..n-1 :
              p.set_idx[e] = s =>
                \E k \in 1..size_of_set(p, s) : p.elems[p.first[s] + k - 1] = e
<1>1. PICK a, b : a = p.first[s] /\ b = p.end[s]
  OBVIOUS
<1>2. a \in 0..n /\ b \in 0..n /\ a < b /\ size_of_set(p, s) = b - a
  BY <1>1, SetBounds DEF size_of_set
<1>3. ASSUME NEW k \in 1..b-a
      PROVE  p.elems[a + k - 1] \in 0..n-1 /\ p.set_idx[p.elems[a + k - 1]] = s
  <2>1. PICK l \in Int : l = a + k - 1
    BY <1>2
  <2>2. p.first[s] <= l /\ l < p.end[s]
    BY <1>1, <1>2, <2>1
  <2> QED BY ONLY n \in Nat, Represents(p, n), s \in 0..p.num_of_sets-1, <2>1, <2>2, AtPlace
<1>4. ASSUME NEW e \in 0..n-1, p.set_idx[e] = s
      PROVE  \E k \in 1..b-a : p.elems[a + k - 1] = e
  <2>1. PICK l : l = p.location[e]
    OBVIOUS
  <2>2. l \in 0..n-1 /\ a <= l /\ l < b /\ p.elems[l] = e
    BY <1>1, <1>4, <2>1, PlaceOf
  <2>3. PICK k \in 1..b-a : k = l - a + 1
    BY <1>2, <2>2
  <2>4. a + k - 1 = l
    BY <1>2, <2>2, <2>3
  <2> QED BY <2>2, <2>4
<1> QED BY <1>1, <1>2, <1>3, <1>4

-----------------------------------------------------------------------------
\* The partition of the transitions by their symbols.

(* There are m numbers below m.                                            *)
LEMMA CountBelow ==
  ASSUME NEW m \in Nat
  PROVE  IsFiniteSet(0..m-1) /\ Cardinality(0..m-1) = m
<1>1. PICK d \in Int : d = m - 1
  OBVIOUS
<1>2. IsFiniteSet(0..d) /\ Cardinality(0..d) = IF 0 > d THEN 0 ELSE d-0+1
  BY FS_Interval
<1> QED BY <1>1, <1>2

\* The vectors of of_transitions(): Firsts are the first transitions over each
\* symbol, ...
NumbersSets(T, symbol, Firsts, set) ==
  /\ Firsts = {t \in T : \A u \in T : u < t => symbol[u] # symbol[t]}
  /\ set = [t \in T |-> Cardinality({u \in Firsts :
                                        \A v \in T : symbol[v] = symbol[t] => u < v})]

\* ... under and upto bound the places of a set.
NumbersPlaces(T, c, set, place, under, upto) ==
  /\ place = [t \in T |-> Cardinality({u \in T : \/ set[u] < set[t]
                                                 \/ (set[u] = set[t] /\ u > t)})]
  /\ under = [s \in 0..c-1 |-> Cardinality({u \in T : set[u] < s})]
  /\ upto = [s \in 0..c-1 |-> Cardinality({u \in T : set[u] <= s})]

\* What the vectors are: a set for each symbol, ...
SetsFit(m, T, symbol, c, set) ==
  /\ c \in 1..m /\ set \in [T -> 0..c-1]
  /\ \A t, u \in T : set[t] = set[u] <=> symbol[t] = symbol[u]
  /\ \A s \in 0..c-1 : \E t \in T : set[t] = s

\* ... its elements at the places under[s] to upto[s]-1.
PlacesFit(m, T, c, set, place, under, upto) ==
  /\ place \in [T -> T] /\ under \in [0..c-1 -> 0..m] /\ upto \in [0..c-1 -> 0..m]
  /\ \A t, u \in T : place[t] = place[u] => t = u
  /\ \A k \in T : \E t \in T : place[t] = k
  /\ \A t \in T, s \in 0..c-1 : set[t] = s <=> under[s] <= place[t] /\ place[t] < upto[s]

(* The sets that of_transitions() numbers: one for each symbol, ...        *)
LEMMA SetsOfSymbols ==
  ASSUME NEW m, NEW T, m \in Nat \ {0} /\ T = 0..m-1, NEW symbol, symbol \in [T -> Nat],
         NEW Firsts, NEW set, NumbersSets(T, symbol, Firsts, set)
  PROVE  SetsFit(m, T, symbol, Cardinality(Firsts), set)
<1> USE DEF NumbersSets
<1>1. IsFiniteSet(T) /\ Cardinality(T) = m
  BY CountBelow
<1>2. IsFiniteSet(Firsts) /\ Cardinality(Firsts) <= m /\ Cardinality(Firsts) \in Nat
  <2>1. Firsts \in SUBSET T
    OBVIOUS
  <2>2. IsFiniteSet(Firsts) /\ Cardinality(Firsts) <= Cardinality(T)
    BY ONLY <1>1, <2>1, FS_Subset
  <2>3. Cardinality(Firsts) \in Nat
    BY ONLY <2>2, FS_CardinalityType
  <2> QED BY ONLY <1>1, <2>2, <2>3
<1>3. PICK c \in 0..m : c = Cardinality(Firsts)
  BY ONLY m \in Nat \ {0}, <1>2
<1>4. ASSUME NEW t \in T PROVE \E f \in Firsts : symbol[f] = symbol[t]
  <2> DEFINE S == {u \in T : symbol[u] = symbol[t]}
  <2>1. S \in SUBSET Nat /\ S # {}
    BY <1>4
  <2>2. PICK f \in S : \A u \in S : f <= u
    BY <2>1, LeastNumber
  <2>3. \A u \in T : u < f => symbol[u] # symbol[f]
    BY <2>2
  <2> QED BY <2>2, <2>3
<1>5. \A f, g \in Firsts : symbol[f] = symbol[g] => f = g
  OBVIOUS
<1>6. PICK before : before = [f \in Firsts |-> {u \in Firsts : u < f}]
  OBVIOUS
<1>7. Ordered(Firsts, before)
  BY <1>2, <1>6 DEF Ordered
<1>8. /\ \A f \in Firsts : Cardinality(before[f]) \in 0..c-1
      /\ \A f, g \in Firsts : Cardinality(before[f]) = Cardinality(before[g]) => f = g
      /\ \A k \in 0..c-1 : \E f \in Firsts : Cardinality(before[f]) = k
  BY ONLY <1>3, <1>7, Ranks
<1>9. ASSUME NEW f \in Firsts
      PROVE  f \in T /\ set[f] = Cardinality(before[f])
  <2>1. \A u \in Firsts : u < f <=> \A v \in T : symbol[v] = symbol[f] => u < v
    <3> TAKE u \in Firsts
    <3>1. ASSUME u < f, NEW v \in T, symbol[v] = symbol[f] PROVE u < v
      <4>1. ~(v < f)
        BY <3>1
      <4> QED BY <3>1, <4>1
    <3> QED BY <3>1
  <2>2. before[f] = {u \in Firsts : \A v \in T : symbol[v] = symbol[f] => u < v}
    BY <1>6, <2>1
  <2> QED BY <2>2
<1>10. ASSUME NEW t \in T, NEW u \in T, symbol[t] = symbol[u] PROVE set[t] = set[u]
  BY <1>10
<1>11. ASSUME NEW t \in T
       PROVE  \E f \in Firsts : symbol[f] = symbol[t] /\ set[t] = Cardinality(before[f])
  <2>1. PICK f \in Firsts : symbol[f] = symbol[t]
    BY <1>4
  <2>2. f \in T /\ set[f] = Cardinality(before[f])
    BY ONLY f \in Firsts, <1>9
  <2> QED BY ONLY t \in T, <1>10, <2>1, <2>2
<1>12. ASSUME NEW t \in T, NEW u \in T, set[t] = set[u] PROVE symbol[t] = symbol[u]
  BY ONLY t \in T, u \in T, <1>8, <1>11, <1>12
<1>13. \A t \in T : set[t] \in 0..c-1
  BY ONLY <1>8, <1>11
<1>14. \A s \in 0..c-1 : \E t \in T : set[t] = s
  BY ONLY <1>8, <1>9
<1>15. c # 0
  <2>1. 0 \in T
    BY ONLY m \in Nat \ {0}, T = 0..m-1
  <2> QED BY ONLY <1>13, <2>1
<1>16. set \in [T -> 0..c-1]
  <2>1. \A t \in T : set[t] \in 0..c-1
    BY ONLY <1>13
  <2> QED BY <2>1
<1> QED BY ONLY <1>3, <1>10, <1>12, <1>14, <1>15, <1>16 DEF SetsFit

(* ... and the places it gives their elements.                             *)
LEMMA PlacesOfSets ==
  ASSUME NEW m, NEW T, m \in Nat /\ T = 0..m-1, NEW c \in Nat, NEW set, set \in [T -> 0..c-1],
         NEW place, NEW under, NEW upto, NumbersPlaces(T, c, set, place, under, upto)
  PROVE  PlacesFit(m, T, c, set, place, under, upto)
<1> USE DEF NumbersPlaces
<1>1. IsFiniteSet(T) /\ Cardinality(T) = m
  BY CountBelow
<1>2. PICK preds : preds = [t \in T |-> {u \in T : \/ set[u] < set[t]
                                                   \/ (set[u] = set[t] /\ u > t)}]
  OBVIOUS
<1>3. \A t, u \in T : u \in preds[t] <=> set[u] < set[t] \/ (set[u] = set[t] /\ u > t)
  BY <1>2
<1>4. \A t \in T : preds[t] \in SUBSET T /\ set[t] \in Int /\ place[t] = Cardinality(preds[t])
  BY <1>2
<1>5. Ordered(T, preds)
  <2>1. \A t \in T : t \notin preds[t]
    BY <1>3
  <2>2. \A t, u \in T : t = u \/ t \in preds[u] \/ u \in preds[t]
    BY <1>3, <1>4
  <2>3. ASSUME NEW t \in T, NEW u \in T, u \in preds[t], NEW v \in preds[u]
        PROVE  v \in preds[t]
    <3>1. v \in T
      BY <1>4
    <3> QED BY <1>3, <1>4, <2>3, <3>1
  <2> QED BY <1>1, <1>4, <2>1, <2>2, <2>3 DEF Ordered
<1>6. /\ \A t \in T : Cardinality(preds[t]) \in 0..m-1
      /\ \A t, u \in T : Cardinality(preds[t]) = Cardinality(preds[u]) => t = u
      /\ \A k \in 0..m-1 : \E t \in T : Cardinality(preds[t]) = k
  BY ONLY <1>1, <1>5, Ranks
<1>7. /\ \A t \in T : place[t] \in T
      /\ \A t, u \in T : place[t] = place[u] => t = u
      /\ \A k \in T : \E t \in T : place[t] = k
  <2>1. \A t \in T : place[t] = Cardinality(preds[t])
    BY ONLY <1>4
  <2>2. /\ \A t \in T : Cardinality(preds[t]) \in T
        /\ \A t, u \in T : Cardinality(preds[t]) = Cardinality(preds[u]) => t = u
        /\ \A k \in T : \E t \in T : Cardinality(preds[t]) = k
    BY ONLY <1>6, T = 0..m-1
  <2> QED BY ONLY <2>1, <2>2
<1>8. ASSUME NEW S \in SUBSET T
      PROVE  IsFiniteSet(S) /\ Cardinality(S) \in 0..m
  <2>1. IsFiniteSet(S) /\ Cardinality(S) <= m
    BY ONLY <1>1, <1>8, FS_Subset
  <2> QED BY <2>1, FS_CardinalityType
<1>9. ASSUME NEW s \in 0..c-1, NEW U, U = {u \in T : set[u] < s}, NEW V, V = {u \in T : set[u] <= s}
      PROVE  /\ under[s] = Cardinality(U) /\ upto[s] = Cardinality(V)
             /\ IsFiniteSet(U) /\ IsFiniteSet(V) /\ under[s] \in 0..m /\ upto[s] \in 0..m
  <2>1. under[s] = Cardinality(U) /\ upto[s] = Cardinality(V)
    BY <1>9
  <2>2. U \in SUBSET T /\ V \in SUBSET T
    BY <1>9
  <2> QED BY <1>8, <2>1, <2>2
<1>10. ASSUME NEW t \in T, NEW s \in 0..c-1
       PROVE  set[t] = s <=> under[s] <= place[t] /\ place[t] < upto[s]
  <2>1. PICK P, U, V : /\ P = preds[t] /\ U = {u \in T : set[u] < s}
                       /\ V = {u \in T : set[u] <= s}
    OBVIOUS
  <2>2. /\ under[s] = Cardinality(U) /\ upto[s] = Cardinality(V)
        /\ IsFiniteSet(U) /\ IsFiniteSet(V) /\ under[s] \in 0..m /\ upto[s] \in 0..m
    BY <1>9, <2>1
  <2>3. IsFiniteSet(P) /\ Cardinality(P) = place[t] /\ t \notin P /\ P \in SUBSET T
    BY <1>4, <1>5, <1>8, <2>1 DEF Ordered
  <2>4. Cardinality(P \cup {t}) = place[t] + 1 /\ IsFiniteSet(P \cup {t})
    BY ONLY <2>3, FS_AddElement
  <2>5. place[t] \in Nat
    BY ONLY t \in T, T = 0..m-1, <1>7
  <2>6. CASE set[t] = s
    <3>1. U \in SUBSET P /\ P \cup {t} \in SUBSET V
      BY ONLY t \in T, s \in 0..c-1, c \in Nat, <1>3, <1>4, <2>1, <2>3, <2>6
    <3>2. Cardinality(U) <= Cardinality(P)
      BY ONLY <2>3, <3>1, FS_Subset
    <3>3. Cardinality(P \cup {t}) <= Cardinality(V)
      BY ONLY <2>2, <3>1, FS_Subset
    <3> QED BY <2>2, <2>3, <2>4, <2>5, <2>6, <3>2, <3>3
  <2>7. CASE set[t] < s
    <3>1. P \cup {t} \in SUBSET U
      BY ONLY t \in T, s \in 0..c-1, c \in Nat, <1>3, <1>4, <2>1, <2>3, <2>7
    <3>2. Cardinality(P \cup {t}) <= Cardinality(U)
      BY ONLY <2>2, <3>1, FS_Subset
    <3> QED BY <1>4, <2>2, <2>4, <2>5, <2>7, <3>2
  <2>8. CASE set[t] > s
    <3>1. V \in SUBSET P
      BY ONLY t \in T, s \in 0..c-1, c \in Nat, <1>3, <1>4, <2>1, <2>3, <2>8
    <3>2. Cardinality(V) <= Cardinality(P)
      BY ONLY <2>3, <3>1, FS_Subset
    <3> QED BY <1>4, <2>2, <2>3, <2>5, <2>8, <3>2
  <2> QED BY <1>4, <2>6, <2>7, <2>8
<1>11. place \in [T -> T]
  BY <1>7
<1>12. under \in [0..c-1 -> 0..m] /\ upto \in [0..c-1 -> 0..m]
  BY <1>9
<1> QED BY <1>7, <1>10, <1>11, <1>12 DEF PlacesFit

(* Vectors of the right ranges form a partition.                           *)
LEMMA PartitionOf ==
  ASSUME NEW m, NEW c, c \in 1..m,
         NEW set, NEW el, NEW place, NEW first, NEW mid, NEW end,
         /\ place \in [0..m-1 -> 0..m-1] /\ el \in [0..m-1 -> 0..m-1]
         /\ set \in [0..m-1 -> 0..m-1]
         /\ first \in [0..m-1 -> 0..m] /\ mid \in [0..m-1 -> 0..m]
         /\ end \in [0..m-1 -> 0..m]
  PROVE  [num_of_sets |-> c, set_idx |-> set, location |-> place, elems |-> el,
          first |-> first, mid |-> mid, end |-> end] \in Partition(m)
BY DEF Partition

(* The constructor for transitions makes a set for each symbol.            *)
THEOREM TransitionsRepresent ==
  ASSUME NEW m \in Nat \ {0}, NEW symbol \in [0..m-1 -> Nat]
  PROVE  /\ Represents(of_transitions(symbol), m)
         /\ Marks(of_transitions(symbol)) = {}
         /\ \A t, u \in 0..m-1 :
              of_transitions(symbol).set_idx[t] = of_transitions(symbol).set_idx[u]
                <=> symbol[t] = symbol[u]
<1>1. PICK p, T : p = of_transitions(symbol) /\ T = 0..m-1
  OBVIOUS
<1>2. PICK Firsts : Firsts = {t \in T : \A u \in T : u < t => symbol[u] # symbol[t]}
  OBVIOUS
<1>3. PICK set : set = [t \in T |-> Cardinality({u \in Firsts :
                                       \A v \in T : symbol[v] = symbol[t] => u < v})]
  OBVIOUS
<1>4. PICK c : c = Cardinality(Firsts)
  OBVIOUS
<1>5. PICK place : place = [t \in T |-> Cardinality({u \in T : \/ set[u] < set[t]
                                                     \/ (set[u] = set[t] /\ u > t)})]
  OBVIOUS
<1>6. PICK under : under = [s \in 0..c-1 |-> Cardinality({u \in T : set[u] < s})]
  OBVIOUS
<1>7. PICK upto : upto = [s \in 0..c-1 |-> Cardinality({u \in T : set[u] <= s})]
  OBVIOUS
<1>8. PICK el : el = [k \in T |-> CHOOSE t \in T : place[t] = k]
  OBVIOUS
<1>9. /\ c \in 1..m /\ set \in [T -> 0..c-1]
      /\ \A t, u \in T : set[t] = set[u] <=> symbol[t] = symbol[u]
      /\ \A s \in 0..c-1 : \E t \in T : set[t] = s
  <2>1. symbol \in [T -> Nat]
    BY <1>1
  <2>2. m \in Nat \ {0} /\ T = 0..m-1
    BY <1>1
  <2>3. NumbersSets(T, symbol, Firsts, set)
    BY ONLY <1>2, <1>3 DEF NumbersSets
  <2>4. SetsFit(m, T, symbol, c, set)
    BY ONLY <1>4, <2>1, <2>2, <2>3, SetsOfSymbols
  <2> QED BY ONLY <2>4 DEF SetsFit
<1>10. /\ place \in [T -> T] /\ under \in [0..c-1 -> 0..m] /\ upto \in [0..c-1 -> 0..m]
       /\ \A t, u \in T : place[t] = place[u] => t = u
       /\ \A k \in T : \E t \in T : place[t] = k
       /\ \A t \in T, s \in 0..c-1 :
            set[t] = s <=> under[s] <= place[t] /\ place[t] < upto[s]
  <2>1. m \in Nat /\ T = 0..m-1
    BY <1>1
  <2>2. c \in Nat /\ set \in [T -> 0..c-1]
    BY <1>9
  <2>3. NumbersPlaces(T, c, set, place, under, upto)
    BY ONLY <1>5, <1>6, <1>7 DEF NumbersPlaces
  <2>4. PlacesFit(m, T, c, set, place, under, upto)
    BY ONLY <2>1, <2>2, <2>3, PlacesOfSets
  <2> QED BY ONLY <2>4 DEF PlacesFit
<1>11. el \in [T -> T] /\ (\A k \in T : place[el[k]] = k) /\ (\A t \in T : el[place[t]] = t)
  <2>1. \A k \in T : el[k] \in T /\ place[el[k]] = k
    BY <1>8, <1>10
  <2>2. el \in [T -> T]
    BY <1>8, <2>1
  <2> QED BY <1>10, <2>1, <2>2
<1>12. PICK first : first = [s \in T |-> IF s < c THEN Cardinality({u \in T : set[u] < s}) ELSE 0]
  OBVIOUS
<1>13. PICK end : end = [s \in T |-> IF s < c THEN Cardinality({u \in T : set[u] <= s}) ELSE 0]
  OBVIOUS
<1>14. p = [num_of_sets |-> c, set_idx |-> set, location |-> place, elems |-> el,
            first |-> first, mid |-> first, end |-> end]
  <2>1. DOMAIN symbol = T
    BY <1>1
  <2> QED BY SMTT(30), <1>1, <1>2, <1>3, <1>4, <1>5, <1>8, <1>12, <1>13, <2>1 DEF of_transitions
<1>15. /\ p.num_of_sets = c /\ p.set_idx = set /\ p.location = place /\ p.elems = el
       /\ p.first = first /\ p.mid = first /\ p.end = end
  BY <1>14
<1>16. \A s \in T : first[s] = IF s < c THEN under[s] ELSE 0
  BY <1>1, <1>6, <1>9, <1>12
<1>17. \A s \in T : end[s] = IF s < c THEN upto[s] ELSE 0
  BY <1>1, <1>7, <1>9, <1>13
<1>18. first \in [T -> 0..m] /\ end \in [T -> 0..m]
  <2>1. \A s \in T : s < c => s \in 0..c-1
    BY <1>1, <1>9
  <2>2. \A s \in T : first[s] \in 0..m /\ end[s] \in 0..m
    BY <1>10, <1>16, <1>17, <2>1
  <2>3. first = [s \in T |-> first[s]] /\ end = [s \in T |-> end[s]]
    BY ONLY <1>12, <1>13
  <2> QED BY ONLY <2>2, <2>3
<1>19. p \in Partition(m)
  <2>1. set \in [T -> T]
    <3>1. T = 0..m-1 /\ 0..c-1 \subseteq T
      BY ONLY m \in Nat \ {0}, <1>1, <1>9
    <3> QED BY ONLY <1>9, <3>1
  <2>2. T = 0..m-1 /\ c \in 1..m
    BY ONLY <1>1, <1>9
  <2>3. place \in [T -> T] /\ el \in [T -> T]
    BY ONLY <1>10, <1>11
  <2>4. /\ place \in [0..m-1 -> 0..m-1] /\ el \in [0..m-1 -> 0..m-1]
        /\ set \in [0..m-1 -> 0..m-1]
        /\ first \in [0..m-1 -> 0..m] /\ first \in [0..m-1 -> 0..m]
        /\ end \in [0..m-1 -> 0..m]
    BY ONLY <1>18, <2>1, <2>2, <2>3
  <2>5. c \in 1..m
    BY ONLY <1>9
  <2>6. [num_of_sets |-> c, set_idx |-> set, location |-> place, elems |-> el,
         first |-> first, mid |-> first, end |-> end] \in Partition(m)
    BY ONLY <2>4, <2>5, PartitionOf
  <2> QED BY ONLY <1>14, <2>6
<1>20. \A s \in 0..c-1 : s \in T /\ first[s] = under[s] /\ end[s] = upto[s]
                         /\ under[s] \in 0..m /\ upto[s] \in 0..m
  <2> TAKE s \in 0..c-1
  <2>1. s \in T /\ s < c
    BY ONLY m \in Nat \ {0}, s \in 0..c-1, <1>1, <1>9
  <2>2. under[s] \in 0..m /\ upto[s] \in 0..m
    BY ONLY s \in 0..c-1, <1>10
  <2> QED BY ONLY <1>16, <1>17, <2>1, <2>2
<1>21. \A t \in T : place[t] \in Nat
  <2>1. T \subseteq Nat
    BY ONLY m \in Nat \ {0}, <1>1
  <2> QED BY ONLY <1>10, <2>1
<1>22. \A s \in 0..c-1 : first[s] < end[s] /\ first[s] \in first[s]..end[s]
  <2> TAKE s \in 0..c-1
  <2>1. PICK t \in T : set[t] = s
    BY <1>9
  <2>2. under[s] <= place[t] /\ place[t] < upto[s]
    BY <1>10, <2>1
  <2> QED BY <1>20, <1>21, <2>2
<1>23. \A t \in T, s \in 0..c-1 : set[t] = s <=> place[t] \in first[s]..end[s]-1
  <2> TAKE t \in T, s \in 0..c-1
  <2>1. set[t] = s <=> under[s] <= place[t] /\ place[t] < upto[s]
    BY <1>10
  <2> QED BY <1>20, <1>21, <2>1
<1>24. \A t \in T : set[t] \in 0..c-1 /\ set[t] < c
  BY <1>9
<1>25. Represents(p, m)
  <2>1. \A k \in T : p.location[p.elems[k]] = k /\ p.elems[p.location[k]] = k
    BY <1>11, <1>15
  <2> QED BY <1>1, <1>15, <1>19, <1>22, <1>23, <1>24, <2>1 DEF Represents
<1>26. Marks(p) = {}
  <2>1. ASSUME NEW t \in T PROVE ~(place[t] < first[set[t]])
    <3>1. PICK s \in 0..c-1 : s = set[t]
      BY ONLY t \in T, <1>24
    <3>2. under[s] <= place[t] /\ first[s] = under[s] /\ under[s] \in 0..m
      BY ONLY t \in T, <1>10, <1>20, <3>1
    <3> QED BY <1>21, <3>1, <3>2
  <2>2. DOMAIN set = T
    BY <1>9
  <2> QED BY <1>15, <2>1, <2>2 DEF Marks
<1> QED BY <1>1, <1>9, <1>15, <1>25, <1>26

-----------------------------------------------------------------------------
\* The automaton: its transitions, and the words that lead to final states.

Sigma == AutSymbols(dfa)

\* What the automaton and the list of its transitions are like all the time.
Static ==
  /\ N \in Nat \ {0} /\ AutStates(dfa) = States
  /\ IsFiniteSet(Sigma) /\ Sigma \subseteq Nat /\ dfa \in AutomataOver(States, Sigma)
  /\ dfa.delta \in [States -> [Sigma -> SUBSET States]] /\ dfa.final \in SUBSET States
  /\ \E q \in States : dfa.initial = {q}
  /\ trans \in Seq(States \X Sigma \X States)
  /\ \A t \in Transitions :
       /\ source(t) \in States /\ Symbol(t) \in Sigma /\ target(t) \in States
       /\ dfa.delta[source(t)][Symbol(t)] = {target(t)}
  /\ \A t, u \in Transitions : source(t) = source(u) /\ Symbol(t) = Symbol(u) => t = u
  /\ \A q \in States, a \in Sigma : \A r \in dfa.delta[q][a] :
       \E t \in Transitions : source(t) = q /\ Symbol(t) = a /\ target(t) = r

(* Delta::transitions() lists every transition once, and a deterministic   *)
(* automaton has one at most for a state and a symbol.                     *)
LEMMA Listed ==
  ASSUME dfa \in Inputs, trans = transitions(dfa)
  PROVE  Static
<1>1. PICK S, L, D : S = AutStates(dfa) /\ L = AutSymbols(dfa) /\ D = dfa.delta
  OBVIOUS
<1>2. /\ IsFiniteSet(S) /\ S = 0..Cardinality(S)-1
      /\ IsFiniteSet(L) /\ L \subseteq Nat /\ dfa \in AutomataOver(S, L)
      /\ \E q \in S : dfa.initial = {q}
      /\ \A q \in S, a \in L : D[q][a] = {} \/ \E r \in S : D[q][a] = {r}
  BY <1>1, InputsAssumption
<1>3. N = Cardinality(S) /\ S = States /\ L = Sigma
  BY <1>1, <1>2 DEF N, States, StatesOf, Sigma
<1>4. N \in Nat \ {0}
  <2>1. N \in Nat
    BY <1>2, <1>3, FS_CardinalityType
  <2>2. S # {}
    BY <1>2
  <2> QED BY <1>2, <1>3, <2>1, <2>2, FS_EmptySet
<1>5. D \in [S -> [L -> SUBSET S]] /\ dfa.final \in SUBSET S
  BY <1>1, <1>2 DEF AutomataOver
<1>6. PICK T : T = {t \in S \X L \X S : t[3] \in D[t[1]][t[2]]}
  OBVIOUS
<1>7. \A t \in T : t \in S \X L \X S /\ t[1] \in S /\ t[2] \in L /\ t[3] \in S
                   /\ t = <<t[1], t[2], t[3]>> /\ D[t[1]][t[2]] = {t[3]}
  <2> TAKE t \in T
  <2>1. t \in S \X L \X S /\ t[3] \in D[t[1]][t[2]]
    BY ONLY t \in T, <1>6
  <2>2. t[1] \in S /\ t[2] \in L /\ t[3] \in S /\ t = <<t[1], t[2], t[3]>>
    BY ONLY <2>1
  <2>3. PICK X : X = D[t[1]][t[2]]
    OBVIOUS
  <2>4. X = {} \/ \E r \in S : X = {r}
    BY ONLY <1>2, <2>2, <2>3
  <2>5. X = {t[3]}
    BY ONLY <2>1, <2>3, <2>4
  <2> QED BY ONLY <2>1, <2>2, <2>3, <2>5
<1>8. \A t, u \in T : t[1] = u[1] /\ t[2] = u[2] => t = u
  <2> TAKE t \in T, u \in T
  <2>1. t[1] = u[1] /\ t[2] = u[2] => {t[3]} = {u[3]}
    BY ONLY t \in T, u \in T, <1>7
  <2>2. t[1] = u[1] /\ t[2] = u[2] => t[3] = u[3]
    BY ONLY <2>1
  <2> QED BY ONLY t \in T, u \in T, <1>7, <2>2
<1>9. IsFiniteSet(T)
  <2>1. PICK f : f = [t \in T |-> <<t[1], t[2]>>]
    OBVIOUS
  <2>2. f \in [T -> S \X L]
    BY <1>7, <2>1
  <2>3. \A t, u \in T : f[t] = f[u] => t = u
    BY <1>8, <2>1
  <2>4. f \in Injection(T, S \X L)
    BY <2>2, <2>3 DEF Injection, IsInjective
  <2>5. IsFiniteSet(S \X L)
    BY <1>2, FS_Product
  <2> QED BY <2>4, <2>5, FS_Injection
<1>10. PICK before : before = [t \in T |-> {u \in T : u[1] < t[1] \/ (u[1] = t[1] /\ u[2] < t[2])}]
  OBVIOUS
<1>11. trans = Enumerated(T, before)
  BY <1>1, <1>6, <1>10 DEF transitions, StatesOf
<1>12. Ordered(T, before)
  <2>1. \A t \in T : t[1] \in Int /\ t[2] \in Int
    BY <1>2, <1>3, <1>4, <1>7
  <2>2. \A t, u \in T : u \in before[t] <=> u[1] < t[1] \/ (u[1] = t[1] /\ u[2] < t[2])
    BY <1>10
  <2>3. \A t \in T : before[t] \in SUBSET T
    BY <1>10
  <2>4. \A t \in T : t \notin before[t]
    BY <2>1, <2>2
  <2>5. \A t, u \in T : t = u \/ t \in before[u] \/ u \in before[t]
    BY <1>8, <2>1, <2>2
  <2>6. ASSUME NEW t \in T, NEW u \in T, u \in before[t], NEW v \in before[u]
        PROVE  v \in before[t]
    <3>1. v \in T
      BY <2>3
    <3> QED BY <2>1, <2>2, <2>6, <3>1
  <2> QED BY <1>9, <2>3, <2>4, <2>5, <2>6 DEF Ordered
<1>13. /\ trans \in Seq(T) /\ Len(trans) = Cardinality(T)
       /\ \A t \in T : \E k \in 1..Cardinality(T) : trans[k] = t
       /\ \A k, l \in 1..Cardinality(T) : trans[k] = trans[l] => k = l
  BY ONLY <1>11, <1>12, ListsAll
<1>14. PICK n \in Nat : n = Len(trans)
  BY <1>13, LenProperties
<1>15. \A k \in 1..n : trans[k] \in T
  BY <1>13, <1>14, ElementOfSeq
<1>16. Transitions = 0..n-1
  BY <1>14 DEF Transitions
<1>17. \A t \in Transitions : t + 1 \in 1..n /\ trans[t+1] \in T
  BY <1>15, <1>16
<1>18. \A t \in Transitions : source(t) = trans[t+1][1] /\ Symbol(t) = trans[t+1][2]
                              /\ target(t) = trans[t+1][3]
  BY DEF source, Symbol, target
<1>19. ASSUME NEW t \in Transitions
       PROVE  /\ source(t) \in S /\ Symbol(t) \in L /\ target(t) \in S
              /\ D[source(t)][Symbol(t)] = {target(t)}
  BY <1>7, <1>17, <1>18
<1>20. ASSUME NEW t \in Transitions, NEW u \in Transitions,
              source(t) = source(u), Symbol(t) = Symbol(u)
       PROVE  t = u
  <2>1. trans[t+1] = trans[u+1]
    BY <1>8, <1>17, <1>18, <1>20
  <2>2. t+1 = u+1
    BY <1>13, <1>14, <1>17, <2>1
  <2> QED BY <1>16, <2>2
<1>21. ASSUME NEW q \in S, NEW a \in L, NEW r \in D[q][a]
       PROVE  \E t \in Transitions : source(t) = q /\ Symbol(t) = a /\ target(t) = r
  <2>1. r \in S
    BY <1>5
  <2>2. <<q, a, r>> \in T
    BY <1>6, <2>1
  <2>3. PICK k \in 1..n : trans[k] = <<q, a, r>>
    BY <1>13, <1>14, <2>2
  <2>4. k-1 \in Transitions /\ trans[(k-1)+1] = <<q, a, r>>
    BY <1>16, <2>3
  <2> QED BY <1>18, <2>4
<1>22. trans \in Seq(S \X L \X S)
  <2>1. T \subseteq S \X L \X S
    BY <1>7
  <2> QED BY <1>13, <2>1
<1>23. \A t, u \in Transitions : source(t) = source(u) /\ Symbol(t) = Symbol(u) => t = u
  BY <1>20
<1>24. \A q \in States, a \in Sigma : \A r \in dfa.delta[q][a] :
       \E t \in Transitions : source(t) = q /\ Symbol(t) = a /\ target(t) = r
  BY <1>1, <1>3, <1>21
<1>25. \A t \in Transitions :
       /\ source(t) \in States /\ Symbol(t) \in Sigma /\ target(t) \in States
       /\ dfa.delta[source(t)][Symbol(t)] = {target(t)}
  BY <1>1, <1>3, <1>19
<1> QED BY <1>1, <1>2, <1>3, <1>4, <1>5, <1>22, <1>23, <1>24, <1>25 DEF Static

\* Where a word can lead from a state.
Points == {{}} \cup {{q} : q \in States}

\* The words of at most n letters that lead from S to a final state.
Wins(S, w) == PostWord(dfa, S, w) \cap dfa.final # {}
Won(S, n) == {w \in Seq(Sigma) : Len(w) <= n /\ Wins(S, w)}

(* The first letter of a word is a move.                                   *)
LEMMA FirstLetter ==
  ASSUME NEW states, NEW symbols, NEW A \in AutomataOver(states, symbols),
         NEW S \in SUBSET states, NEW v \in Seq(symbols), NEW w \in Seq(symbols),
         Len(w) = Len(v) + 1, \A i \in 1..Len(v) : w[i+1] = v[i]
  PROVE  PostWord(A, S, w) = PostWord(A, Post(A, S, w[1]), v)
<1>1. PICK n \in Nat : n = Len(v)
  BY LenProperties
<1>2. \A b \in symbols : \A T \in SUBSET states : Post(A, T, b) \in SUBSET states
  BY DEF Post, AutomataOver
<1>3. (\A k \in 1..n : v[k] \in symbols) /\ (\A k \in 1..n+1 : w[k] \in symbols)
  BY <1>1, ElementOfSeq
<1>4. PICK a, R : a = w[1] /\ R = Post(A, S, a)
  OBVIOUS
<1>5. a \in symbols /\ R \in SUBSET states
  BY <1>1, <1>2, <1>3, <1>4
<1>6. PICK f : WordLayers(f, A, states, R, v) /\ PostWord(A, R, v) = f[n]
  <2>1. Len(v) \in Nat /\ \A k \in 1..Len(v) : \A T \in SUBSET states : Post(A, T, v[k]) \in SUBSET states
    BY <1>1, <1>2, <1>3
  <2>2. \E f : WordLayers(f, A, states, R, v) /\ PostWord(A, R, v) = f[Len(v)]
    BY ONLY <1>5, <2>1, PostWordLayers
  <2> QED BY <1>1, <2>2
<1>7. PICK g : WordLayers(g, A, states, S, w) /\ PostWord(A, S, w) = g[n+1]
  <2>1. Len(w) \in Nat /\ \A k \in 1..Len(w) : \A T \in SUBSET states : Post(A, T, w[k]) \in SUBSET states
    BY <1>1, <1>2, <1>3
  <2>2. \E g : WordLayers(g, A, states, S, w) /\ PostWord(A, S, w) = g[Len(w)]
    BY ONLY <2>1, S \in SUBSET states, PostWordLayers
  <2> QED BY <1>1, <2>2
<1>8. f[0] = R /\ \A k \in 1..n : f[k] = Post(A, f[k-1], v[k])
  BY <1>1, <1>6 DEF WordLayers
<1>9. g[0] = S /\ \A k \in 1..n+1 : g[k] = Post(A, g[k-1], w[k])
  BY <1>1, <1>7 DEF WordLayers
<1> DEFINE Good == {k \in 0..n : f[k] = g[k+1]}
<1>10. \A k \in 0..n : k \in Good
  <2>1. 0 \in Good
    <3>1. 1 \in 1..n+1 /\ 1-1 = 0 /\ 0+1 = 1 /\ 0 \in 0..n
      OBVIOUS
    <3> QED BY <1>4, <1>8, <1>9, <3>1
  <2>2. ASSUME NEW k \in 1..n, k-1 \in Good PROVE k \in Good
    <3>1. k+1 \in 1..n+1 /\ k \in 0..n /\ (k+1)-1 = k /\ (k-1)+1 = k
      OBVIOUS
    <3>2. f[k-1] = g[k]
      BY <2>2, <3>1
    <3>3. w[k+1] = v[k]
      BY <1>1
    <3> QED BY <1>8, <1>9, <3>1, <3>2, <3>3
  <2>3. Good \in SUBSET (0..n) OBVIOUS
  <2> HIDE DEF Good
  <2> QED BY <2>1, <2>2, <2>3, UpTo
<1>11. f[n] = g[n+1]
  <2>1. n \in 0..n
    OBVIOUS
  <2> QED BY <1>10, <2>1
<1> QED BY <1>4, <1>6, <1>7, <1>11

(* There is a word with any first letter and rest.                         *)
LEMMA LetterThenWord ==
  ASSUME NEW symbols, NEW a \in symbols, NEW v \in Seq(symbols)
  PROVE  \E w \in Seq(symbols) : /\ Len(w) = Len(v) + 1 /\ w[1] = a
                                 /\ \A i \in 1..Len(v) : w[i+1] = v[i]
<1>1. PICK n \in Nat : n = Len(v)
  BY LenProperties
<1>2. \A k \in 1..n : v[k] \in symbols
  BY <1>1, ElementOfSeq
<1>3. PICK w : w = [k \in 1..n+1 |-> IF k = 1 THEN a ELSE v[k-1]]
  OBVIOUS
<1>4. \A k \in 1..n+1 : w[k] \in symbols
  BY <1>2, <1>3
<1>5. w \in [1..n+1 -> symbols]
  BY <1>3, <1>4
<1>6. w \in Seq(symbols) /\ Len(w) = n+1
  BY <1>5
<1> QED BY <1>1, <1>3, <1>6

(* Single states move to single states or nowhere.                         *)
LEMMA PointsMove ==
  ASSUME Static, NEW S \in Points, NEW a \in Sigma
  PROVE  /\ S \in SUBSET States /\ Post(dfa, S, a) \in Points
         /\ \A q \in States : S = {q} => Post(dfa, S, a) = dfa.delta[q][a]
<1>1. S \in SUBSET States
  BY DEF Points
<1>2. CASE S = {}
  <2>1. Post(dfa, S, a) = {}
    BY <1>2 DEF Post
  <2> QED BY <1>1, <1>2, <2>1 DEF Points
<1>3. CASE S # {}
  <2>1. PICK q \in States : S = {q}
    BY <1>3 DEF Points
  <2>2. Post(dfa, S, a) = dfa.delta[q][a]
    BY <2>1 DEF Post
  <2>3. dfa.delta[q][a] \in SUBSET States
    BY DEF Static
  <2>4. ASSUME NEW r \in dfa.delta[q][a] PROVE dfa.delta[q][a] = {r}
    <3>0. \A s \in States, b \in Sigma : \A x \in dfa.delta[s][b] :
            \E t \in Transitions : source(t) = s /\ Symbol(t) = b /\ target(t) = x
      BY Zenon DEF Static
    <3>1. PICK t \in Transitions : source(t) = q /\ Symbol(t) = a /\ target(t) = r
      BY <3>0, Zenon
    <3>2. \A u \in Transitions : dfa.delta[source(u)][Symbol(u)] = {target(u)}
      BY DEF Static
    <3>3. dfa.delta[source(t)][Symbol(t)] = {target(t)}
      BY ONLY <3>2, t \in Transitions
    <3> QED BY ONLY <3>1, <3>3
  <2>5. dfa.delta[q][a] \in Points
    BY <2>3, <2>4 DEF Points
  <2> QED BY <1>1, <2>1, <2>2, <2>5
<1> QED BY <1>2, <1>3

(* The bounded words of the library of words.                              *)
LEMMA WordsAre ==
  ASSUME NEW symbols, NEW n \in Nat
  PROVE  Words(symbols, n) = {w \in Seq(symbols) : Len(w) <= n}
<1>1. ASSUME NEW w \in Words(symbols, n) PROVE w \in Seq(symbols) /\ Len(w) <= n
  <2>1. PICK k \in 0..n : w \in [1..k -> symbols]
    BY DEF Words
  <2>2. k \in Nat /\ w \in Seq(symbols) /\ Len(w) = k
    BY <2>1
  <2> QED BY <2>1, <2>2
<1>2. ASSUME NEW w \in Seq(symbols), Len(w) <= n PROVE w \in Words(symbols, n)
  <2>1. PICK k \in 0..n : k = Len(w)
    BY <1>2, LenProperties
  <2>2. w \in [1..k -> symbols]
    BY <2>1, LenProperties
  <2> QED BY <2>2 DEF Words
<1> QED BY <1>1, <1>2

\* w is the letter a and then v.
Begins(w, a, v) == Len(w) = Len(v) + 1 /\ w[1] = a /\ \A i \in 1..Len(v) : w[i+1] = v[i]

(* The words that win from S: the empty one if S is final, ...             *)
LEMMA WonEmpty ==
  ASSUME Static, NEW S \in Points, NEW n \in Nat
  PROVE  << >> \in Won(S, n) <=> S \cap dfa.final # {}
<1>1. S \in SUBSET States
  BY DEF Points
<1>2. dfa \in AutomataOver(States, Sigma)
  BY DEF Static
<1>3. PostWord(dfa, S, << >>) = S
  BY <1>1, <1>2, PostWordEmpty
<1>4. << >> \in Seq(Sigma) /\ Len(<< >>) = 0
  BY EmptySeq
<1> QED BY <1>3, <1>4 DEF Won, Wins

(* ... and with the letter a first those that win after it.                *)
LEMMA WonLetter ==
  ASSUME Static, NEW S \in Points, NEW n \in Nat, NEW a \in Sigma,
         NEW v \in Seq(Sigma), NEW w \in Seq(Sigma), Begins(w, a, v)
  PROVE  w \in Won(S, n+1) <=> v \in Won(Post(dfa, S, a), n)
<1>1. S \in SUBSET States
  BY DEF Points
<1>2. dfa \in AutomataOver(States, Sigma)
  BY DEF Static
<1>3. PostWord(dfa, S, w) = PostWord(dfa, Post(dfa, S, w[1]), v)
  BY <1>1, <1>2, FirstLetter DEF Begins
<1>4. PostWord(dfa, S, w) = PostWord(dfa, Post(dfa, S, a), v)
  BY <1>3 DEF Begins
<1>5. Len(w) <= n+1 <=> Len(v) <= n
  BY LenProperties DEF Begins
<1> QED BY <1>4, <1>5 DEF Won, Wins

(* So all words of n+1 letters are alike when those after a letter are.    *)
LEMMA WonOn ==
  ASSUME Static, NEW S \in Points, NEW R \in Points, NEW n \in Nat
  PROVE  Won(S, n+1) = Won(R, n+1) <=>
           /\ S \cap dfa.final # {} <=> R \cap dfa.final # {}
           /\ \A a \in Sigma : Won(Post(dfa, S, a), n) = Won(Post(dfa, R, a), n)
<1>1. n+1 \in Nat
  OBVIOUS
<1>2. /\ << >> \in Won(S, n+1) <=> S \cap dfa.final # {}
      /\ << >> \in Won(R, n+1) <=> R \cap dfa.final # {}
  BY <1>1, WonEmpty
<1>3. ASSUME Won(S, n+1) = Won(R, n+1), NEW a \in Sigma, NEW v \in Seq(Sigma)
      PROVE  v \in Won(Post(dfa, S, a), n) <=> v \in Won(Post(dfa, R, a), n)
  <2>1. PICK w \in Seq(Sigma) : Begins(w, a, v)
    BY LetterThenWord DEF Begins
  <2> QED BY <1>3, <2>1, WonLetter
<1>4. ASSUME Won(S, n+1) = Won(R, n+1), NEW a \in Sigma
      PROVE  Won(Post(dfa, S, a), n) = Won(Post(dfa, R, a), n)
  <2>1. Won(Post(dfa, S, a), n) \subseteq Seq(Sigma) /\ Won(Post(dfa, R, a), n) \subseteq Seq(Sigma)
    BY DEF Won
  <2> QED BY <1>3, <1>4, <2>1
<1>5. ASSUME S \cap dfa.final # {} <=> R \cap dfa.final # {},
             \A a \in Sigma : Won(Post(dfa, S, a), n) = Won(Post(dfa, R, a), n),
             NEW w \in Seq(Sigma)
      PROVE  w \in Won(S, n+1) <=> w \in Won(R, n+1)
  <2>1. CASE w = << >>
    BY <1>2, <1>5, <2>1
  <2>2. CASE w # << >>
    <3>1. PICK a, v : a = w[1] /\ v = Tail(w)
      OBVIOUS
    <3>2. Len(w) \in Nat \ {0}
      BY <2>2, EmptySeq
    <3>3. v \in Seq(Sigma) /\ Len(v) = Len(w)-1 /\ \A i \in 1..Len(v) : v[i] = w[i+1]
      BY <2>2, <3>1, HeadTailProperties
    <3>4. a \in Sigma
      BY <3>1, <3>2, ElementOfSeq
    <3>5. Begins(w, a, v)
      BY <3>1, <3>2, <3>3 DEF Begins
    <3> QED BY <1>5, <3>3, <3>4, <3>5, WonLetter
  <2> QED BY <2>1, <2>2
<1>6. ASSUME S \cap dfa.final # {} <=> R \cap dfa.final # {},
             \A a \in Sigma : Won(Post(dfa, S, a), n) = Won(Post(dfa, R, a), n)
      PROVE  Won(S, n+1) = Won(R, n+1)
  <2>1. Won(S, n+1) \subseteq Seq(Sigma) /\ Won(R, n+1) \subseteq Seq(Sigma)
    BY DEF Won
  <2> QED BY <1>5, <1>6, <2>1
<1> QED BY <1>2, <1>4, <1>6

\* A letter more tells no more points apart.
Stable(n) == \A S, R \in Points : Won(S, n) = Won(R, n) => Won(S, n+1) = Won(R, n+1)

(* Then no number of letters more does.                                    *)
LEMMA StableOn ==
  ASSUME Static, NEW n \in Nat, Stable(n)
  PROVE  Stable(n+1)
<1> SUFFICES ASSUME NEW S \in Points, NEW R \in Points, Won(S, n+1) = Won(R, n+1)
             PROVE  Won(S, n+1+1) = Won(R, n+1+1)
  BY DEF Stable
<1>1. /\ S \cap dfa.final # {} <=> R \cap dfa.final # {}
      /\ \A a \in Sigma : Won(Post(dfa, S, a), n) = Won(Post(dfa, R, a), n)
  BY WonOn
<1>2. \A a \in Sigma : Post(dfa, S, a) \in Points /\ Post(dfa, R, a) \in Points
  BY PointsMove
<1>3. \A a \in Sigma : Won(Post(dfa, S, a), n+1) = Won(Post(dfa, R, a), n+1)
  BY <1>1, <1>2 DEF Stable
<1>4. n+1 \in Nat
  OBVIOUS
<1> QED BY ONLY Static, S \in Points, R \in Points, <1>1, <1>3, <1>4, WonOn

(* More letters tell more points apart.                                    *)
LEMMA WonFewer ==
  ASSUME NEW S, NEW R, NEW n \in Nat, NEW m \in Nat, m <= n, Won(S, n) = Won(R, n)
  PROVE  Won(S, m) = Won(R, m)
<1>1. \A w \in Seq(Sigma) : Len(w) <= m => Len(w) <= n
  BY LenProperties
<1>2. Won(S, m) = {w \in Won(S, n) : Len(w) <= m}
  BY <1>1 DEF Won
<1>3. Won(R, m) = {w \in Won(R, n) : Len(w) <= m}
  BY <1>1 DEF Won
<1> QED BY <1>2, <1>3

\* The sets of words of the points.
Classes(n) == {Won(S, n) : S \in Points}

(* There are finitely many points, and more than states.                   *)
LEMMA PointsCount ==
  ASSUME Static
  PROVE  IsFiniteSet(Points) /\ Cardinality(Points) = N + 1
<1>1. IsFiniteSet(States) /\ Cardinality(States) = N /\ N \in Nat
  <2>1. N \in Nat
    BY DEF Static
  <2> QED BY <2>1, CountBelow DEF States
<1>2. PICK P : P = {{q} : q \in States}
  OBVIOUS
<1>3. PICK f : f = [q \in States |-> {q}]
  OBVIOUS
<1>4. f \in Surjection(States, P) /\ f \in Injection(States, P)
  BY <1>2, <1>3 DEF Surjection, Injection, IsInjective
<1>5. IsFiniteSet(P) /\ Cardinality(P) = N
  BY <1>1, <1>4, FS_Surjection
<1>6. {} \notin P
  BY <1>2
<1>7. Points = P \cup {{}}
  BY <1>2 DEF Points
<1> QED BY <1>5, <1>6, <1>7, FS_AddElement

(* While the points are not stable, each letter makes a class more.        *)
LEMMA ClassesCount ==
  ASSUME Static, NEW n \in Nat
  PROVE  /\ IsFiniteSet(Classes(n)) /\ Cardinality(Classes(n)) \in Nat
         /\ Cardinality(Classes(n)) <= N + 1
         /\ Cardinality(Classes(n)) = N + 1 => Stable(n)
         /\ Stable(n) \/ Cardinality(Classes(n)) < Cardinality(Classes(n+1))
<1>1. N \in Nat
  BY DEF Static
<1>2. ASSUME NEW k \in Nat
      PROVE  /\ IsFiniteSet(Classes(k)) /\ Cardinality(Classes(k)) \in Nat
             /\ Cardinality(Classes(k)) <= N + 1
             /\ Cardinality(Classes(k)) = N + 1 =>
                  \A S, R \in Points : Won(S, k) = Won(R, k) => S = R
  <2>1. PICK f : f = [S \in Points |-> Won(S, k)]
    OBVIOUS
  <2>2. f \in Surjection(Points, Classes(k))
    BY <2>1 DEF Surjection, Classes
  <2>3. /\ IsFiniteSet(Classes(k)) /\ Cardinality(Classes(k)) <= N + 1
        /\ Cardinality(Classes(k)) = N + 1 => f \in Injection(Points, Classes(k))
    BY <2>2, PointsCount, FS_Surjection
  <2>4. f \in Injection(Points, Classes(k)) =>
          \A S, R \in Points : Won(S, k) = Won(R, k) => S = R
    BY <2>1 DEF Injection, IsInjective
  <2> QED BY <2>3, <2>4, FS_CardinalityType
<1>3. Cardinality(Classes(n)) = N + 1 => Stable(n)
  BY <1>2 DEF Stable
<1>4. ASSUME ~Stable(n)
      PROVE  Cardinality(Classes(n)) < Cardinality(Classes(n+1))
  <2>1. n+1 \in Nat /\ n <= n+1
    OBVIOUS
  <2>2. PICK f : f = [W \in Classes(n+1) |-> {w \in W : Len(w) <= n}]
    OBVIOUS
  <2>3. ASSUME NEW S PROVE Won(S, n) = {w \in Won(S, n+1) : Len(w) <= n}
    <3>1. \A w \in Seq(Sigma) : Len(w) <= n => Len(w) <= n+1
      BY LenProperties
    <3> QED BY <3>1 DEF Won
  <2>4. \A S \in Points : Won(S, n+1) \in Classes(n+1) /\ f[Won(S, n+1)] = Won(S, n)
    BY <2>2, <2>3 DEF Classes
  <2>5. f \in [Classes(n+1) -> Classes(n)]
    <3>1. \A W \in Classes(n+1) : f[W] \in Classes(n)
      BY <2>4 DEF Classes
    <3> QED BY <2>2, <3>1
  <2>6. f \in Surjection(Classes(n+1), Classes(n))
    <3>1. \A W \in Classes(n) : \E V \in Classes(n+1) : f[V] = W
      BY <2>4 DEF Classes
    <3> QED BY <2>5, <3>1 DEF Surjection
  <2>7. PICK S \in Points, R \in Points : Won(S, n) = Won(R, n) /\ Won(S, n+1) # Won(R, n+1)
    BY <1>4 DEF Stable
  <2>8. f \notin Injection(Classes(n+1), Classes(n))
    BY <2>4, <2>7 DEF Injection, IsInjective
  <2>9. IsFiniteSet(Classes(n+1))
    BY <1>2, <2>1
  <2>10. /\ Cardinality(Classes(n)) <= Cardinality(Classes(n+1))
         /\ Cardinality(Classes(n)) # Cardinality(Classes(n+1))
    BY <2>6, <2>8, <2>9, FS_Surjection
  <2> QED BY <1>2, <2>1, <2>10
<1> QED BY <1>2, <1>3, <1>4

-----------------------------------------------------------------------------
\* States with the same words.

(* In a trimmed automaton some word wins from every state.                 *)
LEMMA SomeWordWins ==
  ASSUME Static, dfa \in Inputs, NEW q \in States
  PROVE  \E w \in Seq(Sigma) : Wins({q}, w)
<1>1. /\ IsFiniteSet(States) /\ dfa \in AutomataOver(States, Sigma)
      /\ q \in UsefulStates(dfa)
  BY InputsAssumption DEF Static
<1>2. PICK succ : succ = AutSuccessors(dfa)
  OBVIOUS
<1>3. /\ IsGraph(succ) /\ DOMAIN succ = States
      /\ \A p \in States : succ[p] = UNION {dfa.delta[p][a] : a \in Sigma}
  BY ONLY <1>1, <1>2, AutomatonGraph
<1>4. Closure(succ, {q}) \cap dfa.final # {}
  BY <1>1, <1>2 DEF UsefulStates, CoClosure
<1>5. PICK T : T = {p \in States : \E w \in Seq(Sigma) : p \in PostWord(dfa, {q}, w)}
  OBVIOUS
<1>6. {q} \in SUBSET States
  OBVIOUS
<1>7. q \in T
  <2>1. PostWord(dfa, {q}, << >>) = {q}
    BY <1>1, <1>6, PostWordEmpty
  <2>2. << >> \in Seq(Sigma)
    BY EmptySeq
  <2> QED BY <1>5, <2>1, <2>2
<1>8. ASSUME NEW p \in T, NEW r \in succ[p] PROVE r \in T
  <2>1. PICK w \in Seq(Sigma) : p \in PostWord(dfa, {q}, w)
    BY <1>5
  <2>2. PICK a \in Sigma : r \in dfa.delta[p][a]
    BY <1>3, <1>5
  <2>3. r \in PostWord(dfa, {q}, Append(w, a))
    <3>1. PostWord(dfa, {q}, Append(w, a)) = Post(dfa, PostWord(dfa, {q}, w), a)
      BY <1>1, <1>6, PostWordAppend
    <3> QED BY <2>1, <2>2, <3>1 DEF Post
  <2>4. Append(w, a) \in Seq(Sigma)
    BY AppendProperties
  <2>5. r \in States
    BY <1>1, <1>6, <2>3, <2>4, PostWordType
  <2> QED BY <1>5, <2>3, <2>4, <2>5
<1>9. Closure(succ, {q}) \subseteq T
  <2>1. {q} \subseteq T /\ \A p \in T \cap DOMAIN succ : succ[p] \subseteq T
    BY <1>7, <1>8
  <2>2. {q} \in SUBSET DOMAIN succ
    BY <1>3
  <2> QED BY ONLY <1>3, <2>1, <2>2, ClosureLeast
<1> QED BY <1>4, <1>5, <1>9 DEF Wins

(* No word wins from nowhere.                                              *)
LEMMA NowhereWins ==
  ASSUME Static, NEW w \in Seq(Sigma)
  PROVE  ~Wins({}, w)
<1>3. PICK n \in Nat : n = Len(w) /\ \A k \in 1..n : w[k] \in Sigma
  BY LenProperties, ElementOfSeq
<1>4. PICK Z : Z = {}
  OBVIOUS
<1>5. PICK f : WordLayers(f, dfa, Z, Z, w) /\ PostWord(dfa, Z, w) = f[n]
  <2>1. Len(w) \in Nat /\ \A k \in 1..Len(w) : \A T \in SUBSET Z : Post(dfa, T, w[k]) \in SUBSET Z
    BY <1>3, <1>4 DEF Post
  <2>2. Z \in SUBSET Z
    OBVIOUS
  <2>3. \E f : WordLayers(f, dfa, Z, Z, w) /\ PostWord(dfa, Z, w) = f[Len(w)]
    BY ONLY <2>1, <2>2, PostWordLayers
  <2> QED BY <1>3, <2>3
<1>6. f[n] \in SUBSET Z
  BY <1>3, <1>5 DEF WordLayers
<1> QED BY <1>4, <1>5, <1>6 DEF Wins

(* States that are alike for a stable number of letters stay so.           *)
LEMMA StableAfter ==
  ASSUME Static, NEW m \in Nat, Stable(m), NEW n \in Nat,
         NEW S \in Points, NEW R \in Points, Won(S, m) = Won(R, m)
  PROVE  Won(S, m+n) = Won(R, m+n)
<1> DEFINE Good == {k \in 0..n : Stable(m+k) /\ Won(S, m+k) = Won(R, m+k)}
<1>1. 0 \in Good
  OBVIOUS
<1>2. ASSUME NEW k \in 1..n, k-1 \in Good PROVE k \in Good
  <2>1. PICK j \in Nat : j = m + (k-1)
    OBVIOUS
  <2>2. Stable(j) /\ Won(S, j) = Won(R, j) /\ m+k = j+1
    BY <1>2, <2>1
  <2>3. Stable(j+1)
    BY <2>2, StableOn
  <2>4. Won(S, j+1) = Won(R, j+1)
    BY <2>2 DEF Stable
  <2> QED BY <2>2, <2>3, <2>4
<1>3. Good \in SUBSET (0..n) /\ n \in 0..n
  OBVIOUS
<1>4. n \in Good
  <2> HIDE DEF Good
  <2> QED BY <1>1, <1>2, <1>3, UpTo
<1> QED BY <1>4

(* Words of fewer letters than there are states tell all states apart that *)
(* any words do.                                                           *)
LEMMA Moore ==
  ASSUME Static, dfa \in Inputs
  PROVE  Stable(N-1)
<1>1. N \in Nat \ {0} /\ N-1 \in Nat
  BY DEF Static
<1> DEFINE C(n) == Cardinality(Classes(n))
           Good == {n \in 0..N-1 : Stable(n) \/ n + 2 <= C(n)}
<1>2. 0 \in Good
  <2>1. 0 \in States
    BY <1>1 DEF States
  <2>2. PICK w \in Seq(Sigma) : Wins({0}, w)
    BY <2>1, SomeWordWins
  <2>3. {0} \in SUBSET States /\ dfa \in AutomataOver(States, Sigma) /\ dfa.final \in SUBSET States
    BY <2>1 DEF Static
  <2>4. PICK f \in States : f \in dfa.final
    BY <2>2, <2>3 DEF Wins
  <2>5. {f} \in Points /\ {} \in Points
    BY DEF Points
  <2>6. << >> \in Won({f}, 0) /\ << >> \notin Won({}, 0)
    BY <2>4, <2>5, WonEmpty
  <2>7. PICK V, W : V = Won({f}, 0) /\ W = Won({}, 0)
    OBVIOUS
  <2>8. V \in Classes(0) /\ W \in Classes(0) /\ V # W
    BY <2>5, <2>6, <2>7 DEF Classes
  <2>9. 2 <= C(0)
    <3>1. IsFiniteSet({V}) /\ Cardinality({V}) = 1
      BY FS_Singleton
    <3>2. IsFiniteSet({V} \cup {W}) /\ Cardinality({V} \cup {W}) = 2
      <4>1. PICK X : X = {V}
        OBVIOUS
      <4>2. W \notin X /\ IsFiniteSet(X) /\ Cardinality(X) = 1
        BY <2>8, <3>1, <4>1
      <4>3. IsFiniteSet(X \cup {W}) /\ Cardinality(X \cup {W}) = 1 + 1
        BY ONLY <4>2, FS_AddElement
      <4>4. IsFiniteSet(X \cup {W}) /\ Cardinality(X \cup {W}) = 2
        BY ONLY <4>3
      <4> QED BY ONLY <4>1, <4>4, Zenon
    <3>3. {V} \cup {W} \in SUBSET Classes(0)
      BY <2>8
    <3>4. IsFiniteSet(Classes(0))
      BY ClassesCount
    <3>5. Cardinality({V} \cup {W}) <= Cardinality(Classes(0))
      BY ONLY <3>3, <3>4, FS_Subset
    <3> QED BY <3>2, <3>5
  <2> QED BY <1>1, <2>9
<1>3. ASSUME NEW n \in 1..N-1, n-1 \in Good PROVE n \in Good
  <2>1. PICK k \in Nat : k = n-1 /\ n = k+1
    BY <1>1
  <2>2. /\ C(k) \in Nat /\ C(n) \in Nat
        /\ Stable(k) \/ C(k) < C(n)
    BY <1>1, <2>1, ClassesCount
  <2>3. Stable(k) => Stable(n)
    BY <2>1, StableOn
  <2>4. Stable(k) \/ k + 2 <= C(k)
    BY <1>3, <2>1
  <2>5. Stable(n) \/ n + 2 <= C(n)
    <3> HIDE DEF C
    <3> QED BY <2>1, <2>2, <2>3, <2>4
  <2> QED BY <2>5
<1>4. N-1 \in Good
  <2>1. Good \in SUBSET (0..N-1) /\ N-1 \in 0..N-1
    BY <1>1
  <2> HIDE DEF Good
  <2> QED BY <1>1, <1>2, <1>3, <2>1, UpTo
<1>5. Stable(N-1) \/ N + 1 <= C(N-1)
  BY <1>1, <1>4
<1>6. C(N-1) \in Nat /\ C(N-1) <= N + 1 /\ (C(N-1) = N + 1 => Stable(N-1))
  BY <1>1, ClassesCount
<1> QED
  <2> HIDE DEF C
  <2> QED BY <1>1, <1>5, <1>6

(* What Residual() is in these terms.                                      *)
LEMMA ResidualIs ==
  ASSUME Static, NEW q \in States
  PROVE  {q} \in Points /\ Residual(q) = Won({q}, N-1)
<1>1. N-1 \in Nat
  BY DEF Static
<1>2. Words(Sigma, N-1) = {w \in Seq(Sigma) : Len(w) <= N-1}
  BY <1>1, WordsAre
<1> QED BY <1>2 DEF Residual, Won, Wins, Points, N, StatesOf, Sigma

(* States with the same words are both final or not, ...                   *)
LEMMA ResidualFinal ==
  ASSUME Static, NEW p \in States, NEW q \in States, Residual(p) = Residual(q),
         p \in dfa.final
  PROVE  q \in dfa.final
<1>1. N-1 \in Nat
  BY DEF Static
<1>2. {p} \in Points /\ {q} \in Points /\ Won({p}, N-1) = Won({q}, N-1)
  BY ResidualIs
<1>3. {p} \cap dfa.final # {} <=> {q} \cap dfa.final # {}
  BY <1>1, <1>2, WonEmpty
<1> QED BY <1>3

(* ... and their transitions match: this is where the automaton has to be  *)
(* trimmed.                                                                *)
LEMMA Congruence ==
  ASSUME Static, dfa \in Inputs, NEW p \in States, NEW q \in States,
         Residual(p) = Residual(q), NEW t \in Transitions, source(t) = p
  PROVE  \E u \in Transitions : /\ source(u) = q /\ Symbol(u) = Symbol(t)
                                /\ Residual(target(u)) = Residual(target(t))
<1>1. PICK n \in Nat : n = N-1
  BY DEF Static
<1>2. {p} \in Points /\ {q} \in Points /\ Won({p}, n) = Won({q}, n)
  BY <1>1, ResidualIs
<1>3. PICK a \in Sigma, r \in States : a = Symbol(t) /\ r = target(t) /\ dfa.delta[p][a] = {r}
  BY DEF Static
<1>4. PICK R : R = Post(dfa, {q}, a)
  OBVIOUS
<1>5. Post(dfa, {p}, a) = {r} /\ R = dfa.delta[q][a] /\ R \in Points /\ {r} \in Points
  <2>1. PICK P, Q : P = {p} /\ Q = {q}
    OBVIOUS
  <2>2. P \in Points /\ Q \in Points
    BY <1>2, <2>1
  <2>3. Post(dfa, P, a) = dfa.delta[p][a] /\ Post(dfa, P, a) \in Points
    BY <2>1, <2>2, PointsMove
  <2>4. Post(dfa, Q, a) = dfa.delta[q][a] /\ Post(dfa, Q, a) \in Points
    BY <2>1, <2>2, PointsMove
  <2> QED BY <1>3, <1>4, <2>1, <2>3, <2>4
<1>6. Stable(n)
  BY <1>1, Moore
<1>7. Won({r}, n) = Won(R, n)
  <2>1. Won({p}, n+1) = Won({q}, n+1)
    BY <1>2, <1>6 DEF Stable
  <2>2. Won(Post(dfa, {p}, a), n) = Won(Post(dfa, {q}, a), n)
    BY ONLY Static, a \in Sigma, n \in Nat, <1>2, <2>1, WonOn
  <2> QED BY <1>4, <1>5, <2>2
<1>8. R # {}
  <2>1. PICK w \in Seq(Sigma) : Wins({r}, w)
    BY SomeWordWins
  <2>2. PICK m \in Nat : m = Len(w)
    BY LenProperties
  <2>3. Won({r}, n+m) = Won(R, n+m)
    BY <1>5, <1>6, <1>7, StableAfter
  <2>4. w \in Won({r}, n+m)
    BY <2>1, <2>2 DEF Won
  <2>5. PostWord(dfa, R, w) \cap dfa.final # {}
    BY <2>3, <2>4 DEF Won, Wins
  <2>6. ASSUME R = {} PROVE FALSE
    <3>1. {} \in Points
      BY DEF Points
    <3>2. w \in Won({}, n+m) /\ w \in Seq(Sigma)
      BY <2>3, <2>4, <2>6
    <3> QED BY <3>1, <3>2, NowhereWins DEF Won
  <2> QED BY <2>6
<1>9. PICK s \in States : R = {s}
  BY <1>5, <1>8 DEF Points
<1>10. PICK u \in Transitions : source(u) = q /\ Symbol(u) = a /\ target(u) = s
  <2>1. s \in dfa.delta[q][a]
    BY <1>5, <1>9
  <2> QED BY <2>1 DEF Static
<1>11. Residual(s) = Residual(r)
  BY <1>1, <1>7, <1>9, ResidualIs
<1> QED BY <1>3, <1>10, <1>11

-----------------------------------------------------------------------------
\* What a step that only marks leaves as it is.

M == Len(trans)
Splitters == 0..trp.num_of_sets-1

\* What the invariant says of the sets of the two partitions.
Parts ==
  /\ N \in Nat /\ M \in Nat /\ Transitions = 0..M-1 /\ States = 0..N-1
  /\ Represents(brp, N) /\ Represents(trp, M)
  /\ \A q \in States : Block(q) \in Blocks
  /\ \A t \in Transitions : Into(t) \in Blocks /\ Splitter(t) \in Splitters
  /\ brp.num_of_sets \in Nat \ {0} /\ trp.num_of_sets \in Nat \ {0}

(* The sets of the two partitions are as the invariant says.               *)
LEMMA PartsHold ==
  ASSUME Typed
  PROVE  Static /\ Parts
<1>1. Static
  BY Listed DEF Typed
<1>2. N \in Nat /\ M \in Nat /\ Transitions = 0..M-1 /\ States = 0..N-1
  BY <1>1, LenProperties DEF Static, M, Transitions, States
<1>3. Represents(brp, N) /\ Represents(trp, M)
  BY DEF Typed, M
<1>4. \A q \in States : Block(q) \in Blocks
  <2> TAKE q \in States
  <2>1. brp.set_idx[q] \in 0..brp.num_of_sets-1
    BY ONLY q \in States, <1>2, <1>3, PlaceOf
  <2> QED BY <2>1 DEF Block, Blocks
<1>5. \A t \in Transitions : Into(t) \in Blocks /\ Splitter(t) \in Splitters
  <2> TAKE t \in Transitions
  <2>1. trp.set_idx[t] \in 0..trp.num_of_sets-1
    BY ONLY t \in Transitions, <1>2, <1>3, PlaceOf
  <2>2. target(t) \in States
    BY <1>1 DEF Static
  <2> QED BY <1>4, <2>1, <2>2 DEF Block, Splitter, Splitters, Into
<1>6. brp.num_of_sets \in 1..N /\ trp.num_of_sets \in 1..M
  BY <1>2, <1>3, Vectors DEF Represents
<1> QED BY <1>1, <1>2, <1>3, <1>4, <1>5, <1>6 DEF Parts

\* What no step changes.
Same ==
  /\ N' = N /\ M' = M /\ States' = States /\ Transitions' = Transitions
  /\ dfa' = dfa /\ trans' = trans
  /\ \A t : source(t)' = source(t) /\ Symbol(t)' = Symbol(t) /\ target(t)' = target(t)
  /\ \A q : Residual(q)' = Residual(q)
  /\ \A C : Sources(C)' = Sources(C)
  /\ \A t, q : Beside(t, q)' = Beside(t, q)

(* Where the input stays, so does all that is said of it alone.            *)
LEMMA InputStays ==
  ASSUME UNCHANGED input
  PROVE  Same
BY DEF input, Same, N, M, States, Transitions, source, Symbol, target, Residual, Sources,
       Beside, StatesOf

(* Blocks are kept by marking, and so is what is said of them.             *)
LEMMA BlocksKept ==
  ASSUME UNCHANGED input, brp'.set_idx = brp.set_idx, brp'.num_of_sets = brp.num_of_sets
  PROVE  /\ Blocks' = Blocks /\ \A q : Block(q)' = Block(q)
         /\ \A t : Into(t)' = Into(t)
         /\ Coarse => Coarse'
         /\ Uniform /\ (pc' # "final" => pc # "final") => Uniform'
<1>1. Same
  BY InputStays
<1>2. Blocks' = Blocks /\ \A q : Block(q)' = Block(q)
  BY DEF Blocks, Block
<1>3. \A t : Into(t)' = Into(t)
  BY <1>1 DEF Into, Same
<1>4. Coarse => Coarse'
  BY <1>1, <1>2 DEF Coarse, Same
<1>5. Uniform /\ (pc' # "final" => pc # "final") => Uniform'
  BY <1>1, <1>2 DEF Uniform, Same
<1> QED BY <1>2, <1>3, <1>4, <1>5

\* The splitters and what is to be done with them.
SplittersKept ==
  UNCHANGED <<input, trp, moved, touched_spls>>

(* The splitters fit to the blocks as long as neither changes.             *)
LEMMA FitKept ==
  ASSUME SplittersKept, brp'.set_idx = brp.set_idx, brp'.num_of_sets = brp.num_of_sets
  PROVE  (\E x, y, z \in Blocks : Fit(x, y, z)) => (\E x, y, z \in Blocks : Fit(x, y, z))'
<1>1. Same /\ Blocks' = Blocks /\ \A t : Into(t)' = Into(t)
  BY InputStays, BlocksKept DEF SplittersKept
<1>2. \A t : Splitter(t)' = Splitter(t)
  BY DEF Splitter, SplittersKept
<1>3. Marks(trp)' = Marks(trp) /\ moved' = moved /\ Busy' = Busy
  BY DEF Marks, SplittersKept, Busy
<1>4. \A t : Sorted(t)' <=> Sorted(t)
  BY <1>1, <1>2, <1>3 DEF Sorted, Same
<1>5. \A t, z : Sorting(t, z)' <=> Sorting(t, z)
  BY <1>1, <1>2, <1>3 DEF Sorting, Same
<1>6. \A x, y, z : Fit(x, y, z) => Fit(x, y, z)'
  BY <1>1, <1>2, <1>3, <1>4, <1>5 DEF Fit, Same, OneBlock
<1> QED BY <1>1, <1>6

\* The letters and the splitters in use keep what is settled.
LEMMA SettledKept ==
  ASSUME UNCHANGED <<input, trp>>, NEW C, NEW t, NEW q,
         Range(unready_spls) \subseteq Range(unready_spls'), Settled(t, q, C)
  PROVE  Settled(t, q, C)'
<1>1. Same
  BY InputStays
<1>2. \A u : Splitter(u)' = Splitter(u)
  BY DEF Splitter
<1>3. Range(unready_spls)' = Range(unready_spls')
  BY DEF Range
<1> QED BY <1>1, <1>2, <1>3 DEF Settled, Same

(* What is one letter remains so.                                          *)
LEMMA OneLetterKept ==
  ASSUME UNCHANGED input, NEW C, OneLetter(C)
  PROVE  OneLetter(C)'
<1>1. Same
  BY InputStays
<1> QED BY <1>1 DEF OneLetter, Same

-----------------------------------------------------------------------------
\* The initial state.

(* The first element marked in a set puts it on the stack.                 *)
LEMMA Touching ==
  ASSUME NEW n \in Nat, NEW p, Represents(p, n), NEW e \in 0..n-1,
         NEW s, s \in Seq(0..p.num_of_sets-1), NEW s2,
         s2 = IF has_no_marks(p, p.set_idx[e]) THEN Append(s, p.set_idx[e]) ELSE s,
         \A u \in Marks(p) : p.set_idx[u] \in Range(s)
  PROVE  /\ s2 \in Seq(0..p.num_of_sets-1)
         /\ \A u \in Marks(mark(p, e)) : p.set_idx[u] \in Range(s2)
         /\ s2 # << >>
<1>1. PICK b \in 0..p.num_of_sets-1 : b = p.set_idx[e]
  BY ONLY n \in Nat, Represents(p, n), e \in 0..n-1, PlaceOf
<1>2. Marks(mark(p, e)) = Marks(p) \cup {e}
  BY MarkMeans
<1>3. CASE has_no_marks(p, b)
  <2>1. s2 = Append(s, b)
    BY <1>1, <1>3
  <2>2. /\ s2 \in Seq(0..p.num_of_sets-1) /\ Range(s2) = Range(s) \cup {b}
        /\ Len(s2) = Len(s) + 1 /\ Len(s) \in Nat
    <3>1. PICK D : D = 0..p.num_of_sets-1
      OBVIOUS
    <3>2. b \in D /\ s \in Seq(D)
      BY <1>1, <3>1
    <3>3. /\ Append(s, b) \in Seq(D) /\ Range(Append(s, b)) = Range(s) \cup {b}
          /\ Len(Append(s, b)) = Len(s) + 1 /\ Len(s) \in Nat
      BY ONLY <3>2, AppendTo, LenProperties
    <3> QED BY ONLY <2>1, <3>1, <3>3
  <2>3. s2 # << >>
    BY <2>2, EmptySeq
  <2> QED BY <1>1, <1>2, <2>2, <2>3
<1>4. CASE ~has_no_marks(p, b)
  <2>1. s2 = s
    BY <1>1, <1>4
  <2>2. PICK u \in 0..n-1 : p.set_idx[u] = b /\ u \in Marks(p)
    BY ONLY n \in Nat, Represents(p, n), <1>1, <1>4, NoMarksMeans
  <2>3. b \in Range(s)
    BY <2>2
  <2>4. s # << >>
    <3>1. PICK i \in 1..Len(s) : b = s[i]
      BY <2>3, InRange
    <3> QED BY <3>1, EmptySeq
  <2> QED BY <1>1, <1>2, <2>1, <2>3, <2>4
<1> QED BY <1>3, <1>4

(* A symbol's transitions are the splitters of the beginning.              *)
LEMMA InitHolds ==
  ASSUME Init, trans # << >>
  PROVE  HInv
<1>1. Static
  BY Listed DEF Init
<1>2. N \in Nat \ {0} /\ States = 0..N-1
  BY <1>1 DEF Static, States
<1>3. M \in Nat \ {0} /\ Transitions = 0..M-1
  <2>1. M \in Nat \ {0}
    BY <1>1, EmptySeq DEF Static, M
  <2> QED BY <2>1 DEF M, Transitions
<1>4. PICK symbol : symbol = [t \in 0..M-1 |-> trans[t+1][2]]
  OBVIOUS
<1>5. \A t \in Transitions : symbol[t] = Symbol(t) /\ Symbol(t) \in Nat
  BY <1>1, <1>3, <1>4 DEF Static, Symbol
<1>6. symbol \in [0..M-1 -> Nat]
  BY <1>3, <1>4, <1>5
<1>7. trp = of_transitions(symbol) /\ brp = of_states(N)
  BY <1>4 DEF Init, M, N
<1>8. /\ Represents(trp, M) /\ Marks(trp) = {}
      /\ \A t, u \in Transitions : Splitter(t) = Splitter(u) <=> Symbol(t) = Symbol(u)
  <2>1. /\ Represents(of_transitions(symbol), M) /\ Marks(of_transitions(symbol)) = {}
        /\ \A t, u \in 0..M-1 :
             of_transitions(symbol).set_idx[t] = of_transitions(symbol).set_idx[u]
               <=> symbol[t] = symbol[u]
    BY ONLY <1>3, <1>6, TransitionsRepresent
  <2> QED BY <1>3, <1>5, <1>7, <2>1 DEF Splitter
<1>9. Represents(brp, N) /\ brp.num_of_sets = 1 /\ Blocks = {0}
  <2>1. Represents(brp, N)
    BY <1>2, <1>7, StatesRepresent
  <2>2. brp.num_of_sets = 1
    BY <1>7 DEF of_states
  <2> QED BY <2>1, <2>2 DEF Blocks
<1>10. \A q \in States : Block(q) = 0
  BY <1>2, <1>7 DEF of_states, Block
<1>11. Marks(brp) = {}
  <2>1. ASSUME NEW q \in 0..N-1 PROVE ~(brp.location[q] < brp.mid[brp.set_idx[q]])
    BY <1>2, <1>7 DEF of_states
  <2>2. DOMAIN brp.set_idx = 0..N-1
    BY <1>7 DEF of_states
  <2> QED BY <2>1, <2>2 DEF Marks
<1>12. trp.num_of_sets \in Nat \ {0} /\ \A t \in Transitions : Splitter(t) \in Splitters
  <2>1. trp.num_of_sets \in 1..M
    BY <1>3, <1>8, Vectors DEF Represents
  <2>2. ASSUME NEW t \in Transitions PROVE trp.set_idx[t] \in 0..trp.num_of_sets-1
    BY ONLY t \in Transitions, <1>3, <1>8, PlaceOf
  <2> QED BY <2>1, <2>2, <1>3 DEF Splitter, Splitters
<1>13. /\ unready_spls \in Seq(Splitters)
       /\ \A s \in Splitters : s \in Range(unready_spls)
  <2>1. PICK c \in Nat : c = trp.num_of_sets
    BY <1>12
  <2>2. unready_spls = [k \in 1..c |-> k-1] /\ Splitters = 0..c-1
    BY <2>1 DEF Init, Splitters
  <2>3. unready_spls \in [1..c -> Splitters]
    BY <2>2
  <2>4. \A s \in Splitters : s+1 \in 1..c /\ unready_spls[s+1] = s
    BY <2>2
  <2> QED BY <2>2, <2>3, <2>4 DEF Range
<1>14. Typed
  <2>1. << >> \in Seq(Splitters) /\ << >> \in Seq(Blocks) /\ << >> \in Seq(Transitions)
    BY EmptySeq
  <2>2. dfa.final \in SUBSET dfa.final
    OBVIOUS
  <2> QED BY <1>8, <1>9, <1>13, <2>1, <2>2 DEF Typed, Init, Splitters, Blocks, M
<1>15. ~Busy /\ pc = "final" /\ trans_idx = NO_MORE_ELEMENTS /\ touched_blocks = << >>
       /\ moved = << >> /\ touched_spls = << >>
  BY DEF Busy, Init
<1>16. Touched
  BY <1>8, <1>15 DEF Touched
<1>17. AtFirst
  <2>1. dfa.final \ unmarked = {}
    BY DEF Init
  <2> QED BY <1>9, <1>11, <1>12, <1>13, <1>15, <2>1 DEF AtFirst
<1>18. Fit(0, 0, 0)
  <2>1. \A t \in Transitions : Into(t) = 0
    BY <1>1, <1>10 DEF Into, Block, Static
  <2>2. \A t, u \in Transitions :
       /\ Splitter(t) = Splitter(u) =>
            Symbol(t) = Symbol(u) /\ OneBlock(Into(t), Into(u), 0, 0)
       /\ Symbol(t) = Symbol(u) /\ Into(t) = Into(u) => Splitter(t) = Splitter(u)
    BY <1>8, <2>1 DEF OneBlock
  <2>3. Range(moved) = {}
    BY <1>15 DEF Range
  <2>4. \A t \in Transitions : Sorted(t)
    BY <1>8, <2>1, <2>3 DEF Sorted
  <2> QED BY <1>15, <2>2, <2>4 DEF Fit
<1>19. Coarse /\ Uniform
  BY <1>10, <1>15 DEF Coarse, Uniform
<1>20. Current({})
  <2>1. OneLetter({})
    BY DEF OneLetter, Sources
  <2>2. Firing({})
    BY <1>15 DEF Firing
  <2>3. \A t \in Transitions : \A q : Settled(t, q, {})
    BY <1>12, <1>13 DEF Settled
  <2> QED BY <1>15, <2>1, <2>2, <2>3 DEF Current
<1> QED BY <1>9, <1>14, <1>16, <1>17, <1>18, <1>19, <1>20 DEF HInv

-----------------------------------------------------------------------------
\* The steps.

(* MarkFinal keeps the invariant: it only marks.                           *)
LEMMA MarkFinalKeeps ==
  ASSUME HInv, MarkFinal
  PROVE  HInv'
<1>1. Static /\ Parts /\ Typed
  BY PartsHold DEF HInv
<1>2. PICK q \in unmarked : brp' = mark(brp, q) /\ unmarked' = unmarked \ {q}
  BY DEF MarkFinal
<1>3. /\ pc = "final" /\ pc' = pc /\ UNCHANGED <<input, trp, stacks, trans_idx, moved>>
  BY DEF MarkFinal
<1>4. Same
  BY <1>3, InputStays
<1>5. q \in States /\ q \in dfa.final /\ unmarked \subseteq dfa.final
  BY <1>1 DEF Typed, Static
<1>6. /\ Represents(brp', N) /\ brp'.num_of_sets = brp.num_of_sets
      /\ brp'.set_idx = brp.set_idx /\ Marks(brp') = Marks(brp) \cup {q}
  BY <1>1, <1>2, <1>5, MarkMeans DEF Parts
<1>7. UNCHANGED <<unready_spls, touched_blocks, touched_spls>>
  BY <1>3 DEF stacks
<1>8. \A t : Splitter(t)' = Splitter(t)
  BY <1>3 DEF Splitter
<1>9. \A p : Block(p)' = Block(p)
  BY <1>6 DEF Block
<1>10. Busy' = Busy
  BY <1>3, <1>7 DEF Busy
<1>11. Typed'
  <2>1. unmarked' \in SUBSET dfa.final
    BY <1>2, <1>5
  <2> QED BY <1>1, <1>3, <1>4, <1>6, <1>7, <2>1 DEF Typed, Same, transitions, StatesOf
<1>12. Touched'
  BY <1>3, <1>4, <1>7, <1>8, <1>10 DEF HInv, Touched, Same
<1>13. AtFirst'
  <2>1. Marks(brp)' = Marks(brp')
    BY DEF Marks
  <2>2. Marks(brp') = dfa.final \ unmarked'
    BY <1>2, <1>3, <1>5, <1>6 DEF HInv, AtFirst
  <2> QED BY <1>3, <1>4, <1>6, <1>7, <1>8, <1>10, <2>1, <2>2 DEF HInv, AtFirst, Same
<1>14. (\E x, y, z \in Blocks : Fit(x, y, z))'
  BY <1>3, <1>6, <1>7, FitKept DEF HInv, SplittersKept
<1>15. Coarse' /\ Uniform'
  BY <1>3, <1>6, BlocksKept DEF HInv
<1>16. (\E C \in SUBSET Transitions : Current(C))'
  <2>1. PICK C \in SUBSET Transitions : Current(C)
    BY DEF HInv
  <2>2. OneLetter(C)'
    BY <1>3, <2>1, OneLetterKept DEF Current
  <2>3. Firing(C)'
    BY <1>3, <1>4 DEF HInv, AtFirst, Firing, Same
  <2>4. \A t, p : Settled(t, p, C) => Settled(t, p, C)'
    BY <1>3, <1>7, SettledKept
  <2>5. Current(C)'
    BY <1>3, <1>4, <1>9, <2>1, <2>2, <2>3, <2>4 DEF Current, Same
  <2> QED BY <1>4, <2>5 DEF Same
<1> QED BY <1>11, <1>12, <1>13, <1>14, <1>15, <1>16 DEF HInv

\* Sources of one block are all sources of C, or none is: what has been fired.
Even(C) == \A p, q \in States : Block(p) = Block(q) /\ p \in Sources(C) => q \in Sources(C)

(* When nothing is touched, blocks are even.                               *)
LEMMA NowEven ==
  ASSUME Touched, Parts, pc # "final", touched_blocks = << >>,
         NEW C, \A b \in Blocks : Fired(C, b)
  PROVE  Even(C) /\ \A q \in States : q \notin Marks(brp)
<1>1. Range(touched_blocks) = {}
  BY DEF Range
<1>2. \A q \in States : q \notin Marks(brp)
  BY <1>1 DEF Touched
<1>3. ASSUME NEW p \in States, NEW q \in States, Block(p) = Block(q), p \in Sources(C)
      PROVE  q \in Sources(C)
  <2>1. PICK b \in Blocks : b = Block(p)
    BY DEF Parts
  <2> QED BY <1>2, <1>3, <2>1 DEF Fired
<1> QED BY <1>2, <1>3 DEF Even

(* Then the splitter in use tells no two transitions apart any more.       *)
LEMMA SettledByOthers ==
  ASSUME Static, NEW C, OneLetter(C), Even(C), NEW t \in Transitions, NEW q \in States,
         Block(q) = Block(source(t)), Settled(t, q, C)
  PROVE  \/ \E u \in Beside(t, q) : Splitter(u) = Splitter(t)
         \/ \E u \in Beside(t, q) \cup {t} : Splitter(u) \in Range(unready_spls)
<1>1. source(t) \in States /\ C \subseteq Transitions
  BY DEF Static, OneLetter
<1>2. ASSUME t \in C PROVE \E u \in Beside(t, q) : u \in C
  <2>1. source(t) \in Sources(C)
    BY <1>2 DEF Sources
  <2>2. q \in Sources(C)
    BY <1>1, <2>1 DEF Even
  <2>3. PICK u \in C : source(u) = q
    BY <2>2 DEF Sources
  <2> QED BY <1>1, <1>2, <2>3 DEF OneLetter, Beside
<1>3. ASSUME NEW u \in Beside(t, q), u \in C PROVE t \in C
  <2>1. source(u) = q /\ Symbol(u) = Symbol(t) /\ u \in Transitions
    BY DEF Beside
  <2>2. q \in Sources(C)
    BY <1>3, <2>1 DEF Sources
  <2>3. source(t) \in Sources(C)
    BY <1>1, <2>2 DEF Even
  <2>4. PICK v \in C : source(v) = source(t)
    BY <2>3 DEF Sources
  <2>5. Symbol(v) = Symbol(u) /\ v \in Transitions
    BY <1>1, <1>3, <2>4 DEF OneLetter
  <2>6. v = t
    BY <2>1, <2>4, <2>5 DEF Static
  <2> QED BY <2>4, <2>6
<1> QED BY <1>2, <1>3 DEF Settled

(* The transitions of a splitter are over one symbol, and states with the  *)
(* same words are both their sources.                                      *)
LEMMA SplitterOneLetter ==
  ASSUME HInv, ~Busy, NEW s
  PROVE  OneLetter({t \in Transitions : Splitter(t) = s})
<1>1. Static /\ Typed
  BY PartsHold DEF HInv
<1>2. PICK C : C = {t \in Transitions : Splitter(t) = s}
  OBVIOUS
<1>3. PICK x \in Blocks, y \in Blocks, z \in Blocks : Fit(x, y, z)
  BY DEF HInv
<1>4. \A t, u \in C : Symbol(t) = Symbol(u)
  BY <1>2, <1>3 DEF Fit
<1>5. ASSUME NEW p \in States, NEW q \in States, Residual(p) = Residual(q), p \in Sources(C)
      PROVE  q \in Sources(C)
  <2>1. PICK t \in C : source(t) = p
    BY <1>5 DEF Sources
  <2>2. t \in Transitions /\ Splitter(t) = s
    BY <1>2
  <2>3. PICK u \in Transitions : /\ source(u) = q /\ Symbol(u) = Symbol(t)
                                 /\ Residual(target(u)) = Residual(target(t))
    BY <1>1, <1>5, <2>1, <2>2, Congruence DEF Typed
  <2>4. Into(u) = Into(t)
    BY <1>1, <2>2, <2>3 DEF HInv, Coarse, Static, Into, Block
  <2>5. Splitter(u) = Splitter(t)
    BY <1>3, <2>2, <2>3, <2>4 DEF Fit
  <2>6. u \in C
    BY <1>2, <2>2, <2>5
  <2> QED BY <2>3, <2>6 DEF Sources
<1> QED BY <1>2, <1>4, <1>5 DEF OneLetter

(* TakeSplitter keeps the invariant: what the splitter tells apart is told *)
(* apart by the transitions now in use.                                    *)
LEMMA TakeSplitterKeeps ==
  ASSUME HInv, TakeSplitter
  PROVE  HInv'
<1>1. Static /\ Parts /\ Typed
  BY PartsHold DEF HInv
<1>2. PICK s : s = Last(unready_spls)
  OBVIOUS
<1>3. /\ pc = "main" /\ trans_idx = NO_MORE_ELEMENTS
      /\ moved = << >> /\ touched_spls = << >> /\ touched_blocks = << >>
      /\ unready_spls # << >> /\ unready_spls' = Front(unready_spls)
      /\ trans_idx' = get_first(trp, s)
      /\ UNCHANGED <<input, brp, trp, touched_blocks, touched_spls, moved, unmarked, pc>>
  BY <1>2 DEF TakeSplitter, between
<1>4. Same
  BY <1>3, InputStays
<1>5. /\ unready_spls' \in Seq(Splitters) /\ s \in Splitters
      /\ Range(unready_spls) = Range(unready_spls') \cup {s}
  <2>1. unready_spls \in Seq(Splitters)
    BY <1>1 DEF Typed, Splitters
  <2> QED BY <1>2, <1>3, <2>1, FrontOf
<1>6. /\ trans_idx' \in Transitions /\ Splitter(trans_idx') = s
      /\ \A t \in Transitions : Splitter(t) = s => trp.location[trans_idx'] <= trp.location[t]
  <2>1. M \in Nat /\ Represents(trp, M) /\ s \in 0..trp.num_of_sets-1 /\ Transitions = 0..M-1
    BY <1>1, <1>5 DEF Parts, Splitters
  <2>2. /\ get_first(trp, s) \in 0..M-1 /\ trp.set_idx[get_first(trp, s)] = s
        /\ \A e \in 0..M-1 : trp.set_idx[e] = s => trp.location[get_first(trp, s)] <= trp.location[e]
    BY ONLY <2>1, FirstOf
  <2> QED BY <1>3, <2>1, <2>2 DEF Splitter
<1>7. trans_idx' # NO_MORE_ELEMENTS
  BY <1>1, <1>6 DEF Parts, NO_MORE_ELEMENTS
<1>8. ~Busy /\ Busy' = Busy
  BY <1>3 DEF Busy
<1>9. (\A t : Splitter(t)' = Splitter(t)) /\ (\A q : Block(q)' = Block(q)) /\ Blocks' = Blocks
  BY <1>3 DEF Splitter, Block, Blocks
<1>10. Marks(trp)' = Marks(trp) /\ Marks(brp)' = Marks(brp)
  BY <1>3 DEF Marks
<1>11. Typed'
  BY <1>1, <1>3, <1>4, <1>5, <1>6 DEF Typed, Same, transitions, StatesOf, Splitters
<1>12. Touched'
  BY <1>3, <1>4, <1>8, <1>9, <1>10 DEF HInv, Touched, Same
<1>13. AtFirst'
  BY <1>3 DEF AtFirst
<1>14. (\E x, y, z \in Blocks : Fit(x, y, z))'
  BY <1>3, FitKept DEF HInv, SplittersKept
<1>15. Coarse' /\ Uniform'
  BY <1>3, BlocksKept DEF HInv
<1>16. PICK C \in SUBSET Transitions : Current(C)
  BY DEF HInv
<1>17. Even(C) /\ (\A q \in States : q \notin Marks(brp)) /\ OneLetter(C)
  BY <1>1, <1>3, <1>16, NowEven DEF HInv, Current
<1>18. PICK D : D = {t \in Transitions : Splitter(t) = s}
  OBVIOUS
<1>19. OneLetter(D)'
  BY <1>3, <1>8, <1>18, SplitterOneLetter, OneLetterKept
<1>20. Firing(D)'
  <2>1. D = {t \in Transitions : Splitter(t) = Splitter(trans_idx')}
    BY <1>6, <1>18
  <2>2. ASSUME NEW t \in D PROVE ~(trp.location[t] < trp.location[trans_idx'])
    <3>1. trp.location[t] \in Nat /\ trp.location[trans_idx'] \in Nat
      BY <1>1, <1>6, <1>18, PlacesDiffer DEF Parts
    <3> QED BY <1>6, <1>18, <3>1
  <2>3. D = {t \in Transitions : Splitter(t)' = Splitter(trans_idx)'}
    BY <1>3, <2>1 DEF Splitter
  <2> QED BY <1>3, <1>4, <1>10, <1>17, <2>2, <2>3 DEF Firing, Same
<1>21. ASSUME NEW t \in Transitions, NEW q \in States, Block(q) = Block(source(t))
       PROVE  Settled(t, q, D)'
  <2>1. \/ \E u \in Beside(t, q) : Splitter(u) = Splitter(t)
        \/ \E u \in Beside(t, q) \cup {t} : Splitter(u) \in Range(unready_spls)
    BY <1>1, <1>16, <1>17, <1>21, SettledByOthers DEF Current
  <2>2. \A u \in Beside(t, q) : u \in Transitions
    BY DEF Beside
  <2>3. \/ \E u \in Beside(t, q) : Splitter(u) = Splitter(t)
        \/ \E u \in Beside(t, q) \cup {t} : Splitter(u) \in Range(unready_spls')
        \/ t \in D /\ \A u \in Beside(t, q) : u \notin D
        \/ t \notin D /\ \E u \in Beside(t, q) : u \in D
    BY <1>5, <1>18, <2>1, <2>2
  <2>4. Range(unready_spls)' = Range(unready_spls')
    OBVIOUS
  <2> QED BY <1>4, <1>9, <2>3, <2>4 DEF Settled, Same
<1>22. Current(D)'
  BY <1>3, <1>4, <1>7, <1>9, <1>19, <1>20, <1>21 DEF Current, Same
<1>23. (\E E \in SUBSET Transitions : Current(E))'
  BY <1>4, <1>18, <1>22 DEF Same
<1> QED BY <1>11, <1>12, <1>13, <1>14, <1>15, <1>23 DEF HInv

(* FireBack keeps the invariant: it marks the sources one by one.          *)
LEMMA FireBackKeeps ==
  ASSUME HInv, FireBack
  PROVE  HInv'
<1>1. Static /\ Parts /\ Typed
  BY PartsHold DEF HInv
<1>2. PICK t \in Transitions : t = trans_idx
  BY <1>1 DEF FireBack, Typed
<1>3. PICK p \in States : p = source(t)
  BY <1>1 DEF Static
<1>4. /\ trans_idx # NO_MORE_ELEMENTS
      /\ touched_blocks' = IF has_no_marks(brp, brp.set_idx[p])
                           THEN Append(touched_blocks, brp.set_idx[p]) ELSE touched_blocks
      /\ brp' = mark(brp, p) /\ trans_idx' = get_next(trp, t)
      /\ UNCHANGED <<input, trp, unready_spls, touched_spls, moved, unmarked, pc>>
  BY <1>2, <1>3 DEF FireBack
<1>5. Same
  BY <1>4, InputStays
<1>6. pc # "done" /\ pc # "final" /\ ~Busy
  BY <1>4 DEF HInv, Touched, AtFirst
<1>7. /\ Represents(brp', N) /\ brp'.num_of_sets = brp.num_of_sets
      /\ brp'.set_idx = brp.set_idx /\ Marks(brp') = Marks(brp) \cup {p}
  <2>1. N \in Nat /\ Represents(brp, N) /\ p \in 0..N-1
    BY <1>1 DEF Parts
  <2>2. brp' = mark(brp, p)
    BY <1>4
  <2> QED BY ONLY <2>1, <2>2, MarkMeans
<1>8. /\ touched_blocks' \in Seq(Blocks)
      /\ \A q \in States : q \in Marks(brp') => Block(q) \in Range(touched_blocks')
  <2>1. N \in Nat /\ Represents(brp, N) /\ p \in 0..N-1
    BY <1>1 DEF Parts
  <2>2. touched_blocks \in Seq(0..brp.num_of_sets-1)
    BY <1>1 DEF Typed
  <2>3. \A u \in Marks(brp) : brp.set_idx[u] \in Range(touched_blocks)
    <3>1. Marks(brp) \subseteq States
      BY <1>1, MarksOf DEF Parts
    <3> QED BY <1>6, <3>1 DEF HInv, Touched, Block
  <2>4. /\ touched_blocks' \in Seq(0..brp.num_of_sets-1)
        /\ \A u \in Marks(mark(brp, p)) : brp.set_idx[u] \in Range(touched_blocks')
    BY ONLY <1>4, <2>1, <2>2, <2>3, Touching
  <2> QED BY <1>4, <2>4 DEF Blocks, Block
<1>9. \/ /\ trans_idx' = NO_MORE_ELEMENTS
         /\ \A u \in Transitions : Splitter(u) = Splitter(t) => trp.location[u] <= trp.location[t]
      \/ /\ trans_idx' \in Transitions /\ Splitter(trans_idx') = Splitter(t)
         /\ trp.location[trans_idx'] = trp.location[t] + 1
  <2>1. M \in Nat /\ Represents(trp, M) /\ t \in 0..M-1 /\ Transitions = 0..M-1
    BY <1>1 DEF Parts
  <2>2. \/ /\ get_next(trp, t) = NO_MORE_ELEMENTS
           /\ \A u \in 0..M-1 : trp.set_idx[u] = trp.set_idx[t] => trp.location[u] <= trp.location[t]
        \/ /\ get_next(trp, t) \in 0..M-1 /\ trp.set_idx[get_next(trp, t)] = trp.set_idx[t]
           /\ trp.location[get_next(trp, t)] = trp.location[t] + 1
    BY ONLY <2>1, NextOf
  <2> QED BY <1>4, <2>1, <2>2 DEF Splitter
<1>10. (\A u : Splitter(u)' = Splitter(u)) /\ (\A q : Block(q)' = Block(q)) /\ Blocks' = Blocks
  BY <1>4, <1>7 DEF Splitter, Block, Blocks
<1>11. Marks(trp)' = Marks(trp) /\ Marks(brp)' = Marks(brp') /\ Busy' = Busy
  BY <1>4 DEF Marks, Busy
<1>12. Typed'
  BY <1>1, <1>4, <1>5, <1>7, <1>8, <1>9 DEF Typed, Same, transitions, StatesOf, Blocks
<1>13. Touched'
  <2>1. Range(touched_blocks)' = Range(touched_blocks')
    OBVIOUS
  <2> QED BY <1>4, <1>5, <1>6, <1>8, <1>10, <1>11, <2>1 DEF HInv, Touched, Same
<1>14. AtFirst'
  BY <1>4, <1>6 DEF AtFirst
<1>15. (\E x, y, z \in Blocks : Fit(x, y, z))'
  BY <1>4, <1>7, FitKept DEF HInv, SplittersKept
<1>16. Coarse' /\ Uniform'
  BY <1>4, <1>7, BlocksKept DEF HInv
<1>17. PICK C \in SUBSET Transitions : Current(C)
  BY DEF HInv
<1>18. /\ C = {u \in Transitions : Splitter(u) = Splitter(t)}
       /\ \A q \in States : q \in Marks(brp) <=>
            \E u \in C : trp.location[u] < trp.location[t] /\ source(u) = q
  BY <1>2, <1>4, <1>17 DEF Current, Firing
<1>19. \A u \in C : /\ trp.location[u] \in Nat /\ trp.location[t] \in Nat
                    /\ trp.location[u] = trp.location[t] => u = t
  BY <1>1, <1>17, PlacesDiffer DEF Parts
<1>20. \A q \in States : q \in Marks(brp') <=>
         \E u \in C : trp.location[u] <= trp.location[t] /\ source(u) = q
  <2> TAKE q \in States
  <2>1. q \in Marks(brp') <=> q \in Marks(brp) \/ q = p
    BY <1>7
  <2>2. t \in C
    BY <1>18
  <2> QED BY <1>3, <1>18, <1>19, <2>1, <2>2
<1>21. Firing(C)'
  <2> SUFFICES ASSUME trans_idx' # NO_MORE_ELEMENTS
               PROVE  /\ C = {u \in Transitions : Splitter(u) = Splitter(trans_idx')}
                      /\ \A q \in States : q \in Marks(brp') <=>
                           \E u \in C : trp.location[u] < trp.location[trans_idx'] /\ source(u) = q
    BY <1>4, <1>5, <1>10, <1>11 DEF Firing, Same, Splitter
  <2>1. Splitter(trans_idx') = Splitter(t) /\ trp.location[trans_idx'] = trp.location[t] + 1
    BY <1>9
  <2>2. \A u \in C : trp.location[u] <= trp.location[t] <=> trp.location[u] < trp.location[trans_idx']
    BY <1>19, <2>1
  <2> QED BY <1>18, <1>20, <2>1, <2>2
<1>22. (trans_idx = NO_MORE_ELEMENTS => \A b \in Blocks : Fired(C, b))'
  <2> SUFFICES ASSUME trans_idx' = NO_MORE_ELEMENTS, NEW b \in Blocks PROVE Fired(C, b)'
    BY <1>10
  <2>1. \A u \in C : trp.location[u] <= trp.location[t]
    <3>1. NO_MORE_ELEMENTS \notin Transitions
      BY <1>1 DEF Parts, NO_MORE_ELEMENTS
    <3> QED BY <1>9, <1>18, <3>1
  <2>2. \A q \in States : q \in Marks(brp') <=> q \in Sources(C)
    BY <1>20, <2>1 DEF Sources
  <2> QED BY <1>5, <1>11, <2>2 DEF Fired, Same
<1>23. Current(C)'
  <2>1. OneLetter(C)'
    BY <1>4, <1>17, OneLetterKept DEF Current
  <2>2. \A u, q : Settled(u, q, C) => Settled(u, q, C)'
    BY <1>4, SettledKept
  <2> QED BY <1>5, <1>10, <1>17, <1>21, <1>22, <2>1, <2>2 DEF Current, Same
<1>24. (\E D \in SUBSET Transitions : Current(D))'
  BY <1>5, <1>23 DEF Same
<1> QED BY <1>12, <1>13, <1>14, <1>15, <1>16, <1>24 DEF HInv

(* Finish keeps the invariant.                                             *)
LEMMA FinishKeeps ==
  ASSUME HInv, Finish
  PROVE  HInv'
<1>1. /\ pc = "main" /\ pc' = "done" /\ trans_idx = NO_MORE_ELEMENTS
      /\ moved = << >> /\ touched_spls = << >> /\ touched_blocks = << >> /\ unready_spls = << >>
      /\ UNCHANGED <<input, brp, trp, stacks, trans_idx, moved, unmarked>>
  BY DEF Finish, between
<1>2. UNCHANGED <<unready_spls, touched_blocks, touched_spls>>
  BY <1>1 DEF stacks
<1>3. Same
  BY <1>1, InputStays
<1>4. (\A t : Splitter(t)' = Splitter(t)) /\ (\A q : Block(q)' = Block(q)) /\ Blocks' = Blocks
  BY <1>1 DEF Splitter, Block, Blocks
<1>5. Marks(trp)' = Marks(trp) /\ Marks(brp)' = Marks(brp) /\ Busy' = Busy /\ ~Busy
  BY <1>1, <1>2 DEF Marks, Busy
<1>6. Typed'
  BY <1>1, <1>2, <1>3 DEF HInv, Typed, Same, transitions, StatesOf
<1>7. Touched'
  BY <1>1, <1>2, <1>3, <1>4, <1>5 DEF HInv, Touched, Same
<1>8. AtFirst'
  BY <1>1 DEF AtFirst
<1>9. (\E x, y, z \in Blocks : Fit(x, y, z))'
  BY <1>1, <1>2, FitKept DEF HInv, SplittersKept
<1>10. Coarse' /\ Uniform'
  BY <1>1, BlocksKept DEF HInv
<1>11. PICK C \in SUBSET Transitions : Current(C)
  BY DEF HInv
<1>12. Current(C)'
  <2>1. OneLetter(C)'
    BY <1>1, <1>11, OneLetterKept DEF Current
  <2>2. \A t, p : Settled(t, p, C) => Settled(t, p, C)'
    BY <1>1, <1>2, SettledKept
  <2>3. Firing(C)'
    BY <1>1 DEF Firing
  <2>4. \A b \in Blocks : Fired(C, b)'
    BY <1>1, <1>3, <1>4, <1>5, <1>11 DEF Current, Fired, Same
  <2> QED BY <1>1, <1>3, <1>4, <1>11, <2>1, <2>2, <2>3, <2>4 DEF Current, Same
<1>13. (\E D \in SUBSET Transitions : Current(D))'
  BY <1>3, <1>12 DEF Same
<1> QED BY <1>6, <1>7, <1>8, <1>9, <1>10, <1>13 DEF HInv

(* MarkMoved keeps the invariant: it marks what was to be marked.          *)
LEMMA MarkMovedKeeps ==
  ASSUME HInv, MarkMoved
  PROVE  HInv'
<1>1. Static /\ Parts /\ Typed
  BY PartsHold DEF HInv
<1>2. PICK h : h = Head(moved)
  OBVIOUS
<1>3. /\ moved # << >> /\ moved' = Tail(moved) /\ trp' = mark(trp, h)
      /\ touched_spls' = IF has_no_marks(trp, trp.set_idx[h])
                         THEN Append(touched_spls, trp.set_idx[h]) ELSE touched_spls
      /\ UNCHANGED <<input, brp, unready_spls, touched_blocks, trans_idx, unmarked, pc>>
  BY <1>2 DEF MarkMoved
<1>4. Same
  BY <1>3, InputStays
<1>5. /\ h \in Transitions /\ moved' \in Seq(Transitions)
      /\ Range(moved) = Range(moved') \cup {h}
  <2>1. moved \in Seq(Transitions)
    BY <1>1 DEF Typed
  <2>2. PICK n \in Nat \ {0} : n = Len(moved)
    BY <1>3, <2>1, EmptySeq
  <2>3. /\ h \in Transitions /\ moved' \in Seq(Transitions) /\ Len(moved') = n-1
        /\ \A i \in 1..n-1 : moved'[i] = moved[i+1]
    BY <1>2, <1>3, <2>1, <2>2, HeadTailProperties
  <2>4. moved[1] = h
    BY <1>2, <2>1, <2>2
  <2>5. ASSUME NEW x \in Range(moved) PROVE x \in Range(moved') \cup {h}
    <3>1. PICK i \in 1..n : x = moved[i]
      BY <2>1, <2>2, InRange
    <3>2. CASE i = 1
      BY <2>4, <3>1, <3>2
    <3>3. CASE i # 1
      <4>1. i-1 \in 1..n-1 /\ (i-1)+1 = i
        BY <3>3
      <4>2. moved'[i-1] = x
        BY <2>3, <3>1, <4>1
      <4> QED BY <2>2, <2>3, <4>1, <4>2, InRange
    <3> QED BY <3>2, <3>3
  <2>6. ASSUME NEW x \in Range(moved') PROVE x \in Range(moved)
    <3>1. PICK i \in 1..n-1 : x = moved'[i]
      BY <2>2, <2>3, InRange
    <3>2. x = moved[i+1] /\ i+1 \in 1..n
      BY <2>3, <3>1
    <3> QED BY <2>1, <2>2, <3>2, InRange
  <2>7. h \in Range(moved)
    BY <2>1, <2>2, <2>4, InRange
  <2>8. Range(moved) = Range(moved') \cup {h}
    BY ONLY <2>5, <2>6, <2>7
  <2> QED BY <2>3, <2>8
<1>6. /\ Represents(trp', M) /\ trp'.num_of_sets = trp.num_of_sets
      /\ trp'.set_idx = trp.set_idx /\ Marks(trp') = Marks(trp) \cup {h}
  <2>1. M \in Nat /\ Represents(trp, M) /\ h \in 0..M-1
    BY <1>1, <1>5 DEF Parts
  <2>2. trp' = mark(trp, h)
    BY <1>3
  <2> QED BY ONLY <2>1, <2>2, MarkMeans
<1>7. Busy /\ pc # "done" /\ pc # "final" /\ trans_idx = NO_MORE_ELEMENTS
  BY <1>3 DEF HInv, Touched, AtFirst, Busy
<1>8. /\ touched_spls' \in Seq(Splitters) /\ touched_spls' # << >>
      /\ \A t \in Transitions : t \in Marks(trp') => Splitter(t) \in Range(touched_spls')
  <2>1. M \in Nat /\ Represents(trp, M) /\ h \in 0..M-1
    BY <1>1, <1>5 DEF Parts
  <2>2. touched_spls \in Seq(0..trp.num_of_sets-1)
    BY <1>1 DEF Typed
  <2>3. \A u \in Marks(trp) : trp.set_idx[u] \in Range(touched_spls)
    <3>1. Marks(trp) \subseteq Transitions
      BY <1>1, MarksOf DEF Parts
    <3> QED BY <3>1 DEF HInv, Touched, Splitter
  <2>4. /\ touched_spls' \in Seq(0..trp.num_of_sets-1)
        /\ \A u \in Marks(mark(trp, h)) : trp.set_idx[u] \in Range(touched_spls')
        /\ touched_spls' # << >>
    BY ONLY <1>3, <2>1, <2>2, <2>3, Touching
  <2> QED BY <1>3, <2>4 DEF Splitters, Splitter
<1>9. /\ \A t : Splitter(t)' = Splitter(t)
      /\ \A q : Block(q)' = Block(q)
      /\ Blocks' = Blocks
      /\ \A t : Into(t)' = Into(t)
  BY <1>3, <1>4, <1>6 DEF Splitter, Block, Blocks, Into, Same
<1>10. Marks(trp)' = Marks(trp') /\ Marks(brp)' = Marks(brp) /\ Busy'
  BY <1>3, <1>8 DEF Marks, Busy
<1>11. Typed'
  BY <1>1, <1>3, <1>4, <1>5, <1>6, <1>8 DEF Typed, Same, M, transitions, StatesOf, Splitters
<1>12. Touched'
  <2>1. Range(touched_spls)' = Range(touched_spls')
    OBVIOUS
  <2> QED BY <1>3, <1>4, <1>7, <1>8, <1>9, <1>10, <2>1 DEF HInv, Touched, Same
<1>13. AtFirst'
  BY <1>3, <1>7 DEF AtFirst
<1>14. \A u \in Transitions :
         u \in Marks(trp) \/ u \in Range(moved) <=> u \in Marks(trp') \/ u \in Range(moved')
  BY <1>5, <1>6
<1>15. (\E x, y, z \in Blocks : Fit(x, y, z))'
  <2>1. PICK x \in Blocks, y \in Blocks, z \in Blocks : Fit(x, y, z)
    BY DEF HInv
  <2>2. \A t : Sorted(t) => Sorted(t)'
    BY <1>4, <1>9, <1>10, <1>14 DEF Sorted, Same
  <2>3. \A t : Sorting(t, z) => Sorting(t, z)'
    BY <1>4, <1>9, <1>10, <1>14 DEF Sorting, Same
  <2>4. Fit(x, y, z)'
    BY <1>4, <1>9, <1>10, <2>1, <2>2, <2>3 DEF Fit, Same, OneBlock
  <2> QED BY <1>9, <2>4
<1>16. Coarse' /\ Uniform'
  BY <1>3, BlocksKept DEF HInv
<1>17. PICK C \in SUBSET Transitions : Current(C)
  BY DEF HInv
<1>18. Current(C)'
  <2>1. OneLetter(C)'
    BY <1>3, <1>17, OneLetterKept DEF Current
  <2>2. \A t, p : Settled(t, p, C) => Settled(t, p, C)'
    BY <1>3, <1>4, <1>9 DEF Settled, Same
  <2>3. Firing(C)'
    BY <1>3, <1>7 DEF Firing
  <2>4. \A b \in Blocks : Fired(C, b) => Fired(C, b)'
    BY <1>3, <1>4, <1>9, <1>10 DEF Fired, Same
  <2> QED BY <1>3, <1>4, <1>9, <1>17, <2>1, <2>2, <2>3, <2>4 DEF Current, Same
<1>19. (\E D \in SUBSET Transitions : Current(D))'
  BY <1>4, <1>18 DEF Same
<1> QED BY <1>11, <1>12, <1>13, <1>15, <1>16, <1>19 DEF HInv

(* SplitSplitter keeps the invariant: the halves of a splitter lead into   *)
(* one block each, and the new one is to be used.                          *)
LEMMA SplitSplitterKeeps ==
  ASSUME HInv, SplitSplitter
  PROVE  HInv'
<1>1. Static /\ Parts /\ Typed
  BY PartsHold DEF HInv
<1>2. PICK s, c, new : /\ s = Last(touched_spls) /\ new = trp.num_of_sets
                       /\ c = IF splits(trp, s) THEN new + 1 ELSE new
  OBVIOUS
<1>3. /\ moved = << >> /\ touched_spls # << >> /\ trp' = split(trp, s)
      /\ unready_spls' = IF splits(trp, s) THEN Append(unready_spls, new) ELSE unready_spls
      /\ touched_spls' = Front(touched_spls)
      /\ UNCHANGED <<input, brp, touched_blocks, trans_idx, moved, unmarked, pc>>
  BY <1>2 DEF SplitSplitter
<1>4. Same
  BY <1>3, InputStays
<1>5. /\ touched_spls' \in Seq(Splitters) /\ s \in Splitters
      /\ Range(touched_spls) = Range(touched_spls') \cup {s}
  <2>1. touched_spls \in Seq(Splitters)
    BY <1>1 DEF Typed, Splitters
  <2> QED BY <1>2, <1>3, <2>1, FrontOf
<1>6. /\ Represents(trp', M) /\ trp'.num_of_sets = c
      /\ \A t \in Transitions : Splitter(t)' = IF splits(trp, s) /\ Splitter(t) = s /\ t \in Marks(trp)
                                               THEN new ELSE Splitter(t)
      /\ \A t \in Transitions : t \in Marks(trp') <=> t \in Marks(trp) /\ Splitter(t) # s
  <2>1. M \in Nat /\ Represents(trp, M) /\ s \in 0..trp.num_of_sets-1 /\ Transitions = 0..M-1
    BY <1>1, <1>5 DEF Parts, Splitters
  <2>2. /\ Represents(split(trp, s), M)
        /\ split(trp, s).num_of_sets = IF splits(trp, s) THEN trp.num_of_sets + 1 ELSE trp.num_of_sets
        /\ \A e \in 0..M-1 :
             split(trp, s).set_idx[e] =
               IF splits(trp, s) /\ trp.set_idx[e] = s /\ e \in Marks(trp)
               THEN trp.num_of_sets ELSE trp.set_idx[e]
        /\ \A e \in 0..M-1 :
             e \in Marks(split(trp, s)) <=> e \in Marks(trp) /\ trp.set_idx[e] # s
    BY ONLY <2>1, SplitMeans
  <2> QED BY <1>2, <1>3, <2>1, <2>2 DEF Splitter
<1>7. splits(trp, s) <=> /\ \E t \in Transitions : Splitter(t) = s /\ t \in Marks(trp)
                         /\ \E t \in Transitions : Splitter(t) = s /\ t \notin Marks(trp)
  <2>1. M \in Nat /\ Represents(trp, M) /\ s \in 0..trp.num_of_sets-1 /\ Transitions = 0..M-1
    BY <1>1, <1>5 DEF Parts, Splitters
  <2> QED BY <2>1, SplitsWhere DEF Splitter
<1>8. new \in Nat /\ c \in Nat /\ Splitters = 0..new-1 /\ Splitters \subseteq 0..c-1
      /\ \A t \in Transitions : Splitter(t) \in Splitters /\ Splitter(t) # new
  BY <1>1, <1>2 DEF Parts, Splitters
<1>9. Busy /\ pc # "done" /\ pc # "final" /\ trans_idx = NO_MORE_ELEMENTS
  BY <1>3 DEF HInv, Touched, AtFirst, Busy
<1>10. /\ unready_spls' \in Seq(0..c-1) /\ Range(unready_spls) \subseteq Range(unready_spls')
       /\ splits(trp, s) => new \in Range(unready_spls')
  <2>1. unready_spls \in Seq(0..c-1)
    <3>1. unready_spls \in Seq(Splitters)
      BY <1>1 DEF Typed, Splitters
    <3> QED BY <1>8, <3>1, SeqMonotonic
  <2>2. CASE splits(trp, s)
    <3>1. new \in 0..c-1
      BY <1>2, <1>8, <2>2
    <3>2. unready_spls' = Append(unready_spls, new)
      BY <1>3, <2>2
    <3>3. PICK D : D = 0..c-1
      OBVIOUS
    <3>4. /\ Append(unready_spls, new) \in Seq(D)
          /\ Range(Append(unready_spls, new)) = Range(unready_spls) \cup {new}
      <4>1. unready_spls \in Seq(D) /\ new \in D
        BY ONLY <2>1, <3>1, <3>3
      <4> QED BY ONLY <4>1, AppendTo
    <3> QED BY <3>2, <3>3, <3>4
  <2>3. CASE ~splits(trp, s)
    BY <1>3, <2>1, <2>3
  <2> QED BY <2>2, <2>3
<1>11. touched_spls' \in Seq(0..c-1)
  BY <1>5, <1>8, SeqMonotonic
<1>12. (\A q : Block(q)' = Block(q)) /\ Blocks' = Blocks /\ \A t : Into(t)' = Into(t)
  BY <1>3, <1>4 DEF Block, Blocks, Into, Same
<1>13. Marks(trp)' = Marks(trp') /\ Marks(brp)' = Marks(brp)
  BY <1>3 DEF Marks
<1>14. Typed'
  BY <1>1, <1>3, <1>4, <1>6, <1>10, <1>11 DEF Typed, Same, M, transitions, StatesOf
<1>15. Touched'
  <2>1. Range(touched_spls)' = Range(touched_spls')
    OBVIOUS
  <2>2. \A t \in Transitions : t \in Marks(trp') => Splitter(t)' \in Range(touched_spls')
    BY <1>5, <1>6 DEF HInv, Touched
  <2> QED BY <1>3, <1>4, <1>9, <1>12, <1>13, <2>1, <2>2 DEF HInv, Touched, Same
<1>16. AtFirst'
  BY <1>3, <1>9 DEF AtFirst
<1>17. PICK x \in Blocks, y \in Blocks, z \in Blocks : Fit(x, y, z)
  BY DEF HInv
<1>18. Range(moved) = {} /\ Range(moved') = {}
  BY <1>3 DEF Range
<1>19. /\ z \in {x, y}
       /\ \A t, u \in Transitions :
            /\ Splitter(t) = Splitter(u) =>
                 Symbol(t) = Symbol(u) /\ OneBlock(Into(t), Into(u), x, y)
            /\ Symbol(t) = Symbol(u) /\ Into(t) = Into(u) => Splitter(t) = Splitter(u)
       /\ \A t \in Transitions : Sorted(t) \/ Sorting(t, z)
  BY <1>17 DEF Fit
<1>20. ASSUME NEW t \in Transitions, Sorting(t, z), NEW u \in Transitions, Splitter(u) = Splitter(t)
       PROVE  u \in Marks(trp) <=> Into(u) = z
  BY <1>18, <1>20 DEF Sorting
<1>21. ASSUME NEW t \in Transitions, NEW u \in Transitions, Splitter(t)' = Splitter(u)'
       PROVE  Splitter(t) = Splitter(u) /\ (t \in Marks(trp) /\ Splitter(t) = s <=> u \in Marks(trp) /\ Splitter(u) = s)
  BY <1>6, <1>7, <1>8, <1>21
<1>22. ASSUME NEW t \in Transitions, NEW u \in Transitions, Splitter(t) = Splitter(u),
              t \in Marks(trp) <=> u \in Marks(trp)
       PROVE  Splitter(t)' = Splitter(u)'
  BY <1>6, <1>22
<1>23. ASSUME NEW t \in Transitions, NEW u \in Transitions, Splitter(t) = Splitter(u), Into(t) = Into(u)
       PROVE  t \in Marks(trp) <=> u \in Marks(trp)
  <2>1. CASE Sorted(t)
    BY <1>23, <2>1 DEF Sorted
  <2>2. CASE Sorting(t, z)
    BY <1>20, <1>23, <2>2
  <2> QED BY <1>19, <2>1, <2>2
<1>24. ASSUME NEW t \in Transitions, Sorting(t, z), NEW u \in Transitions, Splitter(u) = Splitter(t),
              t \in Marks(trp) <=> u \in Marks(trp)
       PROVE  Into(u) = Into(t)
  <2>1. Into(u) = z <=> Into(t) = z
    BY <1>20, <1>24
  <2>2. OneBlock(Into(u), Into(t), x, y)
    BY <1>19, <1>24
  <2> QED BY <1>19, <2>1, <2>2 DEF OneBlock
<1>25. ASSUME NEW t \in Transitions, Splitter(t) = s PROVE Sorted(t)'
  <2>1. ASSUME NEW u \in Transitions, Splitter(u)' = Splitter(t)'
        PROVE  Into(u) = Into(t) /\ u \notin Marks(trp')
    <3>1. Splitter(u) = s /\ (t \in Marks(trp) <=> u \in Marks(trp))
      BY <1>21, <1>25, <2>1
    <3>2. CASE Sorted(t)
      BY <1>6, <1>25, <3>1, <3>2 DEF Sorted
    <3>3. CASE Sorting(t, z)
      BY <1>6, <1>24, <1>25, <3>1, <3>3
    <3> QED BY <1>19, <3>2, <3>3
  <2> QED BY <1>4, <1>12, <1>13, <1>18, <2>1 DEF Sorted, Same
<1>26. ASSUME NEW t \in Transitions, Splitter(t) # s PROVE Sorted(t)' \/ Sorting(t, z)'
  <2>1. \A u \in Transitions : Splitter(u)' = Splitter(t)' =>
          Splitter(u) = Splitter(t) /\ (u \in Marks(trp') <=> u \in Marks(trp))
    BY <1>6, <1>21, <1>26
  <2>2. CASE Sorted(t)
    BY <1>4, <1>12, <1>13, <1>18, <2>1, <2>2 DEF Sorted, Same
  <2>3. CASE Sorting(t, z)
    BY <1>4, <1>12, <1>13, <1>18, <2>1, <2>3 DEF Sorting, Same
  <2> QED BY <1>19, <2>2, <2>3
<1>27. ASSUME NEW t \in Transitions, NEW u \in Transitions
       PROVE  /\ Splitter(t)' = Splitter(u)' =>
                   Symbol(t) = Symbol(u) /\ OneBlock(Into(t), Into(u), x, y)
              /\ Symbol(t) = Symbol(u) /\ Into(t) = Into(u) => Splitter(t)' = Splitter(u)'
  BY <1>19, <1>21, <1>22, <1>23
<1>28. (\E v, w, e \in Blocks : Fit(v, w, e))'
  <2>1. CASE Busy'
    <3>1. Fit(x, y, z)'
      BY <1>4, <1>12, <1>19, <1>25, <1>26, <1>27, <2>1 DEF Fit, Same, OneBlock
    <3> QED BY <1>12, <3>1
  <2>2. CASE ~Busy'
    <3>1. touched_spls' = << >>
      BY <2>2 DEF Busy
    <3>2. Range(touched_spls') = {} /\ Range(touched_spls)' = {}
      BY <3>1 DEF Range
    <3>3. \A u \in Transitions : u \notin Marks(trp)'
      BY <1>4, <1>15, <3>2 DEF Touched, Same
    <3>4. ASSUME NEW t \in Transitions, NEW u \in Transitions, Splitter(t)' = Splitter(u)'
          PROVE  Into(t) = Into(u)
      <4>1. CASE Splitter(t) = s
        <5>1. Sorted(t)'
          BY <1>25, <4>1
        <5> QED BY <1>4, <1>12, <3>4, <5>1 DEF Sorted, Same
      <4>2. CASE Splitter(t) # s
        <5>1. Sorted(t)' \/ Sorting(t, z)'
          BY <1>26, <4>2
        <5>2. CASE Sorted(t)'
          BY <1>4, <1>12, <3>4, <5>2 DEF Sorted, Same
        <5>3. CASE Sorting(t, z)'
          <6>1. Range(moved)' = {}
            BY <1>18
          <6>2. Into(t) # z /\ Into(u) # z
            BY <1>4, <1>12, <3>3, <3>4, <5>3, <6>1 DEF Sorting, Same
          <6>3. OneBlock(Into(t), Into(u), x, y)
            BY <1>27, <3>4
          <6> QED BY <1>19, <6>2, <6>3 DEF OneBlock
        <5> QED BY <5>1, <5>2, <5>3
      <4> QED BY <4>1, <4>2
    <3>5. \A t \in Transitions : Sorted(t)'
      <4>1. Range(moved)' = {}
        BY <1>18
      <4> QED BY <1>4, <1>12, <3>3, <3>4, <4>1 DEF Sorted, Same
    <3>6. Fit(z, z, z)'
      BY <1>4, <1>12, <1>27, <3>4, <3>5 DEF Fit, Same, OneBlock
    <3> QED BY <1>12, <3>6
  <2> QED BY <2>1, <2>2
<1>29. Coarse' /\ Uniform'
  BY <1>3, BlocksKept DEF HInv
<1>30. PICK C \in SUBSET Transitions : Current(C)
  BY DEF HInv
<1>31. ASSUME NEW t \in Transitions, NEW q \in States, Settled(t, q, C)
       PROVE  Settled(t, q, C)'
  <2>1. \A u \in Beside(t, q) : u \in Transitions
    BY DEF Beside
  <2>2. Range(unready_spls)' = Range(unready_spls')
    OBVIOUS
  <2>3. ASSUME NEW u \in Beside(t, q), Splitter(u) = Splitter(t)
        PROVE  \/ Splitter(u)' = Splitter(t)'
               \/ Splitter(u)' \in Range(unready_spls')
               \/ Splitter(t)' \in Range(unready_spls')
    BY <1>6, <1>10, <2>1, <2>3
  <2>4. ASSUME NEW u \in Transitions, Splitter(u) \in Range(unready_spls)
        PROVE  Splitter(u)' \in Range(unready_spls')
    BY <1>6, <1>10, <2>4
  <2> QED BY <1>4, <1>31, <2>1, <2>2, <2>3, <2>4 DEF Settled, Same
<1>32. Current(C)'
  <2>1. OneLetter(C)'
    BY <1>3, <1>30, OneLetterKept DEF Current
  <2>2. Firing(C)'
    BY <1>3, <1>9 DEF Firing
  <2>3. \A b \in Blocks : Fired(C, b) => Fired(C, b)'
    BY <1>3, <1>4, <1>12, <1>13 DEF Fired, Same
  <2> QED BY <1>3, <1>4, <1>12, <1>30, <1>31, <2>1, <2>2, <2>3 DEF Current, Same
<1>33. (\E D \in SUBSET Transitions : Current(D))'
  BY <1>4, <1>32 DEF Same
<1> QED BY <1>14, <1>15, <1>16, <1>28, <1>29, <1>33 DEF HInv

(* The transitions into a state are listed.                                *)
LEMMA IncomingAre ==
  ASSUME Static, NEW q
  PROVE  /\ incoming(q) \in Seq(Transitions)
         /\ \A t : t \in Range(incoming(q)) <=> t \in Transitions /\ target(t) = q
<1>1. PICK T : T = {t \in Transitions : target(t) = q}
  OBVIOUS
<1>2. PICK before : before = [t \in T |-> {u \in T : u < t}]
  OBVIOUS
<1>3. incoming(q) = Enumerated(T, before)
  BY <1>1, <1>2 DEF incoming, Transitions
<1>4. M \in Nat /\ Transitions = 0..M-1
  BY LenProperties DEF Static, M, Transitions
<1>5. IsFiniteSet(T) /\ \A t \in T : t \in Int
  <2>1. IsFiniteSet(Transitions)
    BY <1>4, CountBelow
  <2>2. T \in SUBSET Transitions
    BY <1>1
  <2>3. IsFiniteSet(T)
    BY ONLY <2>1, <2>2, FS_Subset
  <2> QED BY <1>4, <2>2, <2>3
<1>6. Ordered(T, before)
  BY <1>2, <1>5 DEF Ordered
<1>7. PICK s : s = incoming(q)
  OBVIOUS
<1>8. /\ s \in Seq(T) /\ Len(s) = Cardinality(T)
      /\ \A t \in T : \E k \in 1..Len(s) : s[k] = t
  BY <1>3, <1>6, <1>7, ListsAll
<1>9. s \in Seq(Transitions)
  BY <1>1, <1>8, SeqMonotonic
<1>10. \A t : t \in Range(s) <=> t \in T
  BY <1>8, InRange
<1> QED BY <1>1, <1>7, <1>9, <1>10

(* split_block(): the marked states of a block become a block, and what is *)
(* to be marked next are the transitions into one of the halves.           *)
LEMMA SplitBlockMeans ==
  ASSUME Static, Parts, UNCHANGED input, NEW b \in Blocks, split_block(b)
  PROVE  /\ Represents(brp', N)
         /\ brp'.num_of_sets = IF splits(brp, b) THEN brp.num_of_sets + 1 ELSE brp.num_of_sets
         /\ \A q \in States : Block(q)' = IF splits(brp, b) /\ Block(q) = b /\ q \in Marks(brp)
                                          THEN brp.num_of_sets ELSE Block(q)
         /\ \A q \in States : q \in Marks(brp') <=> q \in Marks(brp) /\ Block(q) # b
         /\ splits(brp, b) <=> /\ \E q \in States : Block(q) = b /\ q \in Marks(brp)
                               /\ \E q \in States : Block(q) = b /\ q \notin Marks(brp)
         /\ moved' \in Seq(Transitions)
         /\ IF splits(brp, b)
            THEN \E z \in {b, brp.num_of_sets} :
                   \A t \in Transitions : t \in Range(moved') <=> Into(t)' = z
            ELSE moved' = << >>
<1>1. Same
  BY InputStays
<1>2. PICK halves, new, z :
        /\ halves = split(brp, b) /\ new = brp.num_of_sets
        /\ z = IF size_of_set(halves, b) < size_of_set(halves, new) THEN b ELSE new
  OBVIOUS
<1>3. PICK K, into : /\ K = size_of_set(halves, z)
                     /\ into = [k \in 1..K |-> incoming(halves.elems[halves.first[z] + k - 1])]
  OBVIOUS
<1>4. brp' = halves /\ moved' = IF splits(brp, b) THEN FlattenSeq(into) ELSE << >>
  BY <1>2, <1>3 DEF split_block
<1>5. N \in Nat /\ Represents(brp, N) /\ b \in 0..brp.num_of_sets-1 /\ States = 0..N-1
      /\ new \in Nat /\ b \in 0..new-1
  BY <1>2 DEF Parts, Blocks
<1>6. /\ Represents(halves, N)
      /\ halves.num_of_sets = IF splits(brp, b) THEN new + 1 ELSE new
      /\ \A e \in 0..N-1 :
           halves.set_idx[e] = IF splits(brp, b) /\ brp.set_idx[e] = b /\ e \in Marks(brp)
                               THEN new ELSE brp.set_idx[e]
      /\ \A e \in 0..N-1 : e \in Marks(halves) <=> e \in Marks(brp) /\ brp.set_idx[e] # b
  BY ONLY <1>2, <1>5, SplitMeans
<1>7. splits(brp, b) <=> /\ \E q \in States : Block(q) = b /\ q \in Marks(brp)
                         /\ \E q \in States : Block(q) = b /\ q \notin Marks(brp)
  <2>1. splits(brp, b) <=> /\ \E e \in 0..N-1 : brp.set_idx[e] = b /\ e \in Marks(brp)
                           /\ \E e \in 0..N-1 : brp.set_idx[e] = b /\ e \notin Marks(brp)
    BY ONLY <1>5, SplitsWhere
  <2> QED BY <1>5, <2>1 DEF Block
<1>8. \A q \in States : Block(q)' = halves.set_idx[q]
  BY <1>4 DEF Block
<1>9. CASE ~splits(brp, b)
  <2>1. moved' = << >> /\ moved' \in Seq(Transitions)
    BY <1>4, <1>9, EmptySeq
  <2> QED BY <1>2, <1>4, <1>5, <1>6, <1>7, <1>8, <1>9, <2>1 DEF Block
<1>10. CASE splits(brp, b)
  <2>1. z \in 0..halves.num_of_sets-1 /\ z \in {b, new}
    BY <1>2, <1>5, <1>6, <1>10
  <2>2. /\ K \in Nat
        /\ \A k \in 1..K : /\ halves.elems[halves.first[z] + k - 1] \in 0..N-1
                           /\ halves.set_idx[halves.elems[halves.first[z] + k - 1]] = z
        /\ \A e \in 0..N-1 : halves.set_idx[e] = z =>
             \E k \in 1..K : halves.elems[halves.first[z] + k - 1] = e
    BY ONLY <1>3, <1>5, <1>6, <2>1, SetListed
  <2>3. PICK at : at = [k \in 1..K |-> halves.elems[halves.first[z] + k - 1]]
    OBVIOUS
  <2>4. /\ \A k \in 1..K : at[k] \in 0..N-1 /\ halves.set_idx[at[k]] = z
        /\ \A e \in 0..N-1 : halves.set_idx[e] = z => \E k \in 1..K : at[k] = e
        /\ into = [k \in 1..K |-> incoming(at[k])]
    BY ONLY <1>3, <2>2, <2>3
  <2>5. \A k \in 1..K : incoming(at[k]) \in Seq(Transitions)
    BY IncomingAre
  <2>6. into \in [1..K -> Seq(Transitions)]
    BY ONLY <2>4, <2>5
  <2>7. /\ FlattenSeq(into) \in Seq(Transitions)
        /\ \A x : x \in Range(FlattenSeq(into)) <=> \E k \in 1..K : x \in Range(into[k])
    BY ONLY <2>2, <2>6, Flattens
  <2>8. ASSUME NEW t \in Transitions
        PROVE  t \in Range(moved') <=> Into(t)' = z
    <3>1. target(t) \in States /\ target(t)' = target(t)
      BY <1>1 DEF Static, Same
    <3>2. Into(t)' = halves.set_idx[target(t)]
      BY <1>4, <3>1 DEF Into
    <3>3. \A k \in 1..K : t \in Range(into[k]) <=> target(t) = at[k]
      BY <2>4, IncomingAre
    <3>4. t \in Range(moved') <=> \E k \in 1..K : target(t) = at[k]
      BY <1>4, <1>10, <2>7, <3>3
    <3>5. (\E k \in 1..K : target(t) = at[k]) <=> halves.set_idx[target(t)] = z
      BY <1>5, <2>4, <3>1
    <3> QED BY <3>2, <3>4, <3>5
  <2>9. moved' \in Seq(Transitions)
    BY <1>4, <1>10, <2>7
  <2> QED BY <1>2, <1>4, <1>5, <1>6, <1>7, <1>8, <1>10, <2>1, <2>8, <2>9 DEF Block
<1> QED BY <1>9, <1>10

(* After a split the splitters fit to the blocks as they were.             *)
LEMMA SplitFits ==
  ASSUME HInv, ~Busy, NEW b \in Blocks, split_block(b), UNCHANGED <<input, trp, touched_spls>>
  PROVE  (\E x, y, z \in Blocks : Fit(x, y, z))'
<1>1. Static /\ Parts /\ Typed
  BY PartsHold DEF HInv
<1>2. Same
  BY InputStays
<1>3. PICK new : new = brp.num_of_sets
  OBVIOUS
<1>4. /\ Represents(brp', N)
      /\ brp'.num_of_sets = IF splits(brp, b) THEN new + 1 ELSE new
      /\ \A q \in States : Block(q)' = IF splits(brp, b) /\ Block(q) = b /\ q \in Marks(brp)
                                       THEN new ELSE Block(q)
      /\ splits(brp, b) => \E z \in {b, new} : \A t \in Transitions : t \in Range(moved') <=> Into(t)' = z
      /\ ~splits(brp, b) => moved' = << >>
  BY <1>1, <1>3, SplitBlockMeans
<1>5. /\ moved = << >> /\ touched_spls = << >>
      /\ \A u \in Transitions : u \notin Marks(trp)
  <2>1. moved = << >> /\ touched_spls = << >>
    BY DEF Busy
  <2>2. Range(touched_spls) = {}
    BY <2>1 DEF Range
  <2> QED BY <2>1, <2>2 DEF HInv, Touched
<1>6. PICK x \in Blocks, y \in Blocks, z \in Blocks : Fit(x, y, z)
  BY DEF HInv
<1>7. \A t, u \in Transitions :
        Splitter(t) = Splitter(u) <=> Symbol(t) = Symbol(u) /\ Into(t) = Into(u)
  BY <1>6 DEF Fit, OneBlock
<1>8. \A t : Splitter(t)' = Splitter(t)
  BY DEF Splitter
<1>9. \A t \in Transitions : target(t) \in States /\ Into(t) = Block(target(t))
                             /\ Into(t)' = Block(target(t))' /\ Into(t) \in Blocks
  BY <1>1, <1>2 DEF Static, Into, Block, Same, Parts
<1>10. new \in Nat \ {0} /\ Blocks = 0..new-1 /\ Blocks' = 0..brp'.num_of_sets-1 /\ b \in Blocks'
  BY <1>1, <1>3, <1>4 DEF Parts, Blocks
<1>11. Marks(trp)' = Marks(trp) /\ touched_spls' = << >>
  BY <1>5 DEF Marks
<1>12. Busy' <=> moved' # << >>
  BY <1>11 DEF Busy
<1>13. \A t \in Transitions :
         Into(t)' = IF splits(brp, b) /\ Into(t) = b /\ target(t) \in Marks(brp) THEN new ELSE Into(t)
  <2> TAKE t \in Transitions
  <2>1. PICK q \in States : q = target(t)
    BY <1>9
  <2>2. Into(t) = Block(q) /\ Into(t)' = Block(q)'
    BY <1>2, <2>1 DEF Into, Block, Same
  <2> QED BY <1>4, <2>1, <2>2
<1>14. ASSUME NEW t \in Transitions, NEW u \in Transitions, Into(t)' = Into(u)'
       PROVE  Into(t) = Into(u)
  BY <1>9, <1>10, <1>13, <1>14
<1>15. ASSUME NEW t \in Transitions, NEW u \in Transitions, Into(t) = Into(u), Into(t)' # Into(u)'
       PROVE  splits(brp, b) /\ Into(t)' \in {b, new} /\ Into(u)' \in {b, new}
  BY <1>13, <1>15
<1>16. CASE moved' = << >>
  <2>1. Range(moved') = {} /\ Range(moved)' = {}
    BY <1>16 DEF Range
  <2>2. ASSUME NEW t \in Transitions, NEW u \in Transitions, Into(t) = Into(u)
        PROVE  Into(t)' = Into(u)'
    <3> SUFFICES ASSUME Into(t)' # Into(u)' PROVE FALSE
      OBVIOUS
    <3>1. splits(brp, b) /\ Into(t)' \in {b, new} /\ Into(u)' \in {b, new}
      BY <1>15, <2>2
    <3>2. PICK e \in {b, new} : \A v \in Transitions : v \in Range(moved') <=> Into(v)' = e
      BY <1>4, <3>1
    <3> QED BY <2>1, <3>1, <3>2
  <2>3. \A t \in Transitions : Sorted(t)'
    BY <1>2, <1>5, <1>7, <1>8, <1>11, <2>1, <2>2 DEF Sorted, Same
  <2>4. Fit(b, b, b)'
    <3>1. ~Busy'
      BY <1>12, <1>16
    <3>2. \A t, u \in Transitions :
            /\ Splitter(t)' = Splitter(u)' => Symbol(t) = Symbol(u) /\ Into(t)' = Into(u)'
            /\ Symbol(t) = Symbol(u) /\ Into(t)' = Into(u)' => Splitter(t)' = Splitter(u)'
      BY <1>7, <1>8, <1>14, <2>2
    <3> QED BY <1>2, <2>3, <3>1, <3>2 DEF Fit, Same, OneBlock
  <2> QED BY <1>10, <2>4
<1>17. CASE moved' # << >>
  <2>1. splits(brp, b)
    BY <1>4, <1>17
  <2>2. PICK e \in {b, new} : \A v \in Transitions : v \in Range(moved') <=> Into(v)' = e
    BY <1>4, <2>1
  <2>3. Range(moved)' = Range(moved')
    OBVIOUS
  <2>4. \A t \in Transitions : Sorting(t, e)'
    BY <1>2, <1>5, <1>11, <2>2, <2>3 DEF Sorting, Same
  <2>5. \A t, u \in Transitions :
          /\ Splitter(t)' = Splitter(u)' =>
               Symbol(t) = Symbol(u) /\ OneBlock(Into(t)', Into(u)', b, new)
          /\ Symbol(t) = Symbol(u) /\ Into(t)' = Into(u)' => Splitter(t)' = Splitter(u)'
    BY <1>7, <1>8, <1>14, <1>15 DEF OneBlock
  <2>6. Fit(b, new, e)'
    BY <1>2, <1>12, <1>17, <2>2, <2>4, <2>5 DEF Fit, Same, OneBlock
  <2>7. new \in Blocks'
    BY <1>4, <1>10, <2>1
  <2> QED BY <1>10, <2>2, <2>6, <2>7
<1> QED BY <1>16, <1>17

(* SplitByFinal establishes what is kept after it.                         *)
LEMMA SplitByFinalKeeps ==
  ASSUME HInv, SplitByFinal
  PROVE  HInv'
<1>1. Static /\ Parts /\ Typed
  BY PartsHold DEF HInv
<1>2. /\ pc = "final" /\ unmarked = {} /\ split_block(0) /\ pc' = "main"
      /\ UNCHANGED <<input, trp, stacks, trans_idx, unmarked>>
  BY DEF SplitByFinal
<1>3. UNCHANGED <<unready_spls, touched_blocks, touched_spls>>
  BY <1>2 DEF stacks
<1>4. Same
  BY <1>2, InputStays
<1>5. /\ ~Busy /\ touched_blocks = << >> /\ trans_idx = NO_MORE_ELEMENTS
      /\ brp.num_of_sets = 1 /\ Marks(brp) = dfa.final \ unmarked
      /\ \A t \in Transitions : Splitter(t) \in Range(unready_spls)
  BY <1>2 DEF HInv, AtFirst
<1>6. Blocks = {0} /\ 0 \in Blocks /\ \A q \in States : Block(q) = 0
  BY <1>1, <1>5 DEF Parts, Blocks
<1>7. Marks(brp) = dfa.final
  BY <1>2, <1>5
<1>8. /\ Represents(brp', N)
      /\ brp'.num_of_sets = IF splits(brp, 0) THEN 2 ELSE 1
      /\ \A q \in States : Block(q)' = IF splits(brp, 0) /\ Block(q) = 0 /\ q \in Marks(brp)
                                       THEN 1 ELSE Block(q)
      /\ \A q \in States : q \in Marks(brp') <=> q \in Marks(brp) /\ Block(q) # 0
      /\ splits(brp, 0) <=> /\ \E q \in States : Block(q) = 0 /\ q \in Marks(brp)
                            /\ \E q \in States : Block(q) = 0 /\ q \notin Marks(brp)
      /\ moved' \in Seq(Transitions)
  BY <1>1, <1>2, <1>5, <1>6, SplitBlockMeans
<1>9. \A q \in States : Block(q)' = IF splits(brp, 0) /\ q \in dfa.final THEN 1 ELSE 0
  BY <1>6, <1>7, <1>8
<1>10. \A q \in States : q \notin Marks(brp')
  BY <1>6, <1>8
<1>11. Marks(brp)' = Marks(brp') /\ Marks(trp)' = Marks(trp) /\ \A t : Splitter(t)' = Splitter(t)
  BY <1>2 DEF Marks, Splitter
<1>12. \A t \in Transitions : t \notin Marks(trp)
  <2>1. touched_spls = << >>
    BY <1>5 DEF Busy
  <2>2. Range(touched_spls) = {}
    BY <2>1 DEF Range
  <2> QED BY <2>2 DEF HInv, Touched
<1>13. Typed'
  <2>1. touched_blocks' = << >> /\ << >> \in Seq(0..brp'.num_of_sets-1)
    BY <1>3, <1>5, EmptySeq
  <2> QED BY <1>1, <1>2, <1>3, <1>4, <1>8, <2>1 DEF Typed, Same, transitions, StatesOf
<1>14. Touched'
  <2>1. trans_idx' = NO_MORE_ELEMENTS
    BY <1>2, <1>5
  <2> QED BY <1>2, <1>3, <1>4, <1>10, <1>11, <1>12, <2>1 DEF Touched, Same
<1>15. AtFirst'
  BY <1>2 DEF AtFirst
<1>16. (\E x, y, z \in Blocks : Fit(x, y, z))'
  BY <1>2, <1>3, <1>5, <1>6, SplitFits
<1>17. Coarse'
  <2>1. \A p, q \in States : Residual(p) = Residual(q) => (p \in dfa.final <=> q \in dfa.final)
    BY <1>1, ResidualFinal
  <2>2. \A p, q \in States : Residual(p) = Residual(q) => Block(p)' = Block(q)'
    BY <1>9, <2>1
  <2> QED BY <1>4, <2>2 DEF Coarse, Same
<1>18. Uniform'
  <2>1. \A p, q \in States : Block(p)' = Block(q)' /\ p \in dfa.final => q \in dfa.final
    BY <1>6, <1>7, <1>8, <1>9
  <2> QED BY <1>4, <2>1 DEF Uniform, Same
<1>19. Current({})'
  <2>1. Sources({})' = {} /\ OneLetter({})'
    BY DEF OneLetter, Sources
  <2>2. Firing({})'
    BY <1>2, <1>5 DEF Firing
  <2>3. \A b : Fired({}, b)'
    BY <1>4, <1>10, <1>11, <2>1 DEF Fired, Same
  <2>4. \A t \in Transitions : \A q : Settled(t, q, {})'
    <3>1. Range(unready_spls)' = Range(unready_spls)
      BY <1>3
    <3> QED BY <1>5, <1>11, <3>1 DEF Settled
  <2> QED BY <1>4, <2>1, <2>2, <2>3, <2>4 DEF Current, Same
<1>20. (\E C \in SUBSET Transitions : Current(C))'
  BY <1>19
<1> QED BY <1>13, <1>14, <1>16, <1>15, <1>17, <1>18, <1>20 DEF HInv

(* SplitBlock keeps the invariant: it splits by sources that no two states *)
(* with the same words differ in.                                          *)
LEMMA SplitBlockKeeps ==
  ASSUME HInv, SplitBlock
  PROVE  HInv'
<1>1. Static /\ Parts /\ Typed
  BY PartsHold DEF HInv
<1>2. PICK b, new : b = Last(touched_blocks) /\ new = brp.num_of_sets
  OBVIOUS
<1>3. /\ trans_idx = NO_MORE_ELEMENTS /\ moved = << >> /\ touched_spls = << >>
      /\ touched_blocks # << >> /\ split_block(b) /\ touched_blocks' = Front(touched_blocks)
      /\ UNCHANGED <<input, trp, unready_spls, touched_spls, trans_idx, unmarked, pc>>
  BY <1>2 DEF SplitBlock
<1>4. Same
  BY <1>3, InputStays
<1>5. /\ touched_blocks' \in Seq(Blocks) /\ b \in Blocks
      /\ Range(touched_blocks) = Range(touched_blocks') \cup {b}
  <2>1. touched_blocks \in Seq(Blocks)
    BY <1>1 DEF Typed, Blocks
  <2> QED BY <1>2, <1>3, <2>1, FrontOf
<1>6. /\ Represents(brp', N)
      /\ brp'.num_of_sets = IF splits(brp, b) THEN new + 1 ELSE new
      /\ \A q \in States : Block(q)' = IF splits(brp, b) /\ Block(q) = b /\ q \in Marks(brp)
                                       THEN new ELSE Block(q)
      /\ \A q \in States : q \in Marks(brp') <=> q \in Marks(brp) /\ Block(q) # b
      /\ splits(brp, b) <=> /\ \E q \in States : Block(q) = b /\ q \in Marks(brp)
                            /\ \E q \in States : Block(q) = b /\ q \notin Marks(brp)
      /\ moved' \in Seq(Transitions)
  BY <1>1, <1>2, <1>3, <1>5, SplitBlockMeans
<1>7. ~Busy /\ pc # "done" /\ pc # "final"
  BY <1>3 DEF HInv, Touched, AtFirst, Busy
<1>8. new \in Nat \ {0} /\ Blocks = 0..new-1 /\ Blocks \subseteq Blocks' /\ Blocks' \subseteq Blocks \cup {new}
      /\ (~splits(brp, b) => Blocks' = Blocks)
      /\ \A q \in States : Block(q) \in Blocks /\ Block(q) # new
  <2>1. new \in Nat \ {0} /\ Blocks = 0..new-1 /\ \A q \in States : Block(q) \in Blocks
    BY <1>1, <1>2 DEF Parts, Blocks
  <2>2. Blocks' = 0..(IF splits(brp, b) THEN new + 1 ELSE new)-1
    BY <1>6 DEF Blocks
  <2> QED BY ONLY <2>1, <2>2
<1>9. \A p, q \in States : Block(p)' = Block(q)' => Block(p) = Block(q)
  BY <1>6, <1>8
<1>10. Marks(brp)' = Marks(brp') /\ Marks(trp)' = Marks(trp) /\ \A t : Splitter(t)' = Splitter(t)
  BY <1>3 DEF Marks, Splitter
<1>11. \A t \in Transitions : t \notin Marks(trp)
  <2>1. Range(touched_spls) = {}
    BY <1>3 DEF Range
  <2> QED BY <2>1 DEF HInv, Touched
<1>12. PICK C \in SUBSET Transitions : Current(C)
  BY DEF HInv
<1>13. /\ OneLetter(C) /\ \A c \in Blocks : Fired(C, c)
       /\ \A t \in Transitions, q \in States : Block(q) = Block(source(t)) => Settled(t, q, C)
  BY <1>3, <1>7, <1>12 DEF Current
<1>14. Typed'
  <2>1. touched_blocks' \in Seq(0..brp'.num_of_sets-1)
    <3>1. touched_blocks' \in Seq(Blocks')
      BY <1>5, <1>8, SeqMonotonic
    <3> QED BY <3>1 DEF Blocks
  <2> QED BY <1>1, <1>3, <1>4, <1>6, <2>1 DEF Typed, Same, transitions, StatesOf
<1>15. Touched'
  <2>1. Range(touched_blocks)' = Range(touched_blocks')
    OBVIOUS
  <2>2. \A q \in States : q \in Marks(brp') => Block(q)' \in Range(touched_blocks')
    BY <1>5, <1>6, <1>7 DEF HInv, Touched
  <2> QED BY <1>3, <1>4, <1>7, <1>10, <1>11, <2>1, <2>2 DEF Touched, Same
<1>16. AtFirst'
  BY <1>3, <1>7 DEF AtFirst
<1>17. (\E x, y, z \in Blocks : Fit(x, y, z))'
  BY <1>3, <1>5, <1>7, SplitFits
<1>18. Coarse'
  <2>1. ASSUME NEW p \in States, NEW q \in States, Residual(p) = Residual(q)
        PROVE  Block(p)' = Block(q)'
    <3>1. Block(p) = Block(q)
      BY <2>1 DEF HInv, Coarse
    <3>2. p \in Sources(C) <=> q \in Sources(C)
      BY <1>13, <2>1 DEF OneLetter
    <3>3. Block(p) = b => (p \in Marks(brp) <=> q \in Marks(brp))
      BY <1>5, <1>13, <3>1, <3>2 DEF Fired
    <3> QED BY <1>6, <3>1, <3>3
  <2> QED BY <1>4, <2>1 DEF Coarse, Same
<1>19. Uniform'
  <2>1. \A p, q \in States : Block(p)' = Block(q)' /\ p \in dfa.final => q \in dfa.final
    BY <1>7, <1>9 DEF HInv, Uniform
  <2> QED BY <1>4, <2>1 DEF Uniform, Same
<1>20. ASSUME NEW p \in States, NEW q \in States, Block(p)' = Block(q)', Block(p) = b
       PROVE  p \notin Marks(brp') /\ (p \in Sources(C) => q \in Sources(C))
  <2>1. Block(q) = b
    BY <1>9, <1>20
  <2>2. p \in Marks(brp) <=> q \in Marks(brp)
    BY <1>6, <1>8, <1>20, <2>1
  <2> QED BY <1>5, <1>6, <1>13, <1>20, <2>1, <2>2 DEF Fired
<1>21. ASSUME NEW c \in Blocks' PROVE Fired(C, c)'
  <2>1. CASE c = b \/ c = new
    <3>1. \A q \in States : Block(q)' = c => Block(q) = b
      BY <1>6, <1>8, <2>1
    <3>2. \A p, q \in States : Block(p)' = c /\ Block(q)' = c =>
            p \notin Marks(brp') /\ (p \in Sources(C) => q \in Sources(C))
      BY <1>20, <3>1
    <3> QED BY <1>4, <1>10, <3>2 DEF Fired, Same
  <2>2. CASE c # b /\ c # new
    <3>1. c \in Blocks
      BY <1>8, <2>2
    <3>2. \A q \in States : Block(q)' = c <=> Block(q) = c
      BY <1>6, <2>2
    <3>3. \A q \in States : Block(q) = c => (q \in Marks(brp') <=> q \in Marks(brp))
      BY <1>6, <2>2
    <3> QED BY <1>4, <1>10, <1>13, <3>1, <3>2, <3>3 DEF Fired, Same
  <2> QED BY <2>1, <2>2
<1>22. Current(C)'
  <2>1. OneLetter(C)'
    BY <1>3, <1>12, OneLetterKept DEF Current
  <2>2. Firing(C)'
    BY <1>3 DEF Firing
  <2>3. \A t \in Transitions, q \in States : Block(q)' = Block(source(t))' => Settled(t, q, C)'
    <3> TAKE t \in Transitions, q \in States
    <3>1. source(t) \in States
      BY <1>1 DEF Static
    <3>2. Settled(t, q, C) => Settled(t, q, C)'
      BY <1>3, SettledKept
    <3> QED BY <1>4, <1>9, <1>13, <3>1, <3>2 DEF Same
  <2> QED BY <1>4, <1>21, <2>1, <2>2, <2>3 DEF Current, Same
<1>23. (\E D \in SUBSET Transitions : Current(D))'
  BY <1>4, <1>22 DEF Same
<1> QED BY <1>14, <1>15, <1>16, <1>17, <1>18, <1>19, <1>23 DEF HInv

-----------------------------------------------------------------------------
\* The theorems of the run.

\* Without transitions nothing is done.
Idle ==
  /\ dfa \in Inputs /\ trans = transitions(dfa) /\ trans = << >> /\ brp = of_states(N)
  /\ moved = << >> /\ touched_spls = << >> /\ touched_blocks = << >>
  /\ trans_idx = NO_MORE_ELEMENTS /\ pc = "done"

\* The invariant of every run.
HopcroftInv == IF trans = << >> THEN Idle ELSE HInv

(* A step that changes nothing keeps the invariant.                        *)
LEMMA StutterKeeps ==
  ASSUME HInv, UNCHANGED vars
  PROVE  HInv'
<1>1. UNCHANGED <<input, brp, trp, unready_spls, touched_blocks, touched_spls,
                  trans_idx, moved, unmarked, pc>>
  BY DEF vars, stacks
<1>2. Same
  BY <1>1, InputStays
<1>3. (\A t : Splitter(t)' = Splitter(t)) /\ (\A q : Block(q)' = Block(q)) /\ Blocks' = Blocks
  BY <1>1 DEF Splitter, Block, Blocks
<1>4. Marks(trp)' = Marks(trp) /\ Marks(brp)' = Marks(brp) /\ Busy' = Busy
  BY <1>1 DEF Marks, Busy
<1>5. Typed'
  BY <1>1, <1>2 DEF HInv, Typed, Same, transitions, StatesOf
<1>6. Touched'
  BY <1>1, <1>2, <1>3, <1>4 DEF HInv, Touched, Same
<1>7. AtFirst'
  BY <1>1, <1>2, <1>3, <1>4 DEF HInv, AtFirst, Same
<1>8. (\E x, y, z \in Blocks : Fit(x, y, z))'
  BY <1>1, FitKept DEF HInv, SplittersKept
<1>9. Coarse' /\ Uniform'
  BY <1>1, BlocksKept DEF HInv
<1>10. PICK C \in SUBSET Transitions : Current(C)
  BY DEF HInv
<1>11. Current(C)'
  <2>1. OneLetter(C)'
    BY <1>1, <1>10, OneLetterKept DEF Current
  <2>2. \A t, p : Settled(t, p, C) => Settled(t, p, C)'
    BY <1>1, SettledKept
  <2>3. Firing(C)'
    BY <1>1, <1>2, <1>3, <1>4, <1>10 DEF Current, Firing, Same
  <2>4. \A b \in Blocks : Fired(C, b) => Fired(C, b)'
    BY <1>1, <1>2, <1>3, <1>4 DEF Fired, Same
  <2> QED BY <1>1, <1>2, <1>3, <1>10, <2>1, <2>2, <2>3, <2>4 DEF Current, Same
<1>12. (\E D \in SUBSET Transitions : Current(D))'
  BY <1>2, <1>11 DEF Same
<1> QED BY <1>5, <1>6, <1>7, <1>8, <1>9, <1>12 DEF HInv

(* The invariant holds: every action keeps it.                             *)
THEOREM Invariance == Spec => []HopcroftInv
<1>1. ASSUME Init PROVE HopcroftInv
  <2>1. CASE trans = << >>
    BY <1>1, <2>1 DEF HopcroftInv, Idle, Init, N
  <2>2. CASE trans # << >>
    BY <1>1, <2>2, InitHolds DEF HopcroftInv
  <2> QED BY <2>1, <2>2
<1>2. ASSUME HopcroftInv, [Next]_vars PROVE HopcroftInv'
  <2>1. trans' = trans
    BY <1>2 DEF Next, vars, input, MarkFinal, SplitByFinal, MarkMoved, SplitSplitter,
                TakeSplitter, FireBack, SplitBlock, Finish
  <2>2. CASE trans = << >>
    <3>1. Idle
      BY <1>2, <2>2 DEF HopcroftInv
    <3>2. UNCHANGED vars
      BY <1>2, <3>1 DEF Idle, Next, MarkFinal, SplitByFinal, MarkMoved, SplitSplitter,
                        TakeSplitter, between, FireBack, SplitBlock, Finish
    <3>3. UNCHANGED <<dfa, brp, moved, touched_spls, touched_blocks, trans_idx, pc>>
      BY <3>2 DEF vars, input, stacks
    <3>4. Idle'
      BY <2>1, <3>1, <3>3 DEF Idle, transitions, N, StatesOf
    <3> QED BY <2>1, <2>2, <3>4 DEF HopcroftInv
  <2>3. CASE trans # << >>
    <3>1. HInv
      BY <1>2, <2>3 DEF HopcroftInv
    <3>2. HInv'
      BY <1>2, <3>1, MarkFinalKeeps, SplitByFinalKeeps, MarkMovedKeeps, SplitSplitterKeeps,
         TakeSplitterKeeps, FireBackKeeps, SplitBlockKeeps, FinishKeeps, StutterKeeps DEF Next
    <3> QED BY <2>1, <2>3, <3>2 DEF HopcroftInv
  <2> QED BY <2>2, <2>3
<1> QED BY <1>1, <1>2, PTL DEF Spec

(* The two partitions are ones and fit together: between two calls of      *)
(* split_block() a splitter is all transitions over a symbol into a block. *)
THEOREM Partitions == Spec => []PartitionsSound
<1>1. HopcroftInv => PartitionsSound
  <2> SUFFICES ASSUME HInv PROVE PartitionsSound
    BY DEF HopcroftInv, PartitionsSound
  <2>1. Static /\ Parts
    BY PartsHold DEF HInv
  <2>2. ASSUME moved = << >>, touched_spls = << >>, NEW t \in Transitions, NEW u \in Transitions
        PROVE  Splitter(t) = Splitter(u) <=> Symbol(t) = Symbol(u) /\ Into(t) = Into(u)
    <3>1. ~Busy
      BY <2>2 DEF Busy
    <3>2. PICK x \in Blocks, y \in Blocks, z \in Blocks : Fit(x, y, z)
      BY DEF HInv
    <3> QED BY <3>1, <3>2 DEF Fit, OneBlock
  <2> QED BY <2>1, <2>2 DEF PartitionsSound, Parts, N, M, StatesOf, Splitter, Symbol, Into
<1> QED BY <1>1, Invariance, PTL

\* What is settled by transitions and splitters on the stack.
Matched(t, q) ==
  \/ \E u \in Beside(t, q) : Splitter(u) = Splitter(t)
  \/ \E u \in Beside(t, q) \cup {t} : Splitter(u) \in Range(unready_spls)

(* Where a splitter is taken, and in the end, the one in use before is     *)
(* done with.                                                              *)
LEMMA AllMatched ==
  ASSUME HInv, pc # "final", trans_idx = NO_MORE_ELEMENTS, touched_blocks = << >>
  PROVE  \A t \in Transitions, q \in States : Block(q) = Block(source(t)) => Matched(t, q)
<1>1. Static /\ Parts
  BY PartsHold DEF HInv
<1>2. PICK C \in SUBSET Transitions : Current(C)
  BY DEF HInv
<1>3. Even(C)
  BY <1>1, <1>2, NowEven DEF HInv, Current
<1> QED BY <1>1, <1>2, <1>3, SettledByOthers DEF Current, Matched

(* States with the same words are never separated, and where two states of *)
(* a block differ over a symbol a splitter on the stack tells them apart.  *)
THEOREM SmallerHalves == Spec => []RefinementSound
<1>1. HopcroftInv => NeverTooFine
  <2>1. CASE trans = << >>
    <3>1. ASSUME Idle PROVE NeverTooFine
      <4>1. brp.set_idx = [k \in 0..N-1 |-> 0]
        BY <3>1 DEF Idle, of_states
      <4>2. Static
        BY <3>1, Listed DEF Idle
      <4>3. \A q \in StatesOf(dfa) : brp.set_idx[q] = 0
        BY <4>1, <4>2 DEF Static, StatesOf, States
      <4> QED BY <4>3 DEF NeverTooFine
    <3> QED BY <2>1, <3>1 DEF HopcroftInv
  <2>2. CASE trans # << >>
    <3>1. ASSUME HInv PROVE NeverTooFine
      <4>1. Static
        BY <3>1, PartsHold DEF HInv
      <4> QED BY <3>1, <4>1 DEF HInv, Coarse, NeverTooFine, Static, StatesOf, Block
    <3> QED BY <2>2, <3>1 DEF HopcroftInv
  <2> QED BY <2>1, <2>2
<1>2. HopcroftInv => WorklistSuffices
  <2> SUFFICES ASSUME HInv, between PROVE WorklistSuffices
    BY DEF HopcroftInv, WorklistSuffices, Idle, between
  <2>1. Static /\ Parts /\ Typed
    BY PartsHold DEF HInv
  <2>2. \A t \in Transitions, q \in States : Block(q) = Block(source(t)) => Matched(t, q)
    BY AllMatched DEF between
  <2> SUFFICES ASSUME NEW p \in StatesOf(dfa), NEW q \in StatesOf(dfa),
                      brp.set_idx[p] = brp.set_idx[q], NEW t \in Transitions, source(t) = p
               PROVE  LET same == {u \in Transitions : source(u) = q /\ trans[u+1][2] = trans[t+1][2]}
                          sets == {trp.set_idx[u] : u \in same \cup {t}}
                      IN  \/ same # {} /\ Cardinality(sets) = 1
                          \/ \E k \in DOMAIN unready_spls : unready_spls[k] \in sets
    BY Zenon DEF WorklistSuffices
  <2> DEFINE same == {u \in Transitions : source(u) = q /\ trans[u+1][2] = trans[t+1][2]}
             sets == {trp.set_idx[u] : u \in same \cup {t}}
  <2>3. p \in States /\ q \in States /\ Block(p) = Block(q)
    BY <2>1 DEF Static, StatesOf, Block
  <2>4. (same # {} /\ Cardinality(sets) = 1) \/ \E k \in DOMAIN unready_spls : unready_spls[k] \in sets
    <3>1. same = Beside(t, q)
      BY DEF Beside, Symbol
    <3>2. CASE \E u \in same : Splitter(u) = Splitter(t)
      <4>1. PICK u \in same : Splitter(u) = Splitter(t)
        BY <3>2
      <4>2. \A v \in same : v = u
        BY <2>1, <4>1 DEF Static, Symbol
      <4>3. sets = {Splitter(t)}
        BY <4>1, <4>2 DEF Splitter
      <4> QED BY <4>1, <4>3, FS_Singleton
    <3>3. CASE \E u \in same \cup {t} : Splitter(u) \in Range(unready_spls)
      <4>1. PICK u \in same \cup {t} : Splitter(u) \in Range(unready_spls)
        BY <3>3
      <4>2. PICK k \in DOMAIN unready_spls : Splitter(u) = unready_spls[k]
        BY <4>1 DEF Range
      <4> QED BY <4>1, <4>2 DEF Splitter
    <3> HIDE DEF same, sets
    <3> QED BY <2>2, <2>3, <3>1, <3>2, <3>3 DEF Matched
  <2> QED BY <2>4
<1> QED BY <1>1, <1>2, Invariance, PTL DEF RefinementSound

-----------------------------------------------------------------------------
\* The result.

\* The blocks are a congruence: states of one have moves into the same blocks.
Congruent ==
  \A p, q \in States, a \in Sigma : Block(p) = Block(q) =>
    BlocksOf(dfa.delta[p][a]) = BlocksOf(dfa.delta[q][a])

\* The code's block of b is represented by its first state.
First(b) == get_first(brp, b)

(* In the end they are one, and tell final states from the others.         *)
LEMMA DoneMeans ==
  ASSUME HInv, pc = "done"
  PROVE  /\ Congruent
         /\ \A p, q \in States : Block(p) = Block(q) => (p \in dfa.final <=> q \in dfa.final)
         /\ \A p, q \in States : Residual(p) = Residual(q) => Block(p) = Block(q)
         /\ \A b \in Blocks : First(b) \in States /\ Block(First(b)) = b
<1>1. Static /\ Parts
  BY PartsHold DEF HInv
<1>2. ~Busy /\ touched_blocks = << >> /\ unready_spls = << >> /\ trans_idx = NO_MORE_ELEMENTS
  BY DEF HInv, Touched
<1>3. \A t \in Transitions, q \in States : Block(q) = Block(source(t)) => Matched(t, q)
  BY <1>2, AllMatched
<1>4. Range(unready_spls) = {}
  BY <1>2 DEF Range
<1>5. PICK x \in Blocks, y \in Blocks, z \in Blocks : Fit(x, y, z)
  BY DEF HInv
<1>6. ASSUME NEW p \in States, NEW q \in States, NEW a \in Sigma, Block(p) = Block(q),
             NEW r \in dfa.delta[p][a]
      PROVE  \E s \in dfa.delta[q][a] : Block(s) = Block(r)
  <2>1. PICK t \in Transitions : source(t) = p /\ Symbol(t) = a /\ target(t) = r
    BY <1>1 DEF Static
  <2>2. PICK u \in Beside(t, q) : Splitter(u) = Splitter(t)
    BY <1>3, <1>4, <1>6, <2>1 DEF Matched
  <2>3. u \in Transitions /\ source(u) = q /\ Symbol(u) = a
    BY <2>1, <2>2 DEF Beside
  <2>4. Into(u) = Into(t)
    BY <1>2, <1>5, <2>2, <2>3 DEF Fit, OneBlock
  <2>5. target(u) \in dfa.delta[q][a]
    BY <1>1, <2>3 DEF Static
  <2> QED BY <2>1, <2>4, <2>5 DEF Into, Block
<1>7. Congruent
  <2>1. ASSUME NEW p \in States, NEW q \in States, NEW a \in Sigma, Block(p) = Block(q)
        PROVE  BlocksOf(dfa.delta[p][a]) \subseteq BlocksOf(dfa.delta[q][a])
    BY <1>6, <2>1 DEF BlocksOf, Block
  <2>2. ASSUME NEW p \in States, NEW q \in States, NEW a \in Sigma, Block(p) = Block(q)
        PROVE  BlocksOf(dfa.delta[p][a]) = BlocksOf(dfa.delta[q][a])
    BY <2>1, <2>2
  <2> QED BY <2>2 DEF Congruent
<1>8. \A b \in Blocks : First(b) \in States /\ Block(First(b)) = b
  <2> TAKE b \in Blocks
  <2>1. N \in Nat /\ Represents(brp, N) /\ b \in 0..brp.num_of_sets-1 /\ States = 0..N-1
    BY <1>1 DEF Parts, Blocks
  <2>2. get_first(brp, b) \in 0..N-1 /\ brp.set_idx[get_first(brp, b)] = b
    BY ONLY <2>1, FirstOf
  <2> QED BY <2>1, <2>2 DEF First, Block
<1> QED BY <1>7, <1>8 DEF HInv, Uniform, Coarse

(* quotient is an automaton over the blocks.                               *)
LEMMA QuotientIs ==
  ASSUME Static, Parts, \A b \in Blocks : First(b) \in States /\ Block(First(b)) = b
  PROVE  /\ quotient \in AutomataOver(Blocks, Sigma) /\ AutStates(quotient) = Blocks
         /\ quotient.initial = BlocksOf(dfa.initial)
         /\ quotient.final = {b \in Blocks : First(b) \in dfa.final}
         /\ \A b \in Blocks, a \in Sigma : quotient.delta[b][a] = BlocksOf(dfa.delta[First(b)][a])
<1>1. \A b \in Blocks : DOMAIN dfa.delta[First(b)] = Sigma
  BY DEF Static
<1>2. PICK D : D = [b \in Blocks |-> [a \in Sigma |-> BlocksOf(dfa.delta[First(b)][a])]]
  OBVIOUS
<1>3. PICK F : F = {b \in Blocks : First(b) \in dfa.final}
  OBVIOUS
<1>4. PICK I : I = BlocksOf(dfa.initial)
  OBVIOUS
<1>5. quotient = [initial |-> I, final |-> F, delta |-> D]
  <2>1. D = [b \in Blocks |-> [a \in DOMAIN dfa.delta[First(b)] |-> BlocksOf(dfa.delta[First(b)][a])]]
    BY <1>1, <1>2
  <2>2. F = {b \in Blocks : get_first(brp, b) \in dfa.final}
    BY <1>3 DEF First
  <2>3. D = [b \in Blocks |-> [a \in DOMAIN dfa.delta[get_first(brp, b)] |->
                                 BlocksOf(dfa.delta[get_first(brp, b)][a])]]
    BY <2>1 DEF First
  <2> QED BY <1>4, <2>2, <2>3 DEF quotient
<1>6. ASSUME NEW S \in SUBSET States PROVE BlocksOf(S) \in SUBSET Blocks
  BY DEF BlocksOf, Parts, Block
<1>7. I \in SUBSET Blocks
  BY <1>4, <1>6 DEF Static
<1>8. \A b \in Blocks, a \in Sigma : BlocksOf(dfa.delta[First(b)][a]) \in SUBSET Blocks
  <2> TAKE b \in Blocks, a \in Sigma
  <2>1. dfa.delta[First(b)][a] \in SUBSET States
    BY DEF Static
  <2> QED BY <1>6, <2>1
<1>9. D \in [Blocks -> [Sigma -> SUBSET Blocks]]
  BY <1>2, <1>8
<1>10. F \in SUBSET Blocks
  BY <1>3
<1>11. quotient \in AutomataOver(Blocks, Sigma)
  BY <1>5, <1>7, <1>9, <1>10 DEF AutomataOver
<1>12. quotient.initial = I /\ quotient.final = F /\ quotient.delta = D
  BY <1>5
<1> QED BY <1>2, <1>3, <1>4, <1>9, <1>11, <1>12 DEF AutStates

(* Every word leads it to the blocks of the states it leads to.            *)
LEMMA QuotientFollows ==
  ASSUME Static, Parts, Congruent, \A b \in Blocks : First(b) \in States /\ Block(First(b)) = b,
         NEW S \in SUBSET States, NEW w \in Seq(Sigma)
  PROVE  PostWord(quotient, BlocksOf(S), w) = BlocksOf(PostWord(dfa, S, w))
<1>1. PICK n \in Nat : n = Len(w) /\ \A k \in 1..n : w[k] \in Sigma
  BY LenProperties, ElementOfSeq
<1>2. PICK Q, B : Q = quotient /\ B = BlocksOf(S)
  OBVIOUS
<1>3. /\ Q \in AutomataOver(Blocks, Sigma)
      /\ \A b \in Blocks, a \in Sigma : Q.delta[b][a] = BlocksOf(dfa.delta[First(b)][a])
  BY <1>2, QuotientIs
<1>4. ASSUME NEW T \in SUBSET States PROVE BlocksOf(T) \in SUBSET Blocks
  BY DEF BlocksOf, Parts, Block
<1>5. ASSUME NEW T \in SUBSET States, NEW a \in Sigma
      PROVE  Post(dfa, T, a) \in SUBSET States /\ Post(Q, BlocksOf(T), a) = BlocksOf(Post(dfa, T, a))
  <2>1. \A q \in T : Q.delta[Block(q)][a] = BlocksOf(dfa.delta[q][a])
    <3> TAKE q \in T
    <3>1. Block(q) \in Blocks
      BY DEF Parts
    <3>2. BlocksOf(dfa.delta[First(Block(q))][a]) = BlocksOf(dfa.delta[q][a])
      BY <3>1 DEF Congruent
    <3> QED BY <1>3, <3>1, <3>2
  <2>2. BlocksOf(T) = {Block(q) : q \in T}
    BY DEF BlocksOf, Block
  <2>3. Post(Q, BlocksOf(T), a) = UNION {BlocksOf(dfa.delta[q][a]) : q \in T}
    BY <2>1, <2>2 DEF Post
  <2>4. BlocksOf(Post(dfa, T, a)) = UNION {BlocksOf(dfa.delta[q][a]) : q \in T}
    BY DEF Post, BlocksOf
  <2>5. Post(dfa, T, a) \in SUBSET States
    BY DEF Post, Static
  <2> QED BY <2>3, <2>4, <2>5
<1>6. PICK f : WordLayers(f, dfa, States, S, w) /\ PostWord(dfa, S, w) = f[n]
  <2>1. Len(w) \in Nat /\ \A k \in 1..Len(w) : \A T \in SUBSET States : Post(dfa, T, w[k]) \in SUBSET States
    BY <1>1, <1>5
  <2>2. \E f : WordLayers(f, dfa, States, S, w) /\ PostWord(dfa, S, w) = f[Len(w)]
    BY ONLY <2>1, S \in SUBSET States, PostWordLayers
  <2> QED BY <1>1, <2>2
<1>7. PICK g : WordLayers(g, Q, Blocks, B, w) /\ PostWord(Q, B, w) = g[n]
  <2>1. Len(w) \in Nat /\ \A k \in 1..Len(w) : \A T \in SUBSET Blocks : Post(Q, T, w[k]) \in SUBSET Blocks
    BY <1>1, <1>3 DEF Post, AutomataOver
  <2>2. B \in SUBSET Blocks
    BY <1>2, <1>4
  <2>3. \E g : WordLayers(g, Q, Blocks, B, w) /\ PostWord(Q, B, w) = g[Len(w)]
    BY ONLY <2>1, <2>2, PostWordLayers
  <2> QED BY <1>1, <2>3
<1>8. /\ f \in [0..n -> SUBSET States] /\ f[0] = S
      /\ \A k \in 1..n : f[k] = Post(dfa, f[k-1], w[k])
  BY <1>1, <1>6 DEF WordLayers
<1>9. g[0] = B /\ \A k \in 1..n : g[k] = Post(Q, g[k-1], w[k])
  BY <1>1, <1>7 DEF WordLayers
<1> DEFINE Good == {k \in 0..n : g[k] = BlocksOf(f[k])}
<1>10. 0 \in Good
  BY <1>2, <1>8, <1>9
<1>11. ASSUME NEW k \in 1..n, k-1 \in Good PROVE k \in Good
  <2>1. k-1 \in 0..n /\ k \in 0..n /\ w[k] \in Sigma
    BY <1>1
  <2>2. f[k-1] \in SUBSET States
    BY <1>8, <2>1
  <2>3. Post(Q, BlocksOf(f[k-1]), w[k]) = BlocksOf(Post(dfa, f[k-1], w[k]))
    BY <1>5, <2>1, <2>2
  <2> QED BY <1>8, <1>9, <1>11, <2>1, <2>3
<1>12. n \in Good
  <2>1. Good \in SUBSET (0..n) /\ n \in 0..n
    OBVIOUS
  <2> HIDE DEF Good
  <2> QED BY <1>10, <1>11, <2>1, UpTo
<1> QED BY <1>2, <1>6, <1>7, <1>12

(* So it accepts what the automaton does, from every state.                *)
LEMMA QuotientWins ==
  ASSUME HInv, pc = "done", NEW S \in SUBSET States, NEW w \in Seq(Sigma)
  PROVE  PostWord(quotient, BlocksOf(S), w) \cap quotient.final # {} <=> Wins(S, w)
<1>1. Static /\ Parts
  BY PartsHold DEF HInv
<1>2. /\ Congruent
      /\ \A p, q \in States : Block(p) = Block(q) => (p \in dfa.final <=> q \in dfa.final)
      /\ \A b \in Blocks : First(b) \in States /\ Block(First(b)) = b
  BY DoneMeans
<1>3. PICK T : T = PostWord(dfa, S, w)
  OBVIOUS
<1>4. T \in SUBSET States
  BY <1>1, <1>3, PostWordType DEF Static
<1>5. PostWord(quotient, BlocksOf(S), w) = BlocksOf(T)
  BY <1>1, <1>2, <1>3, QuotientFollows
<1>6. quotient.final = {b \in Blocks : First(b) \in dfa.final}
  BY <1>1, <1>2, QuotientIs
<1>7. \A q \in T : Block(q) \in quotient.final <=> q \in dfa.final
  <2> TAKE q \in T
  <2>1. q \in States /\ Block(q) \in Blocks
    BY <1>1, <1>4 DEF Parts
  <2>2. First(Block(q)) \in dfa.final <=> q \in dfa.final
    BY <1>2, <2>1
  <2> QED BY <1>6, <2>1, <2>2
<1>8. BlocksOf(T) = {Block(q) : q \in T}
  BY DEF BlocksOf, Block
<1> QED BY <1>3, <1>5, <1>7, <1>8 DEF Wins

(* Without transitions there is one state, and nothing is to be done.      *)
LEMMA NothingToDo ==
  ASSUME Idle
  PROVE  /\ Static /\ result = dfa
         /\ \E i \in States : States = {i} /\ AutStates(dfa) = {i}
<1>1. Static /\ dfa \in Inputs /\ trans = << >> /\ result = dfa
  BY Listed DEF Idle, result
<1>2. N \in Nat \ {0} /\ States = 0..N-1 /\ AutStates(dfa) = States /\ Transitions = {}
  <2>1. Len(trans) = 0
    BY <1>1, EmptySeq
  <2> QED BY <1>1, <2>1 DEF Static, States, Transitions
<1>3. PICK i \in States : dfa.initial = {i}
  BY <1>1 DEF Static
<1>4. States = {i}
  <2>1. /\ IsFiniteSet(States) /\ dfa \in AutomataOver(States, Sigma)
        /\ UsefulStates(dfa) = States
    <3>1. AutStates(dfa) = States /\ dfa \in AutomataOver(States, Sigma)
      BY <1>1 DEF Static
    <3>2. IsFiniteSet(AutStates(dfa)) /\ UsefulStates(dfa) = AutStates(dfa)
      BY <1>1, InputsAssumption
    <3> QED BY <3>1, <3>2
  <2>2. PICK succ : succ = AutSuccessors(dfa)
    OBVIOUS
  <2>3. /\ IsGraph(succ) /\ DOMAIN succ = States
        /\ \A q \in States : succ[q] = UNION {dfa.delta[q][a] : a \in Sigma}
    BY ONLY <2>1, <2>2, AutomatonGraph
  <2>4. \A q \in States : succ[q] = {}
    <3> SUFFICES ASSUME NEW q \in States, NEW a \in Sigma, NEW r \in dfa.delta[q][a] PROVE FALSE
      BY <2>3
    <3>1. \E t \in Transitions : source(t) = q /\ Symbol(t) = a /\ target(t) = r
      BY <1>1 DEF Static
    <3> QED BY <1>2, <3>1
  <2>5. PICK I : I = {i}
    OBVIOUS
  <2>6. I \in SUBSET DOMAIN succ /\ I \subseteq I /\ \A q \in I \cap DOMAIN succ : succ[q] \subseteq I
    BY <2>3, <2>4, <2>5
  <2>7. Closure(succ, I) \subseteq I
    BY ONLY <2>3, <2>6, ClosureLeast
  <2>8. States \subseteq Closure(succ, I)
    BY <1>3, <2>1, <2>2, <2>5 DEF UsefulStates
  <2> QED BY <2>5, <2>7, <2>8
<1> QED BY <1>1, <1>2, <1>4

(* The result has the language of the automaton, and a state for each set  *)
(* of words that a state of the automaton has.                             *)
THEOREM Minimal == Spec => []MinimalExact
<1>1. ASSUME HInv PROVE MinimalExact
  <2> SUFFICES ASSUME pc = "done"
               PROVE  /\ Cardinality(AutStates(result)) = Cardinality({Residual(q) : q \in StatesOf(dfa)})
                      /\ \A w \in Words(AutSymbols(dfa), Cardinality(StatesOf(dfa))) :
                           Accepts(result, w) <=> Accepts(dfa, w)
    BY DEF MinimalExact
  <2>1. Static /\ Parts /\ trans # << >>
    BY <1>1, PartsHold DEF HInv, Typed
  <2>2. result = quotient
    BY <2>1 DEF result
  <2>3. /\ \A p, q \in States : Residual(p) = Residual(q) => Block(p) = Block(q)
        /\ \A b \in Blocks : First(b) \in States /\ Block(First(b)) = b
    BY <1>1, DoneMeans
  <2>4. AutStates(quotient) = Blocks /\ quotient.initial = BlocksOf(dfa.initial)
    BY <2>1, <2>3, QuotientIs
  <2>5. ASSUME NEW w \in Words(AutSymbols(dfa), Cardinality(StatesOf(dfa)))
        PROVE  Accepts(quotient, w) <=> Accepts(dfa, w)
    <3>1. w \in Seq(Sigma)
      <4>1. N \in Nat /\ w \in Words(Sigma, N)
        BY <2>1 DEF Static, Sigma, N
      <4> QED BY <4>1, WordsAre
    <3>2. dfa.initial \in SUBSET States
      BY <2>1 DEF Static
    <3> QED BY <1>1, <2>4, <3>1, <3>2, QuotientWins DEF Accepts, Wins
  <2>6. ASSUME NEW p \in States, NEW q \in States, Block(p) = Block(q)
        PROVE  Residual(p) = Residual(q)
    <3>1. BlocksOf({p}) = BlocksOf({q})
      BY <2>6 DEF BlocksOf, Block
    <3>2. \A w \in Seq(Sigma) : Wins({p}, w) <=> Wins({q}, w)
      <4> TAKE w \in Seq(Sigma)
      <4>1. PICK P, Q : P = {p} /\ Q = {q}
        OBVIOUS
      <4>2. P \in SUBSET States /\ Q \in SUBSET States /\ BlocksOf(P) = BlocksOf(Q)
        BY <3>1, <4>1
      <4>3. Wins(P, w) <=> Wins(Q, w)
        BY <1>1, <4>2, QuotientWins
      <4> QED BY <4>1, <4>3
    <3>3. Won({p}, N-1) = Won({q}, N-1)
      BY <3>2 DEF Won
    <3> QED BY <2>1, <3>3, ResidualIs
  <2>7. PICK R : R = {Residual(q) : q \in States}
    OBVIOUS
  <2>8. IsFiniteSet(Blocks)
    <3>1. PICK c \in Nat : c = brp.num_of_sets
      BY <2>1 DEF Parts
    <3> QED BY <3>1, CountBelow DEF Blocks
  <2>9. Cardinality(R) = Cardinality(Blocks)
    <3>1. PICK f : f = [b \in Blocks |-> Residual(First(b))]
      OBVIOUS
    <3>2. f \in [Blocks -> R]
      BY <2>3, <2>7, <3>1
    <3>3. \A q \in States : Block(q) \in Blocks /\ f[Block(q)] = Residual(q)
      <4> TAKE q \in States
      <4>1. Block(q) \in Blocks
        BY <2>1 DEF Parts
      <4>2. Residual(First(Block(q))) = Residual(q)
        BY <2>3, <2>6, <4>1
      <4> QED BY <3>1, <4>1, <4>2
    <3>4. f \in Surjection(Blocks, R)
      <4>1. \A r \in R : \E b \in Blocks : f[b] = r
        BY <2>7, <3>3
      <4> QED BY <3>2, <4>1 DEF Surjection
    <3>5. f \in Injection(Blocks, R)
      <4>1. \A b, c \in Blocks : f[b] = f[c] => b = c
        BY <2>3, <3>1
      <4> QED BY <3>2, <4>1 DEF Injection, IsInjective
    <3> QED BY <2>8, <3>4, <3>5, FS_Surjection
  <2>10. StatesOf(dfa) = States
    BY <2>1 DEF Static, StatesOf
  <2> QED BY <2>2, <2>4, <2>5, <2>7, <2>9, <2>10
<1>2. ASSUME Idle PROVE MinimalExact
  <2>1. Static /\ result = dfa
    BY <1>2, NothingToDo
  <2>2. PICK i \in States : States = {i} /\ AutStates(dfa) = {i}
    BY <1>2, NothingToDo
  <2>5. AutStates(result) = {i} /\ {Residual(q) : q \in StatesOf(dfa)} = {Residual(i)}
    BY <2>1, <2>2 DEF StatesOf
  <2>6. Cardinality({i}) = 1 /\ Cardinality({Residual(i)}) = 1
    BY FS_Singleton
  <2> QED BY <2>1, <2>5, <2>6 DEF MinimalExact
<1>3. HopcroftInv => MinimalExact
  BY <1>1, <1>2 DEF HopcroftInv
<1> QED BY <1>3, Invariance, PTL

(* Words of any length are accepted by the result if and only if the       *)
(* automaton accepts them.                                                 *)
SameWords ==
  pc = "done" =>
    \A w \in Seq(AutSymbols(dfa)) : Accepts(result, w) <=> Accepts(dfa, w)

\* The words that lead from state b of the result to a final one.
FromState(b) == {w \in Seq(AutSymbols(dfa)) : PostWord(result, {b}, w) \cap result.final # {}}

(* No two states of the result could be made one.                          *)
NoneAlike ==
  pc = "done" =>
    \A b, c \in AutStates(result) : FromState(b) = FromState(c) => b = c

(* minimize_hopcroft() keeps the language, and no two states of its result *)
(* have the same words, of whatever length.                                *)
THEOREM Language == Spec => [](SameWords /\ NoneAlike)
<1>1. ASSUME HInv, pc = "done" PROVE SameWords /\ NoneAlike
  <2>1. Static /\ Parts /\ trans # << >>
    BY <1>1, PartsHold DEF HInv, Typed
  <2>2. result = quotient
    BY <2>1 DEF result
  <2>3. /\ \A p, q \in States : Residual(p) = Residual(q) => Block(p) = Block(q)
        /\ \A b \in Blocks : First(b) \in States /\ Block(First(b)) = b
    BY <1>1, DoneMeans
  <2>4. AutStates(quotient) = Blocks /\ quotient.initial = BlocksOf(dfa.initial)
    BY <2>1, <2>3, QuotientIs
  <2>5. SameWords
    <3>1. dfa.initial \in SUBSET States
      BY <2>1 DEF Static
    <3>2. ASSUME NEW w \in Seq(Sigma) PROVE Accepts(quotient, w) <=> Accepts(dfa, w)
      BY <1>1, <2>4, <3>1, QuotientWins DEF Accepts, Wins
    <3> QED BY <2>2, <3>2 DEF SameWords, Sigma
  <2>6. ASSUME NEW b \in Blocks PROVE FromState(b) = {w \in Seq(Sigma) : Wins({First(b)}, w)}
    <3>1. BlocksOf({First(b)}) = {b} /\ {First(b)} \in SUBSET States
      BY <2>3 DEF BlocksOf, Block
    <3>2. PICK S \in SUBSET States : S = {First(b)}
      BY <3>1
    <3>3. ASSUME NEW w \in Seq(Sigma)
          PROVE  PostWord(quotient, {b}, w) \cap quotient.final # {} <=> Wins(S, w)
      <4>1. PostWord(quotient, BlocksOf(S), w) \cap quotient.final # {} <=> Wins(S, w)
        BY <1>1, QuotientWins
      <4> QED BY <3>1, <3>2, <4>1
    <3> QED BY <2>2, <3>2, <3>3 DEF FromState, Sigma
  <2>7. ASSUME NEW b \in Blocks, NEW c \in Blocks, FromState(b) = FromState(c) PROVE b = c
    <3>1. PICK p, q \in States : p = First(b) /\ q = First(c)
      BY <2>3
    <3>2. \A w \in Seq(Sigma) : Wins({p}, w) <=> Wins({q}, w)
      BY <2>6, <2>7, <3>1
    <3>3. Residual(p) = Residual(q)
      <4>1. Residual(p) = Won({p}, N-1) /\ Residual(q) = Won({q}, N-1)
        BY <2>1, ResidualIs
      <4>2. Won({p}, N-1) = Won({q}, N-1)
        BY <3>2 DEF Won
      <4> QED BY <4>1, <4>2
    <3> QED BY <2>3, <3>1, <3>3
  <2> QED BY <2>2, <2>4, <2>5, <2>7 DEF NoneAlike
<1>2. ASSUME Idle PROVE SameWords /\ NoneAlike
  <2>1. result = dfa /\ \E i \in States : AutStates(dfa) = {i}
    BY <1>2, NothingToDo
  <2> QED BY <2>1 DEF SameWords, NoneAlike
<1>3. HopcroftInv => SameWords /\ NoneAlike
  <2>1. pc # "done" => SameWords /\ NoneAlike
    BY DEF SameWords, NoneAlike
  <2> QED BY <1>1, <1>2, <2>1 DEF HopcroftInv
<1> QED BY <1>3, Invariance, PTL
=============================================================================
