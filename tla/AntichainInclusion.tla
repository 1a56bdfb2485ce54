-------------------------- MODULE AntichainInclusion --------------------------
(***************************************************************************)
(* algorithms::is_included_antichains(): does smaller accept only words    *)
(* that bigger accepts?  It searches pairs (q, S) of a state of smaller    *)
(* and the set of states bigger can be in after the same word.  A pair is  *)
(* dropped when one with the same state and a subset is known; a pair that *)
(* shows a counterexample, at once or by the distances to final states,    *)
(* ends the search.                                                        *)
(*                                                                         *)
(* A step handles one transition of smaller from the pair in hand.  The    *)
(* third component of the code's tuples is min_dst(S), a function of S,    *)
(* and is left out of the pairs.                                           *)
(***************************************************************************)
EXTENDS Automata, SequencesExt

CONSTANTS
  StateS, StateB, Symbol,     \* numbers
  Inputs,                     \* the pairs <<smaller, bigger>> to compare
  Handed                      \* what the caller's Run may hold, [word, path]

ASSUME AntichainAssumption ==
  /\ IsFiniteSet(StateS) /\ IsFiniteSet(StateB)
  /\ StateS \subseteq Nat /\ Symbol \subseteq Nat
  /\ Inputs \subseteq AutomataOver(StateS, Symbol) \X AutomataOver(StateB, Symbol)

VARIABLES
  smaller, bigger,
  distances_smaller, distances_bigger,
  worklist,         \* pairs to be expanded, the last one first
  processed,        \* the antichain of pairs seen
  paths,            \* how a pair was reached: [from, symbol]
  prod_state,       \* the pair in hand
  todo,             \* its transitions <<symbol, target>> that are left
  cex,              \* the caller's Run
  answer            \* "none", "included" or "not included"

input == <<smaller, bigger, distances_smaller, distances_bigger>>

vars == <<input, worklist, processed, paths, prod_state, todo, cex, answer>>

Far == Cardinality(StateS) + Cardinality(StateB) + 1    \* Limits::max_state

\* Lengths of shortest accepted words: the final states, then what leads to
\* them, layer by layer; a state's distance is the number of layers without it.
distances_to_final(A) ==
  LET near[n \in 0..Far-1] ==
        IF n = 0 THEN A.final
        ELSE LET seen == near[n-1]
             IN  seen \cup {q \in AutStates(A) : AutSuccessors(A)[q] \cap seen # {}}
  IN  [q \in AutStates(A) |->
         IF q \in near[Far-1] THEN Cardinality({n \in 0..Far-1 : q \notin near[n]}) ELSE Far]

min_dst(S) == Min({Far} \cup {distances_bigger[q] : q \in S})

subsumes(p, r) == p[1] = r[1] /\ p[2] \subseteq r[2]

\* The runs of smaller from q are too short for bigger to follow.
lengths_incompatible(p) == distances_smaller[p[1]] < min_dst(p[2])

shows_cex(p) == p[1] \in smaller.final /\ p[2] \cap bigger.final = {}

-----------------------------------------------------------------------------
\* What the code reads off paths: the pairs from p back to an initial one.
Trace(p) ==
  LET back[n \in 0..Cardinality(DOMAIN paths)] ==
        IF n = 0 THEN <<p>>
        ELSE LET b == back[n-1]
                 last == Last(b)
             IN  IF paths[last].from = last THEN b ELSE Append(b, paths[last].from)
  IN  back[Cardinality(DOMAIN paths)]

\* The transitions of q in the order of the code.
Earlier(m, n) == m[1] < n[1] \/ (m[1] = n[1] /\ m[2] < n[2])
MovesOf(A, q) == {m \in Symbol \X StateS : m[2] \in A.delta[q][m[1]]}

\* get_shortest_accepting_run_from_state(): the first move that gets nearer.
Leftover(q) ==
  LET nearer(p) == {m \in MovesOf(smaller, p) : distances_smaller[m[2]] < distances_smaller[p]}
      first(p) == CHOOSE m \in nearer(p) : \A n \in nearer(p) : n = m \/ Earlier(m, n)
      run[n \in 0..Far] ==
        IF n = 0 THEN [word |-> << >>, path |-> <<q>>]
        ELSE LET r == run[n-1]
                 p == Last(r.path)
             IN  IF p \in smaller.final THEN r
                 ELSE [word |-> Append(r.word, first(p)[1]),
                       path |-> Append(r.path, first(p)[2])]
  IN  run[Far]

\* A mutant of Counterexample: the run stops where the lengths disagree.
CounterexampleCutShort(a, q) ==
  LET trace == Trace(prod_state)
      symbols == [i \in 1..Len(trace)-1 |-> paths[trace[i]].symbol]
      states == [i \in 1..Len(trace) |-> trace[i][1]]
  IN  [word |-> Reverse(cex.word \o <<a>> \o symbols),
       path |-> Append(Reverse(cex.path \o states), q)]

\* The Run written when smaller's move <<a, q>> shows a counterexample.
Counterexample(a, q) ==
  LET trace == Trace(prod_state)
      symbols == [i \in 1..Len(trace)-1 |-> paths[trace[i]].symbol]
      states == [i \in 1..Len(trace) |-> trace[i][1]]
  IN  [word |-> Reverse(cex.word \o <<a>> \o symbols) \o Leftover(q).word,
       path |-> Reverse(cex.path \o states) \o Leftover(q).path]

-----------------------------------------------------------------------------
\* The loop over the initial states: it returns at a final one, or else
\* enters all of them, in the order in which the sparse set holds them.
Init ==
  /\ \E pair \in Inputs : smaller = pair[1] /\ bigger = pair[2]
  /\ distances_smaller = distances_to_final(smaller)
  /\ distances_bigger = distances_to_final(bigger)
  /\ todo = {} /\ prod_state = << >>
  /\ LET first == {<<q, bigger.initial>> : q \in smaller.initial}
         empty == {q \in smaller.initial : q \in smaller.final
                                             /\ bigger.initial \cap bigger.final = {}}
     IN  IF empty # {}
         THEN /\ cex \in {[word |-> << >>, path |-> <<q>>] : q \in empty}
              /\ answer = "not included"
              /\ worklist = << >> /\ processed = {} /\ paths = << >>
         ELSE /\ worklist \in SetToSeqs(first)
              /\ processed = first
              /\ paths = [p \in first |-> [from |-> p, symbol |-> 0]]
              /\ cex \in Handed /\ answer = "none"

\* A mutant of TakePair: the pair stays on the worklist.
TakePairWithoutPop ==
  /\ answer = "none" /\ todo = {} /\ worklist # << >>
  /\ prod_state' = Last(worklist)
  /\ todo' = MovesOf(smaller, prod_state'[1])
  /\ UNCHANGED <<input, worklist, processed, paths, cex, answer>>

TakePair ==
  /\ answer = "none" /\ todo = {} /\ worklist # << >>
  /\ prod_state' = Last(worklist)
  /\ worklist' = Front(worklist)
  /\ todo' = MovesOf(smaller, prod_state'[1])
  /\ UNCHANGED <<input, processed, paths, cex, answer>>

NextMove(m) == m \in todo /\ \A n \in todo : n = m \/ Earlier(m, n)

succ(m) == <<m[2], Post(bigger, prod_state[2], m[1])>>

\* A pair that shows a counterexample ends the search.
Refute ==
  \E m \in todo :
    /\ answer = "none" /\ NextMove(m)
    /\ lengths_incompatible(succ(m)) \/ shows_cex(succ(m))
    /\ cex' = Counterexample(m[1], m[2])
    /\ answer' = "not included"
    /\ UNCHANGED <<input, worklist, processed, paths, prod_state, todo>>

Subsumed(p) == \E r \in processed : subsumes(r, p)

\* A mutant of SkipSubsumed: any known pair of the same state will do.
SkipSameState ==
  \E m \in todo :
    /\ answer = "none" /\ NextMove(m)
    /\ ~ lengths_incompatible(succ(m)) /\ ~ shows_cex(succ(m))
    /\ \E r \in processed : r[1] = m[2]
    /\ todo' = todo \ {m}
    /\ UNCHANGED <<input, worklist, processed, paths, prod_state, cex, answer>>

SkipSubsumed ==
  \E m \in todo :
    /\ answer = "none" /\ NextMove(m)
    /\ ~ lengths_incompatible(succ(m)) /\ ~ shows_cex(succ(m))
    /\ Subsumed(succ(m))
    /\ todo' = todo \ {m}
    /\ UNCHANGED <<input, worklist, processed, paths, prod_state, cex, answer>>

\* std::erase_if() on a list of pairs: those that p subsumes go.
Unsubsumed(list, p) ==
  LET kept[n \in 0..Len(list)] ==
        IF n = 0 THEN << >>
        ELSE IF subsumes(p, list[n]) THEN kept[n-1] ELSE Append(kept[n-1], list[n])
  IN  kept[Len(list)]

PathsWith(p, entry) ==
  [r \in DOMAIN paths \cup {p} |-> IF r = p THEN entry ELSE paths[r]]

\* A mutant of AddPair: pairs are pruned the wrong way round.
AddPairPruningSmaller ==
  \E m \in todo :
    /\ answer = "none" /\ NextMove(m)
    /\ ~ lengths_incompatible(succ(m)) /\ ~ shows_cex(succ(m))
    /\ ~ Subsumed(succ(m))
    /\ processed' = {p \in processed : ~ subsumes(p, succ(m))} \cup {succ(m)}
    /\ worklist' = Append(SelectSeq(worklist, LAMBDA p : ~ subsumes(p, succ(m))), succ(m))
    /\ paths' = PathsWith(succ(m), [from |-> prod_state, symbol |-> m[1]])
    /\ todo' = todo \ {m}
    /\ UNCHANGED <<input, prod_state, cex, answer>>

\* A new pair replaces those that it subsumes.
AddPair ==
  \E m \in todo :
    /\ answer = "none" /\ NextMove(m)
    /\ ~ lengths_incompatible(succ(m)) /\ ~ shows_cex(succ(m))
    /\ ~ Subsumed(succ(m))
    /\ processed' = {p \in processed : ~ subsumes(succ(m), p)} \cup {succ(m)}
    /\ worklist' = Append(Unsubsumed(worklist, succ(m)), succ(m))
    /\ paths' = PathsWith(succ(m), [from |-> prod_state, symbol |-> m[1]])
    /\ todo' = todo \ {m}
    /\ UNCHANGED <<input, prod_state, cex, answer>>

Conclude ==
  /\ answer = "none" /\ todo = {} /\ worklist = << >>
  /\ answer' = "included"
  /\ UNCHANGED <<input, worklist, processed, paths, prod_state, todo, cex>>

Next == TakePair \/ Refute \/ SkipSubsumed \/ AddPair \/ Conclude

Spec == Init /\ [][Next]_vars /\ WF_vars(Next)

-----------------------------------------------------------------------------
Pair == StateS \X SUBSET StateB

(* Types; paths can be followed from every pair that is expanded.          *)
TypeOK ==
  /\ worklist \in Seq(Pair) /\ processed \subseteq Pair
  /\ DOMAIN paths \subseteq Pair
  /\ \A p \in DOMAIN paths : paths[p].from \in DOMAIN paths
  /\ todo \subseteq Symbol \X StateS
  /\ todo # {} => prod_state \in DOMAIN paths
  /\ answer \in {"none", "included", "not included"}

(* No pair that is kept subsumes another, and what waits is kept: pruning  *)
(* one list and not the other would expand a pair for nothing or lose one. *)
Antichain ==
  /\ \A p, r \in processed : subsumes(p, r) => p = r
  /\ Range(worklist) \subseteq processed

\* The successors of a pair, whatever subsumes it.
PairSucc(p) == {<<m[2], Post(bigger, p[2], m[1])>> : m \in MovesOf(smaller, p[1])}

(* Nothing is lost by dropping pairs: a pair that is kept and not waiting  *)
(* has all its successors subsumed by kept pairs, up to the transitions    *)
(* still to be looked at, and no kept pair shows a counterexample.         *)
Covered ==
  answer # "not included" =>
    /\ \A q \in smaller.initial : Subsumed(<<q, bigger.initial>>)
    /\ \A p \in processed : ~ shows_cex(p)
    /\ \A p \in processed \ Range(worklist) : \A s \in PairSucc(p) :
         Subsumed(s) \/ (p = prod_state /\ \E m \in todo : s = succ(m))

(* The pairs that are kept are an antichain and stand for all that have    *)
(* been met.                                                               *)
AntichainSound == TypeOK /\ Antichain /\ Covered

\* The pairs of a state of A and the set of states of B after the same word.
PairSteps(A, B) ==
  [p \in Pair |-> {s \in Pair : \E a \in Symbol :
                     s[1] \in A.delta[p[1]][a] /\ s[2] = Post(B, p[2], a)}]
MetPairs(A, B) == Closure(PairSteps(A, B), {<<q, B.initial>> : q \in A.initial})

\* Inclusion by its definition: no word leads to a pair that refutes it.
Included(A, B) ==
  \A p \in MetPairs(A, B) : p[1] \in A.final => p[2] \cap B.final # {}

(* The answer is right, although pairs are dropped and the search is left  *)
(* early when the distances to final states cannot be reconciled.          *)
AnswerExact ==
  answer # "none" => (answer = "included" <=> Included(smaller, bigger))

(* The Run returned is a run of smaller over a word that smaller accepts   *)
(* and bigger rejects, also when the search was left before its end.       *)
CexExact ==
  answer = "not included" =>
    /\ Len(cex.path) = Len(cex.word) + 1
    /\ cex.path[1] \in smaller.initial /\ Last(cex.path) \in smaller.final
    /\ \A i \in 1..Len(cex.word) :
         cex.path[i+1] \in smaller.delta[cex.path[i]][cex.word[i]]
    /\ ~ Accepts(bigger, cex.word)

(* The search ends.                                                        *)
Terminates == <>(answer # "none")
=============================================================================
