------------------------------ MODULE Hopcroft ------------------------------
(***************************************************************************)
(* nfa::algorithms::minimize_hopcroft(), for deterministic trimmed         *)
(* automata whose transition function may be partial.  The states are      *)
(* partitioned into blocks, the transitions into splitters: those over one *)
(* symbol into one block.  A block is split by the sources of a splitter's *)
(* transitions, which splits the splitters of transitions into it.  Only   *)
(* the part of a splitter that leads to the smaller half of a block is put *)
(* on the stack of splitters still to be used.                             *)
(*                                                                         *)
(* A step marks one state or transition, or splits one block or splitter.  *)
(***************************************************************************)
EXTENDS Automata, SequencesExt, RefinablePartition

CONSTANT Inputs     \* automata over states 0..n-1 and numbers as symbols

\* What the code asserts of its argument.
ASSUME InputsAssumption ==
  \A A \in Inputs :
    /\ IsFiniteSet(AutStates(A)) /\ AutStates(A) = 0..Cardinality(AutStates(A))-1
    /\ IsFiniteSet(AutSymbols(A)) /\ AutSymbols(A) \subseteq Nat
    /\ A \in AutomataOver(AutStates(A), AutSymbols(A))
    /\ \E q \in AutStates(A) : A.initial = {q}
    /\ \A q \in AutStates(A), a \in AutSymbols(A) :
         A.delta[q][a] = {} \/ \E r \in AutStates(A) : A.delta[q][a] = {r}
    /\ UsefulStates(A) = AutStates(A)

VARIABLES
  dfa,              \* the automaton
  trans,            \* its transitions <<source, symbol, target>> in order;
                    \* transition t, counted from 0, is trans[t+1]
  brp, trp,         \* the partitions of states and of transitions
  unready_spls,     \* the three stacks, whose tops are last
  touched_blocks, touched_spls,
  trans_idx,        \* the transition to fire back
  moved,            \* the transitions to mark in split_block(), in order
  unmarked,         \* the final states still to mark
  pc                \* "final", "main" or "done"

input == <<dfa, trans>>
stacks == <<unready_spls, touched_blocks, touched_spls>>
vars == <<input, brp, trp, stacks, trans_idx, moved, unmarked, pc>>

StatesOf(A) == AutStates(A)

\* The elements of T, each after those that before[t] names.
Enumerated(T, before) ==
  [k \in 1..Cardinality(T) |-> CHOOSE t \in T : Cardinality(before[t]) = k-1]

\* Delta::transitions(): by source, then by symbol.
transitions(A) ==
  LET T == {t \in StatesOf(A) \X AutSymbols(A) \X StatesOf(A) : t[3] \in A.delta[t[1]][t[2]]}
  IN  Enumerated(T, [t \in T |->
                       {u \in T : u[1] < t[1] \/ (u[1] = t[1] /\ u[2] < t[2])}])

source(t) == trans[t+1][1]
target(t) == trans[t+1][3]

\* incomming_trans_idxs
incoming(q) ==
  LET T == {t \in 0..Len(trans)-1 : target(t) = q}
  IN  Enumerated(T, [t \in T |-> {u \in T : u < t}])

Init ==
  /\ dfa \in Inputs /\ trans = transitions(dfa)
  /\ brp = of_states(Cardinality(StatesOf(dfa)))
  /\ trp = of_transitions([t \in 0..Len(trans)-1 |-> trans[t+1][2]])
  /\ unready_spls = [k \in 1..trp.num_of_sets |-> k-1]
  /\ touched_blocks = <<>> /\ touched_spls = <<>>
  /\ trans_idx = NO_MORE_ELEMENTS /\ moved = <<>> /\ unmarked = dfa.final
  /\ pc = IF trans = <<>> THEN "done" ELSE "final"

-----------------------------------------------------------------------------
\* split_block() up to the refinement of the splitters, which the transitions
\* into the smaller half start.
split_block(b) ==
  LET halves == split(brp, b)
      new == brp.num_of_sets
      smaller == IF size_of_set(halves, b) < size_of_set(halves, new) THEN b ELSE new
      into == [k \in 1..size_of_set(halves, smaller) |->
                 incoming(halves.elems[halves.first[smaller] + k - 1])]
  IN  brp' = halves /\ moved' = IF splits(brp, b) THEN FlattenSeq(into) ELSE <<>>

\* In the order of the sparse set.
MarkFinal ==
  /\ pc = "final"
  /\ \E q \in unmarked : brp' = mark(brp, q) /\ unmarked' = unmarked \ {q}
  /\ UNCHANGED <<input, trp, stacks, trans_idx, moved, pc>>

SplitByFinal ==
  /\ pc = "final" /\ unmarked = {}
  /\ split_block(0) /\ pc' = "main"
  /\ UNCHANGED <<input, trp, stacks, trans_idx, unmarked>>

\* One transition is marked in its splitter, which the first one touches.
MarkMoved ==
  /\ moved # <<>>
  /\ LET s == trp.set_idx[Head(moved)]
     IN  touched_spls' = IF has_no_marks(trp, s) THEN Append(touched_spls, s)
                         ELSE touched_spls
  /\ trp' = mark(trp, Head(moved)) /\ moved' = Tail(moved)
  /\ UNCHANGED <<input, brp, unready_spls, touched_blocks, trans_idx, unmarked, pc>>

\* A mutant of SplitSplitter: the new splitter is not used.
SplitSplitterSilently ==
  /\ moved = <<>> /\ touched_spls # <<>>
  /\ trp' = split(trp, Last(touched_spls)) /\ touched_spls' = Front(touched_spls)
  /\ UNCHANGED <<input, brp, unready_spls, touched_blocks, trans_idx, moved, unmarked, pc>>

\* The refinement of the touched splitters at the end of split_block().
SplitSplitter ==
  /\ moved = <<>> /\ touched_spls # <<>>
  /\ LET s == Last(touched_spls)
     IN  /\ trp' = split(trp, s)
         /\ unready_spls' = IF splits(trp, s) THEN Append(unready_spls, trp.num_of_sets)
                            ELSE unready_spls
  /\ touched_spls' = Front(touched_spls)
  /\ UNCHANGED <<input, brp, touched_blocks, trans_idx, moved, unmarked, pc>>

\* The main loop is where it takes a splitter: all it touched is dealt with.
between == /\ pc = "main" /\ trans_idx = NO_MORE_ELEMENTS
           /\ moved = <<>> /\ touched_spls = <<>> /\ touched_blocks = <<>>

\* A mutant of TakeSplitter: the splitter stays on the stack.
TakeSplitterWithoutPop ==
  /\ between /\ unready_spls # <<>>
  /\ trans_idx' = get_first(trp, Last(unready_spls))
  /\ UNCHANGED <<input, brp, trp, stacks, moved, unmarked, pc>>

TakeSplitter ==
  /\ between /\ unready_spls # <<>>
  /\ trans_idx' = get_first(trp, Last(unready_spls))
  /\ unready_spls' = Front(unready_spls)
  /\ UNCHANGED <<input, brp, trp, touched_blocks, touched_spls, moved, unmarked, pc>>

\* Backpropagation over one transition.
FireBack ==
  /\ trans_idx # NO_MORE_ELEMENTS
  /\ LET b == brp.set_idx[source(trans_idx)]
     IN  touched_blocks' = IF has_no_marks(brp, b) THEN Append(touched_blocks, b)
                           ELSE touched_blocks
  /\ brp' = mark(brp, source(trans_idx))
  /\ trans_idx' = get_next(trp, trans_idx)
  /\ UNCHANGED <<input, trp, unready_spls, touched_spls, moved, unmarked, pc>>

SplitBlock ==
  /\ trans_idx = NO_MORE_ELEMENTS /\ moved = <<>> /\ touched_spls = <<>>
  /\ touched_blocks # <<>>
  /\ split_block(Last(touched_blocks)) /\ touched_blocks' = Front(touched_blocks)
  /\ UNCHANGED <<input, trp, unready_spls, touched_spls, trans_idx, unmarked, pc>>

Finish ==
  /\ between /\ unready_spls = <<>>
  /\ pc' = "done"
  /\ UNCHANGED <<input, brp, trp, stacks, trans_idx, moved, unmarked>>

Next == \/ MarkFinal \/ SplitByFinal \/ MarkMoved \/ SplitSplitter
        \/ TakeSplitter \/ FireBack \/ SplitBlock \/ Finish

Spec == Init /\ [][Next]_vars /\ WF_vars(Next)

-----------------------------------------------------------------------------
Blocks == 0..brp.num_of_sets-1
BlocksOf(S) == {brp.set_idx[q] : q \in S}

\* A mutant of quotient: the block of the initial state is taken to be 0.
quotient_from_zero ==
  LET of(b) == dfa.delta[get_first(brp, b)]
  IN  [initial |-> {0},
       final |-> {b \in Blocks : get_first(brp, b) \in dfa.final},
       delta |-> [b \in Blocks |-> [a \in DOMAIN of(b) |-> BlocksOf(of(b)[a])]]]

\* The automaton of the blocks, each with the moves of its first state.
quotient ==
  LET of(b) == dfa.delta[get_first(brp, b)]
  IN  [initial |-> BlocksOf(dfa.initial),
       final |-> {b \in Blocks : get_first(brp, b) \in dfa.final},
       delta |-> [b \in Blocks |-> [a \in DOMAIN of(b) |-> BlocksOf(of(b)[a])]]]

\* What is returned in the end.
result == IF trans = <<>> THEN dfa ELSE quotient

-----------------------------------------------------------------------------
Transitions == 0..Len(trans)-1

(* Both partitions are ones, and they fit together: between two calls of   *)
(* split_block() a splitter is all the transitions over one symbol into    *)
(* one block.                                                              *)
PartitionsSound ==
  trans # <<>> =>
    /\ Represents(brp, Cardinality(StatesOf(dfa))) /\ Represents(trp, Len(trans))
    /\ moved = <<>> /\ touched_spls = <<>> =>
         \A t, u \in Transitions :
           trp.set_idx[t] = trp.set_idx[u] <=>
             /\ trans[t+1][2] = trans[u+1][2]
             /\ brp.set_idx[target(t)] = brp.set_idx[target(u)]

\* The words, no longer than it takes to tell two states apart, that lead from
\* state q to a final one.
Residual(q) ==
  {w \in Words(AutSymbols(dfa), Cardinality(StatesOf(dfa))-1) :
     PostWord(dfa, {q}, w) \cap dfa.final # {}}

(* States with the same words are never separated.                         *)
NeverTooFine ==
  \A p, q \in StatesOf(dfa) : Residual(p) = Residual(q) => brp.set_idx[p] = brp.set_idx[q]

(* Where two states of a block move into different blocks over a symbol,   *)
(* or one of them does not move, a splitter on the stack tells them apart, *)
(* although only smaller halves are put there.                             *)
WorklistSuffices ==
  between =>
    \A p, q \in StatesOf(dfa) : brp.set_idx[p] = brp.set_idx[q] =>
      \A t \in Transitions : source(t) = p =>
        LET same == {u \in Transitions : source(u) = q /\ trans[u+1][2] = trans[t+1][2]}
            sets == {trp.set_idx[u] : u \in same \cup {t}}
        IN  \/ same # {} /\ Cardinality(sets) = 1
            \/ \E k \in DOMAIN unready_spls : unready_spls[k] \in sets

RefinementSound == NeverTooFine /\ WorklistSuffices

(* The result has the language of the automaton, and a state for each set  *)
(* of words that a state of the automaton has, which is minimal.           *)
MinimalExact ==
  pc = "done" =>
    /\ Cardinality(AutStates(result)) = Cardinality({Residual(q) : q \in StatesOf(dfa)})
    /\ \A w \in Words(AutSymbols(dfa), Cardinality(StatesOf(dfa))) :
         Accepts(result, w) <=> Accepts(dfa, w)

(* The stacks become empty.                                                *)
Terminates == <>(pc = "done")
=============================================================================
