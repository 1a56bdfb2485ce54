----------------------------- MODULE MCHopcroft -----------------------------
(***************************************************************************)
(* Hopcroft over deterministic trimmed automata with initial state 0: all  *)
(* of up to three states and two symbols, numbered by a search from the    *)
(* initial state; all of four states and one symbol; and those of four     *)
(* states where one symbol is a cycle and the other resets, stays or is    *)
(* missing.                                                                *)
(***************************************************************************)
EXTENDS Hopcroft

WithDelta(n, deltas) ==
  {A \in [initial : {{0}}, final : SUBSET (0..n-1), delta : deltas] :
     UsefulStates(A) = 0..n-1}

Numbered(A) == \/ 1 \in A.delta[0][1]
               \/ 2 \notin A.delta[0][1] /\ 1 \in A.delta[0][2]

Deterministic(n, k) ==
  WithDelta(n, [0..n-1 -> [1..k -> {{}} \cup {{q} : q \in 0..n-1}]])

Cyclic(n) ==
  WithDelta(n, {[q \in 0..n-1 |-> <<{(q + 1) % n}, other[q]>>] :
                  other \in {f \in [0..n-1 -> {{}} \cup {{q} : q \in 0..n-1}] :
                               \A q \in 0..n-1 : f[q] \subseteq {0, q}}})

MCInputs == Deterministic(1, 2) \cup Deterministic(2, 2)
            \cup {A \in Deterministic(3, 2) : Numbered(A)}
            \cup Deterministic(4, 1) \cup Cyclic(4)
=============================================================================
