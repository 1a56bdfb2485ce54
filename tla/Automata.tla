------------------------------ MODULE Automata ------------------------------
(***************************************************************************)
(* The mathematics the algorithms are measured against: successor graphs,  *)
(* nondeterministic finite automata, runs and bounded languages.  Nothing  *)
(* here models code.                                                       *)
(*                                                                         *)
(* A graph is a function from states to sets of states.  An automaton is a *)
(* record [initial, final, delta], delta[q][a] the set of a-successors of  *)
(* q; its states and symbols are the domains of delta.                     *)
(***************************************************************************)
EXTENDS Naturals, Sequences, FiniteSets

(* States that a path of succ starting in S visits. *)
Closure(succ, S) ==
  LET within[n \in 0..Cardinality(DOMAIN succ)] ==
        IF n = 0 THEN S
        ELSE LET seen == within[n-1] IN seen \cup UNION {succ[q] : q \in seen}
  IN  within[Cardinality(DOMAIN succ)]

Reaches(succ, p, q) == q \in Closure(succ, {p})

\* States from which succ leads into S.
CoClosure(succ, S) == {p \in DOMAIN succ : Closure(succ, {p}) \cap S # {}}

\* The strongly connected components that S leads to.
Components(succ, S) ==
  {{q \in DOMAIN succ : Reaches(succ, p, q) /\ Reaches(succ, q, p)} :
     p \in Closure(succ, S)}

-----------------------------------------------------------------------------
AutStates(A) == DOMAIN A.delta
AutSymbols(A) == UNION {DOMAIN A.delta[q] : q \in AutStates(A)}

\* All automata over the given states and symbols.
AutomataOver(states, symbols) ==
  [initial : SUBSET states, final : SUBSET states,
   delta : [states -> [symbols -> SUBSET states]]]

Post(A, S, a) == UNION {A.delta[q][a] : q \in S}

AutSuccessors(A) ==
  [q \in AutStates(A) |-> UNION {A.delta[q][a] : a \in DOMAIN A.delta[q]}]

\* Reachable and able to reach a final state.
UsefulStates(A) ==
  Closure(AutSuccessors(A), A.initial) \cap CoClosure(AutSuccessors(A), A.final)

-----------------------------------------------------------------------------
Words(symbols, n) == UNION {[1..k -> symbols] : k \in 0..n}

\* The states word w leads to from S.
PostWord(A, S, w) ==
  LET after[k \in 0..Len(w)] == IF k = 0 THEN S ELSE Post(A, after[k-1], w[k])
  IN  after[Len(w)]

Accepts(A, w) == PostWord(A, A.initial, w) \cap A.final # {}
=============================================================================
