---------------------------- MODULE MCDeterminize ----------------------------
EXTENDS Determinize

CONSTANTS NumStates, NumSymbols

MCState == 0..NumStates-1
MCSymbol == 1..NumSymbols

\* Up to four transitions; none, one or two initial states, and a final state
\* that may be one of them.
Transition == MCState \X MCSymbol \X MCState

MCInputs ==
  {[initial |-> I, final |-> {NumStates-1},
    delta |-> [q \in MCState |-> [a \in MCSymbol |-> {r \in MCState : <<q, a, r>> \in T}]]] :
      I \in {{}, {0}, {0, NumStates-1}},
      T \in {{t, u, v, w} : t, u, v, w \in Transition}}
=============================================================================
