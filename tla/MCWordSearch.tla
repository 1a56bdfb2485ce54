---------------------------- MODULE MCWordSearch ----------------------------
EXTENDS WordSearch

MCState == 0..2
MCSymbol == 1..2

Transition == MCState \X MCSymbol \X MCState

Delta(T) ==
  [q \in MCState |-> [a \in MCSymbol |-> {r \in MCState : <<q, a, r>> \in T}]]

AutomataWith(Is, Fs, Ts) ==
  {[initial |-> I, final |-> F, delta |-> Delta(T)] : I \in Is, F \in Fs, T \in Ts}

\* Up to four transitions, and one or two initial states that may lead to each
\* other; the early returns.
MCInputs ==
  AutomataWith({{0}, {0, 1}}, {{2}}, {{t, u, v, w} : t, u, v, w \in Transition})
  \cup AutomataWith({{}, {0, 2}}, {{}, {1, 2}}, {{t} : t \in Transition})
=============================================================================
