------------------------- MODULE MCAntichainInclusion -------------------------
EXTENDS AntichainInclusion

MCState == 0..1
MCSymbol == 1..2
Transition == MCState \X MCSymbol \X MCState

Delta(T) ==
  [q \in MCState |-> [a \in MCSymbol |-> {r \in MCState : <<q, a, r>> \in T}]]

AutomataWith(I, F, TS) == {[initial |-> I, final |-> F, delta |-> Delta(T)] : T \in TS}

Two == {{t, u} : t, u \in Transition}
Three == {{t, u, v} : t, u, v \in Transition}

\* Up to three transitions on each side: one starting point; two of smaller
\* that the sets of bigger tell apart or not; the empty word refused at once.
MCInputs ==
  (AutomataWith({0}, {1}, Three) \X AutomataWith({0}, {1}, Three))
  \cup (AutomataWith({0, 1}, {1}, Two) \X AutomataWith({0}, {0}, Three))
  \cup (AutomataWith({0, 1}, {0}, Two) \X AutomataWith({0, 1}, {1}, Three))
  \cup (AutomataWith({0, 1}, {1}, Two) \X AutomataWith({0}, {1}, {{}}))

EmptyRun == {[word |-> << >>, path |-> << >>]}

\* The Run of an earlier call.
UsedRun == {[word |-> <<1>>, path |-> <<0, 1>>]}
=============================================================================
