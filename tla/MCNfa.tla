-------------------------------- MODULE MCNfa --------------------------------
EXTENDS Nfa

CONSTANT NumSymbols

MCSymbol == 1..NumSymbols
MCInsertedWords == {<<1>>, <<1, NumSymbols>>}

\* Reserved by its constructor, or left with a larger domain by an erasure.
States(S, n) == [set |-> S, domain |-> n]

\* Automata to unite or concatenate with: one that accepts the empty word and
\* has no post, one with a loop, one without final states, whose states are all
\* beyond its posts, and one with a choice of moves.
MCOther ==
  {[delta |-> << >>, initial |-> States({0}, 1), final |-> States({0}, 1)],
   [delta |-> <<(<<[symbol |-> 1, targets |-> <<0>>]>>)>>,
    initial |-> States({0}, 1), final |-> States({0}, 1)],
   [delta |-> << >>, initial |-> States({1}, 2), final |-> NoStates],
   [delta |-> <<(<<[symbol |-> 1, targets |-> <<0, 1>>]>>), << >> >>,
    initial |-> States({0}, 1), final |-> States({1}, 2)]}
=============================================================================
