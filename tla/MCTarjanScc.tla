----------------------------- MODULE MCTarjanScc -----------------------------
(***************************************************************************)
(* TarjanScc over every graph of NumStates states: a state's moves list    *)
(* the targets of a symbol in ascending order, as StatePost::Moves does.   *)
(* Some lists go on with a second symbol, so that a target comes twice.    *)
(***************************************************************************)
EXTENDS TarjanScc

CONSTANT NumStates

MCState == 0..NumStates-1

MCMoveLists ==
  {SetToSortSeq(T, <) : T \in SUBSET MCState} \cup {<<0, 0>>, <<0, 1, 1>>}

\* For three states: since the runs cover every graph, what matters is how
\* many initial states there are and whether their order is that of the moves.
SomeInitialLists == {<< >>, <<0>>, <<2>>, <<0, 1>>, <<2, 0>>, <<1, 2, 0>>}
=============================================================================
