----------------------------- MODULE MCCalculator -----------------------------
(***************************************************************************)
(* The small automata the calculator starts from and its operands.         *)
(***************************************************************************)
EXTENDS Calculator

automaton(n, moves, initial, final) ==
  [delta |-> delta_of(n, moves), initial |-> sparse(initial), final |-> sparse(final)]

Move == (0..1) \X Symbol \X (0..1)

\* Two states and two transitions, or two initial states without epsilons and
\* three transitions that leave state 1.  The automaton of three states becomes, when
\* it is determinized, one whose shortest words end in two final states.
MCBeginnings ==
  {automaton(2, moves, {0}, {1}) : moves \in {m \in SUBSET Move : Cardinality(m) = 2 /\ {t[1] : t \in m} = {0, 1}}}
  \cup {automaton(2, moves, {0, 1}, {0}) :
     moves \in {m \in SUBSET ({1} \X {0, 1} \X (0..1)) : Cardinality(m) = 3}}
  \cup {automaton(3, {<<0, 0, 1>>, <<1, 0, 2>>, <<1, 1, 1>>, <<1, 1, 2>>}, {0}, {2})}

\* 1: words that end in 0, complete.  2: 0*1*, with an epsilon transition.
MCOther ==
  <<automaton(2, {<<0, 0, 1>>, <<0, 1, 0>>, <<1, 0, 1>>, <<1, 1, 0>>}, {0}, {1}),
    automaton(2, {<<0, 0, 0>>, <<0, EPSILON, 1>>, <<1, 1, 1>>}, {0}, {1})>>
=============================================================================
