---------------------------- MODULE MCTransducer ----------------------------
(***************************************************************************)
(* The small transducers the calculator starts from and its operands.      *)
(***************************************************************************)
EXTENDS Transducer

transducer(moves, final, levels, n) ==
  [delta |-> delta_of(Len(levels), moves), initial |-> sparse({0}), final |-> sparse(final),
   levels |-> levels, num_of_levels |-> n]

\* None; two tracks, an inner state and a jump; two tracks, a silent half; three
\* tracks, one of them only passed by jumps, and an epsilon round.
MCBeginnings ==
  {EmptyNft(2),
   transducer({<<0, DONT_CARE, 1>>, <<1, 1, 2>>, <<2, 0, 0>>}, {2}, <<0, 1, 0>>, 2),
   transducer({<<0, 0, 1>>, <<1, EPSILON, 2>>, <<2, 1, 0>>}, {2}, <<0, 1, 0>>, 2),
   transducer({<<0, 0, 1>>, <<1, DONT_CARE, 0>>, <<0, EPSILON, 0>>}, {0}, <<0, 2>>, 3)}

MCPartners ==
  {transducer({<<0, 0, 1>>, <<1, 1, 0>>, <<0, 1, 2>>, <<2, EPSILON, 0>>}, {0}, <<0, 1, 1>>, 2),
   transducer({<<0, 0, 0>>, <<0, 1, 1>>, <<1, DONT_CARE, 0>>}, {0}, <<0, 1>>, 2)}

MCInputs ==
  {[delta |-> delta_of(2, {<<0, 0, 0>>, <<0, 1, 1>>}), initial |-> sparse({0}), final |-> sparse({1})]}

\* 0(0|1) and 10*1.
MCPatterns ==
  {<<[delta |-> delta_of(3, {<<0, 0, 1>>, <<1, 1, 2>>, <<1, 0, 2>>}), initial |-> sparse({0}),
      final |-> sparse({2})], {<<0, 1>>, <<0, 0>>}>>,
   <<[delta |-> delta_of(3, {<<0, 1, 1>>, <<1, 0, 1>>, <<1, 1, 2>>}), initial |-> sparse({0}),
      final |-> sparse({2})], {<<1, 1>>, <<1, 0, 1>>}>>}

MCWritten == {<< >>, <<1>>, <<0, 1>>}
=============================================================================
