---------------------------- MODULE NftOperations ----------------------------
(***************************************************************************)
(* The operations of mata::nft that work with the levels: projection,      *)
(* insertion of levels, intersection, composition and application, those   *)
(* that put two transducers one after or beside the other, those that take *)
(* a transducer for an automaton over its symbols, whatever their levels   *)
(* are, and what is answered about the tuples of a transducer.             *)
(***************************************************************************)
EXTENDS NftValues, WordQueries

nft_remove_epsilon(T, epsilon) ==
  with_levels(remove_epsilon(to_nfa_copy(T), epsilon), T.levels, T.num_of_levels)

-----------------------------------------------------------------------------
\* project_out(): tracks in out disappear.  A source is joined with the states
\* that only such tracks lead to.  The code adds to closure[s] while it walks over
\* it; the closure is what that loop is for, an OrdVector that moves in memory
\* under the iterator is not modelled.
projected_along(T, out, q, p) == tracks_between(T, q, p) \subseteq out

projection_closure(T, out) ==
  LET step == [q \in 0..Len(T.delta)-1 |->
                 {t[3] : t \in {u \in trans(T) :
                    u[1] = q /\ level(T, q) \in out /\ projected_along(T, out, q, u[3])}}]
  IN  [q \in DOMAIN step |-> Closure(step, {q})]

\* The least track from which on all tracks are out.
projected_suffix(T, out) ==
  Min({k \in 0..T.num_of_levels : k..T.num_of_levels-1 \subseteq out})

\* What source q gets from a transition of a state it is joined with.
projected_move(T, out, jump_mode, q, t) ==
  LET is_out == level(T, t[1]) \in out
      length == IF level(T, t[1]) = 0 THEN T.num_of_levels ELSE level(T, t[3]) - level(T, t[1])
      is_loop == t[1] = t[3]
  IN  IF projected_along(T, out, t[1], t[3]) \/ (is_out /\ length = 1 /\ ~ is_loop) THEN {}
      ELSE IF is_out THEN {<<q, IF jump_mode = Repeat THEN t[2] ELSE DONT_CARE, t[3]>>}
      ELSE {<<q, t[2], IF is_loop THEN q ELSE t[3]>>}

\* The result before it is trimmed and its levels are renumbered.
projected(T, out, jump_mode) ==
  LET closure == projection_closure(T, out)
      moves == [q \in 0..Len(T.delta)-1 |-> {t \in trans(T) : t[1] = q}]
      joined_with(q) == UNION {moves[p] : p \in closure[q]}
      accepting == {q \in DOMAIN closure :
                      closure[q] \cap T.final.set # {} /\ projected_suffix(T, out) <= level(T, q)}
  IN  [T EXCEPT
        !.delta = delta_of(0, UNION {UNION {projected_move(T, out, jump_mode, q, t) :
                                              t \in joined_with(q)} : q \in DOMAIN closure}),
        !.final = FoldSet(LAMBDA q, S : inserted(S, q), @, accepting)]

\* What project_out() asserts of its arguments; a release build goes on.
project_out_asserts(T, out) == out # {} /\ Max(out) < T.num_of_levels

\* The transducers it may return: the trim at the end leaves any levels that
\* states no longer have.
project_out(T, out, jump_mode) ==
  LET new_level(l) == IF l < projected_suffix(T, out) THEN l - Cardinality({k \in out : k < l}) ELSE 0
      renumbered(U) == [U EXCEPT !.levels = [i \in DOMAIN @ |-> new_level(@[i])],
                                 !.num_of_levels = @ - Cardinality(out)]
      accepted == IF get_useful_states(T) = {} THEN {} ELSE {0}
  IN  IF Cardinality(out) = T.num_of_levels
      THEN {with_levels([delta |-> << << >> >>, initial |-> sparse({0}), final |-> sparse(accepted)], <<0>>, 0)}
      ELSE UNION {{renumbered(nft_trim(U, stale)) : stale \in SUBSET unset_levels(U)} :
                    U \in {projected(T, out, jump_mode)}}

project_to(T, tracks, jump_mode) == project_out(T, (0..T.num_of_levels-1) \ tracks, jump_mode)

-----------------------------------------------------------------------------
\* insert_levels(): mask has an entry for each new track, TRUE where it is
\* inserted.  Tracks keep their order; level 0 stays level 0.
old_tracks(mask) == SelectSeq([i \in 1..Len(mask) |-> i-1], LAMBDA l : ~ mask[l+1])

updated_level(mask, l) == IF l = 0 THEN 0 ELSE old_tracks(mask)[l+1]

\* The next level that a path out of level l has to stop at.
next_inner_level(mask, jump_mode, l) ==
  IF ~ mask[l+1] /\ jump_mode = Repeat THEN l+1
  ELSE Min({Len(mask)} \cup {k \in Range(old_tracks(mask)) : k > l})

\* The way from src at level l to the target of t.  s holds the new moves, the
\* levels, the number for a new state and the inner states to be used again.
RECURSIVE stretch(_, _, _, _, _, _, _)
stretch(s, mask, jump_mode, t, src, l, old_done) ==
  LET stop == IF s.levels[t[3]+1] = 0 THEN Len(mask) - 1 ELSE s.levels[t[3]+1] - 1
      next == next_inner_level(mask, jump_mode, l)
      symbol == IF ~ mask[l+1] /\ (jump_mode = Repeat \/ ~ old_done) THEN t[2] ELSE DONT_CARE
      shared == mask[l+1] /\ ~ old_done
      known == shared /\ <<t[1], next>> \in DOMAIN s.inner
      inner == IF known THEN s.inner[<<t[1], next>>] ELSE s.next
      reached_inner == [s EXCEPT !.moves = @ \cup {<<src, symbol, inner>>},
                                 !.levels = set_level(@, inner, next),
                                 !.next = IF known THEN @ ELSE @ + 1,
                                 !.inner = IF shared THEN <<t[1], next>> :> inner @@ @ ELSE @]
  IN  IF next >= next_inner_level(mask, jump_mode, stop)
      THEN [s EXCEPT !.moves = @ \cup {<<src, symbol, t[3]>>}]
      ELSE stretch(reached_inner, mask, jump_mode, t, inner, next, old_done \/ ~ mask[l+1])

insert_levels(T, mask, jump_mode) ==
  LET start == [moves |-> {}, next |-> num_of_states(T), inner |-> << >>,
                levels |-> [i \in 1..Len(T.levels) |-> updated_level(mask, T.levels[i])]]
      s == FoldLeft(LAMBDA r, t : stretch(r, mask, jump_mode, t, t[1], r.levels[t[1]+1], FALSE),
                    start, in_order(T.delta))
  IN  IF Len(mask) = T.num_of_levels THEN T
      ELSE [T EXCEPT !.delta = delta_of(s.next, s.moves), !.levels = s.levels,
                     !.num_of_levels = Len(mask)]

\* insert_level(): one track, or all tracks up to new_level beyond the last.
insert_level(T, new_level, jump_mode) ==
  insert_levels(T, [i \in 1..Larger(T.num_of_levels, new_level) + 1 |->
                      IF new_level <= T.num_of_levels THEN i = new_level + 1
                      ELSE i > T.num_of_levels], jump_mode)

-----------------------------------------------------------------------------
\* The pair that follows when p and q move to p1 and q1.  With RepeatSymbol a
\* side whose target is deeper stays behind.
deeper(x, y) == y # 0 /\ (y < x \/ x = 0)

waiting(A, B, jump_mode, p, q, p1, q1) ==
  LET x == level(A, p1)
      y == level(B, q1)
      both == jump_mode = Append_ \/ x = y
  IN  <<IF both \/ deeper(y, x) THEN p1 ELSE p, IF both \/ deeper(x, y) THEN q1 ELSE q>>

\* The moves of a pair, <<symbol, pair>>, in the order they are found.
synchronized_moves(A, B, jump_mode, p, q) ==
  LET lhs == state_post(A.delta, p)
      rhs == state_post(B.delta, q)
      common == ordered(SymbolsOf(lhs) \cap SymbolsOf(rhs))
      over(a, ps, qs) == LET found == pairs(ps, qs)
                         IN  [i \in 1..Len(found) |->
                               <<a, waiting(A, B, jump_mode, p, q, found[i][1], found[i][2])>>]
      flipped(a, qs, ps) == LET found == pairs(qs, ps)
                            IN  [i \in 1..Len(found) |->
                                  <<a, waiting(A, B, jump_mode, p, q, found[i][2], found[i][1])>>]
  IN  FlattenSeq([k \in 1..Len(common) |->
        over(common[k], targets_of(lhs, common[k]), targets_of(rhs, common[k]))])
      \o FlattenSeq([k \in 1..Len(rhs) |-> over(rhs[k].symbol, targets_of(lhs, DONT_CARE), rhs[k].targets)])
      \o FlattenSeq([k \in 1..Len(lhs) |-> flipped(lhs[k].symbol, targets_of(rhs, DONT_CARE), lhs[k].targets)])

\* Sources on different levels, AppendDontCares: the deeper one waits.
waiting_moves(A, B, p, q) ==
  IF deeper(level(B, q), level(A, p))
  THEN LET m == in_order(<<state_post(A.delta, p)>>) IN [i \in 1..Len(m) |-> <<m[i][2], <<m[i][3], q>>>>]
  ELSE LET m == in_order(<<state_post(B.delta, q)>>) IN [i \in 1..Len(m) |-> <<m[i][2], <<p, m[i][3]>>>>]

\* Two auxiliary states, those from lhs_aux and rhs_aux on, make no pair.
nft_product_moves(A, B, jump_mode, lhs_aux, rhs_aux, p, q) ==
  SelectSeq(IF jump_mode = Repeat \/ level(A, p) = level(B, q)
            THEN synchronized_moves(A, B, jump_mode, p, q) ELSE waiting_moves(A, B, p, q),
            LAMBDA m : ~ (m[2][1] >= lhs_aux /\ m[2][2] >= rhs_aux))

pair_level(A, B, jump_mode, p, q) ==
  LET both == {level(A, p), level(B, q)}
  IN  IF jump_mode = Repeat \/ 0 \in both THEN Max(both) ELSE Min(both)

\* The transducer of the pairs found, in the order of their numbers.
pairs_found(A, B, jump_mode, moves, begun, found) ==
  with_levels(
    built(found, 0..begun-1,
          {i-1 : i \in {j \in 1..Len(found) : found[j] \in A.final.set \X B.final.set}},
          UNION {{<<i-1, m[1], number_in(found, m[2])>> : m \in Range(moves[found[i]])} :
                   i \in 1..Len(found)}),
    [i \in 1..Len(found) |-> IF i <= begun THEN 0
                             ELSE pair_level(A, B, jump_mode, found[i][1], found[i][2])],
    A.num_of_levels)

pairs_from(A, B, jump_mode, moves, starts) ==
  LET succ == [pq \in DOMAIN moves |-> [k \in 1..Len(moves[pq]) |-> moves[pq][k][2]]]
  IN  pairs_found(A, B, jump_mode, moves, Len(starts), depth_first(succ, starts))

nft_product(A, B, jump_mode, lhs_aux, rhs_aux) ==
  pairs_from(A, B, jump_mode,
             [pq \in (0..num_of_states(A)-1) \X (0..num_of_states(B)-1) |->
                nft_product_moves(A, B, jump_mode, lhs_aux, rhs_aux, pq[1], pq[2])],
             pairs(ordered(A.initial.set), ordered(B.initial.set)))

nft_intersection(A, B, jump_mode, lhs_aux, rhs_aux) ==
  IF no_language(A) \/ no_language(B) THEN EmptyNft(2)
  ELSE nft_product(A, B, jump_mode, lhs_aux, rhs_aux)

-----------------------------------------------------------------------------
\* The masks of compose(), built from one pair of synchronized levels after the
\* other: the levels before the pair, then the shared level itself.
TrueTimes(n) == [i \in 1..n |-> TRUE]
FalseTimes(n) == [i \in 1..n |-> FALSE]

\* The levels before the pair that only one side has are inserted into the other.
\* The offset of one side is added up, that of the other is assigned.
padded(m, lhs_sync, rhs_sync) ==
  LET l == lhs_sync + m.lhs_offset
      r == rhs_sync + m.rhs_offset
  IN  IF l < r THEN [m EXCEPT !.lhs = @ \o TrueTimes(r-l), !.rhs = @ \o FalseTimes(r-l),
                              !.lhs_offset = @ + r - l]
      ELSE IF l > r THEN [m EXCEPT !.lhs = @ \o FalseTimes(l-r), !.rhs = @ \o TrueTimes(l-r),
                                   !.rhs_offset = l - r]
      ELSE [m EXCEPT !.lhs = SubSeq(@ \o FalseTimes(l), 1, l), !.rhs = SubSeq(@ \o FalseTimes(r), 1, r)]

with_shared(m, level_number) ==
  [m EXCEPT !.lhs = Append(@, FALSE), !.rhs = Append(@, FALSE), !.out = @ \cup {level_number}]

\* A mutant of with_sync_level: the shared level is numbered before the padding.
with_sync_level_numbered_early(m, lhs_sync, rhs_sync) ==
  with_shared(padded(m, lhs_sync, rhs_sync), Len(m.lhs))

with_sync_level(m, lhs_sync, rhs_sync) ==
  LET levels == padded(m, lhs_sync, rhs_sync)
  IN  with_shared(levels, Len(levels.lhs))

\* lhs_sync and rhs_sync are ascending sequences of the same length.
sync_masks(A, B, lhs_sync, rhs_sync) ==
  LET least == FalseTimes(Min({Head(lhs_sync), Head(rhs_sync)}))
      m == FoldLeft(LAMBDA s, i : with_sync_level(s, lhs_sync[i], rhs_sync[i]),
                    [lhs |-> least, rhs |-> least, lhs_offset |-> 0, rhs_offset |-> 0, out |-> {}],
                    [i \in 1..Len(lhs_sync) |-> i])
      lhs_suffix == A.num_of_levels - 1 - Last(lhs_sync)
      rhs_suffix == B.num_of_levels - 1 - Last(rhs_sync)
      suffix(own) == FalseTimes(own) \o TrueTimes(Larger(lhs_suffix, rhs_suffix) - own)
  IN  [lhs |-> m.lhs \o suffix(lhs_suffix), rhs |-> m.rhs \o suffix(rhs_suffix), out |-> m.out]

\* Every state of level 0 may wait while the other side moves alone.
insert_self_loops(T, mask) ==
  LET loop == [i \in 1..Len(mask) |-> IF mask[i] THEN DONT_CARE ELSE EPSILON]
  IN  FoldLeft(LAMBDA U, q : nft_insert_word(U, q, loop, q), T,
               SelectSeq([i \in 1..num_of_states(T) |-> i-1], LAMBDA q : level(T, q) = 0))

\* The product that compose() projects the synchronized levels out of.
synchronized(A, B, masks, jump_mode) ==
  LET lhs == insert_levels(A, masks.lhs, jump_mode)
      rhs == insert_levels(B, masks.rhs, jump_mode)
  IN  nft_intersection(insert_self_loops(lhs, masks.lhs), insert_self_loops(rhs, masks.rhs),
                       jump_mode, num_of_states(lhs), num_of_states(rhs))

compose(A, B, lhs_sync, rhs_sync, jump_mode) ==
  LET masks == sync_masks(A, B, lhs_sync, rhs_sync)
  IN  UNION {project_out(both, masks.out, jump_mode) : both \in {synchronized(A, B, masks, jump_mode)}}

compose_asserts(A, B, lhs_sync, rhs_sync, jump_mode) ==
  LET masks == sync_masks(A, B, lhs_sync, rhs_sync)
  IN  project_out_asserts(synchronized(A, B, masks, jump_mode), masks.out)

-----------------------------------------------------------------------------
\* builder::create_from_nfa(): states are numbered as they are met; a symbol of
\* a state is repeated along one path of n-1 new states for all its targets.
\* s holds the numbers, the next number, the moves and the levels.
numbered(s, q) ==
  IF q \in DOMAIN s.number THEN s
  ELSE [s EXCEPT !.number = q :> s.next @@ @, !.next = @ + 1]

from_symbol_post(s, q, sp, n, next_levels_symbol, epsilons) ==
  LET long == IF sp.symbol \in epsilons THEN 0 ELSE n - 1
      state(i) == IF i = 0 THEN s.number[q] ELSE s.next + i - 1
      later == IF next_levels_symbol = << >> THEN sp.symbol ELSE next_levels_symbol[1]
      path == {<<state(i), IF i = 0 THEN sp.symbol ELSE later, state(i+1)>> : i \in 0..long-1}
      walked == [s EXCEPT !.next = @ + long, !.moves = @ \cup path,
                          !.levels = FoldLeft(LAMBDA ls, i : set_level(ls, state(i), i), @,
                                              [i \in 1..long+1 |-> i-1])]
  IN  FoldLeft(LAMBDA r, p : LET seen == numbered(r, p)
                             IN  [seen EXCEPT !.moves = @ \cup {<<state(long), later, seen.number[p]>>}],
               walked, sp.targets)

create_from_nfa(A, n, next_levels_symbol, epsilons) ==
  LET from_state(s, q) ==
        FoldLeft(LAMBDA r, sp : from_symbol_post(r, q, sp, n, next_levels_symbol, epsilons),
                 numbered(s, q), state_post(A.delta, q))
      s == FoldLeft(from_state, [number |-> << >>, next |-> 0, moves |-> {}, levels |-> << >>],
                    [i \in 1..num_of_states(A) |-> i-1])
      delta == delta_of(0, s.moves)
  IN  with_levels([delta |-> delta, initial |-> sparse({s.number[q] : q \in A.initial.set}),
                   final |-> sparse({s.number[q] : q \in A.final.set})],
                  SubSeq(set_level(s.levels, s.next + Len(delta), 0), 1, Len(delta)), n)

\* apply() composes the identity with the transducer, its last track with level
\* at; apply_backward() the transducer, level at, with the identity.
identity_for(T, A) == create_from_nfa(A, T.num_of_levels, << >>, {EPSILON})

apply(T, A, at, jump_mode) ==
  compose(identity_for(T, A), T, <<T.num_of_levels-1>>, <<at>>, jump_mode)

apply_backward(T, A, at, jump_mode) == compose(T, identity_for(T, A), <<at>>, <<0>>, jump_mode)

-----------------------------------------------------------------------------
\* Nft::uni(): side by side.  The levels of the other one are not taken over.
uni(T, U) ==
  LET n == num_of_states(T)
      joint(S, R) == shifted_into(S, n, R.set, n + num_of_states(U))
  IN  [T EXCEPT !.delta = allocate(@, n) \o renumber_targets(U.delta, n),
                !.initial = joint(@, U.initial), !.final = joint(@, U.final)]

nft_concatenate(T, U) ==
  with_levels(concatenate(to_nfa_copy(T), to_nfa_copy(U)), T.levels \o U.levels, T.num_of_levels)

\* concatenate_eps(): all states of the result have level 0.
nft_concatenate_eps(T, U, epsilon, use_epsilon) ==
  LET n == num_of_states(T) + num_of_states(U)
  IN  IF no_language(T) \/ no_language(U) THEN EmptyNft(T.num_of_levels)
      ELSE with_levels(concatenate_eps(to_nfa_copy(T), to_nfa_copy(U), epsilon, use_epsilon),
                       [i \in 1..n |-> 0], T.num_of_levels)

-----------------------------------------------------------------------------
\* Results built from Nft{}: two levels; allocated states have no level, added
\* ones have level 0.
nft_revert(T) == with_levels(revert(to_nfa_copy(T)), << >>, 2)

nft_determinize(T) == as_nft(determinize(to_nfa_copy(T)))

nft_minimize_brzozowski(T) == nft_determinize(nft_revert(nft_determinize(nft_revert(T))))

nft_reduce(T) == as_nft(reduce_size_by_simulation(to_nfa_copy(T)))

\* complement_classical() of transducers: nothing is trimmed, a macrostate
\* without states is its own sink, a new sink has no level.
nft_complement(T, symbols, minimize) ==
  LET A == IF minimize THEN nft_minimize_brzozowski(T) ELSE nft_determinize(T)
      dead == IF minimize THEN A.final.set = {} ELSE T.initial.set = {}
      sink == IF dead THEN 0 ELSE num_of_states(A)
  IN  with_levels(complement_deterministic_at(to_nfa_copy(A), symbols, sink), A.levels, 2)

nft_is_universal_naive(T, symbols) == is_lang_empty(to_nfa_copy(nft_complement(T, symbols, FALSE)))

\* is_universal_antichains() is the one of automata.
nft_is_universal_antichains(T, symbols) == is_universal_antichains(to_nfa_copy(T), symbols)

\* are_equivalent(): as automata, when every jump is spelt out and DONT_CARE
\* stands for the symbols that occur.
nft_are_equivalent(T, U, jump_mode) ==
  LET used == {t[2] : t \in trans(T) \cup trans(U)}
      symbols == IF Cardinality(used) > 1 THEN used \ {DONT_CARE} ELSE used
      spelt_out(V) == to_nfa_copy(get_one_level_aut(V, symbols, jump_mode))
  IN  T.num_of_levels = U.num_of_levels /\ are_equivalent(spelt_out(T), spelt_out(U))

-----------------------------------------------------------------------------
\* A mutant of read_along: EPSILON is read from the tuple as other symbols are.
read_along_epsilon(T, tuple, c, t) ==
  LET l == level(T, c[1])
      n == T.num_of_levels
      passes == IF level(T, t[3]) > l THEN l..level(T, t[3])-1
                ELSE (l..n-1) \cup (0..level(T, t[3])-1)
      tracks == IF t[2] = DONT_CARE THEN passes ELSE {l}
  IN  IF \E k \in tracks : c[2][k] = Len(tuple[k]) THEN {}
      ELSE IF t[2] \in {EPSILON, DONT_CARE} \/ t[2] = tuple[l][c[2][l]+1]
      THEN {<<t[3], [k \in DOMAIN tuple |-> IF k \in tracks THEN c[2][k] + 1 ELSE c[2][k]]>>}
      ELSE {}

\* is_tuple_in_lang(): a configuration is a state and the number of symbols
\* read on each track.  A specific symbol is read on the track of its source,
\* DONT_CARE on all the tracks it passes.
read_along(T, tuple, c, t) ==
  LET l == level(T, c[1])
      n == T.num_of_levels
      passes == IF level(T, t[3]) > l THEN l..level(T, t[3])-1
                ELSE (l..n-1) \cup (0..level(T, t[3])-1)
      tracks == IF t[2] = EPSILON THEN {} ELSE IF t[2] = DONT_CARE THEN passes ELSE {l}
  IN  IF \E k \in tracks : c[2][k] = Len(tuple[k]) THEN {}
      ELSE IF t[2] \in {EPSILON, DONT_CARE} \/ t[2] = tuple[l][c[2][l]+1]
      THEN {<<t[3], [k \in DOMAIN tuple |-> IF k \in tracks THEN c[2][k] + 1 ELSE c[2][k]]>>}
      ELSE {}

\* The queue, one round after the other: the configurations that are reached by
\* as many transitions.  No configuration is remembered, so the search ends by a
\* tuple that is read to its end or by an empty queue; a round that was there
\* before returns for ever.
RECURSIVE read_on(_, _, _, _, _)
read_on(T, moves, tuple, round, earlier) ==
  LET next == UNION {UNION {read_along(T, tuple, c, t) : t \in moves[c[1]]} : c \in round}
  IN  IF \E c \in round : c[1] \in T.final.set /\ \A k \in DOMAIN tuple : c[2][k] = Len(tuple[k])
      THEN "accepted"
      ELSE IF round = {} THEN "rejected"
      ELSE IF round \in earlier THEN "never returns"
      ELSE read_on(T, moves, tuple, next, earlier \cup {round})

is_tuple_in_lang(T, tuple) ==
  LET moves == FoldSet(LAMBDA t, f : [f EXCEPT ![t[1]] = @ \cup {t}],
                       [q \in 0..num_of_states(T)-1 |-> {}], trans(T))
  IN  read_on(T, moves, tuple, T.initial.set \X {[k \in DOMAIN tuple |-> 0]}, {})
=============================================================================
