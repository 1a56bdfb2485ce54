---------------------------- MODULE NfaOperations ----------------------------
(***************************************************************************)
(* The operations of mata::nfa that make an automaton from one or two:     *)
(* reversal, determinization, epsilon removal, products, concatenation     *)
(* over an epsilon, complement, difference and Brzozowski's minimization.  *)
(*                                                                         *)
(* An operation that adds the transitions of its result one by one is      *)
(* modelled by the delta that holds them all (delta_of).                   *)
(***************************************************************************)
EXTENDS NfaValues

CONSTANT EPSILON    \* Limits::max_symbol, the default epsilon

trans(A) == transitions(A.delta)

\* An automaton whose states are the found items: the first of them initial.
built(found, initial, final, moves) ==
  [delta |-> delta_of(Len(found), moves), initial |-> sparse(initial), final |-> sparse(final)]

-----------------------------------------------------------------------------
\* An operation numbers what it finds (macrostates, pairs of states) in the order
\* of discovery and takes the next item from one end of a list.  succ maps an item
\* to the sequence of its successors, in the order the code comes to them; found
\* lists the items in the order of their numbers.

\* s without repetitions and without what is known.
unseen(s, known) ==
  FoldLeft(LAMBDA new, x : IF x \in known \cup Range(new) THEN new
                           ELSE Append(new, x), << >>, s)

RECURSIVE last_first(_, _, _)
last_first(succ, found, worklist) ==
  IF worklist = << >> THEN found
  ELSE LET new == unseen(succ[Last(worklist)], Range(found))
       IN  last_first(succ, found \o new, Front(worklist) \o new)

\* What a search that takes the newest item first finds.
depth_first(succ, starts) == last_first(succ, starts, starts)

\* The number of an item.
number_in(found, x) == (CHOOSE i \in 1..Len(found) : found[i] = x) - 1

-----------------------------------------------------------------------------
\* What a loop over Delta::transitions() sees, from the iterator it on.
RECURSIVE listing_from(_, _)
listing_from(delta, it) ==
  IF it.is_end THEN << >> ELSE <<it.at>> \o listing_from(delta, advance(delta, it))

\* The whole loop.
listing(delta) == listing_from(delta, begin_at(delta, 0))

\* Delta::operator==: the two listings side by side, up to a difference.
equal(delta, other) ==
  LET these == listing(delta)
      others == listing(other)
  IN  /\ \A i \in 1..Len(these) : i <= Len(others) /\ these[i] = others[i]
      /\ Len(others) <= Len(these)

get_max_symbol(delta) ==
  FoldLeft(LAMBDA m, t : Larger(m, t[2]), 0, listing(delta))

-----------------------------------------------------------------------------
\* The transitions in the order in which the nested loops over states, symbol
\* posts and targets come to them.
in_order(delta) ==
  FlattenSeq([i \in 1..Len(delta) |-> FlattenSeq([k \in 1..Len(delta[i]) |->
    [j \in 1..Len(delta[i][k].targets) |->
       <<i-1, delta[i][k].symbol, delta[i][k].targets[j]>>]])])

simple_revert(A) ==
  [delta |-> delta_of(num_of_states(A), {<<t[3], t[2], t[1]>> : t \in trans(A)}),
   initial |-> A.final, final |-> A.initial]

\* A mutant of fragile_revert: the posts are built with EPSILON first.
fragile_revert_epsilon_first(A) ==
  LET reverted == simple_revert(A)
      over(post) == SelectSeq(post, LAMBDA sp : sp.symbol = EPSILON)
      others(post) == SelectSeq(post, LAMBDA sp : sp.symbol # EPSILON)
  IN  [reverted EXCEPT !.delta = [i \in 1..Len(@) |-> over(@[i]) \o others(@[i])]]

\* Sources are pushed back on the posts, symbol by symbol and EPSILON last;
\* that they come in order makes the targets ordered.
fragile_revert(A) ==
  LET used == {t[2] : t \in trans(A)}
      symbols == ordered(used \ {EPSILON}) \o (IF EPSILON \in used THEN <<EPSILON>> ELSE << >>)
      sources(q, a) == SelectSeq(in_order(A.delta), LAMBDA t : t[2] = a /\ t[3] = q)
      pushed(q, a) == [symbol |-> a, targets |-> [i \in 1..Len(sources(q, a)) |-> sources(q, a)[i][1]]]
  IN  [delta |-> [i \in 1..num_of_states(A) |->
                    SelectSeq([k \in 1..Len(symbols) |-> pushed(i-1, symbols[k])],
                              LAMBDA sp : sp.targets # << >>)],
       initial |-> A.final, final |-> A.initial]

\* Sources are pushed back on a post that is looked up; the targets are sorted
\* in the end.
somewhat_simple_revert(A) ==
  LET push(post, t) ==
        IF t[2] \in SymbolsOf(post)
        THEN [post EXCEPT ![place_of(post, t[2])].targets = Append(@, t[1])]
        ELSE InsertAt(post, place_of(post, t[2]), [symbol |-> t[2], targets |-> <<t[1]>>])
      sorted(post) == [k \in 1..Len(post) |-> [post[k] EXCEPT !.targets = ordered(Range(@))]]
  IN  [delta |-> [i \in 1..num_of_states(A) |->
                    sorted(FoldLeft(push, << >>,
                             SelectSeq(in_order(A.delta), LAMBDA t : t[3] = i-1)))],
       initial |-> A.final, final |-> A.initial]

revert(A) == simple_revert(A)

-----------------------------------------------------------------------------
\* Nfa::post().
post(A, S, a) == UNION {targets_over(state_post(A.delta, q), a) : q \in S}

symbols_from(A, S) == ordered(UNION {SymbolsOf(state_post(A.delta, q)) : q \in S})

\* determinize() without a callback; the macrostates by their numbers.
macrostates(A) ==
  LET succ == [S \in SUBSET (0..num_of_states(A)-1) |->
                 LET symbols == symbols_from(A, S)
                 IN  [k \in 1..Len(symbols) |-> post(A, S, symbols[k])]]
  IN  depth_first(succ, <<A.initial.set>>)

determinized(A, found) ==
  built(found, {0}, {i-1 : i \in {j \in 1..Len(found) : found[j] \cap A.final.set # {}}},
        UNION {{<<i-1, a, number_in(found, post(A, found[i], a))>> :
                  a \in Range(symbols_from(A, found[i]))} : i \in 1..Len(found)})

determinize(A) == determinized(A, macrostates(A))

minimize_brzozowski(A) == determinize(revert(determinize(revert(A))))

-----------------------------------------------------------------------------
\* remove_epsilon(): the closures of the states that have transitions.
eps_closure(A, epsilon) ==
  LET step == [q \in 0..num_of_states(A)-1 |-> post(A, {q}, epsilon)]
  IN  [q \in {t[1] : t \in trans(A)} |-> Closure(step, {q})]

remove_epsilon(A, epsilon) ==
  LET closure == eps_closure(A, epsilon)
      accepting == {q \in DOMAIN closure : closure[q] \cap A.final.set # {}}
  IN  [delta |-> delta_of(0, UNION {{<<q, t[2], t[3]>> :
         t \in {u \in trans(A) : u[1] \in closure[q] /\ u[2] # epsilon}} : q \in DOMAIN closure}),
       initial |-> A.initial,
       final |-> FoldSet(LAMBDA q, S : inserted(S, q), A.final, accepting)]

get_one_letter_aut(A, a) ==
  [A EXCEPT !.delta = delta_of(num_of_states(A), {<<t[1], a, t[3]>> : t \in trans(A)})]

-----------------------------------------------------------------------------
\* The moves of a pair of states: over common symbols below first_epsilon, then
\* lhs moves alone over its epsilons, then rhs over its own.  Pairs lie in the
\* order in which they are numbered.
targets_of(sp, a) == IF a \in SymbolsOf(sp) THEN sp[place_of(sp, a)].targets ELSE << >>

pairs(ps, qs) == FlattenSeq([i \in 1..Len(ps) |-> [j \in 1..Len(qs) |-> <<ps[i], qs[j]>>]])

product_moves(A, B, p, q, first_epsilon) ==
  LET lhs == state_post(A.delta, p)
      rhs == state_post(B.delta, q)
      over(symbols, next(_)) == [k \in 1..Len(symbols) |-> <<symbols[k], next(symbols[k])>>]
      normal(S) == ordered({a \in S : a < first_epsilon})
      epsilons(S) == ordered({a \in S : a >= first_epsilon})
  IN  over(normal(SymbolsOf(lhs) \cap SymbolsOf(rhs)),
           LAMBDA a : pairs(targets_of(lhs, a), targets_of(rhs, a)))
      \o over(epsilons(SymbolsOf(lhs)), LAMBDA a : pairs(targets_of(lhs, a), <<q>>))
      \o over(epsilons(SymbolsOf(rhs)), LAMBDA a : pairs(<<p>>, targets_of(rhs, a)))

product_pairs(A, B, first_epsilon) ==
  LET succ == [pq \in (0..num_of_states(A)-1) \X (0..num_of_states(B)-1) |->
                 FlattenSeq([k \in 1..Len(product_moves(A, B, pq[1], pq[2], first_epsilon)) |->
                               product_moves(A, B, pq[1], pq[2], first_epsilon)[k][2]])]
  IN  depth_first(succ, pairs(ordered(A.initial.set), ordered(B.initial.set)))

\* algorithms::product(): accepting are the pairs that its condition makes final.
product(A, B, accepting, first_epsilon) ==
  LET found == product_pairs(A, B, first_epsilon)
      moves(i) == {<<i-1, m[1], m[2]>> :
                     m \in Range(product_moves(A, B, found[i][1], found[i][2], first_epsilon))}
  IN  built(found,
        0..Cardinality(A.initial.set) * Cardinality(B.initial.set) - 1,
        {i-1 : i \in {j \in 1..Len(found) : found[j] \in accepting}},
        UNION {UNION {{<<m[1], m[2], number_in(found, pq)>> : pq \in Range(m[3])} :
                        m \in moves(i)} : i \in 1..Len(found)})

no_language(A) == A.final.set = {} \/ A.initial.set = {}

intersection(A, B, first_epsilon) ==
  IF no_language(A) \/ no_language(B) THEN EmptyNfa
  ELSE product(A, B, A.final.set \X B.final.set, first_epsilon)

union_product(A, B, first_epsilon) ==
  IF no_language(A) THEN B ELSE IF no_language(B) THEN A
  ELSE LET all == (0..num_of_states(A)-1) \X (0..num_of_states(B)-1)
       IN  product(A, B, {pq \in all : pq[1] \in A.final.set \/ pq[2] \in B.final.set}, first_epsilon)

union_nondet(A, B) == unite_nondet_with(A, B)

-----------------------------------------------------------------------------
\* The two automata side by side, epsilon leading from one to the other.  Without
\* use_epsilon the default epsilon is removed, whichever one the caller passed.
concatenate_eps(A, B, epsilon, use_epsilon) ==
  LET n == num_of_states(A)
      bridges == {<<p, epsilon, n+q>> : p \in A.final.set, q \in B.initial.set}
      moved == {<<n+t[1], t[2], n+t[3]>> : t \in trans(B)}
      joined == [delta |-> add_all(allocate(A.delta, n + num_of_states(B)), bridges \cup moved),
                 initial |-> A.initial,
                 final |-> sparse({n+q : q \in B.final.set})]
  IN  IF no_language(A) \/ no_language(B) THEN EmptyNfa
      ELSE IF use_epsilon THEN joined ELSE remove_epsilon(joined, EPSILON)

-----------------------------------------------------------------------------
complement_classical(A, symbols) == complement_deterministic(trim(determinize(A)), symbols)

\* The only state of a minimal automaton without final states is its own sink.
complement_brzozowski(A, symbols) ==
  LET minimal == minimize_brzozowski(A)
      sink == IF minimal.final.set = {} /\ minimal.initial.set # {}
              THEN Min(minimal.initial.set) ELSE num_of_states(minimal)
  IN  complement_deterministic_at(minimal, symbols, sink)

\* lang_difference(): pairs of macrostates, the one of the excluded automaton
\* empty where it has no moves.  An empty macrostate stands for the sink.
in_difference(A, B, P) == P[1] \cap A.final.set # {} /\ P[2] \cap B.final.set = {}

\* The move of pair number id over a.  With until_final the callback of
\* get_word_from_lang_difference() ends the construction at a final pair.
difference_move(A, B, s, id, a, until_final) ==
  LET T == <<post(A, s.found[id+1][1], a), post(B, s.found[id+1][2], a)>>
      known == T \in Range(s.found)
      target == IF known THEN number_in(s.found, T) ELSE Len(s.found)
      moved == [s EXCEPT !.moves = @ \cup {<<id, a, target>>}]
  IN  IF ~ s.going THEN s
      ELSE IF known THEN moved
      ELSE [moved EXCEPT !.found = Append(@, T), !.worklist = Append(@, target),
                         !.going = ~ (until_final /\ in_difference(A, B, T))]

RECURSIVE difference_loop(_, _, _, _)
difference_loop(A, B, s, until_final) ==
  IF ~ s.going \/ s.worklist = << >> THEN s
  ELSE LET id == Last(s.worklist)
       IN  difference_loop(A, B,
             FoldLeft(LAMBDA r, a : difference_move(A, B, r, id, a, until_final),
                      [s EXCEPT !.worklist = Front(@)], symbols_from(A, s.found[id+1][1])),
             until_final)

lang_difference(A, B, until_final) ==
  LET start == <<A.initial.set, B.initial.set>>
      s == difference_loop(A, B,
             [found |-> <<start>>, moves |-> {}, worklist |-> <<0>>,
              going |-> ~ (until_final /\ in_difference(A, B, start))], until_final)
  IN  built(s.found, {0},
            {i-1 : i \in {j \in 1..Len(s.found) : in_difference(A, B, s.found[j])}}, s.moves)
=============================================================================
