----------------------------- MODULE WordQueries -----------------------------
(***************************************************************************)
(* The questions that mata::nfa answers about the language of an           *)
(* automaton: emptiness with a counterexample, the words up to a length, a *)
(* word of the language, of its complement or of a difference,             *)
(* universality and inclusion.                                             *)
(***************************************************************************)
EXTENDS Reductions

\* The answer of a search: a word, or std::nullopt.
Nothing == [found |-> FALSE, word |-> << >>]
Just(w) == [found |-> TRUE, word |-> w]

moves_of(A, q) ==
  LET sps == state_post(A.delta, q) IN moves_between(sps, 1, Len(sps) + 1)

targets_from(A, q) == [i \in 1..Len(moves_of(A, q)) |-> moves_of(A, q)[i][2]]

-----------------------------------------------------------------------------
get_reachable_states(A) ==
  LET succ == [q \in 0..num_of_states(A)-1 |-> targets_from(A, q)]
  IN  Range(depth_first(succ, ordered(A.initial.set)))

get_terminating_states(A) == get_reachable_states(revert(A))

is_deterministic(A) ==
  /\ Cardinality(A.initial.set) = 1
  /\ \A i \in 1..Len(A.delta) : \A k \in 1..Len(A.delta[i]) : Len(A.delta[i][k].targets) = 1

is_complete_throws(A, symbols) ==
  \E q \in get_reachable_states(A) : ~ SymbolsOf(state_post(A.delta, q)) \subseteq symbols

is_complete(A, symbols) ==
  \A q \in get_reachable_states(A) : Len(state_post(A.delta, q)) = Cardinality(symbols)

-----------------------------------------------------------------------------
\* get_word_for_path(): the first symbol in the post that leads on.
get_word_for_path(A, path) ==
  [i \in 1..Len(path)-1 |-> Min({t[2] : t \in {u \in trans(A) : u[1] = path[i] /\ u[3] = path[i+1]}})]

RECURSIVE path_to(_, _)
path_to(paths, q) == IF paths[q] = q THEN <<q>> ELSE Append(path_to(paths, paths[q]), q)

RECURSIVE first_final(_, _, _)
first_final(A, worklist, paths) ==
  IF worklist = << >> THEN << >>
  ELSE LET q == Head(worklist)
           new == unseen(targets_from(A, q), DOMAIN paths)
       IN  IF q \in A.final.set THEN path_to(paths, q)
           ELSE first_final(A, Tail(worklist) \o new, [p \in Range(new) |-> q] @@ paths)

\* is_lang_empty() with a counterexample: an empty path when there is none.
is_lang_empty(A) ==
  LET path == first_final(A, ordered(A.initial.set), [q \in A.initial.set |-> q])
  IN  [empty |-> path = << >>, path |-> path,
       word |-> IF path = << >> THEN << >> ELSE get_word_for_path(A, path)]

RECURSIVE post_word(_, _, _)
post_word(A, S, w) == IF w = << >> THEN S ELSE post_word(A, post(A, S, Head(w)), Tail(w))

is_in_lang(A, w) == post_word(A, A.initial.set, w) \cap A.final.set # {}

is_prfx_in_lang(A, w) == \E k \in 0..Len(w) : is_in_lang(A, SubSeq(w, 1, k))

\* get_words(): level by level, the pairs of a state and a word that leads to it.
RECURSIVE words_from(_, _, _)
words_from(A, worklist, left) ==
  {x[2] : x \in {y \in worklist : y[1] \in A.final.set}} \cup
  (IF worklist = {} \/ left = 0 THEN {}
   ELSE words_from(A, UNION {{<<t[3], Append(x[2], t[2])>> : t \in {u \in trans(A) : u[1] = x[1]}} :
                               x \in worklist}, left-1))

\* A mutant of get_words: the words of the last level are left out.
get_words_below(A, max_length) == words_from(A, {<<q, << >>>> : q \in A.initial.set}, max_length-1)

get_words(A, max_length) == words_from(A, {<<q, << >>>> : q \in A.initial.set}, max_length)

-----------------------------------------------------------------------------
\* get_word(): depth first, over the moves of a state in their order.
RECURSIVE search_moves(_, _, _)
search_moves(A, moves, searched) ==
  IF moves = << >> THEN [answer |-> Nothing, searched |-> searched]
  ELSE LET a == Head(moves)[1]
           q == Head(moves)[2]
           below == search_moves(A, moves_of(A, q), searched \cup {q})
       IN  IF q \in searched THEN search_moves(A, Tail(moves), searched)
           ELSE IF q \in A.final.set THEN [answer |-> Just(<<a>>), searched |-> searched]
           ELSE IF below.answer.found
           THEN [below EXCEPT !.answer.word = <<a>> \o @]
           ELSE search_moves(A, Tail(moves), below.searched)

RECURSIVE search_initial(_, _, _)
search_initial(A, starts, searched) ==
  IF starts = << >> THEN Nothing
  ELSE LET q == Head(starts)
           below == search_moves(A, moves_of(A, q), searched \cup {q})
       IN  IF q \in searched THEN search_initial(A, Tail(starts), searched)
           ELSE IF below.answer.found THEN below.answer
           ELSE search_initial(A, Tail(starts), below.searched)

get_word(A, first_epsilon) ==
  IF A.initial.set \cap A.final.set # {} THEN Just(<< >>)
  ELSE LET answer == search_initial(A, ordered(A.initial.set), {})
       IN  [answer EXCEPT !.word = SelectSeq(@, LAMBDA a : a < first_epsilon)]

-----------------------------------------------------------------------------
\* get_word_from_complement(): the part of the completed complement built so
\* far, state 0 its sink and state 1 its start.  macro[i] is the macrostate of
\* state i; a sink move or a rejecting macrostate ends the construction.
Beginning(A) ==
  [cmpl |-> [delta |-> << << >>, << >> >>, initial |-> sparse({1}), final |-> sparse({0})],
   macro |-> <<A.initial.set>>, worklist |-> <<1>>, going |-> TRUE]

to_sink(s, id, a) == [s EXCEPT !.cmpl.delta = add(@, id, a, <<0>>), !.going = FALSE]

to_macrostate(A, s, id, a) ==
  LET T == post(A, s.macro[id], a)
      new == Len(s.macro) + 1
      rejecting == T \cap A.final.set = {}
  IN  IF T \in Range(s.macro)
      THEN [s EXCEPT !.cmpl.delta = add(@, id, a, <<number_in(s.macro, T) + 1>>)]
      ELSE [s EXCEPT
             !.cmpl = [delta |-> add(@.delta, id, a, <<new>>), initial |-> @.initial,
                       final |-> IF rejecting THEN inserted(@.final, new) ELSE @.final],
             !.macro = Append(@, T), !.worklist = Append(@, new), !.going = ~ rejecting]

\* The moves of macrostate id, side by side with the alphabet.  Every symbol of
\* the automaton is in the alphabet, or the walk would run past its end.
RECURSIVE walk_symbols(_, _, _, _, _)
walk_symbols(A, s, id, used, symbols) ==
  IF ~ s.going \/ (used = << >> /\ symbols = << >>) THEN s
  ELSE IF used = << >> \/ Head(used) > Head(symbols) THEN to_sink(s, id, Head(symbols))
  ELSE walk_symbols(A, to_macrostate(A, s, id, Head(used)), id, Tail(used), Tail(symbols))

RECURSIVE complement_until_word(_, _, _)
complement_until_word(A, s, symbols) ==
  IF ~ s.going \/ s.worklist = << >> THEN s.cmpl
  ELSE LET id == Last(s.worklist)
       IN  complement_until_word(A,
             walk_symbols(A, [s EXCEPT !.worklist = Front(@)], id,
                          symbols_from(A, s.macro[id]), symbols), symbols)

get_word_from_complement(A, symbols) ==
  IF A.initial.set \cap A.final.set = {} THEN Just(<< >>)
  ELSE get_word(complement_until_word(A, Beginning(A), ordered(symbols)), EPSILON)

get_word_from_lang_difference(A, B) == get_word(lang_difference(A, B, TRUE), EPSILON)

-----------------------------------------------------------------------------
(***************************************************************************)
(* Universality, inclusion and equivalence: the naive ways over the        *)
(* complement, and the antichain search for a macrostate without a final   *)
(* state.  (The antichain search for inclusion is AntichainInclusion.)     *)
(***************************************************************************)
\* distances_from_initial(); Limits::max_state for a state not reached.
RECURSIVE spread(_, _, _)
spread(A, worklist, distances) ==
  IF worklist = << >> THEN distances
  ELSE LET src == Head(worklist)
           new == unseen(targets_from(A, src), DOMAIN distances)
       IN  spread(A, Tail(worklist) \o new, [q \in Range(new) |-> distances[src] + 1] @@ distances)

distances_from_initial(A) ==
  spread(A, ordered(A.initial.set), [q \in A.initial.set |-> 0])
    @@ [q \in 0..num_of_states(A) |-> num_of_states(A) + 1]

distances_to_final(A) == distances_from_initial(revert(A))

\* is_identical(): the same states and transitions, whatever is allocated.
is_identical(A, B) ==
  A.initial.set = B.initial.set /\ A.final.set = B.final.set /\ equal(A.delta, B.delta)

-----------------------------------------------------------------------------
is_universal_naive(A, symbols) == is_lang_empty(complement_classical(A, symbols))

\* is_universal_antichains(): the macrostates to expand, the smallest ones met,
\* and how each was reached.  word is set when a counterexample is found.
Met(A) == [worklist |-> <<A.initial.set>>, processed |-> <<A.initial.set>>,
           paths |-> A.initial.set :> <<A.initial.set, 0>>, cex |-> Nothing]

RECURSIVE word_to(_, _)
word_to(paths, S) ==
  IF paths[S][1] = S THEN << >> ELSE Append(word_to(paths, paths[S][1]), paths[S][2])

\* A mutant of expand: what is kept is the larger of two macrostates.
expand_keeping_larger(A, s, S, a) ==
  LET T == post(A, S, a)
      pruned(list) == Append(SelectSeq(list, LAMBDA M : ~ M \subseteq T), T)
  IN  IF s.cex.found THEN s
      ELSE IF T \cap A.final.set = {}
      THEN [s EXCEPT !.cex = Just(Append(word_to(s.paths, S), a))]
      ELSE IF \E M \in Range(s.processed) : T \subseteq M THEN s
      ELSE [worklist |-> pruned(s.worklist), processed |-> pruned(s.processed),
            paths |-> T :> <<S, a>> @@ s.paths, cex |-> s.cex]

expand(A, s, S, a) ==
  LET T == post(A, S, a)
      pruned(list) == Append(SelectSeq(list, LAMBDA M : ~ T \subseteq M), T)
  IN  IF s.cex.found THEN s
      ELSE IF T \cap A.final.set = {}
      THEN [s EXCEPT !.cex = Just(Append(word_to(s.paths, S), a))]
      ELSE IF \E M \in Range(s.processed) : M \subseteq T THEN s
      ELSE [worklist |-> pruned(s.worklist), processed |-> pruned(s.processed),
            paths |-> T :> <<S, a>> @@ s.paths, cex |-> s.cex]

RECURSIVE antichains(_, _, _)
antichains(A, s, symbols) ==
  IF s.cex.found \/ s.worklist = << >> THEN s.cex
  ELSE antichains(A, FoldLeft(LAMBDA r, a : expand(A, r, Last(s.worklist), a),
                              [s EXCEPT !.worklist = Front(@)], symbols), symbols)

\* The counterexample; Nothing when the automaton is universal.
is_universal_antichains(A, symbols) ==
  IF A.initial.set \cap A.final.set = {} THEN Just(<< >>)
  ELSE antichains(A, Met(A), ordered(symbols))

-----------------------------------------------------------------------------
create_alphabet(A, B) == {t[2] : t \in trans(A) \cup trans(B)}

\* is_included_naive(): the path of the product is mapped to states of smaller.
is_included_naive(smaller, bigger, symbols) ==
  LET cmpl == complement_classical(bigger, symbols)
      run == is_lang_empty(intersection(smaller, cmpl, EPSILON))
      found == product_pairs(smaller, cmpl, EPSILON)
  IN  [run EXCEPT !.path = [i \in 1..Len(@) |-> found[@[i]+1][1]]]

\* are_equivalent() with the naive algorithm.
are_equivalent(lhs, rhs) ==
  LET symbols == create_alphabet(lhs, rhs)
  IN  \A pair \in {<<lhs, rhs>>, <<rhs, lhs>>} : is_included_naive(pair[1], pair[2], symbols).empty
=============================================================================
