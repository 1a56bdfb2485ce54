----------------------------- MODULE Replacements -----------------------------
(***************************************************************************)
(* nft/strings.cc: transducers of two levels that replace a symbol, a      *)
(* literal or a regular expression, all occurrences or the first one.  The *)
(* last two are compositions of a transducer that puts markers into the    *)
(* word with one that replaces where the markers say.                      *)
(***************************************************************************)
EXTENDS NftOperations, Reductions

\* The value of a step, which the next one reads many times.
only(S) == CHOOSE V \in S : TRUE

\* A state, new or not, and a transition to it: add_state_with_level(), add().
extend(T, p, a, q, l) ==
  LET U == add_state_with_level(T, q, l) IN [U EXCEPT !.delta = add(@, p, a, <<q>>)]

connect(T, p, a, q) == [T EXCEPT !.delta = add(@, p, a, <<q>>)]

\* A state of level 0 that is initial and final.
OneState(n) ==
  with_levels([delta |-> << << >> >>, initial |-> sparse({0}), final |-> sparse({0})], <<0>>, n)

create_identity(symbols, n) == insert_identity(OneState(n), 0, ordered(symbols))

\* From a state of level 1: w is written, the last symbol leading to last.
\* Nothing is read meanwhile.
write_from(T, p, w, last) ==
  LET n == num_of_states(T)
      k == Larger(Len(w), 1)
      pair(U, i) == extend(extend(U, IF i = 1 THEN p ELSE n+2*i-3, w[i], n+2*i-2, 0),
                           n+2*i-2, EPSILON, n+2*i-1, 1)
      before == FoldLeft(pair, T, [i \in 1..k-1 |-> i])
  IN  connect(before, IF k = 1 THEN p ELSE n+2*k-3, IF w = << >> THEN EPSILON ELSE w[k], last)

-----------------------------------------------------------------------------
\* create_identity_with_single_symbol_replace().
replace_symbol(symbols, from_symbol, replacement, mode) ==
  LET id == create_identity(symbols, 2)
      middle == Head(targets_of(id.delta[1], from_symbol))
      cut == [id EXCEPT !.delta[middle+1] = << >>]
      last == num_of_states(cut) + 2 * (Larger(Len(replacement), 1) - 1)
      once == insert_identity(add_state_with_level(write_from(cut, middle, replacement, last), last, 0),
                              last, ordered(symbols))
  IN  IF mode = "All" THEN write_from(cut, middle, replacement, 0)
      ELSE [once EXCEPT !.final = inserted(@, last)]

-----------------------------------------------------------------------------
\* replace_literal_nft(): state i of level 0 stands for the first i symbols of
\* the literal, read and not yet written; the state after them is final.
\* After a symbol that does not go on with the literal, the longest suffix of
\* what was read that is a prefix of it is kept.
kept_suffix(literal, read) ==
  CHOOSE k \in 0..Len(read) :
    /\ k <= Len(literal) /\ SubSeq(read, Len(read)-k+1, Len(read)) = SubSeq(literal, 1, k)
    /\ \A j \in k+1..Len(read) :
         j > Len(literal) \/ SubSeq(read, Len(read)-j+1, Len(read)) # SubSeq(literal, 1, j)

fall_back(T, literal, i, a) ==
  LET read == Append(SubSeq(literal, 1, i), a)
      k == kept_suffix(literal, read)
      n == num_of_states(T)
  IN  write_from(extend(T, i, a, n, 1), n, SubSeq(read, 1, Len(read)-k), k)

\* add_generic_literal_transitions().
read_literal(T, literal, symbols) ==
  LET go(U, i, a) == IF a = literal[i+1]
                     THEN connect(extend(U, i, a, num_of_states(U), 1), num_of_states(U), EPSILON, i+1)
                     ELSE fall_back(U, literal, i, a)
  IN  FoldLeft(LAMBDA U, i : FoldLeft(LAMBDA V, a : go(V, i-1, a), U, ordered(symbols)),
               T, [i \in 1..Len(literal) |-> i])

\* handle_last_symbol_replacement().
after_replacement(T, p, a, symbols, end_marker, mode, final) ==
  LET n == num_of_states(T)
      copying == insert_identity(extend(T, p, a, n, 0), n, ordered(symbols))
      m == num_of_states(copying)
  IN  IF mode = "All" THEN connect(T, p, a, 0)
      ELSE connect(extend(copying, n, end_marker, m, 1), m, EPSILON, final)

\* add_replacement_transitions(): from the state of the whole literal.
write_replacement(T, literal, replacement, symbols, end_marker, mode, final) ==
  LET n == num_of_states(T)
      k == Larger(Len(replacement), 1)
      U == extend(T, Len(literal), EPSILON, n, 1)
      pair(V, i) == extend(extend(V, n+2*i-2, replacement[i], n+2*i-1, 0), n+2*i-1, EPSILON, n+2*i, 1)
      V == FoldLeft(pair, U, [i \in 1..k-1 |-> i])
  IN  after_replacement(V, n+2*k-2, IF replacement = << >> THEN EPSILON ELSE replacement[k],
                        symbols, end_marker, mode, final)

\* add_end_marker_transitions_from_literal_states(): what is read is written.
finish_literal(T, literal, end_marker, final) ==
  FoldLeft(LAMBDA U, i : write_from(extend(U, i-1, end_marker, num_of_states(U), 1),
                                    num_of_states(U), SubSeq(literal, 1, i-1), final),
           T, [i \in 1..Len(literal) |-> i])

replace_literal_nft(literal, replacement, symbols, end_marker, mode) ==
  LET states == FoldLeft(LAMBDA T, i : add_state_with_level(T, i, 0),
                         [OneState(2) EXCEPT !.final = NoStates], [i \in 1..Len(literal) |-> i])
      read == read_literal(states, literal, symbols)
      final == num_of_states(read)
      ended == [add_state_with_level(read, final, 0) EXCEPT !.final = inserted(@, final)]
  IN  finish_literal(
        write_replacement(ended, literal, replacement, symbols, end_marker, mode, final),
        literal, end_marker, final)

\* replace_literal(): after a copy that appends the end marker.
end_marker_nft(symbols, end_marker) ==
  LET id == create_identity(symbols, 2)
      n == num_of_states(id)
  IN  [extend(extend(id, 0, EPSILON, n, 1), n, end_marker, n+1, 0) EXCEPT !.final = sparse({n+1})]

replace_literal(literal, replacement, symbols, mode, end_marker) ==
  UNION {compose(marked, replacing, <<1>>, <<0>>, Repeat) :
           marked \in {end_marker_nft(symbols, end_marker)},
           replacing \in {replace_literal_nft(literal, replacement, symbols, end_marker, mode)}}

-----------------------------------------------------------------------------
\* generic_marker_dfa(): the states stand for the sets of regex states that the
\* symbols read so far may have led to.  Where a match has ended the state has
\* an epsilon move only, to a state that goes on.  s holds the label of each
\* state, {} for those, and the worklist.
RECURSIVE marker_states(_, _, _)
marker_states(regex, symbols, s) ==
  IF s.worklist = << >> THEN s
  ELSE LET source == Last(s.worklist)
           label == s.labels[source+1]
           ended == label \cap regex.final.set # {}
           first == [s EXCEPT !.worklist = Front(@)]
           going == IF ended THEN Len(s.labels) ELSE source
           begun == IF ended THEN [first EXCEPT !.labels = Append(@, {}),
                                                !.moves = @ \cup {<<source, EPSILON, going>>}]
                    ELSE first
           \* process_source() for one symbol.
           visit(r, a) ==
             LET target == {Min(regex.initial.set)} \cup post(regex, label, a)
                 known == target \in Range(r.labels)
                 number == IF known THEN number_in(r.labels, target) ELSE Len(r.labels)
             IN  [r EXCEPT !.moves = @ \cup {<<going, a, number>>},
                           !.labels = IF known THEN @ ELSE Append(@, target),
                           !.worklist = IF known THEN @ ELSE Append(@, number)]
           visited == FoldLeft(visit, begun, ordered(symbols))
       IN  marker_states(regex, symbols, [visited EXCEPT !.final = @ \cup {going}])

generic_marker_dfa(regex, symbols) ==
  LET deterministic == Cardinality(regex.initial.set) = 1 /\
        \A i \in 1..Len(regex.delta) : \A k \in 1..Len(regex.delta[i]) : Len(regex.delta[i][k].targets) = 1
      dfa == IF deterministic THEN regex ELSE determinize(regex)
      s == marker_states(dfa, symbols, [labels |-> <<{Min(dfa.initial.set)}>>, worklist |-> <<0>>,
                                        moves |-> {}, final |-> {}])
  IN  built(s.labels, {0}, s.final, s.moves)

begin_marker_nfa(regex, symbols) ==
  LET reverted == revert(generic_marker_dfa(revert(regex), symbols))
  IN  [reverted EXCEPT !.initial = reverted.final, !.final = reverted.initial]

\* marker_nft(): where the automaton moves by epsilon, which no state does to
\* two targets, the marker is written.  The code holds on to the state's post and
\* to the move over add_state(); here they are values, as if nothing moved.
put_marker(T, t, marker) ==
  LET n == num_of_states(T)
  IN  connect(extend([T EXCEPT !.delta = remove(@, t[1], EPSILON, t[3])], t[1], EPSILON, n, 1),
              n, marker, t[3])

marker_nft(dfa, marker) ==
  LET T == create_from_nfa(dfa, 2, << >>, {EPSILON})
  IN  FoldLeft(LAMBDA U, t : put_marker(U, t, marker), T,
               SelectSeq(in_order(T.delta), LAMBDA t : t[2] = EPSILON))

\* A new initial state leads to the final ones, which were the initial ones.
turned_round(T, n) ==
  [add_state_with_level(T, n, 0) EXCEPT !.delta = add(@, n, EPSILON, ordered(T.final.set)),
                                        !.final = T.initial, !.initial = sparse({n})]

begin_marker_nft(nfa, begin_marker) ==
  only({turned_round(T, num_of_states(T)) : T \in {marker_nft(nfa, begin_marker)}})

-----------------------------------------------------------------------------
\* mata::strings::reluctant_nfa(): nothing is read after a match.
reluctant_nfa(A) ==
  [A EXCEPT !.delta = [i \in DOMAIN @ |-> IF i-1 \in A.final.set THEN << >> ELSE @[i]]]

\* Markers inside the match are skipped, one at its end is not.
reluctant_nfa_with_marker(nfa, marker, symbols) ==
  LET A == reluctant_nfa(nfa)
      skipping == [A EXCEPT !.delta = add_all(@, {<<q, marker, q>> : q \in 0..num_of_states(A)-1})]
      no_marker_last ==
        [delta |-> delta_of(2, ({0, 1} \X symbols \X {0}) \cup {<<0, marker, 1>>, <<1, marker, 1>>}),
         initial |-> sparse({0}), final |-> sparse({0})]
  IN  reluctant_nfa(reduce_size_by_simulation(intersection(skipping, no_marker_last, EPSILON)))

\* reluctant_leftmost_nft(), step by step.  Between matches symbols are copied
\* in state q; a marker leads into the match, which is read without output.
enter_match(T, q, symbols, begin_marker) ==
  LET U == insert_identity(add_state_with_level(T, q, 0), q, ordered(symbols))
      entry == num_of_states(U)
  IN  [extend(U, q, begin_marker, entry, 1) EXCEPT !.delta = add(@, entry, EPSILON, ordered(T.initial.set))]

\* The replacement is written after the match, and leads to a new last state.
leave_match(T, replacement) ==
  LET start == num_of_states(T)
      matched == FoldSet(LAMBDA q, U : extend(U, q, EPSILON, start, 1), T, T.final.set)
      U == insert_word_by_parts(add_state_with_level(matched, start+1, 1), start,
                                << << >>, replacement>>, start+1)
  IN  extend(U, start+1, EPSILON, num_of_states(U), 0)

search_on(T, q) ==
  [insert_word_by_parts(T, num_of_states(T)-1, << <<EPSILON>>, <<EPSILON>> >>, q)
     EXCEPT !.initial = sparse({q}), !.final = sparse({q})]

\* Later markers are dropped.
copy_rest(T, q, symbols, begin_marker) ==
  LET last == num_of_states(T) - 1
  IN  [insert_word_by_parts(insert_identity(T, last, ordered(symbols)), last,
                            << <<begin_marker>>, <<EPSILON>> >>, last)
         EXCEPT !.initial = sparse({q}), !.final = sparse({q, last})]

replace_matches(T, q, symbols, begin_marker, replacement, mode) ==
  LET entered == {enter_match(T, q, symbols, begin_marker)}
      left == {leave_match(U, replacement) : U \in entered}
  IN  only({IF mode = "All" THEN search_on(U, q) ELSE copy_rest(U, q, symbols, begin_marker) :
                U \in left})

reluctant_leftmost_nft(nfa, symbols, begin_marker, replacement, mode) ==
  LET reading == {create_from_nfa(reluctant_nfa_with_marker(nfa, begin_marker, symbols), 2,
                                  <<EPSILON>>, {EPSILON})}
  IN  only({replace_matches(T, num_of_states(T), symbols, begin_marker, replacement, mode) :
                T \in reading})

replace_regex(regex, replacement, symbols, mode, begin_marker) ==
  UNION {compose(marked, replacing, <<1>>, <<0>>, Repeat) :
           marked \in {begin_marker_nft(begin_marker_nfa(regex, symbols), begin_marker)},
           replacing \in {reluctant_leftmost_nft(regex, symbols, begin_marker, replacement, mode)}}
=============================================================================
