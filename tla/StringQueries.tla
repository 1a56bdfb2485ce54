---------------------------- MODULE StringQueries ----------------------------
(***************************************************************************)
(* What a string solver asks of mata: the shortest words and the lengths   *)
(* of the words of an automaton, and the noodles of an equation.           *)
(*                                                                         *)
(* A segment automaton is a chain of automata that epsilons lead along:    *)
(* every state is reached over one number of epsilons, its depth; initial  *)
(* states have depth 0, final ones the greatest depth.  A noodle has one   *)
(* epsilon transition of each depth; it is the sequence of what lies       *)
(* between them.  A list of noodles is modelled by its set.                *)
(***************************************************************************)
EXTENDS WordQueries

\* ShortestWordsMap::compute_for_state(), one transition of the reversed
\* automaton: dst is what the map has for its source.
updated(map, dst, move) ==
  LET a == move[1]
      q == move[2]
      length == dst.length + 1
      words == {<<a>> \o w : w \in dst.words}
  IN  IF q \notin DOMAIN map THEN q :> [length |-> length, words |-> words] @@ map
      ELSE IF length < map[q].length THEN [map EXCEPT ![q] = [length |-> length, words |-> words]]
      ELSE IF length = map[q].length THEN [map EXCEPT ![q].words = @ \cup words]
      ELSE map

compute_for_state(R, map, q) ==
  FoldLeft(LAMBDA m, move : updated(m, map[q], move), map, moves_of(R, q))

\* A mutant of shortest_words: the newest state is taken from the queue.
RECURSIVE shortest_words_newest_first(_, _, _)
shortest_words_newest_first(R, queue, map) ==
  IF queue = << >> THEN map
  ELSE shortest_words_newest_first(R,
         Front(queue) \o unseen(targets_from(R, Last(queue)), DOMAIN map),
         compute_for_state(R, map, Last(queue)))

RECURSIVE shortest_words(_, _, _)
shortest_words(R, queue, map) ==
  IF queue = << >> THEN map
  ELSE shortest_words(R,
         Tail(queue) \o unseen(targets_from(R, Head(queue)), DOMAIN map),
         compute_for_state(R, map, Head(queue)))

\* ShortestWordsMap: for the states from which a word is accepted.
ShortestWordsMap(A) ==
  LET R == revert(A)
  IN  shortest_words(R, ordered(R.initial.set),
                     [q \in R.initial.set |-> [length |-> 0, words |-> {<< >>}]])

get_shortest_words_from(map, S) ==
  LET known == S \cap DOMAIN map
      least == Min({map[q].length : q \in known})
  IN  UNION {map[q].words : q \in {p \in known : map[p].length = least}}

get_shortest_words(A) ==
  UNION {get_shortest_words_from(map, A.initial.set) : map \in {ShortestWordsMap(A)}}

get_accepted_symbols(A) ==
  {t[2] : t \in {u \in trans(A) : u[1] \in A.initial.set /\ u[3] \in A.final.set}}

\* The states of a deterministic automaton over one letter, from the initial one
\* on until there is no move, or one back to the state at place loop.
RECURSIVE line(_, _)
line(D, visited) ==
  LET next == targets_from(D, Last(visited))
  IN  IF next = << >> THEN [states |-> visited, loop |-> -1]
      ELSE IF next[1] \in Range(visited) THEN [states |-> visited, loop |-> number_in(visited, next[1])]
      ELSE line(D, Append(visited, next[1]))

get_word_lengths(A) ==
  LET lengths(l, final) ==
        {<<n, IF l.loop # -1 /\ n >= l.loop THEN Len(l.states) - l.loop ELSE 0>> :
           n \in {m \in 0..Len(l.states)-1 : l.states[m+1] \in final}}
  IN  UNION {IF num_of_states(D) = 0 THEN {}
             ELSE lengths(line(D, ordered(D.initial.set)), D.final.set) :
               D \in {trim(determinize(get_one_letter_aut(A, 0)))}}

is_lang_eps(A) ==
  \E T \in {trim(A)} :
    /\ T.initial.set # {}
    /\ \A q \in T.initial.set : q \in T.final.set /\ state_post(T.delta, q) = << >>

-----------------------------------------------------------------------------
\* Segmentation::compute_epsilon_depths(): breadth first; depths[d+1] lists the
\* epsilon transitions of depth d, visited_eps has for a state how many of each
\* epsilon lead to it, counted when it was last pushed.
pushed(s, item, symbol, target, epsilons) ==
  LET over == symbol \in epsilons
      depth == item.depth + 1
      eps == IF over THEN [item.eps EXCEPT ![symbol] = @ + 1] ELSE item.eps
      t == <<item.state, symbol, target>>
  IN  [s EXCEPT
        !.worklist = Append(@, [state |-> target, depth |-> IF over THEN depth ELSE item.depth,
                                eps |-> eps]),
        !.visited_eps = target :> eps @@ @,
        !.depths = IF ~ over THEN @ ELSE IF depth > Len(@) THEN Append(@, <<t>>)
                   ELSE [@ EXCEPT ![depth] = Append(@, t)]]

RECURSIVE depths_from(_, _, _)
depths_from(A, epsilons, s) ==
  IF s.worklist = << >> THEN s
  ELSE LET item == Head(s.worklist)
           rest == [s EXCEPT !.worklist = Tail(@), !.visited = @ \cup {item.state}]
       IN  depths_from(A, epsilons,
             IF item.state \in s.visited THEN rest
             ELSE FoldLeft(LAMBDA r, m : pushed(r, item, m[1], m[2], epsilons),
                           rest, moves_of(A, item.state)))

compute_epsilon_depths(A, epsilons) ==
  LET start == [i \in 1..Cardinality(A.initial.set) |->
                  [state |-> ordered(A.initial.set)[i], depth |-> 0, eps |-> [e \in epsilons |-> 0]]]
  IN  depths_from(A, epsilons,
        [worklist |-> start, visited |-> {}, depths |-> << >>, visited_eps |-> << >>])

\* The segment of depth d keeps the numbers of the states; it ends where its
\* epsilon transitions, which it loses, begin, and begins where they end.
segment(A, depths, d) ==
  [delta |-> IF d = Len(depths) THEN A.delta
             ELSE FoldLeft(LAMBDA delta, t : remove(delta, t[1], t[2], t[3]), A.delta, depths[d+1]),
   initial |-> IF d = 0 THEN A.initial
               ELSE FoldLeft(LAMBDA S, t : inserted(S, t[3]), [A.initial EXCEPT !.set = {}], depths[d]),
   final |-> IF d = Len(depths) THEN A.final
             ELSE FoldLeft(LAMBDA S, t : inserted(S, t[1]), [A.final EXCEPT !.set = {}], depths[d+1])]

get_untrimmed_segments(A, depths) == [i \in 1..Len(depths)+1 |-> segment(A, depths, i-1)]

\* segs_one_initial_final(): by an initial and a final state of a segment, where
\* unused stands for all those at the two ends, the part that leads from the one
\* to the other.
segs_one_initial_final(segments, include_empty, unused) ==
  LET ends(k) == (IF k = 1 THEN {unused} ELSE segments[k].initial.set)
                   \X (IF k = Len(segments) THEN {unused} ELSE segments[k].final.set)
      only(S, q) == IF q = unused THEN S ELSE sparse({q})
      part(A, e) == reduce_size_by_simulation(trim(
                      [delta |-> A.delta, initial |-> only(A.initial, e[1]), final |-> only(A.final, e[2])]))
      parts == UNION {{<<e, part(segments[k], e)>> : e \in ends(k)} : k \in 1..Len(segments)}
      kept == {p \in parts : num_of_states(p[2]) > 0 \/ include_empty}
  IN  [e \in {p[1] : p \in kept} |-> (CHOOSE p \in kept : p[1] = e)[2]]

whole(A, include_empty) ==
  {N \in {trim(A)} : num_of_states(N) > 0 \/ include_empty}

-----------------------------------------------------------------------------
\* The ways to choose an epsilon transition of each depth.
RECURSIVE choices(_)
choices(depths) ==
  IF depths = << >> THEN {<< >>}
  ELSE {Append(c, t) : c \in choices(Front(depths)), t \in Range(Last(depths))}

noodles_of(segs, depths, unused) ==
  LET key(c, i) == <<IF i = 1 THEN unused ELSE c[i-1][3], IF i > Len(c) THEN unused ELSE c[i][1]>>
  IN  {[i \in 1..Len(depths)+1 |-> segs[key(c, i)]] :
         c \in {d \in choices(depths) : \A i \in 1..Len(depths)+1 : key(d, i) \in DOMAIN segs}}

noodlify(A, epsilon, include_empty) ==
  LET noodles(depths, segments, unused) ==
        IF depths = << >> THEN {<<N>> : N \in whole(A, include_empty)}
        ELSE UNION {noodles_of(segs, depths, unused) :
                      segs \in {segs_one_initial_final(segments, include_empty, unused)}}
  IN  UNION {noodles(s.depths, get_untrimmed_segments(A, s.depths), num_of_states(A)) :
               s \in {compute_epsilon_depths(A, {epsilon})}}

\* process_eps_map(): how many of each epsilon, the largest epsilon first.
process_eps_map(eps) ==
  LET symbols == Reverse(ordered(DOMAIN eps))
  IN  [i \in 1..Len(symbols) |-> eps[symbols[i]]]

\* A part of a noodle with the epsilons before it; a part without transitions
\* and with one final state accepts the empty word only, and is left out.
counted(part, eps) ==
  IF Cardinality(part.final.set) # 1 \/ trans(part) # {} THEN <<<<part, eps>>>> ELSE << >>

\* The noodles that begin with those of items, pairs of a noodle up to segment
\* k and the state where it ends.
RECURSIVE continued(_, _, _, _, _)
continued(items, k, segments, s, segs) ==
  IF k = Len(segments) THEN {x[1] : x \in items}
  ELSE LET unused == num_of_states(segments[1])
           fins == IF k + 1 = Len(segments) THEN {unused} ELSE segments[k+1].final.set
           over(x) == {t \in Range(s.depths[k]) : t[1] = x[2]}
           next(x) == {<<x[1] \o counted(segs[<<t[3], f>>], process_eps_map(s.visited_eps[t[3]])), f>> :
                         <<t, f>> \in {y \in over(x) \X fins : <<y[1][3], y[2]>> \in DOMAIN segs}}
       IN  continued(UNION {next(x) : x \in items}, k+1, segments, s, segs)

noodlify_mult_eps(A, epsilons, include_empty) ==
  LET none == process_eps_map([e \in epsilons |-> 0])
      noodles(s, segments, segs) ==
        continued({<<counted(segs[<<num_of_states(A), f>>], none), f>> : f \in segments[1].final.set},
                  1, segments, s, segs)
  IN  UNION {IF s.depths = << >> THEN {<<<<N, none>>>> : N \in whole(A, include_empty)}
             ELSE UNION {noodles(s, p[1], p[2]) : p \in
                    {<<segments, segs_one_initial_final(segments, include_empty, num_of_states(A))>> :
                       segments \in {get_untrimmed_segments(A, s.depths)}}} :
               s \in {compute_epsilon_depths(A, epsilons)}}

-----------------------------------------------------------------------------
\* unify_initial() and unify_final() in place.
unified(A) == unify_final(unify_initial(A))

\* The automata a caller named, changed in turn.
unify_in_place(names, heap) == FoldLeft(LAMBDA h, n : [h EXCEPT ![n] = unified(@)], heap, names)

\* The named automata one after another over epsilon.
chained(names, heap, epsilon) ==
  FoldLeft(LAMBDA A, B : concatenate_eps(A, B, epsilon, TRUE),
           heap[Head(names)], [i \in 1..Len(names)-1 |-> heap[names[i+1]]])

reduced(A, reduction) ==
  LET forward == IF reduction \in {"forward", "bidirectional"} THEN reduce_size_by_simulation(A) ELSE A
  IN  IF reduction \in {"backward", "bidirectional"}
      THEN revert(reduce_size_by_simulation(revert(forward))) ELSE forward

\* noodlify_for_equation(): with references the automata on the left are unified,
\* however often one occurs, with pointers only when a reduction is asked for.
noodlify_for_equation(lhs, rhs, heap, references, reduction) ==
  LET changed == IF references \/ reduction # "false" THEN unify_in_place(lhs, heap) ELSE heap
      products == {trim(intersection(A, h[rhs], EPSILON)) : <<A, h>> \in
                     {<<chained(lhs, g, EPSILON), g>> : g \in {changed}}}
  IN  UNION {noodlify(P, EPSILON, FALSE) :
               P \in {reduced(Q, reduction) : Q \in {R \in products : ~ is_lang_empty(R).empty}}}

\* With automata on both sides: each one is unified once, EPSILON - 1 joins the
\* right side, and the noodles count both epsilons.
noodlify_for_equation_both(lhs, rhs, heap, reduction) ==
  LET products == {trim(intersection(AB[1], AB[2], EPSILON-1)) : AB \in
                     {<<chained(lhs, h, EPSILON), chained(rhs, h, EPSILON-1)>> :
                        h \in {unify_in_place(unseen(lhs \o rhs, {}), heap)}}}
  IN  UNION {noodlify_mult_eps(P, {EPSILON, EPSILON-1}, FALSE) :
               P \in {reduced(Q, reduction) : Q \in {R \in products : ~ is_lang_empty(R).empty}}}
=============================================================================
