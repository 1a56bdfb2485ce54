----------------------------- MODULE Reductions -----------------------------
(***************************************************************************)
(* The size reductions of mata::nfa::reduce(): the quotient by forward     *)
(* simulation, and the two constructions of a residual automaton, which    *)
(* drop a macrostate that is the union of others.                          *)
(*                                                                         *)
(* The residual constructions walk over unordered maps; ascending says in  *)
(* which of two orders, standing for the unspecified one.                  *)
(***************************************************************************)
EXTENDS NfaOperations

in_map_order(ids, ascending) == IF ascending THEN ordered(ids) ELSE Reverse(ordered(ids))

-----------------------------------------------------------------------------
\* The symbol of the loops that tell final states from others: the least one
\* that no transition uses.
unused_symbol(A) == Min((0..Cardinality({t[2] : t \in trans(A)})) \ {t[2] : t \in trans(A)})

\* The greatest simulation of a transition system, computed by simlib: the
\* pairs whose moves are not answered are dropped until none is.
RECURSIVE answered(_, _)
answered(lts, R) ==
  LET S == {pq \in R : \A t \in {u \in lts : u[1] = pq[1]} :
              \E u \in lts : u[1] = pq[2] /\ u[2] = t[2] /\ <<t[3], u[3]>> \in R}
  IN  IF S = R THEN R ELSE answered(lts, S)

greatest_simulation(states, lts) == answered(lts, states \X states)

\* A mutant of compute_fw_direct_simulation: final states are not marked.
simulation_of_moves(A) == greatest_simulation(0..num_of_states(A)-1, trans(A))

compute_fw_direct_simulation(A) ==
  greatest_simulation(0..num_of_states(A)-1,
    trans(A) \cup {<<q, unused_symbol(A), q>> : q \in A.final.set})

\* A class of states that simulate each other is represented by its least state;
\* a target that another target simulates is left out.
reduce_size_by_simulation(A) ==
  LET sim == compute_fw_direct_simulation(A)
      states == 0..num_of_states(A)-1
      quot_proj == [q \in states |-> Min({p \in states : <<p, q>> \in sim /\ <<q, p>> \in sim})]
      renaming == [q \in states |-> Cardinality({p \in Range(quot_proj) : p < quot_proj[q]})]
      kept(S) == {p \in S : ~ \E q \in S : p # q /\ <<p, q>> \in sim}
      moves(q) == UNION {{<<renaming[q], a, renaming[p]>> :
                            p \in kept({quot_proj[s] : s \in post(A, {q}, a)})} :
                           a \in {t[2] : t \in trans(A)}}
      representatives == Range(quot_proj)
  IN  [delta |-> delta_of(Cardinality(representatives), UNION {moves(q) : q \in representatives}),
       initial |-> renamed(A.initial.set, renaming),
       final |-> renamed(A.final.set \cap representatives, renaming)]

-----------------------------------------------------------------------------
\* A state leaves the automaton; the covering ones take over what led to it.
remove_covered_state(covering, removed, A) ==
  LET others == {t \in trans(A) : t[1] # removed}
      switched == {<<t[1], t[2], q>> : t \in {u \in others : u[3] = removed}, q \in covering}
  IN  [delta |-> delta_of(Len(A.delta), {t \in others \cup switched : t[3] # removed}),
       initial |-> IF removed \notin A.initial.set THEN A.initial
                   ELSE FoldSet(LAMBDA q, S : inserted(S, q), erased(A.initial, removed), covering),
       final |-> erased(A.final, removed)]

\* The state of residual_with(): the result, the macrostates by their numbers
\* with the union and the numbers of those that cover them, the numbers of the
\* macrostates that are covered, and the worklist of numbers.
First(A) ==
  [result |-> [EmptyNfa EXCEPT
                 !.delta = << << >> >>, !.initial = sparse({0}),
                 !.final = sparse(IF A.initial.set \cap A.final.set = {} THEN {} ELSE {0})],
   macro |-> <<A.initial.set>>, covering_states |-> << {} >>, covering_indexes |-> << {} >>,
   covered |-> {}, worklist |-> <<0>>]

\* The indexes when macrostate e turns covered: it is replaced in the covering
\* sets of the covered macrostates, and they in its own.
replace_covered(indexes, covered, e, ascending) ==
  LET replace(idx, old, new) == IF old \in idx THEN (idx \ {old}) \cup new ELSE idx
      both(ix, c) == LET ixc == [ix EXCEPT ![c+1] = replace(@, e, ix[e+1])]
                     IN  [ixc EXCEPT ![e+1] = replace(@, c, ixc[c+1])]
  IN  FoldLeft(both, indexes, in_map_order(covered, ascending))

\* check_covered_and_covering() for the newest macrostate and one in the map.
check_against(s, id, ascending) ==
  LET new == Len(s.macro) - 1
      T == s.macro[new+1]
      M == s.macro[id+1]
      united == [s EXCEPT !.covering_states[id+1] = @ \cup T, !.covering_indexes[id+1] = @ \cup {new}]
      indexes == replace_covered(united.covering_indexes, s.covered, id, ascending)
  IN  IF M \subseteq T
      THEN [s EXCEPT !.covering_states[new+1] = @ \cup M, !.covering_indexes[new+1] = @ \cup {id}]
      ELSE IF ~ T \subseteq M THEN s
      ELSE IF united.covering_states[id+1] # M THEN united
      ELSE [united EXCEPT !.covering_indexes = indexes, !.covered = @ \cup {id},
                          !.result = remove_covered_state(indexes[id+1], id, @)]

check_covered_and_covering(s, T, ascending) ==
  LET new == [s EXCEPT !.result = add_state(@), !.macro = Append(@, T),
                       !.covering_states = Append(@, {}), !.covering_indexes = Append(@, {})]
  IN  FoldLeft(LAMBDA r, id : check_against(r, id, ascending), new,
               in_map_order((0..Len(s.macro)-1) \ s.covered, ascending))

\* T is discovered: it is covered by now, or a state of the result.
discover_macrostate(A, s, T, ascending) ==
  LET checked == check_covered_and_covering(s, T, ascending)
      new == Len(s.macro)
  IN  IF T = checked.covering_states[new+1] THEN [checked EXCEPT !.covered = @ \cup {new}]
      ELSE [checked EXCEPT !.worklist = Append(@, new),
              !.result.final = IF T \cap A.final.set = {} THEN @ ELSE inserted(@, new)]

\* The move of macrostate id over a.
expand_with(A, s, id, a, ascending) ==
  LET T == post(A, s.macro[id+1], a)
      r == IF T \in Range(s.macro) THEN s ELSE discover_macrostate(A, s, T, ascending)
      target == number_in(r.macro, T)
      targets == IF target \in r.covered THEN r.covering_indexes[target+1] ELSE {target}
  IN  IF id \in r.covered THEN r
      ELSE [r EXCEPT !.result.delta = add_all(@, {<<id, a, q>> : q \in targets})]

RECURSIVE residual_loop(_, _, _)
residual_loop(A, s, ascending) ==
  IF s.worklist = << >> THEN s.result
  ELSE LET id == Last(s.worklist)
       IN  residual_loop(A,
             FoldLeft(LAMBDA r, a : expand_with(A, r, id, a, ascending),
                      [s EXCEPT !.worklist = Front(@)], symbols_from(A, s.macro[id+1])),
             ascending)

residual_with(A, ascending) == residual_loop(A, First(A), ascending)

-----------------------------------------------------------------------------
\* The macrostates from the largest to the smallest.
by_size(found, ascending) ==
  LET in_map == [i \in 1..Len(found) |-> found[in_map_order(0..Len(found)-1, ascending)[i] + 1]]
      largest == Max({Cardinality(S) : S \in Range(found)})
  IN  FlattenSeq([i \in 1..largest+1 |->
        SelectSeq(in_map, LAMBDA S : Cardinality(S) = largest + 1 - i)])

RECURSIVE residual_recurse_coverable(_, _, _, _, _)
RECURSIVE recurse_over(_, _, _, _, _)

\* residual_recurse_coverable() for the macrostate at indexes[start].  found
\* gives the macrostates their numbers; s holds the result and two sets of
\* places in vec.
residual_recurse_coverable(vec, found, indexes, start, s) ==
  LET check_state == vec[indexes[start]]
      sub == SelectSeq(SubSeq(indexes, start+1, Len(indexes)),
                       LAMBDA j : j \notin s.covered /\ vec[j] \subseteq check_state)
      r == recurse_over(vec, found, sub, 1, s)
      covering == {number_in(found, vec[j]) : j \in Range(sub) \ r.covered}
  IN  IF UNION {vec[j] : j \in Range(sub)} # check_state THEN s
      ELSE [r EXCEPT !.covered = @ \cup {indexes[start]},
              !.result = remove_covered_state(covering, number_in(found, check_state), @)]

\* The loop over all but the last of the indexes, up to a macrostate of one state.
recurse_over(vec, found, indexes, k, s) ==
  IF k >= Len(indexes) THEN s
  ELSE IF Cardinality(vec[indexes[k]]) = 1 THEN s
  ELSE LET marked == [s EXCEPT !.visited = @ \cup {indexes[k]}]
       IN  recurse_over(vec, found, indexes, k+1,
             IF indexes[k] \in s.visited THEN s
             ELSE residual_recurse_coverable(vec, found, indexes, k, marked))

residual_after(A, ascending) ==
  LET found == macrostates(A)
      vec == by_size(found, ascending)
  IN  recurse_over(vec, found, [i \in 1..Len(vec) |-> i], 1,
        [result |-> determinized(A, found), covered |-> {}, visited |-> {}]).result

\* Backward determinization first, so that the residuals come out minimal.
reduce_size_by_residual(A, type, direction, ascending) ==
  LET back == revert(determinize(IF direction = "forward" THEN revert(A) ELSE A))
      residual == IF type = "with" THEN residual_with(back, ascending)
                  ELSE residual_after(back, ascending)
  IN  trim(IF direction = "backward" THEN revert(residual) ELSE residual)
=============================================================================
