----------------------------- MODULE NfaValues -----------------------------
(***************************************************************************)
(* Class Nfa of include/mata/nfa/nfa.hh as a value: a Delta and two sparse *)
(* sets of states, with the operations that make one automaton from        *)
(* another.  The number of states is stored nowhere; it is read off the    *)
(* three, so an operation that enlarges one of them must keep the others   *)
(* in step.                                                                *)
(***************************************************************************)
EXTENDS Delta, Automata, FiniteSetsExt

CONSTANT Symbol     \* the alphabet

\* A sparse set of states: SparseSet's elements and its domain size.
inserted(S, q) == [set |-> S.set \cup {q}, domain |-> Larger(S.domain, q+1)]
erased(S, q) == [S EXCEPT !.set = @ \ {q}]
shifted_into(S, n, T, reserved) ==
  [set |-> S.set \cup {q + n : q \in T},
   domain |-> Max({S.domain, reserved} \cup {q+n+1 : q \in T})]

NoStates == [set |-> {}, domain |-> 0]

\* The sparse set that insertions, or a constructor, make of a set of states.
sparse(S) == [set |-> S, domain |-> Max({0} \cup {q+1 : q \in S})]

\* SparseSet::rename() and truncate().
renamed(S, renaming) == sparse({renaming[q] : q \in S})

\* Nfa{}.
EmptyNfa == [delta |-> << >>, initial |-> NoStates, final |-> NoStates]

num_of_states(A) == Max({A.initial.domain, A.final.domain, Len(A.delta)})

\* Nfa::add_state(), with and without a number.
add_state(A) == [A EXCEPT !.delta = allocate(@, num_of_states(A) + 1)]
add_state_at(A, q) == [A EXCEPT !.delta = allocate(@, q + 1)]

clear(A) == [delta |-> << >>, initial |-> [A.initial EXCEPT !.set = {}],
             final |-> [A.final EXCEPT !.set = {}]]

swap_final_nonfinal(A) ==
  LET n == num_of_states(A)
  IN  [A EXCEPT !.final = [set |-> (0..n-1) \ @.set, domain |-> Larger(@.domain, n)]]

-----------------------------------------------------------------------------
\* Nfa::insert_word(): a path of new states from p to q spells w.
insert_word(A, p, w, q) ==
  LET n == num_of_states(A)
      path == [i \in 0..Len(w) |-> IF i = 0 THEN p
                                   ELSE IF i = Len(w) THEN q ELSE n + i - 1]
      room == IF Len(w) = 1 THEN A.delta ELSE allocate(A.delta, n + Len(w) - 1)
  IN  [A EXCEPT !.delta =
         FoldLeft(LAMBDA d, i : add(d, path[i-1], w[i], <<path[i]>>), room,
                  [i \in 1..Len(w) |-> i])]

\* A mutant of unify_initial: a final initial state is not carried over.
unify_initial_only(A) ==
  LET new == num_of_states(A)
      copied == {t \in transitions(A.delta) : t[1] \in A.initial.set}
  IN  IF Cardinality(A.initial.set) > 1
      THEN [A EXCEPT
              !.delta = add_all(allocate(@, new+1), {<<new, t[2], t[3]>> : t \in copied}),
              !.initial = inserted([@ EXCEPT !.set = {}], new)]
      ELSE A

unify_initial(A) ==
  LET new == num_of_states(A)
      copied == {t \in transitions(A.delta) : t[1] \in A.initial.set}
  IN  IF Cardinality(A.initial.set) > 1
      THEN [delta |-> add_all(allocate(A.delta, new+1), {<<new, t[2], t[3]>> : t \in copied}),
            initial |-> inserted([A.initial EXCEPT !.set = {}], new),
            final |-> IF A.initial.set \cap A.final.set = {} THEN A.final
                      ELSE inserted(A.final, new)]
      ELSE A

unify_final(A) ==
  LET new == num_of_states(A)
      copied == {t \in transitions(A.delta) : t[3] \in A.final.set}
  IN  IF Cardinality(A.final.set) > 1
      THEN [delta |-> add_all(allocate(A.delta, new+1), {<<t[1], t[2], new>> : t \in copied}),
            final |-> inserted([A.final EXCEPT !.set = {}], new),
            initial |-> IF A.initial.set \cap A.final.set = {} THEN A.initial
                        ELSE inserted(A.initial, new)]
      ELSE A

\* The pairs of a state and a symbol that make_complete() adds a transition for.
missing(A, symbols) ==
  {m \in (0..num_of_states(A)-1) \X symbols :
     m[2] \notin SymbolsOf(state_post(A.delta, m[1]))}

make_complete(A, symbols, sink) ==
  LET lacking == missing(A, symbols)
      loops == IF lacking # {} /\ num_of_states(A) <= sink THEN symbols ELSE {}
  IN  [A EXCEPT !.delta =
         add_all(add_all(@, {<<m[1], m[2], sink>> : m \in lacking}),
                 {<<sink, a, sink>> : a \in loops})]

complement_deterministic_at(A, symbols, sink) ==
  LET started == IF A.initial.set = {}
                 THEN [A EXCEPT !.initial = inserted(@, sink)] ELSE A
  IN  swap_final_nonfinal(make_complete(started, symbols, sink))

complement_deterministic(A, symbols) ==
  complement_deterministic_at(A, symbols, num_of_states(A))

\* A mutant of unite_nondet_with: B's states follow the allocated posts only.
unite_after_posts(A, B) ==
  IF A.final.set = {} \/ A.initial.set = {} THEN B
  ELSE IF B.final.set = {} \/ B.initial.set = {} THEN A
  ELSE LET n == Len(A.delta)
       IN  [delta |-> A.delta \o renumber_targets(B.delta, n),
            initial |-> shifted_into(A.initial, n, B.initial.set, n + num_of_states(B)),
            final |-> shifted_into(A.final, n, B.final.set, n + num_of_states(B))]

unite_nondet_with(A, B) ==
  IF A.final.set = {} \/ A.initial.set = {} THEN B
  ELSE IF B.final.set = {} \/ B.initial.set = {} THEN A
  ELSE LET n == num_of_states(A)
       IN  [delta |-> allocate(A.delta, n) \o renumber_targets(B.delta, n),
            initial |-> shifted_into(A.initial, n, B.initial.set, n + num_of_states(B)),
            final |-> shifted_into(A.final, n, B.final.set, n + num_of_states(B))]

\* Nfa::concatenate(): A's final states take over the moves of B's initial ones.
concatenate(A, B) ==
  LET n == num_of_states(A)
      moved == allocate(A.delta, n) \o renumber_targets(B.delta, n)
      starting == {t \in transitions(moved) : t[1] - n \in B.initial.set}
      final == shifted_into(NoStates, n, B.final.set, n + num_of_states(B))
  IN  [delta |-> add_all(moved, UNION {{<<q, t[2], t[3]>> : t \in starting} : q \in A.final.set}),
       initial |-> A.initial,
       final |-> IF B.initial.set \cap B.final.set = {} THEN final
                 ELSE [final EXCEPT !.set = @ \cup A.final.set]]

\* An automaton concatenated with itself has allocated its posts when it reads
\* them as those of the other one.
concatenate_itself(A) == concatenate(A, [A EXCEPT !.delta = allocate(@, num_of_states(A))])

-----------------------------------------------------------------------------
\* The mathematical automaton that A stands for.
targets_over(post, a) ==
  UNION {Range(post[k].targets) : k \in {j \in 1..Len(post) : post[j].symbol = a}}

AsAutomaton(A) ==
  [initial |-> A.initial.set, final |-> A.final.set,
   delta |-> [q \in 0..num_of_states(A)-1 |-> [a \in Symbol |->
                targets_over(state_post(A.delta, q), a)]]]

get_useful_states(A) == UsefulStates(AsAutomaton(A))

\* Nfa::trim(): the useful states are renamed to 0, 1, ... in ascending order.
\* Only the entries of the useful states are set in the renaming vector.
trimmed(A, useful) ==
  LET renaming == [q \in useful |-> Cardinality({p \in useful : p < q})]
  IN  [delta |-> defragment(A.delta, useful, renaming),
       initial |-> renamed(A.initial.set \cap useful, renaming),
       final |-> renamed(A.final.set \cap useful, renaming)]

\* A is bound here so that it is computed once.
trim(A) == CHOOSE T \in {trimmed(B, get_useful_states(B)) : B \in {A}} : TRUE
=============================================================================
