------------------------------ MODULE Calculator ------------------------------
(***************************************************************************)
(* The operations of mata::nfa in sequence: a register holds an automaton, *)
(* a call replaces it by the result of an operation on it, or on it and an *)
(* operand.  What one operation leaves behind (states that no transition   *)
(* leads to, posts that are not allocated, epsilon transitions, several    *)
(* initial states) is what the next one starts from.                       *)
(***************************************************************************)
EXTENDS StringQueries

CONSTANTS
  Beginnings,       \* automata in the register at first
  Stock, Other,     \* the names of the operands and their automata
  MaxWord,          \* the words up to this length are compared
  MaxCalls,         \* calls in a row
  MaxStates         \* an automaton that is larger is not worked on further

VARIABLES aut, called, calls

vars == <<aut, called, calls>>

Letter == Symbol \ {EPSILON}

epsilon_free(A) == \A t \in trans(A) : t[2] # EPSILON

\* The words up to MaxWord that label an accepting run, epsilons left out.
Language(A) ==
  LET states == 0..num_of_states(A)-1
      over(q, a) == {t[3] : t \in {u \in trans(A) : u[1] = q /\ u[2] = a}}
      closed == [q \in states |-> Closure([p \in states |-> over(p, EPSILON)], {q})]
      step == [q \in states |-> [a \in Letter |-> UNION {closed[p] : p \in over(q, a)}]]
      after[n \in 0..MaxWord] ==
        IF n = 0 THEN << >> :> UNION {closed[q] : q \in A.initial.set}
        ELSE LET before == after[n-1]
             IN  [w \in [1..n -> Letter] |-> UNION {step[q][w[n]] : q \in before[Front(w)]}]
  IN  UNION {LET reached == after[n]
             IN  {w \in DOMAIN reached : reached[w] \cap A.final.set # {}} : n \in 0..MaxWord}

-----------------------------------------------------------------------------
Init == aut \in Beginnings /\ called = <<"same", 0>> /\ calls = 0

\* The register takes the result of a call that promises op.
Result(op, A) ==
  /\ calls < MaxCalls /\ num_of_states(aut) <= MaxStates
  /\ aut' = A
  /\ called' = op
  /\ calls' = calls + 1

Revert == Result(<<"reverse", 0>>, revert(aut))

RemoveEpsilon == Result(<<"same", 0>>, remove_epsilon(aut, EPSILON))

Trim == Result(<<"same", 0>>, trim(aut))

Determinize == Result(<<"same", 0>>, determinize(aut))

MinimizeBrzozowski == Result(<<"same", 0>>, minimize_brzozowski(aut))

ReduceSimulation == Result(<<"same", 0>>, reduce_size_by_simulation(aut))

ReduceResidual == \E type \in {"with", "after"}, direction \in {"forward", "backward"}, ascending \in BOOLEAN :
  Result(<<"same", 0>>, reduce_size_by_residual(aut, type, direction, ascending))

\* Determinization takes epsilon for a symbol, so the complements do.
ComplementClassical ==
  epsilon_free(aut) /\ Result(<<"complement", 0>>, complement_classical(aut, Letter))

ComplementBrzozowski ==
  epsilon_free(aut) /\ Result(<<"complement", 0>>, complement_brzozowski(aut, Letter))

Intersection == \E o \in Stock :
  Result(<<"intersection", o>>, intersection(aut, Other[o], EPSILON))

\* The product of two automata accepts the union when both are complete, and a
\* part of it otherwise: a word that one of them cannot read is lost.
UnionProduct == \E o \in Stock :
  LET complete == \A A \in {aut, Other[o]} :
        epsilon_free(A) /\ is_complete(A, Letter) /\ A.initial.set # {}
  IN  Result(<<IF complete THEN "union" ELSE "part_of_union", o>>,
             union_product(aut, Other[o], EPSILON))

UnionNondet == \E o \in Stock : Result(<<"union", o>>, union_nondet(aut, Other[o]))

Concatenate == \E o \in Stock : Result(<<"concatenation", o>>, concatenate(aut, Other[o]))

\* A letter that the caller names instead of the epsilon stays between the words,
\* for it is the default epsilon that is removed.
ConcatenateEps == \E o \in Stock, use_epsilon \in BOOLEAN, epsilon \in {EPSILON, Min(Letter)} :
  Result(IF epsilon = EPSILON THEN <<"concatenation", o>> ELSE <<"joined", <<o, epsilon>>>>,
         concatenate_eps(aut, Other[o], epsilon, use_epsilon))

Difference == \E o \in Stock :
  /\ epsilon_free(aut) /\ epsilon_free(Other[o])
  /\ Result(<<"difference", o>>, lang_difference(aut, Other[o], FALSE))

OneLetter == \E a \in Letter :
  epsilon_free(aut) /\ Result(<<"one_letter", a>>, get_one_letter_aut(aut, a))

Next ==
  \/ Revert \/ RemoveEpsilon \/ Trim \/ Determinize \/ MinimizeBrzozowski
  \/ ReduceSimulation \/ ReduceResidual \/ ComplementClassical \/ ComplementBrzozowski
  \/ Intersection \/ UnionProduct \/ UnionNondet \/ Concatenate \/ ConcatenateEps
  \/ Difference \/ OneLetter

Spec == Init /\ [][Next]_vars

-----------------------------------------------------------------------------
\* Every operation leaves a well-formed automaton, and a loop over its
\* transitions sees each of them once, in order, with its own symbol: the
\* iterator (delta.cc:219) updates what it shows field by field.
ListingExact ==
  /\ WellFormedDelta(aut.delta)
  /\ aut.initial.set \cup aut.final.set \subseteq 0..num_of_states(aut)-1
  /\ LET seen == listing(aut.delta)
     IN  /\ Range(seen) = trans(aut)
         /\ Len(seen) = num_of_transitions(aut.delta)
         /\ Len(seen) = Cardinality(trans(aut))
         /\ seen = in_order(aut.delta)
         /\ get_max_symbol(aut.delta) = Max({0} \cup Range(get_used_symbols(aut.delta)))
         /\ \A q \in 0..num_of_states(aut)-1 :
              LET sp == state_post(aut.delta, q)
              IN  /\ ~ moves_symbols_throws(EPSILON-1, EPSILON)
                  /\ moves_of(aut, q) = moves_symbols(sp, EPSILON-1) \o moves_epsilons(sp, EPSILON)
                  /\ \A t \in Range(get_transitions_to(aut.delta, q)) : contains(aut.delta, t[1], t[2], q)

\* The words the queries return are words of the language: a counterexample to
\* emptiness is a shortest one and its path is a run, get_words() returns all
\* words up to a length, and the words of the complement and of a difference
\* are found while these automata are being built.
QueriesExact ==
  LET L == Language(aut)
      run == is_lang_empty(aut)
      word == get_word(aut, EPSILON)
      other == get_word_from_complement(aut, Letter)
  IN  /\ run.empty => L = {} /\ ~ word.found
      /\ ~ run.empty =>
           /\ Len(run.path) = Len(run.word) + 1
           /\ Head(run.path) \in aut.initial.set /\ Last(run.path) \in aut.final.set
           /\ \A i \in 1..Len(run.word) : contains(aut.delta, run.path[i], run.word[i], run.path[i+1])
           /\ \A q \in aut.final.set : Len(run.word) <= distances_from_initial(aut)[q]
           /\ word.found /\ (Len(word.word) <= MaxWord => word.word \in L)
      /\ epsilon_free(aut) =>
           /\ get_words(aut, MaxWord) = L
           /\ {w \in L \cup {<<0, 1>>, <<1>>} : is_in_lang(aut, w)} = L \cap (L \cup {<<0, 1>>, <<1>>})
           /\ IF other.found THEN Len(other.word) <= MaxWord => other.word \notin L
              ELSE L = Words(Letter, MaxWord)
           /\ \A o \in {p \in Stock : epsilon_free(Other[p])} :
                LET rest == get_word_from_lang_difference(aut, Other[o])
                IN  IF rest.found
                    THEN is_in_lang(aut, rest.word) /\ ~ is_in_lang(Other[o], rest.word)
                    ELSE L \subseteq Language(Other[o])

\* The two universality algorithms agree, the two sides of an equivalence are
\* the two inclusions, and every counterexample is one; the path of a
\* counterexample to inclusion is a run of the smaller automaton.
DecisionsExact ==
  \A naive \in {is_universal_naive(aut, Letter)}, antichain \in {is_universal_antichains(aut, Letter)} :
    epsilon_free(aut) =>
      /\ naive.empty <=> ~ antichain.found
      /\ naive.empty => Language(aut) = Words(Letter, MaxWord)
      /\ ~ naive.empty => ~ is_in_lang(aut, naive.word) /\ ~ is_in_lang(aut, antichain.word)
      /\ \A o \in {p \in Stock : epsilon_free(Other[p])} :
           \A included \in {is_included_naive(aut, Other[o], Letter)} :
             /\ IF included.empty THEN Language(aut) \subseteq Language(Other[o])
                ELSE /\ is_in_lang(aut, included.word) /\ ~ is_in_lang(Other[o], included.word)
                     /\ Head(included.path) \in aut.initial.set
                     /\ \A i \in 1..Len(included.word) :
                          contains(aut.delta, included.path[i], included.word[i], included.path[i+1])
             /\ are_equivalent(aut, Other[o]) =>
                  /\ included.empty
                  /\ is_universal_antichains(Other[o], Letter).found = antichain.found

\* The lengths of accepted words up to n.
lengths_up_to(A, n) ==
  LET after[k \in 0..n] ==
        IF k = 0 THEN A.initial.set
        ELSE LET before == after[k-1]
             IN  {t[3] : t \in {u \in trans(A) : u[1] \in before}}
  IN  {k \in 0..n : after[k] \cap A.final.set # {}}

\* The shortest words are all of the shortest words: the set of a state is
\* complete when it is extended (nfa-strings.cc:88).  The pairs of get_word_lengths()
\* describe the lengths, also beyond the loop.
WordsOf(A) ==
  LET L == Language(A)
      words == get_shortest_words(A)
      lengths == get_word_lengths(A)
  IN  /\ IF L = {} THEN \A w \in words : Len(w) > MaxWord /\ is_in_lang(A, w)
         ELSE words = {w \in L : \A v \in L : Len(w) <= Len(v)}
      /\ get_accepted_symbols(A) = {a \in Letter : <<a>> \in L}
      /\ is_lang_eps(A) <=> get_words(A, num_of_states(A)) = {<< >>}
      /\ lengths_up_to(A, 2 * MaxWord) =
           {n \in 0..2*MaxWord : \E uv \in lengths, k \in 0..2*MaxWord : n = uv[1] + k * uv[2]}

\* The noodles of the equation x y = z are a partition of its solutions: the
\* words of x and y that together make a word of z, and no others, whether the
\* automata are shared, unified or reduced.
NoodlesOf(A) ==
  LET heap == [n \in {0} \cup Stock |-> IF n = 0 THEN A ELSE Other[n]]
      solutions(K, L, M) == {uv \in K \X L : uv[1] \o uv[2] \in M}
      spelt(noodle) == {uv \in Language(noodle[1]) \X Language(noodle[2]) : Len(uv[1]) + Len(uv[2]) <= MaxWord}
  IN  \A lhs \in {<<0, 0>>, <<0, 1>>}, how \in {<<TRUE, "false">>, <<FALSE, "false">>, <<FALSE, "bidirectional">>} :
        \E noodles \in {noodlify_for_equation(lhs, 1, heap, how[1], how[2])} :
          /\ \A noodle \in noodles : Len(noodle) = 2
          /\ UNION {spelt(noodle) : noodle \in noodles}
               = UNION {solutions(K, L, M) : K \in {Language(A)}, L \in {Language(heap[lhs[2]])},
                                             M \in {Language(Other[1])}}

\* A word and where the sides of an equation are divided: the parts that are not
\* empty, each with the number of divisions of the two sides before it.
divided(w, p, q) ==
  LET least == Min({p, q})
      parts == <<<<SubSeq(w, 1, least), <<0, 0>>>>,
                 <<SubSeq(w, least + 1, Max({p, q})), IF p < q THEN <<1, 0>> ELSE <<0, 1>>>>,
                 <<SubSeq(w, Max({p, q}) + 1, Len(w)), <<1, 1>>>>>>
  IN  SelectSeq(parts, LAMBDA part : part[1] # << >>)

\* The noodles of x y = y x, over one letter so that no letter is EPSILON - 1: a
\* part between two divisions counts those before it on each side.
NoodlesOfBothSidesOf(A) ==
  LET heap == <<A, get_one_letter_aut(Other[1], 0)>>
      letters(parts) == FoldLeft(LAMBDA n, part : n + Len(part[1]), 0, parts)
      spelt(noodle) ==
        FoldLeft(LAMBDA S, part : {sw[1] \o (IF sw[2] = << >> THEN << >> ELSE <<<<sw[2], part[2]>>>>) :
                                     sw \in S \X Language(part[1])}, {<< >>}, noodle)
      solutions(K, L) == {z \in (K \X L) \X (L \X K) : Len(z[1][1]) + Len(z[1][2]) <= MaxWord
                                                         /\ z[1][1] \o z[1][2] = z[2][1] \o z[2][2]}
  IN  \A reduction \in {"false", "bidirectional"} :
        \E noodles \in {noodlify_for_equation_both(<<1, 2>>, <<2, 1>>, heap, reduction)} :
          {parts \in UNION {spelt(noodle) : noodle \in noodles} : letters(parts) <= MaxWord}
            = UNION {{divided(z[1][1] \o z[1][2], Len(z[1][1]), Len(z[2][1])) : z \in solutions(K, L)} :
                       K \in {Language(A)}, L \in {Language(heap[2])}}

\* What a string solver is told holds after any calls: the shortest words and the
\* lengths, and the noodles of equations over the automaton in the register.
StringsExact ==
  [][epsilon_free(aut') =>
       /\ WordsOf(aut')
       /\ calls' < MaxCalls /\ num_of_states(aut') <= MaxStates =>
            /\ NoodlesOf(aut')
            /\ (\A t \in trans(aut') : t[2] = 0) => NoodlesOfBothSidesOf(aut')]_vars

\* The three ways to revert an automaton build the same one, and the two ways
\* to a residual automaton end with the same number of states, whatever the
\* order of the unordered maps, as the comment at operations.cc:474 says; it is
\* never larger than the minimal deterministic automaton.
ConstructionsAgree ==
  /\ {fragile_revert(aut), somewhat_simple_revert(aut)} = {simple_revert(aut)}
  /\ \E sizes \in {[direction \in {"forward", "backward"} |->
                    {num_of_states(reduce_size_by_residual(aut, type, direction, ascending)) :
                       type \in {"with", "after"}, ascending \in BOOLEAN}]} :
       /\ Cardinality(sizes["forward"]) = 1 /\ Cardinality(sizes["backward"]) = 1
       /\ Max(sizes["forward"]) <= num_of_states(trim(minimize_brzozowski(aut)))

\* What is kept in the register, and what is built in several ways, is the same
\* however it is looked at.
RepresentationsExact == ListingExact /\ ConstructionsAgree

Abstract == INSTANCE LanguageAlgebra WITH
  language <- Language(aut), LanguageOf <- [o \in Stock |-> Language(Other[o])]

\* Every operation makes of the languages of its operands what its name
\* promises, after any calls that came before.
ImplementsLanguageAlgebra == Abstract!Spec
=============================================================================
