------------------------------ MODULE Transducer ------------------------------
(***************************************************************************)
(* The operations of mata::nft in sequence: a register holds a transducer, *)
(* a call replaces it by the result of an operation on it, or on it and an *)
(* operand.  The levels that one operation leaves are the ones that the    *)
(* next one goes by.  An operation that reads the level of every state is  *)
(* called when every state has one.                                        *)
(*                                                                         *)
(* First comes the mathematics that they are measured against: relations   *)
(* over words.                                                             *)
(***************************************************************************)
EXTENDS Replacements

CONSTANTS
  Letter,           \* the alphabet of the tracks
  Marker,           \* a symbol kept for the replacements
  Beginnings,       \* transducers in the register at first
  Partners,         \* operands that are transducers
  Inputs,           \* operands that are automata
  Patterns,         \* <<regex, its words>>, deterministic, without the empty word
  Written,          \* the replacements
  MaxWord,          \* the words up to this length are compared
  MaxLong,          \* up to this length where occurrences are replaced
  MaxLevels,        \* levels are inserted up to this number
  MaxTracks,        \* the tracks of the operands whose masks are compared
  MaxCalls,         \* calls in a row
  MaxStates         \* a transducer that is larger is not worked on further

ASSUME SymbolsApart ==
  /\ Cardinality({Marker, DONT_CARE, EPSILON}) = 3
  /\ Letter \cap {Marker, DONT_CARE, EPSILON} = {}
  /\ Symbol = Letter \cup {Marker, DONT_CARE, EPSILON}

VARIABLES nft, jump_mode, called, calls

vars == <<nft, jump_mode, called, calls>>

-----------------------------------------------------------------------------
(***************************************************************************)
(* A relation over tracks is a set of functions from tracks to words; it   *)
(* is seen through its members whose words are short enough.  A machine is *)
(* [initial, final, moves]; a move is <<p, label, q>>, label a function    *)
(* from tracks to words.  Nothing here models code.                        *)
(***************************************************************************)
RECURSIVE reached(_, _, _, _)
reached(step, bound, frontier, seen) ==
  IF frontier = {} THEN seen
  ELSE LET next == {c \in UNION {{<<m[3], [t \in DOMAIN bound |-> x[2][t] \o m[2][t]]>> :
                                    m \in step[x[1]]} : x \in frontier} :
                      \A t \in DOMAIN bound : Len(c[2][t]) <= bound[t]}
       IN  reached(step, bound, next \ seen, seen \cup next)

states_of(machine) ==
  machine.initial \cup machine.final \cup UNION {{m[1], m[3]} : m \in machine.moves}

\* The members whose word on track t has at most bound[t] letters.
RelationOf(machine, bound) ==
  LET step == FoldSet(LAMBDA m, f : [f EXCEPT ![m[1]] = @ \cup {m}],
                      [q \in states_of(machine) |-> {}], machine.moves)
      start == {<<q, [t \in DOMAIN bound |-> << >>]>> : q \in machine.initial}
  IN  {c[2] : c \in {x \in reached(step, bound, start, start) : x[1] \in machine.final}}

\* The tuple without the tracks that are out, the others moved together.
without(tuple, out) ==
  LET left == SelectSeq([i \in 1..Cardinality(DOMAIN tuple) |-> i-1], LAMBDA t : t \notin out)
  IN  [t \in 0..Len(left)-1 |-> tuple[left[t+1]]]

\* M of n tracks before N of m tracks: what M has on its last track N has on its
\* first one, no matter how long it is; the other tracks are side by side.
Before(M, n, N, m) ==
  LET beside(f, g) == [t \in 0..n+m-3 |-> IF t < n-1 THEN f[t] ELSE g[t-n+2]]
      silent(k) == [t \in 0..k-1 |-> << >>]
      resting(machine, k) == {<<q, silent(k), q>> : q \in states_of(machine)}
      side_by_side(first, second) ==
        {<<<<x[1][1], x[2][1]>>, beside(x[1][2], x[2][2]), <<x[1][3], x[2][3]>>>> :
           x \in {y \in first \X second : y[1][2][n-1] = y[2][2][0]}}
  IN  [initial |-> M.initial \X N.initial, final |-> M.final \X N.final,
       moves |-> side_by_side(M.moves, N.moves \cup resting(N, m))
                   \cup side_by_side(resting(M, n), N.moves)]

within(R, bound) == {r \in R : \A t \in DOMAIN r : Len(r[t]) <= bound[t]}

-----------------------------------------------------------------------------
\* The leftmost shortest occurrences of pattern, a set of nonempty words, are
\* replaced: all of them, or only the first.
RECURSIVE replaced(_, _, _, _)
replaced(w, pattern, replacement, all) ==
  LET ends == {k \in 1..Len(w) : SubSeq(w, 1, k) \in pattern}
      k == CHOOSE e \in ends : \A f \in ends : e <= f
      rest == SubSeq(w, k+1, Len(w))
  IN  IF w = << >> THEN << >>
      ELSE IF ends = {} THEN <<Head(w)>> \o replaced(Tail(w), pattern, replacement, all)
      ELSE replacement \o (IF all THEN replaced(rest, pattern, replacement, all) ELSE rest)

-----------------------------------------------------------------------------
(* The operations.                                                         *)
\* What a transition from q to p over a reads: functions from tracks to words.
words_of(a) ==
  CASE a = EPSILON -> {<< >>} [] a = DONT_CARE -> {<<x>> : x \in Letter} [] OTHER -> {<<a>>}

readings(T, mode, t) ==
  LET tracks == tracks_between(T, t[1], t[3])
      on(k) == IF k \notin tracks THEN {<< >>}
               ELSE words_of(IF mode = Append_ /\ k # Min(tracks) THEN DONT_CARE ELSE t[2])
  IN  {f \in [0..T.num_of_levels-1 -> UNION {on(k) : k \in 0..T.num_of_levels-1}] :
         \A k \in DOMAIN f : f[k] \in on(k)}

\* The machine of T; what is read on a hidden track is left out.
machine(T, mode, hidden) ==
  LET seen(f) == [k \in DOMAIN f |-> IF k \in hidden THEN << >> ELSE f[k]]
  IN  [initial |-> T.initial.set, final |-> T.final.set,
       moves |-> UNION {{<<t[1], seen(f), t[3]>> : f \in readings(T, mode, t)} : t \in trans(T)}]

bounded(n) == [k \in 0..n-1 |-> MaxWord]

Relation(T, mode) == RelationOf(machine(T, mode, {}), bounded(T.num_of_levels))

\* The pairs of a transducer that replaces, the words as long as the input may be.
Replacing(T) == RelationOf(machine(T, Repeat, {}), [k \in 0..1 |-> MaxLong])

Hiding(T, mode, hidden) ==
  {without(r, hidden) : r \in RelationOf(machine(T, mode, hidden), bounded(T.num_of_levels))}

\* The words over the symbols but the silent ones, whatever the levels.
Flat(T, silent) ==
  LET read(a) == IF a \in silent THEN << >> ELSE <<a>>
  IN  {r[0] : r \in RelationOf([initial |-> T.initial.set, final |-> T.final.set,
                                moves |-> {<<t[1], 0 :> read(t[2]), t[3]>> : t \in trans(T)}],
                               bounded(1))}

has_levels(T) == Len(T.levels) >= num_of_states(T)

fits(T) == Len(T.levels) = num_of_states(T)

jump_free(T) == \A t \in trans(T) : Cardinality(tracks_between(T, t[1], t[3])) = 1

symbols_on(T, k) ==
  {t[2] : t \in {u \in trans(T) : k \in tracks_between(T, u[1], u[3])}}

specific(T) == jump_free(T) /\ \A t \in trans(T) : t[2] # DONT_CARE

epsilon_free(T) == \A t \in trans(T) : t[2] # EPSILON

\* A symbol is read where T and U are synchronized, not DONT_CARE, and some track
\* is left.
synchronizes(T, U) ==
  /\ T.num_of_levels + U.num_of_levels > 2
  /\ jump_mode = Repeat \/ (jump_free(T) /\ jump_free(U))
  /\ DONT_CARE \notin symbols_on(T, T.num_of_levels-1) \cup symbols_on(U, 0)

-----------------------------------------------------------------------------
Init ==
  /\ nft \in Beginnings
  /\ jump_mode \in {Repeat, Append_}
  /\ called = <<"same", 0>>
  /\ calls = 0

Callable == calls < MaxCalls /\ num_of_states(nft) <= MaxStates

\* The register takes the result of a call that promises op.
Result(op, T) ==
  /\ Callable
  /\ nft' = T
  /\ called' = op
  /\ calls' = calls + 1
  /\ UNCHANGED jump_mode

Trim == has_levels(nft) /\ \E stale \in SUBSET unset_levels(nft) :
  Result(<<"same", 0>>, nft_trim(nft, stale))

\* Epsilons are removed where they pass all the tracks; elsewhere a level would
\* be skipped.
RemoveEpsilon ==
  /\ has_levels(nft) /\ jump_mode = Repeat
  /\ \A t \in trans(nft) : t[2] = EPSILON => level(nft, t[1]) = 0 /\ level(nft, t[3]) = 0
  /\ Result(<<"same", 0>>, nft_remove_epsilon(nft, EPSILON))

OneLevel == fits(nft) /\ Result(<<"same", 0>>, get_one_level_aut(nft, Letter, jump_mode))

\* Hiding a track, or all tracks but one.
ProjectOut == Callable /\ has_levels(nft) /\ nft.num_of_levels > 1
  /\ \E k \in 0..nft.num_of_levels-1 : \E T \in project_out(nft, {k}, jump_mode) :
       Result(<<"hide", {k}>>, T)

ProjectTo == Callable /\ has_levels(nft) /\ nft.num_of_levels > 1
  /\ \E k \in 0..nft.num_of_levels-1 : \E T \in project_to(nft, {k}, jump_mode) :
       Result(<<"hide", (0..nft.num_of_levels-1) \ {k}>>, T)

InsertLevel == has_levels(nft) /\ \E k \in 0..nft.num_of_levels+1 :
  /\ Larger(nft.num_of_levels, k) < MaxLevels
  /\ Result(<<"insert", k>>, insert_level(nft, k, jump_mode))

\* With RepeatSymbol a side that waits does so in the source of its jump, and
\* forgets which symbol it was: the intersection of jumps is not exact.
Intersect == has_levels(nft) /\ \E U \in Partners :
  /\ U.num_of_levels = nft.num_of_levels
  /\ jump_mode = Append_ \/ (jump_free(nft) /\ jump_free(U))
  /\ Result(<<"intersection", U>>,
            nft_intersection(nft, U, jump_mode, num_of_states(nft), num_of_states(U)))

\* Whether project_out() is called as it asserts is noted with the call.
Composed(A, B, results) ==
  \E asserted \in {compose_asserts(A, B, <<A.num_of_levels-1>>, <<0>>, jump_mode)}, T \in results :
    Result(<<"composition", A, B, asserted>>, T)

\* The register first or second.
Compose == Callable /\ has_levels(nft) /\ \E U \in Partners : \E pair \in {<<nft, U>>, <<U, nft>>} :
  /\ synchronizes(pair[1], pair[2])
  /\ Composed(pair[1], pair[2],
              compose(pair[1], pair[2], <<pair[1].num_of_levels-1>>, <<0>>, jump_mode))

\* apply() at level 0 and apply_backward() at the last level of two.
Apply == Callable /\ has_levels(nft) /\ \E A \in Inputs : \E id \in {identity_for(nft, A)} :
  synchronizes(id, nft) /\ Composed(id, nft, apply(nft, A, 0, jump_mode))

ApplyBackward == Callable /\ has_levels(nft) /\ nft.num_of_levels = 2
  /\ \E A \in Inputs : \E id \in {identity_for(nft, A)} :
       synchronizes(nft, id) /\ Composed(nft, id, apply_backward(nft, A, 1, jump_mode))

Concatenate == fits(nft) /\ \E U \in Partners :
  /\ U.num_of_levels = nft.num_of_levels
  /\ Result(<<"concatenation", U>>, nft_concatenate(nft, U))

ConcatenateEps == \E U \in Partners, use_epsilon \in BOOLEAN :
  /\ U.num_of_levels = nft.num_of_levels
  /\ Result(<<"flat_concatenation", U>>, nft_concatenate_eps(nft, U, EPSILON, use_epsilon))

Uni == \E U \in Partners :
  /\ U.num_of_levels = nft.num_of_levels
  /\ Result(<<"flat_union", U>>, uni(nft, U))

\* A word from a state of level 0 to an initial or final one, as one word or as
\* its parts.
ends(T) == (T.initial.set \cup T.final.set) \cap 0..num_of_states(T)-1

InsertWord == has_levels(nft) /\ \E p \in 0..num_of_states(nft)-1, q \in ends(nft) :
  \E a \in Letter : \E b \in {a, EPSILON} :
    LET parts == [k \in 1..nft.num_of_levels |-> IF k = 1 THEN <<a>> ELSE <<b>>]
    IN  /\ level(nft, p) = 0 /\ ~ insert_word_throws(nft, p, q)
        /\ Result(<<"word", p, parts, q>>,
                  nft_insert_word(nft, p, [k \in DOMAIN parts |-> parts[k][1]], q))

InsertParts == has_levels(nft) /\ nft.num_of_levels > 1
  /\ \E p \in 0..num_of_states(nft)-1, q \in ends(nft), a \in Letter :
    LET parts == [k \in 1..nft.num_of_levels |-> IF k = 1 THEN <<a, a>> ELSE IF k = 2 THEN <<a>> ELSE << >>]
    IN  /\ level(nft, p) = 0
        /\ Result(<<"word", p, parts, q>>, insert_word_by_parts(nft, p, parts, q))

InsertIdentity == has_levels(nft) /\ \E q \in {s \in 0..num_of_states(nft)-1 : level(nft, s) = 0} :
  Result(<<"identity", q>>, insert_identity(nft, q, ordered(Letter)))

Clear == Result(<<"nothing", 0>>, nft_clear(nft))

-----------------------------------------------------------------------------
\* What takes a transducer for an automaton.
Determinize == Result(<<"flat", "determinize">>, nft_determinize(nft))

MinimizeBrzozowski == Result(<<"flat", "minimizebrzozowski">>, nft_minimize_brzozowski(nft))

Reduce == Result(<<"flat", "reduce">>, nft_reduce(nft))

Revert == Result(<<"flat_reverse", 0>>, nft_revert(nft))

Complement == \E minimize \in BOOLEAN :
  Result(<<"flat_complement", 0>>, nft_complement(nft, Symbol, minimize))

-----------------------------------------------------------------------------
\* The transducers of nft/strings.cc replace what is in an empty register.
Fresh == calls = 0 /\ nft = EmptyNft(2) /\ jump_mode = Repeat

ReplaceSymbol == Fresh /\ \E a \in Letter, w \in Written, mode \in {"All", "Single"} :
  Result(<<"replace", {<<a>>}, w, mode = "All">>, replace_symbol(Letter, a, w, mode))

ReplaceLiteral == Fresh /\ \E w \in Written, mode \in {"All", "Single"} :
  \E literal \in {<<a, b>> : a, b \in Letter} \cup {<<a>> : a \in Letter} :
    \E T \in replace_literal(literal, w, Letter, mode, Marker) :
      Result(<<"replace", {literal}, w, mode = "All">>, T)

ReplaceRegex == Fresh /\ \E w \in Written, mode \in {"All", "Single"}, pattern \in Patterns :
  \E T \in replace_regex(pattern[1], w, Letter, mode, Marker) :
    Result(<<"replace", pattern[2], w, mode = "All">>, T)

Next ==
  \/ Trim \/ RemoveEpsilon \/ OneLevel \/ ProjectOut \/ ProjectTo \/ InsertLevel \/ Intersect
  \/ Compose \/ Apply \/ ApplyBackward \/ Concatenate \/ ConcatenateEps
  \/ Uni \/ InsertWord \/ InsertParts \/ InsertIdentity \/ Clear
  \/ Determinize \/ MinimizeBrzozowski \/ Reduce \/ Revert \/ Complement
  \/ ReplaceSymbol \/ ReplaceLiteral \/ ReplaceRegex

Spec == Init /\ [][Next]_vars

-----------------------------------------------------------------------------
\* The register with one more way from p to q that reads the parts.
with_way(M, p, parts, q) ==
  [M EXCEPT !.moves = @ \cup
     {<<p, [k \in 0..Len(parts)-1 |-> SelectSeq(parts[k+1], LAMBDA a : a # EPSILON)], q>>}]

\* The relation that the call makes of the one before, seen through words.
promised(op) ==
  LET n == nft.num_of_levels
      bound == bounded(n)
      M == machine(nft, jump_mode, {})
      R == RelationOf(M, bound)
  IN  CASE op[1] = "same" -> R
        [] op[1] = "nothing" -> {}
        [] op[1] = "hide" -> Hiding(nft, jump_mode, op[2])
        [] op[1] = "composition" ->
             LET n1 == op[2].num_of_levels
                 n2 == op[3].num_of_levels
             IN  RelationOf(Before(machine(op[2], jump_mode, {}), n1, machine(op[3], jump_mode, {}), n2),
                            bounded(n1 + n2 - 2))
        [] op[1] = "concatenation" ->
             within({[k \in DOMAIN rs[1] |-> rs[1][k] \o rs[2][k]] : rs \in R \X Relation(op[2], jump_mode)}, bound)
        [] op[1] = "word" -> RelationOf(with_way(M, op[2], op[3], op[4]), bound)
        [] op[1] = "identity" ->
             RelationOf([M EXCEPT !.moves = @ \cup
               {<<op[2], [k \in 0..n-1 |-> <<a>>], op[2]>> : a \in Letter}], bound)

\* The words up to length n.
Words_(n, symbols) == UNION {[1..m -> symbols] : m \in 0..n}

\* The flat language that a call makes of the one before.
flat_promised(op) ==
  LET L == Flat(nft, {})
  IN  CASE op[1] = "flat" -> L
        [] op[1] = "flat_reverse" -> {Reverse(w) : w \in L}
        [] op[1] = "flat_complement" -> Words_(MaxWord, Symbol) \ L
        [] op[1] = "flat_union" -> L \cup Flat(op[2], {})

\* Every input with what replacing makes of it.
replacing_promised(op) ==
  within({[k \in 0..1 |-> IF k = 0 THEN w ELSE replaced(w, op[2], op[3], op[4])] :
            w \in Words_(MaxLong, Letter)}, [k \in 0..1 |-> MaxLong])

\* The number of tracks after a call.  What takes a transducer for an automaton
\* leaves two, concatenation and union apart.  A composition loses the track it
\* is synchronized on from either side; of an operand without a language it comes
\* back with one track, whatever the operands have.
lost(op) == no_language(op[2]) \/ no_language(op[3])

tracks_promised(op) ==
  LET n == nft.num_of_levels
  IN  CASE op[1] = "hide" -> n - Cardinality(op[2])
        [] op[1] = "insert" -> Larger(n, op[2]) + 1
        [] op[1] = "composition" ->
             IF lost(op) THEN 1 ELSE op[2].num_of_levels + op[3].num_of_levels - 2
        [] op[1] \in {"flat", "flat_reverse", "flat_complement", "replace"} -> 2
        [] OTHER -> n

\* The masks of a composition over several pairs of levels, ls[i] with rs[i]:
\* each operand keeps its tracks, and the levels of a pair meet in one track.
levels_of_pairs(k, n) ==
  {s \in [1..k -> 0..n-1] : \A i, j \in 1..k : i < j => s[i] < s[j]}

aligned(n, m, ls, rs) ==
  LET masks == sync_masks([num_of_levels |-> n], [num_of_levels |-> m], ls, rs)
      lhs == old_tracks(masks.lhs)
      rhs == old_tracks(masks.rhs)
  IN  /\ Len(masks.lhs) = Len(masks.rhs) /\ Len(lhs) = n /\ Len(rhs) = m
      /\ \A i \in DOMAIN ls : lhs[ls[i]+1] = rhs[rs[i]+1]
      /\ masks.out = {lhs[ls[i]+1] : i \in DOMAIN ls}

\* The levels between a pair and the one before.
gap(s, i) == IF i = 1 THEN s[1] ELSE s[i] - s[i-1] - 1

\* The masks are right as long as the second operand is padded at most once
\* before the last pair, its offset being assigned and not added up.
MasksAligned ==
  \A n, m \in 1..MaxTracks, k \in 1..3 :
    \A ls \in levels_of_pairs(k, n), rs \in levels_of_pairs(k, m) :
      (\A i \in 2..k : gap(ls, i) = 0 \/ gap(rs, i) = 0) =>
        (aligned(n, m, ls, rs) <=>
           Cardinality({i \in 1..k-1 : gap(ls, i) > gap(rs, i)}) <= 1)

\* Every call makes of the relation in the register, seen through short words,
\* what its name promises: an inserted track is free and hiding it gives the
\* relation back, an intersection without epsilons is exact, one without
\* DONT_CARE is sound, and a composition is exact where symbols meet symbols; the
\* result has the tracks that are promised.  What project_out() asserts holds
\* unless a composition of more than two tracks has an operand without a language.
TransductionsExact ==
  [][\A after \in {Relation(nft', jump_mode)}, op \in {called'[1]} :
         /\ nft'.num_of_levels = tracks_promised(called')
         /\ op = "composition" =>
              /\ called'[4] <=> ~ lost(called') \/ called'[2].num_of_levels <= 2
              /\ MasksAligned
         /\ op \in {"same", "nothing", "hide", "composition", "concatenation", "word", "identity"} =>
              after = promised(called')
         /\ op = "replace" => Replacing(nft') = replacing_promised(called')
         /\ op \in {"flat", "flat_reverse", "flat_complement", "flat_union"} =>
              Flat(nft', {}) = flat_promised(called')
         /\ op = "flat_concatenation" =>
              Flat(nft', {EPSILON}) =
                {w \in {v[1] \o v[2] : v \in Flat(nft, {EPSILON}) \X Flat(called'[2], {EPSILON})} :
                   Len(w) <= MaxWord}
         /\ op = "insert" =>
              LET k == called'[2]
                  n == nft.num_of_levels
                  new == IF k <= n THEN {k} ELSE n..k
              IN  /\ Hiding(nft', jump_mode, new) = Relation(nft, jump_mode)
                  /\ \A r \in after, x \in Letter :
                       [l \in DOMAIN r |-> IF l \in new THEN [i \in DOMAIN r[l] |-> x] ELSE r[l]] \in after
         /\ op = "intersection" =>
              \A both \in {Relation(nft, jump_mode) \cap Relation(called'[2], jump_mode)} :
                /\ epsilon_free(nft) /\ epsilon_free(called'[2]) => both = after
                /\ specific(nft) /\ specific(called'[2]) => after \subseteq both]_vars

-----------------------------------------------------------------------------
\* A run starts and ends at level 0 and goes deeper or to the end of a round.
LevelsSound ==
  has_levels(nft) =>
    /\ \A q \in 0..num_of_states(nft)-1 : level(nft, q) < Larger(nft.num_of_levels, 1)
    /\ \A q \in nft.initial.set \cup nft.final.set : level(nft, q) = 0
    /\ \A t \in trans(nft) : level(nft, t[3]) > level(nft, t[1]) \/ level(nft, t[3]) = 0

\* A transition that passes several tracks is read symbol by symbol.
readable(T) ==
  \A t \in trans(T) : Cardinality(tracks_between(T, t[1], t[3])) > 1 => t[2] = DONT_CARE

\* The tuples that can be read up to a state on a cycle of epsilons.
idle(T) ==
  LET silent == [q \in 0..num_of_states(T)-1 |->
                   {t[3] : t \in {u \in trans(T) : u[1] = q /\ u[2] = EPSILON}}]
  IN  {q \in DOMAIN silent : q \in Closure(silent, silent[q])}

IdleRelation(T, mode) ==
  RelationOf([machine(T, mode, {}) EXCEPT !.final = idle(T)], bounded(T.num_of_levels))

begins(r, s) == \A k \in DOMAIN r : Len(r[k]) <= Len(s[k]) /\ SubSeq(s[k], 1, Len(r[k])) = r[k]

\* The tuple query agrees with the relation where no jump has a symbol of its
\* own: it accepts exactly the members, and rejects the others unless a part of
\* them leads to a cycle of epsilons, where it never returns.  The two
\* universality algorithms agree, and transducers that are found equivalent have
\* the same relation.
AnswersExact ==
  /\ LevelsSound
  /\ num_of_states(nft) <= MaxStates =>
       /\ has_levels(nft) /\ readable(nft) =>
            \A R \in {Relation(nft, jump_mode)}, I \in {IdleRelation(nft, jump_mode)} :
              \A r \in [0..nft.num_of_levels-1 ->
                         Words_(IF nft.num_of_levels <= 2 THEN MaxWord ELSE 1, Letter)] :
                is_tuple_in_lang(nft, r) =
                  IF r \in R THEN "accepted"
                  ELSE IF \E s \in I : begins(s, r) THEN "never returns" ELSE "rejected"
       /\ \A naive \in {nft_is_universal_naive(nft, Symbol)},
             antichain \in {nft_is_universal_antichains(nft, Symbol)} :
            /\ naive.empty <=> ~ antichain.found
            /\ ~ naive.empty => ~ is_in_lang(nft, naive.word) /\ ~ is_in_lang(nft, antichain.word)
       /\ fits(nft) =>
            \A U \in {V \in Partners : V.num_of_levels = nft.num_of_levels} :
              nft_are_equivalent(nft, U, jump_mode) => Relation(nft, jump_mode) = Relation(U, jump_mode)
=============================================================================
