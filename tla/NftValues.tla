------------------------------ MODULE NftValues ------------------------------
(***************************************************************************)
(* Class Nft of include/mata/nft/nft.hh as a value: an automaton with a    *)
(* number of levels (tracks) and a level for each state.  A run reads its  *)
(* tracks in turn; a transition from level i to a level beyond i+1, a      *)
(* jump, stands for one symbol on each track it passes, as the jump mode   *)
(* says.  Level 0 as a target stands for the end of a round.               *)
(***************************************************************************)
EXTENDS NfaOperations

CONSTANT DONT_CARE      \* stands for any symbol of the alphabet

Repeat == "RepeatSymbol"
Append_ == "AppendDontCares"

with_levels(A, levels, n) ==
  [delta |-> A.delta, initial |-> A.initial, final |-> A.final, levels |-> levels, num_of_levels |-> n]

\* Nft{} and with_levels(n).
EmptyNft(n) == with_levels(EmptyNfa, << >>, n)

\* The constructor from an Nfa: DEFAULT_NUM_OF_LEVELS and DEFAULT_LEVEL.
as_nft(A) == with_levels(A, [i \in 1..num_of_states(A) |-> 0], 2)

to_nfa_copy(T) == [delta |-> T.delta, initial |-> T.initial, final |-> T.final]

\* A level beyond the vector of levels is DEFAULT_LEVEL here; no call reads one.
level(T, q) == IF q < Len(T.levels) THEN T.levels[q+1] ELSE 0

\* Levels::set().
set_level(levels, q, l) ==
  IF q < Len(levels) THEN [levels EXCEPT ![q+1] = l]
  ELSE levels \o [i \in 1..q-Len(levels) |-> 0] \o <<l>>

\* add_state_with_level(); add_state() gives level 0, also to a state that exists.
add_state_with_level(T, q, l) ==
  [T EXCEPT !.delta = allocate(@, q+1), !.levels = set_level(@, q, l)]

\* The tracks that a transition from q to p passes.
tracks_between(T, q, p) ==
  level(T, q) .. (IF level(T, p) = 0 THEN T.num_of_levels ELSE level(T, p)) - 1

-----------------------------------------------------------------------------
\* A path of new states spells w, one level after the other.
spelt(T, p, w, q) ==
  LET n == num_of_states(T)
      A == insert_word(T, p, w, q)
      inner == [i \in 1..Len(w)-1 |-> (level(T, p) + i) % T.num_of_levels]
  IN  [A EXCEPT !.levels = FoldLeft(LAMBDA ls, i : set_level(ls, n+i-1, inner[i]), @,
                                    [i \in 1..Len(w)-1 |-> i])]

\* Nft::insert_word() and add_transition().  The larger of the two states is
\* made sure to exist, which gives it level 0 if it had another.
insert_word_throws(T, p, q) ==
  LET settled == add_state_with_level(T, Larger(p, q), 0)
  IN  level(settled, p) # level(settled, q)

nft_insert_word(T, p, w, q) == spelt(add_state_with_level(T, Larger(p, q), 0), p, w, q)

\* insert_word_by_parts(): the parts letter by letter in the order of the
\* levels, EPSILON where a part has ended.
insert_word_by_parts(T, p, parts, q) ==
  LET n == T.num_of_levels
      longest == Max({Len(parts[l]) : l \in 1..n})
      symbol(i) == LET part == parts[((level(T, p) + i - 1) % n) + 1]
                       k == (i-1) \div n + 1
                   IN  IF k <= Len(part) THEN part[k] ELSE EPSILON
  IN  IF n = 1 THEN nft_insert_word(T, p, parts[1], q)
      ELSE spelt(T, p, [i \in 1..Larger(n * longest, 2) |-> symbol(i)], q)

insert_identity(T, q, symbols) ==
  FoldLeft(LAMBDA U, a : nft_insert_word(U, q, [i \in 1..U.num_of_levels |-> a], q), T, symbols)

nft_clear(T) == with_levels(clear(T), << >>, T.num_of_levels)

-----------------------------------------------------------------------------
\* States that have a level but are in no set of the automaton any more.
unset_levels(T) == num_of_states(T)..Len(T.levels)-1

\* Nft::trim().  The flags of the useful states end before the levels do when
\* there are unset levels; what lies behind them decides which of these stay.
nft_trim(T, stale) ==
  LET staying == get_useful_states(T) \cup stale
      kept == SelectSeq([i \in 1..Len(T.levels) |-> i-1], LAMBDA q : q \in staying)
  IN  with_levels(trim(to_nfa_copy(T)), [i \in 1..Len(kept) |-> T.levels[kept[i]+1]], T.num_of_levels)

-----------------------------------------------------------------------------
\* The transitions that stand for one jump: new states for the tracks between,
\* DONT_CARE replaced by the given symbols.
without_jump(T, t, first, replacements, jump_mode) ==
  LET tracks == tracks_between(T, t[1], t[3])
      n == Cardinality(tracks)
      state(i) == IF i = 0 THEN t[1] ELSE IF i = n THEN t[3] ELSE first + i - 1
      read(i) == IF i > 1 /\ jump_mode = Append_ THEN DONT_CARE ELSE t[2]
      symbols(a) == IF a = DONT_CARE THEN replacements ELSE {a}
  IN  UNION {{<<state(i-1), a, state(i)>> : a \in symbols(read(i))} : i \in 1..n}

\* Nft::make_one_level_aut(): transition after transition.  One that stays is
\* neither a jump nor a DONT_CARE.
make_one_level_aut(T, replacements, jump_mode) ==
  LET n == num_of_states(T)
      jumps == SelectSeq(in_order(T.delta), LAMBDA t : Cardinality(tracks_between(T, t[1], t[3])) > 1)
      size(t) == Cardinality(tracks_between(T, t[1], t[3])) - 1
      first(k) == n + FoldLeft(LAMBDA m, t : m + size(t), 0, SubSeq(jumps, 1, k-1))
      plain == {t \in trans(T) : Cardinality(tracks_between(T, t[1], t[3])) <= 1}
      added == UNION {without_jump(T, jumps[k], first(k), replacements, jump_mode) : k \in 1..Len(jumps)}
      replaced_ == UNION {without_jump(T, t, n, replacements, jump_mode) : t \in plain}
      levels == FlattenSeq([k \in 1..Len(jumps) |->
                  [i \in 1..size(jumps[k]) |-> level(T, jumps[k][1]) + i]])
  IN  [T EXCEPT !.delta = delta_of(Larger(Len(@), n + Len(levels)), added \cup replaced_),
                !.levels = @ \o levels]

get_one_level_aut(T, replacements, jump_mode) ==
  IF Len(T.levels) # num_of_states(T) THEN T
  ELSE make_one_level_aut(T, replacements, jump_mode)
=============================================================================
