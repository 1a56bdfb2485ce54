-------------------------------- MODULE Delta --------------------------------
(***************************************************************************)
(* The transition relation of an automaton, class Delta of                 *)
(* include/mata/nfa/delta.hh, as values and the operations that make one   *)
(* value from another.                                                     *)
(*                                                                         *)
(* A delta is a sequence of state posts, the post of state q at place q+1. *)
(* A state post is a sequence of symbol posts [symbol, targets] ordered by *)
(* symbol; targets is an OrdVector, a sequence of states in ascending      *)
(* order.  The order is kept in the model: lookups search by it, and some  *)
(* operations append where they trust their argument to be ordered.        *)
(***************************************************************************)
EXTENDS Integers, SequencesExt

Larger(m, n) == IF m < n THEN n ELSE m

Ascending(s) == \A i \in 1..Len(s) : \A j \in 1..i-1 : s[j] < s[i]

\* Where std::lower_bound() finds x in an ordered vector.
lower_bound(s, x) == Cardinality({i \in 1..Len(s) : s[i] < x}) + 1

\* SymbolPost::insert(State).
insert_target(targets, q) ==
  LET p == lower_bound(targets, q)
  IN  IF p <= Len(targets) /\ targets[p] = q THEN targets
      ELSE InsertAt(targets, p, q)

insert_targets(targets, more) == FoldLeft(insert_target, targets, more)

\* The elements of s that are in S, in the order they have.
filter(s, S) ==
  LET upto[i \in 0..Len(s)] ==
        IF i = 0 THEN << >>
        ELSE IF s[i] \in S THEN Append(upto[i-1], s[i]) ELSE upto[i-1]
  IN  upto[Len(s)]

SymbolsOf(post) == {post[k].symbol : k \in 1..Len(post)}

\* The place of symbol a in a post, or where it belongs.
place_of(post, a) == Cardinality({k \in 1..Len(post) : post[k].symbol < a}) + 1

\* The post with the targets added under symbol a.
insert_symbol(post, a, targets) ==
  IF a \in SymbolsOf(post)
  THEN [post EXCEPT ![place_of(post, a)].targets = insert_targets(@, targets)]
  ELSE InsertAt(post, place_of(post, a), [symbol |-> a, targets |-> targets])

-----------------------------------------------------------------------------
\* The post of q; an empty one when q has none allocated.
state_post(delta, q) == IF q < Len(delta) THEN delta[q+1] ELSE << >>

\* Delta::allocate() and mutable_state_post(): at least n posts.
allocate(delta, n) ==
  [i \in 1..Larger(n, Len(delta)) |-> IF i <= Len(delta) THEN delta[i] ELSE << >>]

\* add(): one target, or an ordered vector of targets.
add(delta, source, a, targets) ==
  IF targets = << >> THEN delta
  ELSE [allocate(delta, Larger(source, Last(targets)) + 1)
          EXCEPT ![source+1] = insert_symbol(@, a, targets)]

\* Delta::add() for each of a set of transitions.
add_all(delta, transitions) ==
  FoldSet(LAMBDA t, d : add(d, t[1], t[2], <<t[3]>>), delta, transitions)

\* The ordered vector of a set of numbers.
ordered(S) ==
  IF S = {} THEN << >>
  ELSE SelectSeq([i \in 1..Max(S)+1 |-> i-1], LAMBDA x : x \in S)

\* What add() makes of n posts without transitions: each transition is at its
\* place, whichever was added first.
delta_of(n, trans) ==
  LET size == Max({n} \cup {Larger(t[1], t[3]) + 1 : t \in trans})
      post_of(over) ==
        LET symbols == ordered({t[2] : t \in over})
        IN  [k \in 1..Len(symbols) |->
              [symbol |-> symbols[k],
               targets |-> ordered({t[3] : t \in {u \in over : u[2] = symbols[k]}})]]
  IN  [i \in 1..size |-> post_of({t \in trans : t[1] = i-1})]

\* Delta::remove() throws when the source has no transition over the symbol;
\* a source without a post is ignored, and so is a missing target.
remove_throws(delta, source, a) ==
  source < Len(delta) /\ a \notin SymbolsOf(delta[source+1])

\* A mutant of remove: a symbol post may be left without targets.
remove_leaving_symbol(delta, source, a, target) ==
  IF source >= Len(delta) THEN delta
  ELSE [delta EXCEPT ![source+1][place_of(delta[source+1], a)].targets =
          filter(@, Nat \ {target})]

remove(delta, source, a, target) ==
  IF source >= Len(delta) THEN delta
  ELSE LET p == place_of(delta[source+1], a)
           left == filter(delta[source+1][p].targets, Nat \ {target})
       IN  [delta EXCEPT ![source+1] = IF left = << >> THEN RemoveAt(@, p)
                                       ELSE [@ EXCEPT ![p].targets = left]]

\* The transitions <<source, symbol, target>>, as Delta::transitions() lists them.
transitions(delta) ==
  UNION {UNION {{<<i-1, delta[i][k].symbol, q>> : q \in Range(delta[i][k].targets)} :
                  k \in 1..Len(delta[i])} : i \in 1..Len(delta)}

\* Delta::renumber_targets() for a function that adds n: the targets are
\* appended in the order they had.
renumber_targets(delta, n) ==
  [i \in 1..Len(delta) |-> [k \in 1..Len(delta[i]) |->
     [delta[i][k] EXCEPT !.targets = [j \in 1..Len(@) |-> @[j] + n]]]]

-----------------------------------------------------------------------------
\* utils::rename() as OrdVector uses it: a number that is its own index is
\* taken not to change.
rename(targets, renaming) ==
  [i \in 1..Len(targets) |-> IF targets[i] = i-1 THEN targets[i]
                             ELSE renaming[targets[i]]]

\* The post with the targets that stay, renamed, and no empty symbol post.
defragment_post(post, staying, renaming) ==
  LET targets(sp) == rename(filter(sp.targets, staying), renaming)
      upto[k \in 0..Len(post)] ==
        IF k = 0 THEN << >>
        ELSE IF targets(post[k]) = << >> THEN upto[k-1]
        ELSE Append(upto[k-1], [post[k] EXCEPT !.targets = targets(post[k])])
  IN  upto[Len(post)]

\* Delta::defragment(): the posts of the states that stay move together.
defragment(delta, staying, renaming) ==
  LET upto[i \in 0..Len(delta)] ==
        IF i = 0 THEN << >>
        ELSE IF i-1 \notin staying THEN upto[i-1]
        ELSE Append(upto[i-1], defragment_post(delta[i], staying, renaming))
  IN  upto[Len(delta)]

-----------------------------------------------------------------------------
\* What Delta and StatePost answer about the transitions: lookups, the iterators
\* over transitions and moves, and the used symbols.
\*
\* An iterator over transitions is [state, k, j, at, is_end]: it stands at target
\* j of symbol post k of the state.  at is the transition it shows, kept beside
\* the place and updated field by field.

contains(delta, source, a, target) ==
  /\ source < Len(delta)
  /\ \E k \in 1..Len(delta[source+1]) :
       /\ delta[source+1][k].symbol = a
       /\ target \in Range(delta[source+1][k].targets)

num_of_moves(post) == FoldLeft(LAMBDA n, sp : n + Len(sp.targets), 0, post)

num_of_transitions(delta) == FoldLeft(LAMBDA n, post : n + num_of_moves(post), 0, delta)

empty(delta) == \A i \in 1..Len(delta) : delta[i] = << >>

get_transitions_to(delta, q) ==
  FlattenSeq([i \in 1..Len(delta) |->
    LET into == SelectSeq(delta[i], LAMBDA sp : q \in Range(sp.targets))
    IN  [k \in 1..Len(into) |-> <<i-1, into[k].symbol, q>>]])

-----------------------------------------------------------------------------
AtEnd == [state |-> 0, k |-> 0, j |-> 0, at |-> << >>, is_end |-> TRUE]

\* Stand at the first transition of the states from q on.
begin_at(delta, q) ==
  LET posts == {p \in q..Len(delta)-1 : delta[p+1] # << >>}
      p == CHOOSE x \in posts : \A y \in posts : x <= y
  IN  IF posts = {} THEN AtEnd
      ELSE [state |-> p, k |-> 1, j |-> 1, is_end |-> FALSE,
            at |-> <<p, delta[p+1][1].symbol, delta[p+1][1].targets[1]>>]

\* A mutant of advance: the next symbol post does not change the symbol shown.
advance_keeping_symbol(delta, it) ==
  LET sps == delta[it.state+1]
  IN  IF it.j < Len(sps[it.k].targets)
      THEN [it EXCEPT !.j = @ + 1, !.at[3] = sps[it.k].targets[it.j+1]]
      ELSE IF it.k < Len(sps)
      THEN [it EXCEPT !.k = @ + 1, !.j = 1, !.at[3] = sps[it.k+1].targets[1]]
      ELSE begin_at(delta, it.state + 1)

\* operator++.
advance(delta, it) ==
  LET sps == delta[it.state+1]
  IN  IF it.j < Len(sps[it.k].targets)
      THEN [it EXCEPT !.j = @ + 1, !.at[3] = sps[it.k].targets[it.j+1]]
      ELSE IF it.k < Len(sps)
      THEN [it EXCEPT !.k = @ + 1, !.j = 1, !.at[2] = sps[it.k+1].symbol,
                      !.at[3] = sps[it.k+1].targets[1]]
      ELSE begin_at(delta, it.state + 1)

-----------------------------------------------------------------------------
\* The place of the smallest epsilon of a post, one past its end without any.
\* The search comes from the end and stops at a normal symbol.
first_epsilon_it(post, first_epsilon) ==
  LET normal == {k \in 1..Len(post) : post[k].symbol < first_epsilon}
  IN  IF normal = {} THEN 1 ELSE 1 + CHOOSE k \in normal : \A l \in normal : l <= k

\* epsilon_symbol_posts(): the default epsilon, the largest symbol, is last.
epsilon_symbol_posts(post, a, default) ==
  IF a = default
  THEN IF post # << >> /\ Last(post).symbol = a THEN Len(post) ELSE Len(post) + 1
  ELSE IF a \in SymbolsOf(post) THEN place_of(post, a) ELSE Len(post) + 1

\* The moves <<symbol, target>> of the symbol posts from place k up to l.
moves_between(post, k, l) ==
  FlattenSeq([i \in 1..l-k |-> LET sp == post[k+i-1] IN
                [j \in 1..Len(sp.targets) |-> <<sp.symbol, sp.targets[j]>>]])

moves_epsilons(post, first_epsilon) ==
  moves_between(post, first_epsilon_it(post, first_epsilon), Len(post) + 1)

\* A caller may not ask for the symbols up to the default epsilon.
moves_symbols_throws(last_symbol, default) == last_symbol = default

moves_symbols(post, last_symbol) == moves_between(post, 1, first_epsilon_it(post, last_symbol + 1))

-----------------------------------------------------------------------------
\* The symbols are gathered post by post and then ordered.
get_used_symbols(delta) ==
  ordered(Range(FlattenSeq([i \in 1..Len(delta) |->
                  [k \in 1..Len(delta[i]) |-> delta[i][k].symbol]])))

-----------------------------------------------------------------------------
\* Every symbol post has targets, they and the symbols are in order, and each
\* target has a post of its own.
WellFormedDelta(delta) ==
  \A i \in 1..Len(delta) :
    /\ Ascending([k \in 1..Len(delta[i]) |-> delta[i][k].symbol])
    /\ \A k \in 1..Len(delta[i]) :
         /\ delta[i][k].targets # << >>
         /\ Ascending(delta[i][k].targets)
         /\ Range(delta[i][k].targets) \subseteq 0..Len(delta)-1
=============================================================================
