--------------------------- MODULE TransitionGraph ---------------------------
(***************************************************************************)
(* What an automaton object promises its users: a set of transitions, the  *)
(* initial and the final states, and a number of states that every state   *)
(* in use is below.  Nothing is said of vectors, of their order or of      *)
(* which posts are allocated.                                              *)
(***************************************************************************)
EXTENDS Integers, FiniteSets, Sequences

CONSTANTS
  Symbol,           \* the alphabet
  MaxStates,        \* bound on the number of states
  InsertedWords,    \* words for which a path is made
  Others            \* automata to unite or concatenate with, [trans, initial, final, size]

VARIABLES trans, initial, final, size

vars == <<trans, initial, final, size>>

State == 0..MaxStates-1

Larger(m, n) == IF m < n THEN n ELSE m

Init == trans = {} /\ initial = {} /\ final = {} /\ size \in 0..MaxStates

Grow(q) == size' = Larger(size, q+1)

\* New states appear one past the last.
AddState == size' = size + 1 /\ UNCHANGED <<trans, initial, final>>

Allocate(q) == Grow(q) /\ UNCHANGED <<trans, initial, final>>

MakeInitial(q) == initial' = initial \cup {q} /\ Grow(q) /\ UNCHANGED <<final, trans>>
MakeFinal(q) == final' = final \cup {q} /\ Grow(q) /\ UNCHANGED <<initial, trans>>

Unmark(q) ==
  /\ initial' = initial \ {q} /\ final' = final \ {q}
  /\ UNCHANGED <<size, trans>>

Add(p, a, T) ==
  /\ UNCHANGED <<initial, final>>
  /\ \E m \in T \cup {p} : (\A q \in T : q <= m) /\ p <= m /\ Grow(m)
  /\ trans' = trans \cup {<<p, a, q>> : q \in T}

Remove ==
  /\ UNCHANGED <<initial, final, size>>
  /\ \E t \in trans : trans' = trans \ {t}

SwapFinal == final' = (0..size-1) \ final /\ UNCHANGED <<initial, size, trans>>

\* A path of new states spells w.
InsertWord(p, w, q) ==
  LET path == [i \in 0..Len(w) |-> IF i = 0 THEN p
                                   ELSE IF i = Len(w) THEN q ELSE size + i - 1]
  IN  /\ UNCHANGED <<initial, final>>
      /\ size' = size + Len(w) - 1
      /\ trans' = trans \cup {<<path[i-1], w[i], path[i]>> : i \in 1..Len(w)}

\* One new initial state, with all that the initial states could do.
UnifyInitial ==
  /\ Cardinality(initial) > 1
  /\ trans' = trans \cup {<<size, t[2], t[3]>> : t \in {u \in trans : u[1] \in initial}}
  /\ initial' = {size} /\ size' = size + 1
  /\ final' = IF initial \cap final = {} THEN final ELSE final \cup {size}

UnifyFinal ==
  /\ Cardinality(final) > 1
  /\ trans' = trans \cup {<<t[1], t[2], size>> : t \in {u \in trans : u[3] \in final}}
  /\ final' = {size} /\ size' = size + 1
  /\ initial' = IF initial \cap final = {} THEN initial ELSE initial \cup {size}

\* What completing the first n states over the symbols adds.
Missing(n, symbols) == ((0..n-1) \X symbols) \ {<<t[1], t[2]>> : t \in trans}

Completing(n, symbols, sink) ==
  LET missing == Missing(n, symbols)
  IN  {<<m[1], m[2], sink>> : m \in missing}
        \cup IF missing # {} /\ sink >= n
             THEN {<<sink, a, sink>> : a \in symbols} ELSE {}

MakeComplete(symbols, sink) ==
  /\ UNCHANGED <<initial, final>>
  /\ trans' = trans \cup Completing(size, symbols, sink)
  /\ size' = IF Missing(size, symbols) # {} THEN Larger(size, sink+1) ELSE size

\* A new state becomes the sink, and the initial state if there was none.
ComplementDeterministic(symbols) ==
  LET n == IF initial = {} THEN size+1 ELSE size
  IN  /\ initial' = IF initial = {} THEN {size} ELSE initial
      /\ trans' = trans \cup Completing(n, symbols, size)
      /\ size' = IF Missing(n, symbols) # {} THEN size+1 ELSE n
      /\ final' = (0..size'-1) \ final

\* The states of B follow the states that are there.
Unite(B) ==
  IF final = {} \/ initial = {}
  THEN initial' = B.initial /\ final' = B.final /\ size' = B.size /\ trans' = B.trans
  ELSE IF B.final = {} \/ B.initial = {} THEN UNCHANGED vars
  ELSE /\ initial' = initial \cup {q + size : q \in B.initial}
       /\ final' = final \cup {q + size : q \in B.final}
       /\ size' = size + B.size
       /\ trans' = trans \cup {<<t[1]+size, t[2], t[3]+size>> : t \in B.trans}

\* The final states can do what the initial states of B could, and stay final
\* only if one of these is.
Concatenate(B) ==
  LET starting == {t \in B.trans : t[1] \in B.initial}
  IN  /\ UNCHANGED initial
      /\ final' = {q + size : q \in B.final}
                    \cup IF B.initial \cap B.final = {} THEN {} ELSE final
      /\ size' = size + B.size
      /\ trans' = trans \cup {<<t[1]+size, t[2], t[3]+size>> : t \in B.trans}
                         \cup UNION {{<<q, t[2], t[3]+size>> : t \in starting} : q \in final}

Itself == [trans |-> trans, initial |-> initial, final |-> final, size |-> size]

-----------------------------------------------------------------------------
Succ(q) == {t[3] : t \in {u \in trans : u[1] = q}}

\* The states on a path from an initial to a final state.
Useful ==
  LET onward[n \in 0..MaxStates] ==
        IF n = 0 THEN initial
        ELSE LET seen == onward[n-1] IN seen \cup UNION {Succ(q) : q \in seen}
      back[n \in 0..MaxStates] ==
        IF n = 0 THEN final
        ELSE LET seen == back[n-1]
             IN  seen \cup {q \in 0..size-1 : Succ(q) \cap seen # {}}
  IN  onward[MaxStates] \cap back[MaxStates]

\* Only the useful states stay; they become 0, 1, ... in the order they had.
Trim ==
  LET kept == Useful
      new == [q \in kept |-> Cardinality({p \in kept : p < q})]
  IN  /\ initial' = {new[q] : q \in initial \cap kept}
      /\ final' = {new[q] : q \in final \cap kept}
      /\ size' = Cardinality(kept)
      /\ trans' = {<<new[t[1]], t[2], new[t[3]]>> :
                     t \in {u \in trans : {u[1], u[3]} \subseteq kept}}

\* The states may or may not be forgotten.
Clear == trans' = {} /\ initial' = {} /\ final' = {} /\ size' \in 0..size

Next ==
  \/ \E q \in State : Allocate(q) \/ MakeInitial(q) \/ MakeFinal(q) \/ Unmark(q)
  \/ AddState \/ SwapFinal \/ UnifyInitial \/ UnifyFinal \/ Clear \/ Remove
  \/ \E S \in SUBSET Symbol, sink \in State : MakeComplete(S, sink)
  \/ \E S \in SUBSET Symbol : ComplementDeterministic(S)
  \/ \E B \in Others : Unite(B) \/ Concatenate(B)
  \/ Concatenate(Itself)
  \/ \E p \in State, a \in Symbol, T \in SUBSET State : T # {} /\ Add(p, a, T)
  \/ \E p, q \in State, w \in InsertedWords : InsertWord(p, w, q)
  \/ Trim

Spec == Init /\ [][Next]_vars
=============================================================================
