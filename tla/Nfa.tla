--------------------------------- MODULE Nfa ---------------------------------
(***************************************************************************)
(* An automaton object, class Nfa of include/mata/nfa/nfa.hh, to which its *)
(* user applies the operations of NfaValues in any order.                  *)
(***************************************************************************)
EXTENDS NfaValues

CONSTANTS
  MaxStates,        \* bound on the number of states
  MaxTransitions,   \* bound on the transitions the user adds
  MaxWord,          \* languages are compared on words up to this length
  InsertedWords,    \* words for insert_word()
  Other             \* the automata to unite or concatenate with

\* Automata over the alphabet whose representation is sound.
Sound(A) ==
  /\ WellFormedDelta(A.delta)
  /\ \A S \in {A.initial, A.final} : \A q \in S.set : q < S.domain

IsNfa(A) ==
  /\ A \in [delta : Seq(Seq([symbol : Symbol, targets : Seq(Nat)])),
            initial : [set : SUBSET Nat, domain : Nat],
            final : [set : SUBSET Nat, domain : Nat]]
  /\ Sound(A)

ASSUME SymbolAssumption == Symbol \subseteq Nat /\ IsFiniteSet(Symbol)
ASSUME BoundsAssumption == MaxStates \in Nat /\ MaxWord \in Nat
ASSUME OtherAssumption == \A B \in Other : IsNfa(B)

\* insert_word() asserts that its word is not empty.
ASSUME WordsAssumption == InsertedWords \subseteq Seq(Symbol) \ {<< >>}

VARIABLE aut        \* [delta, initial, final]

State == 0..MaxStates-1

-----------------------------------------------------------------------------
Blank(n) == [delta |-> allocate(<< >>, n), initial |-> NoStates, final |-> NoStates]

Init == aut \in {Blank(n) : n \in 0..MaxStates}

Becomes(A) == num_of_states(A) <= MaxStates /\ aut' = A

AddState == Becomes(add_state(aut))
AddStateAt(q) == Becomes(add_state_at(aut, q))

MakeInitial(q) == Becomes([aut EXCEPT !.initial = inserted(@, q)])
MakeFinal(q) == Becomes([aut EXCEPT !.final = inserted(@, q)])
Unmark(q) == Becomes([aut EXCEPT !.initial = erased(@, q), !.final = erased(@, q)])

AddTransitions(p, a, targets) ==
  LET d == add(aut.delta, p, a, targets)
  IN  /\ Cardinality(transitions(d)) <= MaxTransitions
      /\ Becomes([aut EXCEPT !.delta = d])

\* A call that throws changes nothing.
RemoveTransition(p, a, q) ==
  /\ ~ remove_throws(aut.delta, p, a)
  /\ Becomes([aut EXCEPT !.delta = remove(@, p, a, q)])

InsertWord(p, w, q) ==
  LET A == insert_word(aut, p, w, q)
  IN  /\ {p, q} \subseteq 0..num_of_states(aut)-1
      /\ Cardinality(transitions(A.delta)) <= MaxTransitions
      /\ Becomes(A)

SwapFinalNonfinal == Becomes(swap_final_nonfinal(aut))
\* With one state or none these two return at once and change nothing.
UnifyInitial == Cardinality(aut.initial.set) > 1 /\ Becomes(unify_initial(aut))
UnifyFinal == Cardinality(aut.final.set) > 1 /\ Becomes(unify_final(aut))
MakeComplete(symbols, sink) ==
  LET A == make_complete(aut, symbols, sink)
  IN  Cardinality(transitions(A.delta)) <= MaxTransitions /\ Becomes(A)
ComplementDeterministic(symbols) == Becomes(complement_deterministic(aut, symbols))
UniteNondetWith(B) == Becomes(unite_nondet_with(aut, B))
Concatenate(B) == Becomes(concatenate(aut, B))
ConcatenateItself == Becomes(concatenate_itself(aut))
Trim == Becomes(trim(aut))
Clear == Becomes(clear(aut))

TargetVectors ==
  {v \in UNION {[1..n -> State] : n \in 0..MaxStates} : Ascending(v)}

Next ==
  \/ AddState \/ SwapFinalNonfinal \/ UnifyInitial \/ UnifyFinal \/ ConcatenateItself
  \/ Trim \/ Clear
  \/ \E q \in State : AddStateAt(q) \/ MakeInitial(q) \/ MakeFinal(q) \/ Unmark(q)
  \/ \E p \in State, a \in Symbol, targets \in TargetVectors : AddTransitions(p, a, targets)
  \/ \E p, q \in State, a \in Symbol : RemoveTransition(p, a, q)
  \/ \E p, q \in State, w \in InsertedWords : InsertWord(p, w, q)
  \/ \E symbols \in SUBSET Symbol :
       ComplementDeterministic(symbols) \/ \E sink \in State : MakeComplete(symbols, sink)
  \/ \E B \in Other : UniteNondetWith(B) \/ Concatenate(B)

Spec == Init /\ [][Next]_aut

-----------------------------------------------------------------------------
(* The representation is sound after any calls: posts and targets are      *)
(* ordered and never empty, which lookups and the moves iterators assume,  *)
(* and every state in use is below num_of_states().                        *)
WellFormed == Sound(aut)

Language(A) ==
  LET automaton == AsAutomaton(A) IN {w \in Words(Symbol, MaxWord) : Accepts(automaton, w)}

Deterministic(A) ==
  /\ Cardinality(A.initial.set) <= 1
  /\ \A t, u \in transitions(A.delta) : t[1] = u[1] /\ t[2] = u[2] => t = u

(* trim() keeps the language and nothing else: each state that is left is  *)
(* on an accepting path, and the states are numbered without gaps.         *)
TrimExact ==
  LET T == trim(aut)
  IN  /\ Language(T) = Language(aut)
      /\ get_useful_states(T) = 0..num_of_states(T)-1

(* One initial or one final state can stand for several, and               *)
(* unite_nondet_with() unites the languages, whichever states of the two   *)
(* automata have posts.                                                    *)
UnionsExact ==
  /\ Language(unify_initial(aut)) = Language(aut)
  /\ Language(unify_final(aut)) = Language(aut)
  /\ \A B \in Other : Language(unite_nondet_with(aut, B)) = Language(aut) \cup Language(B)

(* complement_deterministic() accepts the other words over its symbols.    *)
ComplementExact ==
  Deterministic(aut) =>
    \A symbols \in SUBSET Symbol :
      LET complement == Language(complement_deterministic(aut, symbols))
          L == Language(aut)
      IN  \A w \in Words(symbols, MaxWord) : w \in complement <=> w \notin L

(* concatenate() accepts the words that can be divided into a word of the  *)
(* automaton and a word of the other one, which may be the automaton       *)
(* itself, whichever initial states are final.                             *)
Concatenation(K, L) ==
  {w \in Words(Symbol, MaxWord) :
     \E k \in 0..Len(w) : SubSeq(w, 1, k) \in K /\ SubSeq(w, k+1, Len(w)) \in L}

ConcatenationExact ==
  /\ \A B \in Other :
       Language(concatenate(aut, B)) = Concatenation(Language(aut), Language(B))
  /\ Language(concatenate_itself(aut)) = Concatenation(Language(aut), Language(aut))

(* The operations on languages are right after any calls before them.      *)
LanguagesExact == TrimExact /\ UnionsExact /\ ComplementExact /\ ConcatenationExact

Graph(A) == [trans |-> transitions(A.delta), initial |-> A.initial.set,
             final |-> A.final.set, size |-> num_of_states(A)]

OtherGraphs == {Graph(B) : B \in Other}

Promise == INSTANCE TransitionGraph
  WITH trans <- transitions(aut.delta), initial <- aut.initial.set,
       final <- aut.final.set, size <- num_of_states(aut),
       Others <- OtherGraphs

(* Seen as a set of transitions, two sets of states and a number, an       *)
(* automaton changes only as its users are promised.                       *)
ImplementsTransitionGraph == Promise!Spec
=============================================================================
