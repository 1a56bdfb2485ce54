----------------------------- MODULE WordSearch -----------------------------
(***************************************************************************)
(* Nfa::get_word(), a depth-first search for a word of the language with   *)
(* an explicit stack of iterators.  An entry of the stack stands for a     *)
(* state on the way: the iterator to one of its symbol posts, and the one  *)
(* to a target in it.  As posts and targets are ordered, an iterator is    *)
(* what it has yet to pass: a set of symbols, a set of targets, whose      *)
(* least elements are the current ones.  An iteration of the inner loop is *)
(* a step.                                                                 *)
(*                                                                         *)
(* When an entry is used up it is popped and the entry below moves on.     *)
(* Below the first entry there is none, and the code increments what       *)
(* worklist.back() of the empty vector refers to.  That is undefined; the  *)
(* model follows the outcome that nothing the search reads is changed, and *)
(* takes a note in `overrun`.                                              *)
(***************************************************************************)
EXTENDS Automata, SequencesExt

CONSTANTS
  State, Symbol,    \* sets of numbers
  Inputs,           \* the automata to search
  first_epsilon     \* symbols from here on are left out of the word

ASSUME InputsAssumption ==
  /\ State \subseteq Nat /\ IsFiniteSet(State) /\ Symbol \subseteq Nat
  /\ first_epsilon \in Nat
  /\ Inputs \subseteq AutomataOver(State, Symbol)

VARIABLES
  aut,              \* the automaton
  todo,             \* the initial states the for loop has yet to reach
  worklist,         \* the stack of entries [of, symbols, targets]
  searched,
  pc,               \* "initial", "search", "found" or "none"
  overrun           \* the entry below the first has been moved (auxiliary)

vars == <<aut, todo, worklist, searched, pc, overrun>>

SymbolsOf(q) == {a \in Symbol : aut.delta[q][a] # {}}
IsLeast(x, S) == x \in S /\ \A y \in S : x <= y

\* The iterators at the symbol post of a, the least of symbols, in q's post.
At(q, symbols, a) == [of |-> q, symbols |-> symbols, targets |-> aut.delta[q][a]]

\* ++targets_it from target t.
Passed(e, t) == [e EXCEPT !.targets = @ \ {t}]

top == Last(worklist)
WithTop(e) == Append(Front(worklist), e)

Init ==
  /\ aut \in Inputs
  /\ todo = aut.initial /\ worklist = << >> /\ searched = {}
  /\ pc = IF aut.initial = {} \/ aut.final = {} THEN "none"
          ELSE IF aut.initial \cap aut.final # {} THEN "found" ELSE "initial"
  /\ overrun = FALSE

-----------------------------------------------------------------------------
SkipInitial ==
  /\ pc = "initial"
  /\ \E q \in todo \cap searched : todo' = todo \ {q}
  /\ UNCHANGED <<aut, worklist, searched, pc, overrun>>

\* The stack opens with the first symbol post that has a target not searched,
\* at that target.
TakeInitial ==
  /\ pc = "initial"
  /\ \E q \in todo \ searched :
       LET marked == searched \cup {q}
           open == {a \in Symbol : ~(aut.delta[q][a] \subseteq marked)}
       IN  /\ todo' = todo \ {q} /\ searched' = marked
           /\ \/ open = {} /\ worklist' = << >>
              \/ \E a \in Symbol, t \in State :
                   /\ IsLeast(a, open) /\ IsLeast(t, aut.delta[q][a] \ marked)
                   /\ worklist' = <<[of |-> q,
                                     symbols |-> {b \in SymbolsOf(q) : b >= a},
                                     targets |-> {r \in aut.delta[q][a] : r >= t}]>>
  /\ pc' = "search"
  /\ UNCHANGED <<aut, overrun>>

\* The entry on top of the stack stands at target t.
AtTarget(t) ==
  /\ pc = "search" /\ worklist # << >>
  /\ top.symbols # {} /\ IsLeast(t, top.targets)

\* A mutant of SkipTarget: the iterator is not moved.
SkipTargetInPlace ==
  /\ \E t \in searched : AtTarget(t)
  /\ UNCHANGED vars

SkipTarget ==
  /\ \E t \in searched : AtTarget(t) /\ worklist' = WithTop(Passed(top, t))
  /\ UNCHANGED <<aut, todo, searched, pc, overrun>>

Found ==
  /\ \E t \in aut.final \ searched : AtTarget(t)
  /\ pc' = "found"
  /\ UNCHANGED <<aut, todo, worklist, searched, overrun>>

\* A mutant of Descend: the entry moves on before the target is entered.
DescendPassing ==
  /\ \E t \in State \ (searched \cup aut.final) :
       /\ AtTarget(t) /\ searched' = searched \cup {t}
       /\ \/ SymbolsOf(t) = {} /\ worklist' = WithTop(Passed(top, t))
          \/ \E a \in Symbol :
               /\ IsLeast(a, SymbolsOf(t))
               /\ worklist' = Append(WithTop(Passed(top, t)), At(t, SymbolsOf(t), a))
  /\ UNCHANGED <<aut, todo, pc, overrun>>

\* Mark the target and enter it, if it has a post.
Descend ==
  /\ \E t \in State \ (searched \cup aut.final) :
       /\ AtTarget(t) /\ searched' = searched \cup {t}
       /\ \/ SymbolsOf(t) = {} /\ worklist' = WithTop(Passed(top, t))
          \/ \E a \in Symbol :
               /\ IsLeast(a, SymbolsOf(t))
               /\ worklist' = Append(worklist, At(t, SymbolsOf(t), a))
  /\ UNCHANGED <<aut, todo, pc, overrun>>

NextSymbol ==
  /\ pc = "search" /\ worklist # << >>
  /\ top.symbols # {} /\ top.targets = {}
  /\ \E a \in top.symbols :
       LET rest == top.symbols \ {a}
       IN  /\ IsLeast(a, top.symbols)
           /\ \/ rest = {} /\ worklist' = WithTop([top EXCEPT !.symbols = rest])
              \/ \E b \in rest :
                   IsLeast(b, rest) /\ worklist' = WithTop(At(top.of, rest, b))
  /\ UNCHANGED <<aut, todo, searched, pc, overrun>>

PopFirst ==
  /\ pc = "search" /\ Len(worklist) = 1 /\ top.symbols = {}
  /\ worklist' = << >> /\ overrun' = TRUE
  /\ UNCHANGED <<aut, todo, searched, pc>>

\* The entry below moves on from the state that was left.
PopEntry ==
  /\ pc = "search" /\ Len(worklist) > 1 /\ top.symbols = {}
  /\ LET rest == Front(worklist)
     IN  \E t \in State :
           /\ IsLeast(t, Last(rest).targets)
           /\ worklist' = Append(Front(rest), Passed(Last(rest), t))
  /\ UNCHANGED <<aut, todo, searched, pc, overrun>>

NextInitial ==
  /\ pc = "search" /\ worklist = << >>
  /\ pc' = "initial"
  /\ UNCHANGED <<aut, todo, worklist, searched, overrun>>

GiveUp ==
  /\ pc = "initial" /\ todo = {}
  /\ pc' = "none"
  /\ UNCHANGED <<aut, todo, worklist, searched, overrun>>

Next == \/ SkipInitial \/ TakeInitial \/ SkipTarget \/ Found \/ Descend
        \/ NextSymbol \/ PopFirst \/ PopEntry \/ NextInitial \/ GiveUp

Spec == Init /\ [][Next]_vars /\ WF_vars(Next)

-----------------------------------------------------------------------------
\* The current symbols of the entries, first to last.
letters ==
  [k \in 1..Len(worklist) |->
     CHOOSE a \in worklist[k].symbols : IsLeast(a, worklist[k].symbols)]

\* A mutant of word: the symbol of the last entry is left out.
word_without_last == SelectSeq(Front(letters), LAMBDA a : a < first_epsilon)

\* The word that is returned in the end.
word == SelectSeq(letters, LAMBDA a : a < first_epsilon)

-----------------------------------------------------------------------------
Entry == [of : State, symbols : SUBSET Symbol, targets : SUBSET State]

(* Types, and between two initial states the stack of get_word() is empty. *)
TypeOK ==
  /\ aut \in AutomataOver(State, Symbol)
  /\ todo \subseteq aut.initial /\ searched \subseteq State
  /\ worklist \in Seq(Entry) /\ overrun \in BOOLEAN
  /\ pc \in {"initial", "search", "found", "none"}
  /\ pc = "initial" => worklist = << >>

\* Entry e points at a target that its state has over the current symbol.
Pointing(e) ==
  \A a \in Symbol : IsLeast(a, e.symbols) => e.targets \subseteq aut.delta[e.of][a]

(* The stack is a path of different states that starts in an initial one;  *)
(* each entry points at the state of the next.                             *)
PathLinked ==
  /\ worklist # << >> => worklist[1].of \in aut.initial
  /\ \A k \in 1..Len(worklist) :
       /\ worklist[k].of \in searched /\ Pointing(worklist[k])
       /\ \A j \in 1..k-1 : worklist[j].of # worklist[k].of
       /\ k > 1 => /\ worklist[k-1].symbols # {}
                   /\ IsLeast(worklist[k].of, worklist[k-1].targets)

\* Entry e has yet to pass target r of its state over symbol a.
Ahead(e, a, r) ==
  \/ IsLeast(a, e.symbols) /\ r \in e.targets
  \/ a \in e.symbols /\ ~IsLeast(a, e.symbols)

(* What has been searched is not final, and its targets have been searched *)
(* too but for those that an iterator on the stack will still come to.     *)
SearchedExpanded ==
  /\ searched \cap aut.final = {}
  /\ \A q \in searched, a \in Symbol : \A r \in aut.delta[q][a] \ searched :
       \E k \in 1..Len(worklist) : worklist[k].of = q /\ Ahead(worklist[k], a, r)

(* The search so far: where it stands, and what it has seen.               *)
SearchSound == TypeOK /\ PathLinked /\ SearchedExpanded

(* The word, with the symbols up to first_epsilon only, comes from one of  *)
(* the language, and there is none exactly if the language is empty.       *)
AnswerExact ==
  /\ pc = "none" => UsefulStates(aut) = {}
  /\ pc = "found" =>
       \E w \in Words(Symbol, Cardinality(State)) :
         Accepts(aut, w) /\ word = SelectSeq(w, LAMBDA a : a < first_epsilon)

(* The search ends.                                                        *)
Terminates == <>(pc \in {"found", "none"})

(* "Using references to iterators to be able to increment the top-most     *)
(* element in the worklist in place", says the loop: there is one.         *)
TopmostExists == ~overrun
=============================================================================
