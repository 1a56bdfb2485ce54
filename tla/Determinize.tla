----------------------------- MODULE Determinize -----------------------------
(***************************************************************************)
(* nfa::determinize(), the subset construction with a worklist.  A         *)
(* macrostate is a set of states of the input; its number in the result is *)
(* what Nfa::add_state() returned when it was discovered, so the order in  *)
(* which macrostates are found decides the result.                         *)
(*                                                                         *)
(* The caller may pass macrostate_discover(), which is called for every    *)
(* new macrostate and can end the construction; it is modelled as a choice.*)
(* A step handles one symbol of the synchronized iterator over the posts   *)
(* of the current macrostate, in ascending order of symbols.               *)
(***************************************************************************)
EXTENDS Automata, SequencesExt

CONSTANTS
  State, Symbol,    \* Symbol is a set of numbers
  Inputs,           \* the automata to determinize
  MaxWord           \* languages are compared on words up to this length

ASSUME InputsAssumption ==
  Symbol \subseteq Nat /\ Inputs \subseteq AutomataOver(State, Symbol)

VARIABLES
  aut,              \* the input
  macrostates,      \* subset_map: the macrostate with number i at place i+1
  final, moves,     \* the result: numbers of final states, <<i, symbol, j>>
  worklist,         \* numbers of the macrostates to be expanded
  current,          \* Sid, the macrostate being expanded
  pending,          \* the symbols the iterator has yet to reach
  pc                \* "loop", "moves", "done" or "stopped"

vars == <<aut, macrostates, final, moves, worklist, current, pending, pc>>

AcceptingMacrostate(S) == S \cap aut.final # {}

\* The map that the caller hands in, an output, is empty.
Init ==
  /\ aut \in Inputs
  /\ macrostates = <<aut.initial>>
  /\ final = IF AcceptingMacrostate(aut.initial) THEN {0} ELSE {}
  /\ moves = {}
  /\ worklist = <<0>> /\ current = 0 /\ pending = {}
  /\ IF \A q \in State, a \in Symbol : aut.delta[q][a] = {}
     THEN pc = "done" ELSE pc \in {"loop", "stopped"}

subset(i) == macrostates[i+1]

\* A mutant of TakeMacrostate: the macrostate stays on the worklist.
TakeWithoutPop ==
  /\ pc = "loop" /\ worklist # << >>
  /\ subset(Last(worklist)) # {}
  /\ current' = Last(worklist)
  /\ pending' = {a \in Symbol : Post(aut, subset(current'), a) # {}}
  /\ pc' = "moves"
  /\ UNCHANGED <<aut, macrostates, final, moves, worklist>>

TakeMacrostate ==
  /\ pc = "loop" /\ worklist # << >>
  /\ subset(Last(worklist)) # {}
  /\ worklist' = Front(worklist)
  /\ current' = Last(worklist)
  /\ pending' = {a \in Symbol : Post(aut, subset(current'), a) # {}}
  /\ pc' = "moves"
  /\ UNCHANGED <<aut, macrostates, final, moves>>

\* An empty macrostate ends the construction; only the first can be empty.
BreakOnEmpty ==
  /\ pc = "loop" /\ worklist # << >>
  /\ subset(Last(worklist)) = {}
  /\ worklist' = Front(worklist) /\ pc' = "done"
  /\ UNCHANGED <<aut, macrostates, final, moves, current, pending>>

\* The iterator advances to its least symbol.
NextSymbol(a) == pc = "moves" /\ a \in pending /\ \A b \in pending : a <= b

Target(a) == Post(aut, subset(current), a)

\* A mutant of FollowKnown: the transition is made for new macrostates only.
FollowKnownLosingMove ==
  \E a \in Symbol, j \in 0..Len(macrostates)-1 :
    /\ NextSymbol(a) /\ subset(j) = Target(a)
    /\ pending' = pending \ {a}
    /\ UNCHANGED <<aut, macrostates, final, moves, worklist, current, pc>>

\* The macrostate was seen before.
FollowKnown ==
  \E a \in Symbol, j \in 0..Len(macrostates)-1 :
    /\ NextSymbol(a) /\ subset(j) = Target(a)
    /\ moves' = moves \cup {<<current, a, j>>}
    /\ pending' = pending \ {a}
    /\ UNCHANGED <<aut, macrostates, final, worklist, current, pc>>

\* A mutant of DiscoverMacrostate: the new macrostate is never expanded.
DiscoverWithoutPush ==
  \E a \in Symbol :
    /\ NextSymbol(a) /\ Target(a) \notin Range(macrostates)
    /\ macrostates' = Append(macrostates, Target(a))
    /\ final' = IF AcceptingMacrostate(Target(a))
                THEN final \cup {Len(macrostates)} ELSE final
    /\ moves' = moves \cup {<<current, a, Len(macrostates)>>}
    /\ pending' = pending \ {a}
    /\ pc' \in {"moves", "stopped"}
    /\ UNCHANGED <<aut, current, worklist>>

\* A new macrostate: number it, and ask the caller whether to go on.
DiscoverMacrostate ==
  \E a \in Symbol :
    /\ NextSymbol(a) /\ Target(a) \notin Range(macrostates)
    /\ macrostates' = Append(macrostates, Target(a))
    /\ final' = IF AcceptingMacrostate(Target(a))
                THEN final \cup {Len(macrostates)} ELSE final
    /\ worklist' = Append(worklist, Len(macrostates))
    /\ moves' = moves \cup {<<current, a, Len(macrostates)>>}
    /\ pending' = pending \ {a}
    /\ pc' \in {"moves", "stopped"}
    /\ UNCHANGED <<aut, current>>

\* A mutant of EndMoves: the construction ends with the first macrostate.
EndMovesAndStop ==
  /\ pc = "moves" /\ pending = {} /\ pc' = "done"
  /\ UNCHANGED <<aut, macrostates, final, moves, worklist, current, pending>>

EndMoves ==
  /\ pc = "moves" /\ pending = {} /\ pc' = "loop"
  /\ UNCHANGED <<aut, macrostates, final, moves, worklist, current, pending>>

Finish ==
  /\ pc = "loop" /\ worklist = << >> /\ pc' = "done"
  /\ UNCHANGED <<aut, macrostates, final, moves, worklist, current, pending>>

Next == \/ TakeMacrostate \/ BreakOnEmpty \/ FollowKnown \/ DiscoverMacrostate
        \/ EndMoves \/ Finish

Spec == Init /\ [][Next]_vars /\ WF_vars(Next)

-----------------------------------------------------------------------------
Number == 0..Len(macrostates)-1

(* Types.                                                                  *)
TypeOK ==
  /\ aut \in AutomataOver(State, Symbol)
  /\ macrostates \in Seq(SUBSET State) /\ macrostates # << >>
  /\ final \subseteq Number /\ moves \subseteq Number \X Symbol \X Number
  /\ worklist \in Seq(Number) /\ current \in Number
  /\ pending \subseteq Symbol
  /\ pc \in {"loop", "moves", "done", "stopped"}

(* The numbers stand for macrostates one to one, a number is final exactly *)
(* when its macrostate holds a final state, and no macrostate but the      *)
(* first is empty, which is what makes the break in the main loop harmless.*)
Numbering ==
  /\ \A i, j \in Number : subset(i) = subset(j) => i = j
  /\ \A i \in Number : i \in final <=> AcceptingMacrostate(subset(i))
  /\ \A i \in Number : i # 0 => subset(i) # {}

(* A transition leads to what the input does on its symbol.                *)
MovesSound ==
  \A m \in moves : subset(m[3]) = Post(aut, subset(m[1]), m[2]) /\ subset(m[3]) # {}

(* The first macrostate, the only one that may be empty, waits alone.      *)
FirstAlone ==
  0 \in Range(worklist) => Len(macrostates) = 1 /\ Len(worklist) = 1 /\ pc # "moves"

\* Macrostate i has a transition for each symbol its states have one for.
Expanded(i) ==
  \A a \in Symbol : Post(aut, subset(i), a) # {} => \E j \in Number : <<i, a, j>> \in moves

(* Nothing is forgotten: what waits neither on the worklist nor in the     *)
(* iterator has been expanded, and in the end everything has.              *)
MovesComplete ==
  /\ \A i \in Number :
       \/ Expanded(i)
       \/ pc # "done" /\ i \in Range(worklist)
       \/ pc \in {"moves", "stopped"} /\ i = current
  /\ pc = "moves" => \A a \in Symbol \ pending :
       Post(aut, subset(current), a) # {} => \E j \in Number : <<current, a, j>> \in moves

(* The construction so far: what has been numbered, what waits, and the    *)
(* transitions agree.                                                      *)
ConstructionSound == TypeOK /\ FirstAlone /\ Numbering /\ MovesSound /\ MovesComplete

Result ==
  [initial |-> {0}, final |-> final,
   delta |-> [i \in Number |-> [a \in Symbol |->
                {m[3] : m \in {n \in moves : n[1] = i /\ n[2] = a}}]]]

(* The result is deterministic and accepts the input's language; a result  *)
(* that a callback cut short accepts a part of it.                         *)
LanguageKept ==
  pc \in {"done", "stopped"} =>
    /\ \A m, n \in moves : m[1] = n[1] /\ m[2] = n[2] => m = n
    /\ \A w \in Words(Symbol, MaxWord) :
         /\ Accepts(Result, w) => Accepts(aut, w)
         /\ pc = "done" /\ Accepts(aut, w) => Accepts(Result, w)

(* The construction ends, although its macrostates may be exponentially    *)
(* many.                                                                   *)
Terminates == <>(pc \in {"done", "stopped"})

\* The search space: the macrostates that one symbol leads to.
FirstMacrostate(A) == {A.initial}
MacroSucc(A, S) == {Post(A, S, a) : a \in Symbol} \ {{}}

Search == INSTANCE Exploration
  WITH Start <- FirstMacrostate, Succ <- MacroSucc, input <- aut,
       found <- Range(macrostates),
       status <- CASE pc = "done" -> "complete" [] pc = "stopped" -> "stopped"
                   [] OTHER -> "running"

(* Determinization is a search of the macrostates: it finds the reachable  *)
(* ones, and all of them when it is not stopped.                           *)
ImplementsExploration == Search!Spec
=============================================================================
