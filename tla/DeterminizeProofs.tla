-------------------------- MODULE DeterminizeProofs --------------------------
(***************************************************************************)
(* The subset construction keeps its numbering, forgets no macrostate and  *)
(* is a search in the sense of Exploration, for any input over any         *)
(* alphabet of numbers, and wherever a callback stops it.                  *)
(***************************************************************************)
EXTENDS Determinize, AutomataProofs

\* The iterator stops only at symbols that some state of current moves on.
PendingLeads == pc = "moves" => \A a \in pending : Target(a) # {}

IInv ==
  TypeOK /\ FirstAlone /\ Numbering /\ MovesSound /\ MovesComplete /\ PendingLeads

(* The states a set leads to are states.                                   *)
LEMMA PostType ==
  ASSUME NEW A \in AutomataOver(State, Symbol), NEW S \in SUBSET State, NEW a \in Symbol
  PROVE  Post(A, S, a) \in SUBSET State
BY DEF Post, AutomataOver

-----------------------------------------------------------------------------
(* The construction starts in order.                                       *)
LEMMA InitInv == Init => IInv
<1>. SUFFICES ASSUME Init PROVE IInv
  OBVIOUS
<1>1. aut \in AutomataOver(State, Symbol)
  BY InputsAssumption DEF Init
<1>2. aut.initial \in SUBSET State
  BY <1>1 DEF AutomataOver
<1>3. /\ macrostates \in Seq(SUBSET State) /\ macrostates # << >>
      /\ Len(macrostates) = 1 /\ macrostates[1] = aut.initial
  BY <1>2 DEF Init
<1>4. Number = {0}
  BY <1>3 DEF Number
<1>5. worklist \in Seq(Number) /\ Len(worklist) = 1 /\ Range(worklist) = {0}
  <2>1. worklist = <<0>>
    BY DEF Init
  <2>2. Range(<<0>>) = {0}
    BY DEF Range
  <2>3. QED BY <2>1, <2>2, <1>4
<1>6. TypeOK
  <2>1. final \subseteq Number /\ moves \subseteq Number \X Symbol \X Number /\ current \in Number
    BY <1>4 DEF Init
  <2>2. pending \subseteq Symbol /\ pc \in {"loop", "moves", "done", "stopped"}
    BY DEF Init
  <2>3. QED BY <1>1, <1>3, <1>5, <2>1, <2>2 DEF TypeOK
<1>7. FirstAlone
  BY <1>3, <1>5 DEF Init, FirstAlone
<1>8. subset(0) = aut.initial
  BY <1>3 DEF subset
<1>9. Numbering
  <2>1. 0 \in final <=> AcceptingMacrostate(subset(0))
    BY <1>8 DEF Init
  <2>2. QED BY <1>4, <2>1 DEF Numbering
<1>10. MovesSound
  BY DEF Init, MovesSound
<1>11. MovesComplete
  <2>1. CASE pc = "done"
    <3>1. \A q \in State, a \in Symbol : aut.delta[q][a] = {}
      BY <2>1 DEF Init
    <3>2. \A a \in Symbol : Post(aut, subset(0), a) = {}
      BY <3>1, <1>2, <1>8 DEF Post
    <3>3. Expanded(0)
      BY <3>2 DEF Expanded
    <3>4. QED BY <2>1, <3>3, <1>4 DEF MovesComplete
  <2>2. CASE pc # "done"
    <3>1. pc # "moves"
      BY DEF Init
    <3>2. QED BY <2>2, <3>1, <1>4, <1>5 DEF MovesComplete
  <2>3. QED BY <2>1, <2>2
<1>12. PendingLeads
  BY DEF Init, PendingLeads
<1>13. QED BY <1>6, <1>7, <1>9, <1>10, <1>11, <1>12 DEF IInv

(* Steps that leave the macrostates and the result alone.                  *)
LEMMA ResultKept ==
  ASSUME IInv, UNCHANGED <<aut, macrostates, final, moves>>
  PROVE  /\ Number' = Number /\ \A i : subset(i)' = subset(i)
         /\ Numbering' /\ MovesSound'
         /\ \A i : Expanded(i)' <=> Expanded(i)
<1>1. Number' = Number /\ \A i : subset(i)' = subset(i)
  BY DEF Number, subset
<1>2. \A S : AcceptingMacrostate(S)' <=> AcceptingMacrostate(S)
  BY DEF AcceptingMacrostate
<1>3. Numbering'
  BY <1>1, <1>2 DEF IInv, Numbering, subset, AcceptingMacrostate
<1>4. MovesSound'
  BY <1>1 DEF IInv, MovesSound, subset, Post
<1>5. \A i : Expanded(i)' <=> Expanded(i)
  BY <1>1 DEF Expanded, subset, Post
<1>6. QED BY <1>1, <1>3, <1>4, <1>5

(* Taking a macrostate from the worklist opens all its symbols.            *)
LEMMA TakeInv == IInv /\ TakeMacrostate => IInv'
<1>. SUFFICES ASSUME IInv, TakeMacrostate PROVE IInv'
  OBVIOUS
<1>1. /\ Number' = Number /\ \A i : subset(i)' = subset(i)
      /\ Numbering' /\ MovesSound' /\ \A i : Expanded(i)' <=> Expanded(i)
  BY ResultKept DEF TakeMacrostate
<1>2. /\ Front(worklist) \in Seq(Number) /\ Last(worklist) \in Number
      /\ Range(worklist) = Range(Front(worklist)) \cup {Last(worklist)}
      /\ Len(Front(worklist)) = Len(worklist) - 1
  BY FrontOf DEF TakeMacrostate, IInv, TypeOK
<1>3. TypeOK'
  BY <1>1, <1>2 DEF IInv, TypeOK, TakeMacrostate
<1>4. FirstAlone'
  <2>1. ASSUME 0 \in Range(worklist') PROVE FALSE
    <3>1. 0 \in Range(worklist) /\ Len(worklist) = 1
      BY <2>1, <1>2 DEF TakeMacrostate, IInv, FirstAlone
    <3>2. Len(Front(worklist)) = 0
      BY <3>1, <1>2
    <3>3. Front(worklist) \in [1..0 -> Number]
      BY <3>2, <1>2, LenProperties
    <3>4. Range(Front(worklist)) = {}
      BY <3>3 DEF Range
    <3>5. QED BY <2>1, <3>4 DEF TakeMacrostate
  <2>2. QED BY <2>1 DEF FirstAlone
<1>5. MovesComplete'
  <2>1. pc' = "moves" /\ current' = Last(worklist) /\ Range(worklist') = Range(Front(worklist))
    BY DEF TakeMacrostate
  <2>2. pc = "loop"
    BY DEF TakeMacrostate
  <2>3. \A i \in Number : Expanded(i) \/ i \in Range(worklist)
    BY <2>2 DEF IInv, MovesComplete
  <2>4. \A i \in Number : Expanded(i)' \/ i \in Range(worklist') \/ i = current'
    BY <2>1, <2>3, <1>1, <1>2
  <2>5. \A a \in Symbol \ pending' : Post(aut, subset(current), a)' = {}
    BY DEF TakeMacrostate, subset
  <2>6. \A i \in Number' : Expanded(i)' \/ i \in Range(worklist)' \/ i = current'
    BY <2>4, <1>1
  <2>7. QED BY <2>1, <2>5, <2>6 DEF MovesComplete
<1>6. PendingLeads'
  BY DEF PendingLeads, TakeMacrostate, Target, subset
<1>7. QED BY <1>1, <1>3, <1>4, <1>5, <1>6 DEF IInv

(* The break on an empty macrostate drops nothing: only the first          *)
(* macrostate is empty, and it waits alone.                                *)
LEMMA BreakInv == IInv /\ BreakOnEmpty => IInv'
<1>. SUFFICES ASSUME IInv, BreakOnEmpty PROVE IInv'
  OBVIOUS
<1>1. /\ Number' = Number /\ \A i : subset(i)' = subset(i)
      /\ Numbering' /\ MovesSound' /\ \A i : Expanded(i)' <=> Expanded(i)
  BY ResultKept DEF BreakOnEmpty
<1>2. /\ Front(worklist) \in Seq(Number) /\ Last(worklist) \in Number
      /\ Range(worklist) = Range(Front(worklist)) \cup {Last(worklist)}
      /\ Len(Front(worklist)) = Len(worklist) - 1
  BY FrontOf DEF BreakOnEmpty, IInv, TypeOK
<1>3. TypeOK'
  BY <1>1, <1>2 DEF IInv, TypeOK, BreakOnEmpty
<1>4. Last(worklist) = 0
  BY <1>2 DEF BreakOnEmpty, IInv, Numbering
<1>5. Len(macrostates) = 1 /\ Len(worklist) = 1
  BY <1>2, <1>4 DEF IInv, FirstAlone
<1>6. Range(Front(worklist)) = {}
  <2>1. Len(Front(worklist)) = 0
    BY <1>2, <1>5
  <2>2. Front(worklist) \in [1..0 -> Number]
    BY <2>1, <1>2, LenProperties
  <2>3. QED BY <2>2 DEF Range
<1>7. FirstAlone'
  BY <1>6 DEF FirstAlone, BreakOnEmpty
<1>8. MovesComplete'
  <2>1. Number = {0}
    BY <1>5 DEF Number
  <2>2. \A a \in Symbol : Post(aut, subset(0), a) = {}
    BY <1>4 DEF BreakOnEmpty, Post
  <2>3. Expanded(0)
    BY <2>2 DEF Expanded
  <2>4. pc' # "moves"
    BY DEF BreakOnEmpty
  <2>5. \A i \in Number' : Expanded(i)'
    BY <2>1, <2>3, <1>1
  <2>6. QED BY <2>4, <2>5 DEF MovesComplete
<1>9. PendingLeads'
  BY DEF PendingLeads, BreakOnEmpty
<1>10. QED BY <1>1, <1>3, <1>7, <1>8, <1>9 DEF IInv

(* A macrostate whose symbols are exhausted is expanded.                   *)
LEMMA EndInv == IInv /\ EndMoves => IInv'
<1>. SUFFICES ASSUME IInv, EndMoves PROVE IInv'
  OBVIOUS
<1>1. /\ Number' = Number /\ \A i : subset(i)' = subset(i)
      /\ Numbering' /\ MovesSound' /\ \A i : Expanded(i)' <=> Expanded(i)
  BY ResultKept DEF EndMoves
<1>2. TypeOK'
  BY <1>1 DEF IInv, TypeOK, EndMoves
<1>3. FirstAlone'
  BY DEF IInv, FirstAlone, EndMoves
<1>4. MovesComplete'
  <2>1. Expanded(current)
    BY DEF IInv, MovesComplete, EndMoves, Expanded
  <2>2. \A i \in Number : Expanded(i) \/ i \in Range(worklist)
    BY <2>1 DEF IInv, MovesComplete, EndMoves
  <2>3. pc' = "loop" /\ Range(worklist)' = Range(worklist)
    BY DEF EndMoves
  <2>4. QED BY <2>2, <2>3, <1>1 DEF MovesComplete
<1>5. PendingLeads'
  BY DEF PendingLeads, EndMoves
<1>6. QED BY <1>1, <1>2, <1>3, <1>4, <1>5 DEF IInv

(* An empty worklist means that everything is expanded.                    *)
LEMMA FinishInv == IInv /\ Finish => IInv'
<1>. SUFFICES ASSUME IInv, Finish PROVE IInv'
  OBVIOUS
<1>1. /\ Number' = Number /\ \A i : subset(i)' = subset(i)
      /\ Numbering' /\ MovesSound' /\ \A i : Expanded(i)' <=> Expanded(i)
  BY ResultKept DEF Finish
<1>2. TypeOK'
  BY <1>1 DEF IInv, TypeOK, Finish
<1>3. FirstAlone'
  BY DEF IInv, FirstAlone, Finish
<1>4. Range(worklist) = {}
  BY DEF Finish, Range
<1>5. MovesComplete'
  <2>1. \A i \in Number : Expanded(i)
    BY <1>4 DEF IInv, MovesComplete, Finish
  <2>2. pc' = "done"
    BY DEF Finish
  <2>3. QED BY <2>1, <2>2, <1>1 DEF MovesComplete
<1>6. PendingLeads'
  BY DEF PendingLeads, Finish
<1>7. QED BY <1>1, <1>2, <1>3, <1>5, <1>6 DEF IInv

(* A move to a macrostate that was seen before.                            *)
LEMMA FollowInv == IInv /\ FollowKnown => IInv'
<1>. SUFFICES ASSUME IInv, FollowKnown PROVE IInv'
  OBVIOUS
<1>1. PICK a \in Symbol, j \in Number :
        /\ NextSymbol(a) /\ subset(j) = Target(a)
        /\ moves' = moves \cup {<<current, a, j>>}
        /\ pending' = pending \ {a}
        /\ UNCHANGED <<aut, macrostates, final, worklist, current, pc>>
  BY DEF FollowKnown, Number
<1>2. pc = "moves" /\ a \in pending /\ current \in Number
  BY <1>1 DEF NextSymbol, IInv, TypeOK
<1>3. Number' = Number /\ \A i : subset(i)' = subset(i)
  BY <1>1 DEF Number, subset
<1>4. TypeOK'
  BY <1>1, <1>2, <1>3 DEF IInv, TypeOK
<1>5. FirstAlone'
  BY <1>1 DEF IInv, FirstAlone
<1>6. Numbering'
  BY <1>1, <1>3 DEF IInv, Numbering, AcceptingMacrostate
<1>7. MovesSound'
  <2>1. subset(j) = Post(aut, subset(current), a) /\ subset(j) # {}
    <3>1. subset(j) = Post(aut, subset(current), a)
      BY <1>1 DEF Target
    <3>2. QED BY <3>1, <1>2 DEF IInv, PendingLeads, Target
  <2>2. \A m \in moves' : m \in moves \/ (m[1] = current /\ m[2] = a /\ m[3] = j)
    BY <1>1
  <2>3. \A m \in moves' : subset(m[3]) = Post(aut, subset(m[1]), m[2]) /\ subset(m[3]) # {}
    BY <2>1, <2>2 DEF IInv, MovesSound
  <2>4. QED BY <2>3, <1>1, <1>3 DEF MovesSound
<1>8. MovesComplete'
  <2>1. \A i \in Number : Expanded(i) => Expanded(i)'
    BY <1>1, <1>3 DEF Expanded
  <2>2. \A i \in Number : Expanded(i)' \/ i \in Range(worklist) \/ i = current
    BY <2>1, <1>2 DEF IInv, MovesComplete
  <2>3. \A b \in Symbol \ pending' : Post(aut, subset(current), b) # {} =>
          \E k \in Number : <<current, b, k>> \in moves'
    BY <1>1, <1>2 DEF IInv, MovesComplete
  <2>4. QED BY <2>2, <2>3, <1>1, <1>2, <1>3 DEF MovesComplete
<1>9. PendingLeads'
  BY <1>1, <1>3 DEF IInv, PendingLeads, Target
<1>10. QED BY <1>4, <1>5, <1>6, <1>7, <1>8, <1>9 DEF IInv

(* A new macrostate gets the next number and waits to be expanded.         *)
LEMMA DiscoverInv == IInv /\ DiscoverMacrostate => IInv'
<1>. SUFFICES ASSUME IInv, DiscoverMacrostate PROVE IInv'
  OBVIOUS
<1>0. PICK n \in Nat \ {0} : n = Len(macrostates)
  BY EmptySeq DEF IInv, TypeOK
<1>1. PICK a \in Symbol :
        /\ NextSymbol(a) /\ Target(a) \notin Range(macrostates)
        /\ macrostates' = Append(macrostates, Target(a))
        /\ final' = IF AcceptingMacrostate(Target(a)) THEN final \cup {n} ELSE final
        /\ worklist' = Append(worklist, n)
        /\ moves' = moves \cup {<<current, a, n>>}
        /\ pending' = pending \ {a}
        /\ pc' \in {"moves", "stopped"}
        /\ UNCHANGED <<aut, current>>
  BY <1>0 DEF DiscoverMacrostate
<1>2. pc = "moves" /\ a \in pending /\ current \in Number
  BY <1>1 DEF NextSymbol, IInv, TypeOK
<1>3. macrostates \in [1..n -> SUBSET State] /\ Number = 0..n-1
  BY <1>0, LenProperties DEF IInv, TypeOK, Number
<1>4. \A i \in Number : i+1 \in 1..n /\ subset(i) \in SUBSET State /\ i # n
  <2>1. \A i \in 0..n-1 : i+1 \in 1..n /\ i # n
    OBVIOUS
  <2>2. QED BY <2>1, <1>3 DEF subset
<1>5. Target(a) \in SUBSET State
  BY <1>2, <1>4, PostType DEF IInv, TypeOK, Target
<1>6. /\ macrostates' \in Seq(SUBSET State) /\ Len(macrostates') = n + 1
      /\ \A i \in 1..n : macrostates'[i] = macrostates[i]
      /\ macrostates'[n+1] = Target(a)
  BY <1>0, <1>1, <1>5, AppendTo DEF IInv, TypeOK
<1>7. Number' = Number \cup {n} /\ n \notin Number
  <2>1. 0..(n+1)-1 = (0..n-1) \cup {n}
    OBVIOUS
  <2>2. QED BY <2>1, <1>3, <1>4, <1>6 DEF Number
<1>8. (\A i \in Number : subset(i)' = subset(i)) /\ subset(n)' = Target(a)
  BY <1>4, <1>6 DEF subset
<1>9. \A i \in Number : subset(i) # Target(a)
  <2>1. \A i \in 1..n : macrostates[i] \in Range(macrostates)
    BY <1>3 DEF Range
  <2>2. QED BY <2>1, <1>1, <1>4 DEF subset
<1>10. Target(a) # {}
  BY <1>2 DEF IInv, PendingLeads
<1>11. worklist' \in Seq(Number') /\ Range(worklist') = Range(worklist) \cup {n}
  <2>1. worklist \in Seq(Number')
    BY <1>7, SeqMonotonic DEF IInv, TypeOK
  <2>2. QED BY <2>1, <1>1, <1>7, AppendTo
<1>12. TypeOK'
  <2>1. macrostates' # << >>
    BY <1>3, <1>6
  <2>2. final' \subseteq Number' /\ moves' \subseteq Number' \X Symbol \X Number'
    BY <1>1, <1>2, <1>7 DEF IInv, TypeOK
  <2>3. aut' \in AutomataOver(State, Symbol) /\ current' \in Number' /\ pending' \subseteq Symbol
        /\ pc' \in {"loop", "moves", "done", "stopped"}
    BY <1>1, <1>2, <1>7 DEF IInv, TypeOK
  <2>4. QED BY <2>1, <2>2, <2>3, <1>6, <1>11 DEF TypeOK
<1>13. FirstAlone'
  <2>1. 0 \notin Range(worklist)
    BY <1>2 DEF IInv, FirstAlone
  <2>2. QED BY <2>1, <1>3, <1>11 DEF FirstAlone
<1>14. \A S : AcceptingMacrostate(S)' <=> AcceptingMacrostate(S)
  BY <1>1 DEF AcceptingMacrostate
<1>15. Numbering'
  <2>1. \A i, j \in Number' : subset(i)' = subset(j)' => i = j
    BY <1>7, <1>8, <1>9 DEF IInv, Numbering
  <2>2. \A i \in Number : i \in final' <=> i \in final
    BY <1>1, <1>7
  <2>3. n \notin final
    BY <1>7 DEF IInv, TypeOK
  <2>4. n \in final' <=> AcceptingMacrostate(Target(a))
    BY <2>3, <1>1
  <2>5. \A i \in Number' : i \in final' <=> AcceptingMacrostate(subset(i)')
    BY <2>2, <2>4, <1>7, <1>8 DEF IInv, Numbering
  <2>6. \A i \in Number' : i # 0 => subset(i)' # {}
    BY <1>7, <1>8, <1>10 DEF IInv, Numbering
  <2>7. \A i \in Number' : i \in final' <=> AcceptingMacrostate(subset(i))'
    BY <2>5, <1>1 DEF AcceptingMacrostate
  <2>8. QED BY <2>1, <2>6, <2>7 DEF Numbering
<1>16. MovesSound'
  <2>1. ASSUME NEW m \in moves
        PROVE  subset(m[3])' = Post(aut, subset(m[1])', m[2]) /\ subset(m[3])' # {}
    <3>1. m[1] \in Number /\ m[3] \in Number
      BY DEF IInv, TypeOK
    <3>2. QED BY <3>1, <1>8 DEF IInv, MovesSound
  <2>2. subset(n)' = Post(aut, subset(current)', a) /\ subset(n)' # {}
    <3>1. subset(current)' = subset(current)
      BY <1>1, <1>2, <1>8 DEF subset
    <3>2. QED BY <3>1, <1>8, <1>10 DEF Target
  <2>3. \A m \in moves' : m \in moves \/ (m[1] = current /\ m[2] = a /\ m[3] = n)
    BY <1>1
  <2>4. ASSUME NEW m \in moves'
        PROVE  subset(m[3])' = Post(aut, subset(m[1])', m[2]) /\ subset(m[3])' # {}
    <3>1. CASE m \in moves
      BY <3>1, <2>1
    <3>2. CASE m[1] = current /\ m[2] = a /\ m[3] = n
      BY <3>2, <2>2, <1>1 DEF subset
    <3>3. QED BY <3>1, <3>2, <2>3
  <2>5. QED BY <2>4, <1>1 DEF MovesSound
<1>17. MovesComplete'
  <2>1. \A i \in Number : Expanded(i) => Expanded(i)'
    BY <1>1, <1>7, <1>8 DEF Expanded
  <2>2. \A i \in Number' : Expanded(i)' \/ i \in Range(worklist') \/ i = current
    BY <2>1, <1>2, <1>7, <1>11 DEF IInv, MovesComplete
  <2>3. \A b \in Symbol \ pending' : Post(aut, subset(current), b) # {} =>
          \E k \in Number' : <<current, b, k>> \in moves'
    BY <1>1, <1>2, <1>7 DEF IInv, MovesComplete
  <2>4. \A b \in Symbol \ pending' : Post(aut', subset(current)', b) # {} =>
          \E k \in Number' : <<current', b, k>> \in moves'
    BY <2>3, <1>1, <1>2, <1>8
  <2>5. \A i \in Number' : \/ Expanded(i)'
                           \/ pc' # "done" /\ i \in Range(worklist')
                           \/ pc' \in {"moves", "stopped"} /\ i = current'
    BY <2>2, <1>1
  <2>6. subset(current)' = macrostates'[current'+1]
    BY DEF subset
  <2>7. QED BY <2>4, <2>5, <2>6, <1>1 DEF MovesComplete
<1>18. PendingLeads'
  BY <1>1, <1>2, <1>8 DEF IInv, PendingLeads, Target
<1>19. QED BY <1>12, <1>13, <1>15, <1>16, <1>17, <1>18 DEF IInv

-----------------------------------------------------------------------------
(* Every step preserves the invariant.                                     *)
LEMMA NextInv == IInv /\ [Next]_vars => IInv'
<1>1. IInv /\ UNCHANGED vars => IInv'
  <2>. SUFFICES ASSUME IInv, UNCHANGED vars PROVE IInv'
    OBVIOUS
  <2>1. UNCHANGED <<aut, macrostates, final, moves, worklist, current, pending, pc>>
    BY DEF vars
  <2>2. /\ Number' = Number /\ \A i : subset(i)' = subset(i)
        /\ Numbering' /\ MovesSound' /\ \A i : Expanded(i)' <=> Expanded(i)
    BY <2>1, ResultKept
  <2>3. TypeOK' /\ FirstAlone' /\ PendingLeads'
    BY <2>1, <2>2 DEF IInv, TypeOK, FirstAlone, PendingLeads, Target
  <2>4. MovesComplete'
    BY <2>1, <2>2 DEF IInv, MovesComplete, subset
  <2>5. QED BY <2>2, <2>3, <2>4 DEF IInv
<1>2. QED BY <1>1, TakeInv, BreakInv, FollowInv, DiscoverInv, EndInv, FinishInv DEF Next

(* The numbering is one to one and every transition leads where the input  *)
(* leads, at every point of the construction; every macrostate that is not *)
(* waiting has all its transitions, so in the end all have.                *)
THEOREM Invariance ==
  Spec => []ConstructionSound
<1>1. IInv => ConstructionSound
  BY DEF IInv, ConstructionSound
<1>2. QED BY <1>1, InitInv, NextInv, PTL DEF Spec

-----------------------------------------------------------------------------
\* The refinement mapping.
found == Range(macrostates)
status == CASE pc = "done" -> "complete" [] pc = "stopped" -> "stopped"
            [] OTHER -> "running"

(* Every macrostate found has a number.                                    *)
LEMMA FoundNumbers ==
  ASSUME TypeOK
  PROVE  found = {subset(i) : i \in Number}
<1>0. PICK n \in Nat : n = Len(macrostates)
  BY LenProperties DEF TypeOK
<1>1. macrostates \in [1..n -> SUBSET State] /\ Number = 0..n-1
  BY <1>0, LenProperties DEF TypeOK, Number
<1>2. found = {macrostates[k] : k \in 1..n}
  BY <1>1 DEF found, Range
<1>3. \A k \in 1..n : k-1 \in 0..n-1 /\ (k-1)+1 = k
  OBVIOUS
<1>4. \A i \in 0..n-1 : i+1 \in 1..n
  OBVIOUS
<1>5. QED BY <1>1, <1>2, <1>3, <1>4 DEF subset

(* Once all macrostates are expanded, no successor is missing.             *)
LEMMA ExpandedIsClosed ==
  ASSUME IInv, \A i \in Number : Expanded(i)
  PROVE  \A S \in found : MacroSucc(aut, S) \subseteq found
<1>. SUFFICES ASSUME NEW i \in Number, NEW a \in Symbol, Post(aut, subset(i), a) # {}
              PROVE  Post(aut, subset(i), a) \in found
  BY FoundNumbers DEF MacroSucc, IInv
<1>1. PICK j \in Number : <<i, a, j>> \in moves
  BY DEF Expanded
<1>2. subset(j) = Post(aut, subset(i), a)
  BY <1>1 DEF IInv, MovesSound
<1>3. QED BY <1>1, <1>2, FoundNumbers DEF IInv

(* The construction starts as a search of the macrostates starts.          *)
LEMMA InitShown == Init => Search!Init
<1>. SUFFICES ASSUME Init PROVE Search!Init
  OBVIOUS
<1>1. IInv
  BY InitInv
<1>2. found = {aut.initial}
  BY DEF Init, Range, found
<1>3. status = "complete" => \A S \in found : MacroSucc(aut, S) \subseteq found
  <2>1. SUFFICES ASSUME pc = "done" PROVE \A S \in found : MacroSucc(aut, S) \subseteq found
    BY DEF status, Init
  <2>2. \A i \in Number : Expanded(i)
    BY <1>1, <2>1 DEF IInv, MovesComplete
  <2>3. QED BY <1>1, <2>2, ExpandedIsClosed
<1>4. status \in {"running", "complete", "stopped"}
  BY DEF status
<1>5. QED BY <1>2, <1>3, <1>4 DEF Search!Init, Search!Closed, FirstMacrostate, found, status

(* A step adds macrostates that the search may add, or is not seen.        *)
LEMMA StepShown == IInv /\ IInv' /\ [Next]_vars => [Search!Next]_Search!vars
<1>. SUFFICES ASSUME IInv, IInv', [Next]_vars PROVE [Search!Next]_Search!vars
  OBVIOUS
<1>1. ASSUME UNCHANGED <<aut, macrostates>>, status' = status
      PROVE  [Search!Next]_Search!vars
  BY <1>1 DEF Search!vars, status
<1>2. CASE TakeMacrostate \/ FollowKnown \/ EndMoves \/ UNCHANGED vars
  <2>1. UNCHANGED <<aut, macrostates>> /\ status' = status
    BY <1>2 DEF TakeMacrostate, FollowKnown, EndMoves, vars, status
  <2>2. QED BY <2>1, <1>1
<1>3. CASE BreakOnEmpty \/ Finish
  <2>1. UNCHANGED <<aut, macrostates>> /\ status = "running" /\ status' = "complete" /\ pc' = "done"
    BY <1>3 DEF BreakOnEmpty, Finish, status
  <2>2. \A i \in Number' : Expanded(i)'
    BY <2>1 DEF IInv, MovesComplete
  <2>3. (\A i \in Number : Expanded(i))'
    BY <2>2
  <2>4. (\A S \in found : MacroSucc(aut, S) \subseteq found)'
    BY <2>3, ExpandedIsClosed, PTL
  <2>5. \A S \in found : MacroSucc(aut, S) \subseteq found
    BY <2>4, <2>1 DEF found, MacroSucc, Post
  <2>6. QED BY <2>1, <2>5 DEF Search!Next, Search!Complete, Search!Closed, found, status
<1>4. CASE DiscoverMacrostate
  <2>1. PICK a \in Symbol :
          /\ NextSymbol(a) /\ macrostates' = Append(macrostates, Target(a))
          /\ pc' \in {"moves", "stopped"} /\ aut' = aut
    BY <1>4 DEF DiscoverMacrostate
  <2>2. pc = "moves" /\ a \in pending /\ current \in Number
    BY <2>1 DEF NextSymbol, IInv, TypeOK
  <2>3. subset(current) \in found /\ subset(current) \in SUBSET State
    <3>1. subset(current) \in found
      BY <2>2, FoundNumbers DEF IInv
    <3>2. found \subseteq SUBSET State
      BY LenProperties DEF found, Range, IInv, TypeOK
    <3>3. QED BY <3>1, <3>2
  <2>4. Target(a) \in SUBSET State
    BY <2>3, PostType DEF IInv, TypeOK, Target
  <2>5. found' = found \cup {Target(a)}
    BY <2>1, <2>4, AppendTo DEF found, IInv, TypeOK
  <2>6. Target(a) \in MacroSucc(aut, subset(current))
    BY <2>1, <2>2 DEF IInv, PendingLeads, Target, MacroSucc
  <2>7. status = "running" /\ status' \in {"running", "stopped"}
    BY <2>1, <2>2 DEF status
  <2>8. QED BY <2>1, <2>3, <2>5, <2>6, <2>7 DEF Search!Next, Search!Discover, found, status
<1>5. QED BY <1>2, <1>3, <1>4 DEF Next

(* Determinization finds macrostates as Exploration allows: one at a time, *)
(* each the successor of one it has, until none is missing.                *)
THEOREM Refinement == Spec => ImplementsExploration
<1>1. Spec => []IInv
  BY InitInv, NextInv, PTL DEF Spec
<1>2. Spec => Search!Init
  BY InitShown, PTL DEF Spec
<1>3. Spec => [][Search!Next]_Search!vars
  BY <1>1, StepShown, PTL DEF Spec
<1>4. QED BY <1>2, <1>3, PTL DEF ImplementsExploration, Search!Spec

(* Any search that works as Exploration allows finds only what every       *)
(* closed set around the start holds, and is complete when it says so.     *)
LEMMA SearchOnlyReachable ==
  ASSUME NEW C PROVE Search!Spec => []Search!OnlyReachable(C)
<1>1. Search!Init => Search!OnlyReachable(C)
  BY DEF Search!Init, Search!OnlyReachable
<1>2. Search!OnlyReachable(C) /\ [Search!Next]_Search!vars => Search!OnlyReachable(C)'
  BY DEF Search!OnlyReachable, Search!Next, Search!Discover, Search!Complete, Search!vars,
         Search!Closed
<1>3. QED BY <1>1, <1>2, PTL DEF Search!Spec

(* A search that reports to be complete has found a closed set.            *)
LEMMA SearchComplete == Search!Spec => []Search!CompleteIsClosed
<1>1. Search!Init => Search!CompleteIsClosed
  BY DEF Search!Init, Search!CompleteIsClosed
<1>2. Search!CompleteIsClosed /\ [Search!Next]_Search!vars => Search!CompleteIsClosed'
  BY DEF Search!CompleteIsClosed, Search!Next, Search!Discover, Search!Complete, Search!vars,
         Search!Closed
<1>3. QED BY <1>1, <1>2, PTL DEF Search!Spec

(* Every macrostate is reachable: it belongs to every set of macrostates   *)
(* that holds the initial one and is closed under successors.              *)
THEOREM OnlyReachable ==
  ASSUME NEW C PROVE Spec => []Search!OnlyReachable(C)
BY Refinement, SearchOnlyReachable, PTL DEF ImplementsExploration

(* When the construction ends without having been stopped, its macrostates *)
(* are closed under successors: together, they are the reachable ones.     *)
THEOREM FoundAll == Spec => []Search!CompleteIsClosed
BY Refinement, SearchComplete, PTL DEF ImplementsExploration

-----------------------------------------------------------------------------
\* The first macrostate is that of the initial states.
StartFirst == subset(0) = aut.initial

(* Numbers, once given, are kept: the first macrostate stays the first.    *)
LEMMA StartKept ==
  IInv /\ StartFirst /\ [Next]_vars => StartFirst'
<1>. SUFFICES ASSUME IInv, StartFirst, [Next]_vars PROVE StartFirst'
  OBVIOUS
<1>1. macrostates \in Seq(SUBSET State) /\ macrostates # << >> /\ Len(macrostates) \in Nat
  BY LenProperties DEF IInv, TypeOK
<1>2. 0+1 \in 1..Len(macrostates)
  BY <1>1, EmptySeq
<1>3. aut' = aut /\ (macrostates' = macrostates \/ DiscoverMacrostate)
  BY DEF Next, vars, TakeMacrostate, BreakOnEmpty, FollowKnown, DiscoverMacrostate,
         EndMoves, Finish
<1>4. ASSUME DiscoverMacrostate PROVE macrostates'[0+1] = macrostates[0+1]
  <2>1. PICK a \in Symbol : macrostates' = Append(macrostates, Target(a))
    BY <1>4 DEF DiscoverMacrostate
  <2>2. Target(a) \in SUBSET State
    <3>1. current+1 \in 1..Len(macrostates)
      BY <1>1 DEF IInv, TypeOK, Number
    <3>2. subset(current) \in SUBSET State
      BY <1>1, <3>1, ElementOfSeq DEF subset
    <3>3. aut \in AutomataOver(State, Symbol)
      BY DEF IInv, TypeOK
    <3>4. QED BY <3>2, <3>3, PostType DEF Target
  <2>3. QED BY <1>1, <1>2, <2>1, <2>2, AppendTo
<1>5. QED BY <1>3, <1>4 DEF StartFirst, subset

(* What a set of numbers leads to in the result.                           *)
LEMMA ResultPost ==
  ASSUME TypeOK, NEW T \in SUBSET Number, NEW a \in Symbol
  PROVE  /\ Post(Result, T, a) \in SUBSET Number
         /\ \A j : j \in Post(Result, T, a) <=> \E i \in T : <<i, a, j>> \in moves
<1>1. \A m \in moves : m = <<m[1], m[2], m[3]>> /\ m[1] \in Number /\ m[2] \in Symbol /\ m[3] \in Number
  BY DEF TypeOK
<1>2. \A i \in T : Result.delta[i][a] = {m[3] : m \in {n \in moves : n[1] = i /\ n[2] = a}}
  BY DEF Result
<1>3. \A i \in T : \A j : j \in Result.delta[i][a] <=> <<i, a, j>> \in moves
  BY <1>1, <1>2
<1>4. Post(Result, T, a) = UNION {Result.delta[i][a] : i \in T}
  BY DEF Post
<1>5. \A j : j \in Post(Result, T, a) <=> \E i \in T : <<i, a, j>> \in moves
  BY <1>3, <1>4
<1>6. ASSUME NEW j, j \in Post(Result, T, a) PROVE j \in Number
  <2>1. PICK i \in T : <<i, a, j>> \in moves
    BY <1>5, <1>6
  <2>2. <<i, a, j>>[3] \in Number
    BY <1>1, <2>1
  <2>3. QED BY <2>2
<1>7. QED BY <1>5, <1>6

(* Where the result goes on a word, the input goes too, to the macrostate   *)
(* of that number; and the finished result goes wherever the input goes.    *)
LEMMA ResultFollows ==
  ASSUME IInv, StartFirst, NEW w, NEW N \in Nat, w \in [1..N -> Symbol]
  PROVE  /\ \A i \in PostWord(Result, {0}, w) :
              i \in Number /\ subset(i) = PostWord(aut, aut.initial, w)
         /\ pc = "done" /\ PostWord(aut, aut.initial, w) # {} =>
              \E i \in PostWord(Result, {0}, w) : subset(i) = PostWord(aut, aut.initial, w)
<1>1. Len(w) = N /\ \A k \in 1..N : w[k] \in Symbol
  OBVIOUS
<1>2. aut \in AutomataOver(State, Symbol) /\ aut.initial \in SUBSET State
  BY DEF IInv, TypeOK, AutomataOver
<1>3. {0} \in SUBSET Number
  <2>1. macrostates \in Seq(SUBSET State) /\ macrostates # << >> /\ Len(macrostates) \in Nat
    BY LenProperties DEF IInv, TypeOK
  <2>2. QED BY <2>1, EmptySeq DEF Number
<1>4. PICK h : WordLayers(h, aut, State, aut.initial, w) /\ PostWord(aut, aut.initial, w) = h[N]
  <2>1. \A k \in 1..Len(w) : \A T \in SUBSET State : Post(aut, T, w[k]) \in SUBSET State
    BY <1>1, <1>2, PostType
  <2>2. QED BY ONLY <1>1, <1>2, <2>1, N \in Nat, PostWordLayers
<1>5. PICK g : WordLayers(g, Result, Number, {0}, w) /\ PostWord(Result, {0}, w) = g[N]
  <2>1. \A k \in 1..Len(w) : \A T \in SUBSET Number : Post(Result, T, w[k]) \in SUBSET Number
    BY <1>1, ResultPost DEF IInv
  <2>2. QED BY ONLY <1>1, <1>3, <2>1, N \in Nat, PostWordLayers
<1>6. /\ h[0] = aut.initial /\ g[0] = {0}
      /\ \A k \in 0..N : g[k] \in SUBSET Number /\ h[k] \in SUBSET State
      /\ \A k \in 1..N : g[k] = Post(Result, g[k-1], w[k]) /\ h[k] = Post(aut, h[k-1], w[k])
  BY <1>1, <1>4, <1>5 DEF WordLayers
<1>. DEFINE Agree(k) == \A i \in g[k] : subset(i) = h[k]
            Found(k) == pc = "done" /\ h[k] # {} => \E i \in g[k] : subset(i) = h[k]
            Good == {k \in 0..N : Agree(k) /\ Found(k)}
<1>7. 0 \in Good
  <2>1. 0 \in 0..N
    OBVIOUS
  <2>2. subset(0) = h[0] /\ g[0] = {0}
    BY <1>6 DEF StartFirst
  <2>3. \A i \in g[0] : subset(i) = h[0]
    BY <2>2
  <2>4. \E i \in g[0] : subset(i) = h[0]
    BY <2>2
  <2>5. QED BY <2>1, <2>3, <2>4
<1>8. ASSUME NEW k \in 1..N, k-1 \in Good PROVE k \in Good
  <2>0. k-1 \in 0..N /\ k \in 0..N /\ Agree(k-1) /\ Found(k-1)
    BY <1>8
  <2>1. PICK a \in Symbol : a = w[k]
    BY <1>1
  <2>2. PICK G \in SUBSET Number : G = g[k-1]
    BY <1>6, <2>0
  <2>3. PICK H \in SUBSET State : H = h[k-1]
    BY <1>6, <2>0
  <2>4. g[k] = Post(Result, G, a) /\ h[k] = Post(aut, H, a)
    BY <1>6, <2>1, <2>2, <2>3
  <2>5. /\ \A i \in G : subset(i) = H
        /\ pc = "done" /\ H # {} => \E i \in G : subset(i) = H
    BY <2>0, <2>2, <2>3
  <2>6. \A j : j \in g[k] <=> \E i \in G : <<i, a, j>> \in moves
    <3>1. TypeOK
      BY DEF IInv
    <3>2. \A j : j \in Post(Result, G, a) <=> \E i \in G : <<i, a, j>> \in moves
      BY <3>1, ResultPost
    <3>3. QED BY <2>4, <3>2
  <2>7. Agree(k)
    <3>1. SUFFICES ASSUME NEW j \in g[k] PROVE subset(j) = h[k]
      OBVIOUS
    <3>2. PICK i \in G : <<i, a, j>> \in moves
      BY <2>6
    <3>3. subset(j) = Post(aut, subset(i), a)
      BY <3>2 DEF IInv, MovesSound
    <3>4. QED BY <2>4, <2>5, <3>3
  <2>8. Found(k)
    <3>1. SUFFICES ASSUME pc = "done", h[k] # {} PROVE \E j \in g[k] : subset(j) = h[k]
      OBVIOUS
    <3>2. H # {}
      BY <2>4, <3>1 DEF Post
    <3>3. PICK i \in G : subset(i) = H
      BY <2>5, <3>1, <3>2
    <3>4. Expanded(i)
      BY <3>1 DEF IInv, MovesComplete
    <3>5. PICK j \in Number : <<i, a, j>> \in moves
      BY <2>4, <3>1, <3>3, <3>4 DEF Expanded
    <3>6. j \in g[k]
      BY <2>6, <3>5
    <3>7. QED BY <2>7, <3>6
  <2>9. QED BY <2>0, <2>7, <2>8
<1>9. N \in Good
  <2>1. Good \in SUBSET (0..N)
    OBVIOUS
  <2> HIDE DEF Good
  <2>2. QED BY <1>7, <1>8, <2>1, UpTo
<1>10. QED BY <1>4, <1>5, <1>6, <1>9

(* No two transitions of the result leave a number on the same symbol.     *)
LEMMA ResultDeterministic ==
  ASSUME IInv
  PROVE  \A m, n \in moves : m[1] = n[1] /\ m[2] = n[2] => m = n
<1>. SUFFICES ASSUME NEW m \in moves, NEW n \in moves, m[1] = n[1], m[2] = n[2] PROVE m = n
  OBVIOUS
<1>1. m \in Number \X Symbol \X Number /\ n \in Number \X Symbol \X Number
  BY DEF IInv, TypeOK
<1>2. subset(m[3]) = subset(n[3])
  BY DEF IInv, MovesSound
<1>3. m[3] = n[3]
  BY <1>1, <1>2 DEF IInv, Numbering
<1>4. QED BY <1>1, <1>3

(* The result accepts what the input accepts, of any length.               *)
LEMMA LanguagesAgree ==
  ASSUME IInv, StartFirst, NEW N \in Nat, NEW w \in [1..N -> Symbol]
  PROVE  /\ Accepts(Result, w) => Accepts(aut, w)
         /\ pc = "done" /\ Accepts(aut, w) => Accepts(Result, w)
<1>1. Result.initial = {0} /\ Result.final = final
  BY DEF Result
<1>2. \A i \in Number : i \in final <=> subset(i) \cap aut.final # {}
  BY DEF IInv, Numbering, AcceptingMacrostate
<1>3. /\ \A i \in PostWord(Result, {0}, w) :
           i \in Number /\ subset(i) = PostWord(aut, aut.initial, w)
      /\ pc = "done" /\ PostWord(aut, aut.initial, w) # {} =>
           \E i \in PostWord(Result, {0}, w) : subset(i) = PostWord(aut, aut.initial, w)
  BY ResultFollows
<1>4. QED BY <1>1, <1>2, <1>3 DEF Accepts

(* The result is deterministic and has the language of the input, whatever  *)
(* the bound on the words compared; cut short, it accepts a part of it.     *)
THEOREM Language == Spec => []LanguageKept
<1>1. Init => StartFirst
  BY DEF Init, StartFirst, subset
<1>2. IInv /\ StartFirst => LanguageKept
  <2>. SUFFICES ASSUME IInv, StartFirst PROVE LanguageKept
    OBVIOUS
  <2>1. \A w \in Words(Symbol, MaxWord) : \E N \in Nat : w \in [1..N -> Symbol]
    BY DEF Words
  <2>2. QED BY <2>1, LanguagesAgree, ResultDeterministic DEF LanguageKept
<1>3. QED BY <1>1, <1>2, InitInv, NextInv, StartKept, PTL DEF Spec
=============================================================================
