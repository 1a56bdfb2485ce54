-------------------------- MODULE WordSearchProofs --------------------------
(***************************************************************************)
(* The depth-first search of get_word() keeps a path on its stack and      *)
(* forgets no target, so it finds a word exactly if there is one, for any  *)
(* automaton over states and symbols that are numbers.                     *)
(***************************************************************************)
EXTENDS WordSearch, AutomataProofs

\* C holds the initial states and no final one, and no transition leaves it.
Separates(C) ==
  /\ aut.initial \subseteq C /\ C \cap aut.final = {}
  /\ \A q \in C, a \in Symbol : aut.delta[q][a] \subseteq C

\* A run of automaton A over w, from an initial state to a final one.
AcceptingRun(A, run, w) ==
  /\ run[1] \in A.initial /\ run[Len(w)+1] \in A.final
  /\ \A k \in 1..Len(w) : run[k+1] \in A.delta[run[k]][w[k]]

(* The answer is justified: "none" by a set that no run leaves and that no *)
(* final state belongs to, a word by an accepting run over it.             *)
Justified ==
  /\ pc = "none" => \E C \in SUBSET State : Separates(C)
  /\ pc = "found" => \E run \in Seq(State) : AcceptingRun(aut, run, letters)

-----------------------------------------------------------------------------
(* The invariant.  PathLinked and SearchedExpanded speak of a stack s and  *)
(* a set D of searched states of automaton A, to be stated before and      *)
(* after a step.                                                           *)
PointingIn(A, e) ==
  /\ e.symbols # {} => \E a \in e.symbols : IsLeast(a, e.symbols)
  /\ \A a \in Symbol : IsLeast(a, e.symbols) => e.targets \subseteq A.delta[e.of][a]

Linked(A, s, D) ==
  /\ s # << >> => s[1].of \in A.initial
  /\ \A k \in 1..Len(s) :
       /\ s[k].of \in D /\ PointingIn(A, s[k])
       /\ \A j \in 1..k-1 : s[j].of # s[k].of
       /\ k > 1 => s[k-1].symbols # {} /\ IsLeast(s[k].of, s[k-1].targets)

Expanded(A, s, D) ==
  \A q \in D, a \in Symbol : \A r \in A.delta[q][a] \ D :
    \E k \in 1..Len(s) : s[k].of = q /\ Ahead(s[k], a, r)

Control ==
  /\ searched \cap aut.final = {}
  /\ pc \in {"initial", "search"} =>
       aut.initial \cap aut.final = {} /\ aut.initial \subseteq todo \cup searched

Answered ==
  /\ pc = "none" => \E C \in SUBSET State : Separates(C)
  /\ pc = "found" =>
       IF worklist = << >> THEN aut.initial \cap aut.final # {}
       ELSE top.symbols # {} /\ \E t \in aut.final : IsLeast(t, top.targets)

IInv ==
  /\ TypeOK /\ Control /\ Answered
  /\ Linked(aut, worklist, searched) /\ Expanded(aut, worklist, searched)

-----------------------------------------------------------------------------
(* A set has one least number only.                                        *)
LEMMA LeastUnique ==
  ASSUME NEW S \in SUBSET Nat, NEW x, NEW y, IsLeast(x, S), IsLeast(y, S)
  PROVE  x = y
<1>1. x \in Nat /\ y \in Nat /\ x <= y /\ y <= x
  BY DEF IsLeast
<1> QED BY <1>1

(* A stack with its top taken off.                                         *)
LEMMA Popped ==
  ASSUME NEW s \in Seq(Entry), s # << >>
  PROVE  /\ Front(s) \in Seq(Entry) /\ Len(Front(s)) = Len(s) - 1
         /\ Len(s) \in Nat \ {0} /\ Last(s) = s[Len(s)] /\ Last(s) \in Entry
         /\ \A k \in 1..Len(s)-1 : Front(s)[k] = s[k]
<1> DEFINE n == Len(s)
<1>1. n \in Nat \ {0} /\ \A k \in 1..n : s[k] \in Entry
  BY EmptySeq, ElementOfSeq
<1>2. Front(s) = SubSeq(s, 1, n-1) /\ Last(s) = s[n]
  BY DEF Front, Last
<1> HIDE DEF n
<1>3. \A k \in 1..n-1 : s[k] \in Entry
  BY <1>1
<1>4. /\ SubSeq(s, 1, n-1) \in Seq(Entry)
      /\ Len(SubSeq(s, 1, n-1)) = IF 1 <= n-1 THEN (n-1)-1+1 ELSE 0
      /\ \A k \in 1..(n-1)-1+1 : SubSeq(s, 1, n-1)[k] = s[1+k-1]
  BY <1>1, <1>3, SubSeqProperties
<1>5. (n-1)-1+1 = n-1 /\ (~ (1 <= n-1) => n-1 = 0) /\ (\A k \in 1..n-1 : 1+k-1 = k)
      /\ n \in 1..n
  BY <1>1
<1> QED BY <1>1, <1>2, <1>4, <1>5 DEF n

(* A stack with one more entry.                                            *)
LEMMA Pushed ==
  ASSUME NEW s \in Seq(Entry), NEW e \in Entry
  PROVE  /\ Append(s, e) \in Seq(Entry) /\ Len(Append(s, e)) = Len(s) + 1
         /\ Append(s, e) # << >> /\ Append(s, e)[Len(s)+1] = e
         /\ \A k \in 1..Len(s) : Append(s, e)[k] = s[k]
<1>1. /\ Append(s, e) \in Seq(Entry) /\ Len(Append(s, e)) = Len(s) + 1
      /\ Append(s, e)[Len(s)+1] = e
      /\ \A k \in 1..Len(s) : Append(s, e)[k] = s[k]
  BY AppendProperties
<1>2. Len(s) \in Nat
  BY LenProperties
<1>3. Append(s, e) # << >>
  BY <1>1, <1>2
<1> QED BY <1>1, <1>3

(* A stack whose top is replaced.                                          *)
LEMMA Replaced ==
  ASSUME NEW s \in Seq(Entry), s # << >>, NEW e \in Entry
  PROVE  /\ Append(Front(s), e) \in Seq(Entry) /\ Len(Append(Front(s), e)) = Len(s)
         /\ Append(Front(s), e) # << >> /\ Append(Front(s), e)[Len(s)] = e
         /\ \A k \in 1..Len(s)-1 : Append(Front(s), e)[k] = s[k]
<1>1. /\ Front(s) \in Seq(Entry) /\ Len(Front(s)) = Len(s) - 1 /\ Len(s) \in Nat
      /\ \A k \in 1..Len(s)-1 : Front(s)[k] = s[k]
  BY Popped
<1>2. Len(s) - 1 + 1 = Len(s)
  BY <1>1
<1> QED BY <1>1, <1>2, Pushed

-----------------------------------------------------------------------------
(* What replacing the top, pushing and popping do to the two parts.        *)
LEMMA LinkedReplaced ==
  ASSUME NEW A, NEW D, NEW E, D \subseteq E,
         NEW s \in Seq(Entry), s # << >>, Linked(A, s, D),
         NEW e \in Entry, e.of = Last(s).of, PointingIn(A, e)
  PROVE  Linked(A, Append(Front(s), e), E)
<1> DEFINE n == Len(s)
           z == Append(Front(s), e)
<1>1. /\ n \in Nat \ {0} /\ Len(z) = n /\ z[n] = e /\ e.of = s[n].of
      /\ \A k \in 1..n-1 : z[k] = s[k]
  BY Popped, Replaced
<1> HIDE DEF n, z
<1>2. \A k \in 1..n : z[k].of = s[k].of
  BY <1>1
<1>3. \A k \in 1..n : s[k].of \in D /\ PointingIn(A, s[k])
  BY DEF Linked, n
<1>4. \A k \in 1..n : z[k].of \in E /\ PointingIn(A, z[k])
  BY <1>1, <1>2, <1>3
<1>5. ASSUME NEW k \in 1..n
      PROVE  /\ \A j \in 1..k-1 : z[j].of # z[k].of
             /\ k > 1 => z[k-1].symbols # {} /\ IsLeast(z[k].of, z[k-1].targets)
  <2>1. /\ \A j \in 1..k-1 : s[j].of # s[k].of
        /\ k > 1 => s[k-1].symbols # {} /\ IsLeast(s[k].of, s[k-1].targets)
    BY <1>5 DEF Linked, n
  <2>2. \A j \in 1..k-1 : j \in 1..n-1 /\ j \in 1..n
    BY <1>1
  <2>3. k > 1 => k-1 \in 1..n-1
    BY <1>1
  <2> QED BY <1>1, <1>2, <2>1, <2>2, <2>3
<1>6. z[1].of \in A.initial
  <2>1. 1 \in 1..n /\ s[1].of \in A.initial
    BY <1>1 DEF Linked
  <2> QED BY <2>1, <1>2
<1>7. Linked(A, z, E)
  BY <1>1, <1>4, <1>5, <1>6 DEF Linked
<1> QED BY <1>7 DEF z

(* Moving the iterators of the top entry on forgets no target.             *)
LEMMA ExpandedReplaced ==
  ASSUME NEW A, NEW D, NEW E, D \subseteq E,
         NEW s \in Seq(Entry), s # << >>, Expanded(A, s, D),
         NEW e \in Entry, e.of = Last(s).of,
         \A q \in E \ D, a \in Symbol : A.delta[q][a] \subseteq E,
         \A a \in Symbol : \A r \in A.delta[e.of][a] \ E :
           Ahead(Last(s), a, r) => Ahead(e, a, r)
  PROVE  Expanded(A, Append(Front(s), e), E)
<1> DEFINE n == Len(s)
           z == Append(Front(s), e)
<1>1. /\ n \in Nat \ {0} /\ Len(z) = n /\ z[n] = e /\ Last(s) = s[n]
      /\ \A k \in 1..n-1 : z[k] = s[k]
  BY Popped, Replaced
<1> SUFFICES ASSUME NEW q \in E, NEW a \in Symbol, NEW r \in A.delta[q][a] \ E
             PROVE  \E k \in 1..n : z[k].of = q /\ Ahead(z[k], a, r)
  BY <1>1 DEF Expanded
<1>2. q \in D /\ r \in A.delta[q][a] \ D
  OBVIOUS
<1>3. PICK k \in 1..n : s[k].of = q /\ Ahead(s[k], a, r)
  BY <1>2 DEF Expanded
<1>4. CASE k = n
  BY <1>1, <1>3, <1>4
<1>5. CASE k # n
  <2>1. k \in 1..n-1
    BY <1>1, <1>5
  <2> QED BY <1>1, <1>3, <2>1
<1> QED BY <1>4, <1>5

(* A target of the top entry goes on the stack.                            *)
LEMMA PushedOn ==
  ASSUME NEW A, NEW D, NEW t, t \notin D,
         NEW s \in Seq(Entry), s # << >>, Linked(A, s, D), Expanded(A, s, D),
         Last(s).symbols # {}, IsLeast(t, Last(s).targets),
         NEW e \in Entry, e.of = t, PointingIn(A, e),
         \A a \in Symbol : \A r \in A.delta[t][a] : Ahead(e, a, r)
  PROVE  /\ Linked(A, Append(s, e), D \cup {t})
         /\ Expanded(A, Append(s, e), D \cup {t})
<1> DEFINE n == Len(s)
           z == Append(s, e)
<1>1. /\ n \in Nat \ {0} /\ Len(z) = n + 1 /\ z[n+1] = e /\ Last(s) = s[n]
      /\ \A k \in 1..n : z[k] = s[k]
  BY Popped, Pushed
<1>2. \A k \in 1..n : s[k].of \in D /\ s[k].of # t
  BY DEF Linked
<1> HIDE DEF n, z
<1>3. ASSUME NEW k \in 1..n+1
      PROVE  /\ z[k].of \in D \cup {t} /\ PointingIn(A, z[k])
             /\ \A j \in 1..k-1 : z[j].of # z[k].of
             /\ k > 1 => z[k-1].symbols # {} /\ IsLeast(z[k].of, z[k-1].targets)
  <2>1. CASE k = n+1
    <3>1. k-1 = n /\ n \in 1..n /\ z[k] = e /\ z[n] = s[n]
      BY <1>1, <2>1
    <3> QED BY <1>1, <1>2, <3>1
  <2>2. CASE k # n+1
    <3>1. k \in 1..n /\ z[k] = s[k] /\ \A j \in 1..k-1 : j \in 1..n
      BY <1>1, <2>2
    <3>2. k > 1 => k-1 \in 1..n
      BY <1>1, <2>2
    <3>3. /\ s[k].of \in D /\ PointingIn(A, s[k])
          /\ \A j \in 1..k-1 : s[j].of # s[k].of
          /\ k > 1 => s[k-1].symbols # {} /\ IsLeast(s[k].of, s[k-1].targets)
      BY <3>1 DEF Linked, n
    <3> QED BY <1>1, <3>1, <3>2, <3>3
  <2> QED BY <2>1, <2>2
<1>4. z[1].of \in A.initial
  <2>1. 1 \in 1..n /\ s[1].of \in A.initial
    BY <1>1 DEF Linked
  <2> QED BY <2>1, <1>1
<1>5. Linked(A, z, D \cup {t})
  BY <1>1, <1>3, <1>4 DEF Linked
<1>6. ASSUME NEW q \in D \cup {t}, NEW a \in Symbol, NEW r \in A.delta[q][a] \ (D \cup {t})
      PROVE  \E k \in 1..n+1 : z[k].of = q /\ Ahead(z[k], a, r)
  <2>1. CASE q = t
    <3>1. n+1 \in 1..n+1
      BY <1>1
    <3> QED BY <1>1, <2>1, <3>1, <1>6
  <2>2. CASE q # t
    <3>1. PICK k \in 1..n : s[k].of = q /\ Ahead(s[k], a, r)
      BY <2>2, <1>6 DEF Expanded, n
    <3>2. k \in 1..n+1
      BY <1>1
    <3> QED BY <1>1, <3>1, <3>2
  <2> QED BY <2>1, <2>2
<1>7. Expanded(A, z, D \cup {t})
  BY <1>1, <1>6 DEF Expanded
<1> QED BY <1>5, <1>7 DEF z

(* An entry without symbols left goes off the stack.                       *)
LEMMA PoppedOff ==
  ASSUME NEW A, NEW D, NEW s \in Seq(Entry), s # << >>,
         Linked(A, s, D), Expanded(A, s, D), Last(s).symbols = {}
  PROVE  Linked(A, Front(s), D) /\ Expanded(A, Front(s), D)
<1> DEFINE n == Len(s)
           z == Front(s)
<1>1. /\ n \in Nat \ {0} /\ z \in Seq(Entry) /\ Len(z) = n - 1 /\ Last(s) = s[n]
      /\ \A k \in 1..n-1 : z[k] = s[k]
  BY Popped
<1> HIDE DEF n, z
<1>2. ASSUME NEW k \in 1..n-1
      PROVE  /\ z[k].of \in D /\ PointingIn(A, z[k])
             /\ \A j \in 1..k-1 : z[j].of # z[k].of
             /\ k > 1 => z[k-1].symbols # {} /\ IsLeast(z[k].of, z[k-1].targets)
  <2>1. k \in 1..n /\ z[k] = s[k] /\ \A j \in 1..k-1 : j \in 1..n-1
    BY <1>1
  <2>2. k > 1 => k-1 \in 1..n-1
    BY <1>1
  <2>3. /\ s[k].of \in D /\ PointingIn(A, s[k])
        /\ \A j \in 1..k-1 : s[j].of # s[k].of
        /\ k > 1 => s[k-1].symbols # {} /\ IsLeast(s[k].of, s[k-1].targets)
    BY <2>1 DEF Linked, n
  <2> QED BY <1>1, <2>1, <2>2, <2>3
<1>3. ASSUME z # << >> PROVE z[1].of \in A.initial
  <2>1. Len(z) # 0
    BY <1>1, <1>3, EmptySeq
  <2>2. 1 \in 1..n-1
    BY <1>1, <2>1
  <2> QED BY <1>1, <2>2 DEF Linked
<1>4. Linked(A, z, D)
  BY <1>1, <1>2, <1>3 DEF Linked
<1>5. ASSUME NEW q \in D, NEW a \in Symbol, NEW r \in A.delta[q][a] \ D
      PROVE  \E k \in 1..n-1 : z[k].of = q /\ Ahead(z[k], a, r)
  <2>1. PICK k \in 1..n : s[k].of = q /\ Ahead(s[k], a, r)
    BY DEF Expanded, n
  <2>2. k # n
    BY <1>1, <2>1 DEF Ahead, IsLeast
  <2>3. k \in 1..n-1
    BY <1>1, <2>2
  <2> QED BY <1>1, <2>1, <2>3
<1>6. Expanded(A, z, D)
  BY <1>1, <1>5 DEF Expanded
<1> QED BY <1>4, <1>6 DEF z

-----------------------------------------------------------------------------
(* What the invariant says of the parts of the search.                     *)
LEMMA Parts ==
  ASSUME IInv
  PROVE  /\ aut.initial \subseteq State /\ aut.final \subseteq State
         /\ \A q \in State, a \in Symbol : aut.delta[q][a] \subseteq State
         /\ State \subseteq Nat /\ Symbol \subseteq Nat
         /\ worklist \in Seq(Entry) /\ searched \subseteq State
         /\ Linked(aut, worklist, searched) /\ Expanded(aut, worklist, searched)
BY InputsAssumption DEF IInv, TypeOK, AutomataOver

(* The top of the stack.                                                   *)
LEMMA TopOf ==
  ASSUME IInv, worklist # << >>
  PROVE  /\ top \in Entry /\ top.of \in searched /\ PointingIn(aut, top)
         /\ top.of \in State /\ top.symbols \subseteq Symbol /\ top.targets \subseteq State
<1>1. Len(worklist) \in Nat \ {0} /\ top = worklist[Len(worklist)] /\ top \in Entry
  BY Parts, Popped DEF top
<1>2. Len(worklist) \in 1..Len(worklist)
  BY <1>1
<1>3. top.of \in searched /\ PointingIn(aut, top)
  BY <1>1, <1>2, Parts DEF Linked
<1> QED BY <1>1, <1>3 DEF Entry

(* A step within the search from one initial state.                        *)
LEMMA Searching ==
  ASSUME IInv, pc = "search", pc' = "search", aut' = aut, todo' = todo,
         overrun' \in BOOLEAN, worklist' \in Seq(Entry), searched' \subseteq State,
         searched \subseteq searched', searched' \cap aut.final = {},
         Linked(aut, worklist', searched'), Expanded(aut, worklist', searched')
  PROVE  IInv'
<1>1. TypeOK'
  BY DEF IInv, TypeOK
<1>2. Control'
  BY DEF IInv, Control
<1>3. Answered'
  BY DEF Answered
<1> QED BY <1>1, <1>2, <1>3 DEF IInv

-----------------------------------------------------------------------------
(* The search starts in order.                                             *)
LEMMA InitHolds == Init => IInv
<1> SUFFICES ASSUME Init PROVE IInv
  OBVIOUS
<1>1. aut \in AutomataOver(State, Symbol) /\ worklist = << >> /\ searched = {}
      /\ todo = aut.initial /\ overrun = FALSE
  BY InputsAssumption DEF Init
<1>2. pc = IF aut.initial = {} \/ aut.final = {} THEN "none"
           ELSE IF aut.initial \cap aut.final # {} THEN "found" ELSE "initial"
  BY DEF Init
<1>3. TypeOK
  <2>1. worklist \in Seq(Entry)
    BY <1>1
  <2>2. pc \in {"initial", "search", "found", "none"}
    BY <1>2
  <2> QED BY <1>1, <2>1, <2>2 DEF TypeOK
<1>4. Linked(aut, worklist, searched) /\ Expanded(aut, worklist, searched)
  <2>1. Len(worklist) = 0
    BY <1>1
  <2> QED BY <1>1, <2>1 DEF Linked, Expanded
<1>5. Control
  BY <1>1, <1>2 DEF Control
<1>6. Answered
  <2>1. aut.initial \subseteq State /\ aut.final \subseteq State
        /\ \A q \in State, a \in Symbol : aut.delta[q][a] \subseteq State
    BY <1>1 DEF AutomataOver
  <2>2. CASE aut.initial = {}
    <3>1. Separates({}) /\ pc = "none"
      BY <1>2, <2>2 DEF Separates
    <3> QED BY <3>1 DEF Answered
  <2>3. CASE aut.initial # {} /\ aut.final = {}
    <3>1. Separates(State) /\ pc = "none"
      BY <1>2, <2>1, <2>3 DEF Separates
    <3> QED BY <3>1 DEF Answered
  <2>4. CASE aut.initial # {} /\ aut.final # {}
    BY <1>1, <1>2, <2>4 DEF Answered
  <2> QED BY <2>2, <2>3, <2>4
<1> QED BY <1>3, <1>4, <1>5, <1>6 DEF IInv

(* Skipping an initial state preserves the invariant.                      *)
LEMMA SkipInitialHolds == IInv /\ SkipInitial => IInv'
<1> SUFFICES ASSUME IInv, SkipInitial PROVE IInv'
  OBVIOUS
<1>1. TypeOK'
  BY DEF IInv, TypeOK, SkipInitial
<1>2. Control'
  BY DEF IInv, Control, SkipInitial
<1>3. Answered'
  BY DEF Answered, SkipInitial
<1>4. Linked(aut, worklist, searched)' /\ Expanded(aut, worklist, searched)'
  BY DEF IInv, SkipInitial
<1> QED BY <1>1, <1>2, <1>3, <1>4 DEF IInv

(* Skipping a target preserves the invariant.                              *)
LEMMA SkipTargetHolds == IInv /\ SkipTarget => IInv'
<1> SUFFICES ASSUME IInv, SkipTarget PROVE IInv'
  OBVIOUS
<1>1. PICK t \in searched : AtTarget(t) /\ worklist' = WithTop(Passed(top, t))
  BY DEF SkipTarget
<1>2. pc = "search" /\ worklist # << >> /\ IsLeast(t, top.targets)
  BY <1>1 DEF AtTarget
<1> DEFINE e == Passed(top, t)
<1>3. e \in Entry /\ e.of = top.of /\ e.symbols = top.symbols /\ e.targets = top.targets \ {t}
  BY <1>2, TopOf DEF Passed, Entry
<1>4. worklist' = Append(Front(worklist), e) /\ worklist' \in Seq(Entry)
  BY <1>1, <1>2, <1>3, Parts, Replaced DEF WithTop
<1>5. PointingIn(aut, e)
  BY <1>2, <1>3, TopOf DEF PointingIn
<1>6. \A a \in Symbol : \A r \in aut.delta[e.of][a] \ searched :
        Ahead(top, a, r) => Ahead(e, a, r)
  BY <1>3 DEF Ahead
<1> HIDE DEF e
<1>7. Linked(aut, worklist', searched) /\ Expanded(aut, worklist', searched)
  BY <1>2, <1>3, <1>4, <1>5, <1>6, Parts, LinkedReplaced, ExpandedReplaced DEF top
<1> QED BY <1>2, <1>4, <1>7, Parts, Searching DEF SkipTarget, IInv, Control, TypeOK

(* Finding a final state preserves the invariant.                          *)
LEMMA FoundHolds == IInv /\ Found => IInv'
<1> SUFFICES ASSUME IInv, Found PROVE IInv'
  OBVIOUS
<1>1. PICK t \in aut.final \ searched : AtTarget(t)
  BY DEF Found
<1>2. worklist # << >> /\ top.symbols # {} /\ IsLeast(t, top.targets)
  BY <1>1 DEF AtTarget
<1>3. aut' = aut /\ todo' = todo /\ worklist' = worklist /\ searched' = searched
      /\ overrun' = overrun /\ pc' = "found"
  BY DEF Found
<1>4. TypeOK'
  BY <1>3 DEF IInv, TypeOK
<1>5. Control'
  BY <1>3 DEF IInv, Control
<1>6. Answered'
  BY <1>1, <1>2, <1>3 DEF Answered, top
<1> QED BY <1>3, <1>4, <1>5, <1>6 DEF IInv

(* Going to a new target preserves the invariant.                          *)
LEMMA DescendHolds == IInv /\ Descend => IInv'
<1> SUFFICES ASSUME IInv, Descend PROVE IInv'
  OBVIOUS
<1>1. PICK t \in State \ (searched \cup aut.final) :
        /\ AtTarget(t) /\ searched' = searched \cup {t}
        /\ \/ SymbolsOf(t) = {} /\ worklist' = WithTop(Passed(top, t))
           \/ \E a \in Symbol :
                /\ IsLeast(a, SymbolsOf(t))
                /\ worklist' = Append(worklist, At(t, SymbolsOf(t), a))
  BY DEF Descend
<1>2. pc = "search" /\ worklist # << >> /\ top.symbols # {} /\ IsLeast(t, top.targets)
  BY <1>1 DEF AtTarget
<1>3. SymbolsOf(t) \subseteq Symbol
      /\ \A a \in Symbol : a \in SymbolsOf(t) <=> aut.delta[t][a] # {}
  BY DEF SymbolsOf
<1>4. Linked(aut, worklist', searched') /\ Expanded(aut, worklist', searched')
      /\ worklist' \in Seq(Entry)
  <2>1. CASE SymbolsOf(t) = {} /\ worklist' = WithTop(Passed(top, t))
    <3> DEFINE e == Passed(top, t)
    <3>1. e \in Entry /\ e.of = top.of /\ e.symbols = top.symbols
          /\ e.targets = top.targets \ {t}
      BY <1>2, TopOf DEF Passed, Entry
    <3>2. worklist' = Append(Front(worklist), e) /\ worklist' \in Seq(Entry)
      BY <2>1, <1>2, <3>1, Parts, Replaced DEF WithTop
    <3>3. PointingIn(aut, e)
      BY <1>2, <3>1, TopOf DEF PointingIn
    <3>4. \A a \in Symbol : \A r \in aut.delta[e.of][a] \ searched' :
            Ahead(top, a, r) => Ahead(e, a, r)
      BY <1>1, <3>1 DEF Ahead
    <3>5. \A q \in searched' \ searched, a \in Symbol : aut.delta[q][a] \subseteq searched'
      BY <1>1, <1>3, <2>1
    <3> HIDE DEF e
    <3>6. searched \subseteq searched'
      BY <1>1
    <3>7. Linked(aut, worklist', searched')
      BY <1>2, <3>1, <3>2, <3>3, <3>6, Parts, LinkedReplaced DEF top
    <3>8. Expanded(aut, worklist', searched')
      BY <1>2, <3>1, <3>2, <3>4, <3>5, <3>6, Parts, ExpandedReplaced DEF top
    <3> QED BY <3>2, <3>7, <3>8
  <2>2. ASSUME NEW a \in Symbol, IsLeast(a, SymbolsOf(t)),
               worklist' = Append(worklist, At(t, SymbolsOf(t), a))
        PROVE  /\ Linked(aut, worklist', searched') /\ Expanded(aut, worklist', searched')
               /\ worklist' \in Seq(Entry)
    <3> DEFINE e == At(t, SymbolsOf(t), a)
    <3>1. e \in Entry /\ e.of = t /\ e.symbols = SymbolsOf(t) /\ e.targets = aut.delta[t][a]
      BY <1>3, Parts DEF At, Entry
    <3>2. \A x \in Symbol : IsLeast(x, e.symbols) => x = a
      BY <1>3, <2>2, <3>1, Parts, LeastUnique
    <3>3. PointingIn(aut, e)
      BY <2>2, <3>1, <3>2 DEF PointingIn, IsLeast
    <3>4. \A x \in Symbol : \A r \in aut.delta[t][x] : Ahead(e, x, r)
      <4> SUFFICES ASSUME NEW x \in Symbol, NEW r \in aut.delta[t][x] PROVE Ahead(e, x, r)
        OBVIOUS
      <4>1. x \in e.symbols
        BY <1>3, <3>1
      <4> QED BY <2>2, <3>1, <3>2, <4>1 DEF Ahead
    <3> HIDE DEF e
    <3>5. worklist' = Append(worklist, e)
      BY <2>2 DEF e
    <3>6. Last(worklist).symbols # {} /\ IsLeast(t, Last(worklist).targets) /\ t \notin searched
      BY <1>1, <1>2 DEF top
    <3>7. Linked(aut, worklist', searched') /\ Expanded(aut, worklist', searched')
      BY <1>1, <1>2, <3>1, <3>3, <3>4, <3>5, <3>6, Parts, PushedOn
    <3>8. worklist' \in Seq(Entry)
      BY <3>1, <3>5, Parts, Pushed
    <3> QED BY <3>7, <3>8
  <2> QED BY <1>1, <2>1, <2>2
<1>5. searched \subseteq searched' /\ searched' \subseteq State /\ searched' \cap aut.final = {}
  BY <1>1, Parts DEF IInv, Control
<1>6. overrun' \in BOOLEAN /\ pc' = pc /\ aut' = aut /\ todo' = todo
  BY DEF Descend, IInv, TypeOK
<1> QED BY <1>2, <1>4, <1>5, <1>6, Searching

(* Going on to the next symbol preserves the invariant.                    *)
LEMMA NextSymbolHolds == IInv /\ NextSymbol => IInv'
<1> SUFFICES ASSUME IInv, NextSymbol PROVE IInv'
  OBVIOUS
<1>1. pc = "search" /\ worklist # << >> /\ top.symbols # {} /\ top.targets = {}
  BY DEF NextSymbol
<1>2. PICK a \in top.symbols :
        /\ IsLeast(a, top.symbols)
        /\ \/ /\ top.symbols \ {a} = {}
              /\ worklist' = WithTop([top EXCEPT !.symbols = top.symbols \ {a}])
           \/ \E b \in top.symbols \ {a} :
                /\ IsLeast(b, top.symbols \ {a})
                /\ worklist' = WithTop(At(top.of, top.symbols \ {a}, b))
  BY DEF NextSymbol
<1> DEFINE rest == top.symbols \ {a}
<1>3. PICK e \in Entry :
        /\ worklist' = Append(Front(worklist), e)
        /\ e.of = top.of /\ e.symbols = rest /\ PointingIn(aut, e)
        /\ \A x \in Symbol : IsLeast(x, rest) => e.targets = aut.delta[top.of][x]
  <2>1. CASE rest = {} /\ worklist' = WithTop([top EXCEPT !.symbols = rest])
    <3> DEFINE f == [top EXCEPT !.symbols = rest]
    <3>1. f \in Entry /\ f.of = top.of /\ f.symbols = rest
      BY <1>1, TopOf DEF Entry
    <3>2. \A x \in Symbol : ~IsLeast(x, rest)
      BY <2>1 DEF IsLeast
    <3>3. PointingIn(aut, f)
      BY <2>1, <3>1, <3>2 DEF PointingIn
    <3>4. worklist' = Append(Front(worklist), f)
      BY <2>1 DEF WithTop
    <3> QED BY <3>1, <3>2, <3>3, <3>4
  <2>2. ASSUME NEW b \in rest, IsLeast(b, rest), worklist' = WithTop(At(top.of, rest, b))
        PROVE  \E e \in Entry :
                 /\ worklist' = Append(Front(worklist), e)
                 /\ e.of = top.of /\ e.symbols = rest /\ PointingIn(aut, e)
                 /\ \A x \in Symbol : IsLeast(x, rest) => e.targets = aut.delta[top.of][x]
    <3> DEFINE f == At(top.of, rest, b)
    <3>1. rest \in SUBSET Nat /\ rest \subseteq Symbol /\ b \in Symbol
      BY <1>1, TopOf, Parts
    <3>2. f \in Entry /\ f.of = top.of /\ f.symbols = rest /\ f.targets = aut.delta[top.of][b]
      BY <1>1, <3>1, TopOf, Parts DEF At, Entry
    <3>3. \A x \in Symbol : IsLeast(x, rest) => x = b
      BY <2>2, <3>1, LeastUnique
    <3>4. PointingIn(aut, f)
      BY <2>2, <3>2, <3>3 DEF PointingIn
    <3>5. worklist' = Append(Front(worklist), f)
      BY <2>2 DEF WithTop
    <3> HIDE DEF f
    <3> QED BY <3>2, <3>3, <3>4, <3>5
  <2> QED BY <1>2, <2>1, <2>2
<1>4. \A x \in Symbol : \A r \in aut.delta[e.of][x] \ searched :
        Ahead(top, x, r) => Ahead(e, x, r)
  <2> SUFFICES ASSUME NEW x \in Symbol, NEW r \in aut.delta[e.of][x], Ahead(top, x, r)
               PROVE  Ahead(e, x, r)
    OBVIOUS
  <2>1. x \in top.symbols /\ ~IsLeast(x, top.symbols)
    BY <1>1 DEF Ahead
  <2>2. x \in rest
    BY <1>2, <2>1
  <2> QED BY <1>3, <2>2 DEF Ahead
<1> HIDE DEF rest
<1>5. worklist' \in Seq(Entry)
  BY <1>1, <1>3, Parts, Replaced
<1>6. Linked(aut, worklist', searched) /\ Expanded(aut, worklist', searched)
  BY <1>1, <1>3, <1>4, Parts, LinkedReplaced, ExpandedReplaced DEF top
<1> QED BY <1>1, <1>5, <1>6, Parts, Searching DEF NextSymbol, IInv, Control, TypeOK

(* Leaving an initial state preserves the invariant.                       *)
LEMMA PopFirstHolds == IInv /\ PopFirst => IInv'
<1> SUFFICES ASSUME IInv, PopFirst PROVE IInv'
  OBVIOUS
<1>1. pc = "search" /\ Len(worklist) = 1 /\ top.symbols = {} /\ worklist' = << >>
      /\ overrun' = TRUE
  BY DEF PopFirst
<1>2. worklist # << >>
  BY <1>1
<1>3. Front(worklist) = << >>
  BY <1>1, <1>2, Parts, Popped, EmptySeq
<1>4. Linked(aut, worklist', searched) /\ Expanded(aut, worklist', searched)
  BY <1>1, <1>2, <1>3, Parts, PoppedOff DEF top
<1>5. worklist' \in Seq(Entry)
  BY <1>1
<1> QED BY <1>1, <1>4, <1>5, Parts, Searching DEF PopFirst, IInv, Control

(* Leaving a state preserves the invariant.                                *)
LEMMA PopEntryHolds == IInv /\ PopEntry => IInv'
<1> SUFFICES ASSUME IInv, PopEntry PROVE IInv'
  OBVIOUS
<1> DEFINE n == Len(worklist)
           rest == Front(worklist)
           under == Last(rest)
<1>1. pc = "search" /\ n > 1 /\ top.symbols = {}
  BY DEF PopEntry
<1>2. PICK t \in State : /\ IsLeast(t, under.targets)
                        /\ worklist' = Append(Front(rest), Passed(under, t))
  BY DEF PopEntry
<1>3. worklist # << >>
  BY <1>1
<1>4. /\ n \in Nat /\ rest \in Seq(Entry) /\ Len(rest) = n - 1
      /\ \A k \in 1..n-1 : rest[k] = worklist[k]
  BY <1>3, Parts, Popped
<1>5. rest # << >>
  BY <1>1, <1>4
<1>6. under \in Entry /\ under = rest[n-1]
  BY <1>4, <1>5, Popped
<1>7. under = worklist[n-1] /\ n-1 \in 1..n /\ n \in 1..n
  BY <1>1, <1>4, <1>6
<1>8. Linked(aut, rest, searched) /\ Expanded(aut, rest, searched)
  BY <1>1, <1>3, Parts, PoppedOff DEF top
<1>9. t \in searched
  <2>1. IsLeast(worklist[n].of, under.targets) /\ worklist[n].of \in searched
    BY <1>1, <1>7, Parts DEF Linked
  <2>2. under.targets \in SUBSET Nat
    BY <1>6, Parts DEF Entry
  <2> QED BY <1>2, <2>1, <2>2, LeastUnique
<1>10. PointingIn(aut, under)
  <2>1. n-1 \in 1..Len(rest)
    BY <1>1, <1>4
  <2> QED BY <1>6, <1>8, <2>1 DEF Linked
<1> DEFINE e == Passed(under, t)
<1> HIDE DEF n, rest, under
<1>11. e \in Entry /\ e.of = under.of /\ e.symbols = under.symbols
       /\ e.targets = under.targets \ {t}
  BY <1>6 DEF Passed, Entry
<1>12. PointingIn(aut, e)
  BY <1>10, <1>11 DEF PointingIn
<1>13. \A a \in Symbol : \A r \in aut.delta[e.of][a] \ searched :
         Ahead(under, a, r) => Ahead(e, a, r)
  BY <1>9, <1>11 DEF Ahead
<1>14. worklist' = Append(Front(rest), e)
  BY <1>2
<1> HIDE DEF e
<1>15. worklist' \in Seq(Entry)
  BY <1>4, <1>5, <1>11, <1>14, Replaced
<1>16. Linked(aut, worklist', searched)
  BY <1>4, <1>5, <1>8, <1>11, <1>12, <1>14, LinkedReplaced DEF under
<1>17. Expanded(aut, worklist', searched)
  BY <1>4, <1>5, <1>8, <1>11, <1>13, <1>14, ExpandedReplaced DEF under
<1> QED BY <1>1, <1>15, <1>16, <1>17, Parts, Searching DEF PopEntry, IInv, Control, TypeOK

(* Going on to the next initial state preserves the invariant.             *)
LEMMA NextInitialHolds == IInv /\ NextInitial => IInv'
<1> SUFFICES ASSUME IInv, NextInitial PROVE IInv'
  OBVIOUS
<1>1. TypeOK'
  BY DEF IInv, TypeOK, NextInitial
<1>2. Control' /\ Answered'
  BY DEF IInv, Control, Answered, NextInitial
<1>3. Linked(aut, worklist, searched)' /\ Expanded(aut, worklist, searched)'
  BY DEF IInv, NextInitial
<1> QED BY <1>1, <1>2, <1>3 DEF IInv

(* Ending without a word preserves the invariant.                          *)
LEMMA GiveUpHolds == IInv /\ GiveUp => IInv'
<1> SUFFICES ASSUME IInv, GiveUp PROVE IInv'
  OBVIOUS
<1>1. aut' = aut /\ todo' = todo /\ worklist' = worklist /\ searched' = searched
      /\ overrun' = overrun /\ pc' = "none" /\ pc = "initial" /\ todo = {}
  BY DEF GiveUp
<1>2. worklist = << >>
  BY <1>1 DEF IInv, TypeOK
<1>3. \A q \in searched, a \in Symbol : aut.delta[q][a] \subseteq searched
  <2>1. Len(worklist) = 0
    BY <1>2
  <2> QED BY <2>1, Parts DEF Expanded
<1>4. Separates(searched)
  BY <1>1, <1>3 DEF Separates, IInv, Control
<1>5. TypeOK' /\ Control'
  BY <1>1 DEF IInv, TypeOK, Control
<1>6. Answered'
  BY <1>1, <1>4, Parts DEF Answered, Separates
<1> QED BY <1>1, <1>5, <1>6 DEF IInv

(* Starting from an initial state preserves the invariant.                 *)
LEMMA TakeInitialHolds == IInv /\ TakeInitial => IInv'
<1> SUFFICES ASSUME IInv, TakeInitial PROVE IInv'
  OBVIOUS
<1>1. PICK q \in todo \ searched :
        LET marked == searched \cup {q}
            open == {a \in Symbol : ~(aut.delta[q][a] \subseteq marked)}
        IN  /\ todo' = todo \ {q} /\ searched' = marked
            /\ \/ open = {} /\ worklist' = << >>
               \/ \E a \in Symbol, t \in State :
                    /\ IsLeast(a, open) /\ IsLeast(t, aut.delta[q][a] \ marked)
                    /\ worklist' = <<[of |-> q,
                                      symbols |-> {b \in SymbolsOf(q) : b >= a},
                                      targets |-> {r \in aut.delta[q][a] : r >= t}]>>
  BY DEF TakeInitial
<1> DEFINE marked == searched \cup {q}
           open == {a \in Symbol : ~(aut.delta[q][a] \subseteq marked)}
<1>2. pc = "initial" /\ pc' = "search" /\ aut' = aut /\ overrun' = overrun
      /\ todo' = todo \ {q} /\ searched' = marked
  BY <1>1 DEF TakeInitial
<1>3. worklist = << >> /\ todo \subseteq aut.initial /\ aut \in AutomataOver(State, Symbol)
      /\ overrun \in BOOLEAN
  BY <1>2 DEF IInv, TypeOK
<1>4. q \in State /\ q \in aut.initial /\ q \notin aut.final
  BY <1>2, <1>3, Parts DEF IInv, Control
<1>5. \A p \in searched, a \in Symbol : aut.delta[p][a] \subseteq searched
  <2>1. Len(worklist) = 0
    BY <1>3
  <2> QED BY <2>1, Parts DEF Expanded
<1>6. /\ worklist' \in Seq(Entry)
      /\ Linked(aut, worklist', marked) /\ Expanded(aut, worklist', marked)
  <2>1. CASE open = {} /\ worklist' = << >>
    <3>1. Len(worklist') = 0 /\ worklist' \in Seq(Entry)
      BY <2>1
    <3>2. Linked(aut, worklist', marked)
      BY <2>1, <3>1 DEF Linked
    <3>3. \A p \in marked, a \in Symbol : aut.delta[p][a] \subseteq marked
      BY <1>5, <2>1
    <3> QED BY <3>1, <3>2, <3>3 DEF Expanded
  <2>2. ASSUME NEW a \in Symbol, NEW t \in State, IsLeast(a, open),
               IsLeast(t, aut.delta[q][a] \ marked),
               worklist' = <<[of |-> q, symbols |-> {b \in SymbolsOf(q) : b >= a},
                              targets |-> {r \in aut.delta[q][a] : r >= t}]>>
        PROVE  /\ worklist' \in Seq(Entry)
               /\ Linked(aut, worklist', marked) /\ Expanded(aut, worklist', marked)
    <3> DEFINE e == [of |-> q, symbols |-> {b \in SymbolsOf(q) : b >= a},
                     targets |-> {r \in aut.delta[q][a] : r >= t}]
    <3>1. e \in Entry
      BY <1>4, Parts DEF Entry, SymbolsOf
    <3>2. e.of = q /\ e.symbols = {b \in SymbolsOf(q) : b >= a}
          /\ e.targets = {r \in aut.delta[q][a] : r >= t}
      OBVIOUS
    <3>3. worklist' = <<e>>
      BY <2>2
    <3> HIDE DEF e
    <3>4. worklist' \in Seq(Entry) /\ Len(worklist') = 1 /\ worklist'[1] = e
          /\ worklist' # << >>
      BY <3>1, <3>3
    <3>5. a \in e.symbols
      <4>1. aut.delta[q][a] # {} /\ a >= a
        BY <2>2, Parts DEF IsLeast
      <4> QED BY <3>2, <4>1 DEF SymbolsOf
    <3>6. IsLeast(a, e.symbols)
      BY <3>2, <3>5, Parts DEF IsLeast, SymbolsOf
    <3>7. \A x \in Symbol : IsLeast(x, e.symbols) => x = a
      <4>1. e.symbols \in SUBSET Nat
        BY <3>1, Parts DEF Entry
      <4> QED BY <3>6, <4>1, LeastUnique
    <3>8. PointingIn(aut, e)
      BY <3>2, <3>5, <3>6, <3>7 DEF PointingIn
    <3>9. Linked(aut, worklist', marked)
      BY <1>4, <3>2, <3>4, <3>8 DEF Linked
    <3>10. ASSUME NEW x \in Symbol, NEW r \in aut.delta[q][x] \ marked
           PROVE  Ahead(e, x, r)
      <4>1. x \in open /\ a <= x
        BY <2>2 DEF IsLeast
      <4>2. x \in e.symbols
        BY <3>2, <3>10, <4>1, Parts DEF SymbolsOf
      <4>3. CASE x = a
        <5>1. r \in aut.delta[q][a] \ marked
          BY <3>10, <4>3
        <5>2. t <= r /\ r \in State
          BY <1>4, <2>2, <5>1, Parts DEF IsLeast
        <5>3. r >= t
          BY <5>2, Parts
        <5>4. r \in e.targets
          BY <3>2, <5>1, <5>3
        <5> QED BY <3>6, <4>3, <5>4 DEF Ahead
      <4>4. CASE x # a
        BY <3>7, <4>2, <4>4 DEF Ahead
      <4> QED BY <4>3, <4>4
    <3>11. Expanded(aut, worklist', marked)
      <4> SUFFICES ASSUME NEW p \in marked, NEW x \in Symbol,
                          NEW r \in aut.delta[p][x] \ marked
                   PROVE  \E k \in 1..Len(worklist') :
                            worklist'[k].of = p /\ Ahead(worklist'[k], x, r)
        BY DEF Expanded
      <4>1. p = q
        BY <1>5
      <4>2. Ahead(e, x, r)
        BY <3>10, <4>1
      <4>3. 1 \in 1..Len(worklist')
        BY <3>4
      <4> QED BY <3>2, <3>4, <4>1, <4>2, <4>3
    <3> QED BY <3>4, <3>9, <3>11
  <2> QED BY <1>1, <2>1, <2>2
<1>7. TypeOK'
  BY <1>2, <1>3, <1>4, <1>6, Parts DEF TypeOK
<1>8. Control'
  BY <1>2, <1>4 DEF IInv, Control
<1>9. Answered'
  BY <1>2 DEF Answered
<1> QED BY <1>2, <1>6, <1>7, <1>8, <1>9 DEF IInv

-----------------------------------------------------------------------------
(* What the steps preserve holds at every point of the search.             *)
LEMMA Invariant == Spec => []IInv
<1>1. IInv /\ [Next]_vars => IInv'
  <2> SUFFICES ASSUME IInv, [Next]_vars PROVE IInv'
    OBVIOUS
  <2>1. CASE UNCHANGED vars
    <3>1. TypeOK' /\ Control' /\ Answered'
      BY <2>1 DEF vars, IInv, TypeOK, Control, Answered, Separates, top
    <3>2. Linked(aut, worklist, searched)' /\ Expanded(aut, worklist, searched)'
      BY <2>1 DEF vars, IInv
    <3> QED BY <3>1, <3>2 DEF IInv
  <2> QED BY <2>1, SkipInitialHolds, TakeInitialHolds, SkipTargetHolds, FoundHolds,
             DescendHolds, NextSymbolHolds, PopFirstHolds, PopEntryHolds,
             NextInitialHolds, GiveUpHolds DEF Next
<1> QED BY <1>1, InitHolds, PTL DEF Spec

(* What the run checks: get_word()'s stack is a path, and what has been    *)
(* searched has been expanded but for what the stack will still come to.   *)
THEOREM Invariance == Spec => []SearchSound
<1>1. IInv => SearchSound
  <2> SUFFICES ASSUME IInv PROVE SearchSound
    OBVIOUS
  <2>1. \A e : PointingIn(aut, e) => Pointing(e)
    BY DEF PointingIn, Pointing
  <2>2. PathLinked
    BY <2>1, Parts DEF PathLinked, Linked
  <2>3. SearchedExpanded
    BY Parts DEF SearchedExpanded, Expanded, IInv, Control
  <2> QED BY <2>2, <2>3 DEF SearchSound, IInv
<1> QED BY <1>1, Invariant, PTL

(* The entries on the stack and the target found are an accepting run.     *)
LEMMA RunFound ==
  ASSUME IInv, pc = "found"
  PROVE  \E run \in Seq(State) : AcceptingRun(aut, run, letters)
<1> DEFINE n == Len(worklist)
<1>1. Len(letters) = n /\ n \in Nat
  BY Parts, LenProperties DEF letters
<1>2. CASE worklist = << >>
  <2>1. PICK q \in aut.initial : q \in aut.final
    BY <1>2 DEF IInv, Answered
  <2>2. <<q>> \in Seq(State) /\ n = 0 /\ <<q>>[1] = q
    BY <1>2, Parts
  <2>3. AcceptingRun(aut, <<q>>, letters)
    BY <1>1, <2>1, <2>2 DEF AcceptingRun
  <2> QED BY <2>2, <2>3
<1>3. CASE worklist # << >>
  <2>1. PICK t \in aut.final : IsLeast(t, top.targets)
    BY <1>3 DEF IInv, Answered
  <2>2. n \in Nat \ {0} /\ top = worklist[n] /\ top.symbols # {}
    BY <1>3, Parts, Popped DEF IInv, Answered, top
  <2> DEFINE run == [k \in 1..n+1 |-> IF k = n+1 THEN t ELSE worklist[k].of]
  <2>3. \A k \in 1..n : worklist[k].of \in State
    BY Parts DEF Linked
  <2>4. t \in State
    BY <2>1, Parts
  <2>5. run \in Seq(State)
    BY <2>2, <2>3, <2>4
  <2>6. \A k \in 1..n : worklist[k].symbols # {} /\ run[k+1] \in worklist[k].targets
    <3> SUFFICES ASSUME NEW k \in 1..n
                 PROVE  worklist[k].symbols # {} /\ run[k+1] \in worklist[k].targets
      OBVIOUS
    <3>1. CASE k = n
      BY <2>1, <2>2, <3>1 DEF IsLeast
    <3>2. CASE k # n
      <4>1. k+1 \in 1..n /\ k+1 > 1 /\ (k+1)-1 = k /\ k+1 # n+1
        BY <2>2, <3>2
      <4>2. worklist[k].symbols # {} /\ IsLeast(worklist[k+1].of, worklist[k].targets)
        BY <4>1, Parts DEF Linked
      <4>3. run[k+1] = worklist[k+1].of
        BY <4>1
      <4> QED BY <4>2, <4>3 DEF IsLeast
    <3> QED BY <3>1, <3>2
  <2>7. \A k \in 1..n : run[k] = worklist[k].of
    BY <2>2
  <2>8. run[1] \in aut.initial /\ run[n+1] = t
    <3>1. 1 \in 1..n
      BY <2>2
    <3> QED BY <1>3, <2>2, <2>7, <3>1, Parts DEF Linked
  <2> HIDE DEF run
  <2>9. \A k \in 1..n : run[k+1] \in aut.delta[run[k]][letters[k]]
    <3> SUFFICES ASSUME NEW k \in 1..n PROVE run[k+1] \in aut.delta[run[k]][letters[k]]
      OBVIOUS
    <3>1. PointingIn(aut, worklist[k]) /\ worklist[k] \in Entry
      BY Parts, ElementOfSeq DEF Linked
    <3>2. letters[k] = CHOOSE a \in worklist[k].symbols : IsLeast(a, worklist[k].symbols)
      BY DEF letters
    <3>3. \E a \in worklist[k].symbols : IsLeast(a, worklist[k].symbols)
      BY <2>6, <3>1 DEF PointingIn
    <3>4. IsLeast(letters[k], worklist[k].symbols) /\ letters[k] \in worklist[k].symbols
      BY <3>2, <3>3
    <3>5. letters[k] \in Symbol
      BY <3>1, <3>4 DEF Entry
    <3>6. worklist[k].targets \subseteq aut.delta[worklist[k].of][letters[k]]
      BY <3>1, <3>4, <3>5 DEF PointingIn
    <3> QED BY <2>6, <2>7, <3>6
  <2>10. AcceptingRun(aut, run, letters)
    BY <1>1, <2>1, <2>8, <2>9 DEF AcceptingRun
  <2> QED BY <2>5, <2>10
<1> QED BY <1>2, <1>3

(* get_word() returns a word only if there is one: the letters it collects *)
(* label a run from an initial state to a final one.  It returns none only *)
(* if no final state can be reached.                                       *)
THEOREM AnswerJustified == Spec => []Justified
<1>1. IInv => Justified
  <2> SUFFICES ASSUME IInv PROVE Justified
    OBVIOUS
  <2>1. ASSUME pc = "found" PROVE \E run \in Seq(State) : AcceptingRun(aut, run, letters)
    BY <2>1, RunFound
  <2>2. pc = "none" => \E C \in SUBSET State : Separates(C)
    BY DEF IInv, Answered
  <2> QED BY <2>1, <2>2 DEF Justified
<1> QED BY <1>1, Invariant, PTL


-----------------------------------------------------------------------------
(* The letters are symbols, and no more of them than there are states.     *)
LEMMA LettersFew ==
  ASSUME IInv, pc = "found"
  PROVE  \E n \in 0..Cardinality(State) : letters \in [1..n -> Symbol]
<1> DEFINE n == Len(worklist)
<1>1. n \in Nat /\ Cardinality(State) \in Nat /\ IsFiniteSet(State)
  BY Parts, LenProperties, InputsAssumption, FS_CardinalityType
<1>2. /\ \A k \in 1..n : worklist[k].of \in State /\ worklist[k] \in Entry
      /\ \A k \in 1..n : \A j \in 1..k-1 : worklist[j].of # worklist[k].of
      /\ \A k \in 1..n : PointingIn(aut, worklist[k])
  BY Parts, ElementOfSeq DEF Linked
<1>3. \A k \in 1..n : worklist[k].symbols # {}
  <2> SUFFICES ASSUME NEW k \in 1..n PROVE worklist[k].symbols # {}
    OBVIOUS
  <2>1. CASE k = n
    <3>1. worklist # << >>
      BY Parts, LenProperties
    <3>2. top = worklist[n]
      BY <3>1, Parts, Popped DEF top
    <3> QED BY <2>1, <3>1, <3>2 DEF IInv, Answered
  <2>2. CASE k # n
    <3>1. k+1 \in 1..n /\ k+1 > 1 /\ (k+1)-1 = k
      BY <1>1, <2>2
    <3> QED BY <3>1, Parts DEF Linked
  <2> QED BY <2>1, <2>2
<1> HIDE DEF n
<1>4. letters = [k \in 1..n |->
                   CHOOSE a \in worklist[k].symbols : IsLeast(a, worklist[k].symbols)]
  BY DEF letters, n
<1>5. \A k \in 1..n : letters[k] \in Symbol
  <2> SUFFICES ASSUME NEW k \in 1..n PROVE letters[k] \in Symbol
    OBVIOUS
  <2>1. \E a \in worklist[k].symbols : IsLeast(a, worklist[k].symbols)
    BY <1>2, <1>3 DEF PointingIn
  <2>2. letters[k] \in worklist[k].symbols
    BY <1>4, <2>1
  <2> QED BY <1>2, <2>2 DEF Entry
<1>6. letters \in [1..n -> Symbol]
  BY <1>4, <1>5
<1>7. n <= Cardinality(State)
  <2> DEFINE f == [k \in 1..n |-> worklist[k].of]
  <2>1. f \in [1..n -> State]
    BY <1>2
  <2>2. \A j, k \in 1..n : f[j] = f[k] => j = k
    <3> SUFFICES ASSUME NEW j \in 1..n, NEW k \in 1..n, f[j] = f[k], j # k PROVE FALSE
      OBVIOUS
    <3>1. j \in 1..k-1 \/ k \in 1..j-1
      BY <1>1
    <3> QED BY <1>2, <3>1
  <2>3. f \in Injection(1..n, State)
    BY <2>1, <2>2 DEF Injection, IsInjective
  <2>4. Cardinality(1..n) <= Cardinality(State)
    BY ONLY <1>1, <2>3, FS_Injection
  <2>5. Cardinality(1..n) = n
    BY <1>1, FS_Interval
  <2> QED BY <2>4, <2>5
<1> QED BY <1>1, <1>6, <1>7

(* A set that no run leaves keeps the useful states apart from the final   *)
(* ones: there are none.                                                   *)
LEMMA NoneUseful ==
  ASSUME aut \in AutomataOver(State, Symbol), NEW C \in SUBSET State, Separates(C)
  PROVE  UsefulStates(aut) = {}
<1> DEFINE succ == AutSuccessors(aut)
<1>1. IsGraph(succ) /\ DOMAIN succ = State
  BY InputsAssumption, AutomatonGraph
<1>2. \A q \in C : succ[q] \subseteq C
  <2>1. \A q \in State : AutSuccessors(aut)[q] = UNION {aut.delta[q][a] : a \in Symbol}
    <3>1. IsFiniteSet(State)
      BY InputsAssumption
    <3> HIDE DEF succ
    <3> QED BY ONLY <3>1, aut \in AutomataOver(State, Symbol), AutomatonGraph, Zenon
  <2>2. \A q \in C, a \in Symbol : aut.delta[q][a] \subseteq C
    BY DEF Separates
  <2> QED BY <2>1, <2>2
<1> HIDE DEF succ
<1>3. aut.initial \in SUBSET State
  BY DEF Separates
<1>4. Closure(succ, aut.initial) \subseteq C
  BY <1>1, <1>2, <1>3, ClosureLeast DEF Separates
<1>5. ASSUME NEW p \in C PROVE Closure(succ, {p}) \cap aut.final = {}
  <2>1. {p} \in SUBSET State /\ {p} \subseteq C
    OBVIOUS
  <2>2. Closure(succ, {p}) \subseteq C
    BY <1>1, <1>2, <2>1, ClosureLeast
  <2> QED BY <2>2 DEF Separates
<1>6. CoClosure(succ, aut.final) \cap C = {}
  BY <1>5 DEF CoClosure
<1>7. UsefulStates(aut) = Closure(succ, aut.initial) \cap CoClosure(succ, aut.final)
  BY DEF UsefulStates, succ
<1> QED BY <1>4, <1>6, <1>7

(* get_word() answers with a word of the language, the symbols from        *)
(* first_epsilon on left out, and with none exactly if the language is     *)
(* empty.                                                                  *)
THEOREM Answers == Spec => []AnswerExact
<1>1. IInv => AnswerExact
  <2> SUFFICES ASSUME IInv PROVE AnswerExact
    OBVIOUS
  <2>0. aut \in AutomataOver(State, Symbol)
    BY DEF IInv, TypeOK
  <2>1. ASSUME pc = "none" PROVE UsefulStates(aut) = {}
    BY <2>0, <2>1, NoneUseful DEF IInv, Answered
  <2>2. ASSUME pc = "found"
        PROVE  \E w \in Words(Symbol, Cardinality(State)) :
                 Accepts(aut, w) /\ word = SelectSeq(w, LAMBDA a : a < first_epsilon)
    <3>1. PICK n \in 0..Cardinality(State) : letters \in [1..n -> Symbol]
      BY <2>2, LettersFew
    <3>2. letters \in Words(Symbol, Cardinality(State))
      BY <3>1 DEF Words
    <3>3. PICK run \in Seq(State) : AcceptingRun(aut, run, letters)
      BY <2>2, RunFound
    <3>4. n \in Nat /\ Len(letters) = n
      BY <3>1
    <3>5. aut.initial \in SUBSET State
      BY Parts
    <3>6. run[n+1] \in PostWord(aut, aut.initial, letters)
      <4>1. /\ run[1] \in aut.initial
            /\ \A k \in 1..n : run[k+1] \in aut.delta[run[k]][letters[k]]
        BY <3>3, <3>4 DEF AcceptingRun
      <4> QED BY ONLY <2>0, <3>1, <3>4, <3>5, <4>1, RunFollowsWord
    <3>7. Accepts(aut, letters)
      BY <3>3, <3>4, <3>6 DEF AcceptingRun, Accepts
    <3> QED BY <3>2, <3>7 DEF word
  <2> QED BY <2>1, <2>2 DEF AnswerExact
<1> QED BY <1>1, Invariant, PTL


(* get_word() finds none only if no word of any length is accepted.        *)
THEOREM NoneAccepted ==
  Spec => [](pc = "none" => \A w \in Seq(Symbol) : ~ Accepts(aut, w))
<1>1. IInv => (pc = "none" => \A w \in Seq(Symbol) : ~ Accepts(aut, w))
  <2> SUFFICES ASSUME IInv, pc = "none", NEW w \in Seq(Symbol), Accepts(aut, w)
               PROVE  FALSE
    OBVIOUS
  <2>1. aut \in AutomataOver(State, Symbol)
    BY DEF IInv, TypeOK
  <2>2. UsefulStates(aut) = {}
    BY <2>1, NoneUseful DEF IInv, Answered
  <2>3. IsFiniteSet(State)
    BY InputsAssumption
  <2>4. UsefulStates(aut) # {}
    BY ONLY <2>1, <2>3, w \in Seq(Symbol), Accepts(aut, w), NothingUseful
  <2> QED BY <2>2, <2>4
<1> QED BY <1>1, Invariant, PTL
=============================================================================
