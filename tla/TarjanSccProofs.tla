--------------------------- MODULE TarjanSccProofs ---------------------------
(***************************************************************************)
(* Proofs about TarjanScc: the Tarjan stack is what the algorithm takes it *)
(* for, what is reported are the components of the graph, and the clients  *)
(* answer right, for every automaton and every order of its moves.         *)
(*                                                                         *)
(* program_stack holds two things: initial states that still wait and the  *)
(* states whose simulated calls are open.  The invariant says where it     *)
(* changes from one to the other (b), where the open calls end (h), and    *)
(* what the classical proof of the recursive algorithm says of open calls: *)
(* a state on the Tarjan stack leads back to the open call it was found    *)
(* from, and no processed move of it passes below that call's lowlink.     *)
(***************************************************************************)
EXTENDS TarjanScc, AutomataProofs

\* The fields of node_info.
Seen(q) == node[q].initialized
On(q) == node[q].on_stack
Idx(q) == node[q].index
Low(q) == node[q].lowlink
Cur(q) == node[q].current_move
Closed(q) == Seen(q) /\ ~ On(q)

Reach(p, q) == Reaches(Succ, p, q)
Depth == Len(program_stack)

\* p waits for the call for q.
Calls(p, q) == Cur(p) \in 1..Len(moves[p]) /\ moves[p][Cur(p)] = q

\* program_stack holds initial states that wait, up to b, then the states
\* being visited, each called by the one before, up to h; at most one state
\* that was called but not yet discovered follows.
Pending(b) == \A i \in 1..b : program_stack[i] \in Range(initial)
OpenOnStack(b, h) == \A i \in b+1..h : On(program_stack[i])
OpenInOrder(b, h) ==
  \A i, j \in b+1..h : i < j => Idx(program_stack[i]) < Idx(program_stack[j])
OpenCalls(b, h) == \A i \in b+1..h-1 : Calls(program_stack[i], program_stack[i+1])
CalledOnTop(b, h) ==
  \/ h = Depth
  \/ /\ h = Depth - 1 /\ b < h /\ pc = "main"
     /\ ~ Seen(program_stack[Depth]) /\ Calls(program_stack[h], program_stack[Depth])
Phase(b, h) == (pc = "moves" => b < h /\ h = Depth) /\ (pc = "done" => Depth = 0)

\* A call has returned to the top of the stack.
Returned(b, h) == pc = "main" /\ b < h /\ h = Depth

\* low is the index of a state that is still on the Tarjan stack and that q
\* reaches.
Leads(q, low) == \E y \in State : On(y) /\ Idx(y) = low /\ Reach(q, y)

ReturnRight(b, h) ==
  Returned(b, h) =>
    \A t \in State : t = program_stack[Depth] =>
      /\ Cur(t) <= Len(moves[t])
      /\ \A c \in State : c = moves[t][Cur(t)] =>
           /\ Seen(c) /\ Idx(t) < Idx(c)
           /\ On(c) => Leads(c, Low(c))
           /\ ~ On(c) => Low(t) <= Low(c)

\* State x on the Tarjan stack was found from the i-th state being visited.
Under(h, i, x) ==
  /\ On(x) /\ Idx(program_stack[i]) <= Idx(x)
  /\ i < h => Idx(x) < Idx(program_stack[i+1])

Owned(b, h) ==
  \A x \in State : On(x) => \E i \in b+1..h : Under(h, i, x) /\ Reach(x, program_stack[i])
ReachedFromOpen(b, h) ==
  \A x \in State : \A i \in b+1..h :
    On(x) /\ Idx(program_stack[i]) <= Idx(x) => Reach(program_stack[i], x)
AllMovesDone(b, h) ==
  \A x \in State : On(x) /\ (\A i \in b+1..h : x # program_stack[i]) => Cur(x) > Len(moves[x])

\* The lowlink of the i-th state, or what it will be when the value of a
\* call that has returned is merged into it: low is at least that.
Bounds(b, h, i, m) ==
  \/ Low(program_stack[i]) <= m
  \/ /\ i = h /\ Returned(b, h)
     /\ Low(moves[program_stack[i]][Cur(program_stack[i])]) <= m

LowlinkFound(b, h) ==
  \A i \in b+1..h : /\ Low(program_stack[i]) <= Idx(program_stack[i])
                    /\ Leads(program_stack[i], Low(program_stack[i]))
LowlinkBounds(b, h) ==
  \A x \in State : \A i \in b+1..h : Under(h, i, x) =>
    \A k \in 1..Len(moves[x]) :
      k < Cur(x) /\ On(moves[x][k]) => Bounds(b, h, i, Idx(moves[x][k]))

\* A useful state below which the stack will be marked stands at or above
\* every state with a processed move to a useful closed state.
Done(b, h, x, k) ==
  k < Cur(x) \/ (Returned(b, h) /\ x = program_stack[Depth] /\ k = Cur(x))
MarksBelow(b, h) ==
  \A x \in State : On(x) =>
    \A k \in 1..Len(moves[x]) :
      Done(b, h, x, k) /\ Closed(moves[x][k]) /\ moves[x][k] \in useful =>
        \E z \in useful : On(z) /\ Idx(x) <= Idx(z)

Chain(b, h) ==
  /\ Pending(b) /\ OpenOnStack(b, h) /\ OpenInOrder(b, h) /\ OpenCalls(b, h)
  /\ CalledOnTop(b, h) /\ Phase(b, h)
Open(b, h) ==
  /\ b \in Nat /\ h \in Nat /\ b <= h /\ h <= Depth
  /\ Chain(b, h) /\ ReturnRight(b, h)
  /\ Owned(b, h) /\ ReachedFromOpen(b, h) /\ AllMovesDone(b, h)
  /\ LowlinkFound(b, h) /\ LowlinkBounds(b, h) /\ MarksBelow(b, h)

OpenSomewhere == \E b, h \in 0..Depth : Open(b, h)

\* The Tarjan stack and the indices.
StackOrdered ==
  \A j, k \in 1..Len(tarjan_stack) : j < k => Idx(tarjan_stack[j]) < Idx(tarjan_stack[k])
Indexed ==
  /\ \A q \in State : On(q) => Seen(q)
  /\ \A q \in State : Seen(q) => Idx(q) < index_cnt
  /\ index_cnt = Cardinality({q \in State : Seen(q)})
DoneSeen ==
  \A x \in State : Seen(x) =>
    \A k \in 1..Len(moves[x]) : k < Cur(x) => Seen(moves[x][k])

\* What has been found and reported.
Found ==
  /\ \A q \in Range(initial) : Seen(q) \/ q \in Range(program_stack)
  /\ \A q \in State : Seen(q) => q \in Closure(Succ, Range(initial))
  /\ \A q \in State : Closed(q) => \A r \in Succ[q] : Closed(r)
  /\ UNION sccs = {q \in State : Closed(q)}
  /\ sccs \subseteq Components(Succ, Range(initial))

\* What the clients have made of it.
Marks ==
  /\ final_scc = FALSE
  /\ \A q \in State : Seen(q) /\ q \in final => q \in useful
  /\ \A q \in useful : Seen(q) /\ q \in CoClosure(Succ, final)
  /\ \A q \in State : Closed(q) /\ q \in CoClosure(Succ, final) => q \in useful
Reports ==
  /\ accepting_state <=> \E q \in final : Seen(q)
  /\ acyclic <=> \A C \in sccs : Cardinality(C) = 1 /\ \A st \in C : MovesInside(st, C) = {}
  /\ flat <=> \A C \in sccs : \A st \in C : Cardinality(MovesInside(st, C)) <= 1

Graph == moves \in [State -> Seq(State)]

Inv ==
  /\ Graph /\ TypeOK /\ OnStackAgrees /\ StackOrdered /\ Indexed /\ DoneSeen
  /\ Found /\ Marks /\ Reports /\ OpenSomewhere

-----------------------------------------------------------------------------
ReachLaws ==
  /\ \A p \in State : Reach(p, p)
  /\ \A p \in State : \A k \in 1..Len(moves[p]) :
       moves[p][k] \in State /\ moves[p][k] \in Succ[p] /\ Reach(p, moves[p][k])
  /\ \A p \in State : \A r \in Succ[p] :
       r \in State /\ \E k \in 1..Len(moves[p]) : r = moves[p][k]
  /\ \A p, q, r \in State : Reach(p, q) /\ Reach(q, r) => Reach(p, r)

(* The moves are those of a graph.                                         *)
LEMMA GraphOfMoves ==
  ASSUME Graph
  PROVE  IsGraph(Succ) /\ DOMAIN Succ = State /\ ReachLaws
<1>1. DOMAIN Succ = State /\ \A p \in State : Succ[p] = Range(moves[p])
  BY DEF Succ
<1>2. ASSUME NEW p \in State
      PROVE  /\ Len(moves[p]) \in Nat
             /\ \A k \in 1..Len(moves[p]) : moves[p][k] \in State /\ moves[p][k] \in Succ[p]
             /\ \A r \in Succ[p] : r \in State /\ \E k \in 1..Len(moves[p]) : r = moves[p][k]
  <2>1. moves[p] \in Seq(State)
    BY DEF Graph
  <2>2. Len(moves[p]) \in Nat /\ DOMAIN moves[p] = 1..Len(moves[p])
    BY <2>1
  <2>3. \A k \in 1..Len(moves[p]) : moves[p][k] \in State
    BY <2>1, ElementOfSeq
  <2>4. Succ[p] = {moves[p][k] : k \in 1..Len(moves[p])}
    BY <1>1, <2>2 DEF Range
  <2> QED BY <2>2, <2>3, <2>4
<1>3. IsGraph(Succ)
  BY <1>1, <1>2, TarjanAssumption DEF IsGraph, TarjanAssumption
<1>4. \A p \in State : Reach(p, p)
  BY <1>1, <1>3, ReachesSelf DEF Reach
<1>5. \A p \in State : \A k \in 1..Len(moves[p]) : Reach(p, moves[p][k])
  BY <1>1, <1>2, <1>3, <1>4, ReachesOn DEF Reach
<1>6. \A p, q, r \in State : Reach(p, q) /\ Reach(q, r) => Reach(p, r)
  BY <1>1, <1>3, ReachesTransitive DEF Reach
<1> QED BY <1>1, <1>2, <1>3, <1>4, <1>5, <1>6 DEF ReachLaws

FieldTypes ==
  \A q \in State : /\ Seen(q) \in BOOLEAN /\ On(q) \in BOOLEAN
                   /\ Idx(q) \in Nat /\ Low(q) \in Nat /\ Cur(q) \in Nat /\ Cur(q) >= 1

(* The fields of node_info have their types.                               *)
LEMMA Fields ==
  ASSUME node \in [State -> NodeData]
  PROVE  FieldTypes
BY DEF NodeData, FieldTypes, Seen, On, Idx, Low, Cur

TopFacts ==
  /\ Depth \in Nat /\ Depth >= 1
  /\ top \in State /\ top = program_stack[Depth]
  /\ Len(Front(program_stack)) = Depth - 1
  /\ Front(program_stack) \in Seq(State)
  /\ \A i \in 1..Depth-1 : Front(program_stack)[i] = program_stack[i]
  /\ Range(program_stack) = Range(Front(program_stack)) \cup {top}

(* The top of a stack that is not empty.                                   *)
LEMMA TopOfStack ==
  ASSUME program_stack \in Seq(State), program_stack # << >>
  PROVE  TopFacts
<1>1. Depth \in Nat /\ Depth # 0
  BY EmptySeq DEF Depth
<1>2. Depth >= 1
  BY <1>1
<1> QED BY <1>1, <1>2, FrontOf DEF TopFacts, top, Depth

(* Graph and paths stay what they are.                                     *)
LEMMA SameGraph ==
  ASSUME UNCHANGED moves
  PROVE  /\ Succ' = Succ /\ (Graph <=> Graph')
         /\ \A p, q : Reach(p, q)' <=> Reach(p, q)
BY DEF Succ, Reach, Reaches, Graph

(* The states of program_stack.                                            *)
LEMMA StackStates ==
  ASSUME program_stack \in Seq(State)
  PROVE  Depth \in Nat /\ \A i \in 1..Depth : program_stack[i] \in State
BY ElementOfSeq, LenProperties DEF Depth

-----------------------------------------------------------------------------
\* In the step every state in S keeps its node_info.
Keeps(S) ==
  \A q \in S : /\ Seen(q)' <=> Seen(q)
               /\ On(q)' <=> On(q)
               /\ Idx(q)' = Idx(q) /\ Low(q)' = Low(q) /\ Cur(q)' = Cur(q)

(* A step that leaves node_info alone.                                     *)
LEMMA UnchangedFields ==
  ASSUME UNCHANGED node
  PROVE  Keeps(State)
BY DEF Keeps, Seen, On, Idx, Low, Cur

(* What Discover does to node_info.                                        *)
LEMMA DiscoverFields ==
  ASSUME node \in [State -> NodeData], index_cnt \in Nat, NEW t \in State, t = top, Discover
  PROVE  /\ node' \in [State -> NodeData]
         /\ Keeps(State \ {t})
         /\ Seen(t)' /\ On(t)' /\ Idx(t)' = index_cnt /\ Low(t)' = index_cnt /\ Cur(t)' = 1
<1> DEFINE data == [index |-> index_cnt, lowlink |-> index_cnt, initialized |-> TRUE,
                    on_stack |-> TRUE, current_move |-> 1]
<1>1. node' = [node EXCEPT ![t] = data]
  BY DEF Discover
<1>2. data \in NodeData
  BY DEF NodeData
<1>3. /\ data.index = index_cnt /\ data.lowlink = index_cnt /\ data.initialized
      /\ data.on_stack /\ data.current_move = 1
  OBVIOUS
<1> HIDE DEF data
<1>4. node'[t] = data /\ \A q \in State \ {t} : node'[q] = node[q]
  BY <1>1
<1>5. node' \in [State -> NodeData]
  BY <1>1, <1>2
<1> QED BY <1>3, <1>4, <1>5 DEF Keeps, Seen, On, Idx, Low, Cur

(* What Resume and FollowMove do to node_info.                             *)
LEMMA MovedFields ==
  ASSUME node \in [State -> NodeData], NEW t \in State, NEW low \in Nat,
         node' = [node EXCEPT ![t] = Moved(node[t], low)]
  PROVE  /\ node' \in [State -> NodeData]
         /\ Keeps(State \ {t})
         /\ Seen(t)' <=> Seen(t)
         /\ On(t)' <=> On(t)
         /\ Idx(t)' = Idx(t) /\ Low(t)' = low /\ Cur(t)' = Cur(t) + 1
<1> DEFINE data == Moved(node[t], low)
<1>1. node[t] \in NodeData
  OBVIOUS
<1>2. data \in NodeData
  BY <1>1 DEF NodeData, Moved
<1>3. /\ data.index = node[t].index /\ data.lowlink = low
      /\ data.initialized = node[t].initialized /\ data.on_stack = node[t].on_stack
      /\ data.current_move = node[t].current_move + 1
  BY DEF Moved
<1> HIDE DEF data
<1>4. node' = [node EXCEPT ![t] = data]
  BY DEF data
<1>5. node'[t] = data /\ \A q \in State \ {t} : node'[q] = node[q]
  BY <1>4
<1>6. node' \in [State -> NodeData]
  BY <1>4, <1>2
<1> QED BY <1>3, <1>5, <1>6 DEF Keeps, Seen, On, Idx, Low, Cur

(* What popping a component does to node_info.                             *)
LEMMA PoppedFields ==
  ASSUME node \in [State -> NodeData], NEW scc \in SUBSET State,
         node' = [q \in State |-> IF q \in scc THEN [node[q] EXCEPT !.on_stack = FALSE]
                                  ELSE node[q]]
  PROVE  /\ node' \in [State -> NodeData]
         /\ Keeps(State \ scc)
         /\ \A q \in scc : /\ Seen(q)' <=> Seen(q)
                           /\ ~ On(q)'
                           /\ Idx(q)' = Idx(q) /\ Low(q)' = Low(q) /\ Cur(q)' = Cur(q)
<1>1. ASSUME NEW d \in NodeData
      PROVE  /\ [d EXCEPT !.on_stack = FALSE] \in NodeData
             /\ [d EXCEPT !.on_stack = FALSE].index = d.index
             /\ [d EXCEPT !.on_stack = FALSE].lowlink = d.lowlink
             /\ [d EXCEPT !.on_stack = FALSE].initialized = d.initialized
             /\ [d EXCEPT !.on_stack = FALSE].on_stack = FALSE
             /\ [d EXCEPT !.on_stack = FALSE].current_move = d.current_move
  BY DEF NodeData
<1>2. ASSUME NEW q \in State
      PROVE  /\ node'[q] \in NodeData
             /\ q \notin scc => node'[q] = node[q]
             /\ q \in scc =>
                  /\ node'[q].index = node[q].index /\ node'[q].lowlink = node[q].lowlink
                  /\ node'[q].initialized = node[q].initialized
                  /\ node'[q].on_stack = FALSE
                  /\ node'[q].current_move = node[q].current_move
  <2>1. PICK d \in NodeData : d = node[q]
    OBVIOUS
  <2>2. CASE q \in scc
    <3>1. node'[q] = [d EXCEPT !.on_stack = FALSE]
      BY <2>1, <2>2
    <3> QED BY <1>1, <2>1, <2>2, <3>1
  <2>3. CASE q \notin scc
    <3>1. node'[q] = node[q]
      BY <2>3
    <3> QED BY <2>1, <2>3, <3>1
  <2> QED BY <2>2, <2>3
<1>3. node' \in [State -> NodeData]
  BY <1>2
<1> QED BY <1>2, <1>3 DEF Keeps, Seen, On, Idx, Low, Cur

-----------------------------------------------------------------------------
Basics ==
  /\ FieldTypes /\ ReachLaws
  /\ Depth \in Nat /\ \A i \in 1..Depth : program_stack[i] \in State

(* What every step of the proof uses.                                      *)
LEMMA BasicFacts ==
  ASSUME Graph, TypeOK
  PROVE  Basics
BY GraphOfMoves, Fields, StackStates DEF Basics, TypeOK

(* The invariant holds at the start.                                       *)
LEMMA InitHolds ==
  ASSUME Init
  PROVE  Inv
<1>1. Graph
  BY TarjanAssumption DEF Init, Graph, TarjanAssumption
<1>2. \A q \in State : ~ Seen(q) /\ ~ On(q)
  BY DEF Init, Fresh, Seen, On
<1>3. TypeOK
  <2>1. Fresh \in NodeData
    BY DEF Fresh, NodeData
  <2>2. node \in [State -> NodeData]
    BY <2>1 DEF Init
  <2>3. initial \in Seq(State) /\ program_stack \in Seq(State) /\ tarjan_stack \in Seq(State)
    BY TarjanAssumption DEF Init, TarjanAssumption
  <2>4. index_cnt \in 0..Cardinality(State)
    BY TarjanAssumption, FS_CardinalityType DEF Init, TarjanAssumption
  <2>5. {final_scc, accepting_state, acyclic, flat} \subseteq BOOLEAN
    BY Zenon DEF Init
  <2>6. final \subseteq State /\ pc \in {"main", "moves", "done"}
        /\ sccs \subseteq SUBSET State /\ useful \subseteq State
    BY DEF Init
  <2> QED BY <2>2, <2>3, <2>4, <2>5, <2>6 DEF TypeOK
<1>4. Basics
  BY <1>1, <1>3, BasicFacts
<1>5. Range(tarjan_stack) = {} /\ Len(tarjan_stack) = 0
  BY DEF Init, Range
<1>6. OnStackAgrees /\ StackOrdered
  BY <1>2, <1>5 DEF OnStackAgrees, StackOrdered, On
<1>7. Indexed /\ DoneSeen
  <2>1. {q \in State : Seen(q)} = {} /\ Cardinality({}) = 0
    BY <1>2, FS_EmptySet
  <2> QED BY <1>2, <2>1 DEF Init, Indexed, DoneSeen
<1>8. Found
  BY <1>2 DEF Init, Found, Closed
<1>9. Marks
  BY <1>2 DEF Init, Marks, Closed
<1>10. Reports
  BY <1>2, <1>3 DEF Init, Reports, TypeOK
<1>11. OpenSomewhere
  <2>1. Open(Depth, Depth)
    <3>1. Pending(Depth)
      <4>1. DOMAIN initial = 1..Depth
        BY <1>3 DEF Init, Depth, TypeOK
      <4> QED BY <4>1 DEF Init, Pending, Range
    <3>2. Depth \in Nat /\ Depth+1..Depth = {} /\ Depth+1..Depth-1 = {}
      BY <1>4 DEF Basics
    <3> QED BY <1>2, <1>4, <3>1, <3>2
            DEF Basics, Init, Open, Chain, OpenOnStack, OpenInOrder, OpenCalls, CalledOnTop,
                Phase, ReturnRight, Returned, Owned, ReachedFromOpen, AllMovesDone,
                LowlinkFound, LowlinkBounds, MarksBelow
  <2>2. Depth \in 0..Depth
    BY <1>4 DEF Basics
  <2> QED BY <2>1, <2>2 DEF OpenSomewhere
<1> QED BY <1>1, <1>3, <1>6, <1>7, <1>8, <1>9, <1>10, <1>11 DEF Inv

(* With no call open nothing is on the Tarjan stack.                       *)
LEMMA NothingOpen ==
  ASSUME NEW b, NEW h, Open(b, h), b = h
  PROVE  \A q \in State : ~ On(q)
<1>1. b \in Nat /\ h \in Nat /\ b+1..h = {}
  BY DEF Open
<1> QED BY <1>1 DEF Open, Owned

(* Where the top of the stack stands, by what is known of it.              *)
LEMMA TopStands ==
  ASSUME Inv, program_stack # << >>, NEW b, NEW h, Open(b, h)
  PROVE  /\ On(top) => b < h /\ h = Depth
         /\ Closed(top) => b = Depth /\ h = Depth
         /\ ~ Seen(top) => b = h \/ (b < h /\ h = Depth - 1)
         /\ pc = "moves" => b < h /\ h = Depth /\ On(top) /\ Seen(top)
<1>1. TopFacts /\ Basics
  BY TopOfStack, BasicFacts DEF Inv, TypeOK
<1>2. b \in Nat /\ h \in Nat /\ b <= h /\ h <= Depth /\ Depth >= 1 /\ Depth \in Nat
  BY <1>1 DEF Open, TopFacts
<1>3. h = Depth \/ (h = Depth - 1 /\ b < h /\ ~ Seen(top) /\ pc = "main")
  BY <1>1 DEF Open, Chain, CalledOnTop, TopFacts
<1>4. b < h /\ h = Depth => On(top)
  BY <1>1, <1>2 DEF Open, Chain, OpenOnStack, TopFacts
<1>5. On(top) => Seen(top)
  BY <1>1 DEF Inv, Indexed, TopFacts
<1>6. b = h => ~ On(top)
  BY <1>1, NothingOpen DEF TopFacts
<1>7. pc = "moves" => b < h /\ h = Depth
  BY DEF Open, Chain, Phase
<1> QED BY <1>2, <1>3, <1>4, <1>5, <1>6, <1>7 DEF Closed

(* SkipClosed takes an initial state from the stack that has been closed.  *)
LEMMA SkipClosedHolds ==
  ASSUME Inv, SkipClosed
  PROVE  Inv'
<1>1. TopFacts /\ Basics
  BY TopOfStack, BasicFacts DEF Inv, TypeOK, SkipClosed
<1>2. PICK b, h \in 0..Depth : Open(b, h)
  BY DEF Inv, OpenSomewhere
<1>3. Closed(top)
  BY DEF SkipClosed, Closed, Seen, On
<1>4. b = Depth /\ h = Depth
  BY <1>2, <1>3, TopStands DEF SkipClosed
<1>5. \A q \in State : ~ On(q)
  BY <1>2, <1>4, NothingOpen
<1>6. Keeps(State) /\ UNCHANGED <<moves, initial, final>>
  BY UnchangedFields DEF SkipClosed, input
<1>7. \A q \in State : ~ On(q)'
  BY <1>5, <1>6 DEF Keeps
<1>8. /\ UNCHANGED <<tarjan_stack, node, index_cnt, pc, sccs, useful, final_scc>>
      /\ UNCHANGED <<accepting_state, acyclic, flat>>
      /\ program_stack' = Front(program_stack)
  BY DEF SkipClosed, clients
<1>9. Depth' = Depth - 1 /\ Depth' \in Nat
  BY <1>1, <1>8 DEF TopFacts, Depth
<1>10. Graph' /\ Succ' = Succ
  BY <1>6, SameGraph DEF Inv
<1>11. TypeOK'
  BY <1>1, <1>6, <1>8 DEF Inv, TypeOK, TopFacts
<1>12. OnStackAgrees' /\ StackOrdered' /\ Indexed' /\ DoneSeen'
  BY <1>6, <1>8 DEF Inv, OnStackAgrees, StackOrdered, Indexed, DoneSeen, Seen, On, Idx, Cur
<1>13. Found'
  <2>1. \A q \in Range(initial) : Seen(q) \/ q \in Range(program_stack)'
    BY <1>1, <1>3, <1>8 DEF Inv, Found, TopFacts, Closed
  <2> QED BY <2>1, <1>6, <1>8, <1>10 DEF Inv, Found, Closed, Seen, On
<1>14. Marks' /\ Reports'
  BY <1>6, <1>8, <1>10 DEF Inv, Marks, Reports, Closed, Seen, On, MovesInside
<1>15. OpenSomewhere'
  <2> PICK m : m = Depth - 1
    OBVIOUS
  <2>1. Open(m, m)'
    <3>1. m \in Nat /\ Depth' = m
      BY <1>9
    <3>2. Pending(m)'
      BY <1>1, <1>2, <1>4, <1>6, <1>8, <3>1 DEF Open, Chain, Pending, TopFacts
    <3>3. m+1..m = {} /\ m+1..m-1 = {} /\ ~ (m < m) /\ m <= m
      BY <3>1
    <3>4. pc' = "main"
      BY <1>8 DEF SkipClosed
    <3> QED BY <1>7, <3>1, <3>2, <3>3, <3>4
            DEF Open, Chain, OpenOnStack, OpenInOrder, OpenCalls, CalledOnTop,
                Phase, ReturnRight, Returned, Owned, ReachedFromOpen, AllMovesDone,
                LowlinkFound, LowlinkBounds, MarksBelow
  <2>2. m \in 0..Depth'
    BY <1>9
  <2> QED BY <2>1, <2>2 DEF OpenSomewhere
<1> QED BY <1>10, <1>11, <1>12, <1>13, <1>14, <1>15 DEF Inv

(* Finish only ends the search, with nothing left on the stack.            *)
LEMMA FinishHolds ==
  ASSUME Inv, Finish
  PROVE  Inv'
<1>1. Basics
  BY BasicFacts DEF Inv
<1>2. PICK b, h \in 0..Depth : Open(b, h)
  BY DEF Inv, OpenSomewhere
<1>3. Depth = 0 /\ Depth' = 0
  BY EmptySeq DEF Finish, Depth
<1>4. \A q \in State : ~ On(q)
  BY <1>2, <1>3, NothingOpen
<1>5. Keeps(State) /\ UNCHANGED <<moves, initial, final>>
  BY UnchangedFields DEF Finish, input
<1>6. \A q \in State : ~ On(q)'
  BY <1>4, <1>5 DEF Keeps
<1>7. /\ UNCHANGED <<program_stack, tarjan_stack, node, index_cnt, sccs, useful, final_scc>>
      /\ UNCHANGED <<accepting_state, acyclic, flat>>
      /\ pc' = "done"
  BY DEF Finish, clients
<1>8. Graph' /\ Succ' = Succ
  BY <1>5, SameGraph DEF Inv
<1>9. TypeOK'
  BY <1>5, <1>7 DEF Inv, TypeOK
<1>10. OnStackAgrees' /\ StackOrdered' /\ Indexed' /\ DoneSeen'
  BY <1>5, <1>7 DEF Inv, OnStackAgrees, StackOrdered, Indexed, DoneSeen, Seen, On, Idx, Cur
<1>11. Found' /\ Marks' /\ Reports'
  BY <1>5, <1>7, <1>8 DEF Inv, Found, Marks, Reports, Closed, Seen, On, MovesInside
<1>12. OpenSomewhere'
  <2>1. 0+1..0 = {} /\ 0+1..0-1 = {} /\ 1..0 = {} /\ ~ (0 < 0) /\ 0 <= 0
    OBVIOUS
  <2>2. Open(0, 0)'
    BY <1>3, <1>6, <1>7, <2>1
       DEF Open, Chain, Pending, OpenOnStack, OpenInOrder, OpenCalls, CalledOnTop,
           Phase, ReturnRight, Returned, Owned, ReachedFromOpen, AllMovesDone,
           LowlinkFound, LowlinkBounds, MarksBelow
  <2> QED BY <1>3, <2>2 DEF OpenSomewhere
<1> QED BY <1>8, <1>9, <1>10, <1>11, <1>12 DEF Inv

(* Descend calls the search for an undiscovered target.                    *)
LEMMA DescendHolds ==
  ASSUME Inv, Descend
  PROVE  Inv'
<1>1. PICK b, h \in 0..Depth : Open(b, h)
  BY DEF Inv, OpenSomewhere
<1>2. program_stack \in Seq(State) /\ Basics
  BY BasicFacts DEF Inv, TypeOK
<1>3. program_stack # << >>
  <2>1. b < h /\ h <= Depth /\ b \in Nat /\ h \in Nat
    BY <1>1 DEF Descend, Open, Chain, Phase
  <2>2. Len(<< >>) = 0
    OBVIOUS
  <2> QED BY <2>1, <2>2 DEF Depth
<1>4. TopFacts
  BY <1>2, <1>3, TopOfStack
<1>5. b < h /\ h = Depth /\ On(top) /\ Seen(top)
  BY <1>1, <1>3, TopStands DEF Descend
<1>6. PICK t \in State : t = top
  BY <1>4 DEF TopFacts
<1>7. Cur(t) \in 1..Len(moves[t])
  <2>1. Cur(t) \in Nat /\ Cur(t) >= 1 /\ Cur(t) <= Len(moves[t])
    BY <1>2, <1>6 DEF Descend, Basics, FieldTypes, Cur
  <2>2. Len(moves[t]) \in Nat
    BY <1>6, LenProperties DEF Inv, Graph
  <2> QED BY <2>1, <2>2
<1>8. PICK c \in State : c = moves[t][Cur(t)] /\ c = current_target
  BY <1>2, <1>6, <1>7 DEF Basics, ReachLaws, current_target, Cur
<1>9. ~ Seen(c) /\ Calls(t, c)
  BY <1>6, <1>7, <1>8 DEF Descend, Seen, Calls
<1>10. /\ UNCHANGED <<moves, initial, final, tarjan_stack, node, index_cnt, sccs>>
       /\ UNCHANGED <<final_scc, accepting_state, acyclic, flat>>
       /\ pc' = "main" /\ program_stack' = Append(program_stack, c)
  BY <1>8 DEF Descend, SuccDiscover, input
<1>11. useful' = useful
  BY <1>8, <1>9 DEF Descend, SuccDiscover, Inv, Marks
<1>12. Keeps(State)
  BY <1>10, UnchangedFields
<1>13. /\ program_stack' \in Seq(State) /\ Depth' = Depth + 1
       /\ \A i \in 1..Depth : program_stack'[i] = program_stack[i]
       /\ program_stack'[Depth+1] = c
       /\ Range(program_stack') = Range(program_stack) \cup {c}
  BY <1>2, <1>10, AppendTo DEF Depth
<1>14. Graph' /\ Succ' = Succ /\ \A p, q : Reach(p, q)' <=> Reach(p, q)
  BY <1>10, SameGraph DEF Inv
<1>15. TypeOK'
  BY <1>10, <1>11, <1>13 DEF Inv, TypeOK
<1>16. OnStackAgrees' /\ StackOrdered' /\ Indexed' /\ DoneSeen'
  BY <1>10 DEF Inv, OnStackAgrees, StackOrdered, Indexed, DoneSeen, Seen, On, Idx, Cur
<1>17. Found' /\ Marks' /\ Reports'
  BY <1>10, <1>11, <1>13, <1>14
     DEF Inv, Found, Marks, Reports, Closed, Seen, On, MovesInside
<1>18. OpenSomewhere'
  <2> PICK d : d = Depth
    OBVIOUS
  <2>1. d \in Nat /\ b \in Nat /\ h = d /\ b < d /\ Depth' = d + 1 /\ pc = "moves"
    BY <1>2, <1>5, <1>13 DEF Basics, Descend
  <2>2. /\ \A i \in b+1..h : program_stack'[i] = program_stack[i]
        /\ \A i \in 1..b : program_stack'[i] = program_stack[i]
        /\ \A i \in b+1..h : i < h => i+1 \in b+1..h
        /\ \A i \in b+1..h-1 : i \in b+1..h /\ i+1 \in b+1..h
        /\ \A i \in b+1..h : program_stack[i] \in State
        /\ program_stack'[h] = t
    BY <1>2, <1>4, <1>6, <1>13, <2>1 DEF Basics, TopFacts
  <2>3. ~ Returned(b, h) /\ ~ Returned(b, h)'
    BY <2>1 DEF Returned
  <2>4. \A x \in State : \A i \in b+1..h : Under(h, i, x)' <=> Under(h, i, x)
    BY <1>12, <2>2 DEF Under, Keeps
  <2>5. \A i \in b+1..h : \A m : Bounds(b, h, i, m)' <=> Bounds(b, h, i, m)
    BY <1>12, <2>2, <2>3 DEF Bounds, Keeps
  <2>6. Pending(b)' /\ OpenOnStack(b, h)' /\ OpenInOrder(b, h)' /\ OpenCalls(b, h)'
    <3>1. Pending(b)' /\ OpenOnStack(b, h)'
      BY <1>1, <1>10, <1>12, <2>2 DEF Open, Chain, Pending, OpenOnStack, Keeps
    <3>2. OpenInOrder(b, h)'
      BY <1>1, <1>12, <2>2 DEF Open, Chain, OpenInOrder, Keeps
    <3>3. ASSUME NEW i \in b+1..h-1
          PROVE  Calls(program_stack[i], program_stack[i+1])'
      <4>1. Calls(program_stack[i], program_stack[i+1])
        BY <1>1 DEF Open, Chain, OpenCalls
      <4>2. i \in b+1..h /\ i+1 \in b+1..h
        BY <2>2
      <4>3. PICK p, q \in State : p = program_stack[i] /\ q = program_stack[i+1]
        BY <2>2, <4>2
      <4>4. p = program_stack'[i] /\ q = program_stack'[i+1]
        BY <2>2, <4>2, <4>3
      <4>5. Calls(p, q)'
        BY <1>10, <1>12, <4>1, <4>3 DEF Calls, Keeps
      <4> QED BY <4>4, <4>5
    <3> QED BY <3>1, <3>2, <3>3 DEF OpenCalls
  <2>7. CalledOnTop(b, h)'
    BY <1>9, <1>10, <1>12, <1>13, <2>1, <2>2 DEF CalledOnTop, Calls, Keeps
  <2>8. Phase(b, h)' /\ ReturnRight(b, h)'
    BY <1>10, <2>3 DEF Phase, ReturnRight
  <2>9. Owned(b, h)' /\ ReachedFromOpen(b, h)' /\ AllMovesDone(b, h)'
    BY <1>1, <1>10, <1>12, <1>14, <2>2, <2>4
       DEF Open, Owned, ReachedFromOpen, AllMovesDone, Keeps
  <2>10. LowlinkFound(b, h)'
    BY <1>1, <1>12, <1>14, <2>2 DEF Open, LowlinkFound, Leads, Keeps
  <2>11. LowlinkBounds(b, h)'
    BY <1>1, <1>2, <1>10, <1>12, <2>4, <2>5
       DEF Open, LowlinkBounds, Basics, ReachLaws, Keeps
  <2>12. MarksBelow(b, h)'
    BY <1>1, <1>2, <1>10, <1>11, <1>12, <2>3
       DEF Open, MarksBelow, Done, Closed, Basics, ReachLaws, Keeps, Marks, Inv, TypeOK
  <2> QED BY <2>1, <2>6, <2>7, <2>8, <2>9, <2>10, <2>11, <2>12
          DEF Open, Chain, OpenSomewhere
<1> QED BY <1>14, <1>15, <1>16, <1>17, <1>18 DEF Inv

(* A move of the top state has been dealt with, its lowlink is now low.    *)
LEMMA MoveDone ==
  ASSUME Inv, NEW b, NEW h, Open(b, h), b < h, h = Depth, program_stack # << >>,
         NEW t \in State, t = top, Cur(t) \in 1..Len(moves[t]),
         NEW c \in State, c = moves[t][Cur(t)], Seen(c),
         NEW low \in Nat, low <= Low(t), Leads(t, low), On(c) => low <= Idx(c),
         Returned(b, h) => low <= Low(c),
         node' = [node EXCEPT ![t] = Moved(node[t], low)],
         useful' = useful \/ (c \in useful /\ useful' = useful \cup {t}),
         Closed(c) /\ c \in useful => t \in useful' \/ Returned(b, h),
         UNCHANGED <<moves, initial, final, program_stack, tarjan_stack, index_cnt, sccs>>,
         UNCHANGED <<final_scc, accepting_state, acyclic, flat>>,
         pc' = "moves"
  PROVE  Inv'
<1>1. program_stack \in Seq(State) /\ Basics /\ node \in [State -> NodeData]
  BY BasicFacts DEF Inv, TypeOK
<1>2. TopFacts
  BY <1>1, TopOfStack
<1>3. On(t) /\ Seen(t)
  <2>1. h \in b+1..h /\ program_stack[h] = t
    BY <1>2 DEF Open, TopFacts
  <2>2. On(t)
    BY <2>1 DEF Open, Chain, OpenOnStack
  <2> QED BY <2>2 DEF Inv, Indexed
<1>4. /\ node' \in [State -> NodeData]
      /\ Keeps(State \ {t})
      /\ Seen(t)' <=> Seen(t)
      /\ On(t)' <=> On(t)
      /\ Idx(t)' = Idx(t) /\ Low(t)' = low /\ Cur(t)' = Cur(t) + 1
  BY <1>1, MovedFields
<1>5. \A q \in State : (Seen(q)' <=> Seen(q)) /\ (On(q)' <=> On(q)) /\ Idx(q)' = Idx(q)
  BY <1>4 DEF Keeps
<1>6. \A q \in State : q # t => Low(q)' = Low(q) /\ Cur(q)' = Cur(q)
  BY <1>4 DEF Keeps
<1>7. Graph' /\ Succ' = Succ /\ \A p, q : Reach(p, q)' <=> Reach(p, q)
  BY SameGraph DEF Inv
<1>8. \A p \in State : \A k \in 1..Len(moves[p]) : moves[p][k] \in State
  BY <1>1 DEF Basics, ReachLaws
<1>9. FieldTypes
  BY <1>1 DEF Basics
<1>10. TypeOK'
  <2>1. useful' \subseteq State
    BY DEF Inv, TypeOK
  <2>2. {final_scc', accepting_state', acyclic', flat'} \subseteq BOOLEAN
    BY Zenon DEF Inv, TypeOK
  <2> QED BY <1>4, <2>1, <2>2 DEF Inv, TypeOK
<1>11. OnStackAgrees' /\ StackOrdered' /\ Indexed'
  <2>1. \A j \in 1..Len(tarjan_stack) : tarjan_stack[j] \in State
    BY ElementOfSeq DEF Inv, TypeOK
  <2>2. OnStackAgrees' /\ StackOrdered'
    BY <1>5, <2>1 DEF Inv, OnStackAgrees, StackOrdered, On
  <2>3. {q \in State : Seen(q)'} = {q \in State : Seen(q)}
    BY <1>5
  <2> QED BY <1>5, <2>2, <2>3 DEF Inv, Indexed
<1>12. DoneSeen'
  <2>1. SUFFICES ASSUME NEW x \in State, Seen(x), NEW k \in 1..Len(moves[x]), k < Cur(x)'
                 PROVE  Seen(moves[x][k])
    BY <1>5, <1>8 DEF DoneSeen
  <2>2. CASE x = t /\ k = Cur(t)
    BY <2>2
  <2>3. CASE ~ (x = t /\ k = Cur(t))
    <3>1. k < Cur(x)
      BY <1>4, <1>6, <1>9, <2>1, <2>3 DEF FieldTypes
    <3> QED BY <2>1, <3>1 DEF Inv, DoneSeen
  <2> QED BY <2>2, <2>3
<1>13. Found'
  <2>1. \A q \in State : Closed(q)' <=> Closed(q)
    BY <1>5 DEF Closed
  <2>2. \A q \in State : \A r \in Succ[q] : r \in State
    BY <1>1 DEF Basics, ReachLaws
  <2>3. Range(initial) \subseteq State
    BY RangeOfSeq DEF Inv, TypeOK
  <2> QED BY <1>5, <1>7, <2>1, <2>2, <2>3 DEF Inv, Found
<1>14. Marks'
  <2>1. \A q \in State : Closed(q)' <=> Closed(q)
    BY <1>5 DEF Closed
  <2>2. c \in CoClosure(Succ, final) => t \in CoClosure(Succ, final)
    <3>1. IsGraph(Succ) /\ DOMAIN Succ = State /\ Reach(t, c)
      BY GraphOfMoves DEF Inv, ReachLaws
    <3>2. \A z \in final : Reaches(Succ, c, z) => Reaches(Succ, t, z)
      BY <3>1, ReachesTransitive DEF Reach
    <3> QED BY <3>1, <3>2 DEF CoClosure, Reaches
  <2>3. final \subseteq State /\ useful \subseteq State
    BY DEF Inv, TypeOK
  <2> QED BY <1>3, <1>5, <1>7, <2>1, <2>2, <2>3 DEF Inv, Marks
<1>15. Reports'
  <2>1. final \subseteq State
    BY DEF Inv, TypeOK
  <2> QED BY <1>5, <2>1 DEF Inv, Reports, MovesInside
<1>16. OpenSomewhere'
  <2> PICK d : d = Depth
    OBVIOUS
  <2>1. d \in Nat /\ b \in Nat /\ h = d /\ b < d /\ Depth' = d
    BY <1>1 DEF Basics, Open, Depth
  <2>2. /\ \A i \in b+1..h : program_stack[i] \in State
        /\ program_stack[h] = t /\ h \in b+1..h
        /\ \A i \in b+1..h : i # h => i < h /\ i+1 \in b+1..h
        /\ \A i \in b+1..h-1 : i \in b+1..h /\ i+1 \in b+1..h /\ i < h
    BY <1>1, <1>2, <2>1 DEF Basics, TopFacts
  <2>3. \A i \in b+1..h : i # h => program_stack[i] # t
    BY <1>9, <2>2 DEF Open, Chain, OpenInOrder, FieldTypes
  <2>4. ~ Returned(b, h)'
    BY DEF Returned
  <2>5. \A x \in State : \A i \in b+1..h : Under(h, i, x)' <=> Under(h, i, x)
    BY <1>5, <2>2 DEF Under
  <2>6. Pending(b)' /\ OpenOnStack(b, h)' /\ OpenInOrder(b, h)'
    BY <1>5, <2>2 DEF Open, Chain, Pending, OpenOnStack, OpenInOrder
  <2>7. OpenCalls(b, h)'
    BY <1>6, <2>2, <2>3 DEF Open, Chain, OpenCalls, Calls
  <2>8. CalledOnTop(b, h)' /\ Phase(b, h)' /\ ReturnRight(b, h)'
    BY <2>1, <2>4 DEF CalledOnTop, Phase, ReturnRight
  <2>9. Owned(b, h)' /\ ReachedFromOpen(b, h)'
    BY <1>5, <1>7, <2>2, <2>5 DEF Open, Owned, ReachedFromOpen
  <2>10. AllMovesDone(b, h)'
    BY <1>5, <1>6, <2>2 DEF Open, AllMovesDone
  <2>11. LowlinkFound(b, h)'
    <3>1. Leads(t, low)'
      BY <1>5, <1>7 DEF Leads
    <3>2. low <= Idx(t)
      BY <1>9, <2>2 DEF Open, LowlinkFound, FieldTypes
    <3>3. ASSUME NEW i \in b+1..h
          PROVE  Low(program_stack[i])' <= Idx(program_stack[i])'
                 /\ Leads(program_stack[i], Low(program_stack[i]))'
      <4>1. CASE i = h
        BY <1>4, <2>2, <3>1, <3>2, <4>1
      <4>2. CASE i # h
        <5>1. PICK p \in State : p = program_stack[i]
          BY <2>2
        <5>2. Low(p) <= Idx(p) /\ Leads(p, Low(p)) /\ Low(p)' = Low(p)
          BY <1>6, <2>3, <4>2, <5>1 DEF Open, LowlinkFound
        <5>3. Leads(p, Low(p))'
          BY <1>5, <1>7, <5>2 DEF Leads
        <5> QED BY <1>5, <5>1, <5>2, <5>3
      <4> QED BY <4>1, <4>2
    <3> QED BY <3>3 DEF LowlinkFound
  <2>12. LowlinkBounds(b, h)'
    <3>1. SUFFICES ASSUME NEW x \in State, NEW i \in b+1..h, Under(h, i, x),
                          NEW k \in 1..Len(moves[x]), k < Cur(x)', On(moves[x][k])
                   PROVE  Low(program_stack[i])' <= Idx(moves[x][k])
      BY <1>5, <1>8, <2>5 DEF LowlinkBounds, Bounds
    <3>2. ASSUME k < Cur(x) PROVE Bounds(b, h, i, Idx(moves[x][k]))
      BY <3>1, <3>2 DEF Open, LowlinkBounds
    <3>3. Idx(moves[x][k]) \in Nat
      BY <1>8, <1>9 DEF FieldTypes
    <3>4. CASE i = h
      <4>1. CASE k < Cur(x)
        <5>1. Low(t) <= Idx(moves[x][k]) \/ low <= Idx(moves[x][k])
          <6>1. CASE Low(t) <= Idx(moves[x][k])
            BY <6>1
          <6>2. CASE Returned(b, h) /\ Low(c) <= Idx(moves[x][k])
            BY <1>9, <3>3, <6>2 DEF FieldTypes
          <6> QED BY <2>2, <3>2, <3>4, <4>1, <6>1, <6>2 DEF Bounds
        <5>2. low <= Idx(moves[x][k])
          BY <1>9, <3>3, <5>1 DEF FieldTypes
        <5> QED BY <1>4, <2>2, <3>4, <5>2
      <4>2. CASE ~ (k < Cur(x))
        <5>1. x = t /\ k = Cur(t)
          BY <1>4, <1>6, <1>9, <3>1, <4>2 DEF FieldTypes
        <5> QED BY <1>4, <2>2, <3>1, <3>4, <5>1
      <4> QED BY <4>1, <4>2
    <3>5. CASE i # h
      <4>1. x # t
        <5>1. Idx(x) < Idx(program_stack[i+1]) /\ i+1 \in b+1..h
          BY <2>2, <3>1, <3>5 DEF Under
        <5>2. Idx(program_stack[i+1]) <= Idx(t)
          <6>1. program_stack[i+1] \in State /\ Idx(t) \in Nat
            BY <1>9, <2>2, <5>1 DEF FieldTypes
          <6>2. CASE i+1 = h
            BY <2>2, <6>1, <6>2
          <6>3. CASE i+1 # h
            <7>1. i+1 < h
              BY <2>2, <5>1, <6>3
            <7>2. Idx(program_stack[i+1]) < Idx(program_stack[h])
              BY <2>2, <5>1, <7>1 DEF Open, Chain, OpenInOrder
            <7> QED BY <1>9, <2>2, <6>1, <7>2 DEF FieldTypes
          <6> QED BY <6>2, <6>3
        <5> QED BY <1>9, <2>2, <5>1, <5>2 DEF FieldTypes
      <4>2. k < Cur(x)
        BY <1>6, <3>1, <4>1
      <4>3. Low(program_stack[i])' = Low(program_stack[i])
        BY <1>6, <2>2, <2>3, <3>5
      <4> QED BY <3>2, <3>5, <4>2, <4>3 DEF Bounds
    <3> QED BY <3>4, <3>5
  <2>13. MarksBelow(b, h)'
    <3>1. SUFFICES ASSUME NEW x \in State, On(x), NEW k \in 1..Len(moves[x]), k < Cur(x)',
                          Closed(moves[x][k]), moves[x][k] \in useful
                   PROVE  \E z \in useful' : On(z) /\ Idx(x) <= Idx(z)
      <4>1. \A q \in State : Closed(q)' <=> Closed(q)
        BY <1>5 DEF Closed
      <4>2. useful' \subseteq State
        BY <1>10 DEF TypeOK
      <4>3. ASSUME NEW q \in State, Closed(q), q \in useful' PROVE q \in useful
        BY <1>3, <4>3 DEF Closed
      <4> QED BY <1>5, <1>8, <2>4, <3>1, <4>1, <4>2, <4>3 DEF MarksBelow, Done
    <3>2. CASE Done(b, h, x, k)
      BY <3>1, <3>2 DEF Open, MarksBelow
    <3>3. CASE ~ Done(b, h, x, k)
      <4>1. x = t /\ k = Cur(t) /\ ~ Returned(b, h)
        <5>1. ~ (k < Cur(x))
          BY <3>3 DEF Done
        <5>2. x = t
          BY <1>6, <3>1, <5>1
        <5>3. k = Cur(t)
          BY <1>4, <1>9, <3>1, <5>1, <5>2 DEF FieldTypes
        <5> QED BY <2>1, <2>2, <3>3, <5>2, <5>3 DEF Done
      <4>2. t \in useful' /\ On(t) /\ Idx(t) <= Idx(t)
        BY <1>3, <1>9, <3>1, <4>1 DEF FieldTypes
      <4> QED BY <4>1, <4>2
    <3> QED BY <3>2, <3>3
  <2>14. Open(b, h)'
    BY <2>1, <2>6, <2>7, <2>8, <2>9, <2>10, <2>11, <2>12, <2>13 DEF Open, Chain
  <2>15. b \in 0..Depth' /\ h \in 0..Depth'
    BY <2>1
  <2> QED BY <2>14, <2>15 DEF OpenSomewhere
<1> QED BY <1>7, <1>10, <1>11, <1>12, <1>13, <1>14, <1>15, <1>16 DEF Inv

(* While moves are followed the stack is not empty and a call is open.     *)
LEMMA WhileFollowing ==
  ASSUME Inv, pc = "moves"
  PROVE  /\ program_stack # << >> /\ TopFacts /\ Basics
         /\ \E b, h \in 0..Depth : Open(b, h) /\ b < h /\ h = Depth
         /\ On(top) /\ Seen(top)
<1>1. PICK b, h \in 0..Depth : Open(b, h)
  BY DEF Inv, OpenSomewhere
<1>2. program_stack \in Seq(State) /\ Basics
  BY BasicFacts DEF Inv, TypeOK
<1>3. program_stack # << >>
  <2>1. b < h /\ h <= Depth /\ b \in Nat /\ h \in Nat
    BY <1>1 DEF Open, Chain, Phase
  <2>2. Len(<< >>) = 0
    OBVIOUS
  <2> QED BY <2>1, <2>2 DEF Depth
<1>4. TopFacts
  BY <1>2, <1>3, TopOfStack
<1> QED BY <1>1, <1>2, <1>3, <1>4, TopStands

(* FollowMove looks at a target that was discovered before.                *)
LEMMA FollowMoveHolds ==
  ASSUME Inv, FollowMove
  PROVE  Inv'
<1>1. program_stack # << >> /\ TopFacts /\ Basics /\ On(top) /\ Seen(top)
  BY WhileFollowing DEF FollowMove
<1>2. PICK b, h \in 0..Depth : Open(b, h) /\ b < h /\ h = Depth
  BY WhileFollowing DEF FollowMove
<1>3. PICK t \in State : t = top
  BY <1>1 DEF TopFacts
<1>4. Cur(t) \in 1..Len(moves[t])
  <2>1. Cur(t) \in Nat /\ Cur(t) >= 1 /\ Cur(t) <= Len(moves[t])
    BY <1>1, <1>3 DEF FollowMove, Basics, FieldTypes, Cur
  <2>2. Len(moves[t]) \in Nat
    BY <1>3, LenProperties DEF Inv, Graph
  <2> QED BY <2>1, <2>2
<1>5. PICK c \in State : c = moves[t][Cur(t)] /\ c = current_target
  BY <1>1, <1>3, <1>4 DEF Basics, ReachLaws, current_target, Cur
<1>6. Seen(c) /\ Reach(t, c)
  <2>1. Reach(t, moves[t][Cur(t)])
    BY <1>1, <1>4 DEF Basics, ReachLaws
  <2> QED BY <1>5, <2>1 DEF FollowMove, Seen
<1>7. PICK low : low = IF On(c) THEN Least(Low(t), Idx(c)) ELSE Low(t)
  OBVIOUS
<1>8. /\ Low(t) \in Nat /\ Idx(c) \in Nat
      /\ low \in Nat /\ low <= Low(t) /\ (On(c) => low <= Idx(c))
      /\ low = Low(t) \/ (On(c) /\ low = Idx(c))
  <2>1. Low(t) \in Nat /\ Idx(c) \in Nat
    BY <1>1 DEF Basics, FieldTypes
  <2> QED BY <1>7, <2>1 DEF Least
<1>9. Leads(t, low)
  <2>1. Leads(t, Low(t))
    <3>1. h \in b+1..h /\ program_stack[h] = t
      BY <1>1, <1>2, <1>3 DEF Open, TopFacts
    <3> QED BY <1>2, <3>1 DEF Open, LowlinkFound
  <2>2. On(c) => Leads(t, Idx(c))
    BY <1>6 DEF Leads
  <2> QED BY <1>8, <2>1, <2>2
<1>10. node' = [node EXCEPT ![t] = Moved(node[t], low)]
  <2>1. node' = [node EXCEPT ![top] =
                   Moved(node[top], IF node[current_target].on_stack
                                    THEN Least(node[top].lowlink, node[current_target].index)
                                    ELSE node[top].lowlink)]
    BY Zenon DEF FollowMove
  <2>2. low = IF node[current_target].on_stack
              THEN Least(node[top].lowlink, node[current_target].index)
              ELSE node[top].lowlink
    BY <1>3, <1>5, <1>7 DEF On, Low, Idx
  <2> QED BY <1>3, <2>1, <2>2
<1>11. /\ useful' = IF c \in useful THEN useful \cup {t} ELSE useful
       /\ UNCHANGED <<moves, initial, final, program_stack, tarjan_stack, index_cnt, sccs>>
       /\ UNCHANGED <<final_scc, accepting_state, acyclic, flat>>
       /\ pc' = "moves"
  BY <1>3, <1>5 DEF FollowMove, SuccDiscover, input
<1>12. ~ Returned(b, h)
  BY DEF FollowMove, Returned
<1> QED BY <1>1, <1>2, <1>3, <1>4, <1>5, <1>6, <1>8, <1>9, <1>10, <1>11, <1>12, MoveDone

(* Resume merges the lowlink of a call that has returned.                  *)
LEMMA ResumeHolds ==
  ASSUME Inv, Resume
  PROVE  Inv'
<1>1. program_stack # << >> /\ TopFacts /\ Basics
  BY TopOfStack, BasicFacts DEF Inv, TypeOK, Resume
<1>2. PICK b, h \in 0..Depth : Open(b, h)
  BY DEF Inv, OpenSomewhere
<1>3. On(top) /\ Seen(top)
  BY DEF Resume, On, Seen
<1>4. b < h /\ h = Depth /\ Returned(b, h)
  BY <1>1, <1>2, <1>3, TopStands DEF Resume, Returned
<1>5. PICK t \in State : t = top
  BY <1>1 DEF TopFacts
<1>6. h \in b+1..h /\ program_stack[h] = t
  BY <1>1, <1>2, <1>4, <1>5 DEF Open, TopFacts
<1>7. PICK c : c = moves[t][Cur(t)] /\ c = current_target
  BY <1>5 DEF current_target, Cur
<1>8. Cur(t) \in 1..Len(moves[t])
  <2>1. Cur(t) \in Nat /\ Cur(t) >= 1 /\ Len(moves[t]) \in Nat
    BY <1>1, <1>5, LenProperties DEF Basics, FieldTypes, Inv, Graph
  <2>2. Cur(t) <= Len(moves[t])
    BY <1>2, <1>4, <1>6 DEF Open, ReturnRight
  <2> QED BY <2>1, <2>2
<1>9. c \in State /\ Reach(t, c)
  <2>1. moves[t][Cur(t)] \in State /\ Reach(t, moves[t][Cur(t)])
    BY <1>1, <1>8 DEF Basics, ReachLaws
  <2> QED BY <1>7, <2>1
<1>10. /\ Seen(c) /\ Idx(t) < Idx(c)
       /\ On(c) => Leads(c, Low(c))
       /\ ~ On(c) => Low(t) <= Low(c)
  BY <1>2, <1>4, <1>6, <1>7, <1>9 DEF Open, ReturnRight
<1>11. Low(t) <= Idx(t) /\ Leads(t, Low(t))
  BY <1>2, <1>6 DEF Open, LowlinkFound
<1>12. PICK low : low = Least(Low(t), Low(c))
  OBVIOUS
<1>13. /\ Low(t) \in Nat /\ Low(c) \in Nat /\ Idx(t) \in Nat /\ Idx(c) \in Nat
       /\ low \in Nat /\ low <= Low(t) /\ low <= Low(c)
       /\ low = Low(t) \/ (low = Low(c) /\ ~ (Low(t) <= Low(c)))
  <2>1. Low(t) \in Nat /\ Low(c) \in Nat /\ Idx(t) \in Nat /\ Idx(c) \in Nat
    BY <1>1, <1>9 DEF Basics, FieldTypes
  <2> QED BY <1>12, <2>1 DEF Least
<1>14. Leads(t, low)
  <2>1. CASE low = Low(t)
    BY <1>11, <2>1
  <2>2. CASE low # Low(t)
    <3>1. PICK y \in State : On(y) /\ Idx(y) = low /\ Reach(c, y)
      BY <1>10, <1>13, <2>2 DEF Leads
    <3>2. Reach(t, y)
      BY <1>1, <1>9, <3>1 DEF Basics, ReachLaws
    <3> QED BY <3>1, <3>2 DEF Leads
  <2> QED BY <2>1, <2>2
<1>15. On(c) => low <= Idx(c)
  BY <1>10, <1>11, <1>13
<1>16. node' = [node EXCEPT ![t] = Moved(node[t], low)]
  <2>1. node' = [node EXCEPT ![top] =
                   Moved(node[top], Least(node[top].lowlink, node[current_target].lowlink))]
    BY DEF Resume
  <2>2. low = Least(node[top].lowlink, node[current_target].lowlink)
    BY <1>5, <1>7, <1>12 DEF Low
  <2> QED BY <1>5, <2>1, <2>2
<1>17. /\ useful' = useful
       /\ UNCHANGED <<moves, initial, final, program_stack, tarjan_stack, index_cnt, sccs>>
       /\ UNCHANGED <<final_scc, accepting_state, acyclic, flat>>
       /\ pc' = "moves"
  BY DEF Resume, input, clients
<1> QED BY <1>1, <1>2, <1>4, <1>5, <1>7, <1>8, <1>9, <1>10, <1>13, <1>14, <1>15, <1>16, <1>17,
           MoveDone

(* Discover visits a state for the first time.                             *)
LEMMA DiscoverHolds ==
  ASSUME Inv, Discover
  PROVE  Inv'
<1>1. program_stack # << >> /\ TopFacts /\ Basics
  BY TopOfStack, BasicFacts DEF Inv, TypeOK, Discover
<1>2. PICK b, h \in 0..Depth : Open(b, h)
  BY DEF Inv, OpenSomewhere
<1>3. PICK t \in State : t = top
  BY <1>1 DEF TopFacts
<1>4. ~ Seen(t)
  BY <1>3 DEF Discover, Seen
<1>5. node \in [State -> NodeData] /\ index_cnt \in Nat
  BY DEF Inv, TypeOK
<1>6. /\ node' \in [State -> NodeData]
      /\ \A q \in State : q # t =>
           /\ (Seen(q)' <=> Seen(q)) /\ (On(q)' <=> On(q))
           /\ Idx(q)' = Idx(q) /\ Low(q)' = Low(q) /\ Cur(q)' = Cur(q)
      /\ Seen(t)' /\ On(t)' /\ Idx(t)' = index_cnt /\ Low(t)' = index_cnt /\ Cur(t)' = 1
  BY <1>3, <1>5, DiscoverFields DEF Keeps
<1>7. /\ UNCHANGED <<moves, initial, final, program_stack, sccs>>
      /\ UNCHANGED <<final_scc, acyclic, flat>>
      /\ index_cnt' = index_cnt + 1 /\ tarjan_stack' = Append(tarjan_stack, t)
      /\ pc' = "moves"
      /\ useful' = IF t \in final THEN useful \cup {t} ELSE useful
      /\ accepting_state' = (accepting_state \/ t \in final)
  BY <1>3 DEF Discover, input
<1>8. Graph' /\ Succ' = Succ /\ \A p, q : Reach(p, q)' <=> Reach(p, q)
  BY <1>7, SameGraph DEF Inv
<1>9. \A p \in State : \A k \in 1..Len(moves[p]) : moves[p][k] \in State
  BY <1>1 DEF Basics, ReachLaws
<1>10. FieldTypes
  BY <1>1 DEF Basics
<1>11. \A q \in State : (On(q) => Seen(q)) /\ (Seen(q) => q # t /\ Idx(q) < index_cnt)
  BY <1>4 DEF Inv, Indexed
<1>12. \A q \in State : Closed(q)' <=> Closed(q)
  BY <1>6, <1>4 DEF Closed
<1>13. /\ tarjan_stack' \in Seq(State) /\ Len(tarjan_stack') = Len(tarjan_stack) + 1
       /\ Len(tarjan_stack) \in Nat
       /\ \A i \in 1..Len(tarjan_stack) : tarjan_stack'[i] = tarjan_stack[i]
       /\ tarjan_stack'[Len(tarjan_stack)+1] = t
       /\ Range(tarjan_stack') = Range(tarjan_stack) \cup {t}
  BY <1>7, AppendTo, LenProperties DEF Inv, TypeOK
<1>14. Indexed'
  <2> DEFINE S == {q \in State : Seen(q)}
  <2>1. {q \in State : Seen(q)'} = S \cup {t} /\ t \notin S
    BY <1>4, <1>6
  <2>2. IsFiniteSet(S) /\ Cardinality(S) = index_cnt
    BY TarjanAssumption, FS_Subset DEF TarjanAssumption, Inv, Indexed
  <2>3. Cardinality({q \in State : Seen(q)'}) = index_cnt + 1
    BY <2>1, <2>2, FS_AddElement
  <2>4. \A q \in State : On(q)' => Seen(q)'
    BY <1>6, <1>11
  <2>5. ASSUME NEW q \in State, Seen(q)' PROVE Idx(q)' < index_cnt'
    <3>1. CASE q = t
      BY <1>5, <1>6, <1>7, <3>1
    <3>2. CASE q # t
      <4>1. Idx(q)' = Idx(q) /\ Idx(q) < index_cnt /\ Idx(q) \in Nat
        BY <1>6, <1>10, <1>11, <2>5, <3>2 DEF FieldTypes
      <4> QED BY <1>5, <1>7, <4>1
    <3> QED BY <3>1, <3>2
  <2> QED BY <1>7, <2>3, <2>4, <2>5 DEF Indexed
<1>15. TypeOK'
  <2>1. index_cnt' \in 0..Cardinality(State)
    <3> DEFINE S == {q \in State : Seen(q)'}
    <3>1. S \in SUBSET State /\ Cardinality(S) = index_cnt'
      BY <1>14 DEF Indexed
    <3>2. Cardinality(S) <= Cardinality(State) /\ Cardinality(State) \in Nat
      BY <3>1, TarjanAssumption, FS_Subset, FS_CardinalityType DEF TarjanAssumption
    <3> QED BY <1>5, <1>7, <3>1, <3>2
  <2>2. useful' \subseteq State
    BY <1>7 DEF Inv, TypeOK
  <2>3. {final_scc', accepting_state', acyclic', flat'} \subseteq BOOLEAN
    BY <1>7, Zenon DEF Inv, TypeOK
  <2> QED BY <1>6, <1>7, <1>13, <2>1, <2>2, <2>3 DEF Inv, TypeOK
<1>16. OnStackAgrees'
  BY <1>6, <1>13 DEF Inv, OnStackAgrees, On
<1>17. StackOrdered'
  <2>1. \A i \in 1..Len(tarjan_stack) : tarjan_stack[i] \in State /\ On(tarjan_stack[i])
    <3>1. \A i \in 1..Len(tarjan_stack) : tarjan_stack[i] \in Range(tarjan_stack)
      BY RangeEquality DEF Inv, TypeOK
    <3> QED BY <3>1 DEF Inv, OnStackAgrees, On
  <2>2. SUFFICES ASSUME NEW j \in 1..Len(tarjan_stack)+1, NEW k \in 1..Len(tarjan_stack)+1, j < k
                 PROVE  Idx(tarjan_stack[j])' < Idx(tarjan_stack[k])'
    BY <1>13 DEF StackOrdered
  <2>3. j \in 1..Len(tarjan_stack)
    BY <1>13, <2>2
  <2>4. PICK p \in State : p = tarjan_stack[j] /\ On(p) /\ p = tarjan_stack'[j]
    BY <1>13, <2>1, <2>3
  <2>5. Idx(p)' = Idx(p) /\ Idx(p) < index_cnt
    BY <1>6, <1>11, <2>4
  <2>6. CASE k \in 1..Len(tarjan_stack)
    <3>1. PICK q \in State : q = tarjan_stack[k] /\ On(q) /\ q = tarjan_stack'[k]
      BY <1>13, <2>1, <2>6
    <3>2. Idx(q)' = Idx(q)
      BY <1>6, <1>11, <3>1
    <3>3. Idx(p) < Idx(q)
      BY <2>2, <2>3, <2>4, <2>6, <3>1 DEF Inv, StackOrdered
    <3> QED BY <2>4, <2>5, <3>1, <3>2, <3>3
  <2>7. CASE k \notin 1..Len(tarjan_stack)
    <3>1. k = Len(tarjan_stack) + 1
      BY <1>13, <2>7
    <3> QED BY <1>6, <1>13, <2>4, <2>5, <3>1
  <2> QED BY <2>6, <2>7
<1>18. DoneSeen'
  BY <1>6, <1>7, <1>9, <1>11 DEF Inv, DoneSeen
<1>19. IsGraph(Succ) /\ DOMAIN Succ = State /\ Range(initial) \in SUBSET State
  BY GraphOfMoves, RangeOfSeq DEF Inv, TypeOK
<1> PICK d : d = Depth
  OBVIOUS
<1>20. /\ d \in Nat /\ d >= 1 /\ program_stack[d] = t /\ Depth' = d
       /\ b \in Nat /\ h \in Nat /\ b <= h
       /\ \A i \in 1..d : program_stack[i] \in State
  BY <1>1, <1>2, <1>3, <1>7 DEF Basics, TopFacts, Depth, Open
<1>21. \/ b = d /\ h = d
       \/ b < h /\ h = d - 1 /\ Calls(program_stack[h], t)
  BY <1>1, <1>2, <1>3, <1>4, <1>20, TopStands DEF Open, Chain, CalledOnTop
<1>22. t \in Closure(Succ, Range(initial))
  <2>1. CASE b = d
    <3>1. t \in Range(initial)
      BY <1>2, <1>20, <2>1 DEF Open, Chain, Pending
    <3> QED BY <1>19, <3>1, ClosureContains
  <2>2. CASE b < h /\ h = d - 1 /\ Calls(program_stack[h], t)
    <3>1. PICK p \in State : p = program_stack[h] /\ Calls(p, t)
      BY <1>20, <2>2
    <3>2. On(p)
      BY <1>2, <1>20, <2>2, <3>1 DEF Open, Chain, OpenOnStack
    <3>3. p \in Closure(Succ, Range(initial))
      BY <1>11, <3>1, <3>2 DEF Inv, Found
    <3>4. Reaches(Succ, p, t)
      BY <1>1, <3>1 DEF Basics, ReachLaws, Calls, Reach
    <3> QED BY <1>19, <3>3, <3>4, ClosureReaches
  <2> QED BY <1>21, <2>1, <2>2
<1>23. Found'
  <2>1. \A q \in Range(initial) : Seen(q)' \/ q \in Range(program_stack)
    BY <1>6, <1>19 DEF Inv, Found
  <2>2. \A q \in State : Seen(q)' => q \in Closure(Succ, Range(initial))
    BY <1>6, <1>22 DEF Inv, Found
  <2>3. \A q \in State : \A r \in Succ[q] : r \in State
    BY <1>1 DEF Basics, ReachLaws
  <2> QED BY <1>7, <1>8, <1>12, <2>1, <2>2, <2>3 DEF Inv, Found
<1>24. Marks'
  <2>1. final \subseteq State /\ useful \subseteq State
    BY DEF Inv, TypeOK
  <2>2. t \in final => t \in CoClosure(Succ, final)
    BY <1>19, ReachesSelf DEF CoClosure, Reaches
  <2>3. \A q \in useful' : Seen(q)' /\ q \in CoClosure(Succ, final)
    BY <1>6, <1>7, <2>1, <2>2 DEF Inv, Marks
  <2>4. \A q \in State : Seen(q)' /\ q \in final => q \in useful'
    BY <1>6, <1>7 DEF Inv, Marks
  <2>5. \A q \in State : Closed(q) /\ q \in CoClosure(Succ, final) => q \in useful'
    BY <1>7 DEF Inv, Marks
  <2> QED BY <1>7, <1>8, <1>12, <2>3, <2>4, <2>5 DEF Inv, Marks
<1>25. Reports'
  <2>1. final \subseteq State
    BY DEF Inv, TypeOK
  <2>2. accepting_state' <=> \E q \in final : Seen(q)'
    BY <1>6, <1>7, <2>1 DEF Inv, Reports
  <2> QED BY <1>7, <2>2 DEF Inv, Reports, MovesInside
<1>26. OpenSomewhere'
  <2> PICK b1 : b1 = IF b = d THEN d - 1 ELSE b
    OBVIOUS
  <2>1. /\ b1 \in Nat /\ b1 < d /\ b1 <= b /\ d \in b1+1..d
        /\ \A i \in b1+1..d : i # d => i \in b+1..h /\ i < d /\ h = d - 1 /\ b1 = b
        /\ \A i \in b+1..h : h = d - 1 /\ b1 = b /\ i \in b1+1..d /\ i # d
    BY <1>20, <1>21
  <2>2. /\ \A i \in b1+1..d : program_stack[i] \in State
        /\ \A i \in b+1..h : program_stack[i] \in State /\ On(program_stack[i])
    BY <1>2, <1>20, <2>1 DEF Open, Chain, OpenOnStack
  <2>3. \A i \in b1+1..d : i # d => program_stack[i] # t /\ On(program_stack[i])
    BY <1>11, <2>1, <2>2
  <2>4. ~ Returned(b, h) /\ ~ Returned(b1, d)'
    BY <1>7, <1>20, <1>21 DEF Returned
  <2>5. Pending(b1)' /\ OpenOnStack(b1, d)'
    <3>1. Pending(b1)'
      BY <1>2, <1>7, <1>20, <2>1 DEF Open, Chain, Pending
    <3>2. OpenOnStack(b1, d)'
      BY <1>6, <1>7, <1>20, <2>2, <2>3 DEF OpenOnStack
    <3> QED BY <3>1, <3>2
  <2>6. OpenInOrder(b1, d)'
    <3>1. SUFFICES ASSUME NEW i \in b1+1..d, NEW j \in b1+1..d, i < j
                   PROVE  Idx(program_stack[i])' < Idx(program_stack[j])'
      BY DEF OpenInOrder
    <3>2. i # d
      BY <2>1, <3>1
    <3>3. PICK p \in State : p = program_stack[i] /\ On(p) /\ p # t
      BY <2>2, <2>3, <3>2
    <3>4. Idx(p)' = Idx(p) /\ Idx(p) < index_cnt
      BY <1>6, <1>11, <3>3
    <3>5. CASE j = d
      BY <1>6, <1>7, <1>20, <3>3, <3>4, <3>5
    <3>6. CASE j # d
      <4>1. PICK q \in State : q = program_stack[j] /\ q # t
        BY <2>2, <2>3, <3>6
      <4>2. Idx(p) < Idx(q)
        BY <1>2, <2>1, <3>1, <3>2, <3>3, <3>6, <4>1 DEF Open, Chain, OpenInOrder
      <4> QED BY <1>6, <1>7, <3>3, <3>4, <4>1, <4>2
    <3> QED BY <3>5, <3>6
  <2>7. OpenCalls(b1, d)'
    <3>1. SUFFICES ASSUME NEW i \in b1+1..d-1
                   PROVE  Calls(program_stack[i], program_stack[i+1])'
      BY DEF OpenCalls
    <3>2. i \in b1+1..d /\ i # d /\ i \in b+1..h /\ h = d-1
      BY <2>1, <3>1
    <3>3. PICK p \in State : p = program_stack[i] /\ p # t
      BY <2>2, <2>3, <3>2
    <3>4. Calls(p, program_stack[i+1])
      <4>1. CASE i = h
        BY <1>20, <1>21, <3>2, <3>3, <4>1
      <4>2. CASE i # h
        BY <1>2, <1>20, <3>2, <3>3, <4>2 DEF Open, Chain, OpenCalls
      <4> QED BY <4>1, <4>2
    <3> QED BY <1>6, <1>7, <3>3, <3>4 DEF Calls
  <2>8. CalledOnTop(b1, d)' /\ Phase(b1, d)' /\ ReturnRight(b1, d)'
    BY <1>7, <1>20, <2>1, <2>4 DEF CalledOnTop, Phase, ReturnRight
  <2>9. ASSUME NEW x \in State, x # t, NEW i \in b1+1..d, i # d
        PROVE  Under(d, i, x)' <=> Under(h, i, x)
    <3>1. PICK p \in State : p = program_stack[i] /\ p # t
      BY <2>2, <2>3, <2>9
    <3>2. i < d /\ i+1 \in b1+1..d /\ h = d-1
      BY <2>1, <2>9
    <3>3. CASE i+1 = d
      <4>1. On(x) => Idx(x) < index_cnt
        BY <1>11
      <4> QED BY <1>6, <1>7, <1>20, <2>9, <3>1, <3>2, <3>3, <4>1 DEF Under
    <3>4. CASE i+1 # d
      <4>1. PICK q \in State : q = program_stack[i+1] /\ q # t
        BY <2>2, <2>3, <3>2, <3>4
      <4>2. i < h
        BY <1>20, <3>2, <3>4
      <4> QED BY <1>6, <1>7, <2>9, <3>1, <3>2, <4>1, <4>2 DEF Under
    <3> QED BY <3>3, <3>4
  <2>10. ASSUME NEW x \in State, x # t, On(x) PROVE ~ (index_cnt <= Idx(x))
    BY <1>5, <1>10, <1>11, <2>10 DEF FieldTypes
  <2>11. Owned(b1, d)'
    <3>1. SUFFICES ASSUME NEW x \in State, On(x)'
                   PROVE  \E i \in b1+1..d : Under(d, i, x)' /\ Reach(x, program_stack[i])
      BY <1>7, <1>8 DEF Owned
    <3>2. CASE x = t
      <4>1. Under(d, d, x)'
        BY <1>6, <1>7, <1>20, <1>5, <3>2 DEF Under
      <4>2. Reach(x, program_stack[d])
        BY <1>1, <1>20, <3>2 DEF Basics, ReachLaws
      <4> QED BY <2>1, <4>1, <4>2
    <3>3. CASE x # t
      <4>1. PICK i \in b+1..h : Under(h, i, x) /\ Reach(x, program_stack[i])
        BY <1>2, <1>6, <3>1, <3>3 DEF Open, Owned
      <4>2. i \in b1+1..d /\ i # d
        BY <2>1, <4>1
      <4> QED BY <2>9, <3>3, <4>1, <4>2
    <3> QED BY <3>2, <3>3
  <2>12. ReachedFromOpen(b1, d)'
    <3>1. SUFFICES ASSUME NEW x \in State, NEW i \in b1+1..d, On(x)',
                          Idx(program_stack[i])' <= Idx(x)'
                   PROVE  Reach(program_stack[i], x)
      BY <1>7, <1>8 DEF ReachedFromOpen
    <3>2. CASE x = t
      <4>1. CASE i = d
        BY <1>1, <1>20, <3>2, <4>1 DEF Basics, ReachLaws
      <4>2. CASE i # d
        <5>1. i \in b+1..h /\ h = d-1 /\ h \in b+1..h
          BY <2>1, <4>2
        <5>2. PICK p, q \in State : p = program_stack[i] /\ q = program_stack[h] /\ On(q)
          BY <2>2, <5>1
        <5>3. Idx(p) <= Idx(q)
          <6>1. Idx(p) \in Nat
            BY <1>10 DEF FieldTypes
          <6>2. CASE i = h
            BY <5>2, <6>1, <6>2
          <6>3. CASE i # h
            <7>1. i < h
              BY <5>1, <6>3
            <7>2. Idx(p) < Idx(q)
              BY <1>2, <5>1, <5>2, <7>1 DEF Open, Chain, OpenInOrder
            <7> QED BY <1>10, <7>2 DEF FieldTypes
          <6> QED BY <6>2, <6>3
        <5>4. Reach(p, q)
          BY <1>2, <5>1, <5>2, <5>3 DEF Open, ReachedFromOpen
        <5>5. Calls(q, t)
          BY <1>20, <1>21, <5>1, <5>2
        <5>6. Reach(q, t)
          BY <1>1, <5>5 DEF Basics, ReachLaws, Calls
        <5> QED BY <1>1, <3>2, <5>2, <5>4, <5>6 DEF Basics, ReachLaws
      <4> QED BY <4>1, <4>2
    <3>3. CASE x # t
      <4>1. On(x) /\ Idx(x)' = Idx(x) /\ ~ (index_cnt <= Idx(x))
        BY <1>6, <2>10, <3>1, <3>3
      <4>2. i # d
        BY <1>6, <1>7, <1>20, <3>1, <4>1
      <4>3. PICK p \in State : p = program_stack[i] /\ p # t
        BY <2>2, <2>3, <4>2
      <4>4. Idx(p) <= Idx(x)
        BY <1>6, <1>7, <3>1, <4>1, <4>3
      <4> QED BY <1>2, <2>1, <4>1, <4>2, <4>3, <4>4 DEF Open, ReachedFromOpen
    <3> QED BY <3>2, <3>3
  <2>13. AllMovesDone(b1, d)'
    <3>1. SUFFICES ASSUME NEW x \in State, On(x)', \A i \in b1+1..d : x # program_stack[i]
                   PROVE  Cur(x)' > Len(moves[x])
      BY <1>7 DEF AllMovesDone
    <3>2. x # t
      BY <1>20, <2>1, <3>1
    <3>3. On(x) /\ Cur(x)' = Cur(x)
      BY <1>6, <3>1, <3>2
    <3>4. \A i \in b+1..h : x # program_stack[i]
      BY <2>1, <3>1
    <3> QED BY <1>2, <3>3, <3>4 DEF Open, AllMovesDone
  <2>14. LowlinkFound(b1, d)'
    <3>1. SUFFICES ASSUME NEW i \in b1+1..d
                   PROVE  Low(program_stack[i])' <= Idx(program_stack[i])'
                          /\ Leads(program_stack[i], Low(program_stack[i]))'
      BY DEF LowlinkFound
    <3>2. CASE i = d
      <4>1. Reach(t, t)' /\ On(t)' /\ Idx(t)' = Low(t)' /\ Low(t)' <= Idx(t)'
        BY <1>1, <1>5, <1>6, <1>8 DEF Basics, ReachLaws
      <4>2. Leads(t, Low(t))'
        BY <4>1 DEF Leads
      <4> QED BY <1>7, <1>20, <3>2, <4>1, <4>2
    <3>3. CASE i # d
      <4>1. PICK p \in State : p = program_stack[i] /\ p # t
        BY <2>2, <2>3, <3>3
      <4>2. Low(p) <= Idx(p) /\ Leads(p, Low(p))
        BY <1>2, <2>1, <3>3, <4>1 DEF Open, LowlinkFound
      <4>3. PICK y \in State : On(y) /\ Idx(y) = Low(p) /\ Reach(p, y)
        BY <4>2 DEF Leads
      <4>4. On(y)' /\ Idx(y)' = Low(p)' /\ Reach(p, y)'
        BY <1>6, <1>8, <1>11, <4>1, <4>3
      <4>5. Leads(p, Low(p))'
        BY <4>4 DEF Leads
      <4> QED BY <1>6, <1>7, <4>1, <4>2, <4>5
    <3> QED BY <3>2, <3>3
  <2>15. LowlinkBounds(b1, d)'
    <3>1. SUFFICES ASSUME NEW x \in State, NEW i \in b1+1..d, Under(d, i, x)',
                          NEW k \in 1..Len(moves[x]), k < Cur(x)', On(moves[x][k])'
                   PROVE  Low(program_stack[i])' <= Idx(moves[x][k])'
      BY <1>7 DEF LowlinkBounds, Bounds
    <3>2. x # t /\ On(x)'
      BY <1>6, <3>1 DEF Under
    <3>3. On(x) /\ Cur(x)' = Cur(x) /\ Idx(x)' = Idx(x) /\ ~ (index_cnt <= Idx(x))
      BY <1>6, <2>10, <3>2
    <3>4. i # d
      BY <1>6, <1>7, <1>20, <3>1, <3>3 DEF Under
    <3>5. i \in b+1..h /\ Under(h, i, x)
      BY <2>1, <2>9, <3>1, <3>2, <3>4
    <3>6. PICK y \in State : y = moves[x][k]
      BY <1>9
    <3>7. Seen(y) /\ y # t
      BY <1>11, <3>1, <3>3, <3>6 DEF Inv, DoneSeen
    <3>8. On(y) /\ Idx(y)' = Idx(y)
      BY <1>6, <1>7, <3>1, <3>6, <3>7
    <3>9. Low(program_stack[i]) <= Idx(y)
      BY <1>2, <2>4, <3>1, <3>3, <3>5, <3>6, <3>8 DEF Open, LowlinkBounds, Bounds
    <3>10. PICK p \in State : p = program_stack[i] /\ p # t
      BY <2>2, <2>3, <3>4
    <3> QED BY <1>6, <1>7, <3>6, <3>8, <3>9, <3>10
  <2>16. MarksBelow(b1, d)'
    <3>1. SUFFICES ASSUME NEW x \in State, On(x)', NEW k \in 1..Len(moves[x]), k < Cur(x)',
                          Closed(moves[x][k]), moves[x][k] \in useful'
                   PROVE  \E z \in useful' : On(z)' /\ Idx(x)' <= Idx(z)'
      BY <1>7, <1>9, <1>12, <2>4 DEF MarksBelow, Done
    <3>2. x # t
      BY <1>6, <3>1
    <3>3. On(x) /\ Cur(x)' = Cur(x) /\ Idx(x)' = Idx(x)
      BY <1>6, <3>1, <3>2
    <3>4. moves[x][k] # t
      BY <1>4, <3>1 DEF Closed
    <3>5. moves[x][k] \in useful
      BY <1>7, <3>1, <3>4
    <3>6. Done(b, h, x, k)
      BY <3>1, <3>3 DEF Done
    <3>7. PICK z \in useful : On(z) /\ Idx(x) <= Idx(z)
      BY <1>2, <3>1, <3>3, <3>5, <3>6 DEF Open, MarksBelow
    <3>8. z \in State /\ z # t /\ z \in useful'
      BY <1>7, <1>11, <3>7 DEF Inv, TypeOK
    <3> QED BY <1>6, <3>3, <3>7, <3>8
  <2>17. Open(b1, d)'
    BY <1>20, <2>1, <2>5, <2>6, <2>7, <2>8, <2>11, <2>12, <2>13, <2>14, <2>15, <2>16
       DEF Open, Chain
  <2>18. b1 \in 0..Depth' /\ d \in 0..Depth'
    BY <1>20, <2>1
  <2> QED BY <2>17, <2>18 DEF OpenSomewhere
<1> QED BY <1>8, <1>14, <1>15, <1>16, <1>17, <1>18, <1>23, <1>24, <1>25, <1>26 DEF Inv

(* CloseMember ends the call for a state that is not a root: its owner is  *)
(* from then on the state that called it.                                  *)
LEMMA CloseMemberHolds ==
  ASSUME Inv, CloseMember
  PROVE  Inv'
<1>1. program_stack # << >> /\ TopFacts /\ Basics /\ On(top) /\ Seen(top)
  BY WhileFollowing DEF CloseMember
<1>2. PICK b, h \in 0..Depth : Open(b, h) /\ b < h /\ h = Depth
  BY WhileFollowing DEF CloseMember
<1>3. PICK t \in State : t = top
  BY <1>1 DEF TopFacts
<1>4. /\ UNCHANGED <<moves, initial, final, tarjan_stack, node, index_cnt, sccs, useful>>
      /\ UNCHANGED <<final_scc, accepting_state, acyclic, flat>>
      /\ pc' = "main" /\ program_stack' = Front(program_stack)
  BY DEF CloseMember, input, clients
<1>5. Keeps(State)
  BY <1>4, UnchangedFields
<1>6. Graph' /\ Succ' = Succ /\ \A p, q : Reach(p, q)' <=> Reach(p, q)
  BY <1>4, SameGraph DEF Inv
<1>7. TypeOK'
  BY <1>1, <1>4 DEF Inv, TypeOK, TopFacts
<1>8. OnStackAgrees' /\ StackOrdered' /\ Indexed' /\ DoneSeen'
  BY <1>4 DEF Inv, OnStackAgrees, StackOrdered, Indexed, DoneSeen, Seen, On, Idx, Cur
<1>9. Found'
  <2>1. \A q \in Range(initial) : Seen(q) \/ q \in Range(program_stack)'
    BY <1>1, <1>4 DEF Inv, Found, TopFacts
  <2> QED BY <2>1, <1>4, <1>6 DEF Inv, Found, Closed, Seen, On
<1>10. Marks' /\ Reports'
  BY <1>4, <1>6 DEF Inv, Marks, Reports, Closed, Seen, On, MovesInside
<1> PICK d : d = Depth
  OBVIOUS
<1>11. /\ d \in Nat /\ d >= 1 /\ program_stack[d] = t /\ Depth' = d - 1
       /\ b \in Nat /\ b < d /\ h = d
       /\ \A i \in 1..d : program_stack[i] \in State
       /\ \A i \in 1..d-1 : program_stack'[i] = program_stack[i]
  BY <1>1, <1>2, <1>3, <1>4 DEF Basics, TopFacts, Depth, Open
<1>12. FieldTypes /\ ReachLaws
  BY <1>1 DEF Basics
<1>13. /\ Cur(t) > Len(moves[t]) /\ Low(t) < Idx(t) /\ Leads(t, Low(t)) /\ On(t) /\ Seen(t)
  <2>1. Low(t) <= Idx(t) /\ Leads(t, Low(t))
    <3>1. d \in b+1..h
      BY <1>11
    <3> QED BY <1>2, <1>11, <3>1 DEF Open, LowlinkFound
  <2>2. Cur(t) > Len(moves[t]) /\ Low(t) # Idx(t)
    BY <1>3 DEF CloseMember, Cur, Low, Idx
  <2>3. Low(t) \in Nat /\ Idx(t) \in Nat
    BY <1>12 DEF FieldTypes
  <2> QED BY <1>1, <1>3, <2>1, <2>2, <2>3
<1>14. PICK y \in State : On(y) /\ Idx(y) = Low(t) /\ Reach(t, y)
  BY <1>13 DEF Leads
<1>15. PICK j \in b+1..h : Under(h, j, y) /\ Reach(y, program_stack[j])
  BY <1>2, <1>14 DEF Open, Owned
<1>16. j \in b+1..d-1 /\ b < d-1
  <2>1. j # d
    <3>1. ~ (Idx(t) <= Idx(y))
      BY <1>12, <1>13, <1>14 DEF FieldTypes
    <3> QED BY <1>11, <1>15, <3>1 DEF Under
  <2> QED BY <1>11, <1>15, <2>1
<1>17. PICK c \in State : c = program_stack[d-1]
  BY <1>11, <1>16
<1>18. Calls(c, t) /\ Idx(c) < Idx(t) /\ On(c)
  <2>1. d-1 \in b+1..h-1 /\ d-1 \in b+1..h /\ d \in b+1..h /\ d-1 < d /\ (d-1)+1 = d
    BY <1>11, <1>16
  <2>2. Calls(c, t)
    BY <1>2, <1>11, <1>17, <2>1 DEF Open, Chain, OpenCalls
  <2>3. Idx(c) < Idx(t) /\ On(c)
    BY <1>2, <1>11, <1>17, <2>1 DEF Open, Chain, OpenInOrder, OpenOnStack
  <2> QED BY <2>2, <2>3
<1>19. Reach(t, c)
  <2>1. PICK p \in State : p = program_stack[j]
    BY <1>11, <1>15
  <2>2. Idx(p) <= Idx(c)
    <3>1. CASE j = d-1
      BY <1>12, <1>17, <2>1, <3>1 DEF FieldTypes
    <3>2. CASE j # d-1
      <4>1. j < d-1 /\ d-1 \in b+1..h
        BY <1>11, <1>16, <3>2
      <4>2. Idx(p) < Idx(c)
        BY <1>2, <1>15, <1>17, <2>1, <4>1 DEF Open, Chain, OpenInOrder
      <4> QED BY <1>12, <4>2 DEF FieldTypes
    <3> QED BY <3>1, <3>2
  <2>3. Reach(p, c)
    BY <1>2, <1>15, <1>17, <1>18, <2>1, <2>2 DEF Open, ReachedFromOpen
  <2>4. Reach(t, p)
    BY <1>12, <1>14, <1>15, <2>1 DEF ReachLaws
  <2> QED BY <1>12, <2>3, <2>4 DEF ReachLaws
<1> PICK e : e = d - 1
  OBVIOUS
<1>20. /\ e \in Nat /\ b < e /\ e < h /\ h = e+1 /\ Depth' = e
       /\ e \in b+1..h /\ h \in b+1..h /\ program_stack[e] = c /\ program_stack[h] = t
       /\ program_stack'[e] = c
       /\ \A i \in b+1..e : /\ i \in b+1..h /\ program_stack[i] \in State
                            /\ program_stack'[i] = program_stack[i]
                            /\ i # e => i < e /\ i < h /\ i+1 \in b+1..e
       /\ \A i \in b+1..h : i = h \/ i \in b+1..e
       /\ \A i \in 1..b : program_stack'[i] = program_stack[i]
  BY <1>11, <1>16, <1>17
<1>21. Pending(b)' /\ OpenOnStack(b, e)' /\ OpenInOrder(b, e)'
  <2>1. Pending(b)' /\ OpenOnStack(b, e)'
    BY <1>2, <1>4, <1>5, <1>20 DEF Open, Chain, Pending, OpenOnStack, Keeps
  <2>2. OpenInOrder(b, e)'
    BY <1>2, <1>5, <1>20 DEF Open, Chain, OpenInOrder, Keeps
  <2> QED BY <2>1, <2>2
<1>22. OpenCalls(b, e)'
  <2>1. SUFFICES ASSUME NEW i \in b+1..e-1
                 PROVE  Calls(program_stack[i], program_stack[i+1])'
    BY DEF OpenCalls
  <2>2. i \in b+1..e /\ i # e /\ i \in b+1..h-1 /\ i+1 \in b+1..e
    BY <1>20, <2>1
  <2>3. PICK p, q \in State : p = program_stack[i] /\ q = program_stack[i+1]
    BY <1>20, <2>2
  <2>4. Calls(p, q)
    BY <1>2, <2>2, <2>3 DEF Open, Chain, OpenCalls
  <2> QED BY <1>4, <1>5, <1>20, <2>2, <2>3, <2>4 DEF Calls, Keeps
<1>23. CalledOnTop(b, e)' /\ Phase(b, e)'
  BY <1>4, <1>20 DEF CalledOnTop, Phase
<1>24. ReturnRight(b, e)'
  <2>1. SUFFICES /\ Cur(c)' <= Len(moves[c])
                 /\ \A q \in State : q = moves[c][Cur(c)'] =>
                      /\ Seen(q)' /\ Idx(c)' < Idx(q)'
                      /\ On(q)' => Leads(q, Low(q))'
                      /\ ~ On(q)' => Low(c)' <= Low(q)'
    BY <1>4, <1>20 DEF ReturnRight
  <2>2. Cur(c)' = Cur(c) /\ Cur(c) <= Len(moves[c]) /\ moves[c][Cur(c)] = t
    BY <1>5, <1>12, <1>18 DEF Keeps, Calls, FieldTypes
  <2>3. Leads(t, Low(t))'
    BY <1>5, <1>6, <1>14 DEF Leads, Keeps
  <2> QED BY <1>5, <1>13, <1>18, <2>2, <2>3 DEF Keeps
<1>25. ASSUME NEW x \in State, NEW i \in b+1..e
       PROVE  /\ i # e => (Under(e, i, x)' <=> Under(h, i, x))
              /\ i = e => (Under(e, i, x)' <=> Under(h, e, x) \/ Under(h, h, x))
  <2>1. /\ On(x)' <=> On(x)
        /\ Idx(x)' = Idx(x) /\ Idx(x) \in Nat /\ Idx(c) \in Nat /\ Idx(t) \in Nat
    BY <1>5, <1>12 DEF Keeps, FieldTypes
  <2>2. PICK p \in State : p = program_stack[i] /\ p = program_stack'[i] /\ Idx(p)' = Idx(p)
    BY <1>5, <1>20 DEF Keeps
  <2>3. ASSUME i # e PROVE Under(e, i, x)' <=> Under(h, i, x)
    <3>1. PICK q \in State : /\ q = program_stack[i+1] /\ q = program_stack'[i+1]
                             /\ Idx(q)' = Idx(q)
      BY <1>5, <1>20, <2>3 DEF Keeps
    <3> QED BY <1>20, <2>1, <2>2, <2>3, <3>1 DEF Under
  <2>4. ASSUME i = e PROVE Under(e, i, x)' <=> Under(h, e, x) \/ Under(h, h, x)
    <3>1. Under(e, i, x)' <=> On(x) /\ Idx(c) <= Idx(x)
      BY <1>20, <2>1, <2>2, <2>4 DEF Under
    <3>2. Under(h, e, x) <=> On(x) /\ Idx(c) <= Idx(x) /\ Idx(x) < Idx(t)
      BY <1>20 DEF Under
    <3>3. Under(h, h, x) <=> On(x) /\ Idx(t) <= Idx(x)
      BY <1>20 DEF Under
    <3> QED BY <1>18, <2>1, <3>1, <3>2, <3>3
  <2> QED BY <2>3, <2>4
<1>26. Owned(b, e)'
  <2>1. SUFFICES ASSUME NEW x \in State, On(x)
                 PROVE  \E i \in b+1..e : Under(e, i, x)' /\ Reach(x, program_stack'[i])
    BY <1>5, <1>6 DEF Owned, Keeps
  <2>2. PICK i \in b+1..h : Under(h, i, x) /\ Reach(x, program_stack[i])
    BY <1>2, <2>1 DEF Open, Owned
  <2>3. CASE i = h
    <3>1. Reach(x, c)
      BY <1>12, <1>19, <1>20, <2>2, <2>3 DEF ReachLaws
    <3>2. e \in b+1..e /\ Under(e, e, x)'
      BY <1>20, <1>25, <2>2, <2>3
    <3> QED BY <1>20, <3>1, <3>2
  <2>4. CASE i # h
    <3>1. i \in b+1..e
      BY <1>20, <2>4
    <3> QED BY <1>20, <1>25, <2>2, <3>1
  <2> QED BY <2>3, <2>4
<1>27. ReachedFromOpen(b, e)'
  BY <1>2, <1>5, <1>6, <1>20 DEF Open, ReachedFromOpen, Keeps
<1>28. AllMovesDone(b, e)'
  <2>1. SUFFICES ASSUME NEW x \in State, On(x), \A i \in b+1..e : x # program_stack[i]
                 PROVE  Cur(x) > Len(moves[x])
    BY <1>4, <1>5, <1>20 DEF AllMovesDone, Keeps
  <2>2. CASE x = t
    BY <1>13, <2>2
  <2>3. CASE x # t
    BY <1>2, <1>20, <2>1, <2>3 DEF Open, AllMovesDone
  <2> QED BY <2>2, <2>3
<1>29. LowlinkFound(b, e)'
  <2>1. SUFFICES ASSUME NEW i \in b+1..e
                 PROVE  Low(program_stack[i])' <= Idx(program_stack[i])'
                        /\ Leads(program_stack[i], Low(program_stack[i]))'
    BY DEF LowlinkFound
  <2>2. PICK p \in State : p = program_stack[i] /\ p = program_stack'[i]
    BY <1>20
  <2>3. Low(p) <= Idx(p) /\ Leads(p, Low(p))
    BY <1>2, <1>20, <2>2 DEF Open, LowlinkFound
  <2>4. Leads(p, Low(p))'
    BY <1>5, <1>6, <2>2, <2>3 DEF Leads, Keeps
  <2> QED BY <1>5, <2>2, <2>3, <2>4 DEF Keeps
<1>30. LowlinkBounds(b, e)'
  <2>1. SUFFICES ASSUME NEW x \in State, NEW i \in b+1..e, Under(e, i, x)',
                        NEW k \in 1..Len(moves[x]), k < Cur(x), On(moves[x][k])
                 PROVE  Bounds(b, e, i, Idx(moves[x][k]))'
    <3>1. \A x \in State : \A k \in 1..Len(moves[x]) : moves[x][k] \in State
      BY <1>12 DEF ReachLaws
    <3> QED BY <1>4, <1>5, <2>1, <3>1 DEF LowlinkBounds, Keeps
  <2>2. ~ Returned(b, h)
    BY DEF CloseMember, Returned
  <2>3. PICK u \in State : u = moves[x][k] /\ Idx(u)' = Idx(u)
    BY <1>5, <1>12 DEF ReachLaws, Keeps
  <2>4. PICK p \in State : p = program_stack[i] /\ p = program_stack'[i] /\ Low(p)' = Low(p)
    BY <1>5, <1>20 DEF Keeps
  <2>5. CASE Under(h, i, x)
    <3>1. Low(p) <= Idx(u)
      BY <1>2, <1>20, <2>1, <2>2, <2>3, <2>4, <2>5 DEF Open, LowlinkBounds, Bounds
    <3> QED BY <1>4, <2>3, <2>4, <3>1 DEF Bounds
  <2>6. CASE ~ Under(h, i, x)
    <3>1. i = e /\ Under(h, h, x)
      BY <1>25, <2>1, <2>6
    <3>2. Low(t) <= Idx(u)
      BY <1>2, <1>20, <2>1, <2>2, <2>3, <3>1 DEF Open, LowlinkBounds, Bounds
    <3>3. moves[c][Cur(c)'] = t /\ Low(t)' = Low(t)
      BY <1>5, <1>18 DEF Keeps, Calls
    <3>4. Returned(b, e)'
      BY <1>4, <1>20 DEF Returned
    <3>5. Low(moves[program_stack[i]][Cur(program_stack[i])])' <= Idx(moves[x][k])'
      BY <1>4, <1>20, <2>3, <3>1, <3>2, <3>3
    <3> QED BY <3>1, <3>4, <3>5 DEF Bounds
  <2> QED BY <2>5, <2>6
<1>31. MarksBelow(b, e)'
  <2>1. SUFFICES ASSUME NEW x \in State, On(x), NEW k \in 1..Len(moves[x]), Done(b, e, x, k)',
                        Closed(moves[x][k]), moves[x][k] \in useful
                 PROVE  \E z \in useful : On(z) /\ Idx(x) <= Idx(z)
    <3>1. \A x \in State : \A k \in 1..Len(moves[x]) : moves[x][k] \in State
      BY <1>12 DEF ReachLaws
    <3>2. useful \subseteq State
      BY DEF Inv, TypeOK
    <3>3. \A q \in State : Closed(q)' <=> Closed(q)
      BY <1>5 DEF Closed, Keeps
    <3> QED BY <1>4, <1>5, <2>1, <3>1, <3>2, <3>3 DEF MarksBelow, Keeps
  <2>2. CASE k < Cur(x)
    BY <1>2, <2>1, <2>2 DEF Open, MarksBelow, Done
  <2>3. CASE ~ (k < Cur(x))
    <3>1. x = c /\ k = Cur(c)
      BY <1>5, <1>20, <2>1, <2>3 DEF Done, Keeps
    <3>2. moves[x][k] = t
      BY <1>18, <3>1 DEF Calls
    <3> QED BY <1>13, <2>1, <3>2 DEF Closed
  <2> QED BY <2>2, <2>3
<1>32. OpenSomewhere'
  <2>1. Open(b, e)'
    BY <1>11, <1>20, <1>21, <1>22, <1>23, <1>24, <1>26, <1>27, <1>28, <1>29, <1>30, <1>31
       DEF Open, Chain
  <2>2. b \in 0..Depth' /\ e \in 0..Depth'
    BY <1>11, <1>20
  <2> QED BY <2>1, <2>2 DEF OpenSomewhere
<1> QED BY <1>6, <1>7, <1>8, <1>9, <1>10, <1>32 DEF Inv

(* A state on the Tarjan stack leads to those discovered after it.         *)
LEMMA LowerReachesHigher ==
  ASSUME Inv
  PROVE  \A x, y \in State : On(x) /\ On(y) /\ Idx(x) < Idx(y) => Reach(x, y)
<1>1. PICK b, h \in 0..Depth : Open(b, h)
  BY DEF Inv, OpenSomewhere
<1>2. Basics
  BY BasicFacts DEF Inv
<1>3. SUFFICES ASSUME NEW x \in State, NEW y \in State, On(x), On(y), Idx(x) < Idx(y)
               PROVE  Reach(x, y)
  OBVIOUS
<1>4. PICK i \in b+1..h : Under(h, i, x) /\ Reach(x, program_stack[i])
  BY <1>1, <1>3 DEF Open, Owned
<1>5. PICK p \in State : p = program_stack[i]
  BY <1>1, <1>2 DEF Basics
<1>6. Idx(p) <= Idx(y)
  <2>1. Idx(p) \in Nat /\ Idx(x) \in Nat /\ Idx(y) \in Nat
    BY <1>2 DEF Basics, FieldTypes
  <2> QED BY <1>3, <1>4, <1>5, <2>1 DEF Under
<1>7. Reach(p, y)
  BY <1>1, <1>3, <1>5, <1>6 DEF Open, ReachedFromOpen
<1> QED BY <1>2, <1>4, <1>5, <1>7 DEF Basics, ReachLaws

(* What the client get_useful_states() relies on.                          *)
LEMMA StackLeadsUp ==
  ASSUME Inv
  PROVE  StackReachesTop
<1>1. /\ Len(tarjan_stack) \in Nat
      /\ \A i \in 1..Len(tarjan_stack) : tarjan_stack[i] \in State /\ On(tarjan_stack[i])
  <2>1. \A i \in 1..Len(tarjan_stack) : tarjan_stack[i] \in Range(tarjan_stack)
    BY RangeEquality DEF Inv, TypeOK
  <2>2. Len(tarjan_stack) \in Nat
    BY LenProperties DEF Inv, TypeOK
  <2> QED BY <2>1, <2>2 DEF Inv, OnStackAgrees, On
<1>2. ASSUME NEW j \in 1..Len(tarjan_stack), NEW k \in 1..j-1
      PROVE  Reach(tarjan_stack[k], tarjan_stack[j])
  <2>1. k \in 1..Len(tarjan_stack) /\ k < j
    BY <1>1
  <2>2. Idx(tarjan_stack[k]) < Idx(tarjan_stack[j])
    BY <2>1 DEF Inv, StackOrdered
  <2> QED BY <1>1, <2>1, <2>2, LowerReachesHigher
<1> QED BY <1>2 DEF StackReachesTop, Reach

\* The states from t up on the Tarjan stack.
Upwards(t) == {x \in State : On(x) /\ Idx(t) <= Idx(x)}

(* Upwards of a root there is exactly its component, with all moves done.  *)
LEMMA RootComponent ==
  ASSUME Inv, pc = "moves", NEW b, NEW h, Open(b, h), b < h, h = Depth,
         NEW t \in State, t = top, Cur(t) > Len(moves[t]), Low(t) = Idx(t)
  PROVE  /\ \A x \in Upwards(t) : Reach(x, t) /\ Reach(t, x)
         /\ \A x \in Upwards(t) : Cur(x) > Len(moves[x])
         /\ \A x \in Upwards(t) : \A r \in Succ[x] : r \in Upwards(t) \/ Closed(r)
         /\ Upwards(t) = {q \in State : Reach(t, q) /\ Reach(q, t)}
         /\ \A x \in State : On(x) /\ x \notin Upwards(t) =>
              \E i \in b+1..h-1 : Under(h, i, x) /\ Reach(x, program_stack[i])
<1>1. TopFacts /\ Basics /\ FieldTypes /\ ReachLaws /\ On(t)
  BY WhileFollowing DEF Basics
<1>2. /\ h \in Nat /\ b \in Nat /\ h \in b+1..h /\ program_stack[h] = t
      /\ \A i \in b+1..h : i # h => /\ i < h /\ i+1 \in b+1..h /\ i \in b+1..h-1
                                    /\ program_stack[i] \in State
                                    /\ program_stack[i+1] \in State
  BY <1>1 DEF Open, TopFacts, Basics
<1>3. \A x \in State : Idx(x) \in Nat
  BY <1>1 DEF FieldTypes
<1>4. ASSUME NEW i \in b+1..h, i # h
      PROVE  Idx(program_stack[i]) < Idx(t) /\ Idx(program_stack[i+1]) <= Idx(t)
  <2>1. Idx(program_stack[i]) < Idx(t)
    BY <1>2, <1>4 DEF Open, Chain, OpenInOrder
  <2>2. CASE i+1 = h
    BY <1>2, <1>3, <2>1, <2>2
  <2>3. CASE i+1 # h
    <3>1. i+1 \in b+1..h /\ i+1 < h /\ program_stack[i+1] \in State
      BY <1>2, <1>4, <2>3
    <3>2. Idx(program_stack[i+1]) < Idx(t)
      BY <1>2, <3>1 DEF Open, Chain, OpenInOrder
    <3> QED BY <1>3, <2>1, <3>1, <3>2
  <2> QED BY <2>2, <2>3
<1>5. ASSUME NEW x \in State, On(x), NEW i \in b+1..h, Under(h, i, x)
      PROVE  x \in Upwards(t) <=> i = h
  <2>1. CASE i = h
    BY <1>2, <1>5, <2>1 DEF Under, Upwards
  <2>2. CASE i # h
    <3>1. Idx(x) < Idx(program_stack[i+1])
      BY <1>2, <1>5, <2>2 DEF Under
    <3>2. Idx(x) < Idx(t)
      BY <1>2, <1>3, <1>4, <2>2, <3>1
    <3> QED BY <1>3, <2>2, <3>2 DEF Upwards
  <2> QED BY <2>1, <2>2
<1>6. ASSUME NEW x \in Upwards(t)
      PROVE  Reach(x, t) /\ Reach(t, x)
  <2>1. x \in State /\ On(x) /\ Idx(t) <= Idx(x)
    BY DEF Upwards
  <2>2. PICK i \in b+1..h : Under(h, i, x) /\ Reach(x, program_stack[i])
    BY <2>1 DEF Open, Owned
  <2>3. i = h
    BY <1>5, <2>1, <2>2
  <2> QED BY <1>2, <2>1, <2>2, <2>3 DEF Open, ReachedFromOpen
<1>7. ASSUME NEW x \in Upwards(t)
      PROVE  Cur(x) > Len(moves[x])
  <2>1. CASE x = t
    BY <2>1
  <2>2. CASE x # t
    <3>1. \A i \in b+1..h : x # program_stack[i]
      BY <1>2, <1>3, <1>4, <2>2 DEF Upwards
    <3> QED BY <3>1 DEF Open, AllMovesDone, Upwards
  <2> QED BY <2>1, <2>2
<1>8. ASSUME NEW x \in Upwards(t), NEW r \in Succ[x]
      PROVE  r \in Upwards(t) \/ Closed(r)
  <2>1. x \in State /\ On(x) /\ Seen(x)
    BY DEF Upwards, Inv, Indexed
  <2>2. PICK k \in 1..Len(moves[x]) : r = moves[x][k] /\ r \in State
    BY <1>1, <2>1 DEF ReachLaws
  <2>3. k < Cur(x)
    <3>1. Cur(x) > Len(moves[x]) /\ Cur(x) \in Nat /\ Len(moves[x]) \in Nat
      BY <1>1, <1>7, <2>1, LenProperties DEF FieldTypes, Inv, Graph
    <3> QED BY <3>1
  <2>4. Seen(r)
    BY <2>1, <2>2, <2>3 DEF Inv, DoneSeen
  <2>5. CASE On(r)
    <3>1. Under(h, h, x)
      BY <1>2 DEF Under, Upwards
    <3>2. ~ Returned(b, h)
      BY DEF Returned
    <3>3. Low(t) <= Idx(r)
      BY <1>2, <2>1, <2>2, <2>3, <2>5, <3>1, <3>2 DEF Open, LowlinkBounds, Bounds
    <3> QED BY <2>2, <2>5, <3>3 DEF Upwards
  <2>6. CASE ~ On(r)
    BY <2>4, <2>6 DEF Closed
  <2> QED BY <2>5, <2>6
<1>9. Upwards(t) = {q \in State : Reach(t, q) /\ Reach(q, t)}
  <2>1. IsGraph(Succ) /\ DOMAIN Succ = State
    BY GraphOfMoves DEF Inv
  <2> DEFINE C == {q \in State : Closed(q)}
             T == Upwards(t) \cup C
  <2>2. \A q \in State : Closed(q) => Succ[q] \subseteq C
    BY <1>1 DEF Inv, Found, ReachLaws
  <2>3. \A q \in T : Succ[q] \subseteq T
    <3>1. \A x \in Upwards(t) : x \in State /\ \A r \in Succ[x] : r \in State
      BY <1>1 DEF Upwards, ReachLaws
    <3> QED BY <1>8, <2>2, <3>1
  <2>4. t \in T /\ t \notin C
    BY <1>1, <1>3 DEF Upwards, Closed
  <2>5. ASSUME NEW q \in State, Reach(t, q), Reach(q, t) PROVE q \in Upwards(t)
    <3> HIDE DEF T
    <3>1. q \in T
      BY <2>1, <2>3, <2>4, <2>5, ReachesWithin DEF Reach
    <3>2. ASSUME q \in C PROVE FALSE
      <4>1. \A r \in C : Succ[r] \subseteq C
        BY <2>2
      <4> HIDE DEF C
      <4>2. t \in C
        BY <2>1, <2>5, <3>2, <4>1, ReachesWithin DEF Reach
      <4> QED BY <2>4, <4>2
    <3> QED BY <3>1, <3>2 DEF T
  <2>6. \A q \in Upwards(t) : q \in State
    BY DEF Upwards
  <2> QED BY <1>6, <2>5, <2>6
<1>10. ASSUME NEW x \in State, On(x), x \notin Upwards(t)
       PROVE  \E i \in b+1..h-1 : Under(h, i, x) /\ Reach(x, program_stack[i])
  <2>1. PICK i \in b+1..h : Under(h, i, x) /\ Reach(x, program_stack[i])
    BY <1>10 DEF Open, Owned
  <2>2. i # h
    BY <1>5, <1>10, <2>1
  <2> QED BY <1>2, <2>1, <2>2
<1> QED BY <1>6, <1>7, <1>8, <1>9, <1>10

\* rest is the Tarjan stack below base.
IsRest(rest, base) ==
  /\ rest \in Seq(State) /\ Len(rest) = base - 1
  /\ \A i \in 1..base-1 : rest[i] = tarjan_stack[i]

(* Popping down to t takes off what is upwards of it.                      *)
LEMMA RootPopped ==
  ASSUME Inv, NEW t \in State, NEW base \in 1..Len(tarjan_stack), tarjan_stack[base] = t
  PROVE  /\ {tarjan_stack[k] : k \in base..Len(tarjan_stack)} = Upwards(t)
         /\ IsRest(SubSeq(tarjan_stack, 1, base-1), base)
         /\ {tarjan_stack[k] : k \in 1..base-1} = {x \in State : On(x)} \ Upwards(t)
<1> PICK m : m = Len(tarjan_stack)
  OBVIOUS
<1>1. /\ m \in Nat /\ base \in 1..m
      /\ \A i \in 1..m : tarjan_stack[i] \in State /\ On(tarjan_stack[i])
      /\ \A x \in State : On(x) => \E i \in 1..m : tarjan_stack[i] = x
  <2>1. Range(tarjan_stack) = {tarjan_stack[i] : i \in 1..m} /\ m \in Nat
    BY RangeEquality, LenProperties DEF Inv, TypeOK
  <2> QED BY <2>1 DEF Inv, OnStackAgrees, On
<1>2. \A x \in State : Idx(x) \in Nat
  BY BasicFacts DEF Inv, Basics, FieldTypes
<1>3. \A i, j \in 1..m : i < j => Idx(tarjan_stack[i]) < Idx(tarjan_stack[j])
  BY DEF Inv, StackOrdered
<1>4. \A i \in 1..m : tarjan_stack[i] \in Upwards(t) <=> base <= i
  <2>1. SUFFICES ASSUME NEW i \in 1..m PROVE Idx(t) <= Idx(tarjan_stack[i]) <=> base <= i
    BY <1>1 DEF Upwards
  <2>2. CASE i < base
    <3>1. Idx(tarjan_stack[i]) < Idx(t)
      BY <1>1, <1>3, <2>2
    <3> QED BY <1>1, <1>2, <2>2, <3>1
  <2>3. CASE base < i
    <3>1. Idx(t) < Idx(tarjan_stack[i])
      BY <1>1, <1>3, <2>3
    <3> QED BY <1>1, <1>2, <2>3, <3>1
  <2>4. CASE base = i
    BY <1>1, <1>2, <2>4
  <2> QED BY <1>1, <2>2, <2>3, <2>4
<1>5. {tarjan_stack[k] : k \in base..m} = Upwards(t)
  <2>1. ASSUME NEW k \in base..m PROVE tarjan_stack[k] \in Upwards(t)
    BY <1>1, <1>4
  <2>2. ASSUME NEW x \in Upwards(t) PROVE \E k \in base..m : x = tarjan_stack[k]
    <3>1. PICK i \in 1..m : tarjan_stack[i] = x
      BY <1>1 DEF Upwards
    <3>2. i \in base..m
      BY <1>1, <1>4, <3>1
    <3> QED BY <3>1, <3>2
  <2> QED BY <2>1, <2>2
<1>6. {tarjan_stack[k] : k \in 1..base-1} = {x \in State : On(x)} \ Upwards(t)
  <2>1. ASSUME NEW k \in 1..base-1
        PROVE  tarjan_stack[k] \in State /\ On(tarjan_stack[k])
               /\ tarjan_stack[k] \notin Upwards(t)
    <3>1. k \in 1..m /\ ~ (base <= k)
      BY <1>1
    <3> QED BY <1>1, <1>4, <3>1
  <2>2. ASSUME NEW x \in State, On(x), x \notin Upwards(t)
        PROVE  \E k \in 1..base-1 : x = tarjan_stack[k]
    <3>1. PICK i \in 1..m : tarjan_stack[i] = x
      BY <1>1, <2>2
    <3>2. i \in 1..base-1
      BY <1>1, <1>4, <2>2, <3>1
    <3> QED BY <3>1, <3>2
  <2> QED BY <2>1, <2>2
<1>7. IsRest(SubSeq(tarjan_stack, 1, base-1), base)
  <2>1. \A i \in 1..base-1 : tarjan_stack[i] \in State
    BY <1>1
  <2>2. /\ SubSeq(tarjan_stack, 1, base-1) \in Seq(State)
        /\ Len(SubSeq(tarjan_stack, 1, base-1)) =
             IF 1 <= base-1 THEN (base-1)-1+1 ELSE 0
        /\ \A i \in 1..(base-1)-1+1 : SubSeq(tarjan_stack, 1, base-1)[i] = tarjan_stack[1+i-1]
    BY <1>1, <2>1, SubSeqProperties DEF Inv, TypeOK
  <2>3. /\ (base-1)-1+1 = base-1 /\ (~ (1 <= base-1) => base-1 = 0)
        /\ \A i \in 1..base-1 : 1+i-1 = i
    BY <1>1
  <2> QED BY <2>2, <2>3 DEF IsRest
<1> QED BY <1>5, <1>6, <1>7

(* PropagateDown marks states of rest only, and always its last one.       *)
LEMMA Propagated ==
  ASSUME NEW rest, NEW n \in Nat, Len(rest) = n, NEW marked
  PROVE  /\ marked \subseteq PropagateDown(rest, marked)
         /\ \A z \in PropagateDown(rest, marked) :
              z \in marked \/ \E k \in 1..n : z = rest[k]
         /\ n > 0 => rest[n] \in PropagateDown(rest, marked)
<1>1. marked \subseteq PropagateDown(rest, marked)
  BY DEF PropagateDown
<1>2. \A z \in PropagateDown(rest, marked) : z \in marked \/ \E k \in 1..n : z = rest[k]
  BY DEF PropagateDown
<1>3. ASSUME n > 0 PROVE rest[n] \in PropagateDown(rest, marked)
  <2>1. CASE rest[n] \in marked
    BY <1>1, <2>1
  <2>2. CASE rest[n] \notin marked
    <3>1. n \in 1..n /\ \A k \in 1..n : rest[k] \in marked => k < n
      BY <1>3, <2>2
    <3> QED BY <3>1 DEF PropagateDown
  <2> QED BY <2>1, <2>2
<1> QED BY <1>1, <1>2, <1>3

(* CloseRoot reports the component of the top state and marks the stack    *)
(* below when the component is useful.                                     *)
LEMMA CloseRootHolds ==
  ASSUME Inv, CloseRoot
  PROVE  Inv'
<1>1. program_stack # << >> /\ TopFacts /\ Basics /\ On(top) /\ Seen(top)
  BY WhileFollowing DEF CloseRoot
<1>2. PICK b, h \in 0..Depth : Open(b, h) /\ b < h /\ h = Depth
  BY WhileFollowing DEF CloseRoot
<1>3. PICK t \in State : t = top
  BY <1>1 DEF TopFacts
<1>4. PICK base \in 1..Len(tarjan_stack) :
        /\ tarjan_stack[base] = t
        /\ LET scc == {tarjan_stack[k] : k \in base..Len(tarjan_stack)}
               rest == SubSeq(tarjan_stack, 1, base-1)
           IN  /\ tarjan_stack' = rest
               /\ node' = [q \in State |->
                             IF q \in scc THEN [node[q] EXCEPT !.on_stack = FALSE]
                             ELSE node[q]]
               /\ sccs' = sccs \cup {scc}
               /\ SccDiscover(scc, rest)
  BY <1>3 DEF CloseRoot
<1> PICK U : U = Upwards(t)
  OBVIOUS
<1>5. PICK rest : rest = SubSeq(tarjan_stack, 1, base-1)
  OBVIOUS
<1>6. /\ {tarjan_stack[k] : k \in base..Len(tarjan_stack)} = U
      /\ IsRest(rest, base)
      /\ {tarjan_stack[k] : k \in 1..base-1} = {x \in State : On(x)} \ U
  BY <1>4, <1>5, RootPopped
<1>7. /\ tarjan_stack' = rest
      /\ node' = [q \in State |-> IF q \in U THEN [node[q] EXCEPT !.on_stack = FALSE]
                                  ELSE node[q]]
      /\ sccs' = sccs \cup {U}
      /\ SccDiscover(U, rest)
  BY <1>4, <1>5, <1>6
<1>8. /\ UNCHANGED <<moves, initial, final, index_cnt, accepting_state>>
      /\ pc' = "main" /\ program_stack' = Front(program_stack)
      /\ final_scc' = FALSE
      /\ useful' = IF U \cap useful # {} THEN PropagateDown(rest, useful \cup U) ELSE useful
      /\ acyclic' = (acyclic /\ Cardinality(U) = 1 /\ \A st \in U : MovesInside(st, U) = {})
      /\ flat' = (flat /\ \A st \in U : Cardinality(MovesInside(st, U)) <= 1)
  BY <1>7 DEF CloseRoot, SccDiscover, input, Inv, Marks
<1>9. Cur(t) > Len(moves[t]) /\ Low(t) = Idx(t) /\ On(t) /\ Seen(t)
  BY <1>1, <1>3 DEF CloseRoot, Cur, Low, Idx
<1>10. /\ \A x \in U : Reach(x, t) /\ Reach(t, x)
       /\ \A x \in U : Cur(x) > Len(moves[x])
       /\ \A x \in U : \A r \in Succ[x] : r \in U \/ Closed(r)
       /\ U = {q \in State : Reach(t, q) /\ Reach(q, t)}
       /\ \A x \in State : On(x) /\ x \notin U =>
            \E i \in b+1..h-1 : Under(h, i, x) /\ Reach(x, program_stack[i])
  BY <1>2, <1>3, <1>9, RootComponent DEF CloseRoot
<1>11. FieldTypes /\ ReachLaws
  BY <1>1 DEF Basics
<1>12. /\ U \in SUBSET State /\ t \in U
       /\ \A x \in U : On(x) /\ Seen(x) /\ Idx(t) <= Idx(x)
       /\ \A x \in State : On(x) /\ x \notin U => Idx(x) < Idx(t)
  BY <1>9, <1>11 DEF Upwards, Inv, Indexed, FieldTypes
<1>13. /\ node' \in [State -> NodeData]
       /\ Keeps(State \ U)
       /\ \A q \in U : /\ Seen(q)' <=> Seen(q)
                       /\ ~ On(q)'
                       /\ Idx(q)' = Idx(q) /\ Low(q)' = Low(q) /\ Cur(q)' = Cur(q)
  BY <1>7, <1>12, PoppedFields DEF Inv, TypeOK
<1>14. \A q \in State : /\ Seen(q)' <=> Seen(q)
                        /\ On(q)' <=> On(q) /\ q \notin U
                        /\ Idx(q)' = Idx(q) /\ Low(q)' = Low(q) /\ Cur(q)' = Cur(q)
  BY <1>13 DEF Keeps
<1>15. \A q \in State : Closed(q)' <=> Closed(q) \/ q \in U
  BY <1>12, <1>14 DEF Closed
<1>16. Graph' /\ Succ' = Succ /\ \A p, q : Reach(p, q)' <=> Reach(p, q)
  BY <1>8, SameGraph DEF Inv
<1>17. /\ rest \in Seq(State) /\ base-1 \in Nat /\ Len(rest) = base-1
       /\ \A k \in 1..base-1 : rest[k] = tarjan_stack[k] /\ rest[k] \in State
       /\ \A k \in 1..base-1 : On(rest[k]) /\ rest[k] \notin U
       /\ \A x \in State : On(x) /\ x \notin U => \E k \in 1..base-1 : x = rest[k]
       /\ Range(rest) = {x \in State : On(x)} \ U
  <2>1. Len(tarjan_stack) \in Nat
    BY LenProperties DEF Inv, TypeOK
  <2>2. rest \in Seq(State) /\ base-1 \in Nat /\ Len(rest) = base-1
        /\ \A k \in 1..base-1 : rest[k] = tarjan_stack[k]
    BY <1>6, <2>1 DEF IsRest
  <2>3. Range(rest) = {tarjan_stack[k] : k \in 1..base-1}
    BY <2>2, RangeEquality
  <2> QED BY <1>6, <2>2, <2>3
<1>18. /\ useful \cup U \subseteq useful' \/ (U \cap useful = {} /\ useful' = useful)
       /\ \A z \in useful' : z \in useful \/ (U \cap useful # {} /\ z \in State /\ On(z))
       /\ U \cap useful # {} /\ base-1 > 0 => rest[base-1] \in useful'
  <2>1. CASE U \cap useful # {}
    <3>1. useful' = PropagateDown(rest, useful \cup U)
      BY <1>8, <2>1
    <3>2. /\ useful \cup U \subseteq useful'
          /\ \A z \in useful' : z \in useful \cup U \/ \E k \in 1..base-1 : z = rest[k]
          /\ base-1 > 0 => rest[base-1] \in useful'
      BY <1>17, <3>1, Propagated
    <3> QED BY <1>12, <1>17, <2>1, <3>2
  <2>2. CASE U \cap useful = {}
    BY <1>8, <2>2
  <2> QED BY <2>1, <2>2
<1>19. TypeOK'
  <2>1. useful' \subseteq State
    BY <1>18 DEF Inv, TypeOK
  <2>2. final_scc' \in BOOLEAN /\ accepting_state' \in BOOLEAN
    BY <1>8 DEF Inv, TypeOK
  <2>3. acyclic' \in BOOLEAN /\ flat' \in BOOLEAN
    BY <1>8
  <2>4. sccs' \subseteq SUBSET State
    BY <1>7, <1>12 DEF Inv, TypeOK
  <2>5. program_stack' \in Seq(State)
    BY <1>1, <1>8 DEF TopFacts
  <2>6. pc' \in {"main", "moves", "done"}
    BY <1>8
  <2>7. {final_scc', accepting_state', acyclic', flat'} \subseteq BOOLEAN
    BY <2>2, <2>3
  <2>8. tarjan_stack' \in Seq(State)
    BY <1>7, <1>17
  <2>9. initial' \in Seq(State) /\ final' \subseteq State
        /\ index_cnt' \in 0..Cardinality(State)
    BY <1>8 DEF Inv, TypeOK
  <2> QED BY <1>13, <2>1, <2>4, <2>5, <2>6, <2>7, <2>8, <2>9 DEF TypeOK
<1>20. OnStackAgrees'
  BY <1>7, <1>14, <1>17 DEF OnStackAgrees, On
<1>21. StackOrdered'
  <2>1. SUFFICES ASSUME NEW j \in 1..base-1, NEW k \in 1..base-1, j < k
                 PROVE  Idx(rest[j])' < Idx(rest[k])'
    BY <1>7, <1>17 DEF StackOrdered
  <2>2. j \in 1..Len(tarjan_stack) /\ k \in 1..Len(tarjan_stack)
    BY LenProperties DEF Inv, TypeOK
  <2>3. Idx(tarjan_stack[j]) < Idx(tarjan_stack[k])
    BY <2>1, <2>2 DEF Inv, StackOrdered
  <2> QED BY <1>14, <1>17, <2>3
<1>22. Indexed'
  <2>1. {q \in State : Seen(q)'} = {q \in State : Seen(q)}
    BY <1>14
  <2> QED BY <1>8, <1>14, <2>1 DEF Inv, Indexed
<1>23. DoneSeen'
  BY <1>8, <1>11, <1>14 DEF Inv, DoneSeen, ReachLaws
<1>24. IsGraph(Succ) /\ DOMAIN Succ = State /\ Range(initial) \in SUBSET State
  BY GraphOfMoves, RangeOfSeq DEF Inv, TypeOK
<1>25. Found'
  <2>1. \A q \in Range(initial) : Seen(q)' \/ q \in Range(program_stack)'
    <3>1. \A q \in Range(initial) : Seen(q) \/ q \in Range(program_stack') \/ q = t
      BY <1>1, <1>3, <1>8 DEF Inv, Found, TopFacts
    <3> QED BY <1>9, <1>14, <1>24, <3>1
  <2>2. \A q \in State : Seen(q)' => q \in Closure(Succ, Range(initial))
    BY <1>14 DEF Inv, Found
  <2>3. \A q \in State : Closed(q)' => \A r \in Succ[q] : Closed(r)'
    <3>1. \A q \in State : \A r \in Succ[q] : r \in State
      BY <1>11 DEF ReachLaws
    <3> QED BY <1>10, <1>15, <3>1 DEF Inv, Found
  <2>4. UNION sccs' = {q \in State : Closed(q)'}
    <3>1. UNION sccs' = (UNION sccs) \cup U
      BY <1>7
    <3> QED BY <1>12, <1>15, <3>1 DEF Inv, Found
  <2>5. sccs' \subseteq Components(Succ, Range(initial))
    <3>1. t \in Closure(Succ, Range(initial))
      BY <1>9 DEF Inv, Found
    <3>2. U \in Components(Succ, Range(initial))
      BY <1>10, <1>24, <3>1 DEF Components, Reach
    <3> QED BY <1>7, <3>2 DEF Inv, Found
  <2> QED BY <1>8, <1>16, <2>1, <2>2, <2>3, <2>4, <2>5 DEF Found
<1>26. useful \subseteq useful' /\ useful \subseteq State /\ final \subseteq State
  BY <1>18 DEF Inv, TypeOK
<1>27. /\ \A q \in State : q \in CoClosure(Succ, final) <=> \E z \in final : Reach(q, z)
       /\ \A p, q \in State : Reach(p, q) /\ q \in CoClosure(Succ, final)
                             => p \in CoClosure(Succ, final)
  <2>1. \A q \in State : q \in CoClosure(Succ, final) <=> \E z \in final : Reach(q, z)
    BY <1>24 DEF CoClosure, Reach, Reaches
  <2> QED BY <1>11, <1>26, <2>1 DEF ReachLaws
<1>28. \A z \in State : On(z) => Reach(z, t)
  BY <1>9, <1>10, <1>12, LowerReachesHigher
<1>29. ASSUME U \cap useful = {}
       PROVE  \A q \in U : q \notin CoClosure(Succ, final)
  <2> DEFINE T == U \cup {r \in State : Closed(r) /\ r \notin CoClosure(Succ, final)}
  <2>1. ASSUME NEW x \in T, NEW r \in Succ[x] PROVE r \in T
    <3>1. x \in State /\ r \in State /\ Reach(x, r)
      BY <1>11, <1>12, <2>1 DEF ReachLaws
    <3>2. CASE x \in U
      <4>1. CASE r \in U
        BY <4>1
      <4>2. CASE Closed(r) /\ r \in CoClosure(Succ, final)
        <5>1. r \in useful
          BY <3>1, <4>2 DEF Inv, Marks
        <5>2. PICK k \in 1..Len(moves[x]) : r = moves[x][k]
          BY <1>11, <3>1, <2>1 DEF ReachLaws
        <5>3. k < Cur(x)
          <6>1. Cur(x) > Len(moves[x]) /\ Cur(x) \in Nat /\ Len(moves[x]) \in Nat
            BY <1>10, <1>11, <3>1, <3>2, LenProperties DEF FieldTypes, Inv, Graph
          <6> QED BY <6>1
        <5>4. PICK z \in useful : On(z) /\ Idx(x) <= Idx(z)
          BY <1>2, <1>12, <3>1, <3>2, <4>2, <5>1, <5>2, <5>3 DEF Open, MarksBelow, Done
        <5>5. z \in State /\ Idx(t) <= Idx(x) /\ Idx(t) \in Nat /\ Idx(x) \in Nat
              /\ Idx(z) \in Nat
          BY <1>11, <1>12, <1>26, <3>2 DEF FieldTypes
        <5>6. z \in U
          <6>1. ~ (Idx(z) < Idx(t))
            BY <5>4, <5>5
          <6> QED BY <1>12, <5>4, <5>5, <6>1
        <5> QED BY <1>29, <5>4, <5>6
      <4>3. CASE Closed(r) /\ r \notin CoClosure(Succ, final)
        BY <3>1, <4>3
      <4> QED BY <1>10, <2>1, <3>2, <4>1, <4>2, <4>3
    <3>3. CASE x \notin U
      <4>1. Closed(x) /\ x \notin CoClosure(Succ, final)
        BY <2>1, <3>3
      <4>2. Closed(r)
        BY <2>1, <3>1, <4>1 DEF Inv, Found
      <4> QED BY <1>27, <3>1, <4>1, <4>2
    <3> QED BY <3>2, <3>3
  <2>2. \A z \in T : z \notin final
    <3>1. \A z \in U : z \notin final
      BY <1>12, <1>29 DEF Inv, Marks
    <3>2. \A z \in State : z \in final => z \in CoClosure(Succ, final)
      BY <1>11, <1>27 DEF ReachLaws
    <3> QED BY <3>1, <3>2
  <2>3. SUFFICES ASSUME NEW q \in U, NEW z \in final, Reach(q, z) PROVE FALSE
    BY <1>12, <1>27
  <2>4. q \in T /\ q \in State
    BY <1>12
  <2>5. \A x \in T : Succ[x] \subseteq T
    BY <2>1
  <2> HIDE DEF T
  <2>6. z \in T
    BY <1>24, <2>3, <2>4, <2>5, ReachesWithin DEF Reach
  <2> QED BY <2>2, <2>6
<1>30. Marks'
  <2>1. \A q \in State : Seen(q)' /\ q \in final => q \in useful'
    BY <1>14, <1>26 DEF Inv, Marks
  <2>2. ASSUME NEW z \in useful' PROVE Seen(z)' /\ z \in CoClosure(Succ, final)
    <3>1. CASE z \in useful
      BY <1>14, <1>26, <3>1 DEF Inv, Marks
    <3>2. CASE z \notin useful
      <4>1. U \cap useful # {} /\ z \in State /\ On(z)
        BY <1>18, <2>2, <3>2
      <4>2. PICK u \in U : u \in CoClosure(Succ, final)
        BY <4>1 DEF Inv, Marks
      <4>3. Reach(z, t) /\ Reach(t, u) /\ u \in State
        BY <1>10, <1>12, <1>28, <4>1
      <4>4. z \in CoClosure(Succ, final)
        BY <1>27, <4>1, <4>2, <4>3
      <4> QED BY <1>14, <4>1, <4>4 DEF Inv, Indexed
    <3> QED BY <3>1, <3>2
  <2>3. ASSUME NEW q \in State, Closed(q)', q \in CoClosure(Succ, final) PROVE q \in useful'
    <3>1. CASE Closed(q)
      BY <1>26, <2>3, <3>1 DEF Inv, Marks
    <3>2. CASE q \in U
      <4>1. U \cap useful # {}
        BY <1>29, <2>3, <3>2
      <4> QED BY <1>18, <3>2, <4>1
    <3> QED BY <1>15, <2>3, <3>1, <3>2
  <2> QED BY <1>8, <1>16, <2>1, <2>2, <2>3 DEF Marks
<1>31. Reports'
  <2>1. accepting_state' <=> \E q \in final : Seen(q)'
    BY <1>8, <1>14, <1>26 DEF Inv, Reports
  <2>2. acyclic' <=> \A C \in sccs' : Cardinality(C) = 1
                                       /\ \A st \in C : MovesInside(st, C) = {}
    BY <1>7, <1>8 DEF Inv, Reports
  <2>3. flat' <=> \A C \in sccs' : \A st \in C : Cardinality(MovesInside(st, C)) <= 1
    BY <1>7, <1>8 DEF Inv, Reports
  <2> QED BY <1>8, <2>1, <2>2, <2>3 DEF Reports, MovesInside
<1> PICK e : e = Depth - 1
  OBVIOUS
<1>32. /\ e \in Nat /\ b \in Nat /\ b <= e /\ h = e+1 /\ Depth' = e /\ h \in b+1..h
       /\ program_stack[h] = t
       /\ \A i \in 1..h : program_stack[i] \in State
       /\ \A i \in 1..e : program_stack'[i] = program_stack[i]
       /\ \A i \in 1..b : i \in 1..e
       /\ \A i \in b+1..e : /\ i \in 1..e /\ i \in b+1..h /\ i < h /\ i \in b+1..h-1
                            /\ i # e => i < e /\ i+1 \in b+1..e /\ i+1 \in 1..e
  BY <1>1, <1>2, <1>3, <1>8 DEF Basics, TopFacts, Depth, Open
<1>33. OpenSomewhere'
  <2>1. Pending(b)'
    BY <1>2, <1>8, <1>32 DEF Open, Chain, Pending
  <2>2. CASE b = e
    <3>1. \A x \in State : ~ On(x)'
      <4>1. b+1..h-1 = {}
        BY <1>32, <2>2
      <4> QED BY <1>10, <1>14, <4>1
    <3>2. b+1..b = {} /\ b+1..b-1 = {} /\ ~ (b < b) /\ b <= b /\ Depth' = b
      BY <1>32, <2>2
    <3>3. Open(b, b)'
      BY <1>8, <1>32, <2>1, <3>1, <3>2
         DEF Open, Chain, OpenOnStack, OpenInOrder, OpenCalls, CalledOnTop,
             Phase, ReturnRight, Returned, Owned, ReachedFromOpen, AllMovesDone,
             LowlinkFound, LowlinkBounds, MarksBelow
    <3> QED BY <1>32, <3>2, <3>3 DEF OpenSomewhere
  <2>3. CASE b # e
    <3>1. b < e /\ e \in b+1..e /\ program_stack[e] \in State
      BY <1>32, <2>3
    <3>2. PICK c \in State : c = program_stack[e] /\ c = program_stack'[e]
      BY <1>32, <3>1
    <3>3. ASSUME NEW i \in b+1..e
          PROVE  /\ program_stack[i] \in State /\ On(program_stack[i])
                 /\ Idx(program_stack[i]) < Idx(t) /\ program_stack[i] \notin U
      <4>1. On(program_stack[i]) /\ Idx(program_stack[i]) < Idx(t)
        BY <1>2, <1>32 DEF Open, Chain, OpenOnStack, OpenInOrder
      <4>2. PICK p \in State : p = program_stack[i]
        BY <1>32
      <4>3. Idx(p) \in Nat /\ Idx(t) \in Nat /\ Idx(p) < Idx(t)
        BY <1>11, <4>1, <4>2 DEF FieldTypes
      <4>4. p \notin U
        BY <1>12, <4>3
      <4> QED BY <4>1, <4>2, <4>4
    <3>4. Calls(c, t)
      BY <1>2, <1>32, <3>1, <3>2 DEF Open, Chain, OpenCalls
    <3>5. OpenOnStack(b, e)' /\ OpenInOrder(b, e)'
      <4>1. OpenOnStack(b, e)'
        BY <1>14, <1>32, <3>3 DEF OpenOnStack
      <4>2. OpenInOrder(b, e)'
        BY <1>2, <1>14, <1>32, <3>3 DEF Open, Chain, OpenInOrder
      <4> QED BY <4>1, <4>2
    <3>6. OpenCalls(b, e)'
      <4>1. SUFFICES ASSUME NEW i \in b+1..e-1
                     PROVE  Calls(program_stack[i], program_stack[i+1])'
        BY DEF OpenCalls
      <4>2. i \in b+1..e /\ i # e /\ i \in b+1..h-1 /\ i+1 \in b+1..e
        BY <1>32, <4>1
      <4>3. PICK p, q \in State : p = program_stack[i] /\ q = program_stack[i+1]
        BY <1>32, <4>2
      <4>4. Calls(p, q)
        BY <1>2, <4>2, <4>3 DEF Open, Chain, OpenCalls
      <4> QED BY <1>8, <1>14, <1>32, <4>2, <4>3, <4>4 DEF Calls
    <3>7. CalledOnTop(b, e)' /\ Phase(b, e)'
      BY <1>8, <1>32 DEF CalledOnTop, Phase
    <3>8. Low(c) <= Idx(c) /\ Leads(c, Low(c)) /\ Idx(c) < Idx(t) /\ On(c) /\ c \notin U
      BY <1>2, <1>32, <3>1, <3>2, <3>3 DEF Open, LowlinkFound
    <3>9. ReturnRight(b, e)'
      <4>1. SUFFICES /\ Cur(c)' <= Len(moves[c])
                     /\ \A q \in State : q = moves[c][Cur(c)'] =>
                          /\ Seen(q)' /\ Idx(c)' < Idx(q)'
                          /\ On(q)' => Leads(q, Low(q))'
                          /\ ~ On(q)' => Low(c)' <= Low(q)'
        BY <1>8, <1>32, <3>2 DEF ReturnRight
      <4>2. Cur(c)' = Cur(c) /\ Cur(c) <= Len(moves[c]) /\ moves[c][Cur(c)] = t
        BY <1>14, <1>11, <3>4 DEF Calls, FieldTypes
      <4>3. Low(c) <= Low(t)
        BY <1>9, <1>11, <3>8 DEF FieldTypes
      <4>4. ~ On(t)'
        BY <1>12, <1>14
      <4> QED BY <1>9, <1>14, <3>8, <4>2, <4>3, <4>4
    <3>10. ASSUME NEW x \in State, On(x)', NEW i \in b+1..e
           PROVE  Under(e, i, x)' <=> Under(h, i, x)
      <4>1. On(x) /\ Idx(x) < Idx(t) /\ Idx(x)' = Idx(x)
        BY <1>12, <1>14, <3>10
      <4>2. PICK p \in State : /\ p = program_stack[i] /\ p = program_stack'[i]
                               /\ Idx(p)' = Idx(p)
        BY <1>14, <1>32
      <4>3. CASE i = e
        BY <1>32, <3>10, <4>1, <4>2, <4>3 DEF Under
      <4>4. CASE i # e
        <5>1. PICK q \in State : /\ q = program_stack[i+1] /\ q = program_stack'[i+1]
                                 /\ Idx(q)' = Idx(q)
          BY <1>14, <1>32, <4>4
        <5> QED BY <1>32, <3>10, <4>1, <4>2, <4>4, <5>1 DEF Under
      <4> QED BY <4>3, <4>4
    <3>11. Owned(b, e)'
      <4>1. SUFFICES ASSUME NEW x \in State, On(x)'
                     PROVE  \E i \in b+1..e : Under(e, i, x)' /\ Reach(x, program_stack'[i])
        BY <1>16 DEF Owned
      <4>2. On(x) /\ x \notin U
        BY <1>14, <4>1
      <4>3. PICK i \in b+1..h-1 : Under(h, i, x) /\ Reach(x, program_stack[i])
        BY <1>10, <4>2
      <4>4. i \in b+1..e
        BY <1>32, <4>3
      <4> QED BY <1>32, <3>10, <4>1, <4>3, <4>4
    <3>12. ReachedFromOpen(b, e)'
      <4>1. SUFFICES ASSUME NEW x \in State, NEW i \in b+1..e, On(x)',
                            Idx(program_stack[i])' <= Idx(x)'
                     PROVE  Reach(program_stack'[i], x)
        BY <1>16 DEF ReachedFromOpen
      <4>2. PICK p \in State : p = program_stack[i] /\ p = program_stack'[i]
        BY <1>32
      <4> QED BY <1>2, <1>14, <1>32, <4>1, <4>2 DEF Open, ReachedFromOpen
    <3>13. AllMovesDone(b, e)'
      <4>1. SUFFICES ASSUME NEW x \in State, On(x)', \A i \in b+1..e : x # program_stack'[i]
                     PROVE  Cur(x)' > Len(moves[x])
        BY <1>8 DEF AllMovesDone
      <4>2. On(x) /\ x # t /\ Cur(x)' = Cur(x)
        BY <1>12, <1>14, <4>1
      <4>3. \A i \in b+1..h : i = h \/ i \in b+1..e
        BY <1>32
      <4>4. \A i \in b+1..h : x # program_stack[i]
        BY <1>32, <4>1, <4>2, <4>3
      <4> QED BY <1>2, <4>2, <4>4 DEF Open, AllMovesDone
    <3>14. LowlinkFound(b, e)'
      <4>1. SUFFICES ASSUME NEW i \in b+1..e
                     PROVE  Low(program_stack[i])' <= Idx(program_stack[i])'
                            /\ Leads(program_stack[i], Low(program_stack[i]))'
        BY DEF LowlinkFound
      <4>2. PICK p \in State : p = program_stack[i] /\ p = program_stack'[i]
        BY <1>32
      <4>3. Low(p) <= Idx(p) /\ Leads(p, Low(p)) /\ Idx(p) < Idx(t)
        BY <1>2, <1>32, <3>3, <4>2 DEF Open, LowlinkFound
      <4>4. PICK y \in State : On(y) /\ Idx(y) = Low(p) /\ Reach(p, y)
        BY <4>3 DEF Leads
      <4>5. y \notin U
        BY <1>11, <1>12, <4>3, <4>4 DEF FieldTypes
      <4>6. On(y)' /\ Idx(y)' = Low(p)' /\ Reach(p, y)'
        BY <1>14, <1>16, <4>4, <4>5
      <4>7. Leads(p, Low(p))'
        BY <4>6 DEF Leads
      <4> QED BY <1>14, <4>2, <4>3, <4>7
    <3>15. LowlinkBounds(b, e)'
      <4>1. SUFFICES ASSUME NEW x \in State, NEW i \in b+1..e, Under(e, i, x)',
                            NEW k \in 1..Len(moves[x]), k < Cur(x)', On(moves[x][k])'
                     PROVE  Low(program_stack[i])' <= Idx(moves[x][k])'
        BY <1>8 DEF LowlinkBounds, Bounds
      <4>2. PICK y \in State : y = moves[x][k] /\ On(y) /\ Idx(y)' = Idx(y)
        BY <1>8, <1>11, <1>14, <4>1 DEF ReachLaws
      <4>3. PICK p \in State : p = program_stack[i] /\ p = program_stack'[i] /\ Low(p)' = Low(p)
        BY <1>14, <1>32
      <4>4. On(x)' /\ k < Cur(x)
        BY <1>14, <4>1 DEF Under
      <4>5. Under(h, i, x) /\ i \in b+1..h /\ ~ Returned(b, h)
        BY <1>32, <3>10, <4>1, <4>4 DEF CloseRoot, Returned
      <4>6. Low(p) <= Idx(y)
        BY <1>2, <4>1, <4>2, <4>3, <4>4, <4>5 DEF Open, LowlinkBounds, Bounds
      <4> QED BY <1>8, <4>2, <4>3, <4>6
    <3>16. MarksBelow(b, e)'
      <4>1. SUFFICES ASSUME NEW x \in State, On(x)', NEW k \in 1..Len(moves[x]),
                            Done(b, e, x, k)', Closed(moves[x][k])', moves[x][k] \in useful'
                     PROVE  \E z \in useful' : On(z)' /\ Idx(x)' <= Idx(z)'
        BY <1>8 DEF MarksBelow
      <4>2. On(x) /\ x \notin U /\ Idx(x)' = Idx(x) /\ Cur(x)' = Cur(x)
        BY <1>14, <4>1
      <4>3. CASE U \cap useful # {}
        <5>1. PICK j \in 1..base-1 : x = rest[j]
          BY <1>17, <4>2
        <5>2. base-1 > 0 /\ base-1 \in 1..base-1
          BY <1>17, <5>1
        <5>3. PICK z \in State : z = rest[base-1] /\ z \in useful' /\ On(z) /\ z \notin U
          BY <1>17, <1>18, <4>3, <5>2
        <5>4. Idx(x) <= Idx(z)
          <6>1. j \in 1..Len(tarjan_stack) /\ base-1 \in 1..Len(tarjan_stack)
            BY <5>2, LenProperties DEF Inv, TypeOK
          <6>2. CASE j = base-1
            BY <1>11, <5>1, <5>3, <6>2 DEF FieldTypes
          <6>3. CASE j # base-1
            <7>1. j < base-1
              BY <1>17, <6>3
            <7>2. Idx(tarjan_stack[j]) < Idx(tarjan_stack[base-1])
              BY <6>1, <7>1 DEF Inv, StackOrdered
            <7>3. Idx(x) < Idx(z)
              BY <1>17, <5>1, <5>2, <5>3, <7>2
            <7>4. Idx(x) \in Nat /\ Idx(z) \in Nat
              BY <1>11 DEF FieldTypes
            <7> QED BY <7>3, <7>4
          <6> QED BY <6>2, <6>3
        <5> QED BY <1>14, <4>2, <5>3, <5>4
      <4>4. CASE U \cap useful = {}
        <5>1. useful' = useful
          BY <1>8, <4>4
        <5>2. PICK y \in State : y = moves[x][k] /\ Closed(y)' /\ y \in useful
          BY <1>8, <1>11, <4>1, <5>1 DEF ReachLaws
        <5>3. y \notin U /\ Closed(y)
          BY <1>15, <4>4, <5>2
        <5>4. k < Cur(x)
          <6>1. ASSUME x = c, k = Cur(c) PROVE FALSE
            <7>1. y = t
              BY <3>4, <5>2, <6>1 DEF Calls
            <7> QED BY <1>12, <5>3, <7>1
          <6>2. k < Cur(x)' \/ (x = c /\ k = Cur(x)')
            BY <1>32, <3>2, <4>1 DEF Done
          <6> QED BY <4>2, <6>1, <6>2
        <5>5. PICK z \in useful : On(z) /\ Idx(x) <= Idx(z)
          BY <1>2, <4>2, <5>2, <5>3, <5>4 DEF Open, MarksBelow, Done
        <5>6. z \in State /\ z \notin U
          BY <1>26, <4>4
        <5> QED BY <1>14, <4>2, <5>1, <5>5, <5>6
      <4> QED BY <4>3, <4>4
    <3>17. Open(b, e)'
      BY <1>32, <2>1, <3>5, <3>6, <3>7, <3>9, <3>11, <3>12, <3>13, <3>14, <3>15, <3>16
         DEF Open, Chain
    <3>18. b \in 0..Depth' /\ e \in 0..Depth'
      BY <1>32
    <3> QED BY <3>17, <3>18 DEF OpenSomewhere
  <2> QED BY <2>2, <2>3
<1> QED BY <1>16, <1>19, <1>20, <1>21, <1>22, <1>23, <1>25, <1>30, <1>31, <1>33 DEF Inv

(* A step that changes nothing.                                            *)
LEMMA StutterHolds ==
  ASSUME Inv, UNCHANGED vars
  PROVE  Inv'
<1>1. /\ UNCHANGED <<moves, initial, final, program_stack, tarjan_stack, node, index_cnt>>
      /\ UNCHANGED <<pc, sccs, useful, final_scc, accepting_state, acyclic, flat>>
  BY DEF vars, input, search, clients
<1>2. Keeps(State)
  BY <1>1, UnchangedFields
<1>3. Graph' /\ Succ' = Succ /\ \A p, q : Reach(p, q)' <=> Reach(p, q)
  BY <1>1, SameGraph DEF Inv
<1>4. TypeOK'
  BY <1>1 DEF Inv, TypeOK
<1>5. OnStackAgrees' /\ StackOrdered' /\ Indexed' /\ DoneSeen'
  BY <1>1 DEF Inv, OnStackAgrees, StackOrdered, Indexed, DoneSeen, Seen, On, Idx, Cur
<1>6. Found' /\ Marks' /\ Reports'
  BY <1>1, <1>3 DEF Inv, Found, Marks, Reports, Closed, Seen, On, MovesInside
<1>7. OpenSomewhere'
  <2>1. PICK b, h \in 0..Depth : Open(b, h)
    BY DEF Inv, OpenSomewhere
  <2>2. Depth' = Depth /\ Succ' = Succ
    BY <1>1, <1>3 DEF Depth
  <2>3. Chain(b, h)'
    BY <1>1, <2>1, <2>2
       DEF Open, Chain, Pending, OpenOnStack, OpenInOrder, OpenCalls, Calls, CalledOnTop, Phase,
           Seen, On, Idx, Cur
  <2>4. ReturnRight(b, h)'
    BY <1>1, <2>1, <2>2 DEF Open, ReturnRight, Returned, Leads, Reach, Seen, On, Idx, Low, Cur
  <2>5. Owned(b, h)' /\ ReachedFromOpen(b, h)' /\ AllMovesDone(b, h)'
    BY <1>1, <2>1, <2>2
       DEF Open, Owned, Under, ReachedFromOpen, AllMovesDone, Reach, On, Idx, Cur
  <2>6. LowlinkFound(b, h)' /\ LowlinkBounds(b, h)'
    BY <1>1, <2>1, <2>2
       DEF Open, LowlinkFound, Leads, LowlinkBounds, Under, Bounds, Returned, Reach,
           On, Idx, Low, Cur
  <2>7. MarksBelow(b, h)'
    BY <1>1, <2>1, <2>2 DEF Open, MarksBelow, Done, Returned, Closed, Seen, On, Idx, Cur
  <2> QED BY <2>1, <2>2, <2>3, <2>4, <2>5, <2>6, <2>7 DEF Open, OpenSomewhere
<1> QED BY <1>3, <1>4, <1>5, <1>6, <1>7 DEF Inv

(* Every step of the search keeps the invariant.                           *)
LEMMA NextHolds ==
  ASSUME Inv, [Next]_vars
  PROVE  Inv'
<1>1. CASE SkipClosed
  BY <1>1, SkipClosedHolds
<1>2. CASE Discover
  BY <1>2, DiscoverHolds
<1>3. CASE Resume
  BY <1>3, ResumeHolds
<1>4. CASE Descend
  BY <1>4, DescendHolds
<1>5. CASE FollowMove
  BY <1>5, FollowMoveHolds
<1>6. CASE CloseRoot
  BY <1>6, CloseRootHolds
<1>7. CASE CloseMember
  BY <1>7, CloseMemberHolds
<1>8. CASE Finish
  BY <1>8, FinishHolds
<1>9. CASE UNCHANGED vars
  BY <1>9, StutterHolds
<1> QED BY <1>1, <1>2, <1>3, <1>4, <1>5, <1>6, <1>7, <1>8, <1>9 DEF Next

(* What the steps preserve holds at every point of the search.             *)
LEMMA InvHolds == Spec => []Inv
<1>1. Init => Inv
  BY InitHolds
<1>2. Inv /\ [Next]_vars => Inv'
  BY NextHolds
<1> QED BY <1>1, <1>2, PTL DEF Spec

(* The Tarjan stack is what the algorithm and its clients take it for:     *)
(* every state on it leads to all that are above it, on_stack agrees with  *)
(* it, and the types are right, for every automaton.                       *)
THEOREM Stack == Spec => []StackSound
<1>1. Inv => StackSound
  BY StackLeadsUp DEF Inv, StackSound
<1> QED BY <1>1, InvHolds, PTL

(* At the end everything reachable has been closed, and nothing is left on *)
(* the stack.                                                              *)
LEMMA AtTheEnd ==
  ASSUME Inv, pc = "done"
  PROVE  /\ \A q \in State : Seen(q) => Closed(q)
         /\ \A q \in Closure(Succ, Range(initial)) : q \in State /\ Closed(q)
<1>1. PICK b, h \in 0..Depth : Open(b, h)
  BY DEF Inv, OpenSomewhere
<1>2. Depth = 0 /\ b = h
  BY <1>1 DEF Open, Chain, Phase
<1>3. \A q \in State : ~ On(q)
  BY <1>1, <1>2, NothingOpen
<1>4. IsGraph(Succ) /\ DOMAIN Succ = State /\ Range(initial) \in SUBSET State
  BY GraphOfMoves, RangeOfSeq DEF Inv, TypeOK
<1> DEFINE C == {q \in State : Closed(q)}
<1>5. Range(initial) \subseteq C
  <2>1. Range(program_stack) = {program_stack[i] : i \in 1..Len(program_stack)}
    BY RangeEquality DEF Inv, TypeOK
  <2>2. Len(program_stack) = 0
    BY <1>2 DEF Depth
  <2>3. Range(program_stack) = {}
    BY <2>1, <2>2
  <2> QED BY <1>3, <1>4, <2>3 DEF Inv, Found, Closed
<1>6. \A q \in C \cap State : Succ[q] \subseteq C
  <2>1. \A q \in State : \A r \in Succ[q] : r \in State
    BY GraphOfMoves DEF Inv, ReachLaws
  <2> QED BY <2>1 DEF Inv, Found
<1>7. Closure(Succ, Range(initial)) \subseteq C
  <2> HIDE DEF C
  <2> QED BY <1>4, <1>5, <1>6, ClosureLeast
<1> QED BY <1>3, <1>7 DEF Closed

\* The component of p.
ComponentOf(p) == {q \in State : Reach(p, q) /\ Reach(q, p)}

(* The components are the classes of mutual reachability.                  *)
LEMMA ComponentFacts ==
  ASSUME Graph
  PROVE  /\ Components(Succ, Range(initial)) =
              {ComponentOf(p) : p \in Closure(Succ, Range(initial))}
         /\ \A p \in State : p \in ComponentOf(p)
         /\ \A p \in State : \A q \in ComponentOf(p) : ComponentOf(q) = ComponentOf(p)
<1>1. DOMAIN Succ = State /\ ReachLaws
  BY GraphOfMoves
<1>2. Components(Succ, Range(initial)) = {ComponentOf(p) : p \in Closure(Succ, Range(initial))}
  BY <1>1 DEF Components, ComponentOf, Reach
<1>3. \A p \in State : p \in ComponentOf(p)
  BY <1>1 DEF ComponentOf, ReachLaws
<1>4. ASSUME NEW p \in State, NEW q \in ComponentOf(p)
      PROVE  ComponentOf(q) = ComponentOf(p)
  BY <1>1 DEF ComponentOf, ReachLaws
<1> QED BY <1>2, <1>3, <1>4

(* At the end all components have been reported.                           *)
LEMMA AllReported ==
  ASSUME Inv, pc = "done"
  PROVE  sccs = {ComponentOf(p) : p \in Closure(Succ, Range(initial))}
<1>1. sccs \subseteq {ComponentOf(p) : p \in Closure(Succ, Range(initial))}
  BY ComponentFacts DEF Inv, Found
<1>2. Closure(Succ, Range(initial)) \subseteq State
  BY AtTheEnd
<1>3. ASSUME NEW p \in Closure(Succ, Range(initial)) PROVE ComponentOf(p) \in sccs
  <2>1. p \in UNION sccs
    BY AtTheEnd DEF Inv, Found
  <2>2. PICK D \in sccs : p \in D
    BY <2>1
  <2>3. PICK q \in Closure(Succ, Range(initial)) : D = ComponentOf(q)
    BY <1>1, <2>2
  <2>4. ComponentOf(p) = ComponentOf(q)
    BY <1>2, <2>2, <2>3, ComponentFacts DEF Inv
  <2> QED BY <2>2, <2>3, <2>4
<1> QED BY <1>1, <1>3

(* What scc_discover() is given is a component of the graph, whatever has  *)
(* been searched so far, and in the end every reachable one was given.     *)
THEOREM ComponentsRight == Spec => []ComponentsExact
<1>1. Inv => ComponentsExact
  <2> SUFFICES ASSUME Inv PROVE ComponentsExact OBVIOUS
  <2>1. pc = "done" => sccs = Components(Succ, Range(initial))
    BY AllReported, ComponentFacts DEF Inv
  <2> QED BY <2>1 DEF Inv, Found, ComponentsExact
<1> QED BY <1>1, InvHolds, PTL

(* The states marked useful are on accepting paths, in the end all those.  *)
LEMMA UsefulRight ==
  ASSUME Inv
  PROVE  UsefulExact
<1>1. useful \subseteq State /\ final \subseteq State
  BY DEF Inv, TypeOK
<1>2. useful \subseteq Closure(Succ, Range(initial)) \cap CoClosure(Succ, final)
  BY <1>1 DEF Inv, Marks, Found
<1>3. ASSUME pc = "done"
      PROVE  Closure(Succ, Range(initial)) \cap CoClosure(Succ, final) \subseteq useful
  BY <1>3, AtTheEnd DEF Inv, Marks
<1> QED BY <1>2, <1>3 DEF UsefulExact

\* Move k of p stays in p's component.
Inside(p, k) == k \in 1..Len(moves[p]) /\ Together(p, moves[p][k])

(* What the callbacks see of a component says what the paths say.          *)
LEMMA InsideComponent ==
  ASSUME Inv, NEW p \in State, NEW st \in ComponentOf(p)
  PROVE  /\ MovesInside(st, ComponentOf(p)) = {k \in 1..Len(moves[st]) : Inside(st, k)}
         /\ IsFiniteSet(MovesInside(st, ComponentOf(p)))
<1>1. ReachLaws /\ st \in State /\ ComponentOf(st) = ComponentOf(p)
  BY GraphOfMoves, ComponentFacts DEF Inv, ComponentOf
<1>2. ASSUME NEW k \in 1..Len(moves[st])
      PROVE  moves[st][k] \in ComponentOf(p) <=> Inside(st, k)
  <2>1. moves[st][k] \in State
    BY <1>1 DEF ReachLaws
  <2> QED BY <1>1, <2>1 DEF ComponentOf, Inside, Together, Reach
<1>3. MovesInside(st, ComponentOf(p)) = {k \in 1..Len(moves[st]) : Inside(st, k)}
  BY <1>2 DEF MovesInside
<1>4. Len(moves[st]) \in Nat
  BY <1>1, LenProperties DEF Inv, Graph
<1>5. IsFiniteSet(1..Len(moves[st]))
  BY <1>4, FS_Interval
<1> QED BY <1>3, <1>5, FS_Subset

(* At most one element: any two are the same.                              *)
LEMMA AtMostOne ==
  ASSUME NEW S, IsFiniteSet(S)
  PROVE  Cardinality(S) <= 1 <=> \A k, l \in S : k = l
<1>1. ASSUME Cardinality(S) <= 1, NEW k \in S, NEW l \in S, k # l PROVE FALSE
  <2>1. IsFiniteSet({k}) /\ Cardinality({k}) = 1
    BY FS_Singleton
  <2>2. IsFiniteSet({k} \cup {l}) /\ Cardinality({k} \cup {l}) = 2
    <3>1. l \notin {k}
      BY <1>1
    <3>2. /\ IsFiniteSet({k} \cup {l})
          /\ Cardinality({k} \cup {l}) = Cardinality({k}) + 1
      BY <2>1, <3>1, FS_AddElement
    <3> QED BY <2>1, <3>2
  <2>3. Cardinality({k} \cup {l}) <= Cardinality(S)
    BY <1>1, FS_Subset
  <2>4. Cardinality(S) \in Nat
    BY FS_CardinalityType
  <2> QED BY <1>1, <2>2, <2>3, <2>4
<1>2. ASSUME \A k, l \in S : k = l PROVE Cardinality(S) <= 1
  <2>1. CASE S = {}
    BY <2>1, FS_EmptySet
  <2>2. CASE S # {}
    <3>1. PICK k \in S : TRUE
      BY <2>2
    <3>2. S = {k}
      BY <1>2, <3>1
    <3>3. Cardinality({k}) = 1
      BY FS_Singleton
    <3> QED BY <3>2, <3>3
  <2> QED BY <2>1, <2>2
<1>3. ASSUME Cardinality(S) <= 1 PROVE \A k, l \in S : k = l
  BY <1>1, <1>3
<1> QED BY <1>2, <1>3

\* The states the search could reach.
Reachable == Closure(Succ, Range(initial))

(* In the end the answers of the other clients are right.                  *)
LEMMA ReportsRight ==
  ASSUME Inv
  PROVE  ReportsExact
<1> SUFFICES ASSUME pc = "done"
             PROVE  /\ accepting_state <=> Reachable \cap final # {}
                    /\ acyclic <=> \A p \in Reachable : \A q \in Succ[p] : ~ Reach(q, p)
                    /\ flat <=> \A p \in Reachable : \A k, l \in 1..Len(moves[p]) :
                                  Together(p, moves[p][k]) /\ Together(p, moves[p][l]) => k = l
  BY DEF ReportsExact, Reachable, Reach
<1>1. ReachLaws /\ IsGraph(Succ) /\ DOMAIN Succ = State
  BY GraphOfMoves DEF Inv
<1>2. Reachable \subseteq State /\ \A q \in Reachable : Closed(q)
  BY AtTheEnd DEF Reachable
<1>3. sccs = {ComponentOf(p) : p \in Reachable}
  BY AllReported DEF Reachable
<1>4. accepting_state <=> Reachable \cap final # {}
  <2>1. \A q \in final : q \in State /\ (Seen(q) => q \in Reachable)
    BY DEF Inv, TypeOK, Found, Reachable
  <2> QED BY <1>2, <2>1 DEF Inv, Reports, Closed
<1>5. /\ \A p \in State : p \in ComponentOf(p)
      /\ \A p \in State : \A q \in ComponentOf(p) : ComponentOf(q) = ComponentOf(p)
  BY ComponentFacts DEF Inv
<1>6. \A p \in Reachable : ComponentOf(p) \subseteq Reachable
  <2>1. Range(initial) \in SUBSET State
    BY RangeOfSeq DEF Inv, TypeOK
  <2> QED BY <1>1, <2>1, ClosureReaches DEF Reachable, ComponentOf, Reach
<1>7. ASSUME acyclic, NEW p \in Reachable, NEW q \in Succ[p], Reach(q, p) PROVE FALSE
  <2>1. PICK k \in 1..Len(moves[p]) : q = moves[p][k] /\ Reach(p, q) /\ q \in State
    BY <1>1, <1>2 DEF ReachLaws
  <2>2. k \in MovesInside(p, ComponentOf(p))
    BY <1>7, <2>1 DEF MovesInside, ComponentOf
  <2>3. MovesInside(p, ComponentOf(p)) = {}
    BY <1>2, <1>3, <1>5, <1>7 DEF Inv, Reports
  <2> QED BY <2>2, <2>3
<1>8. ASSUME \A p \in Reachable : \A q \in Succ[p] : ~ Reach(q, p) PROVE acyclic
  <2>1. SUFFICES ASSUME NEW p \in Reachable
                 PROVE  /\ Cardinality(ComponentOf(p)) = 1
                        /\ \A st \in ComponentOf(p) : MovesInside(st, ComponentOf(p)) = {}
    BY <1>3 DEF Inv, Reports
  <2>2. ASSUME NEW q \in ComponentOf(p), q # p PROVE FALSE
    <3>1. Reach(p, q) /\ Reach(q, p) /\ q \in State /\ p \in State
      BY <1>2 DEF ComponentOf
    <3>2. PICK r \in Succ[p] : Reach(r, q)
      BY <1>1, <2>2, <3>1, ReachesFirst DEF Reach
    <3>3. r \in State
      BY <1>1, <3>1 DEF ReachLaws
    <3>4. Reach(r, p)
      BY <1>1, <3>1, <3>2, <3>3 DEF ReachLaws
    <3> QED BY <1>8, <3>4
  <2>3. ComponentOf(p) = {p}
    BY <1>2, <1>5, <2>2
  <2>4. ASSUME NEW k \in MovesInside(p, {p}) PROVE FALSE
    <3>1. k \in 1..Len(moves[p]) /\ moves[p][k] = p
      BY DEF MovesInside
    <3>2. p \in Succ[p] /\ Reach(p, p)
      BY <1>1, <1>2, <3>1 DEF ReachLaws
    <3> QED BY <1>8, <3>2
  <2> QED BY <2>3, <2>4, FS_Singleton
<1>9. flat <=> \A p \in Reachable : \A k, l \in 1..Len(moves[p]) :
                 Together(p, moves[p][k]) /\ Together(p, moves[p][l]) => k = l
  <2>1. ASSUME NEW p \in Reachable
        PROVE  \A st \in ComponentOf(p) :
                 Cardinality(MovesInside(st, ComponentOf(p))) <= 1 <=>
                   \A k, l \in 1..Len(moves[st]) : Inside(st, k) /\ Inside(st, l) => k = l
    BY <1>2, InsideComponent, AtMostOne
  <2>2. flat <=> \A p \in Reachable : \A st \in ComponentOf(p) :
                   \A k, l \in 1..Len(moves[st]) : Inside(st, k) /\ Inside(st, l) => k = l
    BY <1>3, <2>1 DEF Inv, Reports
  <2>3. flat <=> \A p \in Reachable :
                   \A k, l \in 1..Len(moves[p]) : Inside(p, k) /\ Inside(p, l) => k = l
    BY <1>2, <1>5, <1>6, <2>2
  <2> QED BY <2>3 DEF Inside
<1>10. acyclic <=> \A p \in Reachable : \A q \in Succ[p] : ~ Reach(q, p)
  BY <1>7, <1>8
<1> QED BY <1>4, <1>9, <1>10

(* What the clients make of the search is right: get_useful_states() never *)
(* marks a state that is not useful and in the end has them all, and       *)
(* is_lang_empty_scc(), is_acyclic() and is_flat() answer what the paths   *)
(* of the automaton say.                                                   *)
THEOREM Clients == Spec => []ClientsExact
<1>1. Inv => ClientsExact
  BY UsefulRight, ReportsRight DEF ClientsExact
<1> QED BY <1>1, InvHolds, PTL
=============================================================================
