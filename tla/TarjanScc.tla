------------------------------ MODULE TarjanScc ------------------------------
(***************************************************************************)
(* Nfa::tarjan_scc_discover(), the iterative depth-first search for        *)
(* strongly connected components, together with its clients                *)
(* get_useful_states(), is_lang_empty_scc(), is_acyclic() and is_flat().   *)
(*                                                                         *)
(* The clients only listen to the search, so one search feeds all four.    *)
(* Three of them cut it short once their answer cannot change any more;    *)
(* the model lets it run on, with the same answers.                        *)
(*                                                                         *)
(* A step is one turn of the search: taking a state from program_stack,    *)
(* looking at one move of it, or closing it.                               *)
(***************************************************************************)
EXTENDS Automata, SequencesExt

CONSTANTS
  State,            \* the states, numbers as in the code
  InitialLists,     \* the orders in which a SparseSet may hold initial states
  MoveLists         \* the possible lists of targets of a state's moves, in the
                    \* order StatePost::Moves iterates over them

ASSUME TarjanAssumption ==
  IsFiniteSet(State) /\ InitialLists \subseteq Seq(State) /\ MoveLists \subseteq Seq(State)

VARIABLES
  moves, initial, final,      \* the automaton: targets of each state's moves,
                              \* the initial states in the order SparseSet
                              \* keeps them, the final states
  program_stack,              \* simulates the stack of the recursive calls
  tarjan_stack,               \* states of components that are not closed yet
  node,                       \* node_info
  index_cnt,
  pc,                         \* "main" loop, "moves" of the top state, "done"
  sccs,                       \* components reported so far (auxiliary)
  useful, final_scc,          \* get_useful_states()
  accepting_state,            \* is_lang_empty_scc()
  acyclic, flat               \* is_acyclic(), is_flat()

input == <<moves, initial, final>>
search == <<program_stack, tarjan_stack, node, index_cnt, pc, sccs>>
clients == <<useful, final_scc, accepting_state, acyclic, flat>>
vars == <<input, search, clients>>

Fresh == [index |-> 0, lowlink |-> 0, initialized |-> FALSE,
          on_stack |-> FALSE, current_move |-> 1]

Succ == [q \in State |-> Range(moves[q])]

Least(m, n) == IF m < n THEN m ELSE n

Init ==
  /\ moves \in [State -> MoveLists]
  /\ initial \in InitialLists
  /\ final \in SUBSET State
  /\ program_stack = initial /\ tarjan_stack = << >>
  /\ node = [q \in State |-> Fresh] /\ index_cnt = 0
  /\ pc = "main" /\ sccs = {}
  /\ useful = {} /\ final_scc = FALSE /\ accepting_state = FALSE
  /\ acyclic = TRUE /\ flat = TRUE

-----------------------------------------------------------------------------
top == Last(program_stack)

\* A mutant of SkipClosed: the closed state is left on the stack.
SkipClosedInPlace ==
  /\ pc = "main" /\ program_stack # << >>
  /\ node[top].initialized /\ ~ node[top].on_stack
  /\ UNCHANGED vars

\* An initial state that was reached from another one and is closed.
SkipClosed ==
  /\ pc = "main" /\ program_stack # << >>
  /\ node[top].initialized /\ ~ node[top].on_stack
  /\ program_stack' = Front(program_stack)
  /\ UNCHANGED <<input, tarjan_stack, node, index_cnt, pc, sccs, clients>>

\* The first visit: a new index, and the state_discover() callbacks.
Discover ==
  /\ pc = "main" /\ program_stack # << >>
  /\ ~ node[top].initialized
  /\ node' = [node EXCEPT ![top] =
                [index |-> index_cnt, lowlink |-> index_cnt, initialized |-> TRUE,
                 on_stack |-> TRUE, current_move |-> 1]]
  /\ index_cnt' = index_cnt + 1
  /\ tarjan_stack' = Append(tarjan_stack, top)
  /\ pc' = "moves"
  /\ useful' = IF top \in final THEN useful \cup {top} ELSE useful
  /\ accepting_state' = (accepting_state \/ top \in final)
  /\ UNCHANGED <<input, program_stack, sccs, final_scc, acyclic, flat>>

current_target == moves[top][node[top].current_move]

\* node_info of a state that is done with its current move.
Moved(data, low) ==
  [index |-> data.index, lowlink |-> low, initialized |-> data.initialized,
   on_stack |-> data.on_stack, current_move |-> data.current_move + 1]

\* A mutant of Resume: the lowlink of the finished call is dropped.
ResumeWithoutLowlink ==
  /\ pc = "main" /\ program_stack # << >>
  /\ node[top].initialized /\ node[top].on_stack
  /\ node' = [node EXCEPT ![top].current_move = @ + 1]
  /\ pc' = "moves"
  /\ UNCHANGED <<input, program_stack, tarjan_stack, index_cnt, sccs, clients>>

\* Back from the call for the target of the current move.
Resume ==
  /\ pc = "main" /\ program_stack # << >>
  /\ node[top].initialized /\ node[top].on_stack
  /\ node' = [node EXCEPT ![top] =
                Moved(@, Least(@.lowlink, node[current_target].lowlink))]
  /\ pc' = "moves"
  /\ UNCHANGED <<input, program_stack, tarjan_stack, index_cnt, sccs, clients>>

\* The succ_state_discover() callback of get_useful_states().
SuccDiscover ==
  /\ useful' = IF current_target \in useful THEN useful \cup {top} ELSE useful
  /\ UNCHANGED <<final_scc, accepting_state, acyclic, flat>>

\* A move to an undiscovered state: simulate the recursive call.
Descend ==
  /\ pc = "moves" /\ node[top].current_move <= Len(moves[top])
  /\ ~ node[current_target].initialized
  /\ program_stack' = Append(program_stack, current_target)
  /\ pc' = "main"
  /\ SuccDiscover
  /\ UNCHANGED <<input, tarjan_stack, node, index_cnt, sccs>>

FollowMove ==
  /\ pc = "moves" /\ node[top].current_move <= Len(moves[top])
  /\ node[current_target].initialized
  /\ node' = [node EXCEPT ![top] =
                Moved(@, IF node[current_target].on_stack
                         THEN Least(@.lowlink, node[current_target].index) ELSE @.lowlink)]
  /\ SuccDiscover
  /\ UNCHANGED <<input, program_stack, tarjan_stack, index_cnt, pc, sccs>>

-----------------------------------------------------------------------------
\* The moves of st that stay in scc.
MovesInside(st, scc) ==
  {k \in 1..Len(moves[st]) : moves[st][k] \in scc}

\* Marks stack from its top down to the first state already marked.
PropagateDown(stack, marked) ==
  LET settled == {k \in 1..Len(stack) : stack[k] \in marked}
  IN  marked \cup {stack[k] : k \in {j \in 1..Len(stack) :
                                      \A m \in settled : m < j}}

\* A mutant of SccDiscover: usefulness is not passed down the stack.
SccDiscoverForgetting(scc, rest) ==
  /\ useful' = IF final_scc \/ scc \cap useful # {} THEN useful \cup scc ELSE useful
  /\ final_scc' = FALSE
  /\ acyclic' = (acyclic /\ Cardinality(scc) = 1
                          /\ \A st \in scc : MovesInside(st, scc) = {})
  /\ flat' = (flat /\ \A st \in scc : Cardinality(MovesInside(st, scc)) <= 1)
  /\ UNCHANGED accepting_state

\* The scc_state_discover() and scc_discover() callbacks for component scc;
\* rest is what stays on the Tarjan stack.  final_scc is raised while the
\* component is popped and lowered again afterwards.
SccDiscover(scc, rest) ==
  /\ useful' = IF final_scc \/ scc \cap useful # {}
               THEN PropagateDown(rest, useful \cup scc) ELSE useful
  /\ final_scc' = FALSE
  /\ acyclic' = (acyclic /\ Cardinality(scc) = 1
                          /\ \A st \in scc : MovesInside(st, scc) = {})
  /\ flat' = (flat /\ \A st \in scc : Cardinality(MovesInside(st, scc)) <= 1)
  /\ UNCHANGED accepting_state

\* A mutant of CloseRoot: popping stops above the root.
CloseRootLeavingRoot ==
  /\ pc = "moves" /\ node[top].current_move > Len(moves[top])
  /\ node[top].lowlink = node[top].index
  /\ \E base \in 1..Len(tarjan_stack) :
       /\ tarjan_stack[base] = top
       /\ LET scc == {tarjan_stack[k] : k \in base+1..Len(tarjan_stack)}
              rest == SubSeq(tarjan_stack, 1, base)
          IN  /\ tarjan_stack' = rest
              /\ node' = [q \in State |->
                            IF q \in scc THEN [node[q] EXCEPT !.on_stack = FALSE]
                            ELSE node[q]]
              /\ sccs' = sccs \cup {scc}
              /\ SccDiscover(scc, rest)
  /\ program_stack' = Front(program_stack) /\ pc' = "main"
  /\ UNCHANGED <<input, index_cnt>>

\* All moves done in the root of a component: pop it from the Tarjan stack.
CloseRoot ==
  /\ pc = "moves" /\ node[top].current_move > Len(moves[top])
  /\ node[top].lowlink = node[top].index
  /\ \E base \in 1..Len(tarjan_stack) :
       /\ tarjan_stack[base] = top
       /\ LET scc == {tarjan_stack[k] : k \in base..Len(tarjan_stack)}
              rest == SubSeq(tarjan_stack, 1, base-1)
          IN  /\ tarjan_stack' = rest
              /\ node' = [q \in State |->
                            IF q \in scc THEN [node[q] EXCEPT !.on_stack = FALSE]
                            ELSE node[q]]
              /\ sccs' = sccs \cup {scc}
              /\ SccDiscover(scc, rest)
  /\ program_stack' = Front(program_stack) /\ pc' = "main"
  /\ UNCHANGED <<input, index_cnt>>

\* All moves done in a state of a component rooted further down.
CloseMember ==
  /\ pc = "moves" /\ node[top].current_move > Len(moves[top])
  /\ node[top].lowlink # node[top].index
  /\ program_stack' = Front(program_stack) /\ pc' = "main"
  /\ UNCHANGED <<input, tarjan_stack, node, index_cnt, sccs, clients>>

Finish ==
  /\ pc = "main" /\ program_stack = << >>
  /\ pc' = "done"
  /\ UNCHANGED <<input, program_stack, tarjan_stack, node, index_cnt, sccs, clients>>

Next ==
  \/ SkipClosed \/ Discover \/ Resume \/ Descend \/ FollowMove
  \/ CloseRoot \/ CloseMember \/ Finish

Spec == Init /\ [][Next]_vars /\ WF_vars(Next)

-----------------------------------------------------------------------------
NodeData == [index : Nat, lowlink : Nat, initialized : BOOLEAN,
             on_stack : BOOLEAN, current_move : Nat \ {0}]

(* Types.                                                                  *)
TypeOK ==
  /\ initial \in Seq(State) /\ final \subseteq State
  /\ program_stack \in Seq(State) /\ tarjan_stack \in Seq(State)
  /\ node \in [State -> NodeData] /\ index_cnt \in 0..Cardinality(State)
  /\ pc \in {"main", "moves", "done"}
  /\ sccs \subseteq SUBSET State /\ useful \subseteq State
  /\ {final_scc, accepting_state, acyclic, flat} \subseteq BOOLEAN

(* What the comment on tarjan_scc_discover() relies on when it propagates  *)
(* usefulness down the Tarjan stack: a state on that stack reaches every   *)
(* state above it, so all of them reach the component closed on top.       *)
StackReachesTop ==
  \A j \in 1..Len(tarjan_stack) : \A k \in 1..j-1 :
    Reaches(Succ, tarjan_stack[k], tarjan_stack[j])

(* on_stack and the stack agree, although the flag is cleared while states *)
(* are popped and is what both lowlink updates and the skip depend on.     *)
OnStackAgrees ==
  {q \in State : node[q].on_stack} = Range(tarjan_stack)

(* The Tarjan stack is what the algorithm and its clients take it for, and *)
(* the types are right.                                                    *)
StackSound == TypeOK /\ StackReachesTop /\ OnStackAgrees

(* A component that is reported is one of the graph, at once and not only  *)
(* at the end, and in the end all reachable ones have been reported.       *)
ComponentsExact ==
  /\ sccs \subseteq Components(Succ, Range(initial))
  /\ pc = "done" => sccs = Components(Succ, Range(initial))

(* Usefulness is never guessed: at every point of the search a state that  *)
(* is marked is reachable and leads to a final state.  In the end          *)
(* get_useful_states() returns exactly these, the set trim() keeps.        *)
UsefulExact ==
  LET on_accepting_paths == Closure(Succ, Range(initial)) \cap CoClosure(Succ, final)
  IN  /\ useful \subseteq on_accepting_paths
      /\ pc = "done" => useful = on_accepting_paths

\* States p and q lie on a common cycle or are the same.
Together(p, q) == Reaches(Succ, p, q) /\ Reaches(Succ, q, p)

(* is_lang_empty_scc(), is_acyclic() and is_flat() answer what the paths   *)
(* of the reachable graph say: a final state on one of them, a cycle, two  *)
(* different moves of one state that stay on cycles through it.            *)
ReportsExact ==
  pc = "done" =>
    LET reachable == Closure(Succ, Range(initial))
    IN  /\ accepting_state <=> reachable \cap final # {}
        /\ acyclic <=> \A p \in reachable : \A q \in Succ[p] : ~ Reaches(Succ, q, p)
        /\ flat <=> \A p \in reachable : \A k, l \in 1..Len(moves[p]) :
                      Together(p, moves[p][k]) /\ Together(p, moves[p][l]) => k = l

(* What the four clients make of the search: neither a useful state nor an *)
(* answer is ever wrong.                                                   *)
ClientsExact == UsefulExact /\ ReportsExact

(* The search ends.                                                        *)
Terminates == <>(pc = "done")
=============================================================================
