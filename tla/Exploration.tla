----------------------------- MODULE Exploration -----------------------------
(***************************************************************************)
(* What the worklist algorithms of the library promise: starting from some *)
(* nodes they find nodes one at a time, each a successor of one found      *)
(* before, and they report completion only when no successor of a found    *)
(* node is missing.  In which order nodes are found, and what is computed  *)
(* for them, is left open.  A caller's callback may stop the search.       *)
(***************************************************************************)
CONSTANTS
  Start(_),         \* the nodes the search of an input starts from
  Succ(_, _)        \* the successors of a node of an input

VARIABLES
  input,            \* what is searched
  found,            \* the nodes found so far
  status            \* "running", "complete" or "stopped"

vars == <<input, found, status>>

Closed(C) == \A x \in C : Succ(input, x) \subseteq C

Init ==
  /\ found = Start(input)
  /\ status \in {"running", "complete", "stopped"}
  /\ status = "complete" => Closed(found)

Discover ==
  /\ status = "running"
  /\ \E x \in found : \E y \in Succ(input, x) : found' = found \cup {y}
  /\ status' \in {"running", "stopped"}
  /\ UNCHANGED input

Complete ==
  /\ status = "running" /\ Closed(found)
  /\ status' = "complete"
  /\ UNCHANGED <<input, found>>

Next == Discover \/ Complete

Spec == Init /\ [][Next]_vars

-----------------------------------------------------------------------------
(* Nothing is found that a path from the start does not lead to: what is   *)
(* found is part of every set that holds the start and is closed under     *)
(* successors.                                                             *)
OnlyReachable(C) == Start(input) \subseteq C /\ Closed(C) => found \subseteq C

(* A search that reports completion has found all that is reachable.       *)
CompleteIsClosed ==
  Start(input) \subseteq found /\ (status = "complete" => Closed(found))
=============================================================================
