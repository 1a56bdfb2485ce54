-------------------------------- MODULE Merge --------------------------------
(***************************************************************************)
(* What an iterator of utils/synchronized-iterator.hh promises: filled     *)
(* with some ordered vectors, it delivers the values they offer, each      *)
(* once and in ascending order, and then says that there are no more, as   *)
(* often as it is asked.                                                   *)
(***************************************************************************)
EXTENDS Integers

VARIABLES
  offered,          \* the values to deliver
  last,             \* the value delivered last, -1 before the first
  answer            \* what advance() last returned; "none" before that

vars == <<offered, last, answer>>

Init == offered = {} /\ last = -1 /\ answer = "none"

\* reset() and push_back(): a new collection of vectors.
Refill == offered' \in SUBSET Nat /\ last' = -1 /\ answer' = "none"

\* advance() is called.
Ask == answer' = "none" /\ UNCHANGED <<offered, last>>

Deliver ==
  \E v \in offered :
    /\ v > last
    /\ \A w \in offered : w > last => v <= w
    /\ last' = v /\ answer' = "yes"
    /\ UNCHANGED offered

Exhaust ==
  /\ \A w \in offered : w <= last
  /\ answer' = "no"
  /\ UNCHANGED <<offered, last>>

Next == Refill \/ Ask \/ Deliver \/ Exhaust

Spec == Init /\ [][Next]_vars
=============================================================================
