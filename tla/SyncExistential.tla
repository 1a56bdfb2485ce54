--------------------------- MODULE SyncExistential ---------------------------
(***************************************************************************)
(* mata::utils::SynchronizedExistentialIterator, which determinization,    *)
(* the inclusion check and the word searches advance: it delivers the      *)
(* least value that any of several ordered vectors still has, with all the *)
(* positions that stand on it, and moves those.  A vector that is used up  *)
(* is replaced by the last one, so the vectors of positions and of ends    *)
(* shrink and change their order while advance() walks over them.  Each    *)
(* iteration of its loop is a step.                                        *)
(*                                                                         *)
(* synchronize_with() (nfa/delta.cc) calls advance() until the value is    *)
(* not below a given one.                                                  *)
(*                                                                         *)
(* Positions are places too; pc is "idle" or "walk".                       *)
(***************************************************************************)
EXTENDS SynchronizedIterator

CONSTANT MaxPushed          \* how many vectors are pushed after a reset

ASSUME MaxPushedAssumption == MaxPushed \in Nat

VARIABLES
  pushed,                   \* the vectors that have been pushed (auxiliary:
                            \* the iterator holds positions only)
  ends,                     \* places in the vectors, see Place
  currently_synchronized,   \* the places of the current value
  next_minimum,             \* the value to deliver next
  current_minimum,          \* advance()'s local copy of the one before
  goal, from                \* synchronize_with(): the value asked for, -1 if
                            \* none is, and the least it can find (auxiliary)

places == <<pushed, positions, ends>>
asked == <<goal, from>>
evars == <<places, currently_synchronized, next_minimum, current_minimum,
           pc, i, asked, last, answer>>

\* An iterator is a vector's number and an index, which may be past its end.
Place(n, k) == [of |-> n, at |-> k]
Value(p) == pushed[p.of][p.at]

is_synchronized == currently_synchronized # <<>>

EInit ==
  /\ pushed = <<>> /\ positions = <<>> /\ ends = <<>>
  /\ currently_synchronized = <<>>
  /\ next_minimum = 0 /\ current_minimum = 0
  /\ pc = "idle" /\ i = 1 /\ goal = -1 /\ from = 0
  /\ last = -1 /\ answer = "none"

-----------------------------------------------------------------------------
\* An empty vector is not stored.  next_minimum is reset by the first one.
EPushBack(v) ==
  /\ pc = "idle" /\ answer = "none"
  /\ IF v = <<>> THEN UNCHANGED <<places, next_minimum>>
     ELSE /\ Len(pushed) < MaxPushed
          /\ next_minimum' = IF positions = <<>> \/ next_minimum > v[1]
                             THEN v[1] ELSE next_minimum
          /\ LET n == Len(pushed) + 1
             IN  /\ pushed' = Append(pushed, v)
                 /\ positions' = Append(positions, Place(n, 1))
                 /\ ends' = Append(ends, Place(n, Len(v) + 1))
  /\ UNCHANGED <<currently_synchronized, current_minimum, pc, i, asked,
                 last, answer>>

\* reset() leaves next_minimum as it is.
EReset ==
  /\ pc = "idle"
  /\ pushed' = <<>> /\ positions' = <<>> /\ ends' = <<>>
  /\ currently_synchronized' = <<>>
  /\ goal' = -1 /\ from' = 0 /\ last' = -1 /\ answer' = "none"
  /\ UNCHANGED <<next_minimum, current_minimum, pc, i>>

\* advance() up to its loop.
StartWalk ==
  /\ current_minimum' = next_minimum
  /\ currently_synchronized' = <<>>
  /\ pc' = "walk" /\ i' = 1

EAdvance ==
  /\ pc = "idle" /\ StartWalk
  /\ goal' = -1 /\ from' = 0 /\ answer' = "none"
  /\ UNCHANGED <<places, next_minimum, last>>

SynchronizeWith(v) ==
  /\ pc = "idle"
  /\ goal' = v /\ from' = IF is_synchronized THEN last ELSE last + 1
  /\ IF is_synchronized /\ Value(currently_synchronized[1]) >= v
     THEN UNCHANGED <<currently_synchronized, current_minimum, pc, i, answer>>
     ELSE StartWalk /\ answer' = "none"
  /\ UNCHANGED <<places, next_minimum, last>>

\* The i-th vector is used up: the last one takes its place.
DropExhausted ==
  /\ pc = "walk" /\ i <= Len(positions) /\ positions[i] = ends[i]
  /\ LET n == Len(positions)
     IN  /\ positions' = SubSeq([positions EXCEPT ![i] = positions[n]], 1, n-1)
         /\ ends' = SubSeq([ends EXCEPT ![i] = ends[n]], 1, n-1)
  /\ UNCHANGED <<pushed, currently_synchronized, next_minimum, current_minimum,
                 pc, i, asked, last, answer>>

\* A mutant of Collect: the next position is looked at before this one is
\* found to be used up or to stand on a larger value.
CollectAndStep ==
  /\ pc = "walk" /\ i <= Len(positions) /\ positions[i] # ends[i]
  /\ Value(positions[i]) = current_minimum
  /\ currently_synchronized' = Append(currently_synchronized, positions[i])
  /\ positions' = [positions EXCEPT ![i].at = @ + 1]
  /\ i' = i + 1
  /\ UNCHANGED <<pushed, ends, next_minimum, current_minimum, pc, asked,
                 last, answer>>

\* Saved and moved; the same position is looked at again.
Collect ==
  /\ pc = "walk" /\ i <= Len(positions) /\ positions[i] # ends[i]
  /\ Value(positions[i]) = current_minimum
  /\ currently_synchronized' = Append(currently_synchronized, positions[i])
  /\ positions' = [positions EXCEPT ![i].at = @ + 1]
  /\ UNCHANGED <<pushed, ends, next_minimum, current_minimum, pc, i, asked,
                 last, answer>>

\* A mutant of Pass: next_minimum is the minimum still to deliver already.
PassLowering ==
  /\ pc = "walk" /\ i <= Len(positions) /\ positions[i] # ends[i]
  /\ LET v == Value(positions[i])
     IN  /\ v # current_minimum
         /\ next_minimum' = IF next_minimum > v THEN v ELSE next_minimum
  /\ i' = i + 1
  /\ UNCHANGED <<places, currently_synchronized, current_minimum, pc, asked,
                 last, answer>>

\* A mutant of Pass: the counter is left to the head of the loop.
PassStaying ==
  /\ pc = "walk" /\ i <= Len(positions) /\ positions[i] # ends[i]
  /\ LET v == Value(positions[i])
     IN  /\ v # current_minimum
         /\ next_minimum' = IF next_minimum > v \/ next_minimum = current_minimum
                            THEN v ELSE next_minimum
  /\ UNCHANGED <<places, currently_synchronized, current_minimum, pc, i, asked,
                 last, answer>>

\* A larger value; it may be the next one.
Pass ==
  /\ pc = "walk" /\ i <= Len(positions) /\ positions[i] # ends[i]
  /\ LET v == Value(positions[i])
     IN  /\ v # current_minimum
         /\ next_minimum' = IF next_minimum > v \/ next_minimum = current_minimum
                            THEN v ELSE next_minimum
  /\ i' = i + 1
  /\ UNCHANGED <<places, currently_synchronized, current_minimum, pc, asked,
                 last, answer>>

\* A mutant of Return: synchronize_with() stops at the value asked for only.
ReturnAtGoal ==
  /\ pc = "walk" /\ i > Len(positions)
  /\ IF is_synchronized
     THEN last' = Value(currently_synchronized[1]) /\ answer' = "yes"
     ELSE answer' = "no" /\ UNCHANGED last
  /\ IF is_synchronized /\ goal # -1 /\ last' # goal
     THEN StartWalk
     ELSE pc' = "idle" /\ UNCHANGED <<currently_synchronized, current_minimum, i>>
  /\ UNCHANGED <<places, next_minimum, asked>>

\* advance() returns, to its caller or to the loop of synchronize_with().
Return ==
  /\ pc = "walk" /\ i > Len(positions)
  /\ IF is_synchronized
     THEN last' = Value(currently_synchronized[1]) /\ answer' = "yes"
     ELSE answer' = "no" /\ UNCHANGED last
  /\ IF is_synchronized /\ last' < goal
     THEN StartWalk
     ELSE pc' = "idle" /\ UNCHANGED <<currently_synchronized, current_minimum, i>>
  /\ UNCHANGED <<places, next_minimum, asked>>

ELoop == DropExhausted \/ Collect \/ Pass \/ Return

ENext ==
  \/ \E v \in Vectors : EPushBack(v)
  \/ EReset \/ EAdvance
  \/ \E v \in UNION {{w[k] : k \in DOMAIN w} : w \in Vectors} : SynchronizeWith(v)
  \/ ELoop

ESpec == EInit /\ [][ENext]_evars /\ WF_evars(ELoop)

-----------------------------------------------------------------------------
Offered == UNION {{pushed[n][k] : k \in DOMAIN pushed[n]} : n \in DOMAIN pushed}

(* Positions and ends stay in step: the same vectors, in the same order.   *)
ETypeOK ==
  /\ pushed \in Seq(Vectors \ {<<>>}) /\ Len(pushed) <= MaxPushed
  /\ Len(positions) = Len(ends) /\ Len(ends) <= Len(pushed)
  /\ \A j \in DOMAIN positions :
       \E n \in DOMAIN pushed :
         /\ ends[j] = Place(n, Len(pushed[n]) + 1)
         /\ \E k \in 1..Len(pushed[n])+1 : positions[j] = Place(n, k)
  /\ \A j, k \in DOMAIN ends : j # k => ends[j] # ends[k]
  /\ pc \in {"idle", "walk"} /\ i \in 1..MaxPushed+1
  /\ answer \in {"none", "yes", "no"}

(* Each vector that holds the value delivered is among the synchronized    *)
(* ones, once: unify_targets() unites the targets of exactly these.        *)
Collected ==
  pc = "idle" /\ answer = "yes" =>
    /\ \A n \in DOMAIN pushed : \A k \in DOMAIN pushed[n] :
         pushed[n][k] = last =>
           \E c \in DOMAIN currently_synchronized :
             currently_synchronized[c] = Place(n, k)
    /\ \A c \in DOMAIN currently_synchronized : Value(currently_synchronized[c]) = last
    /\ \A c, d \in DOMAIN currently_synchronized :
         currently_synchronized[c] = currently_synchronized[d] => c = d

(* Positions that leave take their ends along, and none that holds the     *)
(* value leaves uncollected.                                               *)
AllCollected == ETypeOK /\ Collected

(* synchronize_with() stops at the least value, not below the one asked    *)
(* for, that has not been passed: so it says yes exactly if that value is  *)
(* still there, and passes none that a later call may ask for.             *)
SynchronizesExactly ==
  pc = "idle" /\ goal # -1 =>
    LET left == {v \in Offered : v >= goal /\ v >= from}
    IN  IF left = {} THEN ~is_synchronized
        ELSE is_synchronized /\ last \in left /\ \A v \in left : last <= v

(* A call returns.                                                         *)
CallReturns == pc # "idle" ~> pc = "idle"

(* The iterator delivers exactly the values that some vector holds.        *)
EPromise == INSTANCE Merge WITH offered <- Offered

DeliversOffered == EPromise!Spec
=============================================================================
