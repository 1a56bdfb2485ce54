---------------------------- MODULE SyncUniversal ----------------------------
(***************************************************************************)
(* mata::utils::SynchronizedUniversalIterator, which the products advance: *)
(* it moves a position in each of several ordered vectors until all stand  *)
(* on the same value, everybody being synchronized with the first.  Each   *)
(* iteration of the nested loops of advance() is a step.                   *)
(*                                                                         *)
(* When the first position has moved, the positions already compared with  *)
(* it must be compared again.  The code decides this by comparing the      *)
(* first two ITERATORS, not the values they point at.  These point into    *)
(* different vectors, so the outcome depends on where the vectors happen   *)
(* to be allocated: `layout`.                                              *)
(*                                                                         *)
(* A position is an index into the vector; pc is "idle", or where the      *)
(* loops of advance() are.                                                 *)
(***************************************************************************)
EXTENDS SynchronizedIterator

CONSTANTS
  Layouts,          \* where the second vector may lie, seen from the first
  MaxVectors        \* per layout, how many are pushed after a reset

ASSUME LayoutsAssumption ==
  /\ Layouts \subseteq {"below", "above", "same"}
  /\ MaxVectors \in [Layouts -> Nat \ {0}]

VARIABLES
  vectors,          \* what has been pushed since the last reset
  synced,           \* synchronized_at_current_minimum
  layout            \* the second vector is "below" or "above" the first in
                    \* memory, or the "same" object

filling == <<vectors, layout>>
uvars == <<filling, positions, synced, pc, i, last, answer>>

N == Len(vectors)
AtEnd(j) == positions[j] = Len(vectors[j]) + 1
ValueAt(j) == vectors[j][positions[j]]

\* Pointer comparison: positions[0] > positions[1].
FirstAbove ==
  \/ layout = "below"
  \/ layout = "same" /\ positions[1] > positions[2]

UInit ==
  /\ vectors = <<>> /\ positions = <<>> /\ layout \in Layouts
  /\ synced = FALSE
  /\ pc = "idle" /\ i = 2
  /\ last = -1 /\ answer = "none"

-----------------------------------------------------------------------------
\* Pushing after advance() breaks the iterator, says its documentation.
UPushBack(v) ==
  /\ pc = "idle" /\ answer = "none" /\ N < MaxVectors[layout]
  /\ N = 1 /\ layout = "same" => v = vectors[1]
  /\ vectors' = Append(vectors, v) /\ positions' = Append(positions, 1)
  /\ UNCHANGED <<layout, synced, pc, i, last, answer>>

UReset ==
  /\ pc = "idle"
  /\ vectors' = <<>> /\ positions' = <<>> /\ layout' \in Layouts
  /\ synced' = FALSE
  /\ last' = -1 /\ answer' = "none"
  /\ UNCHANGED <<pc, i>>

ReturnFalse == pc' = "idle" /\ answer' = "no" /\ UNCHANGED last

\* advance() up to the for loop.  The first position is left where it is if
\* it is not part of a result yet.
UAdvance ==
  /\ pc = "idle"
  /\ synced' = FALSE
  /\ IF N = 0
     THEN ReturnFalse /\ UNCHANGED <<positions, i>>
     ELSE LET first == IF synced THEN positions[1] + 1 ELSE positions[1]
          IN  /\ positions' = [positions EXCEPT ![1] = first]
              /\ IF first = Len(vectors[1]) + 1
                 THEN ReturnFalse /\ UNCHANGED i
                 ELSE pc' = "each" /\ i' = 2 /\ answer' = "none" /\ UNCHANGED last
  /\ UNCHANGED filling

\* A mutant of Compare: the loop starts over even where nothing had to move.
CompareStartingOver ==
  /\ pc = "each" /\ i <= N
  /\ \/ AtEnd(i) /\ ReturnFalse /\ UNCHANGED i
     \/ ~AtEnd(i) /\ ValueAt(i) = ValueAt(1) /\ i' = (IF FirstAbove THEN 2 ELSE i + 1)
        /\ UNCHANGED <<pc, last, answer>>
     \/ ~AtEnd(i) /\ ValueAt(i) # ValueAt(1) /\ pc' = "behind"
        /\ UNCHANGED <<i, last, answer>>
  /\ UNCHANGED <<filling, positions, synced>>

\* The heads of the for and of the outer while loop.
Compare ==
  /\ pc = "each" /\ i <= N
  /\ \/ AtEnd(i) /\ ReturnFalse /\ UNCHANGED i
     \/ ~AtEnd(i) /\ ValueAt(i) = ValueAt(1) /\ i' = i + 1
        /\ UNCHANGED <<pc, last, answer>>
     \/ ~AtEnd(i) /\ ValueAt(i) # ValueAt(1) /\ pc' = "behind"
        /\ UNCHANGED <<i, last, answer>>
  /\ UNCHANGED <<filling, positions, synced>>

\* Advance position i to or beyond the first.
MoveOther ==
  /\ pc = "behind" /\ ValueAt(i) < ValueAt(1)
  /\ positions' = [positions EXCEPT ![i] = @ + 1]
  /\ IF positions'[i] = Len(vectors[i]) + 1
     THEN ReturnFalse
     ELSE UNCHANGED <<pc, last, answer>>
  /\ UNCHANGED <<filling, synced, i>>

OtherCaughtUp ==
  /\ pc = "behind" /\ ~(ValueAt(i) < ValueAt(1))
  /\ pc' = "ahead"
  /\ UNCHANGED <<filling, positions, synced, i, last, answer>>

\* Advance the first to or beyond position i.
MoveFirst ==
  /\ pc = "ahead" /\ ValueAt(i) > ValueAt(1)
  /\ positions' = [positions EXCEPT ![1] = @ + 1]
  /\ IF positions'[1] = Len(vectors[1]) + 1
     THEN ReturnFalse
     ELSE UNCHANGED <<pc, last, answer>>
  /\ UNCHANGED <<filling, synced, i>>

\* A mutant of FirstCaughtUp: whatever moved, the next position is next.
FirstCaughtUpGoingOn ==
  /\ pc = "ahead" /\ ~(ValueAt(i) > ValueAt(1))
  /\ pc' = "each"
  /\ UNCHANGED <<filling, positions, synced, i, last, answer>>

\* The end of the while body: start over with the second position, or go on
\* with the one at hand.
FirstCaughtUp ==
  /\ pc = "ahead" /\ ~(ValueAt(i) > ValueAt(1))
  /\ pc' = "each"
  /\ i' = IF FirstAbove THEN 2 ELSE i
  /\ UNCHANGED <<filling, positions, synced, last, answer>>

\* A mutant of ReturnTrue: the result is not remembered as delivered.
ReturnTrueUnmarked ==
  /\ pc = "each" /\ i > N
  /\ pc' = "idle" /\ last' = ValueAt(1) /\ answer' = "yes"
  /\ UNCHANGED <<filling, positions, synced, i>>

ReturnTrue ==
  /\ pc = "each" /\ i > N
  /\ synced' = TRUE
  /\ pc' = "idle" /\ last' = ValueAt(1) /\ answer' = "yes"
  /\ UNCHANGED <<filling, positions, i>>

ULoop == Compare \/ MoveOther \/ OtherCaughtUp \/ MoveFirst \/ FirstCaughtUp
        \/ ReturnTrue

UNext == (\E v \in Vectors : UPushBack(v)) \/ UReset \/ UAdvance \/ ULoop

USpec == UInit /\ [][UNext]_uvars /\ WF_uvars(ULoop)

-----------------------------------------------------------------------------
(* The positions stay inside their vectors, and where a value is about to  *)
(* be read there is one.                                                   *)
PositionsOK ==
  /\ vectors \in Seq(Vectors) /\ N <= MaxVectors[layout]
  /\ positions \in Seq(Nat \ {0}) /\ Len(positions) = N
  /\ \A j \in 1..N : positions[j] <= Len(vectors[j]) + 1

ControlOK ==
  /\ layout \in Layouts /\ synced \in BOOLEAN
  /\ pc \in {"idle", "each", "behind", "ahead"} /\ i \in Nat \ {0, 1}
  /\ pc # "idle" => N > 0 /\ ~AtEnd(1) /\ i <= N + 1
  /\ pc \in {"behind", "ahead"} => i <= N /\ ~AtEnd(i)
  /\ last \in Nat \cup {-1} /\ answer \in {"none", "yes", "no"}

UTypeOK == PositionsOK /\ ControlOK

(* "It can be true only if all positions are indeed synchronized", says    *)
(* the comment on the flag, which the products rely on when they pair the  *)
(* moves the iterator points at.                                           *)
Synchronized == synced => \A j \in 1..N : ~AtEnd(j) /\ ValueAt(j) = last

(* advance() returns, although it starts its loop over.                    *)
AdvanceReturns == pc # "idle" ~> pc = "idle"

(* The iterator delivers exactly the values that all the vectors hold.     *)
Common ==
  IF N = 0 THEN {}
  ELSE {vectors[1][k] : k \in {l \in DOMAIN vectors[1] :
          \A j \in 1..N : \E m \in DOMAIN vectors[j] : vectors[j][m] = vectors[1][l]}}

UPromise == INSTANCE Merge WITH offered <- Common

DeliversCommon == UPromise!Spec
=============================================================================
