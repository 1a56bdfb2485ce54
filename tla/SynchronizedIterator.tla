------------------------ MODULE SynchronizedIterator ------------------------
(***************************************************************************)
(* mata::utils::SynchronizedIterator: the vectors that the universal and   *)
(* the existential iterator walk over, and the state that both have.  What *)
(* each of the two makes of it has its own name: UAdvance, EAdvance.       *)
(***************************************************************************)
EXTENDS Integers, Sequences

CONSTANT Vectors    \* the ordered vectors that may be pushed

Ascending(v) == \A j, k \in DOMAIN v : j < k => v[j] < v[k]

ASSUME VectorsAssumption == \A v \in Vectors : v \in Seq(Nat) /\ Ascending(v)

VARIABLES
  positions,        \* where the iterator stands in the vectors
  pc, i,            \* where advance() is, and its loop counter
  last, answer      \* what has been delivered (auxiliary, see Merge)
=============================================================================
