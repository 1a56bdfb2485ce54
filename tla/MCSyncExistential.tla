-------------------------- MODULE MCSyncExistential --------------------------
(* SyncExistential for TLC: all ordered vectors over the values 0..MaxValue. *)
EXTENDS SyncExistential, SequencesExt

CONSTANT MaxValue

MCVectors == {SetToSortSeq(S, LAMBDA a, b : a < b) : S \in SUBSET (0..MaxValue)}
=============================================================================
