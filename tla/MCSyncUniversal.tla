--------------------------- MODULE MCSyncUniversal ---------------------------
(* SyncUniversal for TLC: all ordered vectors over the values 0..MaxValue. *)
EXTENDS SyncUniversal, SequencesExt

CONSTANT MaxValue

MCVectors == {SetToSortSeq(S, LAMBDA a, b : a < b) : S \in SUBSET (0..MaxValue)}

\* Two vectors anywhere, three when the second does not lie above the first.
MCTrusted == [below |-> 3, same |-> 3, above |-> 2]
=============================================================================
