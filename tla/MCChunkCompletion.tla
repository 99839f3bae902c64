-------------------------- MODULE MCChunkCompletion --------------------------
(* One upload, its completion attempts, and one maintenance run at a time. *)
EXTENDS ChunkCompletion, TLC

CONSTANT u1

MCUploadOf == [r \in Requests |-> u1]

\* The attempts of one upload are interchangeable.
MCSymmetry == Permutations(Requests)
==============================================================================
