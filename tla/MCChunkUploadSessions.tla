------------------------ MODULE MCChunkUploadSessions ------------------------
(* An upload of two chunks: two requests with the same chunk 0, one with   *)
(* another, larger content for it, and one for chunk 1.                    *)
EXTENDS ChunkUploadSessions

CONSTANTS w1, w2, w3, w4, u1

MCUploadOf == [w \in Writers |-> u1]
MCIndexOf == [w \in Writers |-> IF w = w4 THEN 1 ELSE 0]
MCContent == [w \in Writers |-> CASE w = w3 -> "other" [] w = w4 -> "second" [] OTHER -> "first"]
MCBytes == [first |-> 1, second |-> 1, other |-> 2]
MCSize == [u \in Uploads |-> 2]
MCChunkCount == [u \in Uploads |-> 2]
==============================================================================
