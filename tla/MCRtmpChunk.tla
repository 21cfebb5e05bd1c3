---------------------------- MODULE MCRtmpChunk ----------------------------
(* Bodies below, at and beyond one and two chunks; two differences of      *)
(* timestamps, of which two large ones exceed three digits of base 3.      *)
EXTENDS RtmpChunk

ChunkSizes == {1, Chunk, Chunk + 1, 2 * Chunk + 2}
Lengths == [fmt0 |-> 4, fmt1 |-> 3, fmt2 |-> 2, fmt3 |-> 1]
=============================================================================
