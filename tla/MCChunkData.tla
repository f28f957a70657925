----------------------------- MODULE MCChunkData -----------------------------
(* A small instance of ChunkData for TLC: chunks of 3 bytes, ints of -12..11, *)
(* so that offsets turn negative at chunk 4 and wrap around to 0 at chunk 8.  *)
EXTENDS ChunkData

Sizes == 0..29
===============================================================================
