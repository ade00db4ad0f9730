---------------------------- MODULE MCAsyncBatch ----------------------------
(* Small instances of AsyncBatch for TLC. *)
EXTENDS AsyncBatch, TLC

CONSTANTS c1, c2, b1, b2, x, y, oom

Symm == Permutations(Buffers) \cup Permutations(Contents)
=============================================================================
