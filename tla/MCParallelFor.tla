--------------------------- MODULE MCParallelFor ----------------------------
(* Small instances of ParallelFor for TLC. *)
EXTENDS ParallelFor

CONSTANTS s1, s2, s3, MCSizes, MCBytes, MCBatchSizes

MCRequests == [size: MCSizes, total_bytes: MCBytes, batch_size: MCBatchSizes]
=============================================================================
