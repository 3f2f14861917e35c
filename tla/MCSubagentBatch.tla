--------------------------- MODULE MCSubagentBatch ---------------------------
(***************************************************************************)
(* SubagentBatch with a tick of about a second and few tasks.              *)
(***************************************************************************)
EXTENDS SubagentBatch

Batch(cap, limits) == [maxConcurrency |-> cap, rateLimits |-> limits]

MCBatches == {Batch(0, 1), Batch(1, 2)}
=============================================================================
