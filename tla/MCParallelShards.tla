-------------------------- MODULE MCParallelShards --------------------------
(* Small instances of ParallelShards: two workers on short shards.           *)
EXTENDS ParallelShards

=============================================================================
