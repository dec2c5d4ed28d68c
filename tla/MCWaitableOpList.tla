-------------------------- MODULE MCWaitableOpList --------------------------
(* WaitableOpList for TLC: a KV operation, a replica read, two queries. *)
EXTENDS WaitableOpList

=============================================================================
