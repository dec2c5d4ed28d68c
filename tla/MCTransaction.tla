--------------------------- MODULE MCTransaction ----------------------------
(***************************************************************************)
(* Small instances of Transaction for TLC: two documents, one or two        *)
(* cleaners, and the faults and calls each configuration allows.            *)
(***************************************************************************)
EXTENDS Transaction
=============================================================================
