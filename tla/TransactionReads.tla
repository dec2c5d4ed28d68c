-------------------------- MODULE TransactionReads --------------------------
(***************************************************************************)
(* The attempt of Transaction, read by another transaction while it stages, *)
(* commits, crashes and is cleaned up.                                      *)
(***************************************************************************)
EXTENDS Transaction, TransactionGet

readsVars == <<vars, readVars>>

ReadsInit == Init /\ GetInit

ReadsNext ==
  \/ Next /\ UNCHANGED readVars
  \/ GetNext /\ UNCHANGED <<clientVars, cleanupVars>>

ReadsSpec == ReadsInit /\ [][ReadsNext]_readsVars

-----------------------------------------------------------------------------
\* What d is once the attempt is committed.
AfterCommit(d) == IF kind[d] = "remove" THEN "none" ELSE "mine"

\* A result that the application gets.
Returned(d) == stage = "returned" /\ d \in asked /\ ~cleared

\* No dirty reads: get, get_optional and get_multi return content the attempt
\* has staged only when the attempt is committed, and a document it removes or
\* has removed is missing only then.
ReadsAreCommitted ==
  \A d \in Docs : Returned(d) /\ ~committed =>
    got[d].body = IF d \in Existing THEN "old" ELSE "none"

\* A read that starts after the commit sees it: the attempt's documents are
\* the committed ones, whether they are still staged, being published or
\* published, and whether the entry is there or has been removed between the
\* two requests of do_get, unless the lookup of the record itself failed.
ReadsSeeCommit ==
  \A d \in Listed : Returned(d) /\ since /\ ~blind => got[d].body = AfterCommit(d)
=============================================================================
