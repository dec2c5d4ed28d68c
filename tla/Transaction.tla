----------------------------- MODULE Transaction ----------------------------
(***************************************************************************)
(* One attempt of a transaction: its client, the cleaners, the server and   *)
(* the other transactions, together.                                        *)
(***************************************************************************)
EXTENDS AttemptContext, AtrCleanupEntry

vars == <<storeVars, clientVars, cleanupVars>>

Init == StoreInit /\ ClientInit /\ CleanupInit

Next ==
  \/ StoreNext(Stopped) /\ UNCHANGED <<clientVars, cleanupVars>>
  \/ ClientNext /\ UNCHANGED cleanupVars
  \/ \E c \in Cleaners : CleanerNext(c) /\ UNCHANGED clientVars

Spec == Init /\ [][Next]_vars

(***************************************************************************)
(* The threads of the client and the cleaners keep running, a request that  *)
(* timed out arrives in the end, and time passes.  Nothing is assumed of    *)
(* the application, beyond that its lambda returns, or of other             *)
(* transactions.                                                            *)
(***************************************************************************)
ClientRuns ==
  /\ WF_vars(StartItem /\ UNCHANGED cleanupVars)
  /\ WF_vars(EndAttempt /\ UNCHANGED cleanupVars)
  /\ WF_vars((Commit \/ LogicFails) /\ UNCHANGED cleanupVars)
  /\ \A d \in Docs :
       /\ WF_vars(phase = "logic" /\ Operate(d) /\ UNCHANGED cleanupVars)
       /\ WF_vars(Unstage(d) /\ UNCHANGED cleanupVars)

Fairness ==
  /\ ClientRuns
  /\ \A c \in Cleaners : WF_vars(CleanerNext(c) /\ UNCHANGED clientVars)
  /\ WF_vars((Tick(Stopped) \/ LateArrives)
               /\ UNCHANGED <<clientVars, cleanupVars>>)

FairSpec == Spec /\ Fairness

-----------------------------------------------------------------------------
\* Client, cleaners and server hold what their code can put there.
TypeOK == StoreTypeOK /\ ClientTypeOK /\ CleanupTypeOK

\* Nothing of the attempt becomes visible before it is committed, and no
\* staged mutation of a committed attempt is ever undone: by commit_doc,
\* remove_doc, the rollback, or a cleaner.
AllOrNothing ==
  \A d \in Docs : /\ fate[d] = "published" => committed
                  /\ fate[d] = "undone" => ~committed

\* Once the attempt is committed, a reader sees each of its mutations: it is
\* published, or it is staged and the entry says COMMITTED.
CommittedIsVisible ==
  committed =>
    \A d \in Docs : kind[d] # "none" =>
      \/ fate[d] = "published"
      \/ doc[d].stg \in Ours /\ atr.status = "COMMITTED"

\* What the application is told is true, and stays true whatever request is
\* still on its way: success means that the attempt is committed (or had
\* nothing to commit), and a failure that is not "ambiguous" means that it is
\* not and never will be.
ResultIsTrue ==
  /\ result = "SUCCESS" => committed \/ Listed = {}
  /\ result \in {"FAILED", "EXPIRED", "RETRY"} => ~committed

\* The attempt reports COMPLETED (unstaging_complete) or ROLLED_BACK only
\* when each of its mutations is published, or undone.
StateIsTrue ==
  \A d \in Listed : /\ st = "COMPLETED" => fate[d] = "published"
                    /\ st = "ROLLED_BACK" => fate[d] = "undone"

\* remove_doc repeats a removal that an earlier request has already made.
RepeatsRemoval(d) ==
  kind[d] = "remove" /\ fate[d] = "published" /\ item[d] = "flying"

\* Where the attempt has no mutation staged, it and its cleaners change no
\* body, by commit_doc in its cas_zero_mode, the insert of a cleaner without a
\* CAS, or remove_doc without a CAS; and they leave alone a document that
\* another transaction, with an entry, has staged a mutation of: they may stage
\* over one that has lost its entry, but not when yet another transaction has
\* staged a mutation since they checked that.  Excepted is remove_doc when it
\* repeats a removal whose first answer was ambiguous.
OthersUnharmed ==
  [][\A d \in Docs :
       doc[d].stg \notin Ours /\ doc'[d] # doc[d] /\ ~RepeatsRemoval(d) =>
         /\ \/ doc'[d].live = doc[d].live /\ doc'[d].body = doc[d].body
            \/ doc[d].stg = "other" /\ doc'[d].body = "other"
         /\ doc[d].stg = "other" => UNCHANGED <<clientVars, cleanupVars>>]_vars

\* A mutation is staged only while the attempt has an entry, so that others
\* see the document as part of a transaction that is under way.
EntryBeforeStaging ==
  [][\A d \in Docs : doc[d].stg \notin Ours /\ doc'[d].stg \in Ours
                     => atr.status # "NONE"]_vars

\* A rollback that does nothing, because it is "called on txn with no
\* mutations", is one of an attempt that has staged nothing.
RollbackSkipsNothing ==
  phase = "rolled_back" /\ st = "NOT_STARTED" => Listed = {}

\* The entry goes from COMMITTED only to removal.
CommitIsFinal ==
  [][atr.status = "COMMITTED" => atr'.status \in {"COMMITTED", "NONE"}]_vars

-----------------------------------------------------------------------------
\* A reader takes the attempt's mutation of the document for the document.
Sees(d) ==
  \/ fate[d] = "published"
  \/ doc[d].stg \in Ours /\ atr.status = "COMMITTED"

Told ==
  CASE result = "none" -> "nothing"
    [] result = "SUCCESS" -> "success"
    [] result = "AMBIGUOUS" -> "unknown"
    [] OTHER -> "failure"

Promise == INSTANCE AtomicCommit WITH
  decision <- IF committed THEN "committed" ELSE "open",
  intent   <- Listed,
  view     <- [d \in Docs |-> IF Sees(d) THEN "after" ELSE "before"],
  told     <- Told

\* The attempt, with its cleaners, is an atomic commit: its mutations become
\* visible together, at the request that makes the entry COMMITTED, stay
\* visible while the client or a cleaner publishes them one by one and removes
\* the entry, and the application is told no lie.
AtomicPromise == Promise!Spec

-----------------------------------------------------------------------------
\* An attempt whose time is over returns to the application.
ExpiredReturns == Expired ~> Stopped

\* A committed attempt is published in the end, even when its client fails to
\* do so or crashes.
CommittedIsPublished ==
  committed ~> \A d \in Listed : fate[d] = "published"

\* The entry is removed in the end, and stays away.
EntryRemoved == <>[](atr.status = "NONE")
=============================================================================
