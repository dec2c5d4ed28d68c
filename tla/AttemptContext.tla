--------------------------- MODULE AttemptContext ---------------------------
(***************************************************************************)
(* One attempt of a transaction, as its client runs it: the operations      *)
(* that stage mutations (attempt_context_impl), commit and rollback, the    *)
(* unstaging of the staged mutations (staged_mutation_queue), and what      *)
(* transaction_context makes of the outcome.                                *)
(*                                                                          *)
(* Every request to the server is one step together with the handling of    *)
(* its answer.  A request may fail: "transient", "other", "full" (the ATR   *)
(* document), or ambiguously.                                               *)
(***************************************************************************)
EXTENDS TransactionStore

CONSTANTS
  MaxCalls,        \* bound on the mutations the application asks for
  MaxParallelism,  \* MAX_PARALLELISM of unstaging_state
  Concurrent,      \* TRUE: the application runs its operations in parallel
  StoredContent,   \* TRUE: the cluster lacks replace_body_with_xattr
  Crashes          \* TRUE: the client may crash

ASSUME ClientAssumption ==
  /\ MaxCalls \in Nat
  /\ MaxParallelism \in Nat \ {0}
  /\ Concurrent \in BOOLEAN
  /\ StoredContent \in BOOLEAN
  /\ Crashes \in BOOLEAN

VARIABLES
  phase,     \* where the thread that runs the attempt is
  st,        \* state_ of the attempt
  atrId,     \* atr_id_ is set
  op,        \* the operation in progress on each document
  want,      \* the request that operation is about to send
  kind,      \* staged_mutations_: the staged mutation of each document
  stored,    \* the staged mutations whose content is kept in memory
  err,       \* errors_, merged; later the error being handled
  overtime,  \* expiry_overtime_mode_
  ambig,     \* ambiguity_resolution_mode of atr_commit
  item,      \* progress of the unstaging of each document
  mode,      \* ambiguity_resolution_mode, cas_zero_mode of commit_doc
  abort,     \* abort_ of unstaging_state
  calls,     \* mutations asked for so far
  result     \* what the application is told

clientVars == <<phase, st, atrId, op, want, kind, stored, err, overtime, ambig,
                item, mode, abort, calls, result>>

-----------------------------------------------------------------------------
(* Errors: the flags of transaction_operation_failed.                       *)

Raises == {"FAILED", "EXPIRED", "AMBIGUOUS", "FAILED_POST_COMMIT"}
Errors == [retry : BOOLEAN, rollback : BOOLEAN, raise : Raises]

NoError       == [retry |-> FALSE, rollback |-> TRUE, raise |-> "NONE"]
Fail          == [retry |-> FALSE, rollback |-> TRUE, raise |-> "FAILED"]
Retry         == [retry |-> TRUE, rollback |-> TRUE, raise |-> "FAILED"]
ExpiredError  == [retry |-> FALSE, rollback |-> TRUE, raise |-> "EXPIRED"]
NoRollback(r) == [retry |-> FALSE, rollback |-> FALSE, raise |-> r]
PostCommit    == NoRollback("FAILED_POST_COMMIT")

\* merge_errors, one more error at a time
Merge(e, f) ==
  IF e = NoError \/ (e.rollback /\ (~f.retry \/ ~f.rollback)) THEN f ELSE e

\* mutant: post-commit failures are raised like the others
FinalRaised(e) == e.raise

\* get_final_exception; without an exception the result is returned
Final(e) == IF e.raise = "FAILED_POST_COMMIT" THEN "SUCCESS" ELSE e.raise

-----------------------------------------------------------------------------
Phases == {"logic", "atr_commit", "resolve", "commit_docs", "atr_complete",
           "handle_error", "atr_abort", "rollback_docs", "rollback_complete",
           "rolled_back", "finished", "crashed"}
States == {"NOT_STARTED", "PENDING", "COMMITTED", "ABORTED", "COMPLETED",
           "ROLLED_BACK"}
Places == {"idle", "select", "atr", "atr_retry", "stage", "stage_retry", "hung"}
Wants  == Ours \cup {"drop"}
Items  == {"queued", "flying", "done", "failed"}
Results == {"none", "SUCCESS", "RETRY", "FAILED", "EXPIRED", "AMBIGUOUS"}

ClientTypeOK ==
  /\ phase \in Phases
  /\ st \in States
  /\ atrId \in BOOLEAN
  /\ op \in [Docs -> Places]
  /\ want \in [Docs -> Wants]
  /\ kind \in [Docs -> Kinds]
  /\ stored \in SUBSET Docs
  /\ err \in Errors \cup {NoError}
  /\ overtime \in BOOLEAN
  /\ ambig \in BOOLEAN
  /\ item \in [Docs -> Items]
  /\ mode \in [Docs -> [amb : BOOLEAN, cas0 : BOOLEAN]]
  /\ abort \in BOOLEAN
  /\ calls \in 0..MaxCalls
  /\ result \in Results

ClientInit ==
  /\ phase = "logic" /\ st = "NOT_STARTED" /\ atrId = FALSE
  /\ op = [d \in Docs |-> "idle"]
  /\ want = [d \in Docs |-> "insert"]
  /\ kind = NoDocs /\ stored = {}
  /\ err = NoError /\ overtime = FALSE /\ ambig = FALSE
  /\ item = [d \in Docs |-> "queued"]
  /\ mode = [d \in Docs |-> [amb |-> FALSE, cas0 |-> FALSE]]
  /\ abort = FALSE /\ calls = 0 /\ result = "none"

Stopped == phase \in {"finished", "crashed"}
AllIdle == \A d \in Docs : op[d] = "idle"

\* error_if_expired_and_not_in_overtime
TimedOut == Expired /\ ~overtime

\* The next request to the ATR is sent, and its turn comes.
AtrTurn == ~TimedOut /\ late = {}

ServerUnchanged == DocsUnchanged /\ AtrUnchanged

-----------------------------------------------------------------------------
(* Operations.  One is on a document at a time.                             *)

\* op_completed_with_error
OpFails(d, e) ==
  /\ op' = [op EXCEPT ![d] = "idle"]
  /\ err' = Merge(err, e)

OpMoves(d, place) == op' = [op EXCEPT ![d] = place] /\ UNCHANGED err

\* staged_mutations_->add / remove_any
OpStaged(d, k, keep) ==
  /\ OpMoves(d, "idle")
  /\ kind' = [kind EXCEPT ![d] = k]
  /\ stored' = IF keep THEN stored \cup {d} ELSE stored \ {d}

StagedUnchanged == UNCHANGED <<kind, stored>>

\* The request an operation sends, given what the attempt has staged before.
Target(d, t) ==
  CASE t = "replace" /\ kind[d] = "insert" -> "insert"
    [] t = "remove" /\ kind[d] = "insert"  -> "drop"
    [] t = "insert" /\ kind[d] = "remove"  -> "replace"
    [] OTHER -> t

\* The document can be given to replace() or remove(): get() returned it.
Readable(d) == kind[d] # "none" \/ doc[d].live

\* The document was removed in this attempt: replace() says so at once,
\* remove() after it has looked at the time.
RemovedHere(d, t) ==
  kind[d] = "remove" /\ (t = "replace" \/ (t = "remove" /\ ~Expired))

\* check_and_handle_blocking_transactions: the document carries a mutation of
\* another transaction, and the entry of that transaction is there and not
\* COMPLETED or ROLLED_BACK.  The lookups are repeated for a while before the
\* operation fails, which is the same as to call the operation later.
Blocked(d) == doc[d].stg = "other"

(***************************************************************************)
(* The application reads the document (unless the attempt has staged it)    *)
(* and calls insert, replace or remove: the checks up to the selection of   *)
(* the ATR.  A mutation without an entry does not stop the operation, which *)
(* stages its own over it.  An insert of a document that the attempt has    *)
(* inserted or replaced changes nothing and is left out.                    *)
(***************************************************************************)
Call(d, t) ==
  /\ phase = "logic" /\ err = NoError
  /\ calls < MaxCalls /\ calls' = calls + 1
  /\ op[d] = "idle" /\ (Concurrent \/ AllIdle)
  /\ IF t = "insert" THEN kind[d] \in {"none", "remove"} ELSE Readable(d)
  /\ want' = [want EXCEPT ![d] = Target(d, t)]
  /\ IF t # "insert" /\ kind[d] = "none" THEN Learn("client", d)
     ELSE UNCHANGED casOf
  /\ \/ /\ RemovedHere(d, t)
        /\ OpFails(d, Fail) /\ UNCHANGED overtime
     \/ /\ ~RemovedHere(d, t)
        /\ overtime' = (overtime \/ Expired)       \* check_expiry_pre_commit
        /\ IF Expired THEN OpFails(d, ExpiredError)
           ELSE IF t # "insert" /\ kind[d] = "none" /\ Blocked(d)
           THEN OpFails(d, Retry)
           ELSE OpMoves(d, IF Target(d, t) = "drop" THEN "stage" ELSE "select")
  /\ StagedUnchanged /\ AtrUnchanged
  /\ UNCHANGED <<doc, fate, clock, faults, queued, phase, st, atrId, ambig,
                 item, mode, abort, result>>

\* select_atr_if_needed_unlocked, up to the request that writes the entry
SelectAtr(d) ==
  /\ op[d] = "select"
  /\ IF atrId THEN OpMoves(d, "stage") /\ UNCHANGED <<atrId, st>>
     ELSE /\ atrId' = TRUE /\ st' = "NOT_STARTED"
          /\ IF TimedOut THEN OpFails(d, ExpiredError) ELSE OpMoves(d, "atr")
  /\ StagedUnchanged /\ ServerUnchanged
  /\ UNCHANGED <<clock, faults, queued, phase, want, overtime, ambig, item,
                 mode, abort, calls, result>>

\* mutant: an ambiguous answer is taken for a success
RetryAssumesSet(d) ==
  /\ op[d] = "atr_retry" /\ OpMoves(d, "stage")
  /\ StagedUnchanged /\ ServerUnchanged
  /\ UNCHANGED <<clock, faults, queued, phase, st, atrId, want, overtime,
                 ambig, item, mode, abort, calls, result>>

\* set_atr_pending_locked once more, after an ambiguous answer: it does
\* nothing, and calls nobody back, when a mutation has been staged meanwhile.
RetryAtrPending(d) ==
  /\ op[d] = "atr_retry"
  /\ IF \E x \in Docs : kind[x] # "none" THEN OpMoves(d, "hung")
     ELSE IF TimedOut THEN OpFails(d, ExpiredError)
     ELSE OpMoves(d, "atr")
  /\ StagedUnchanged /\ ServerUnchanged
  /\ UNCHANGED <<clock, faults, queued, phase, st, atrId, want, overtime,
                 ambig, item, mode, abort, calls, result>>

\* error_handler of set_atr_pending_locked
PendingFails(d, e) == OpFails(d, IF overtime THEN NoRollback("EXPIRED") ELSE e)

SetAtrPending(d) ==
  /\ op[d] = "atr" /\ late = {}
  /\ \/ /\ PendingOk
        /\ Apply("pending", NoDocs) /\ OpMoves(d, "stage")
        /\ st' = "PENDING"
        /\ UNCHANGED <<late, faults>>
     \/ /\ ~PendingOk                              \* PATH_ALREADY_EXISTS
        /\ IF overtime THEN OpFails(d, NoRollback("EXPIRED"))
           ELSE OpMoves(d, "stage")
        /\ AtrUnchanged /\ UNCHANGED <<st, faults>>
     \/ /\ Ambiguous("pending", NoDocs)
        /\ IF overtime THEN OpFails(d, NoRollback("EXPIRED"))
           ELSE OpMoves(d, "atr_retry")
        /\ UNCHANGED st
     \/ /\ Fault /\ \E e \in {Retry, Fail} : PendingFails(d, e)
        /\ AtrUnchanged /\ UNCHANGED st
  /\ DocsUnchanged /\ StagedUnchanged
  /\ UNCHANGED <<clock, queued, phase, atrId, want, overtime, ambig, item,
                 mode, abort, calls, result>>

-----------------------------------------------------------------------------
(* Staging.                                                                 *)

StageFrame ==
  /\ AtrUnchanged
  /\ UNCHANGED <<clock, queued, phase, st, atrId, want, ambig, item, mode,
                 abort, calls, result>>

\* create_staged_replace, and the last part of remove
StageWithCas(d) ==
  /\ op[d] = "stage" /\ want[d] \in {"replace", "remove"}
  /\ \/ /\ Current("client", d)
        /\ Mutate(d, Staged(d, want[d]), {"client"})
        /\ OpStaged(d, want[d], StoredContent /\ want[d] = "replace")
        /\ UNCHANGED faults
     \/ /\ ~Current("client", d)                   \* CAS_MISMATCH
        /\ OpFails(d, Retry)
        /\ StagedUnchanged /\ UNCHANGED <<doc, casOf, faults>>
     \/ /\ Fault /\ Current("client", d)           \* ambiguous, but applied
        /\ Mutate(d, Staged(d, want[d]), {})
        /\ OpFails(d, Retry) /\ StagedUnchanged
     \/ /\ Fault /\ \E e \in {Retry, Fail} : OpFails(d, e)
        /\ StagedUnchanged /\ UNCHANGED <<doc, casOf>>
  /\ UNCHANGED <<fate, overtime>> /\ StageFrame

\* mutant: any tombstone will do
InsertOverStaged(d) ==
  IF kind[d] = "insert" THEN Current("client", d) ELSE ~doc[d].live

\* The CAS given to create_staged_insert, or that of a tombstone, matches; a
\* tombstone that carries a mutation needs its CAS.
InsertFits(d) ==
  IF kind[d] = "insert" THEN Current("client", d)
  ELSE /\ ~doc[d].live
       /\ doc[d].stg = "none" \/ (doc[d].stg = "orphan" /\ Current("client", d))

(***************************************************************************)
(* create_staged_insert and its error handler.  An ambiguous answer repeats *)
(* the request; if the document then carries this operation's mutation, it  *)
(* is adopted, content included.                                            *)
(***************************************************************************)
StageInsert(d) ==
  /\ op[d] \in {"stage", "stage_retry"} /\ want[d] = "insert"
  /\ IF TimedOut
     THEN /\ overtime' = TRUE /\ OpFails(d, ExpiredError)
          /\ StagedUnchanged /\ UNCHANGED <<doc, casOf, faults>>
     ELSE /\ UNCHANGED overtime
          /\ \/ /\ InsertFits(d)
                /\ Mutate(d, Staged(d, "insert"), {"client"})
                /\ OpStaged(d, "insert", StoredContent)
                /\ UNCHANGED faults
             \/ /\ ~InsertFits(d) /\ overtime
                /\ OpFails(d, ExpiredError)
                /\ StagedUnchanged /\ UNCHANGED <<doc, casOf, faults>>
             \/ /\ ~InsertFits(d) /\ ~overtime /\ UNCHANGED <<doc, faults>>
                /\ \/ /\ doc[d].stg = "insert" /\ op[d] = "stage_retry"
                      /\ Learn("client", d) /\ OpStaged(d, "insert", TRUE)
                   \/ /\ doc[d].stg = "insert" /\ op[d] = "stage"
                      /\ OpFails(d, Fail)          \* concurrent operations
                      /\ StagedUnchanged /\ UNCHANGED casOf
                   \/ /\ doc[d].stg \in {"none", "orphan"} /\ ~doc[d].live
                      /\ Learn("client", d) /\ OpMoves(d, op[d])
                      /\ StagedUnchanged           \* retry with its CAS
                   \/ /\ doc[d].live /\ doc[d].stg # "insert"
                      /\ OpMoves(d, "idle")        \* document_exists
                      /\ StagedUnchanged /\ UNCHANGED casOf
                   \/ /\ Blocked(d) /\ ~doc[d].live
                      /\ OpFails(d, Retry)
                      /\ StagedUnchanged /\ UNCHANGED casOf
             \/ /\ Fault                           \* ambiguous
                /\ IF overtime THEN OpFails(d, ExpiredError)
                   ELSE OpMoves(d, "stage_retry")
                /\ \/ InsertFits(d) /\ Mutate(d, Staged(d, "insert"), {})
                   \/ UNCHANGED <<doc, casOf>>
                /\ StagedUnchanged
             \/ /\ Fault
                /\ \E e \in {Retry, Fail} :
                      OpFails(d, IF overtime THEN ExpiredError ELSE e)
                /\ StagedUnchanged /\ UNCHANGED <<doc, casOf>>
  /\ UNCHANGED fate /\ StageFrame

\* remove_staged_insert: no CAS, every error retries the transaction
RemoveStagedInsert(d) ==
  /\ op[d] = "stage" /\ want[d] = "drop"
  /\ \/ /\ TimedOut /\ OpFails(d, NoRollback("EXPIRED"))
        /\ StagedUnchanged /\ UNCHANGED <<doc, casOf, faults>>
     \/ /\ ~TimedOut /\ doc[d].stg # "none"
        /\ Mutate(d, Unlinked(d), {})
        /\ OpStaged(d, "none", FALSE)
        /\ UNCHANGED faults
     \/ /\ ~TimedOut /\ doc[d].stg = "none"        \* PATH_NOT_FOUND
        /\ OpFails(d, Retry)
        /\ StagedUnchanged /\ UNCHANGED <<doc, casOf, faults>>
     \/ /\ ~TimedOut /\ Fault /\ OpFails(d, Retry) /\ StagedUnchanged
        /\ \/ doc[d].stg # "none" /\ Mutate(d, Unlinked(d), {})
           \/ UNCHANGED <<doc, casOf>>
  /\ UNCHANGED <<fate, overtime>> /\ StageFrame

-----------------------------------------------------------------------------
(* Ending the attempt.                                                      *)

OpsDone == UNCHANGED <<op, want, kind, stored, calls, atrId>>

Handle(e) == phase' = "handle_error" /\ err' = e

EndFrame ==
  /\ OpsDone
  /\ UNCHANGED <<clock, queued, item, mode, abort>>

\* The lambda returned: transaction_context::finalize, commit up to atr_commit
Commit ==
  /\ phase = "logic" /\ AllIdle
  /\ overtime' = (overtime \/ (err = NoError /\ Expired))
  /\ IF err # NoError THEN Handle(err) /\ UNCHANGED result
     ELSE IF Expired THEN Handle(ExpiredError) /\ UNCHANGED result
     ELSE IF atrId THEN phase' = "atr_commit" /\ UNCHANGED <<err, result>>
     ELSE phase' = "finished" /\ result' = "SUCCESS" /\ UNCHANGED err
  /\ ServerUnchanged /\ EndFrame /\ UNCHANGED <<faults, st, ambig>>

\* The lambda threw an exception that is not one of its operations': the
\* attempt is rolled back, whatever errors_ holds.  A lambda that throws an
\* operation's error ends like one that returns after it (Commit).
LogicFails ==
  /\ phase = "logic" /\ AllIdle
  /\ Handle(Fail)
  /\ ServerUnchanged /\ EndFrame
  /\ UNCHANGED <<faults, st, ambig, overtime, result>>

\* mutant: an earlier ambiguous answer is forgotten
CommitErrorAsIs(e) == Handle(e)

AtrCommitFails(e) == Handle(IF ambig THEN NoRollback("AMBIGUOUS") ELSE e)

AtrCommit ==
  /\ phase = "atr_commit"
  /\ IF TimedOut
     THEN /\ overtime' = TRUE /\ AtrCommitFails(NoRollback("EXPIRED"))
          /\ AtrUnchanged /\ UNCHANGED <<faults, st, ambig>>
     ELSE /\ late = {} /\ UNCHANGED overtime
          /\ \/ /\ CommitOk
                /\ Apply("commit", kind)
                /\ st' = "COMMITTED" /\ phase' = "commit_docs"
                /\ UNCHANGED <<late, faults, err, ambig>>
             \/ /\ atr.status # "NONE" /\ atr.p    \* PATH_ALREADY_EXISTS
                /\ phase' = "resolve"
                /\ AtrUnchanged /\ UNCHANGED <<faults, err, st, ambig>>
             \/ /\ atr.status = "NONE"             \* no entry, or no record
                /\ AtrCommitFails(NoRollback("FAILED"))
                /\ AtrUnchanged /\ UNCHANGED <<faults, st, ambig>>
             \/ /\ Ambiguous("commit", kind)
                /\ ambig' = TRUE
                /\ UNCHANGED <<phase, err, st>>
             \/ /\ Fault /\ AtrUnchanged /\ UNCHANGED <<st, ambig>>
                /\ \/ IF ambig THEN UNCHANGED <<phase, err>>   \* transient
                      ELSE Handle(Retry)
                   \/ \E e \in {Fail, NoRollback("FAILED")} : AtrCommitFails(e)
  /\ DocsUnchanged /\ EndFrame /\ UNCHANGED result

\* atr_commit_ambiguity_resolution
ResolveAmbiguity ==
  /\ phase = "resolve"
  /\ \/ TimedOut /\ Handle(NoRollback("AMBIGUOUS")) /\ UNCHANGED faults
     \/ /\ AtrTurn /\ UNCHANGED faults
        /\ \/ /\ atr.status = "COMMITTED"
              /\ phase' = "commit_docs" /\ UNCHANGED err
           \/ atr.status = "ABORTED" /\ Handle(Retry)
           \/ atr.status = "PENDING" /\ Handle(NoRollback("FAILED"))
           \/ atr.status = "NONE" /\ Handle(NoRollback("AMBIGUOUS"))
     \/ /\ AtrTurn /\ Fault
        /\ \/ UNCHANGED <<phase, err>>             \* transient, other: again
           \/ Handle(NoRollback("AMBIGUOUS"))
  /\ ServerUnchanged /\ EndFrame
  /\ UNCHANGED <<st, ambig, overtime, result>>

-----------------------------------------------------------------------------
(* Unstaging: staged_mutation_queue::commit and ::rollback.                 *)

Listed   == {d \in Docs : kind[d] # "none"}
InFlight == {d \in Listed : item[d] = "flying"}
Queued   == {d \in Listed : item[d] = "queued"}

ItemFrame ==
  /\ AtrUnchanged /\ OpsDone
  /\ UNCHANGED <<clock, queued, phase, st, err, ambig, result>>

\* wait_until_unstage_possible: a free place, or the time is over
StartItem ==
  /\ phase \in {"commit_docs", "rollback_docs"} /\ ~abort /\ Queued # {}
  /\ \/ /\ Cardinality(InFlight) < MaxParallelism
        /\ \E d \in Queued : item' = [item EXCEPT ![d] = "flying"]
        /\ UNCHANGED abort
     \/ /\ Cardinality(InFlight) >= MaxParallelism /\ Expired
        /\ abort' = TRUE /\ UNCHANGED item
  /\ DocsUnchanged /\ ItemFrame
  /\ UNCHANGED <<faults, mode, overtime>>

ItemDone(d)   == item' = [item EXCEPT ![d] = "done"] /\ UNCHANGED <<mode, abort>>
ItemFails(d)  == item' = [item EXCEPT ![d] = "failed"] /\ abort' = TRUE
                 /\ UNCHANGED mode
ItemAgain(d, m) == mode' = [mode EXCEPT ![d] = m] /\ UNCHANGED <<item, abort>>

\* The answer commit_doc's request gets from the document as it is now.
CommitAnswer(d) ==
  LET m == mode[d] IN
  IF kind[d] = "insert" /\ ~m.cas0 /\ d \in stored
  THEN IF doc[d].live THEN "exists" ELSE "ok"
  ELSE IF ~m.cas0 /\ ~Current("client", d) THEN "cas_mismatch"
  ELSE IF kind[d] = "insert" /\ ~m.cas0 THEN "ok"
  ELSE IF ~doc[d].live \/ doc[d].stg = "none" THEN "not_found"
  ELSE "ok"

CommitWrite(d) == IF d \in stored THEN Written ELSE Published(d)

\* handle_commit_doc_error, with the overtime flag o
CommitDocFails(d, ec, o) ==
  LET m == mode[d] IN
  IF o THEN ItemFails(d)
  ELSE CASE ec = "ambiguous" -> ItemAgain(d, [m EXCEPT !.amb = TRUE])
         [] ec = "cas_mismatch" /\ ~m.amb ->
              ItemAgain(d, [m EXCEPT !.cas0 = TRUE])
         [] ec = "exists" /\ ~m.amb ->
              ItemAgain(d, [amb |-> TRUE, cas0 |-> TRUE])
         [] OTHER -> ItemFails(d)

CommitDoc(d) ==
  LET o == overtime \/ Expired IN
  /\ phase = "commit_docs" /\ d \in InFlight /\ kind[d] # "remove"
  /\ overtime' = o
  /\ \/ /\ CommitAnswer(d) = "ok" /\ UNCHANGED faults
        /\ Mutate(d, CommitWrite(d), {"client"})
        /\ Decide(d, CommitWrite(d), "published")
        /\ ItemDone(d)
     \/ /\ CommitAnswer(d) # "ok" /\ UNCHANGED faults
        /\ CommitDocFails(d, CommitAnswer(d), o)
        /\ DocsUnchanged
     \/ /\ Fault /\ CommitAnswer(d) = "ok"         \* ambiguous, but applied
        /\ Mutate(d, CommitWrite(d), {})
        /\ Decide(d, CommitWrite(d), "published")
        /\ CommitDocFails(d, "ambiguous", o)
     \/ /\ Fault /\ DocsUnchanged
        /\ \E ec \in {"ambiguous", "other"} : CommitDocFails(d, ec, o)
  /\ ItemFrame

\* remove_doc and handle_remove_doc_error; the request carries no CAS
RemoveDoc(d) ==
  LET o == overtime \/ Expired
      Ambig == IF o THEN ItemFails(d) ELSE ItemAgain(d, mode[d])
  IN
  /\ phase = "commit_docs" /\ d \in InFlight /\ kind[d] = "remove"
  /\ overtime' = o
  /\ \/ /\ doc[d].live /\ ItemDone(d) /\ UNCHANGED faults
        /\ Mutate(d, Removed, {"client"})
        /\ Decide(d, Removed, "published")
     \/ /\ ~doc[d].live /\ ItemFails(d) /\ UNCHANGED faults
        /\ DocsUnchanged
     \/ /\ Fault /\ doc[d].live /\ Ambig
        /\ Mutate(d, Removed, {})
        /\ Decide(d, Removed, "published")
     \/ /\ Fault /\ DocsUnchanged
        /\ Ambig \/ ItemFails(d)
  /\ ItemFrame

(***************************************************************************)
(* rollback_insert and rollback_remove_or_replace, with their error         *)
(* handlers: a CAS mismatch or an error in overtime gives up, any other     *)
(* error repeats the request.                                               *)
(***************************************************************************)
RollbackDoc(d) ==
  LET Again == IF overtime THEN ItemFails(d) ELSE ItemAgain(d, mode[d])
      Fits  == Current("client", d)
  IN
  /\ phase = "rollback_docs" /\ d \in InFlight
  /\ IF TimedOut
     THEN /\ overtime' = TRUE /\ ItemAgain(d, mode[d])
          /\ DocsUnchanged /\ UNCHANGED faults
     ELSE /\ UNCHANGED overtime
          /\ \/ /\ Fits /\ ItemDone(d) /\ UNCHANGED faults
                /\ Mutate(d, Unlinked(d), {"client"})
                /\ Decide(d, Unlinked(d), "undone")
             \/ /\ ~Fits /\ ItemFails(d) /\ UNCHANGED faults
                /\ DocsUnchanged
             \/ /\ Fault /\ Fits /\ Again
                /\ Mutate(d, Unlinked(d), {})
                /\ Decide(d, Unlinked(d), "undone")
             \/ Fault /\ Again /\ DocsUnchanged
  /\ ItemFrame

\* mutants: only what was started has to be done; the queue has to be empty
NothingInFlight == InFlight = {}
GivesUpWhenDrained == abort /\ InFlight = {} /\ Queued = {}

Unstaged == \A d \in Listed : item[d] = "done"
GaveUp   == abort /\ InFlight = {}

\* All futures are ready.
CommitDocsEnd ==
  /\ phase = "commit_docs"
  /\ \/ Unstaged /\ phase' = "atr_complete" /\ UNCHANGED err
     \/ GaveUp /\ ~Unstaged /\ Handle(PostCommit)
  /\ ServerUnchanged /\ EndFrame
  /\ UNCHANGED <<faults, st, ambig, overtime, result>>

\* atr_complete; its errors are ignored
AtrComplete ==
  /\ phase = "atr_complete"
  /\ phase' = "finished" /\ result' = "SUCCESS"
  /\ \/ TimedOut /\ UNCHANGED <<atr, st, faults>>
     \/ /\ AtrTurn /\ UNCHANGED faults
        /\ atr' = NoEntry
        /\ st' = IF atr.status = "NONE" THEN st ELSE "COMPLETED"
     \/ AtrTurn /\ Fault /\ atr' \in {atr, NoEntry} /\ UNCHANGED st
  /\ DocsUnchanged /\ EndFrame
  /\ UNCHANGED <<committed, late, err, ambig, overtime>>

-----------------------------------------------------------------------------
(* transaction_context::handle_error, and rollback.                         *)

Finish(r) == phase' = "finished" /\ result' = r

\* add_attempt
Enqueue ==
  queued' = (queued \/ st \notin {"NOT_STARTED", "COMPLETED", "ROLLED_BACK"})

HandleError ==
  /\ phase = "handle_error"
  /\ IF err.rollback
     THEN /\ overtime' = (overtime \/ Expired)
          /\ phase' = IF ~atrId \/ st = "NOT_STARTED" THEN "rolled_back"
                      ELSE "atr_abort"
          /\ UNCHANGED <<queued, result>>
     ELSE Finish(Final(err)) /\ Enqueue /\ UNCHANGED overtime
  /\ ServerUnchanged /\ OpsDone
  /\ UNCHANGED <<clock, faults, st, err, ambig, item, mode, abort>>

\* The rollback threw: the original error is raised, and never retried.
RollbackThrows == Finish(Final(err)) /\ Enqueue

AtrAbort ==
  /\ phase = "atr_abort"
  /\ IF TimedOut
     THEN /\ overtime' = TRUE                      \* and try again
          /\ AtrUnchanged
          /\ UNCHANGED <<faults, phase, st, result, queued>>
     ELSE /\ late = {} /\ UNCHANGED overtime
          /\ \/ /\ Apply("abort", kind) /\ UNCHANGED <<late, faults>>
                /\ st' = "ABORTED" /\ phase' = "rollback_docs"
                /\ UNCHANGED <<result, queued>>
             \/ /\ Ambiguous("abort", kind) /\ UNCHANGED st
                /\ IF overtime THEN RollbackThrows
                   ELSE UNCHANGED <<phase, result, queued>>
             \/ /\ Fault /\ AtrUnchanged /\ UNCHANGED st
                /\ \/ RollbackThrows                \* the record is full
                   \/ ~overtime /\ UNCHANGED <<phase, result, queued>>
  /\ DocsUnchanged /\ OpsDone
  /\ UNCHANGED <<clock, err, ambig, item, mode, abort>>

RollbackDocsEnd ==
  /\ phase = "rollback_docs"
  /\ \/ Unstaged /\ phase' = "rollback_complete" /\ UNCHANGED <<result, queued>>
     \/ GaveUp /\ ~Unstaged /\ RollbackThrows
  /\ ServerUnchanged /\ OpsDone
  /\ UNCHANGED <<clock, faults, st, err, ambig, overtime, item, mode, abort>>

AtrRollbackComplete ==
  /\ phase = "rollback_complete"
  /\ \/ /\ TimedOut /\ RollbackThrows
        /\ UNCHANGED <<atr, st, faults>>
     \/ /\ AtrTurn /\ UNCHANGED faults
        /\ atr' = NoEntry
        /\ IF atr.status = "NONE"                  \* PATH_NOT_FOUND
           THEN /\ UNCHANGED st
                /\ IF overtime THEN RollbackThrows
                   ELSE phase' = "rolled_back" /\ UNCHANGED <<result, queued>>
           ELSE /\ st' = "ROLLED_BACK"
                /\ phase' = "rolled_back" /\ UNCHANGED <<result, queued>>
     \/ /\ AtrTurn /\ Fault
        /\ atr' \in {atr, NoEntry} /\ UNCHANGED st
        /\ IF overtime THEN RollbackThrows
           ELSE UNCHANGED <<phase, result, queued>>
  /\ DocsUnchanged /\ OpsDone
  /\ UNCHANGED <<committed, late, clock, err, ambig, overtime, item, mode,
                 abort>>

\* The rest of handle_error, after a rollback that returned.
RolledBack ==
  /\ phase = "rolled_back"
  /\ IF err.retry /\ Expired THEN Finish("EXPIRED") /\ UNCHANGED queued
     ELSE Finish(IF err.retry THEN "RETRY" ELSE Final(err)) /\ Enqueue
  /\ ServerUnchanged /\ OpsDone
  /\ UNCHANGED <<clock, faults, st, err, ambig, overtime, item, mode, abort>>

Crash ==
  /\ Crashes /\ ~Stopped
  /\ phase' = "crashed"
  /\ UNCHANGED <<st, atrId, op, want, kind, stored, err, overtime, ambig,
                 item, mode, abort, calls, result>>
  /\ UNCHANGED storeVars

Operate(d) ==
  \/ SelectAtr(d) \/ RetryAtrPending(d) \/ SetAtrPending(d)
  \/ StageWithCas(d) \/ StageInsert(d) \/ RemoveStagedInsert(d)

Unstage(d) == CommitDoc(d) \/ RemoveDoc(d) \/ RollbackDoc(d)

EndAttempt ==
  \/ AtrCommit \/ ResolveAmbiguity \/ CommitDocsEnd \/ AtrComplete
  \/ HandleError \/ AtrAbort \/ RollbackDocsEnd \/ AtrRollbackComplete
  \/ RolledBack

ClientNext ==
  \/ \E d \in Docs, t \in Ours : Call(d, t)
  \/ \E d \in Docs : phase = "logic" /\ Operate(d)
  \/ Commit \/ LogicFails
  \/ StartItem \/ \E d \in Docs : Unstage(d)
  \/ EndAttempt
  \/ Crash
=============================================================================
