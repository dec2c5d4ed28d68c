----------------------- MODULE TransactionOthersProofs ----------------------
(***************************************************************************)
(* What an attempt does to the documents of other transactions, and what    *)
(* they do to its own: for any number of documents, cleaners, calls and     *)
(* faults, with crashes, provided that an attempt counts as lost only once  *)
(* its client has stopped.  The entry is written before anything is         *)
(* staged; the state the attempt reports is that of its documents; and no   *)
(* document is overwritten that does not carry the attempt's mutation.      *)
(***************************************************************************)
EXTENDS TransactionPromise

-----------------------------------------------------------------------------
(* While the client runs, no cleaner touches its attempt.                   *)

Undisturbed ==
  ~Stopped => clock # "lost" /\ ~queued /\ \A c \in Cleaners : cpc[c] = "idle"

\* The client stays stopped.
LEMMA StaysStopped ==
  ASSUME [Next]_vars, Stopped
  PROVE  Stopped' /\ UNCHANGED clientVars
<1>1. ~ClientNext
  <2>1. /\ phase \in {"finished", "crashed"}
    BY DEF Stopped
  <2>2. /\ ~Commit /\ ~LogicFails /\ ~StartItem /\ ~Crash /\ ~EndAttempt
    BY <2>1 DEF Commit, LogicFails, StartItem, Crash, Stopped, EndAttempt,
       AtrCommit, ResolveAmbiguity, CommitDocsEnd, AtrComplete, HandleError,
       AtrAbort, RollbackDocsEnd, AtrRollbackComplete, RolledBack
  <2>3. \A d \in Docs : ~Unstage(d) /\ \A t \in Ours : ~Call(d, t)
    BY <2>1, Zenon DEF Unstage, CommitDoc, RemoveDoc, RollbackDoc, Call
  <2>. QED
    BY <2>1, <2>2, <2>3, Zenon DEF ClientNext
<1>2. UNCHANGED clientVars
  BY <1>1, Zenon DEF Next, vars
<1>. QED
  BY <1>2 DEF clientVars, Stopped

LEMMA NoCleaning ==
  ASSUME Undisturbed, ~Stopped, NEW c \in Cleaners
  PROVE  ~CleanerNext(c)
<1>1. cpc[c] = "idle" /\ ~queued /\ clock # "lost"
  BY DEF Undisturbed
<1>. QED
  BY <1>1, Zenon DEF CleanerNext, StartQueued, StartLost, ReadDoc, WriteDoc,
     DocsCleaned, CleanEntry

\* A client that runs on has put nothing on the queue.
LEMMA NextUndisturbed ==
  ASSUME Prompt, TypeOK, Undisturbed, [Next]_vars
  PROVE  Undisturbed'
<1>. SUFFICES ASSUME ~Stopped'
              PROVE  /\ clock' # "lost" /\ ~queued'
                     /\ \A c \in Cleaners : cpc'[c] = "idle"
  BY DEF Undisturbed
<1>1. ~Stopped
  BY StaysStopped
<1>2. clock # "lost" /\ ~queued /\ \A c \in Cleaners : cpc[c] = "idle"
  BY <1>1 DEF Undisturbed
<1>3. \A c \in Cleaners : ~CleanerNext(c)
  BY <1>1, NoCleaning
<1>4. UNCHANGED cpc
  BY <1>3, Zenon DEF Next, vars, cleanupVars
<1>5. UNCHANGED queued
  <2>1. CASE UNCHANGED vars
    BY <2>1 DEF vars, storeVars
  <2>2. CASE StoreNext(Stopped)
    BY <2>2, Zenon DEF StoreNext, LateArrives, Tick, OtherChecks, OtherStages,
       OtherEnds
  <2>3. CASE ClientNext
    <3>1. phase' # "finished"
      BY DEF Stopped
    <3>2. ~RollbackThrows /\ \A r : ~Finish(r)
      BY <3>1, Zenon DEF RollbackThrows, Finish
    <3>3. CASE EndAttempt
      BY <3>2, <3>3, Zenon DEF EndAttempt, AtrCommit, ResolveAmbiguity,
         CommitDocsEnd, AtrComplete, HandleError, AtrAbort, RollbackDocsEnd,
         AtrRollbackComplete, RolledBack, EndFrame
    <3>4. CASE ~EndAttempt
      <4>1. \A d \in Docs : Operate(d) \/ Unstage(d) => UNCHANGED queued
        BY Zenon DEF Operate, SelectAtr, RetryAtrPending, SetAtrPending,
           StageWithCas, StageInsert, RemoveStagedInsert, StageFrame, Unstage,
           CommitDoc, RemoveDoc, RollbackDoc, ItemFrame
      <4>2. \A d \in Docs, t \in Ours : Call(d, t) => UNCHANGED queued
        BY Zenon DEF Call
      <4>. QED
        BY <2>3, <3>4, <4>1, <4>2, Zenon DEF ClientNext, Commit, LogicFails,
           StartItem, ItemFrame, Crash, EndFrame, storeVars
    <3>. QED
      BY <3>3, <3>4
  <2>. QED
    BY <1>3, <2>1, <2>2, <2>3, Zenon DEF Next
<1>6. clock' # "lost"
  <2>1. CASE UNCHANGED clock
    BY <1>2, <2>1
  <2>2. CASE StoreNext(Stopped)
    <3>1. \A d \in Docs : OtherChecks(d) \/ OtherStages(d) \/ OtherEnds(d)
                          => UNCHANGED clock
      BY Zenon DEF OtherChecks, OtherStages, OtherEnds
    <3>2. Tick(Stopped) => clock' = "expired"
      BY <1>1, Zenon DEF Tick
    <3>. QED
      BY <1>2, <2>2, <3>1, <3>2 DEF StoreNext, LateArrives
  <2>3. ClientNext => UNCHANGED clock
    <3>1. EndAttempt => UNCHANGED clock
      BY Zenon DEF EndAttempt, AtrCommit, ResolveAmbiguity,
         CommitDocsEnd, AtrComplete, HandleError, AtrAbort, RollbackDocsEnd,
         AtrRollbackComplete, RolledBack, EndFrame
    <3>2. \A d \in Docs : Operate(d) \/ Unstage(d) => UNCHANGED clock
      BY Zenon DEF Operate, SelectAtr, RetryAtrPending, SetAtrPending,
         StageWithCas, StageInsert, RemoveStagedInsert, StageFrame, Unstage,
         CommitDoc, RemoveDoc, RollbackDoc, ItemFrame
    <3>3. \A d \in Docs, t \in Ours : Call(d, t) => UNCHANGED clock
      BY Zenon DEF Call
    <3>. QED
      BY <3>1, <3>2, <3>3, Zenon DEF ClientNext, Commit, LogicFails,
         StartItem, ItemFrame, Crash, EndFrame, storeVars
  <2>4. UNCHANGED vars => UNCHANGED clock
    BY DEF vars, storeVars
  <2>. QED
    BY <1>3, <2>1, <2>2, <2>3, <2>4, Zenon DEF Next
<1>. QED
  BY <1>2, <1>4, <1>5, <1>6

LEMMA InitUndisturbed == Init => Undisturbed
BY DEF Init, StoreInit, CleanupInit, Undisturbed

-----------------------------------------------------------------------------
(* The entry is written before anything is staged.                          *)

\* The application runs one operation at a time, each without an error so
\* far; once the attempt has an ATR, and the operation that writes the entry
\* is over, the entry is there.
EntryFirst ==
  /\ phase = "logic" =>
       /\ \A d, e \in Docs : op[d] # "idle" /\ op[e] # "idle" => d = e
       /\ \A d \in Docs : op[d] # "idle" => err = NoError
       /\ Setting => \A d \in Docs : kind[d] = "none"
       /\ err = NoError /\ atrId /\ ~Setting => atr.status # "NONE"
  /\ phase \in {"atr_commit", "resolve", "commit_docs", "atr_complete"} =>
       atr.status # "NONE"

\* No request makes the entry disappear.
LEMMA ApplyKeepsEntry ==
  ASSUME StoreTypeOK, NEW r, NEW ids, Apply(r, ids), atr.status # "NONE"
  PROVE  atr'.status # "NONE"
BY ApplyEffects, AbortedEntry

\* How an operation moves.
OpGoes(d) ==
  \/ err' # NoError /\ op' = [op EXCEPT ![d] = "idle"]
  \/ UNCHANGED err /\ \E pl \in Places : op' = [op EXCEPT ![d] = pl]

LEMMA OpEnds ==
  ASSUME TypeOK, ErrorRight, phase = "logic", NEW d \in Docs
  PROVE  /\ \A e \in OpErrors : OpFails(d, e) =>
              err' # NoError /\ op' = [op EXCEPT ![d] = "idle"]
         /\ \A pl \in Places : OpMoves(d, pl) =>
              UNCHANGED err /\ op' = [op EXCEPT ![d] = pl]
         /\ \A k, keep : OpStaged(d, k, keep) => OpMoves(d, "idle")
<1>1. ASSUME NEW e \in OpErrors, OpFails(d, e)
      PROVE  err' # NoError /\ op' = [op EXCEPT ![d] = "idle"]
  <2>1. Merge(err, e) \in Errors
    BY MergedErrors DEF TypeOK
  <2>. QED
    BY <1>1, <2>1, RealErrors DEF OpFails
<1>. QED
  BY <1>1, Zenon DEF OpMoves, OpStaged

\* An operation is started, or takes a step.
LEMMA OperationEntryFirst ==
  ASSUME ~Concurrent, IInv, EntryFirst, NEW d \in Docs, phase = "logic",
         Operate(d) \/ \E t \in Ours : Call(d, t)
  PROVE  EntryFirst'
<1>. USE DEF IInv
<1>1. {Fail, Retry, ExpiredError, NoRollback("EXPIRED")} \subseteq OpErrors
  BY DEF OpErrors
<1>2. /\ \A e \in OpErrors : OpFails(d, e) => OpGoes(d) /\ err' # NoError
      /\ \A pl \in Places : OpMoves(d, pl) => OpGoes(d) /\ op'[d] = pl
      /\ \A k, keep : OpStaged(d, k, keep) => OpGoes(d) /\ op'[d] = "idle"
  <2>1. "idle" \in Places
    BY DEF Places
  <2>. QED
    BY <2>1, OpEnds DEF OpGoes, TypeOK, ClientTypeOK
<1>3. \A x \in Docs : op[x] # "idle" => x = d
  <2>1. Operate(d) => op[d] # "idle"
    BY Zenon DEF Operate, SelectAtr, RetryAtrPending, SetAtrPending,
       StageWithCas, StageInsert, RemoveStagedInsert
  <2>2. (\E t \in Ours : Call(d, t)) => AllIdle
    BY Zenon DEF Call
  <2>. QED
    BY <2>1, <2>2, Zenon DEF EntryFirst, AllIdle
<1>4. err = NoError
  BY Zenon DEF EntryFirst, Operate, SelectAtr, RetryAtrPending, SetAtrPending,
     StageWithCas, StageInsert, RemoveStagedInsert, Call
<1>5. ASSUME OpGoes(d), UNCHANGED phase,
             op'[d] \in {"atr", "atr_retry"} => \A x \in Docs : kind'[x] = "none",
             /\ err' = NoError /\ atrId' /\ op'[d] \notin {"atr", "atr_retry"}
             => atr'.status # "NONE"
      PROVE  EntryFirst'
  <2>1. \A x \in Docs : op'[x] # "idle" => x = d
    BY <1>3, <1>5 DEF OpGoes, TypeOK, ClientTypeOK
  <2>2. op'[d] # "idle" => err' = NoError
    BY <1>4, <1>5 DEF OpGoes, TypeOK, ClientTypeOK
  <2>3. Setting' <=> op'[d] \in {"atr", "atr_retry"}
    BY <2>1 DEF Setting
  <2>. QED
    BY <1>5, <2>1, <2>2, <2>3, Zenon DEF EntryFirst
<1>6. ASSUME atrId, op[d] \notin {"atr", "atr_retry"}
      PROVE  atr.status # "NONE"
  BY <1>3, <1>4, <1>6, Zenon DEF EntryFirst, Setting
<1>7. ASSUME NEW t \in Ours, Call(d, t)
      PROVE  EntryFirst'
  <2>1. op[d] = "idle" /\ UNCHANGED <<phase, atrId, atr>>
    BY <1>7, Zenon DEF Call, AtrUnchanged
  <2>2. OpGoes(d) /\ op'[d] \notin {"atr", "atr_retry"}
    <3>1. "stage" \in Places /\ "select" \in Places
      BY DEF Places
    <3>2. (\E e \in OpErrors : OpFails(d, e)) => op'[d] = "idle"
      BY DEF OpFails, TypeOK, ClientTypeOK
    <3>3. \/ \E e \in OpErrors : OpFails(d, e)
          \/ OpMoves(d, "stage") \/ OpMoves(d, "select")
      BY <1>1, <1>7 DEF Call
    <3>. QED
      BY <1>2, <3>1, <3>2, <3>3
  <2>. QED
    BY <1>5, <1>6, <2>1, <2>2
<1>8. CASE SelectAtr(d)
  <2>1. UNCHANGED <<phase, kind, atr>> /\ op[d] = "select"
    BY <1>8, Zenon DEF SelectAtr, StagedUnchanged, ServerUnchanged, AtrUnchanged
  <2>2. "stage" \in Places /\ "atr" \in Places
    BY DEF Places
  <2>3. CASE atrId
    <3>1. OpGoes(d) /\ op'[d] = "stage" /\ atrId'
      BY <1>2, <1>8, <2>2, <2>3, Zenon DEF SelectAtr
    <3>. QED
      BY <1>5, <1>6, <2>1, <2>3, <3>1
  <2>4. CASE ~atrId
    <3>1. \A x \in Docs : kind'[x] = "none"
      BY <2>1, <2>4 DEF AtrFirst
    <3>2. \/ OpGoes(d) /\ err' # NoError
          \/ OpGoes(d) /\ op'[d] = "atr"
      BY <1>1, <1>2, <1>8, <2>2, <2>4 DEF SelectAtr
    <3>. QED
      BY <1>5, <2>1, <3>1, <3>2
  <2>. QED
    BY <2>3, <2>4
<1>9. CASE RetryAtrPending(d)
  <2>1. UNCHANGED <<phase, kind, atr>> /\ op[d] = "atr_retry"
    BY <1>9, Zenon DEF RetryAtrPending, StagedUnchanged, ServerUnchanged, AtrUnchanged
  <2>2. Setting /\ \A x \in Docs : kind[x] = "none"
    BY <2>1, Zenon DEF Setting, EntryFirst
  <2>3. "atr" \in Places
    BY DEF Places
  <2>4. \/ OpGoes(d) /\ err' # NoError
        \/ OpGoes(d) /\ op'[d] = "atr"
    BY <1>1, <1>2, <1>9, <2>2, <2>3 DEF RetryAtrPending
  <2>. QED
    BY <1>5, <2>1, <2>2, <2>4
<1>10. CASE SetAtrPending(d)
  <2>1. UNCHANGED <<phase, kind>> /\ op[d] = "atr"
    BY <1>10, Zenon DEF SetAtrPending, StagedUnchanged
  <2>2. Setting /\ \A x \in Docs : kind[x] = "none"
    BY <2>1, Zenon DEF Setting, EntryFirst
  <2>3. "stage" \in Places /\ "atr_retry" \in Places
    BY DEF Places
  <2>4. PendingOk /\ Apply("pending", NoDocs) => atr'.status = "PENDING"
    BY DEF Apply, PendingEffect
  <2>5. \/ OpGoes(d) /\ err' # NoError
        \/ OpGoes(d) /\ op'[d] = "atr_retry"
        \/ OpGoes(d) /\ op'[d] = "stage" /\ atr'.status # "NONE"
    <3>1. ASSUME NEW e \in {Retry, Fail}, PendingFails(d, e)
          PROVE  OpGoes(d) /\ err' # NoError
      BY <1>1, <1>2, <3>1 DEF PendingFails
    <3>. QED
      BY <1>1, <1>2, <1>10, <2>3, <2>4, <3>1
         DEF SetAtrPending, AtrUnchanged, PendingOk
  <2>. QED
    BY <1>5, <2>1, <2>2, <2>5
<1>11. CASE StageWithCas(d) \/ StageInsert(d) \/ RemoveStagedInsert(d)
  <2>1. /\ UNCHANGED <<phase, atr, atrId>>
        /\ op[d] \in {"stage", "stage_retry"}
    BY <1>11, Zenon DEF StageWithCas, StageInsert, RemoveStagedInsert, StageFrame,
       AtrUnchanged
  <2>2. {"stage", "stage_retry", "idle"} \subseteq Places
    BY DEF Places
  <2>3. ASSUME (\E e \in OpErrors : OpFails(d, e))
               \/ (\E pl \in {"stage", "stage_retry", "idle"} : OpMoves(d, pl))
               \/ (\E k, keep : OpStaged(d, k, keep))
        PROVE  OpGoes(d) /\ op'[d] \notin {"atr", "atr_retry"}
    <3>1. (\E e \in OpErrors : OpFails(d, e)) => op'[d] = "idle"
      BY DEF OpFails, TypeOK, ClientTypeOK
    <3>. QED
      BY <1>2, <2>2, <2>3, <3>1
  <2>4. \/ \E e \in OpErrors : OpFails(d, e)
        \/ \E pl \in {"stage", "stage_retry", "idle"} : OpMoves(d, pl)
        \/ \E k, keep : OpStaged(d, k, keep)
    <3>1. CASE StageWithCas(d)
      BY <1>1, <3>1, Zenon DEF StageWithCas
    <3>2. CASE StageInsert(d)
      <4>1. op[d] \in {"stage", "stage_retry", "idle"}
        BY <2>1
      <4>. QED
        BY <1>1, <3>2, <4>1, Zenon DEF StageInsert
    <3>3. CASE RemoveStagedInsert(d)
      BY <1>1, <3>3, Zenon DEF RemoveStagedInsert
    <3>. QED
      BY <1>11, <3>1, <3>2, <3>3
  <2>5. OpGoes(d) /\ op'[d] \notin {"atr", "atr_retry"}
    BY Zenon, <2>3, <2>4
  <2>. QED
    BY <1>5, <1>6, <2>1, <2>5
<1>. QED
  BY <1>7, <1>8, <1>9, <1>10, <1>11 DEF Operate

LEMMA NextEntryFirst ==
  ASSUME Prompt, ~Concurrent, IInv, Undisturbed, EntryFirst, [Next]_vars
  PROVE  EntryFirst'
<1>. USE DEF IInv
<1>1. CASE Stopped
  BY <1>1, StaysStopped DEF Stopped, EntryFirst
<1>2. CASE UNCHANGED vars
  BY <1>2, Zenon DEF vars, storeVars, clientVars, EntryFirst, Setting
<1>3. CASE ~Stopped /\ StoreNext(Stopped) /\ UNCHANGED <<clientVars, cleanupVars>>
  <2>1. atr.status # "NONE" => atr'.status # "NONE"
    <3>1. LateArrives => \/ UNCHANGED atr
                         \/ \E m \in late : Apply(m[1], m[2])
      BY Zenon DEF LateArrives
    <3>2. ~LateArrives => UNCHANGED atr
      BY <1>3, Zenon DEF StoreNext, Tick, OtherChecks, OtherStages, OtherEnds,
         AtrUnchanged
    <3>. QED
      BY <3>1, <3>2, ApplyKeepsEntry DEF TypeOK
  <2>2. UNCHANGED <<phase, op, err, kind, atrId>> /\ Setting' = Setting
    BY <1>3 DEF clientVars, Setting
  <2>. QED
    BY <2>1, <2>2, Zenon DEF EntryFirst
<1>4. ASSUME ~Stopped, NEW c \in Cleaners, CleanerNext(c)
      PROVE  FALSE
  BY <1>4, NoCleaning
<1>5. CASE ClientNext
  <2>1. ASSUME NEW d \in Docs, NEW t \in Ours, Call(d, t)
        PROVE  EntryFirst'
    <3>1. phase = "logic"
      BY <2>1, Zenon DEF Call
    <3>. QED
      BY <2>1, <3>1, OperationEntryFirst
  <2>2. ASSUME NEW d \in Docs, phase = "logic", Operate(d)
        PROVE  EntryFirst'
    BY <2>2, OperationEntryFirst
  <2>3. CASE Commit
    <3>1. AllIdle => ~Setting
      BY DEF AllIdle, Setting
    <3>2. phase' = "atr_commit" => atr'.status # "NONE"
      BY <2>3, <3>1, Zenon DEF Commit, Handle, ServerUnchanged, AtrUnchanged,
         EntryFirst
    <3>3. phase' \in {"handle_error", "atr_commit", "finished"}
      BY <2>3 DEF Commit, Handle
    <3>. QED
      BY <3>2, <3>3 DEF EntryFirst
  <2>4. CASE LogicFails \/ Crash
    BY <2>4 DEF LogicFails, Crash, Handle, EntryFirst
  <2>5. CASE StartItem \/ \E d \in Docs : Unstage(d)
    <3>1. /\ UNCHANGED <<phase, atr>> /\ phase # "logic"
      BY <2>5, Zenon DEF StartItem, Unstage, CommitDoc, RemoveDoc, RollbackDoc,
         ItemFrame, AtrUnchanged
    <3>. QED
      BY <3>1, Zenon DEF EntryFirst
  <2>6. CASE AtrCommit
    <3>1. phase = "atr_commit" /\ atr.status # "NONE"
      BY <2>6 DEF AtrCommit, EntryFirst
    <3>2. atr'.status # "NONE"
      BY <2>6, <3>1, ApplyKeepsEntry, Zenon DEF AtrCommit, Ambiguous, AtrUnchanged,
         TypeOK
    <3>3. phase' # "logic"
      BY <2>6, <3>1 DEF AtrCommit, AtrCommitFails, Handle
    <3>. QED
      BY <3>2, <3>3 DEF EntryFirst
  <2>7. CASE ResolveAmbiguity \/ CommitDocsEnd
    <3>1. phase \in {"resolve", "commit_docs"} /\ UNCHANGED atr /\ phase' # "logic"
      BY <2>7 DEF ResolveAmbiguity, CommitDocsEnd, Handle, ServerUnchanged,
         AtrUnchanged
    <3>. QED
      BY <3>1 DEF EntryFirst
  <2>8. CASE EndAttempt /\ ~(AtrCommit \/ ResolveAmbiguity \/ CommitDocsEnd)
    <3>1. phase' \in RollbackPhases \cup {"finished"}
      BY <2>8 DEF EndAttempt, AtrComplete, HandleError, AtrAbort, RollbackDocsEnd,
         AtrRollbackComplete, RolledBack, RollbackThrows, Finish, RollbackPhases
    <3>. QED
      BY <3>1 DEF EntryFirst, RollbackPhases
  <2>. QED
    BY <1>5, <2>1, <2>2, <2>3, <2>4, <2>5, <2>6, <2>7, <2>8 DEF ClientNext
<1>. QED
  BY <1>1, <1>2, <1>3, <1>4, <1>5, Zenon DEF Next

LEMMA InitEntryFirst == Init => EntryFirst
BY Zenon DEF Init, ClientInit, EntryFirst, Setting

\* What stages a mutation of the attempt: an operation in its staging place.
LEMMA OnlyOpsStage ==
  ASSUME TypeOK, Core, [Next]_vars, NEW d \in Docs,
         doc[d].stg \notin Ours, doc'[d].stg \in Ours
  PROVE  phase = "logic" /\ op[d] \in {"stage", "stage_retry"}
<1>1. "none" \notin Ours /\ "other" \notin Ours /\ "orphan" \notin Ours
  BY DEF Ours
<1>2. UNCHANGED doc => FALSE
  OBVIOUS
<1>3. ASSUME NEW x \in Docs, NEW v, NEW hs, Mutate(x, v, hs), v.stg \notin Ours
      PROVE  FALSE
  BY <1>3 DEF Mutate, TypeOK, StoreTypeOK
<1>4. ASSUME NEW x \in Docs
      PROVE  /\ Unlinked(x).stg = "none" /\ Staged(x, "other").stg = "other"
             /\ Staged(x, "orphan").stg = "orphan"
             /\ Written.stg = "none" /\ Removed.stg = "none"
             /\ CommitWrite(x).stg = "none"
  BY DEF Unlinked, Staged, Written, Removed, CommitWrite, Published, TypeOK,
     StoreTypeOK, Documents
<1>5. ~StoreNext(Stopped)
  <2>1. ~LateArrives /\ ~Tick(Stopped)
    BY <1>2, Zenon DEF LateArrives, Tick, DocsUnchanged
  <2>2. ASSUME NEW x \in Docs, OtherChecks(x) \/ OtherStages(x) \/ OtherEnds(x)
        PROVE  FALSE
    <3>1. CASE OtherChecks(x)
      BY <1>2, <3>1, Zenon DEF OtherChecks
    <3>2. CASE OtherStages(x)
      BY <1>1, <1>3, <1>4, <3>2, Zenon DEF OtherStages
    <3>3. CASE OtherEnds(x)
      <4>1. PICK v \in {[live |-> TRUE, body |-> "other", stg |-> "none"], Unlinked(x),
                        Staged(x, "orphan")} : Mutate(x, v, {})
        BY <3>3, Zenon DEF OtherEnds
      <4>2. v.stg \in {"none", "orphan"}
        BY <1>4, <4>1
      <4>3. v.stg \notin Ours
        BY <1>1, <4>2
      <4>. QED
        BY <1>3, <4>1, <4>3
    <3>. QED
      BY <2>2, <3>1, <3>2, <3>3
  <2>. QED
    BY <2>1, <2>2, Zenon DEF StoreNext
<1>6. ASSUME NEW c \in Cleaners, CleanerNext(c)
      PROVE  FALSE
  <2>1. WriteDoc(c)
    BY <1>2, <1>6, Zenon DEF CleanerNext, StartQueued, StartLost, ReadDoc,
       DocsCleaned, CleanEntry, DocsUnchanged, storeVars
  <2>2. found[c].d \in Docs
    <3>1. cpc[c] = "write"
      BY <2>1, Zenon DEF WriteDoc
    <3>. QED
      BY <3>1 DEF TypeOK, CleanupTypeOK
  <2>3. Write(entry[c], found[c].d, found[c].v).stg = "none"
    BY <1>4, <2>2, Zenon DEF Write
  <2>4. \A hs : ~Mutate(found[c].d, Write(entry[c], found[c].d, found[c].v), hs)
    BY <1>1, <1>3, <2>2, <2>3, Zenon
  <2>. QED
    BY <1>2, <2>1, <2>4, Zenon DEF WriteDoc, DocsUnchanged
<1>7. CASE ClientNext
  <2>1. \A x \in Docs, t \in Ours : ~Call(x, t)
    BY <1>2, Zenon DEF Call
  <2>2. ~EndAttempt /\ ~Commit /\ ~LogicFails /\ ~StartItem /\ ~Crash
    BY <1>2, Zenon DEF EndAttempt, AtrCommit, ResolveAmbiguity, CommitDocsEnd,
       AtrComplete, HandleError, AtrAbort, RollbackDocsEnd, AtrRollbackComplete,
       RolledBack, Commit, LogicFails, StartItem, Crash, DocsUnchanged,
       ServerUnchanged, storeVars
  <2>3. ASSUME NEW x \in Docs, Unstage(x)
        PROVE  FALSE
    <3>1. \A hs : /\ ~Mutate(x, CommitWrite(x), hs) /\ ~Mutate(x, Removed, hs)
                  /\ ~Mutate(x, Unlinked(x), hs)
      BY <1>1, <1>3, <1>4, Zenon
    <3>. QED
      BY <1>2, <2>3, <3>1, Zenon DEF Unstage, CommitDoc, RemoveDoc, RollbackDoc,
         DocsUnchanged
  <2>4. PICK x \in Docs : phase = "logic" /\ Operate(x)
    BY <1>7, <2>1, <2>2, <2>3, Zenon DEF ClientNext
  <2>5. StageWithCas(x) \/ StageInsert(x) \/ RemoveStagedInsert(x)
    BY <1>2, <2>4, Zenon DEF Operate, SelectAtr, RetryAtrPending, SetAtrPending,
       ServerUnchanged, DocsUnchanged
  <2>6. op[x] \in {"stage", "stage_retry"}
    BY <2>5, Zenon DEF StageWithCas, StageInsert, RemoveStagedInsert
  <2>7. UNCHANGED doc \/ \E v : doc' = [doc EXCEPT ![x] = v]
    BY <2>5, Zenon DEF StageWithCas, StageInsert, RemoveStagedInsert, Mutate
  <2>8. x = d
    BY <2>7 DEF TypeOK, StoreTypeOK
  <2>. QED
    BY <2>4, <2>6, <2>8
<1>. QED
  BY <1>2, <1>5, <1>6, <1>7, Zenon DEF Next, vars, storeVars

\* When the application runs one operation at a time, and no cleaner takes a
\* running attempt for lost, set_atr_pending has written the entry before
\* create_staged_insert, create_staged_replace or remove stages a mutation.
THEOREM EntryComesFirst ==
  ASSUME Prompt, ~Concurrent
  PROVE  Spec => EntryBeforeStaging
<1>. DEFINE E == IInv /\ Undisturbed /\ EntryFirst
<1>1. Init => E
  BY InitIInv, InitUndisturbed, InitEntryFirst
<1>2. E /\ [Next]_vars => E'
  <2>1. ASSUME E, [Next]_vars
        PROVE  Undisturbed'
    BY <2>1, NextUndisturbed DEF IInv
  <2>. QED
    BY <2>1, NextIInv, NextEntryFirst
<1>3. ASSUME E, [Next]_vars, NEW d \in Docs, doc[d].stg \notin Ours, doc'[d].stg \in Ours
      PROVE  atr.status # "NONE"
  <2>1. phase = "logic" /\ op[d] \in {"stage", "stage_retry"}
    BY <1>3, OnlyOpsStage DEF IInv, Core
  <2>2. atrId
    BY <1>3, <2>1 DEF IInv, AtrFirst
  <2>3. err = NoError /\ ~Setting
    BY <1>3, <2>1 DEF EntryFirst, Setting
  <2>. QED
    BY <1>3, <2>1, <2>2, <2>3 DEF EntryFirst
<1>4. E /\ [Next]_vars =>
        [\A d \in Docs : doc[d].stg \notin Ours /\ doc'[d].stg \in Ours
                         => atr.status # "NONE"]_vars
  BY <1>3
<1>. HIDE DEF E
<1>. QED
  BY <1>1, <1>2, <1>4, PTL DEF Spec, EntryBeforeStaging
-----------------------------------------------------------------------------
(* The state the attempt reports.                                           *)

\* Where other transactions mutate the documents, no cleaner takes a running
\* attempt for lost.
Shielded == Sound /\ (Foreign => Prompt)

Guarded == Foreign => Undisturbed /\ EntryFirst

\* The entry protects what the lambda has staged.
LEMMA StagedStays ==
  ASSUME Sound, IInv, PInv, Guarded, phase = "logic", err = NoError, NEW d \in Listed
  PROVE  doc[d].stg = kind[d] /\ d \notin casOf["other"]
<1>1. d \in Docs /\ kind[d] # "none" /\ kind[d] \in Ours
  BY DEF Listed, IInv, TypeOK, ClientTypeOK, Kinds
<1>2. atrId
  BY <1>1 DEF IInv, AtrFirst
<1>3. Protected
  BY <1>1, <1>2 DEF Guarded, EntryFirst, Protected
<1>4. Open /\ Winning
  BY DEF Open, Winning, IInv, Undecided
<1>5. doc[d].stg = kind[d]
  BY <1>3, <1>4 DEF PInv, Intact
<1>. QED
  BY <1>1, <1>3, <1>4, <1>5 DEF PInv, Intact

\* A document that is staged carries its mutation while an operation on it
\* runs.
Kept == phase = "logic" => \A d \in Listed : op[d] # "idle" => doc[d].stg = kind[d]

LEMMA KeptNow ==
  ASSUME Sound, IInv, PInv, Guarded, ~Foreign => Kept
  PROVE  Kept
<1>. SUFFICES ASSUME Foreign, phase = "logic", NEW d \in Listed, op[d] # "idle"
              PROVE  doc[d].stg = kind[d]
  BY DEF Kept
<1>1. err = NoError
  BY DEF Guarded, EntryFirst, Listed
<1>. QED
  BY <1>1, StagedStays

\* Steps that neither mutate a document nor move the client.
LEMMA SomeoneElse ==
  ASSUME TypeOK, NEW h \in {"client", "other"},
         \/ \E c \in Cleaners : CleanerNext(c)
         \/ StoreNext(Stopped) /\ h = "client"
  PROVE  \A d \in Docs : d \in casOf'[h] => d \in casOf[h] /\ doc'[d] = doc[d]
<1>1. h \in Holders /\ "other" \in Holders /\ "other" # "client"
  BY DEF Holders
<1>2. ASSUME NEW x \in Docs, NEW v, NEW hs, h \notin hs, Mutate(x, v, hs)
      PROVE  \A d \in Docs : d \in casOf'[h] => d \in casOf[h] /\ doc'[d] = doc[d]
  <2>1. casOf'[h] = casOf[h] \ {x}
    BY <1>1, <1>2 DEF Mutate
  <2>2. \A d \in Docs \ {x} : doc'[d] = doc[d]
    BY <1>2 DEF Mutate, TypeOK, StoreTypeOK
  <2>. QED
    BY <2>1, <2>2
<1>3. ASSUME NEW g \in Holders, g # h, NEW x \in Docs, Learn(g, x), UNCHANGED doc
      PROVE  \A d \in Docs : d \in casOf'[h] => d \in casOf[h] /\ doc'[d] = doc[d]
  BY <1>1, <1>3 DEF Learn, TypeOK, StoreTypeOK
<1>4. ASSUME UNCHANGED <<doc, casOf>>
      PROVE  \A d \in Docs : d \in casOf'[h] => d \in casOf[h] /\ doc'[d] = doc[d]
  BY <1>4
<1>5. ASSUME NEW c \in Cleaners, CleanerNext(c)
      PROVE  \A d \in Docs : d \in casOf'[h] => d \in casOf[h] /\ doc'[d] = doc[d]
  <2>1. c # h /\ c \in Holders /\ h \notin {c} /\ h \notin {}
    BY StoreAssumption DEF Holders
  <2>2. CASE ReadDoc(c)
    <3>1. todo[c] \subseteq Docs
      BY DEF TypeOK, CleanupTypeOK
    <3>. QED
      BY <1>3, <1>4, <2>1, <2>2, <3>1, Zenon DEF ReadDoc
  <2>3. CASE WriteDoc(c)
    <3>1. found[c].d \in Docs
      <4>1. cpc[c] = "write"
        BY <2>3, Zenon DEF WriteDoc
      <4>. QED
        BY <4>1 DEF TypeOK, CleanupTypeOK
    <3>2. \/ UNCHANGED <<doc, casOf>>
          \/ \E v : Mutate(found[c].d, v, {}) \/ Mutate(found[c].d, v, {c})
      BY <2>3, Zenon DEF WriteDoc, DocsUnchanged
    <3>3. \A v : ~(Mutate(found[c].d, v, {}) \/ Mutate(found[c].d, v, {c}))
                 \/ \A d \in Docs : d \in casOf'[h] => d \in casOf[h] /\ doc'[d] = doc[d]
      BY <1>2, <2>1, <3>1
    <3>. QED
      BY <1>4, <2>3, <3>3, Zenon DEF WriteDoc, DocsUnchanged
  <2>. QED
    BY <1>4, <1>5, <2>2, <2>3, Zenon DEF CleanerNext, StartQueued, StartLost,
       DocsCleaned, CleanEntry, DocsUnchanged, storeVars
<1>6. ASSUME StoreNext(Stopped), h = "client"
      PROVE  \A d \in Docs : d \in casOf'[h] => d \in casOf[h] /\ doc'[d] = doc[d]
  <2>1. CASE LateArrives \/ Tick(Stopped)
    BY <1>4, <2>1, Zenon DEF LateArrives, Tick, DocsUnchanged
  <2>2. ASSUME NEW x \in Docs, OtherChecks(x) \/ OtherStages(x) \/ OtherEnds(x)
        PROVE  \A d \in Docs : d \in casOf'[h] => d \in casOf[h] /\ doc'[d] = doc[d]
    <3>1. h \notin {"other"} /\ h \notin {} /\ "other" # h
      BY <1>1, <1>6
    <3>. QED
      BY <1>1, <1>2, <1>3, <2>2, <3>1, Zenon DEF OtherChecks, OtherStages, OtherEnds
  <2>. QED
    BY <1>6, <2>1, <2>2, Zenon DEF StoreNext
<1>. QED
  BY <1>5, <1>6
\* What a step may do to the fate of a mutation.
FateStep == \A d \in Docs : fate'[d] \in {fate[d], "published", "undone"}

LEMMA FateSteps ==
  ASSUME TypeOK, [Next]_vars
  PROVE  FateStep
<1>1. ASSUME UNCHANGED fate
      PROVE  FateStep
  BY <1>1 DEF FateStep
<1>2. ASSUME NEW x, NEW v, NEW w \in {"published", "undone"}, Decide(x, v, w)
      PROVE  FateStep
  BY <1>2 DEF Decide, FateStep, TypeOK, StoreTypeOK
<1>3. CASE UNCHANGED vars
  BY <1>1, <1>3 DEF vars, storeVars
<1>4. CASE StoreNext(Stopped)
  BY <1>1, <1>4, Zenon DEF StoreNext, LateArrives, Tick, OtherChecks, OtherStages,
     OtherEnds, DocsUnchanged
<1>5. ASSUME NEW c \in Cleaners, CleanerNext(c)
      PROVE  FateStep
  <2>1. CASE WriteDoc(c)
    <3>1. (IF entry[c].status = "COMMITTED" THEN "published" ELSE "undone")
            \in {"published", "undone"}
      OBVIOUS
    <3>. QED
      BY <1>1, <1>2, <2>1, <3>1, Zenon DEF WriteDoc, DocsUnchanged
  <2>. QED
    BY <1>1, <1>5, <2>1, Zenon DEF CleanerNext, StartQueued, StartLost, ReadDoc,
       DocsCleaned, CleanEntry, DocsUnchanged, storeVars
<1>6. CASE ClientNext
  <2>1. \A d \in Docs, t \in Ours : Call(d, t) => UNCHANGED fate
    BY Zenon DEF Call
  <2>2. \A d \in Docs : Operate(d) => UNCHANGED fate
    BY Zenon DEF Operate, SelectAtr, RetryAtrPending, SetAtrPending,
       StageWithCas, StageInsert, RemoveStagedInsert, ServerUnchanged, DocsUnchanged
  <2>3. ASSUME NEW d \in Docs, Unstage(d)
        PROVE  FateStep
    BY <1>1, <1>2, <2>3, Zenon DEF Unstage, CommitDoc, RemoveDoc, RollbackDoc,
       DocsUnchanged
  <2>4. EndAttempt \/ Commit \/ LogicFails \/ StartItem \/ Crash => UNCHANGED fate
    BY Zenon DEF EndAttempt, AtrCommit, ResolveAmbiguity, CommitDocsEnd,
       AtrComplete, HandleError, AtrAbort, RollbackDocsEnd, AtrRollbackComplete,
       RolledBack, Commit, LogicFails, StartItem, Crash, DocsUnchanged,
       ServerUnchanged, storeVars
  <2>. QED
    BY <1>1, <1>6, <2>1, <2>2, <2>3, <2>4, Zenon DEF ClientNext
<1>. QED
  BY <1>3, <1>4, <1>5, <1>6, Zenon DEF Next

\* A mutation that is published, or undone, stays so.
LEMMA FateStays ==
  ASSUME IInv, [Next]_vars, NEW d \in Docs
  PROVE  /\ committed /\ fate[d] = "published" => fate'[d] = "published"
         /\ ~committed' /\ fate[d] = "undone" => fate'[d] = "undone"
<1>1. IInv' /\ FateStep /\ (committed => committed')
  BY NextIInv, FateSteps, EntrySteps DEF IInv, EntryStep
<1>2. /\ fate'[d] = "published" => committed'
      /\ fate'[d] = "undone" => ~committed'
  BY <1>1, Zenon DEF IInv, CommittedRight, DoomedRight, Doomed
<1>. QED
  BY <1>1, <1>2, Zenon DEF FateStep

\* What a step may do to the state of the attempt, its list and its queue.
StateStep ==
  /\ st' # st /\ st' = "COMPLETED" => phase = "atr_complete"
  /\ st' # st /\ st' = "ROLLED_BACK" => phase = "rollback_complete"
  /\ item' # item => phase \in {"commit_docs", "rollback_docs"} /\ UNCHANGED phase
  /\ phase' = "rollback_complete" =>
       Unstaged \/ (phase = "rollback_complete" /\ UNCHANGED phase)
  /\ phase \in RollbackPhases \cup {"handle_error", "finished", "crashed"} =>
       /\ phase' \in RollbackPhases \cup {"handle_error", "finished", "crashed"}
       /\ Sends("commit")' => Sends("commit")

LEMMA StateSteps ==
  ASSUME TypeOK, [Next]_vars
  PROVE  StateStep
<1>. DEFINE Ending == RollbackPhases \cup {"handle_error", "finished", "crashed"}
<1>1. CASE UNCHANGED <<phase, st, item>> /\ \A m \in late' : m \in late
  BY <1>1 DEF StateStep, Sends
<1>2. CASE UNCHANGED vars
  BY <1>1, <1>2 DEF vars, storeVars, clientVars
<1>3. CASE StoreNext(Stopped) /\ UNCHANGED clientVars
  <2>1. \A m \in late' : m \in late
    BY <1>3 DEF StoreNext, LateArrives, Tick, OtherChecks, OtherStages, OtherEnds,
       AtrUnchanged
  <2>. QED
    BY <1>1, <1>3, <2>1 DEF clientVars
<1>4. ASSUME NEW c \in Cleaners, CleanerNext(c), UNCHANGED clientVars
      PROVE  StateStep
  <2>1. UNCHANGED late
    BY <1>4, Zenon DEF CleanerNext, StartQueued, StartLost, ReadDoc, WriteDoc,
       DocsCleaned, CleanEntry, AtrUnchanged, storeVars
  <2>. QED
    BY <1>1, <1>4, <2>1 DEF clientVars
<1>5. CASE ClientNext
  <2>1. CASE \E d \in Docs, t \in Ours : Call(d, t)
    BY <1>1, <2>1, Zenon DEF Call, AtrUnchanged
  <2>2. ASSUME NEW d \in Docs, phase = "logic", Operate(d)
        PROVE  StateStep
    <3>1. UNCHANGED <<phase, item>> /\ st' \in {st, "NOT_STARTED", "PENDING"}
      BY <2>2, Zenon DEF Operate, SelectAtr, RetryAtrPending, SetAtrPending,
         StageWithCas, StageInsert, RemoveStagedInsert, StageFrame
    <3>2. "logic" \notin Ending
      BY DEF RollbackPhases
    <3>. QED
      BY <2>2, <3>1, <3>2 DEF StateStep
  <2>3. CASE Commit \/ LogicFails
    <3>1. phase = "logic" /\ UNCHANGED <<item, st>> /\ phase' # "rollback_complete"
      BY <2>3 DEF Commit, LogicFails, EndFrame, Handle
    <3>2. "logic" \notin Ending
      BY DEF RollbackPhases
    <3>. QED
      BY <3>1, <3>2 DEF StateStep
  <2>4. CASE StartItem \/ \E d \in Docs : Unstage(d)
    <3>1. /\ phase \in {"commit_docs", "rollback_docs"}
          /\ UNCHANGED <<phase, st, late>>
      BY <2>4, Zenon DEF StartItem, Unstage, CommitDoc, RemoveDoc, RollbackDoc,
         ItemFrame, AtrUnchanged
    <3>. QED
      BY <3>1 DEF StateStep, Sends
  <2>5. CASE AtrCommit \/ ResolveAmbiguity \/ CommitDocsEnd
    <3>1. /\ phase \in {"atr_commit", "resolve", "commit_docs"}
          /\ UNCHANGED item /\ st' \in {st, "COMMITTED"}
          /\ phase' # "rollback_complete"
      BY <2>5 DEF AtrCommit, ResolveAmbiguity, CommitDocsEnd, EndFrame, Handle,
         AtrCommitFails
    <3>2. phase \notin Ending
      BY <3>1 DEF RollbackPhases
    <3>. QED
      BY <3>1, <3>2 DEF StateStep
  <2>6. CASE AtrComplete
    <3>1. /\ phase = "atr_complete" /\ phase' = "finished"
          /\ UNCHANGED item /\ st' \in {st, "COMPLETED"}
      BY <2>6 DEF AtrComplete, EndFrame
    <3>2. phase \notin Ending
      BY <3>1 DEF RollbackPhases
    <3>. QED
      BY <3>1, <3>2 DEF StateStep
  <2>7. CASE AtrAbort
    <3>1. /\ phase = "atr_abort" /\ phase' \in {"atr_abort", "rollback_docs", "finished"}
          /\ UNCHANGED item /\ st' \in {st, "ABORTED"}
          /\ \A m \in late' : m \in late \/ m[1] = "abort"
      BY <2>7 DEF AtrAbort, RollbackThrows, Finish, Ambiguous, AtrUnchanged
    <3>. QED
      BY <3>1 DEF StateStep, Sends, RollbackPhases
  <2>8. CASE AtrRollbackComplete
    <3>1. /\ phase = "rollback_complete"
          /\ phase' \in {"rollback_complete", "rolled_back", "finished"}
          /\ UNCHANGED <<item, late>> /\ st' \in {st, "ROLLED_BACK"}
      BY <2>8 DEF AtrRollbackComplete, RollbackThrows, Finish
    <3>. QED
      BY <3>1 DEF StateStep, Sends, RollbackPhases
  <2>9. CASE HandleError \/ RollbackDocsEnd \/ RolledBack
    <3>1. /\ phase \in {"handle_error", "rollback_docs", "rolled_back"}
          /\ phase' \in {"rolled_back", "atr_abort", "rollback_complete", "finished"}
          /\ phase' = "rollback_complete" => Unstaged
          /\ UNCHANGED <<item, late, st>>
      BY <2>9 DEF HandleError, RollbackDocsEnd, RolledBack, RollbackThrows, Finish,
         ServerUnchanged, AtrUnchanged
    <3>2. phase' \in Ending /\ Sends("commit")' = Sends("commit")
      BY <3>1 DEF Sends, RollbackPhases
    <3>. QED
      BY <3>1, <3>2, Zenon DEF StateStep
  <2>10. CASE Crash
    BY <2>10 DEF Crash, storeVars, StateStep, Sends
  <2>. QED
    BY <1>5, <2>1, <2>2, <2>3, <2>4, <2>5, <2>6, <2>7, <2>8, <2>9, <2>10
       DEF ClientNext, EndAttempt
<1>. QED
  BY <1>2, <1>3, <1>4, <1>5 DEF Next

LEMMA DoomedStays ==
  ASSUME IInv, [Next]_vars, Doomed
  PROVE  Doomed'
<1>1. StateStep /\ DecisionStep
  BY StateSteps, DecisionSteps DEF IInv
<1>2. UNCHANGED committed
  BY <1>1 DEF DecisionStep, Doomed, RollbackPhases
<1>. QED
  BY <1>1, <1>2 DEF StateStep, Doomed
\* What the client's CAS of a document it has staged stands for: as long as
\* the attempt is not committed, its mutation, or the document without it.
CasRight ==
  \A d \in Listed : d \in casOf["client"] /\ ~committed =>
    doc[d].stg \in Ours \/ fate[d] = "undone"

\* A rollback that is done with a document has undone its mutation.
RolledRight ==
  /\ \A d \in Listed : item[d] = "done" /\ ~committed => fate[d] = "undone"
  /\ phase = "rollback_complete" => Unstaged

StRight ==
  /\ st = "COMPLETED" => committed /\ \A d \in Listed : fate[d] = "published"
  /\ st = "ROLLED_BACK" => Doomed /\ \A d \in Listed : fate[d] = "undone"

RInv == (~Foreign => Kept) /\ CasRight /\ RolledRight /\ StRight

\* A cleaner mutates no document while the lambda runs.
LEMMA CleanersWait ==
  ASSUME TypeOK, Core, phase = "logic", NEW c \in Cleaners, CleanerNext(c)
  PROVE  UNCHANGED doc
<1>1. ~WriteDoc(c)
  <2>1. ASSUME cpc[c] = "write"
        PROVE  committed \/ Doomed
    BY <2>1 DEF Core, CleanerRight, CommittedRight, DoomedRight
  <2>2. ~committed /\ ~Doomed
    BY DEF Core, Undecided, Doomed, RollbackPhases
  <2>. QED
    BY <2>1, <2>2, Zenon DEF WriteDoc
<1>. QED
  BY <1>1, Zenon DEF CleanerNext, StartQueued, StartLost, ReadDoc, DocsCleaned,
     CleanEntry, DocsUnchanged, storeVars

LEMMA NextKept ==
  ASSUME Sound, ~Foreign, IInv, PInv, Kept, [Next]_vars
  PROVE  Kept'
<1>. SUFFICES ASSUME phase' = "logic"
              PROVE  \A x \in Docs : kind'[x] # "none" /\ op'[x] # "idle" =>
                                       doc'[x].stg = kind'[x]
  BY DEF Kept, Listed
<1>0. Good
  BY DEF Good, IInv, Core
<1>1. \A x \in Docs : phase = "logic" /\ kind[x] # "none" /\ op[x] # "idle" =>
                        doc[x].stg = kind[x]
  BY DEF Kept, Listed
<1>2. CASE UNCHANGED vars
  BY <1>1, <1>2 DEF vars, storeVars, clientVars
<1>3. CASE StoreNext(Stopped) /\ UNCHANGED <<clientVars, cleanupVars>>
  <2>1. UNCHANGED <<phase, kind, op>>
    BY <1>3 DEF clientVars
  <2>2. \A x \in Docs : doc[x].stg \in Kinds => doc'[x] = doc[x]
    <3>1. ASSUME NEW d \in Docs, OtherStages(d)
          PROVE  FALSE
      BY <3>1, Zenon DEF PInv, Alone, OtherStages, Current
    <3>2. ASSUME NEW d \in Docs, OtherEnds(d)
          PROVE  \A x \in Docs : doc[x].stg \in Kinds => doc'[x] = doc[x]
      BY <3>2 DEF OtherEnds, Mutate, Kinds, Ours, IInv, TypeOK, StoreTypeOK
    <3>. QED
      BY <1>3, <3>1, <3>2, Zenon DEF StoreNext, LateArrives, Tick, OtherChecks,
         DocsUnchanged
  <2>3. \A x \in Docs : kind[x] \in Kinds
    BY DEF IInv, TypeOK, ClientTypeOK
  <2>. QED
    BY <1>1, <2>1, <2>2, <2>3
<1>4. ASSUME NEW c \in Cleaners, CleanerNext(c), UNCHANGED clientVars
      PROVE  \A x \in Docs : kind'[x] # "none" /\ op'[x] # "idle" =>
                               doc'[x].stg = kind'[x]
  <2>1. UNCHANGED <<phase, kind, op>>
    BY <1>4 DEF clientVars
  <2>2. UNCHANGED doc
    BY <1>0, <1>4, <2>1, CleanersWait DEF Good
  <2>. QED
    BY <1>1, <2>1, <2>2
<1>5. CASE ClientNext
  <2>1. ASSUME NEW d \in Docs, NEW t \in Ours, Call(d, t)
        PROVE  \A x \in Docs : kind'[x] # "none" /\ op'[x] # "idle" =>
                                 doc'[x].stg = kind'[x]
    <3>1. phase = "logic" /\ err = NoError /\ UNCHANGED <<doc, kind>>
      BY <2>1, Zenon DEF Call, StagedUnchanged
    <3>2. \A x \in Listed : doc[x].stg = kind[x]
      BY <3>1, StagedStays DEF Guarded
    <3>. QED
      BY <3>1, <3>2 DEF Listed
  <2>2. ASSUME NEW d \in Docs, phase = "logic", Operate(d)
        PROVE  \A x \in Docs : kind'[x] # "none" /\ op'[x] # "idle" =>
                                 doc'[x].stg = kind'[x]
    <3>1. CASE SelectAtr(d) \/ RetryAtrPending(d) \/ SetAtrPending(d)
      <4>1. UNCHANGED <<doc, kind>> /\ op[d] # "idle"
        BY <3>1, Zenon DEF SelectAtr, RetryAtrPending, SetAtrPending,
           StagedUnchanged, ServerUnchanged, DocsUnchanged
      <4>2. \E pl : op' = [op EXCEPT ![d] = pl]
        BY <3>1, Zenon DEF SelectAtr, RetryAtrPending, SetAtrPending, PendingFails,
           OpFails, OpMoves
      <4>3. \A x \in Docs : op'[x] # "idle" => op[x] # "idle"
        BY <4>1, <4>2 DEF IInv, TypeOK, ClientTypeOK
      <4>. QED
        BY <1>1, <2>2, <4>1, <4>3
    <3>2. CASE StageWithCas(d) \/ StageInsert(d) \/ RemoveStagedInsert(d)
      <4>1. /\ Staging(d)
            /\ \A x \in Docs \ {d} : /\ op'[x] = op[x] /\ kind'[x] = kind[x]
                                     /\ doc'[x] = doc[x]
        BY <1>0, <2>2, <3>2, StagingSteps
      <4>2. op[d] # "idle"
        BY <3>2, Zenon DEF StageWithCas, StageInsert, RemoveStagedInsert
      <4>3. want[d] = "insert" => kind[d] \in {"none", "insert"}
        BY <4>2 DEF PInv, Wanting
      <4>4. kind'[d] # "none" /\ op'[d] # "idle" => doc'[d].stg = kind'[d]
        BY <1>1, <2>2, <4>1, <4>2, <4>3 DEF Staging
      <4>. QED
        BY <1>1, <2>2, <4>1, <4>4, Zenon
    <3>. QED
      BY <2>2, <3>1, <3>2 DEF Operate
  <2>3. phase # "logic" \/ Commit \/ LogicFails \/ Crash => phase' # "logic"
    <3>1. Commit \/ LogicFails \/ Crash => phase' # "logic"
      BY DEF Commit, LogicFails, Crash, Handle
    <3>2. ASSUME phase # "logic"
          PROVE  phase' # "logic"
      <4>1. StartItem \/ (\E d \in Docs : Unstage(d)) => UNCHANGED phase
        BY Zenon DEF StartItem, Unstage, CommitDoc, RemoveDoc, RollbackDoc, ItemFrame
      <4>2. EndAttempt => phase' # "logic"
        BY <3>2 DEF EndAttempt, AtrCommit, ResolveAmbiguity, CommitDocsEnd,
           AtrComplete, HandleError, AtrAbort, RollbackDocsEnd,
           AtrRollbackComplete, RolledBack, Handle, AtrCommitFails,
           RollbackThrows, Finish
      <4>3. \A d \in Docs, t \in Ours : ~Call(d, t)
        BY <3>2, Zenon DEF Call
      <4>. QED
        BY <1>5, <3>1, <3>2, <4>1, <4>2, <4>3, Zenon DEF ClientNext
    <3>. QED
      BY <3>1, <3>2
  <2>4. ~StartItem /\ ~EndAttempt /\ \A d \in Docs : ~Unstage(d)
    <3>1. phase = "logic"
      BY <2>3
    <3>. QED
      BY <3>1, Zenon DEF StartItem, EndAttempt, AtrCommit, ResolveAmbiguity,
         CommitDocsEnd, AtrComplete, HandleError, AtrAbort, RollbackDocsEnd,
         AtrRollbackComplete, RolledBack, Unstage, CommitDoc, RemoveDoc, RollbackDoc
  <2>. QED
    BY <1>5, <2>1, <2>2, <2>3, <2>4, Zenon DEF ClientNext
<1>. QED
  BY <1>2, <1>3, <1>4, <1>5, Zenon DEF Next

\* Staging leaves the client with the CAS of a staged mutation, if with any.
LEMMA StagingCas ==
  ASSUME TypeOK, NEW d \in Docs,
         StageWithCas(d) \/ StageInsert(d) \/ RemoveStagedInsert(d),
         kind[d] # "none" => doc[d].stg = kind[d]
  PROVE  /\ kind'[d] # "none" /\ d \in casOf'["client"] =>
              \/ doc'[d].stg \in Ours
              \/ /\ kind'[d] = kind[d] /\ doc'[d] = doc[d]
                 /\ d \in casOf["client"]
         /\ \A x \in Docs \ {d} :
              /\ kind'[x] = kind[x] /\ doc'[x] = doc[x]
              /\ x \in casOf'["client"] => x \in casOf["client"]
<1>1. "client" \in Holders /\ "none" \notin Ours /\ "insert" \in Ours
  BY DEF Holders, Ours
<1>2. ASSUME NEW v, NEW hs, Mutate(d, v, hs)
      PROVE  /\ doc'[d] = v
             /\ d \in casOf'["client"] => "client" \in hs
             /\ \A x \in Docs \ {d} :
                  doc'[x] = doc[x] /\ (x \in casOf'["client"] => x \in casOf["client"])
  BY <1>1, <1>2 DEF Mutate, TypeOK, StoreTypeOK
<1>3. ASSUME Learn("client", d)
      PROVE  \A x \in Docs \ {d} : x \in casOf'["client"] => x \in casOf["client"]
  BY <1>1, <1>3 DEF Learn, TypeOK, StoreTypeOK
<1>4. ASSUME NEW k, NEW keep, OpStaged(d, k, keep)
      PROVE  kind'[d] = k /\ \A x \in Docs \ {d} : kind'[x] = kind[x]
  BY <1>4, Zenon DEF OpStaged, TypeOK, ClientTypeOK
<1>5. /\ \A k \in Stages : Staged(d, k).stg = k
      /\ "client" \notin {}
  BY DEF Staged, TypeOK, StoreTypeOK, Documents
<1>6. CASE StageWithCas(d)
  <2>1. want[d] \in Ours /\ want[d] \in Stages
    BY <1>6, Zenon DEF StageWithCas, Ours, Stages, Kinds
  <2>. DEFINE Apart == \A x \in Docs \ {d} :
                         /\ kind'[x] = kind[x] /\ doc'[x] = doc[x]
                         /\ x \in casOf'["client"] => x \in casOf["client"]
  <2>2. ASSUME NEW keep, Mutate(d, Staged(d, want[d]), {"client"}), OpStaged(d, want[d], keep)
        PROVE  doc'[d].stg \in Ours /\ Apart
    <3>1. /\ doc'[d] = Staged(d, want[d])
          /\ \A x \in Docs \ {d} :
               doc'[x] = doc[x] /\ (x \in casOf'["client"] => x \in casOf["client"])
      BY <1>2, <2>2, Zenon
    <3>2. \A x \in Docs \ {d} : kind'[x] = kind[x]
      BY <1>4, <2>2, Zenon
    <3>3. doc'[d].stg \in Ours
      BY <1>5, <2>1, <3>1, Zenon
    <3>. QED
      BY <3>1, <3>2, <3>3, Zenon
  <2>3. ASSUME Mutate(d, Staged(d, want[d]), {}), UNCHANGED kind
        PROVE  d \notin casOf'["client"] /\ Apart
    <3>1. /\ d \notin casOf'["client"]
          /\ \A x \in Docs \ {d} :
               doc'[x] = doc[x] /\ (x \in casOf'["client"] => x \in casOf["client"])
      BY <1>1, <2>3 DEF Mutate, TypeOK, StoreTypeOK
    <3>2. \A x \in Docs \ {d} : kind'[x] = kind[x]
      BY <2>3, Zenon
    <3>. QED
      BY <3>1, <3>2, Zenon
  <2>4. UNCHANGED <<doc, casOf, kind>> =>
          kind'[d] = kind[d] /\ doc'[d] = doc[d] /\ casOf' = casOf /\ Apart
    BY Zenon
  <2>5. \/ /\ Mutate(d, Staged(d, want[d]), {"client"})
           /\ \E keep : OpStaged(d, want[d], keep)
        \/ Mutate(d, Staged(d, want[d]), {}) /\ UNCHANGED kind
        \/ UNCHANGED <<doc, casOf, kind>>
    BY <1>6, Zenon DEF StageWithCas, StagedUnchanged
  <2>. QED
    BY <2>2, <2>3, <2>4, <2>5, Zenon
<1>7. CASE StageInsert(d)
  <2>1. "insert" \in Stages
    BY Zenon DEF Stages, Kinds, Ours
  <2>2. ASSUME Mutate(d, Staged(d, "insert"), {"client"}), OpStaged(d, "insert", StoredContent)
        PROVE  /\ doc'[d].stg \in Ours
               /\ \A x \in Docs \ {d} :
                    /\ kind'[x] = kind[x] /\ doc'[x] = doc[x]
                    /\ x \in casOf'["client"] => x \in casOf["client"]
    BY <1>1, <1>2, <1>4, <1>5, <2>1, <2>2, Zenon
  <2>3. ASSUME Mutate(d, Staged(d, "insert"), {}), StagedUnchanged
        PROVE  /\ d \notin casOf'["client"]
               /\ \A x \in Docs \ {d} :
                    /\ kind'[x] = kind[x] /\ doc'[x] = doc[x]
                    /\ x \in casOf'["client"] => x \in casOf["client"]
    <3>1. /\ d \notin casOf'["client"]
          /\ \A x \in Docs \ {d} :
               doc'[x] = doc[x] /\ (x \in casOf'["client"] => x \in casOf["client"])
      BY <1>1, <2>3 DEF Mutate, TypeOK, StoreTypeOK
    <3>. QED
      BY <2>3, <3>1, Zenon DEF StagedUnchanged
  <2>4. ASSUME Learn("client", d), UNCHANGED doc, doc[d].stg = "insert",
               OpStaged(d, "insert", TRUE)
        PROVE  /\ doc'[d].stg \in Ours
               /\ \A x \in Docs \ {d} :
                    /\ kind'[x] = kind[x] /\ doc'[x] = doc[x]
                    /\ x \in casOf'["client"] => x \in casOf["client"]
    BY <1>1, <1>3, <1>4, <2>4, Zenon
  <2>5. ASSUME Learn("client", d), UNCHANGED doc, doc[d].stg \in {"none", "orphan"},
               StagedUnchanged
        PROVE  /\ kind'[d] = "none"
               /\ \A x \in Docs \ {d} :
                    /\ kind'[x] = kind[x] /\ doc'[x] = doc[x]
                    /\ x \in casOf'["client"] => x \in casOf["client"]
    <3>1. kind[d] = "none"
      BY <2>5 DEF TypeOK, ClientTypeOK, Kinds, Ours
    <3>. QED
      BY <1>3, <2>5, <3>1, Zenon DEF StagedUnchanged
  <2>6. UNCHANGED <<doc, casOf>> /\ StagedUnchanged =>
          /\ kind'[d] = kind[d] /\ doc'[d] = doc[d] /\ casOf' = casOf
          /\ \A x \in Docs \ {d} :
               /\ kind'[x] = kind[x] /\ doc'[x] = doc[x]
               /\ x \in casOf'["client"] => x \in casOf["client"]
    BY Zenon DEF StagedUnchanged
  <2>7. \/ UNCHANGED <<doc, casOf>> /\ StagedUnchanged
        \/ Mutate(d, Staged(d, "insert"), {"client"}) /\ OpStaged(d, "insert", StoredContent)
        \/ Mutate(d, Staged(d, "insert"), {}) /\ StagedUnchanged
        \/ /\ Learn("client", d) /\ UNCHANGED doc /\ doc[d].stg = "insert"
           /\ OpStaged(d, "insert", TRUE)
        \/ /\ Learn("client", d) /\ UNCHANGED doc /\ doc[d].stg \in {"none", "orphan"}
           /\ StagedUnchanged
    BY <1>7, Zenon DEF StageInsert
  <2>. QED
    BY <2>2, <2>3, <2>4, <2>5, <2>6, <2>7, Zenon
<1>8. CASE RemoveStagedInsert(d)
  <2>1. ASSUME Mutate(d, Unlinked(d), {})
        PROVE  /\ d \notin casOf'["client"]
               /\ \A x \in Docs \ {d} :
                    /\ doc'[x] = doc[x]
                    /\ x \in casOf'["client"] => x \in casOf["client"]
    <3>1. /\ d \notin casOf'["client"]
          /\ \A x \in Docs \ {d} :
               doc'[x] = doc[x] /\ (x \in casOf'["client"] => x \in casOf["client"])
      BY <1>1, <2>1 DEF Mutate, TypeOK, StoreTypeOK
    <3>. QED
      BY <3>1, Zenon
  <2>2. /\ \/ Mutate(d, Unlinked(d), {})
           \/ UNCHANGED <<doc, casOf, kind>>
        /\ OpStaged(d, "none", FALSE) \/ UNCHANGED kind
    BY <1>8, Zenon DEF RemoveStagedInsert, StagedUnchanged
  <2>3. \A x \in Docs \ {d} : kind'[x] = kind[x]
    BY <1>4, <2>2, Zenon
  <2>. QED
    BY <2>1, <2>2, <2>3, Zenon
<1>. QED
  BY Zenon, <1>6, <1>7, <1>8
\* The list of staged mutations changes in the lambda only.
LEMMA ListSteps ==
  ASSUME [Next]_vars, kind' # kind
  PROVE  phase = "logic" /\ UNCHANGED <<phase, item>>
<1>1. ~UNCHANGED kind
  OBVIOUS
<1>2. \E d \in Docs : phase = "logic" /\ Operate(d)
  <2>1. \A d \in Docs : Unstage(d) => UNCHANGED kind
    BY Zenon DEF Unstage, CommitDoc, RemoveDoc, RollbackDoc, ItemFrame, OpsDone
  <2>2. EndAttempt \/ Commit \/ LogicFails \/ StartItem \/ Crash => UNCHANGED kind
    BY Zenon DEF EndAttempt, AtrCommit, ResolveAmbiguity, CommitDocsEnd,
       AtrComplete, HandleError, AtrAbort, RollbackDocsEnd, AtrRollbackComplete,
       RolledBack, Commit, LogicFails, StartItem, Crash, ItemFrame, EndFrame, OpsDone
  <2>3. \A d \in Docs, t \in Ours : Call(d, t) => UNCHANGED kind
    BY Zenon DEF Call, StagedUnchanged
  <2>4. UNCHANGED vars \/ UNCHANGED clientVars => UNCHANGED kind
    BY DEF vars, clientVars
  <2>. QED
    BY <1>1, <2>1, <2>2, <2>3, <2>4, Zenon DEF Next, ClientNext
<1>. QED
  BY <1>2, Zenon DEF Operate, SelectAtr, RetryAtrPending, SetAtrPending,
     StageWithCas, StageInsert, RemoveStagedInsert, StageFrame

LEMMA NextCasRight ==
  ASSUME IInv, Kept, CasRight, [Next]_vars
  PROVE  CasRight'
<1>. SUFFICES ASSUME ~committed', NEW x \in Docs, kind'[x] # "none",
                     x \in casOf'["client"]
              PROVE  doc'[x].stg \in Ours \/ fate'[x] = "undone"
  BY DEF CasRight, Listed
<1>1. ~committed
  BY EntrySteps, Zenon DEF IInv, EntryStep
<1>2. ASSUME kind'[x] = kind[x], doc'[x] = doc[x], x \in casOf["client"]
      PROVE  doc'[x].stg \in Ours \/ fate'[x] = "undone"
  BY <1>1, <1>2, FateStays, Zenon DEF CasRight, Listed
<1>3. ASSUME UNCHANGED <<doc, casOf, kind>>
      PROVE  doc'[x].stg \in Ours \/ fate'[x] = "undone"
  BY <1>2, <1>3
<1>4. CASE UNCHANGED vars
  BY <1>3, <1>4 DEF vars, storeVars, clientVars
<1>5. ASSUME StoreNext(Stopped) \/ \E c \in Cleaners : CleanerNext(c),
             UNCHANGED clientVars
      PROVE  doc'[x].stg \in Ours \/ fate'[x] = "undone"
  <2>1. kind' = kind /\ TypeOK /\ "client" \in {"client", "other"}
    BY <1>5 DEF clientVars, IInv
  <2>2. \A d \in Docs : d \in casOf'["client"] => d \in casOf["client"] /\ doc'[d] = doc[d]
    BY <1>5, <2>1, SomeoneElse, Zenon
  <2>. QED
    BY <1>2, <2>1, <2>2, Zenon
<1>6. ASSUME NEW d \in Docs, NEW t \in Ours, Call(d, t)
      PROVE  doc'[x].stg \in Ours \/ fate'[x] = "undone"
  <2>1. UNCHANGED <<doc, kind>>
    BY <1>6, Zenon DEF Call, StagedUnchanged
  <2>2. (Learn("client", d) /\ kind[d] = "none") \/ UNCHANGED casOf
    BY <1>6, Zenon DEF Call
  <2>3. x \in casOf["client"]
    BY <2>1, <2>2 DEF Learn, IInv, TypeOK, StoreTypeOK
  <2>. QED
    BY <1>2, <2>1, <2>3
<1>7. ASSUME NEW d \in Docs, phase = "logic", Operate(d)
      PROVE  doc'[x].stg \in Ours \/ fate'[x] = "undone"
  <2>1. CASE SelectAtr(d) \/ RetryAtrPending(d) \/ SetAtrPending(d)
    BY <1>3, <2>1, Zenon DEF SelectAtr, RetryAtrPending, SetAtrPending,
       StagedUnchanged, ServerUnchanged, DocsUnchanged
  <2>2. CASE StageWithCas(d) \/ StageInsert(d) \/ RemoveStagedInsert(d)
    <3>1. op[d] # "idle"
      BY <2>2, Zenon DEF StageWithCas, StageInsert, RemoveStagedInsert
    <3>2. kind[d] # "none" => doc[d].stg = kind[d]
      BY <1>7, <3>1 DEF Kept, Listed
    <3>3. CASE x = d
      <4>1. \/ doc'[x].stg \in Ours
            \/ kind'[x] = kind[x] /\ doc'[x] = doc[x] /\ x \in casOf["client"]
        BY <2>2, <3>2, <3>3, StagingCas, Zenon DEF IInv
      <4>. QED
        BY <1>2, <4>1, Zenon
    <3>4. CASE x # d
      <4>1. kind'[x] = kind[x] /\ doc'[x] = doc[x] /\ x \in casOf["client"]
        <5>1. x \in Docs \ {d}
          BY <3>4
        <5>. QED
          BY <2>2, <3>2, <5>1, StagingCas, Zenon DEF IInv
      <4>. QED
        BY <1>2, <4>1, Zenon
    <3>. QED
      BY <3>3, <3>4
  <2>. QED
    BY <1>7, <2>1, <2>2, Zenon DEF Operate
<1>8. ASSUME NEW d \in Docs, Unstage(d)
      PROVE  doc'[x].stg \in Ours \/ fate'[x] = "undone"
  <2>1. ~CommitDoc(d) /\ ~RemoveDoc(d)
    BY <1>1, Zenon DEF IInv, CommittedRight, CommitDoc, RemoveDoc
  <2>2. RollbackDoc(d) /\ kind' = kind
    BY <1>8, <2>1, Zenon DEF Unstage, RollbackDoc, ItemFrame, OpsDone
  <2>3. CASE DocsUnchanged
    BY <1>3, <2>2, <2>3, Zenon DEF DocsUnchanged
  <2>4. ASSUME Current("client", d), NEW hs, Mutate(d, Unlinked(d), hs),
               Decide(d, Unlinked(d), "undone")
        PROVE  doc'[x].stg \in Ours \/ fate'[x] = "undone"
    <3>0. "client" \in Holders
      BY DEF Holders
    <3>1. CASE x # d
      <4>1. doc'[x] = doc[x] /\ x \in casOf["client"]
        BY <2>4, <3>0, <3>1 DEF Mutate, IInv, TypeOK, StoreTypeOK
      <4>. QED
        BY <1>2, <2>2, <4>1
    <3>2. CASE x = d
      <4>1. doc[d].stg \in Ours \/ fate[d] = "undone"
        BY <1>1, <2>2, <2>4, <3>2 DEF CasRight, Current, Listed
      <4>2. fate[d] = "undone" => fate'[d] = "undone"
        BY FateStays, Zenon
      <4>3. Unlinked(d).stg \notin Ours
        BY DEF Unlinked, Ours, IInv, TypeOK, StoreTypeOK, Documents
      <4>4. doc[d].stg \in Ours => fate'[d] = "undone"
        BY <2>4, <4>3 DEF Decide, IInv, TypeOK, StoreTypeOK
      <4>. QED
        BY <3>2, <4>1, <4>2, <4>4, Zenon
    <3>. QED
      BY <3>1, <3>2
  <2>. QED
    BY <2>2, <2>3, <2>4, Zenon DEF RollbackDoc
<1>9. CASE Commit \/ LogicFails \/ StartItem \/ EndAttempt \/ Crash
  BY <1>3, <1>9, Zenon DEF EndAttempt, AtrCommit, ResolveAmbiguity, CommitDocsEnd,
     AtrComplete, HandleError, AtrAbort, RollbackDocsEnd, AtrRollbackComplete,
     RolledBack, Commit, LogicFails, StartItem, Crash, ItemFrame, EndFrame, OpsDone,
     DocsUnchanged, ServerUnchanged, storeVars
<1>. QED
  BY <1>4, <1>5, <1>6, <1>7, <1>8, <1>9, Zenon DEF Next, ClientNext

LEMMA NextRolled ==
  ASSUME IInv, PInv, CasRight, RolledRight, [Next]_vars
  PROVE  RolledRight'
<1>1. StateStep
  BY StateSteps DEF IInv
<1>2. phase' = "rollback_complete" => Unstaged'
  BY <1>1, ListSteps DEF RolledRight, StateStep, Unstaged, Listed
<1>3. ASSUME ~committed', NEW x \in Docs, kind'[x] # "none", item'[x] = "done"
      PROVE  fate'[x] = "undone"
  <2>1. ~committed
    BY <1>3, EntrySteps, Zenon DEF IInv, EntryStep
  <2>2. kind' = kind
    <3>1. ASSUME kind' # kind
          PROVE  FALSE
      <4>1. phase = "logic" /\ item' = item
        BY <3>1, ListSteps
      <4>2. committed \/ Doomed
        BY <1>3, <4>1 DEF PInv, Unstaging
      <4>. QED
        BY <2>1, <4>1, <4>2 DEF Doomed, RollbackPhases, IInv, Undecided
    <3>. QED
      BY <3>1
  <2>3. CASE item[x] = "done"
    BY <1>3, <2>1, <2>2, <2>3, FateStays DEF RolledRight, Listed
  <2>4. CASE item[x] # "done"
    <3>1. ~UNCHANGED item
      BY <1>3, <2>4
    <3>2. StartItem \/ \E d \in Docs : Unstage(d)
      <4>1. EndAttempt \/ Commit \/ LogicFails \/ Crash => UNCHANGED item
        BY Zenon DEF EndAttempt, AtrCommit, ResolveAmbiguity, CommitDocsEnd,
           AtrComplete, HandleError, AtrAbort, RollbackDocsEnd, AtrRollbackComplete,
           RolledBack, Commit, LogicFails, Crash, ItemFrame, EndFrame
      <4>2. \A d \in Docs, t \in Ours : Call(d, t) => UNCHANGED item
        BY Zenon DEF Call
      <4>3. UNCHANGED vars \/ UNCHANGED clientVars => UNCHANGED item
        BY DEF vars, clientVars
      <4>4. \A d \in Docs : Operate(d) => UNCHANGED item
        BY Zenon DEF Operate, SelectAtr, RetryAtrPending, SetAtrPending,
           StageWithCas, StageInsert, RemoveStagedInsert, StageFrame
      <4>. QED
        BY <3>1, <4>1, <4>2, <4>3, <4>4, Zenon DEF Next, ClientNext
    <3>3. ~StartItem
      BY <1>3, <2>4 DEF StartItem, IInv, TypeOK, ClientTypeOK
    <3>4. PICK d \in Docs : Unstage(d)
      BY <3>2, <3>3
    <3>5. RollbackDoc(d)
      <4>1. ~CommitDoc(d) /\ ~RemoveDoc(d)
        BY <2>1, Zenon DEF IInv, CommittedRight, CommitDoc, RemoveDoc
      <4>. QED
        BY <3>4, <4>1, Zenon DEF Unstage
    <3>6. ItemDone(d) \/ ItemFails(d) \/ ItemAgain(d, mode[d])
      BY <3>5, Zenon DEF RollbackDoc
    <3>7. x = d /\ ~ItemFails(d) /\ ~ItemAgain(d, mode[d])
      BY <1>3, <2>4, <3>6 DEF ItemDone, ItemFails, ItemAgain, IInv, TypeOK, ClientTypeOK
    <3>8. Current("client", d) /\ Decide(d, Unlinked(d), "undone")
      BY <3>5, <3>7, Zenon DEF RollbackDoc
    <3>9. doc[d].stg \in Ours \/ fate[d] = "undone"
      BY <1>3, <2>1, <2>2, <3>7, <3>8 DEF CasRight, Current, Listed
    <3>10. Unlinked(d).stg \notin Ours
      BY DEF Unlinked, Ours, IInv, TypeOK, StoreTypeOK, Documents
    <3>11. doc[d].stg \in Ours => fate'[d] = "undone"
      BY <3>8, <3>10 DEF Decide, IInv, TypeOK, StoreTypeOK
    <3>12. fate[d] = "undone" => fate'[d] = "undone"
      BY <1>3, FateStays, Zenon
    <3>. QED
      BY <3>7, <3>9, <3>11, <3>12
  <2>. QED
    BY <2>3, <2>4
<1>. QED
  BY <1>2, <1>3 DEF RolledRight, Listed

LEMMA NextStRight ==
  ASSUME IInv, PInv, RolledRight, StRight, [Next]_vars
  PROVE  StRight'
<1>1. StateStep /\ (committed => committed')
  BY StateSteps, EntrySteps, Zenon DEF IInv, EntryStep
<1>2. ASSUME committed \/ Doomed
      PROVE  Listed' = Listed
  <2>1. phase # "logic"
    BY <1>2 DEF Doomed, RollbackPhases, IInv, Undecided
  <2>2. kind' = kind
    BY <2>1, ListSteps
  <2>. QED
    BY <2>2 DEF Listed
<1>3. ASSUME st' = "COMPLETED"
      PROVE  committed /\ \A d \in Listed : fate[d] = "published"
  <2>1. CASE st = "COMPLETED"
    BY <2>1 DEF StRight
  <2>2. CASE phase = "atr_complete"
    BY <2>2 DEF IInv, CommittedRight, PInv, Unstaging, Unstaged
  <2>. QED
    BY <1>1, <1>3, <2>1, <2>2 DEF StateStep
<1>4. ASSUME st' = "ROLLED_BACK"
      PROVE  Doomed /\ \A d \in Listed : fate[d] = "undone"
  <2>1. CASE st = "ROLLED_BACK"
    BY <2>1 DEF StRight
  <2>2. CASE phase = "rollback_complete"
    <3>1. Doomed /\ ~committed
      BY <2>2 DEF IInv, DoomedRight, Doomed, RollbackPhases
    <3>. QED
      BY <2>2, <3>1 DEF RolledRight, Unstaged
  <2>. QED
    BY <1>1, <1>4, <2>1, <2>2 DEF StateStep
<1>5. ASSUME st' = "COMPLETED"
      PROVE  committed' /\ \A d \in Listed' : fate'[d] = "published"
  <2>1. \A d \in Listed : d \in Docs
    BY DEF Listed
  <2>. QED
    BY <1>1, <1>2, <1>3, <1>5, <2>1, FateStays, Zenon
<1>6. ASSUME st' = "ROLLED_BACK"
      PROVE  Doomed' /\ \A d \in Listed' : fate'[d] = "undone"
  <2>1. \A d \in Listed : d \in Docs
    BY DEF Listed
  <2>2. Doomed' /\ ~committed'
    BY <1>4, <1>6, DoomedStays DEF Doomed
  <2>. QED
    BY <1>2, <1>4, <1>6, <2>1, <2>2, FateStays, Zenon
<1>. QED
  BY <1>5, <1>6 DEF StRight
\* The protection of the staged documents, and what follows from it, hold from
\* the start and in every step.
LEMMA InitRInv ==
  ASSUME Shielded, Init
  PROVE  Guarded /\ RInv
<1>1. Guarded
  BY InitUndisturbed, InitEntryFirst DEF Guarded, Shielded
<1>2. st = "NOT_STARTED" /\ phase = "logic"
  BY DEF Init, ClientInit
<1>3. Listed = {}
  BY DEF Init, ClientInit, Listed, NoDocs
<1>4. RInv
  BY <1>2, <1>3 DEF RInv, Kept, CasRight, RolledRight, StRight
<1>. QED
  BY <1>1, <1>4

LEMMA NextRInv ==
  ASSUME Shielded, IInv, PInv, Guarded, RInv, [Next]_vars
  PROVE  Guarded' /\ RInv'
<1>1. Guarded'
  <2>1. ASSUME Foreign
        PROVE  Undisturbed' /\ EntryFirst'
    <3>1. Prompt /\ ~Concurrent /\ Undisturbed /\ EntryFirst /\ TypeOK
      BY <2>1 DEF Guarded, Shielded, Sound, IInv
    <3>. QED
      BY <3>1, NextUndisturbed, NextEntryFirst, Zenon
  <2>. QED
    BY <2>1 DEF Guarded
<1>2. Kept
  BY KeptNow DEF Shielded, RInv
<1>3. ~Foreign => Kept'
  BY <1>2, NextKept DEF Shielded
<1>. QED
  BY <1>1, <1>2, <1>3, NextCasRight, NextRolled, NextStRight, Zenon DEF RInv

\* The state that the attempt reports is what has become of its mutations: an
\* attempt that says COMPLETED has published all of them, and one that says
\* ROLLED_BACK has removed all of them, whatever requests failed, whatever the
\* cleaners and the other transactions did, and with any number of documents.
THEOREM ReportedStateIsTrue ==
  ASSUME Shielded
  PROVE  Spec => []StateIsTrue
<1>. DEFINE Inv == IInv /\ PInv /\ Guarded /\ RInv
<1>1. Init => Inv
  BY InitIInv, InitGood, InitRInv DEF Good, Shielded
<1>2. Inv /\ [Next]_vars => Inv'
  BY NextIInv, NextPInv, NextRInv, Zenon DEF Shielded
<1>3. Inv => StateIsTrue
  BY DEF RInv, StRight, StateIsTrue
<1>. QED
  BY <1>1, <1>2, <1>3, PTL DEF Spec
-----------------------------------------------------------------------------
(* What the other transactions lose by this one: nothing.                   *)

\* What a cleaner read stays so as long as the document has the same CAS.
ReadRight ==
  \A c \in Cleaners : cpc[c] = "write" =>
    /\ found[c].v.stg \in Ours
    /\ found[c].d \in casOf[c] => doc[found[c].d] = found[c].v

\* A document that is published is there, unless it was to be removed.
PublishedLives ==
  \A d \in Docs : fate[d] = "published" /\ kind[d] # "remove" => doc[d].live

\* An insert is staged in a tombstone.
InsertIsNew == \A d \in Docs : doc[d].stg = "insert" => ~doc[d].live

LEMMA MutateSteps ==
  ASSUME TypeOK, NEW d \in Docs, NEW v, NEW hs, Mutate(d, v, hs)
  PROVE  /\ doc'[d] = v
         /\ \A x \in Docs \ {d} : doc'[x] = doc[x]
         /\ \A h \in Holders :
              /\ d \in casOf'[h] => h \in hs
              /\ h \in hs => d \in casOf'[h]
              /\ \A x \in Docs \ {d} : x \in casOf'[h] <=> x \in casOf[h]
BY DEF Mutate, TypeOK, StoreTypeOK

\* The values that are written.
LEMMA Values ==
  ASSUME TypeOK, NEW d \in Docs
  PROVE  /\ \A k \in Stages : /\ Staged(d, k).stg = k
                              /\ Staged(d, k).live = doc[d].live
                              /\ Staged(d, k).body = doc[d].body
         /\ Unlinked(d).stg = "none" /\ Unlinked(d).live = doc[d].live
         /\ Unlinked(d).body = doc[d].body
         /\ Removed.stg = "none" /\ Written.stg = "none" /\ Written.live
         /\ CommitWrite(d).stg = "none" /\ CommitWrite(d).live
BY DEF Staged, Unlinked, Removed, Written, CommitWrite, Published, TypeOK, StoreTypeOK,
   Documents

\* Everyone but the cleaner itself leaves what it knows, or invalidates it.
LEMMA CleanerAlone ==
  ASSUME TypeOK, NEW c \in Cleaners, [Next]_vars, ~CleanerNext(c)
  PROVE  /\ cpc'[c] = cpc[c] /\ found'[c] = found[c]
         /\ \A d \in Docs : d \in casOf'[c] => d \in casOf[c] /\ doc'[d] = doc[d]
<1>. DEFINE Left == \A d \in Docs : d \in casOf'[c] => d \in casOf[c] /\ doc'[d] = doc[d]
<1>1. /\ c \in Holders /\ c # "client" /\ c # "other"
      /\ "client" \in Holders /\ "other" \in Holders
  BY StoreAssumption DEF Holders
<1>2. ASSUME NEW x \in Docs, NEW v, NEW hs, c \notin hs, Mutate(x, v, hs)
      PROVE  Left
  BY <1>1, <1>2, MutateSteps
<1>3. ASSUME NEW g \in Holders, g # c, NEW x \in Docs, Learn(g, x), UNCHANGED doc
      PROVE  Left
  BY <1>1, <1>3 DEF Learn, TypeOK, StoreTypeOK
<1>4. ASSUME UNCHANGED <<doc, casOf>>
      PROVE  Left
  BY <1>4
<1>5. c \notin {"client"} /\ c \notin {"other"} /\ c \notin {}
  BY <1>1
<1>6. CASE UNCHANGED vars
  BY <1>6 DEF vars, storeVars, cleanupVars
<1>7. CASE StoreNext(Stopped) /\ UNCHANGED cleanupVars
  <2>1. UNCHANGED <<cpc, found>>
    BY <1>7 DEF cleanupVars
  <2>2. CASE LateArrives \/ Tick(Stopped)
    BY <1>4, <2>1, <2>2, Zenon DEF LateArrives, Tick, DocsUnchanged
  <2>3. ASSUME NEW d \in Docs, OtherChecks(d)
        PROVE  Left
    BY <1>1, <1>3, <2>3, Zenon DEF OtherChecks
  <2>4. ASSUME NEW d \in Docs, OtherStages(d) \/ OtherEnds(d)
        PROVE  Left
    BY <1>2, <1>5, <2>4, Zenon DEF OtherStages, OtherEnds
  <2>. QED
    BY <1>7, <2>1, <2>2, <2>3, <2>4, Zenon DEF StoreNext
<1>8. ASSUME NEW b \in Cleaners, CleanerNext(b)
      PROVE  cpc'[c] = cpc[c] /\ found'[c] = found[c] /\ Left
  <2>1. b # c /\ b \in Holders /\ c \notin {b}
    BY <1>8 DEF Holders
  <2>2. /\ \A p : Goes(b, p) => cpc'[c] = cpc[c]
        /\ \A f : found' = [found EXCEPT ![b] = f] => found'[c] = found[c]
    BY <2>1 DEF Goes, TypeOK, CleanupTypeOK
  <2>3. cpc'[c] = cpc[c]
    BY <1>8, <2>2, Zenon DEF CleanerNext, StartQueued, StartLost, ReadDoc, WriteDoc,
       DocsCleaned, CleanEntry, Starts, Ends, cleanupVars
  <2>4. found'[c] = found[c]
    BY <1>8, <2>2, Zenon DEF CleanerNext, StartQueued, StartLost, ReadDoc, WriteDoc,
       DocsCleaned, CleanEntry, Starts, Ends, cleanupVars
  <2>5. ASSUME ReadDoc(b)
        PROVE  Left
    <3>1. UNCHANGED doc /\ \A d \in todo[b] : d \in Docs
      BY <2>5 DEF ReadDoc, TypeOK, CleanupTypeOK
    <3>. QED
      BY <1>3, <1>4, <2>1, <2>5, <3>1, Zenon DEF ReadDoc
  <2>6. ASSUME WriteDoc(b)
        PROVE  Left
    <3>1. found[b].d \in Docs
      BY <2>6 DEF WriteDoc, TypeOK, CleanupTypeOK
    <3>. QED
      BY <1>2, <1>4, <1>5, <2>1, <2>6, <3>1, Zenon DEF WriteDoc, DocsUnchanged
  <2>7. Left
    BY <1>4, <1>8, <2>5, <2>6, Zenon DEF CleanerNext, StartQueued, StartLost,
       DocsCleaned, CleanEntry, DocsUnchanged, storeVars
  <2>. QED
    BY <2>3, <2>4, <2>7
<1>9. CASE ClientNext /\ UNCHANGED cleanupVars
  <2>1. UNCHANGED <<cpc, found>>
    BY <1>9 DEF cleanupVars
  <2>2. ASSUME NEW d \in Docs, NEW t \in Ours, Call(d, t)
        PROVE  Left
    BY <1>1, <1>3, <1>4, <2>2, Zenon DEF Call
  <2>3. ASSUME NEW d \in Docs, Operate(d)
        PROVE  Left
    <3>1. CASE StageInsert(d)
      BY <1>1, <1>2, <1>3, <1>4, <1>5, <3>1, Zenon DEF StageInsert
    <3>. QED
      BY <1>2, <1>4, <1>5, <2>3, <3>1, Zenon DEF Operate, SelectAtr, RetryAtrPending,
         SetAtrPending, StageWithCas, RemoveStagedInsert, ServerUnchanged, DocsUnchanged
  <2>4. ASSUME NEW d \in Docs, Unstage(d)
        PROVE  Left
    BY <1>2, <1>4, <1>5, <2>4, Zenon DEF Unstage, CommitDoc, RemoveDoc, RollbackDoc,
       DocsUnchanged
  <2>5. CASE EndAttempt \/ Commit \/ LogicFails \/ StartItem \/ Crash
    <3>1. UNCHANGED <<doc, casOf>>
      BY <2>5, Zenon DEF EndAttempt, AtrCommit, ResolveAmbiguity, CommitDocsEnd,
         AtrComplete, HandleError, AtrAbort, RollbackDocsEnd, AtrRollbackComplete,
         RolledBack, Commit, LogicFails, StartItem, Crash, DocsUnchanged,
         ServerUnchanged, storeVars
    <3>. QED
      BY <1>4, <2>1, <3>1
  <2>. QED
    BY <1>9, <2>1, <2>2, <2>3, <2>4, <2>5, Zenon DEF ClientNext
<1>. QED
  BY <1>6, <1>7, <1>8, <1>9, Zenon DEF Next

LEMMA NextReadRight ==
  ASSUME TypeOK, ReadRight, [Next]_vars
  PROVE  ReadRight'
<1>. SUFFICES ASSUME NEW c \in Cleaners, cpc'[c] = "write"
              PROVE  /\ found'[c].v.stg \in Ours
                     /\ found'[c].d \in casOf'[c] => doc'[found'[c].d] = found'[c].v
  BY DEF ReadRight
<1>1. CASE ~CleanerNext(c)
  <2>1. /\ cpc'[c] = cpc[c] /\ found'[c] = found[c]
        /\ \A d \in Docs : d \in casOf'[c] => d \in casOf[c] /\ doc'[d] = doc[d]
    BY <1>1, CleanerAlone
  <2>2. found[c].d \in Docs
    BY <2>1 DEF TypeOK, CleanupTypeOK
  <2>. QED
    BY <2>1, <2>2 DEF ReadRight
<1>2. CASE CleanerNext(c)
  <2>1. ASSUME NEW p, p # "write"
        PROVE  ~Goes(c, p)
    BY <2>1 DEF Goes, TypeOK, CleanupTypeOK
  <2>2. ReadDoc(c) \/ (UNCHANGED <<cpc, found, doc, casOf>> /\ cpc[c] # "write")
    <3>1. /\ "docs" # "write" /\ "idle" # "write" /\ "entry" # "write"
      OBVIOUS
    <3>. QED
      BY <1>2, <2>1, <3>1, Zenon DEF CleanerNext, StartQueued, StartLost, WriteDoc,
         DocsCleaned, CleanEntry, Starts, Ends, cleanupVars, DocsUnchanged
  <2>3. CASE ReadDoc(c)
    <3>1. cpc[c] = "docs"
      BY <2>3 DEF ReadDoc
    <3>2. PICK d \in todo[c] : /\ doc[d].stg \in Ours
                               /\ found' = [found EXCEPT ![c] = [d |-> d, v |-> doc[d]]]
      BY <2>3, <3>1, Zenon DEF ReadDoc
    <3>3. found'[c] = [d |-> d, v |-> doc[d]] /\ UNCHANGED doc
      BY <2>3, <3>2, Zenon DEF ReadDoc, TypeOK, CleanupTypeOK
    <3>. QED
      BY <3>2, <3>3
  <2>. QED
    BY <2>2, <2>3
<1>. QED
  BY <1>1, <1>2

LEMMA NextInsertIsNew ==
  ASSUME TypeOK, Kept, InsertIsNew, [Next]_vars
  PROVE  InsertIsNew'
<1>1. ASSUME UNCHANGED doc
      PROVE  InsertIsNew'
  BY <1>1 DEF InsertIsNew
<1>2. ASSUME NEW d \in Docs, NEW v, NEW hs, Mutate(d, v, hs),
             v.stg = "insert" => ~v.live
      PROVE  InsertIsNew'
  BY <1>2, MutateSteps DEF InsertIsNew
<1>3. /\ "none" # "insert" /\ "other" # "insert" /\ "orphan" # "insert"
      /\ "other" \in Stages /\ "orphan" \in Stages
  BY DEF Stages, Others
<1>4. CASE UNCHANGED vars
  BY <1>1, <1>4 DEF vars, storeVars
<1>5. CASE StoreNext(Stopped)
  <2>1. ASSUME NEW d \in Docs, OtherStages(d)
        PROVE  InsertIsNew'
    <3>1. Staged(d, "other").stg = "other"
      BY <1>3, Values
    <3>. QED
      BY <1>2, <1>3, <2>1, <3>1, Zenon DEF OtherStages
  <2>2. ASSUME NEW d \in Docs, OtherEnds(d)
        PROVE  InsertIsNew'
    <3>1. \A v \in {[live |-> TRUE, body |-> "other", stg |-> "none"], Unlinked(d),
                    Staged(d, "orphan")} : v.stg # "insert"
      BY <1>3, Values
    <3>. QED
      BY <1>2, <1>3, <2>2, <3>1, Zenon DEF OtherEnds
  <2>. QED
    BY <1>1, <1>5, <2>1, <2>2, Zenon DEF StoreNext, LateArrives, Tick, OtherChecks,
       DocsUnchanged
<1>6. ASSUME NEW c \in Cleaners, CleanerNext(c)
      PROVE  InsertIsNew'
  <2>1. CASE WriteDoc(c)
    <3>1. found[c].d \in Docs
      BY <2>1 DEF WriteDoc, TypeOK, CleanupTypeOK
    <3>2. Write(entry[c], found[c].d, found[c].v).stg = "none"
      BY <3>1, Values, Zenon DEF Write
    <3>. QED
      BY <1>1, <1>2, <1>3, <2>1, <3>1, <3>2, Zenon DEF WriteDoc, DocsUnchanged
  <2>. QED
    BY <1>1, <1>6, <2>1, Zenon DEF CleanerNext, StartQueued, StartLost, ReadDoc,
       DocsCleaned, CleanEntry, DocsUnchanged, storeVars
<1>7. CASE ClientNext
  <2>1. ASSUME NEW d \in Docs, phase = "logic", Operate(d)
        PROVE  InsertIsNew'
    <3>1. CASE StageWithCas(d)
      <4>1. want[d] \in Stages /\ want[d] # "insert"
        BY <3>1, Zenon DEF StageWithCas, Stages, Kinds, Ours
      <4>2. Staged(d, want[d]).stg # "insert"
        BY <4>1, Values
      <4>. QED
        BY <1>1, <1>2, <3>1, <4>2, Zenon DEF StageWithCas
    <3>2. CASE StageInsert(d)
      <4>1. ASSUME InsertFits(d)
            PROVE  ~Staged(d, "insert").live
        <5>1. op[d] # "idle" /\ "insert" \in Stages
          BY <3>2, Zenon DEF StageInsert, Stages, Kinds, Ours
        <5>2. ~doc[d].live
          BY <2>1, <4>1, <5>1 DEF InsertFits, Kept, Listed, InsertIsNew
        <5>. QED
          BY <5>1, <5>2, Values, Zenon
      <4>. QED
        BY <1>1, <1>2, <3>2, <4>1, Zenon DEF StageInsert
    <3>3. CASE RemoveStagedInsert(d)
      BY <1>1, <1>2, <1>3, <3>3, Values, Zenon DEF RemoveStagedInsert
    <3>. QED
      BY <1>1, <2>1, <3>1, <3>2, <3>3, Zenon DEF Operate, SelectAtr, RetryAtrPending,
         SetAtrPending, ServerUnchanged, DocsUnchanged
  <2>2. ASSUME NEW d \in Docs, Unstage(d)
        PROVE  InsertIsNew'
    BY <1>1, <1>2, <1>3, <2>2, Values, Zenon DEF Unstage, CommitDoc, RemoveDoc,
       RollbackDoc, DocsUnchanged
  <2>3. CASE EndAttempt \/ Commit \/ LogicFails \/ StartItem \/ Crash
    BY <1>1, <2>3, Zenon DEF EndAttempt, AtrCommit, ResolveAmbiguity, CommitDocsEnd,
       AtrComplete, HandleError, AtrAbort, RollbackDocsEnd, AtrRollbackComplete,
       RolledBack, Commit, LogicFails, StartItem, Crash, DocsUnchanged,
       ServerUnchanged, storeVars
  <2>4. \A d \in Docs, t \in Ours : Call(d, t) => UNCHANGED doc
    BY Zenon DEF Call
  <2>. QED
    BY <1>1, <1>7, <2>1, <2>2, <2>3, <2>4, Zenon DEF ClientNext
<1>. QED
  BY <1>4, <1>5, <1>6, <1>7, Zenon DEF Next
LEMMA NextPublishedLives ==
  ASSUME IInv, IInv', PInv, PublishedLives, [Next]_vars
  PROVE  PublishedLives'
<1>. SUFFICES ASSUME NEW x \in Docs, fate'[x] = "published", kind'[x] # "remove"
              PROVE  doc'[x].live
  BY DEF PublishedLives
<1>1. committed' /\ TypeOK
  BY Zenon DEF IInv, CommittedRight
<1>2. ASSUME fate[x] = "published"
      PROVE  kind' = kind /\ doc[x].live /\ phase # "logic"
  <2>1. phase # "logic"
    BY <1>2 DEF IInv, CommittedRight, Undecided
  <2>2. kind' = kind
    BY <2>1, ListSteps
  <2>. QED
    BY <1>2, <2>1, <2>2 DEF PublishedLives
<1>3. ASSUME UNCHANGED <<doc, fate>>
      PROVE  doc'[x].live
  BY <1>2, <1>3
<1>4. ASSUME NEW d \in Docs, NEW v, NEW hs, Mutate(d, v, hs),
             v.live \/ (v.live = doc[d].live /\ fate[d] = fate'[d]),
             x # d => fate'[x] = fate[x]
      PROVE  doc'[x].live
  <2>1. doc'[d] = v /\ \A y \in Docs \ {d} : doc'[y] = doc[y]
    BY <1>1, <1>4, MutateSteps
  <2>2. CASE x = d
    BY <1>2, <1>4, <2>1, <2>2, Zenon
  <2>3. CASE x # d
    <3>1. doc'[x] = doc[x]
      BY <2>1, <2>3
    <3>. QED
      BY <1>2, <1>4, <2>3, <3>1, Zenon
  <2>. QED
    BY <2>2, <2>3
<1>5. ASSUME NEW d \in Docs, NEW v, NEW w, Decide(d, v, w)
      PROVE  x # d => fate'[x] = fate[x]
  BY <1>1, <1>5 DEF Decide, TypeOK, StoreTypeOK
<1>6. CASE UNCHANGED vars
  BY <1>3, <1>6 DEF vars, storeVars
<1>7. CASE StoreNext(Stopped)
  <2>1. ASSUME NEW d \in Docs, OtherStages(d)
        PROVE  doc'[x].live
    <3>1. Staged(d, "other").live = doc[d].live
      BY <1>1, Values DEF Stages, Others
    <3>. QED
      BY <1>4, <2>1, <3>1, Zenon DEF OtherStages
  <2>2. ASSUME NEW d \in Docs, OtherEnds(d)
        PROVE  doc'[x].live
    <3>1. \A v \in {[live |-> TRUE, body |-> "other", stg |-> "none"], Unlinked(d),
                    Staged(d, "orphan")} : v.live \/ v.live = doc[d].live
      BY <1>1, Values DEF Stages, Others
    <3>. QED
      BY <1>4, <2>2, <3>1, Zenon DEF OtherEnds
  <2>. QED
    BY <1>3, <1>7, <2>1, <2>2, Zenon DEF StoreNext, LateArrives, Tick, OtherChecks,
       DocsUnchanged
<1>8. ASSUME NEW c \in Cleaners, CleanerNext(c), UNCHANGED clientVars
      PROVE  doc'[x].live
  <2>1. ASSUME WriteDoc(c)
        PROVE  doc'[x].live
    <3>1. found[c].d \in Docs /\ cpc[c] = "write" /\ UNCHANGED <<committed, kind>>
      BY <1>1, <1>8, <2>1, Zenon DEF WriteDoc, AtrUnchanged, TypeOK, CleanupTypeOK, clientVars
    <3>2. entry[c].status \in {"COMMITTED", "ABORTED"} /\ ~Doomed
      BY <1>1, <3>1, Zenon DEF IInv, CleanerRight, Doomed
    <3>3. entry[c].status = "COMMITTED" /\ entry[c].ids = kind
      BY <3>2, Zenon DEF IInv, DoomedRight, PInv, Cleaning
    <3>4. CASE DocsUnchanged
      BY <1>3, <3>4 DEF DocsUnchanged
    <3>5. ASSUME NEW hs, NEW w, Mutate(found[c].d, Write(entry[c], found[c].d, found[c].v), hs),
                 Decide(found[c].d, Write(entry[c], found[c].d, found[c].v), w)
          PROVE  doc'[x].live
      <4>1. CASE kind[found[c].d] # "remove"
        <5>1. Write(entry[c], found[c].d, found[c].v).live
          BY <3>3, <4>1, ZenonT(30) DEF Write, Written
        <5>. QED
          BY <1>4, <1>5, <3>1, <3>5, <5>1, Zenon
      <4>2. CASE kind[found[c].d] = "remove"
        <5>1. x # found[c].d
          BY Zenon, <3>1, <4>2
        <5>2. doc'[x] = doc[x] /\ fate'[x] = fate[x]
          <6>1. x \in Docs \ {found[c].d}
            BY <5>1
          <6>2. doc'[x] = doc[x]
            BY <1>1, <3>1, <3>5, <6>1, Zenon DEF Mutate, TypeOK, StoreTypeOK
          <6>3. fate'[x] = fate[x]
            BY <1>5, <3>1, <3>5, <5>1, Zenon
          <6>. QED
            BY Zenon, <6>2, <6>3
        <5>. QED
          BY <1>2, <5>2
      <4>. QED
        BY <4>1, <4>2
    <3>. QED
      BY <2>1, <3>4, <3>5, Zenon DEF WriteDoc
  <2>. QED
    BY <1>3, <1>8, <2>1, Zenon DEF CleanerNext, StartQueued, StartLost, ReadDoc,
       DocsCleaned, CleanEntry, DocsUnchanged, storeVars
<1>9. CASE ClientNext
  <2>1. \A d \in Docs, t \in Ours : ~Call(d, t)
    <3>1. \A d \in Docs, t \in Ours : Call(d, t) => phase = "logic" /\ UNCHANGED fate
      BY Zenon DEF Call
    <3>. QED
      BY <1>2, <3>1, Zenon
  <2>2. ASSUME NEW d \in Docs, phase = "logic", Operate(d)
        PROVE  FALSE
    <3>1. UNCHANGED fate
      BY <2>2, Zenon DEF Operate, SelectAtr, RetryAtrPending, SetAtrPending,
         StageWithCas, StageInsert, RemoveStagedInsert, ServerUnchanged, DocsUnchanged
    <3>. QED
      BY <1>2, <2>2, <3>1
  <2>3. ASSUME NEW d \in Docs, CommitDoc(d)
        PROVE  doc'[x].live
    <3>1. CommitWrite(d).live
      BY <1>1, Values, Zenon
    <3>. QED
      BY <1>3, <1>4, <1>5, <2>3, <3>1, Zenon DEF CommitDoc, DocsUnchanged
  <2>4. ASSUME NEW d \in Docs, RemoveDoc(d)
        PROVE  doc'[x].live
    <3>1. kind[d] = "remove" /\ kind' = kind /\ x # d
      BY <2>4, Zenon DEF RemoveDoc, ItemFrame, OpsDone
    <3>2. x \in Docs \ {d}
      BY <3>1
    <3>3. DocsUnchanged \/ (doc'[x] = doc[x] /\ fate'[x] = fate[x])
      BY <1>1, <1>5, <2>4, <3>1, <3>2, MutateSteps, Zenon DEF RemoveDoc
    <3>. QED
      BY <1>2, <1>3, <3>3 DEF DocsUnchanged
  <2>5. ASSUME NEW d \in Docs, RollbackDoc(d)
        PROVE  doc'[x].live
    <3>1. phase = "rollback_docs" /\ UNCHANGED <<committed>>
      BY <2>5, Zenon DEF RollbackDoc, ItemFrame, AtrUnchanged
    <3>2. Doomed
      BY <3>1 DEF IInv, DoomedRight, RollbackPhases
    <3>. QED
      BY <1>1, <3>1, <3>2 DEF Doomed
  <2>6. CASE EndAttempt \/ Commit \/ LogicFails \/ StartItem \/ Crash
    BY <1>3, <2>6, Zenon DEF EndAttempt, AtrCommit, ResolveAmbiguity, CommitDocsEnd,
       AtrComplete, HandleError, AtrAbort, RollbackDocsEnd, AtrRollbackComplete,
       RolledBack, Commit, LogicFails, StartItem, Crash, DocsUnchanged,
       ServerUnchanged, storeVars
  <2>. QED
    BY <1>9, <2>1, <2>2, <2>3, <2>4, <2>5, <2>6, Zenon DEF ClientNext, Unstage
<1>. QED
  BY <1>6, <1>7, <1>8, <1>9, Zenon DEF Next

\* The client knows the CAS of no document with another's mutation, if it has
\* staged that document or is about to stage it with its CAS.
Cares(d) ==
  \/ kind[d] # "none"
  \/ phase = "logic" /\ op[d] # "idle" /\ want[d] \in {"replace", "remove"}

NotBlocked ==
  \A d \in Docs : d \in casOf["client"] /\ Cares(d) => doc[d].stg # "other"

LEMMA NextNotBlocked ==
  ASSUME Sound, IInv, PInv, Guarded, NotBlocked, [Next]_vars
  PROVE  NotBlocked'
<1>. SUFFICES ASSUME NEW x \in Docs, x \in casOf'["client"], Cares(x)'
              PROVE  doc'[x].stg # "other"
  BY DEF NotBlocked
<1>0. Good
  BY DEF Good, IInv, Core
<1>1. ASSUME Cares(x), x \in casOf["client"], doc'[x] = doc[x]
      PROVE  doc'[x].stg # "other"
  BY <1>1 DEF NotBlocked
<1>2. CASE UNCHANGED vars
  BY <1>1, <1>2 DEF vars, storeVars, clientVars, Cares
<1>3. ASSUME StoreNext(Stopped) \/ \E c \in Cleaners : CleanerNext(c),
             UNCHANGED clientVars
      PROVE  doc'[x].stg # "other"
  <2>1. Cares(x) /\ TypeOK /\ "client" \in {"client", "other"}
    BY <1>3 DEF clientVars, IInv, Cares
  <2>2. \A d \in Docs : d \in casOf'["client"] => d \in casOf["client"] /\ doc'[d] = doc[d]
    BY <1>3, <2>1, SomeoneElse, Zenon
  <2>. QED
    BY <1>1, <2>1, <2>2
<1>4. ASSUME NEW d \in Docs, NEW t \in Ours, Call(d, t)
      PROVE  doc'[x].stg # "other"
  <2>1. phase = "logic" /\ UNCHANGED <<phase, doc, kind>>
    BY <1>4, Zenon DEF Call, StagedUnchanged
  <2>2. CASE x # d
    <3>1. want'[x] = want[x] /\ op'[x] = op[x]
      BY <1>4, <2>2 DEF Call, OpFails, OpMoves, IInv, TypeOK, ClientTypeOK
    <3>2. Learn("client", d) \/ UNCHANGED casOf
      BY <1>4, Zenon DEF Call
    <3>3. x \in casOf["client"]
      BY <2>2, <3>2, ZenonT(30) DEF Learn, IInv, TypeOK, StoreTypeOK
    <3>4. Cares(x)
      BY <2>1, <3>1 DEF Cares
    <3>. QED
      BY <1>1, <2>1, <3>3, <3>4
  <2>3. CASE x = d /\ kind[d] # "none"
    <3>1. UNCHANGED casOf
      BY <1>4, <2>3, Zenon DEF Call
    <3>. QED
      BY <1>1, <2>1, <2>3, <3>1 DEF Cares
  <2>4. CASE x = d /\ kind[d] = "none"
    <3>1. want'[d] = Target(d, t) /\ want'[d] \in {"replace", "remove"} /\ op'[d] # "idle"
      BY <1>4, <2>1, <2>4, Zenon DEF Call, Cares, IInv, TypeOK, ClientTypeOK
    <3>2. t # "insert"
      BY <2>4, <3>1 DEF Target, Ours
    <3>3. \A e : ~OpFails(d, e)
      BY <3>1, Zenon DEF OpFails, IInv, TypeOK, ClientTypeOK
    <3>4. doc[d].stg # "other"
      BY <1>4, <2>4, <3>2, <3>3, Zenon DEF Call, Blocked
    <3>. QED
      BY <2>1, <2>4, <3>4
  <2>. QED
    BY <2>2, <2>3, <2>4
<1>5. ASSUME NEW d \in Docs, phase = "logic", Operate(d)
      PROVE  doc'[x].stg # "other"
  <2>0. UNCHANGED want
    BY <1>5, Zenon DEF Operate, SelectAtr, RetryAtrPending, SetAtrPending,
       StageWithCas, StageInsert, RemoveStagedInsert, StageFrame
  <2>1. CASE SelectAtr(d) \/ RetryAtrPending(d) \/ SetAtrPending(d)
    <3>1. UNCHANGED <<doc, casOf, kind>> /\ op[d] # "idle"
      BY <2>1, Zenon DEF SelectAtr, RetryAtrPending, SetAtrPending,
         ServerUnchanged, DocsUnchanged, StagedUnchanged
    <3>2. \E pl : op' = [op EXCEPT ![d] = pl]
      BY <2>1, Zenon DEF SelectAtr, RetryAtrPending, SetAtrPending, PendingFails,
         OpFails, OpMoves
    <3>3. op'[x] # "idle" => op[x] # "idle"
      BY <3>1, <3>2 DEF IInv, TypeOK, ClientTypeOK
    <3>4. Cares(x)
      BY Zenon, <1>5, <2>0, <3>1, <3>3 DEF Cares
    <3>. QED
      BY Zenon, <1>1, <3>1, <3>4
  <2>2. CASE StageWithCas(d) \/ StageInsert(d) \/ RemoveStagedInsert(d)
    <3>0. "client" \in Holders /\ "client" \notin {}
      BY DEF Holders
    <3>1. \A y \in Docs \ {d} : op'[y] = op[y] /\ kind'[y] = kind[y] /\ doc'[y] = doc[y]
      BY <1>0, <1>5, <2>2, StagingSteps
    <3>2. CASE x = d
      <4>0. \A v : ~Mutate(d, v, {})
        BY <3>0, <3>2, Zenon DEF Mutate
      <4>1. ASSUME UNCHANGED <<doc, casOf, kind>>
            PROVE  want[d] \in {"replace", "remove"} \/ doc'[x].stg # "other"
        BY <1>1, <2>0, <3>2, <4>1, Zenon DEF Cares
      <4>2. \A k \in Ours : \A hs : Mutate(d, Staged(d, k), hs) => doc'[x].stg # "other"
        <5>1. \A k \in Ours : k \in Stages /\ k # "other"
          BY DEF Ours, Stages, Kinds
        <5>2. TypeOK /\ \A k \in Ours : Staged(d, k).stg # "other"
          BY <1>0, <5>1, Values, Zenon DEF Good
        <5>3. \A k, hs : Mutate(d, Staged(d, k), hs) => doc'[d] = Staged(d, k)
          BY <5>2, MutateSteps, Zenon
        <5>. QED
          BY <3>2, <5>2, <5>3, Zenon
      <4>3. CASE StageWithCas(d)
        <5>1. ASSUME UNCHANGED <<doc, casOf>>, x \in casOf["client"]
              PROVE  doc'[x].stg # "other"
          <6>1. Cares(d)
            BY <1>5, <4>3, Zenon DEF StageWithCas, Cares
          <6>. QED
            BY <1>1, <3>2, <5>1, <6>1
        <5>2. want[d] \in Ours
          BY <4>3 DEF StageWithCas, Ours
        <5>. QED
          BY <3>2, <4>0, <4>2, <4>3, <5>1, <5>2, Zenon DEF StageWithCas
      <4>4. CASE StageInsert(d)
        <5>1. want[d] \notin {"replace", "remove"} /\ "insert" \in Ours
          BY <4>4 DEF StageInsert, Ours
        <5>2. doc[d].stg \in {"none", "orphan", "insert"} /\ UNCHANGED doc =>
                doc'[x].stg # "other"
          BY <3>2
        <5>. QED
          BY <4>0, <4>1, <4>2, <4>4, <5>1, <5>2, Zenon DEF StageInsert, StagedUnchanged
      <4>5. CASE RemoveStagedInsert(d)
        <5>1. want[d] \notin {"replace", "remove"}
          BY <4>5 DEF RemoveStagedInsert
        <5>. QED
          BY <4>0, <4>1, <4>5, <5>1, Zenon DEF RemoveStagedInsert, StagedUnchanged
      <4>. QED
        BY <2>2, <4>3, <4>4, <4>5
    <3>3. CASE x # d
      <4>1. x \in casOf["client"]
        <5>1. \/ \E v, hs : Mutate(d, v, hs)
              \/ Learn("client", d)
              \/ UNCHANGED casOf
          BY <2>2, Zenon DEF StageWithCas, StageInsert, RemoveStagedInsert
        <5>. QED
          BY <3>0, <3>3, <5>1 DEF Mutate, Learn, IInv, TypeOK, StoreTypeOK
      <4>2. x \in Docs \ {d}
        BY <3>3
      <4>3. Cares(x)
        BY ZenonT(30), <1>5, <2>0, <3>1, <4>2 DEF Cares
      <4>. QED
        BY Zenon, <1>1, <3>1, <4>1, <4>2, <4>3
    <3>. QED
      BY <3>2, <3>3
  <2>. QED
    BY <1>5, <2>1, <2>2, Zenon DEF Operate
<1>6. CASE Commit \/ LogicFails \/ StartItem \/ EndAttempt \/ Crash
  <2>1. UNCHANGED <<doc, casOf, kind>>
    BY <1>6, Zenon DEF Commit, LogicFails, StartItem, Crash, EndAttempt, AtrCommit,
       ResolveAmbiguity, CommitDocsEnd, AtrComplete, HandleError, AtrAbort,
       RollbackDocsEnd, AtrRollbackComplete, RolledBack, EndFrame, ItemFrame, OpsDone,
       ServerUnchanged, DocsUnchanged, storeVars
  <2>2. phase' # "logic"
    <3>1. CASE Commit \/ LogicFails \/ Crash
      BY <3>1 DEF Commit, LogicFails, Crash, Handle
    <3>2. CASE StartItem
      BY <3>2, Zenon DEF StartItem, ItemFrame
    <3>3. CASE EndAttempt
      BY <3>3, Zenon DEF EndAttempt, AtrCommit, ResolveAmbiguity, CommitDocsEnd,
         AtrComplete, HandleError, AtrAbort, RollbackDocsEnd, AtrRollbackComplete,
         RolledBack, Handle, AtrCommitFails, RollbackThrows, Finish
    <3>. QED
      BY <1>6, <3>1, <3>2, <3>3
  <2>. QED
    BY <1>1, <2>1, <2>2, Zenon DEF Cares
<1>7. ASSUME NEW d \in Docs, Unstage(d)
      PROVE  doc'[x].stg # "other"
  <2>1. UNCHANGED kind /\ phase' # "logic"
    BY <1>7, Zenon DEF Unstage, CommitDoc, RemoveDoc, RollbackDoc, ItemFrame, OpsDone
  <2>2. CASE DocsUnchanged
    BY <1>1, <2>1, <2>2, Zenon DEF Cares, DocsUnchanged
  <2>3. ASSUME NEW v, NEW hs, v.stg = "none", Mutate(d, v, hs)
        PROVE  doc'[x].stg # "other"
    <3>1. CASE x = d
      BY <1>0, <2>3, <3>1, MutateSteps DEF Good
    <3>2. CASE x # d
      <4>1. doc'[x] = doc[x] /\ x \in casOf["client"]
        BY <1>0, <2>3, <3>2, MutateSteps DEF Good, Holders
      <4>. QED
        BY <1>1, <2>1, <4>1, Zenon DEF Cares
    <3>. QED
      BY <3>1, <3>2
  <2>4. /\ Unlinked(d).stg = "none" /\ Removed.stg = "none" /\ CommitWrite(d).stg = "none"
    BY <1>0, Values, Zenon DEF Good
  <2>. QED
    BY <1>7, <2>2, <2>3, <2>4, Zenon DEF Unstage, CommitDoc, RemoveDoc, RollbackDoc
<1>. QED
  BY <1>2, <1>3, <1>4, <1>5, <1>6, <1>7, Zenon DEF Next, ClientNext
\* Until it unstages, or gives up, the attempt has published nothing, and its
\* queue is as it was built.
Deciding == phase \in {"logic", "atr_commit", "resolve"}

Fresh ==
  /\ Deciding => \A d \in Docs : /\ item[d] = "queued" /\ ~mode[d].cas0
                                 /\ fate[d] # "published"
  /\ phase = "resolve" => committed

LEMMA NextFresh ==
  ASSUME IInv, Undisturbed, Fresh, [Next]_vars
  PROVE  Fresh'
<1>1. ASSUME phase' = "resolve"
      PROVE  committed'
  <2>1. committed => committed'
    BY EntrySteps, Zenon DEF IInv, EntryStep
  <2>2. CASE phase = "resolve"
    BY <2>1, <2>2 DEF Fresh
  <2>3. CASE AtrCommit
    <3>1. atr.p /\ phase = "atr_commit"
      BY <1>1, <2>3 DEF AtrCommit, AtrCommitFails, Handle
    <3>2. atr.status # "ABORTED"
      BY <3>1 DEF IInv, DoomedRight, Doomed, RollbackPhases
    <3>. QED
      BY <2>1, <3>1, <3>2 DEF IInv, Resolving, CommittedRight
  <2>4. phase = "resolve" \/ AtrCommit
    <3>1. UNCHANGED vars \/ UNCHANGED clientVars => UNCHANGED phase
      BY DEF vars, clientVars
    <3>2. /\ \A d \in Docs, t \in Ours : Call(d, t) => UNCHANGED phase
          /\ \A d \in Docs : Operate(d) \/ Unstage(d) => UNCHANGED phase
      BY Zenon DEF Call, Operate, SelectAtr, RetryAtrPending, SetAtrPending,
         StageWithCas, StageInsert, RemoveStagedInsert, StageFrame,
         Unstage, CommitDoc, RemoveDoc, RollbackDoc, ItemFrame
    <3>3. ~Commit /\ ~LogicFails /\ ~Crash /\ (StartItem => UNCHANGED phase)
      BY <1>1 DEF Commit, LogicFails, Crash, Handle, StartItem, ItemFrame
    <3>4. EndAttempt => AtrCommit \/ ResolveAmbiguity
      BY <1>1 DEF EndAttempt, CommitDocsEnd, AtrComplete, HandleError, AtrAbort,
         RollbackDocsEnd, AtrRollbackComplete, RolledBack, Handle, RollbackThrows, Finish
    <3>5. ResolveAmbiguity => phase = "resolve"
      BY DEF ResolveAmbiguity
    <3>. QED
      BY <1>1, <3>1, <3>2, <3>3, <3>4, <3>5 DEF Next, ClientNext
  <2>. QED
    BY <2>2, <2>3, <2>4
<1>2. ASSUME Deciding'
      PROVE  Deciding /\ UNCHANGED <<item, mode, fate>>
  <2>1. CASE UNCHANGED vars
    BY <1>2, <2>1 DEF vars, storeVars, clientVars, Deciding
  <2>2. CASE StoreNext(Stopped) /\ UNCHANGED clientVars
    <3>1. UNCHANGED fate
      BY <2>2, Zenon DEF StoreNext, LateArrives, Tick, OtherChecks, OtherStages,
         OtherEnds, DocsUnchanged
    <3>. QED
      BY <1>2, <2>2, <3>1 DEF clientVars, Deciding
  <2>3. ASSUME NEW c \in Cleaners, CleanerNext(c), UNCHANGED clientVars
        PROVE  FALSE
    <3>1. ~Stopped
      BY <1>2, <2>3 DEF Deciding, Stopped, clientVars
    <3>. QED
      BY <2>3, <3>1, NoCleaning
  <2>4. ASSUME NEW d \in Docs,
               (phase = "logic" /\ Operate(d)) \/ \E t \in Ours : Call(d, t)
        PROVE  phase = "logic" /\ UNCHANGED <<item, mode, fate>>
    BY <2>4, Zenon DEF Call, Operate, SelectAtr, RetryAtrPending, SetAtrPending,
       StageWithCas, StageInsert, RemoveStagedInsert, StageFrame, ServerUnchanged,
       DocsUnchanged
  <2>5. CASE Commit \/ LogicFails
    BY <2>5, Zenon DEF Commit, LogicFails, EndFrame, ServerUnchanged, DocsUnchanged,
       Deciding
  <2>6. ASSUME StartItem \/ \E d \in Docs : Unstage(d)
        PROVE  FALSE
    <3>1. phase \in {"commit_docs", "rollback_docs"} /\ UNCHANGED phase
      BY <2>6, Zenon DEF StartItem, Unstage, CommitDoc, RemoveDoc, RollbackDoc, ItemFrame
    <3>. QED
      BY <1>2, <3>1 DEF Deciding
  <2>7. CASE AtrCommit \/ ResolveAmbiguity
    BY <2>7, Zenon DEF AtrCommit, ResolveAmbiguity, EndFrame, ServerUnchanged,
       DocsUnchanged, Deciding
  <2>8. EndAttempt => AtrCommit \/ ResolveAmbiguity
    <3>1. Deciding' => phase' \notin {"handle_error", "commit_docs", "atr_complete",
                          "finished", "rolled_back", "atr_abort", "rollback_docs",
                          "rollback_complete"}
      BY DEF Deciding
    <3>. QED
      BY <1>2, <3>1 DEF EndAttempt, CommitDocsEnd, AtrComplete, HandleError, AtrAbort,
         RollbackDocsEnd, AtrRollbackComplete, RolledBack, Handle, RollbackThrows, Finish
  <2>9. ~Crash
    BY <1>2 DEF Crash, Deciding
  <2>10. phase = "logic" => Deciding
    BY DEF Deciding
  <2>. QED
    BY <2>1, <2>2, <2>3, <2>4, <2>5, <2>6, <2>7, <2>8, <2>9, <2>10, Zenon
       DEF Next, ClientNext
<1>. QED
  BY <1>1, <1>2, Zenon DEF Fresh

\* What protects the staged documents from the other transactions, until the
\* attempt unstages them.
Going == phase \in {"atr_commit", "resolve"} \/ (phase = "logic" /\ err = NoError)

LEMMA CommittedStays ==
  ASSUME IInv, PInv, committed, NEW d \in Listed, fate[d] # "published"
  PROVE  doc[d].stg = kind[d] /\ kind[d] \in Ours /\ d \notin casOf["other"]
<1>1. d \in Docs /\ kind[d] # "none"
  BY DEF Listed
<1>2. doc[d].stg \in Ours /\ atr.status = "COMMITTED"
  BY <1>1 DEF PInv, CommittedIsVisible
<1>3. Winning /\ Protected /\ phase # "logic"
  BY <1>2 DEF Winning, Protected, IInv, Undecided
<1>. QED
  BY <1>1, <1>2, <1>3 DEF PInv, Intact, Strays

LEMMA ListedStays ==
  ASSUME Sound, IInv, PInv, Guarded, Fresh, Going, NEW d \in Listed
  PROVE  doc[d].stg = kind[d] /\ d \notin casOf["other"]
<1>1. CASE phase = "logic"
  BY <1>1, StagedStays DEF Going
<1>2. CASE committed /\ phase # "logic"
  <2>1. fate[d] # "published"
    BY <1>2 DEF Fresh, Deciding, Going, Listed
  <2>. QED
    BY <1>2, <2>1, CommittedStays
<1>3. CASE ~committed /\ phase # "logic"
  <2>1. phase = "atr_commit"
    BY <1>3 DEF Fresh, Going
  <2>2. Open /\ Winning /\ Protected
    BY <1>3, <2>1 DEF Open, Winning, Protected, Guarded, EntryFirst
  <2>3. doc[d].stg = kind[d] /\ kind[d] \in Ours /\ d \in Docs
    BY <2>2 DEF PInv, Intact, Listed, IInv, TypeOK, ClientTypeOK, Kinds
  <2>. QED
    BY <2>2, <2>3 DEF PInv, Intact
<1>. QED
  BY <1>1, <1>2, <1>3

\* The other transactions leave alone what they have not read.
LEMMA OthersLeave ==
  ASSUME TypeOK, NEW d \in Docs, doc[d].stg # "other", d \notin casOf["other"],
         StoreNext(Stopped)
  PROVE  doc'[d] = doc[d] /\ (d \in casOf["client"] => d \in casOf'["client"])
<1>1. "client" \in Holders /\ "other" \in Holders /\ "client" # "other"
  BY DEF Holders
<1>2. ASSUME NEW x \in Docs, x # d, NEW v, NEW hs, Mutate(x, v, hs)
      PROVE  doc'[d] = doc[d] /\ (d \in casOf["client"] => d \in casOf'["client"])
  BY <1>1, <1>2, MutateSteps
<1>3. ASSUME NEW x \in Docs, OtherStages(x) \/ OtherEnds(x)
      PROVE  doc'[d] = doc[d] /\ (d \in casOf["client"] => d \in casOf'["client"])
  <2>1. x # d
    BY <1>3, Zenon DEF OtherStages, OtherEnds, Current
  <2>. QED
    BY <1>2, <1>3, <2>1, Zenon DEF OtherStages, OtherEnds
<1>4. ASSUME NEW x \in Docs, OtherChecks(x)
      PROVE  doc'[d] = doc[d] /\ (d \in casOf["client"] => d \in casOf'["client"])
  BY <1>1, <1>4 DEF OtherChecks, Learn, TypeOK, StoreTypeOK
<1>5. CASE LateArrives \/ Tick(Stopped)
  BY <1>5, Zenon DEF LateArrives, Tick, DocsUnchanged
<1>. QED
  BY <1>3, <1>4, <1>5, Zenon DEF StoreNext
\* The client knows the CAS of what it has staged; an insert whose answer was
\* ambiguous is repeated until it does.
KnowsStaged ==
  Going => \A d \in Listed : \/ d \in casOf["client"]
                             \/ phase = "logic" /\ op[d] = "stage_retry"

LEMMA StagingKnows ==
  ASSUME Good, Kept, phase = "logic", NEW d \in Docs,
         StageWithCas(d) \/ StageInsert(d) \/ RemoveStagedInsert(d)
  PROVE  \/ err' # NoError
         \/ d \in casOf'["client"]
         \/ kind'[d] = "none"
         \/ op'[d] = "stage_retry"
<1>. USE DEF Good
<1>1. "client" \in Holders /\ "client" \in {"client"}
  BY DEF Holders
<1>2. \A e \in OpErrors : OpFails(d, e) => err' # NoError
  BY FailedOp
<1>3. Retry \in OpErrors /\ Fail \in OpErrors /\ ExpiredError \in OpErrors
      /\ NoRollback("EXPIRED") \in OpErrors
  BY DEF OpErrors
<1>4. ASSUME NEW v, Mutate(d, v, {"client"})
      PROVE  d \in casOf'["client"]
  BY <1>1, <1>4, MutateSteps
<1>5. ASSUME Learn("client", d)
      PROVE  d \in casOf'["client"]
  BY <1>1, <1>5 DEF Learn, TypeOK, StoreTypeOK
<1>6. CASE StageWithCas(d)
  BY <1>2, <1>3, <1>4, <1>6, Zenon DEF StageWithCas
<1>7. CASE RemoveStagedInsert(d)
  <2>1. ASSUME OpStaged(d, "none", FALSE)
        PROVE  kind'[d] = "none"
    BY <2>1 DEF OpStaged, TypeOK, ClientTypeOK
  <2>. QED
    BY <1>2, <1>3, <1>7, <2>1, Zenon DEF RemoveStagedInsert
<1>8. CASE StageInsert(d)
  <2>1. op[d] # "idle" /\ want[d] = "insert"
    BY <1>8, Zenon DEF StageInsert
  <2>2. doc[d].stg # "insert" => kind[d] = "none"
    BY <2>1, Zenon DEF PInv, Wanting, Kept, Listed
  <2>3. ASSUME OpMoves(d, "stage_retry")
        PROVE  op'[d] = "stage_retry"
    BY <2>3 DEF OpMoves, TypeOK, ClientTypeOK
  <2>4. \/ \E e \in OpErrors : OpFails(d, e)
        \/ \E v : Mutate(d, v, {"client"})
        \/ Learn("client", d)
        \/ doc[d].stg # "insert" /\ kind' = kind
        \/ OpMoves(d, "stage_retry")
    <3>1. CASE TimedOut
      BY <1>3, <1>8, <3>1, Zenon DEF StageInsert
    <3>2. CASE ~TimedOut
      <4>1. \A e : OpFails(d, IF overtime THEN ExpiredError ELSE e) =>
              OpFails(d, ExpiredError) \/ OpFails(d, e)
        OBVIOUS
      <4>. QED
        BY <1>3, <1>8, <3>2, <4>1, Zenon DEF StageInsert, StagedUnchanged
    <3>. QED
      BY Zenon, <3>1, <3>2
  <2>. QED
    BY <1>2, <1>4, <1>5, <2>2, <2>3, <2>4, Zenon
<1>. QED
  BY Zenon, <1>6, <1>7, <1>8

LEMMA NextKnowsStaged ==
  ASSUME Sound, IInv, PInv, Guarded, Undisturbed, Kept, Fresh, KnowsStaged, [Next]_vars
  PROVE  KnowsStaged'
<1>. SUFFICES ASSUME Going', NEW x \in Docs, kind'[x] # "none"
              PROVE  \/ x \in casOf'["client"]
                     \/ phase' = "logic" /\ op'[x] = "stage_retry"
  BY DEF KnowsStaged, Listed
<1>0. Good
  BY DEF Good, IInv, Core
<1>1. ASSUME Going, kind'[x] = kind[x], x \in casOf["client"] => x \in casOf'["client"],
             phase' = phase, op'[x] = op[x] \/ (phase = "logic" /\ op[x] # "stage_retry")
      PROVE  \/ x \in casOf'["client"]
             \/ phase' = "logic" /\ op'[x] = "stage_retry"
  BY <1>1 DEF KnowsStaged, Listed
<1>2. CASE UNCHANGED vars
  BY <1>1, <1>2, Zenon DEF vars, storeVars, clientVars, Going
<1>3. CASE StoreNext(Stopped) /\ UNCHANGED clientVars
  <2>1. UNCHANGED <<phase, err, kind, op>> /\ Going
    BY <1>3 DEF clientVars, Going
  <2>2. doc[x].stg = kind[x] /\ x \notin casOf["other"]
    BY <2>1, ListedStays DEF Listed
  <2>3. doc[x].stg # "other"
    BY <2>2 DEF IInv, TypeOK, ClientTypeOK, Kinds, Ours
  <2>4. x \in casOf["client"] => x \in casOf'["client"]
    BY <1>3, <2>2, <2>3, OthersLeave DEF IInv
  <2>. QED
    BY Zenon, <1>1, <2>1, <2>4
<1>4. ASSUME NEW c \in Cleaners, CleanerNext(c), UNCHANGED clientVars
      PROVE  FALSE
  <2>1. ~Stopped
    BY <1>4 DEF Going, Stopped, clientVars
  <2>. QED
    BY <1>4, <2>1, NoCleaning
<1>5. ASSUME NEW d \in Docs, NEW t \in Ours, Call(d, t)
      PROVE  \/ x \in casOf'["client"]
             \/ phase' = "logic" /\ op'[x] = "stage_retry"
  <2>1. Going /\ phase = "logic" /\ op[d] = "idle" /\ UNCHANGED <<phase, kind>>
    BY <1>5, Zenon DEF Call, Going, StagedUnchanged
  <2>2. Learn("client", d) \/ UNCHANGED casOf
    BY <1>5, Zenon DEF Call
  <2>3. x \in casOf["client"] => x \in casOf'["client"]
    BY <2>2 DEF Learn, IInv, TypeOK, StoreTypeOK
  <2>4. x # d => op'[x] = op[x]
    BY <1>5, Zenon DEF Call, OpFails, OpMoves, IInv, TypeOK, ClientTypeOK
  <2>. QED
    BY <1>1, <2>1, <2>3, <2>4, Zenon
<1>6. ASSUME NEW d \in Docs, phase = "logic", Operate(d)
      PROVE  \/ x \in casOf'["client"]
             \/ phase' = "logic" /\ op'[x] = "stage_retry"
  <2>0. UNCHANGED phase /\ err' = NoError
    <3>1. UNCHANGED phase
      BY <1>6, Zenon DEF Operate, SelectAtr, RetryAtrPending, SetAtrPending,
         StageWithCas, StageInsert, RemoveStagedInsert, StageFrame
    <3>. QED
      BY <1>6, <3>1 DEF Going
  <2>1. CASE SelectAtr(d) \/ RetryAtrPending(d) \/ SetAtrPending(d)
    <3>1. UNCHANGED <<casOf, kind>> /\ op[d] # "stage_retry"
      BY <2>1, Zenon DEF SelectAtr, RetryAtrPending, SetAtrPending,
         ServerUnchanged, DocsUnchanged, StagedUnchanged
    <3>2. OpGoes(d)
      <4>1. \A e \in OpErrors : OpFails(d, e) => OpGoes(d)
        BY <1>0, <1>6, FailedOp DEF OpGoes
      <4>2. \A pl \in Places : OpMoves(d, pl) => OpGoes(d)
        BY Zenon DEF OpMoves, OpGoes
      <4>3. {"stage", "atr", "atr_retry", "hung"} \subseteq Places
        BY DEF Places
      <4>4. {Retry, Fail, ExpiredError, NoRollback("EXPIRED")} \subseteq OpErrors
        BY DEF OpErrors
      <4>. QED
        BY <2>1, <4>1, <4>2, <4>3, <4>4, Zenon DEF SelectAtr, RetryAtrPending, SetAtrPending,
           PendingFails
    <3>3. err = NoError /\ (x # d => op'[x] = op[x])
      BY <2>0, <3>2 DEF OpGoes, IInv, TypeOK, ClientTypeOK
    <3>. QED
      BY <1>1, <1>6, <2>0, <3>1, <3>3, Zenon DEF Going
  <2>2. CASE StageWithCas(d) \/ StageInsert(d) \/ RemoveStagedInsert(d)
    <3>1. /\ Staging(d)
          /\ \A y \in Docs \ {d} : op'[y] = op[y] /\ kind'[y] = kind[y]
      BY ZenonT(30), <1>0, <1>6, <2>2, StagingSteps
    <3>2. CASE x = d
      BY <1>0, <1>6, <2>0, <2>2, <3>2, StagingKnows
    <3>3. CASE x # d
      <4>1. x \in casOf["client"] => x \in casOf'["client"]
        <5>1. \/ \E v, hs : Mutate(d, v, hs)
              \/ Learn("client", d)
              \/ UNCHANGED casOf
          BY <2>2, Zenon DEF StageWithCas, StageInsert, RemoveStagedInsert
        <5>2. "client" \in Holders
          BY DEF Holders
        <5>. QED
          BY <3>3, <5>1, <5>2 DEF Mutate, Learn, IInv, TypeOK, StoreTypeOK
      <4>2. Going
        BY <1>6, <2>0, <3>1 DEF Staging, Going
      <4>. QED
        BY ZenonT(30), <1>1, <2>0, <3>1, <3>3, <4>1, <4>2
    <3>. QED
      BY <3>2, <3>3
  <2>. QED
    BY <1>6, <2>1, <2>2, Zenon DEF Operate
<1>7. CASE Commit \/ LogicFails
  <2>1. /\ phase = "logic" /\ err = NoError /\ AllIdle
        /\ UNCHANGED <<kind, casOf>>
    BY <1>7 DEF Commit, LogicFails, Handle, Going, EndFrame, OpsDone, ServerUnchanged,
       DocsUnchanged
  <2>. QED
    BY <2>1, Zenon DEF KnowsStaged, Going, AllIdle, Listed
<1>8. CASE AtrCommit \/ ResolveAmbiguity
  <2>1. phase \in {"atr_commit", "resolve"} /\ UNCHANGED <<kind, casOf>>
    BY <1>8, Zenon DEF AtrCommit, ResolveAmbiguity, EndFrame, OpsDone, ServerUnchanged,
       DocsUnchanged
  <2>. QED
    BY <2>1 DEF KnowsStaged, Going, Listed
<1>9. EndAttempt => AtrCommit \/ ResolveAmbiguity
  BY Zenon DEF Going, EndAttempt, CommitDocsEnd, AtrComplete, HandleError, AtrAbort,
     RollbackDocsEnd, AtrRollbackComplete, RolledBack, Handle, RollbackThrows, Finish
<1>10. ~Crash
  BY DEF Crash, Going
<1>11. ASSUME StartItem \/ \E d \in Docs : Unstage(d)
       PROVE  FALSE
  <2>1. phase \in {"commit_docs", "rollback_docs"} /\ UNCHANGED phase
    BY <1>11, Zenon DEF StartItem, Unstage, CommitDoc, RemoveDoc, RollbackDoc, ItemFrame
  <2>. QED
    BY <2>1 DEF Going
<1>. QED
  BY <1>2, <1>3, <1>4, <1>5, <1>6, <1>7, <1>8, <1>9, <1>10, <1>11, Zenon
     DEF Next, ClientNext
\* A document that commit_doc has to write: its request still carries the CAS
\* of the staged mutation, or it has written the document before, and repeats
\* a request whose answer was ambiguous with a CAS that is no longer current.
InFlightRight(d) ==
  /\ ~mode[d].cas0
  /\ \/ fate[d] # "published" /\ d \in casOf["client"]
     \/ /\ fate[d] = "published" /\ item[d] # "queued"
        /\ item[d] = "flying" => mode[d].amb /\ d \notin casOf["client"]

CommitFlight ==
  phase = "commit_docs" => \A d \in Listed : kind[d] # "remove" => InFlightRight(d)

\* What commit_doc finds.
LEMMA CommitAnswers ==
  ASSUME IInv, PInv, PublishedLives, InsertIsNew, CommitFlight,
         phase = "commit_docs", NEW d \in InFlight, kind[d] # "remove"
  PROVE  /\ fate[d] # "published" =>
              /\ doc[d].stg = kind[d] /\ kind[d] \in Ours /\ d \in casOf["client"]
              /\ CommitAnswer(d) \in {"ok", "not_found"}
         /\ fate[d] = "published" =>
              /\ mode[d].amb /\ d \notin casOf["client"]
              /\ CommitAnswer(d) \in {"exists", "cas_mismatch"}
         /\ ~mode[d].cas0
<1>1. d \in Docs /\ d \in Listed /\ item[d] = "flying" /\ InFlightRight(d)
  BY DEF InFlight, Listed, CommitFlight
<1>2. committed
  BY DEF IInv, CommittedRight
<1>3. ASSUME fate[d] # "published"
      PROVE  /\ doc[d].stg = kind[d] /\ kind[d] \in Ours /\ d \in casOf["client"]
             /\ CommitAnswer(d) \in {"ok", "not_found"}
  <2>1. doc[d].stg = kind[d] /\ kind[d] \in Ours /\ d \in casOf["client"] /\ ~mode[d].cas0
    BY <1>1, <1>2, <1>3, CommittedStays DEF InFlightRight
  <2>2. kind[d] = "insert" => ~doc[d].live
    BY <1>1, <2>1 DEF InsertIsNew
  <2>3. CommitAnswer(d) \in {"ok", "not_found"}
    BY <2>1, <2>2 DEF CommitAnswer, Current
  <2>. QED
    BY <2>1, <2>3
<1>4. ASSUME fate[d] = "published"
      PROVE  /\ mode[d].amb /\ d \notin casOf["client"]
             /\ CommitAnswer(d) \in {"exists", "cas_mismatch"}
  <2>1. mode[d].amb /\ d \notin casOf["client"] /\ ~mode[d].cas0 /\ doc[d].live
    BY <1>1, <1>4 DEF InFlightRight, PublishedLives
  <2>2. CommitAnswer(d) \in {"exists", "cas_mismatch"}
    BY <2>1 DEF CommitAnswer, Current
  <2>. QED
    BY <2>1, <2>2
<1>. QED
  BY <1>1, <1>3, <1>4, Zenon DEF InFlightRight

LEMMA CommitDocFlight ==
  ASSUME IInv, PInv, PublishedLives, InsertIsNew, CommitFlight,
         NEW d \in Docs, CommitDoc(d)
  PROVE  InFlightRight(d)'
<1>1. /\ phase = "commit_docs" /\ d \in InFlight /\ kind[d] # "remove"
      /\ item[d] = "flying" /\ "client" \in Holders
  BY Zenon DEF CommitDoc, InFlight, Holders
<1>2. /\ ItemDone(d) => item'[d] = "done" /\ mode' = mode
      /\ ItemFails(d) => item'[d] = "failed" /\ mode' = mode
      /\ \A m : ItemAgain(d, m) => item' = item /\ mode'[d] = m
  BY DEF ItemDone, ItemFails, ItemAgain, IInv, TypeOK, ClientTypeOK
<1>3. /\ [mode[d] EXCEPT !.amb = TRUE].amb
      /\ [mode[d] EXCEPT !.amb = TRUE].cas0 = mode[d].cas0
  BY DEF IInv, TypeOK, ClientTypeOK
<1>4. \A o : /\ CommitDocFails(d, "not_found", o) => ItemFails(d)
             /\ CommitDocFails(d, "other", o) => ItemFails(d)
             /\ CommitDocFails(d, "ambiguous", o) =>
                  ItemFails(d) \/ ItemAgain(d, [mode[d] EXCEPT !.amb = TRUE])
             /\ mode[d].amb /\ CommitDocFails(d, "exists", o) => ItemFails(d)
             /\ mode[d].amb /\ CommitDocFails(d, "cas_mismatch", o) => ItemFails(d)
  BY DEF CommitDocFails
<1>5. CASE fate[d] # "published"
  <2>1. /\ doc[d].stg = kind[d] /\ kind[d] \in Ours /\ d \in casOf["client"]
        /\ CommitAnswer(d) \in {"ok", "not_found"} /\ ~mode[d].cas0
    BY Zenon, <1>1, <1>5, CommitAnswers
  <2>2. ASSUME Decide(d, CommitWrite(d), "published")
        PROVE  fate'[d] = "published"
    <3>1. CommitWrite(d).stg \notin Ours
      BY Values, ZenonT(30) DEF Ours, IInv
    <3>. QED
      BY <2>1, <2>2, <3>1, Zenon DEF Decide, IInv, TypeOK, StoreTypeOK
  <2>3. ASSUME Mutate(d, CommitWrite(d), {})
        PROVE  d \notin casOf'["client"]
    BY <1>1, <2>3 DEF Mutate
  <2>4. ASSUME DocsUnchanged, mode' = mode \/ mode'[d] = [mode[d] EXCEPT !.amb = TRUE]
        PROVE  InFlightRight(d)'
    BY <1>3, <1>5, <2>1, <2>4, Zenon DEF InFlightRight, DocsUnchanged
  <2>5. CASE Decide(d, CommitWrite(d), "published") /\ ItemDone(d)
    BY <1>2, <2>1, <2>2, <2>5, Zenon DEF InFlightRight
  <2>6. CASE /\ Decide(d, CommitWrite(d), "published") /\ Mutate(d, CommitWrite(d), {})
             /\ \E o : CommitDocFails(d, "ambiguous", o)
    <3>1. CASE ItemFails(d)
      BY <1>2, <2>1, <2>2, <2>6, <3>1, Zenon DEF InFlightRight
    <3>2. CASE ItemAgain(d, [mode[d] EXCEPT !.amb = TRUE])
      BY <1>1, <1>2, <1>3, <2>1, <2>2, <2>3, <2>6, <3>2, Zenon DEF InFlightRight
    <3>. QED
      BY <1>4, <2>6, <3>1, <3>2, Zenon
  <2>7. CASE /\ DocsUnchanged
             /\ \E o : \/ CommitDocFails(d, "not_found", o)
                       \/ \E ec \in {"ambiguous", "other"} : CommitDocFails(d, ec, o)
    <3>1. ItemFails(d) \/ ItemAgain(d, [mode[d] EXCEPT !.amb = TRUE])
      BY <1>4, <2>7, Zenon
    <3>. QED
      BY <1>2, <2>4, <2>7, <3>1, Zenon
  <2>8. CommitAnswer(d) # "ok" => CommitAnswer(d) = "not_found"
    BY Zenon, <2>1
  <2>. QED
    BY <2>5, <2>6, <2>7, <2>8, Zenon DEF CommitDoc
<1>6. CASE fate[d] = "published"
  <2>1. /\ mode[d].amb /\ d \notin casOf["client"] /\ ~mode[d].cas0
        /\ CommitAnswer(d) \in {"exists", "cas_mismatch"}
    BY Zenon, <1>1, <1>6, CommitAnswers
  <2>2. /\ DocsUnchanged
        /\ \E o : \/ CommitDocFails(d, CommitAnswer(d), o)
                  \/ \E ec \in {"ambiguous", "other"} : CommitDocFails(d, ec, o)
    <3>1. CommitAnswer(d) # "ok"
      BY <2>1
    <3>. QED
      BY <3>1, Zenon DEF CommitDoc
  <2>3. ItemFails(d) \/ ItemAgain(d, [mode[d] EXCEPT !.amb = TRUE])
    BY <1>4, <2>1, <2>2, Zenon
  <2>. QED
    BY <1>1, <1>2, <1>3, <1>6, <2>1, <2>2, <2>3, Zenon DEF InFlightRight, DocsUnchanged
<1>. QED
  BY Zenon, <1>5, <1>6

LEMMA NextCommitFlight ==
  ASSUME Sound, IInv, PInv, Guarded, Undisturbed, Fresh, KnowsStaged,
         PublishedLives, InsertIsNew, CommitFlight, [Next]_vars
  PROVE  CommitFlight'
<1>. SUFFICES ASSUME phase' = "commit_docs", NEW x \in Docs,
                     kind'[x] # "none", kind'[x] # "remove"
              PROVE  InFlightRight(x)'
  BY DEF CommitFlight, Listed
<1>1. kind' = kind /\ x \in Listed
  <2>1. kind' = kind
    BY ListSteps
  <2>. QED
    BY <2>1 DEF Listed
<1>2. ASSUME phase = "commit_docs"
      PROVE  InFlightRight(x) /\ committed
  BY <1>1, <1>2, Zenon DEF CommitFlight, IInv, CommittedRight
<1>3. ASSUME phase = "commit_docs", UNCHANGED <<fate, item, mode, casOf>>
      PROVE  InFlightRight(x)'
  BY <1>2, <1>3, Zenon DEF InFlightRight
<1>4. CASE UNCHANGED vars
  BY <1>3, <1>4, ZenonT(30) DEF vars, storeVars, clientVars
<1>5. CASE StoreNext(Stopped) /\ UNCHANGED clientVars
  <2>1. phase = "commit_docs" /\ UNCHANGED <<item, mode>> /\ TypeOK
    BY <1>5 DEF clientVars, IInv
  <2>2. UNCHANGED fate
    BY <1>5, Zenon DEF StoreNext, LateArrives, Tick, OtherChecks, OtherStages,
       OtherEnds, DocsUnchanged
  <2>3. CASE fate[x] # "published"
    <3>1. doc[x].stg # "other" /\ x \notin casOf["other"]
      BY <1>1, <1>2, <2>1, <2>3, CommittedStays, Zenon DEF Ours
    <3>2. x \in casOf["client"] => x \in casOf'["client"]
      BY Zenon, <1>5, <2>1, <3>1, OthersLeave
    <3>. QED
      BY <1>2, <2>1, <2>2, <2>3, <3>2, Zenon DEF InFlightRight
  <2>4. CASE fate[x] = "published"
    <3>1. x \in casOf'["client"] => x \in casOf["client"]
      <4>1. "client" \in {"client", "other"}
        OBVIOUS
      <4>. QED
        BY <1>5, <2>1, <4>1, SomeoneElse, Zenon
    <3>. QED
      BY <1>2, <2>1, <2>2, <2>4, <3>1, Zenon DEF InFlightRight
  <2>. QED
    BY <2>3, <2>4
<1>6. ASSUME NEW c \in Cleaners, CleanerNext(c), UNCHANGED clientVars
      PROVE  FALSE
  <2>1. ~Stopped
    BY <1>6 DEF Stopped, clientVars
  <2>. QED
    BY <1>6, <2>1, NoCleaning
<1>7. CASE StartItem
  <2>1. phase = "commit_docs" /\ UNCHANGED <<fate, mode, casOf>>
    BY <1>7, Zenon DEF StartItem, ItemFrame, DocsUnchanged
  <2>2. item'[x] = item[x] \/ item[x] = "queued"
    BY <1>7 DEF StartItem, Queued, IInv, TypeOK, ClientTypeOK
  <2>3. item'[x] = item[x] \/ item'[x] = "flying"
    BY <1>7 DEF StartItem, Queued, IInv, TypeOK, ClientTypeOK
  <2>. QED
    BY <1>2, <2>1, <2>2, <2>3 DEF InFlightRight
<1>8. ASSUME NEW d \in Docs, Unstage(d)
      PROVE  InFlightRight(x)'
  <2>1. phase = "commit_docs"
    BY <1>8, Zenon DEF Unstage, CommitDoc, RemoveDoc, RollbackDoc, ItemFrame
  <2>2. CommitDoc(d) \/ RemoveDoc(d)
    BY <1>8, <2>1, Zenon DEF Unstage, RollbackDoc
  <2>3. CASE x = d
    <3>1. CommitDoc(d)
      BY <1>1, <2>2, <2>3, Zenon DEF RemoveDoc
    <3>. QED
      BY <2>3, <3>1, CommitDocFlight
  <2>4. CASE x # d
    <3>1. "client" \in Holders
      BY DEF Holders
    <3>2. \/ DocsUnchanged
          \/ \E v, hs : Mutate(d, v, hs) /\ Decide(d, v, "published")
      BY <2>2, Zenon DEF CommitDoc, RemoveDoc
    <3>3. fate'[x] = fate[x] /\ (x \in casOf'["client"] <=> x \in casOf["client"])
      BY <2>4, <3>1, <3>2 DEF DocsUnchanged, Mutate, Decide, IInv, TypeOK, StoreTypeOK
    <3>4. ItemDone(d) \/ ItemFails(d) \/ \E m : ItemAgain(d, m)
      <4>1. \A ec, o : CommitDocFails(d, ec, o) => ItemFails(d) \/ \E m : ItemAgain(d, m)
        BY DEF CommitDocFails
      <4>2. CASE CommitDoc(d)
        BY <4>1, <4>2, Zenon DEF CommitDoc
      <4>3. CASE RemoveDoc(d)
        BY <4>3, Zenon DEF RemoveDoc
      <4>. QED
        BY <2>2, <4>2, <4>3
    <3>5. item'[x] = item[x] /\ mode'[x] = mode[x]
      BY <2>4, <3>4 DEF ItemDone, ItemFails, ItemAgain, IInv, TypeOK, ClientTypeOK
    <3>. QED
      BY <1>2, <2>1, <3>3, <3>5 DEF InFlightRight
  <2>. QED
    BY <2>3, <2>4
<1>9. CASE AtrCommit \/ ResolveAmbiguity
  <2>1. phase \in {"atr_commit", "resolve"} /\ UNCHANGED <<casOf, fate, mode>>
    BY <1>9, Zenon DEF AtrCommit, ResolveAmbiguity, EndFrame, ServerUnchanged,
       DocsUnchanged
  <2>. QED
    BY <1>1, <2>1, Zenon DEF KnowsStaged, Going, Fresh, Deciding, InFlightRight
<1>10. EndAttempt => AtrCommit \/ ResolveAmbiguity
  BY DEF EndAttempt, CommitDocsEnd, AtrComplete, HandleError, AtrAbort,
     RollbackDocsEnd, AtrRollbackComplete, RolledBack, Handle, RollbackThrows, Finish
<1>11. ~Crash /\ ~Commit /\ ~LogicFails
  BY DEF Crash, Commit, LogicFails, Handle
<1>12. /\ \A d \in Docs, t \in Ours : ~Call(d, t)
       /\ \A d \in Docs : ~(phase = "logic" /\ Operate(d))
  <2>1. "logic" # "commit_docs"
    OBVIOUS
  <2>. QED
    BY <2>1, Zenon DEF Call, Operate, SelectAtr, RetryAtrPending, SetAtrPending,
       StageWithCas, StageInsert, RemoveStagedInsert, StageFrame
<1>. QED
  BY <1>4, <1>5, <1>6, <1>7, <1>8, <1>9, <1>10, <1>11, <1>12, Zenon DEF Next, ClientNext

\* What a step may do to a document that does not carry the attempt's mutation.
Harmless(d) ==
  /\ \/ doc'[d].live = doc[d].live /\ doc'[d].body = doc[d].body
     \/ doc[d].stg = "other" /\ doc'[d].body = "other"
  /\ doc[d].stg = "other" => UNCHANGED <<clientVars, cleanupVars>>

\* What another transaction leaves when it ends.
LEMMA EndValues ==
  ASSUME TypeOK, NEW d \in Docs,
         NEW v \in {[live |-> TRUE, body |-> "other", stg |-> "none"], Unlinked(d),
                    Staged(d, "orphan")}
  PROVE  v.body = "other" \/ (v.live = doc[d].live /\ v.body = doc[d].body)
<1>1. CASE v = Unlinked(d)
  BY <1>1, Values, Zenon
<1>2. CASE v = [live |-> TRUE, body |-> "other", stg |-> "none"]
  BY <1>2
<1>3. CASE v = Staged(d, "orphan")
  <2>1. "orphan" \in Stages
    BY DEF Stages, Others
  <2>. QED
    BY <1>3, <2>1, Values, Zenon
<1>. QED
  BY <1>1, <1>2, <1>3, Zenon

LEMMA StepUnharmed ==
  ASSUME IInv, PInv, Kept, ReadRight, PublishedLives, InsertIsNew, NotBlocked,
         CommitFlight, [Next]_vars,
         NEW d \in Docs, doc[d].stg \notin Ours, doc'[d] # doc[d], ~RepeatsRemoval(d)
  PROVE  Harmless(d)
<1>0. TypeOK /\ "none" \notin Ours /\ "other" \notin Ours
  BY DEF IInv, Ours
<1>1. ASSUME NEW x \in Docs, NEW v, NEW hs, Mutate(x, v, hs)
      PROVE  x = d /\ doc'[d] = v
  BY Zenon, <1>0, <1>1, MutateSteps
<1>2. ASSUME NEW x \in Docs, NEW v, NEW hs, Mutate(x, v, hs),
             v.live = doc[x].live, v.body = doc[x].body,
             doc[x].stg = "other" => UNCHANGED <<clientVars, cleanupVars>>
      PROVE  Harmless(d)
  BY <1>1, <1>2, Zenon DEF Harmless
<1>3. ~UNCHANGED doc
  OBVIOUS
<1>4. ~UNCHANGED vars
  BY <1>3 DEF vars, storeVars
<1>5. CASE StoreNext(Stopped) /\ UNCHANGED <<clientVars, cleanupVars>>
  <2>1. ASSUME NEW x \in Docs, OtherStages(x)
        PROVE  Harmless(d)
    <3>1. LET v == Staged(x, "other")
          IN  v.live = doc[x].live /\ v.body = doc[x].body
      BY <1>0, Values, Zenon DEF Stages, Others
    <3>. QED
      BY <1>2, <1>5, <2>1, <3>1, Zenon DEF OtherStages
  <2>2. ASSUME NEW x \in Docs, OtherEnds(x)
        PROVE  Harmless(d)
    <3>1. PICK v \in {[live |-> TRUE, body |-> "other", stg |-> "none"], Unlinked(x),
                      Staged(x, "orphan")} : Mutate(x, v, {})
      BY <2>2, Zenon DEF OtherEnds
    <3>2. x = d /\ doc'[d] = v /\ doc[d].stg = "other"
      BY <1>1, <2>2, <3>1, Zenon DEF OtherEnds
    <3>3. v.body = "other" \/ (v.live = doc[d].live /\ v.body = doc[d].body)
      BY <1>0, <3>1, <3>2, EndValues, Zenon
    <3>. QED
      BY <1>5, <3>2, <3>3, Zenon DEF Harmless
  <2>. QED
    BY <1>3, <1>5, <2>1, <2>2, Zenon DEF StoreNext, LateArrives, Tick, OtherChecks,
       DocsUnchanged
<1>6. ASSUME NEW c \in Cleaners, CleanerNext(c)
      PROVE  FALSE
  <2>1. WriteDoc(c)
    BY <1>3, <1>6, Zenon DEF CleanerNext, StartQueued, StartLost, ReadDoc,
       DocsCleaned, CleanEntry, DocsUnchanged, storeVars
  <2>2. found[c].d \in Docs /\ cpc[c] = "write"
    BY <1>0, <2>1, Zenon DEF WriteDoc, TypeOK, CleanupTypeOK
  <2>3. /\ \E v, hs : Mutate(found[c].d, v, hs)
        /\ HasWork(entry[c], found[c].d, found[c].v)
        /\ WriteFits(c, entry[c], found[c].d, found[c].v)
    BY <1>3, <2>1, Zenon DEF WriteDoc, DocsUnchanged
  <2>4. found[c].d = d
    BY <1>1, <2>2, <2>3, Zenon
  <2>5. ~Current(c, d)
    BY <2>2, <2>4, ZenonT(30) DEF ReadRight, Current
  <2>6. entry[c].status = "COMMITTED" /\ entry[c].ids[d] # "remove" /\ ~doc[d].live
    BY <2>3, <2>4, <2>5 DEF WriteFits
  <2>7. committed /\ entry[c].ids = kind /\ found[c].v.stg = kind[d] /\ kind[d] \in Ours
    BY <2>2, <2>4, <2>6 DEF IInv, CommittedRight, PInv, Cleaning, ReadRight
  <2>8. fate[d] = "published"
    BY <1>0, <2>7 DEF PInv, CommittedIsVisible
  <2>. QED
    BY <2>6, <2>7, <2>8, Zenon DEF PublishedLives
<1>7. ASSUME NEW x \in Docs, phase = "logic", Operate(x)
      PROVE  Harmless(d)
  <2>0. /\ \A k \in Stages : /\ Staged(x, k).stg = k
                             /\ Staged(x, k).live = doc[x].live
                             /\ Staged(x, k).body = doc[x].body
        /\ Unlinked(x).stg = "none" /\ Unlinked(x).live = doc[x].live
        /\ Unlinked(x).body = doc[x].body
    BY <1>0, Values
  <2>1. CASE StageWithCas(x)
    <3>1. /\ op[x] # "idle" /\ want[x] \in {"replace", "remove"}
          /\ x \in casOf["client"]
      BY <1>3, <2>1, Zenon DEF StageWithCas, Current
    <3>2. doc[x].stg # "other" /\ want[x] \in Stages
      BY <1>7, <3>1, Zenon DEF NotBlocked, Cares, Stages, Kinds, Ours
    <3>. QED
      BY <1>2, <1>3, <2>0, <2>1, <3>2, Zenon DEF StageWithCas
  <2>2. CASE StageInsert(x)
    <3>1. /\ op[x] # "idle" /\ InsertFits(x)
          /\ \E hs : Mutate(x, Staged(x, "insert"), hs)
      BY <1>3, <2>2, Zenon DEF StageInsert
    <3>2. x = d
      BY <1>1, <3>1, Zenon
    <3>3. doc[x].stg \in {"none", "orphan"}
      BY <1>7, <3>1, <3>2 DEF InsertFits, Kept, Listed, Ours
    <3>4. "insert" \in Stages /\ doc[x].stg # "other"
      BY <3>3 DEF Stages, Kinds, Ours
    <3>. QED
      BY <1>2, <2>0, <3>1, <3>4, Zenon
  <2>3. CASE RemoveStagedInsert(x)
    <3>1. kind[x] = "insert" /\ op[x] # "idle"
      BY <2>3 DEF RemoveStagedInsert, PInv, Wanting
    <3>2. doc[x].stg = "insert"
      BY <1>7, <3>1 DEF Kept, Listed
    <3>3. doc[x].stg # "other"
      BY <3>2
    <3>. QED
      BY <1>2, <1>3, <2>0, <2>3, <3>3, Zenon DEF RemoveStagedInsert
  <2>. QED
    BY <1>3, <1>7, <2>1, <2>2, <2>3, Zenon DEF Operate, SelectAtr, RetryAtrPending,
       SetAtrPending, ServerUnchanged, DocsUnchanged
<1>8. ASSUME NEW x \in Docs, CommitDoc(x)
      PROVE  FALSE
  <2>1. /\ phase = "commit_docs" /\ x \in InFlight /\ kind[x] # "remove"
        /\ CommitAnswer(x) = "ok" /\ \E v, hs : Mutate(x, v, hs)
    BY <1>3, <1>8, Zenon DEF CommitDoc, DocsUnchanged
  <2>2. x = d
    BY <1>1, <2>1, Zenon
  <2>. QED
    BY <2>1, <2>2, CommitAnswers
<1>9. ASSUME NEW x \in Docs, RemoveDoc(x)
      PROVE  FALSE
  <2>1. /\ phase = "commit_docs" /\ x \in InFlight /\ kind[x] = "remove"
        /\ \E v, hs : Mutate(x, v, hs)
    BY <1>3, <1>9, Zenon DEF RemoveDoc, DocsUnchanged
  <2>2. x = d
    BY <1>1, <2>1, Zenon
  <2>3. committed /\ d \in Listed /\ item[d] = "flying"
    BY <2>1, <2>2 DEF IInv, CommittedRight, InFlight
  <2>4. fate[d] = "published"
    BY <2>3, CommittedStays
  <2>. QED
    BY <2>1, <2>2, <2>3, <2>4 DEF RepeatsRemoval
<1>10. ASSUME NEW x \in Docs, RollbackDoc(x)
       PROVE  Harmless(d)
  <2>1. /\ Unlinked(x).stg = "none" /\ Unlinked(x).live = doc[x].live
        /\ Unlinked(x).body = doc[x].body
    BY Zenon, <1>0, Values
  <2>2. Current("client", x) => doc[x].stg # "other"
    BY <1>10 DEF RollbackDoc, InFlight, Listed, NotBlocked, Cares, Current
  <2>. QED
    BY <1>2, <1>3, <1>10, <2>1, <2>2, Zenon DEF RollbackDoc, DocsUnchanged
<1>11. /\ EndAttempt \/ Commit \/ LogicFails \/ StartItem \/ Crash => UNCHANGED doc
       /\ \A x \in Docs, t \in Ours : Call(x, t) => UNCHANGED doc
  BY Zenon DEF EndAttempt, AtrCommit, ResolveAmbiguity, CommitDocsEnd,
     AtrComplete, HandleError, AtrAbort, RollbackDocsEnd, AtrRollbackComplete,
     RolledBack, Commit, LogicFails, StartItem, Crash, Call, DocsUnchanged,
     ServerUnchanged, storeVars
<1>. QED
  BY <1>3, <1>4, <1>5, <1>6, <1>7, <1>8, <1>9, <1>10, <1>11, Zenon
     DEF Next, ClientNext, Unstage

UInv ==
  /\ Undisturbed /\ ReadRight /\ PublishedLives /\ InsertIsNew /\ NotBlocked
  /\ Fresh /\ KnowsStaged /\ CommitFlight

LEMMA InitUInv == Init => UInv
<1>. SUFFICES ASSUME Init
              PROVE  UInv
  OBVIOUS
<1>1. phase = "logic" /\ Listed = {}
  BY DEF Init, ClientInit, Listed, NoDocs
<1>2. \A d \in Docs : /\ doc[d].stg = "none" /\ fate[d] = "none" /\ op[d] = "idle"
                      /\ item[d] = "queued" /\ ~mode[d].cas0
  BY DEF Init, ClientInit, StoreInit
<1>3. \A c \in Cleaners : cpc[c] = "idle"
  BY DEF Init, CleanupInit
<1>. QED
  BY <1>1, <1>2, <1>3, InitUndisturbed, Zenon DEF UInv, ReadRight, PublishedLives, InsertIsNew,
     NotBlocked, Fresh, KnowsStaged, CommitFlight

LEMMA NextUInv ==
  ASSUME Sound, Prompt, IInv, IInv', PInv, Guarded, Kept, UInv, [Next]_vars
  PROVE  UInv'
<1>1. TypeOK
  BY DEF IInv
<1>. QED
  BY <1>1, NextUndisturbed, NextReadRight, NextPublishedLives, NextInsertIsNew,
     NextNotBlocked, NextFresh, NextKnowsStaged, NextCommitFlight, Zenon DEF UInv

\* The attempt does no harm to other transactions: whatever requests fail,
\* and whatever the cleaners do once the client has stopped, they leave the
\* content of every document that does not carry its mutation, and write no
\* document with a mutation of another transaction that has an entry, though
\* operations go on where the entry is gone, and commit_doc, remove_doc and the
\* cleaners send requests without a CAS; except that remove_doc may repeat a
\* removal.
THEOREM OthersAreUnharmed ==
  ASSUME Sound, Prompt
  PROVE  Spec => OthersUnharmed
<1>. DEFINE Inv == IInv /\ PInv /\ Guarded /\ RInv /\ UInv
<1>0. Shielded
  BY DEF Shielded
<1>1. Init => Inv
  BY <1>0, InitIInv, InitGood, InitRInv, InitUInv
<1>2. Inv => Kept
  BY KeptNow DEF RInv
<1>3. Inv /\ [Next]_vars => Inv'
  BY <1>0, <1>2, NextIInv, NextPInv, NextRInv, NextUInv, Zenon
<1>4. Inv /\ [Next]_vars =>
        [\A d \in Docs :
           doc[d].stg \notin Ours /\ doc'[d] # doc[d] /\ ~RepeatsRemoval(d) =>
             /\ \/ doc'[d].live = doc[d].live /\ doc'[d].body = doc[d].body
                \/ doc[d].stg = "other" /\ doc'[d].body = "other"
             /\ doc[d].stg = "other" => UNCHANGED <<clientVars, cleanupVars>>]_vars
  BY <1>2, StepUnharmed, Zenon DEF UInv, Harmless
<1>. QED
  BY <1>1, <1>3, <1>4, PTL DEF Spec, OthersUnharmed
=============================================================================
