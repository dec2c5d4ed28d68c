-------------------------- MODULE TransactionProofs -------------------------
(***************************************************************************)
(* Proofs about Transaction: its types, and that an attempt is atomic and   *)
(* its result true, for any number of documents, cleaners, calls and        *)
(* faults, with operations in parallel, with other transactions, whether or *)
(* not lookups fail, and even when a cleaner takes a running attempt for    *)
(* lost.                                                                    *)
(***************************************************************************)
EXTENDS Transaction, TLAPS

-----------------------------------------------------------------------------
(* Types.                                                                   *)

\* A document keeps its type when it is written, and so do the CAS holders.
LEMMA MutateTypes ==
  ASSUME StoreTypeOK, NEW d \in Docs, NEW v \in Documents, NEW hs,
         Mutate(d, v, hs)
  PROVE  doc' \in [Docs -> Documents] /\ casOf' \in [Holders -> SUBSET Docs]
BY DEF Mutate, StoreTypeOK

LEMMA LearnTypes ==
  ASSUME StoreTypeOK, NEW d \in Docs, NEW h \in Holders, Learn(h, d)
  PROVE  casOf' \in [Holders -> SUBSET Docs]
BY DEF Learn, StoreTypeOK

\* The values a document is given are documents.
LEMMA DocumentTypes ==
  ASSUME StoreTypeOK, NEW d \in Docs
  PROVE  /\ \A k \in Stages : Staged(d, k) \in Documents
         /\ Unlinked(d) \in Documents
         /\ Published(d) \in Documents
         /\ Written \in Documents
         /\ Removed \in Documents
         /\ [live |-> TRUE, body |-> "other", stg |-> "none"] \in Documents
<1>1. doc[d] \in Documents
  BY DEF StoreTypeOK
<1>. QED
  BY <1>1 DEF Documents, Staged, Unlinked, Published, Written, Removed, Bodies,
     Stages, Kinds, Ours

LEMMA DecideTypes ==
  ASSUME StoreTypeOK, NEW d \in Docs, NEW v, NEW w \in Fates, Decide(d, v, w)
  PROVE  fate' \in [Docs -> Fates]
BY DEF Decide, StoreTypeOK

\* The entry keeps its type under every request.
LEMMA ApplyTypes ==
  ASSUME StoreTypeOK, NEW r, NEW ids \in [Docs -> Kinds], Apply(r, ids)
  PROVE  atr' \in Entries /\ committed' \in BOOLEAN
<1>1. atr \in Entries /\ committed \in BOOLEAN
  BY DEF StoreTypeOK
<1>2. NoDocs \in [Docs -> Kinds]
  BY DEF NoDocs, Kinds
<1>3. /\ PendingEffect \in Entries
      /\ CommitEffect(ids) \in Entries
      /\ AbortEffect(ids) \in Entries
  BY <1>1, <1>2, Zenon DEF Entries, PendingEffect, CommitEffect, AbortEffect, Statuses
<1>4. CommitOk \in BOOLEAN
  BY DEF CommitOk
<1>5. atr' \in Entries
  BY <1>1, <1>3 DEF Apply
<1>6. committed' \in BOOLEAN
  BY <1>1, <1>4 DEF Apply
<1>. QED
  BY <1>5, <1>6

LEMMA FaultTypes ==
  ASSUME StoreTypeOK, Fault
  PROVE  faults' \in 0..MaxFaults
BY StoreAssumption DEF Fault, StoreTypeOK

LEMMA AmbiguousTypes ==
  ASSUME StoreTypeOK, NEW r \in Requests, NEW ids \in [Docs -> Kinds],
         Ambiguous(r, ids)
  PROVE  /\ atr' \in Entries /\ committed' \in BOOLEAN
         /\ late' \in SUBSET (Requests \X [Docs -> Kinds])
         /\ faults' \in 0..MaxFaults
<1>1. faults' \in 0..MaxFaults
  BY FaultTypes DEF Ambiguous
<1>2. CASE Apply(r, ids) /\ UNCHANGED late
  BY <1>1, <1>2, ApplyTypes DEF StoreTypeOK
<1>3. CASE UNCHANGED <<atr, committed, late>>
  BY <1>1, <1>3 DEF StoreTypeOK
<1>4. CASE late' = {<<r, ids>>} /\ UNCHANGED <<atr, committed>>
  BY <1>1, <1>4 DEF StoreTypeOK
<1>. QED
  BY <1>2, <1>3, <1>4 DEF Ambiguous

\* The errors of operations are errors.
LEMMA ErrorTypes ==
  /\ Fail \in Errors /\ Retry \in Errors /\ ExpiredError \in Errors
  /\ \A r \in Raises : NoRollback(r) \in Errors
  /\ \A e, f \in Errors : Merge(e, f) \in Errors
  /\ \A f \in Errors : Merge(NoError, f) = f
BY DEF Fail, Retry, ExpiredError, NoRollback, Errors, Raises, Merge

LEMMA MergeTypes ==
  ASSUME ClientTypeOK, NEW e \in Errors
  PROVE  Merge(err, e) \in Errors
BY ErrorTypes DEF ClientTypeOK

LEMMA OpFailsTypes ==
  ASSUME ClientTypeOK, NEW d \in Docs, NEW e \in Errors, OpFails(d, e)
  PROVE  op' \in [Docs -> Places] /\ err' \in Errors
<1>1. err' \in Errors
  BY MergeTypes DEF OpFails
<1>2. op' \in [Docs -> Places]
  BY DEF OpFails, ClientTypeOK, Places
<1>. QED
  BY <1>1, <1>2

LEMMA OpMovesTypes ==
  ASSUME ClientTypeOK, NEW d \in Docs, NEW pl \in Places, OpMoves(d, pl)
  PROVE  op' \in [Docs -> Places] /\ err' \in Errors \cup {NoError}
BY DEF OpMoves, ClientTypeOK

LEMMA OpStagedTypes ==
  ASSUME ClientTypeOK, NEW d \in Docs, NEW k \in Kinds, NEW keep,
         OpStaged(d, k, keep)
  PROVE  /\ op' \in [Docs -> Places] /\ err' \in Errors \cup {NoError}
         /\ kind' \in [Docs -> Kinds] /\ stored' \in SUBSET Docs
<1>1. op' \in [Docs -> Places] /\ err' \in Errors \cup {NoError}
  BY OpMovesTypes DEF OpStaged, Places
<1>2. kind' \in [Docs -> Kinds] /\ stored' \in SUBSET Docs
  BY DEF OpStaged, ClientTypeOK
<1>. QED
  BY <1>1, <1>2

-----------------------------------------------------------------------------
\* A step of the server, of the clock or of another transaction keeps the
\* types.
LEMMA StoreNextTypes ==
  ASSUME StoreTypeOK, NEW s \in BOOLEAN, StoreNext(s)
  PROVE  StoreTypeOK'
<1>1. CASE LateArrives
  <2>1. ASSUME NEW m \in late, Apply(m[1], m[2])
        PROVE  atr' \in Entries /\ committed' \in BOOLEAN
    <3>1. m[2] \in [Docs -> Kinds]
      BY DEF StoreTypeOK
    <3>. QED
      BY <2>1, <3>1, ApplyTypes
  <2>2. atr' \in Entries /\ committed' \in BOOLEAN
    BY <1>1, <2>1 DEF LateArrives, StoreTypeOK
  <2>. QED
    BY <1>1, <2>2 DEF LateArrives, StoreTypeOK, DocsUnchanged
<1>2. CASE Tick(s)
  BY <1>2 DEF Tick, StoreTypeOK, DocsUnchanged, AtrUnchanged
<1>3. ASSUME NEW d \in Docs, OtherChecks(d)
      PROVE  StoreTypeOK'
  <2>1. "other" \in Holders
    BY DEF Holders
  <2>2. casOf' \in [Holders -> SUBSET Docs]
    BY <1>3, <2>1, LearnTypes DEF OtherChecks
  <2>. QED
    BY <1>3, <2>2 DEF OtherChecks, StoreTypeOK, AtrUnchanged
<1>4. ASSUME NEW d \in Docs, OtherStages(d) \/ OtherEnds(d)
      PROVE  StoreTypeOK'
  <2>1. "other" \in Stages /\ "orphan" \in Stages
    BY DEF Stages, Others
  <2>2. doc' \in [Docs -> Documents] /\ casOf' \in [Holders -> SUBSET Docs]
    BY <1>4, <2>1, MutateTypes, DocumentTypes DEF OtherStages, OtherEnds
  <2>. QED
    BY <1>4, <2>2 DEF OtherStages, OtherEnds, StoreTypeOK, AtrUnchanged
<1>. QED
  BY <1>1, <1>2, <1>3, <1>4 DEF StoreNext

\* A call of the application keeps the types.
LEMMA CallTypes ==
  ASSUME StoreTypeOK, ClientTypeOK, NEW d \in Docs, NEW t \in Ours, Call(d, t)
  PROVE  StoreTypeOK' /\ ClientTypeOK'
<1>1. casOf' \in [Holders -> SUBSET Docs]
  BY LearnTypes DEF Call, StoreTypeOK, Holders
<1>2. StoreTypeOK'
  BY <1>1 DEF Call, StoreTypeOK, AtrUnchanged
<1>3. op' \in [Docs -> Places] /\ err' \in Errors \cup {NoError}
  <2>1. {"stage", "select"} \subseteq Places
    BY DEF Places
  <2>. QED
    BY <2>1, OpFailsTypes, OpMovesTypes, ErrorTypes DEF Call
<1>4. want' \in [Docs -> Wants]
  <2>1. Target(d, t) \in Wants
    BY DEF Target, Wants, Ours
  <2>. QED
    BY <2>1 DEF Call, ClientTypeOK
<1>5. overtime' \in BOOLEAN
  BY Zenon DEF Call, ClientTypeOK
<1>6. calls' \in 0..MaxCalls
  <2>1. calls \in 0..MaxCalls /\ calls < MaxCalls /\ calls' = calls + 1
    BY DEF Call, ClientTypeOK
  <2>. QED
    BY <2>1, ClientAssumption
<1>. QED
  BY <1>2, <1>3, <1>4, <1>5, <1>6 DEF Call, ClientTypeOK, StagedUnchanged

LEMMA AtrSelectionTypes ==
  ASSUME StoreTypeOK, ClientTypeOK, NEW d \in Docs,
         SelectAtr(d) \/ RetryAtrPending(d)
  PROVE  StoreTypeOK' /\ ClientTypeOK'
<1>1. StoreTypeOK'
  BY DEF SelectAtr, RetryAtrPending, ServerUnchanged, DocsUnchanged,
     AtrUnchanged, StoreTypeOK
<1>2. op' \in [Docs -> Places] /\ err' \in Errors \cup {NoError}
  <2>1. {"stage", "atr", "hung"} \subseteq Places
    BY DEF Places
  <2>. QED
    BY <2>1, OpFailsTypes, OpMovesTypes, ErrorTypes
       DEF SelectAtr, RetryAtrPending
<1>3. atrId' \in BOOLEAN /\ st' \in States
  BY Zenon DEF SelectAtr, RetryAtrPending, ClientTypeOK, States
<1>. QED
  BY <1>1, <1>2, <1>3
     DEF SelectAtr, RetryAtrPending, ClientTypeOK, StagedUnchanged

LEMMA SetAtrPendingTypes ==
  ASSUME StoreTypeOK, ClientTypeOK, NEW d \in Docs, SetAtrPending(d)
  PROVE  StoreTypeOK' /\ ClientTypeOK'
<1>1. NoDocs \in [Docs -> Kinds] /\ "pending" \in Requests
  BY DEF NoDocs, Kinds, Requests
<1>2. /\ atr' \in Entries /\ committed' \in BOOLEAN
      /\ late' \in SUBSET (Requests \X [Docs -> Kinds])
      /\ faults' \in 0..MaxFaults
  BY <1>1, ApplyTypes, AmbiguousTypes, FaultTypes
     DEF SetAtrPending, AtrUnchanged, StoreTypeOK
<1>3. StoreTypeOK'
  BY <1>2 DEF SetAtrPending, DocsUnchanged, StoreTypeOK
<1>4. op' \in [Docs -> Places] /\ err' \in Errors \cup {NoError}
  <2>1. {"stage", "atr_retry"} \subseteq Places
    BY DEF Places
  <2>2. NoRollback("EXPIRED") \in Errors
    BY ErrorTypes DEF Raises
  <2>. QED
    BY <2>1, <2>2, OpFailsTypes, OpMovesTypes, ErrorTypes
       DEF SetAtrPending, PendingFails
<1>5. st' \in States
  BY DEF SetAtrPending, ClientTypeOK, States
<1>. QED
  BY <1>3, <1>4, <1>5 DEF SetAtrPending, ClientTypeOK, StagedUnchanged

\* Staging keeps the types.
LEMMA StageTypes ==
  ASSUME StoreTypeOK, ClientTypeOK, NEW d \in Docs,
         StageWithCas(d) \/ StageInsert(d) \/ RemoveStagedInsert(d)
  PROVE  StoreTypeOK' /\ ClientTypeOK'
<1>. USE DEF StageWithCas, StageInsert, RemoveStagedInsert
<1>1. "client" \in Holders
  BY ZenonT(30) DEF Holders
<1>2. /\ want[d] \in {"replace", "remove"} => want[d] \in Stages
      /\ "insert" \in Stages
  BY DEF Stages, Kinds, Ours
<1>3. doc' \in [Docs -> Documents] /\ casOf' \in [Holders -> SUBSET Docs]
  BY <1>1, <1>2, MutateTypes, LearnTypes, DocumentTypes, Zenon DEF StoreTypeOK
<1>4. faults' \in 0..MaxFaults
  BY FaultTypes, Zenon DEF StoreTypeOK
<1>5. StoreTypeOK'
  BY <1>3, <1>4, Zenon DEF StoreTypeOK, StageFrame, AtrUnchanged
<1>6. /\ op' \in [Docs -> Places] /\ err' \in Errors \cup {NoError}
      /\ kind' \in [Docs -> Kinds] /\ stored' \in SUBSET Docs
  <2>1. {"idle", "stage_retry"} \subseteq Places /\ op[d] \in Places
    BY Zenon DEF Places, ClientTypeOK
  <2>2. /\ want[d] \in {"replace", "remove"} => want[d] \in Kinds
        /\ "insert" \in Kinds /\ "none" \in Kinds
    BY Zenon DEF Kinds, Ours
  <2>3. NoRollback("EXPIRED") \in Errors
    BY ErrorTypes, Zenon DEF Raises
  <2>4. ASSUME StagedUnchanged
        PROVE  kind' \in [Docs -> Kinds] /\ stored' \in SUBSET Docs
    BY <2>4, Zenon DEF StagedUnchanged, ClientTypeOK
  <2>5. CASE StageWithCas(d)
    BY Zenon, <2>1, <2>2, <2>4, <2>5, OpFailsTypes, OpMovesTypes, OpStagedTypes,
       ErrorTypes
  <2>6. CASE StageInsert(d)
    BY Zenon, <2>1, <2>2, <2>4, <2>6, OpFailsTypes, OpMovesTypes, OpStagedTypes,
       ErrorTypes
  <2>7. CASE RemoveStagedInsert(d)
    BY ZenonT(30), <2>1, <2>2, <2>3, <2>4, <2>7, OpFailsTypes, OpMovesTypes,
       OpStagedTypes, ErrorTypes
  <2>. QED
    BY Zenon, <2>5, <2>6, <2>7
<1>7. overtime' \in BOOLEAN
  BY Zenon DEF ClientTypeOK
<1>. QED
  BY <1>5, <1>6, <1>7, Zenon DEF ClientTypeOK, StageFrame

\* The steps that end an attempt keep the types.
LEMMA LogicEndTypes ==
  ASSUME StoreTypeOK, ClientTypeOK, Commit \/ LogicFails
  PROVE  StoreTypeOK' /\ ClientTypeOK'
<1>. USE DEF Commit, LogicFails
<1>1. StoreTypeOK'
  BY DEF EndFrame, ServerUnchanged, DocsUnchanged, AtrUnchanged, StoreTypeOK
<1>2. err' \in Errors \cup {NoError}
  BY MergeTypes, ErrorTypes DEF Handle, ClientTypeOK
<1>3. phase' \in Phases /\ result' \in Results
  BY DEF Handle, Phases, Results, ClientTypeOK
<1>4. overtime' \in BOOLEAN
  BY Zenon DEF ClientTypeOK
<1>. QED
  BY <1>1, <1>2, <1>3, <1>4 DEF ClientTypeOK, EndFrame, OpsDone

LEMMA CommitEndTypes ==
  ASSUME StoreTypeOK, ClientTypeOK,
         AtrCommit \/ ResolveAmbiguity \/ CommitDocsEnd \/ AtrComplete
  PROVE  StoreTypeOK' /\ ClientTypeOK'
<1>. USE DEF AtrCommit, ResolveAmbiguity, CommitDocsEnd, AtrComplete
<1>1. kind \in [Docs -> Kinds] /\ "commit" \in Requests
  BY DEF ClientTypeOK, Requests
<1>2. NoEntry \in Entries
  BY DEF NoEntry, NoDocs, Entries, Statuses, Kinds
<1>3. faults' \in 0..MaxFaults
  BY <1>1, FaultTypes, AmbiguousTypes DEF StoreTypeOK
<1>4. /\ atr' \in Entries /\ committed' \in BOOLEAN
      /\ late' \in SUBSET (Requests \X [Docs -> Kinds])
  BY Zenon, <1>1, <1>2, ApplyTypes, AmbiguousTypes
     DEF StoreTypeOK, AtrUnchanged, ServerUnchanged
<1>5. StoreTypeOK'
  BY <1>3, <1>4 DEF StoreTypeOK, EndFrame, DocsUnchanged, ServerUnchanged
<1>6. err' \in Errors \cup {NoError} /\ phase' \in Phases
  <2>1. /\ Retry \in Errors /\ Fail \in Errors /\ PostCommit \in Errors
        /\ NoRollback("EXPIRED") \in Errors
        /\ NoRollback("FAILED") \in Errors
        /\ NoRollback("AMBIGUOUS") \in Errors
    BY ErrorTypes DEF Raises, PostCommit
  <2>2. /\ {"handle_error", "commit_docs", "resolve", "atr_complete",
            "finished"} \subseteq Phases
        /\ phase \in Phases /\ err \in Errors \cup {NoError}
    BY DEF Phases, ClientTypeOK
  <2>3. CASE AtrCommit
    BY <2>1, <2>2, <2>3 DEF Handle, AtrCommitFails
  <2>4. CASE ResolveAmbiguity
    BY <2>1, <2>2, <2>4 DEF Handle
  <2>5. CASE CommitDocsEnd \/ AtrComplete
    BY <2>1, <2>2, <2>5 DEF Handle
  <2>. QED
    BY ZenonT(30), <2>3, <2>4, <2>5
<1>7. st' \in States /\ result' \in Results
  BY DEF ClientTypeOK, States, Results
<1>8. overtime' \in BOOLEAN /\ ambig' \in BOOLEAN
  BY Zenon DEF ClientTypeOK
<1>. QED
  BY <1>5, <1>6, <1>7, <1>8 DEF ClientTypeOK, EndFrame, OpsDone

LEMMA RollbackEndTypes ==
  ASSUME StoreTypeOK, ClientTypeOK,
         \/ HandleError \/ AtrAbort \/ RollbackDocsEnd \/ AtrRollbackComplete
         \/ RolledBack
  PROVE  err # NoError => StoreTypeOK' /\ ClientTypeOK'
<1>. SUFFICES ASSUME err # NoError
              PROVE  StoreTypeOK' /\ ClientTypeOK'
  OBVIOUS
<1>. USE DEF HandleError, AtrAbort, RollbackDocsEnd, AtrRollbackComplete,
     RolledBack, RollbackThrows
<1>1. kind \in [Docs -> Kinds] /\ "abort" \in Requests
  BY DEF ClientTypeOK, Requests
<1>2. NoEntry \in Entries
  BY DEF NoEntry, NoDocs, Entries, Statuses, Kinds
<1>3. faults' \in 0..MaxFaults
  BY <1>1, FaultTypes, AmbiguousTypes, Zenon DEF StoreTypeOK
<1>4. /\ atr' \in Entries /\ committed' \in BOOLEAN
      /\ late' \in SUBSET (Requests \X [Docs -> Kinds])
  BY Zenon, <1>1, <1>2, ApplyTypes, AmbiguousTypes
     DEF StoreTypeOK, AtrUnchanged, ServerUnchanged
<1>5. queued' \in BOOLEAN
  BY Zenon DEF StoreTypeOK, Enqueue
<1>6. StoreTypeOK'
  BY <1>3, <1>4, <1>5, ZenonT(30) DEF StoreTypeOK, DocsUnchanged, ServerUnchanged
<1>7. phase' \in Phases
  BY DEF Phases, ClientTypeOK, Finish
<1>8. result' \in Results
  <2>1. Final(err) \in Results
    BY Zenon DEF ClientTypeOK, Errors, Raises, Results, Final
  <2>. QED
    BY <2>1, Zenon DEF ClientTypeOK, Results, Finish
<1>9. st' \in States /\ overtime' \in BOOLEAN
  BY Zenon DEF ClientTypeOK, States
<1>. QED
  BY <1>6, <1>7, <1>8, <1>9, Zenon DEF ClientTypeOK, OpsDone

\* Unstaging keeps the types.
LEMMA ItemTypes ==
  ASSUME ClientTypeOK, NEW d \in Docs, NEW m \in [amb : BOOLEAN, cas0 : BOOLEAN],
         ItemDone(d) \/ ItemFails(d) \/ ItemAgain(d, m)
  PROVE  /\ item' \in [Docs -> Items] /\ abort' \in BOOLEAN
         /\ mode' \in [Docs -> [amb : BOOLEAN, cas0 : BOOLEAN]]
BY Zenon DEF ItemDone, ItemFails, ItemAgain, ClientTypeOK, Items

LEMMA UnstageTypes ==
  ASSUME StoreTypeOK, ClientTypeOK, NEW d \in Docs, Unstage(d)
  PROVE  StoreTypeOK' /\ ClientTypeOK'
<1>. USE DEF Unstage, CommitDoc, RemoveDoc, RollbackDoc
<1>1. Removed \in Documents /\ Unlinked(d) \in Documents
      /\ CommitWrite(d) \in Documents
  BY DocumentTypes, Zenon DEF CommitWrite
<1>2. doc' \in [Docs -> Documents] /\ casOf' \in [Holders -> SUBSET Docs]
  BY <1>1, MutateTypes, Zenon DEF DocsUnchanged, StoreTypeOK
<1>3. fate' \in [Docs -> Fates]
  BY DecideTypes, Zenon DEF DocsUnchanged, StoreTypeOK, Fates
<1>4. faults' \in 0..MaxFaults
  BY FaultTypes, Zenon DEF StoreTypeOK
<1>5. StoreTypeOK'
  BY <1>2, <1>3, <1>4, Zenon DEF StoreTypeOK, ItemFrame, AtrUnchanged
<1>6. /\ item' \in [Docs -> Items] /\ abort' \in BOOLEAN
      /\ mode' \in [Docs -> [amb : BOOLEAN, cas0 : BOOLEAN]]
  <2>1. mode[d] \in [amb : BOOLEAN, cas0 : BOOLEAN]
    BY Zenon DEF ClientTypeOK
  <2>2. ASSUME NEW ec, NEW o, CommitDocFails(d, ec, o)
        PROVE  <1>6!:
    <3>1. /\ [mode[d] EXCEPT !.amb = TRUE] \in [amb : BOOLEAN, cas0 : BOOLEAN]
          /\ [mode[d] EXCEPT !.cas0 = TRUE] \in [amb : BOOLEAN, cas0 : BOOLEAN]
          /\ [amb |-> TRUE, cas0 |-> TRUE] \in [amb : BOOLEAN, cas0 : BOOLEAN]
      BY Zenon, <2>1
    <3>. QED
      BY <2>1, <2>2, <3>1, ItemTypes, Zenon DEF CommitDocFails
  <2>3. CASE CommitDoc(d)
    BY Zenon, <2>1, <2>2, <2>3, ItemTypes
  <2>4. CASE RemoveDoc(d) \/ RollbackDoc(d)
    BY Zenon, <2>1, <2>4, ItemTypes
  <2>. QED
    BY Zenon, <2>3, <2>4
<1>7. overtime' \in BOOLEAN
  BY Zenon DEF ClientTypeOK
<1>. QED
  BY <1>5, <1>6, <1>7, Zenon DEF ClientTypeOK, ItemFrame, OpsDone

LEMMA StartItemTypes ==
  ASSUME StoreTypeOK, ClientTypeOK, StartItem \/ Crash
  PROVE  StoreTypeOK' /\ ClientTypeOK'
<1>1. CASE StartItem
  <2>1. StoreTypeOK'
    BY <1>1 DEF StartItem, StoreTypeOK, ItemFrame, AtrUnchanged, DocsUnchanged
  <2>2. item' \in [Docs -> Items] /\ abort' \in BOOLEAN
    BY <1>1, ZenonT(30) DEF StartItem, ClientTypeOK, Items
  <2>. QED
    BY <1>1, <2>1, <2>2, ZenonT(30) DEF StartItem, ClientTypeOK, ItemFrame, OpsDone
<1>2. CASE Crash
  <2>1. StoreTypeOK'
    BY <1>2 DEF Crash, storeVars, StoreTypeOK
  <2>. QED
    BY <1>2, <2>1 DEF Crash, ClientTypeOK, Phases
<1>. QED
  BY <1>1, <1>2

\* A cleaner keeps the types.
LEMMA StartsTypes ==
  ASSUME TypeOK, NEW c \in Cleaners, Starts(c)
  PROVE  CleanupTypeOK'
<1>1. atr \in Entries /\ Visited(atr) \in SUBSET Docs
  BY Zenon DEF TypeOK, StoreTypeOK, Visited
<1>2. cpc' = [cpc EXCEPT ![c] = "docs"] /\ UNCHANGED found
  BY DEF Starts, Goes
<1>. QED
  BY <1>1, <1>2 DEF Starts, TypeOK, CleanupTypeOK, CleanerPlaces

LEMMA EndsTypes ==
  ASSUME CleanupTypeOK, NEW c \in Cleaners, Ends(c)
  PROVE  CleanupTypeOK'
<1>1. NoEntry \in Entries
  BY DEF NoEntry, NoDocs, Entries, Statuses, Kinds
<1>2. cpc' = [cpc EXCEPT ![c] = "idle"]
  BY DEF Ends, Goes
<1>. QED
  BY <1>1, <1>2 DEF Ends, CleanupTypeOK, CleanerPlaces

LEMMA CleanerNextTypes ==
  ASSUME TypeOK, NEW c \in Cleaners, CleanerNext(c)
  PROVE  StoreTypeOK' /\ CleanupTypeOK'
<1>. USE DEF TypeOK
<1>1. CASE StartQueued(c) \/ StartLost(c)
  <2>1. StoreTypeOK'
    BY <1>1, FaultTypes, Zenon DEF StartQueued, StartLost, StoreTypeOK, DocsUnchanged,
       AtrUnchanged
  <2>2. ASSUME UNCHANGED cleanupVars
        PROVE  CleanupTypeOK'
    BY <2>2 DEF cleanupVars, CleanupTypeOK
  <2>. QED
    BY <1>1, <2>1, <2>2, StartsTypes DEF StartQueued, StartLost
<1>2. CASE ReadDoc(c)
  <2>1. PICK d \in todo[c] :
          /\ todo' = [todo EXCEPT ![c] = @ \ {d}]
          /\ \/ /\ doc[d].stg \in Ours
                /\ Goes(c, "write") /\ Learn(c, d)
                /\ found' = [found EXCEPT ![c] = [d |-> d, v |-> doc[d]]]
                /\ UNCHANGED faults
             \/ /\ doc[d].stg \notin Ours
                /\ UNCHANGED <<cpc, found, casOf, faults>>
             \/ /\ LookupsFail /\ Fault
                /\ UNCHANGED <<cpc, found, casOf>>
    BY <1>2, ZenonT(30) DEF ReadDoc
  <2>2. d \in Docs /\ c \in Holders /\ doc[d] \in Documents
    BY DEF CleanupTypeOK, StoreTypeOK, Holders
  <2>3. casOf' \in [Holders -> SUBSET Docs] /\ faults' \in 0..MaxFaults
    BY <2>1, <2>2, LearnTypes, FaultTypes, Zenon DEF StoreTypeOK
  <2>4. StoreTypeOK'
    BY <1>2, <2>3, Zenon DEF ReadDoc, StoreTypeOK, AtrUnchanged
  <2>5. CASE UNCHANGED <<cpc, found>>
    BY <1>2, <2>1, <2>4, <2>5, Zenon DEF ReadDoc, CleanupTypeOK
  <2>6. CASE /\ Goes(c, "write")
             /\ found' = [found EXCEPT ![c] = [d |-> d, v |-> doc[d]]]
    BY Zenon, <1>2, <2>1, <2>2, <2>4, <2>6
       DEF ReadDoc, CleanupTypeOK, Goes, CleanerPlaces
  <2>. QED
    BY Zenon, <2>1, <2>5, <2>6
<1>3. CASE WriteDoc(c)
  <2>1. found[c].d \in Docs /\ found[c].v \in Documents /\ cpc[c] = "write"
    BY <1>3, Zenon DEF WriteDoc, CleanupTypeOK
  <2>2. Write(entry[c], found[c].d, found[c].v) \in Documents
    BY <2>1, DocumentTypes, Zenon DEF Write
  <2>3. doc' \in [Docs -> Documents] /\ casOf' \in [Holders -> SUBSET Docs]
    BY <1>3, <2>1, <2>2, MutateTypes, Zenon DEF WriteDoc, DocsUnchanged, StoreTypeOK
  <2>4. fate' \in [Docs -> Fates]
    BY <1>3, <2>1, DecideTypes, Zenon DEF WriteDoc, DocsUnchanged, StoreTypeOK, Fates
  <2>5. faults' \in 0..MaxFaults
    BY <1>3, FaultTypes, Zenon DEF WriteDoc, StoreTypeOK
  <2>6. StoreTypeOK'
    BY <1>3, <2>3, <2>4, <2>5, ZenonT(30) DEF WriteDoc, StoreTypeOK, AtrUnchanged
  <2>7. CASE Goes(c, "docs") /\ UNCHANGED <<entry, todo, found>>
    BY <2>6, <2>7 DEF Goes, CleanupTypeOK, CleanerPlaces
  <2>. QED
    BY <1>3, <2>6, <2>7, EndsTypes, Zenon DEF WriteDoc
<1>4. CASE DocsCleaned(c)
  BY <1>4, Zenon DEF DocsCleaned, Goes, storeVars, StoreTypeOK, CleanupTypeOK,
     CleanerPlaces
<1>5. CASE CleanEntry(c)
  <2>1. NoEntry \in Entries
    BY DEF NoEntry, NoDocs, Entries, Statuses, Kinds
  <2>2. atr' \in Entries /\ faults' \in 0..MaxFaults
    BY <1>5, <2>1, FaultTypes, Zenon DEF CleanEntry, StoreTypeOK
  <2>3. StoreTypeOK'
    BY <1>5, <2>2, ZenonT(30) DEF CleanEntry, StoreTypeOK, DocsUnchanged
  <2>. QED
    BY <1>5, <2>3, EndsTypes, Zenon DEF CleanEntry
<1>. QED
  BY <1>1, <1>2, <1>3, <1>4, <1>5 DEF CleanerNext

-----------------------------------------------------------------------------
(* The inductive invariant.                                                 *)

Sends(r) == \E m \in late : m[1] = r
Aborts   == \E m \in late : m[1] \notin {"pending", "commit"}

\* No commit has been applied and none is, or will be, on its way.
RollbackPhases == {"atr_abort", "rollback_docs", "rollback_complete",
                   "rolled_back"}
Doomed ==
  /\ ~committed /\ ~Sends("commit")
  /\ phase \in RollbackPhases \cup {"handle_error", "finished", "crashed"}

\* Whatever says that the attempt is aborted or has failed.
DoomedRight ==
  /\ atr.status = "ABORTED" \/ Aborts => Doomed
  /\ \A c \in Cleaners : entry[c].status = "ABORTED" => Doomed
  /\ phase \in RollbackPhases => Doomed
  /\ phase = "handle_error" /\ err.raise \in {"FAILED", "EXPIRED"} => Doomed
  /\ result \in {"FAILED", "EXPIRED", "RETRY"} => Doomed
  /\ \A d \in Docs : fate[d] = "undone" => Doomed

\* Whatever says that the attempt is committed.
CommittedRight ==
  /\ atr.status = "COMMITTED" => committed
  /\ \A c \in Cleaners : entry[c].status = "COMMITTED" => committed
  /\ phase \in {"commit_docs", "atr_complete"} => committed
  /\ phase = "handle_error" /\ err.raise = "FAILED_POST_COMMIT" => committed
  /\ result = "SUCCESS" => committed \/ \A d \in Docs : kind[d] = "none"
  /\ \A d \in Docs : fate[d] = "published" => committed

\* Until atr_commit has had an ambiguous answer, no commit has been sent.
Undecided ==
  /\ phase = "logic" => ~ambig
  /\ phase \in {"logic", "atr_commit"} /\ ~ambig =>
       ~committed /\ ~Sends("commit")

\* atr_commit_ambiguity_resolution runs when "p" is set, and nothing is late.
Resolving ==
  /\ atr.p => atr.status \in {"COMMITTED", "ABORTED"}
  /\ phase = "resolve" => late = {} /\ atr.status # "PENDING"

ErrorRight ==
  /\ err.rollback => err.raise \in {"NONE", "FAILED", "EXPIRED"}
  /\ phase = "logic" => err.raise \in {"NONE", "FAILED", "EXPIRED"}
  /\ (err = NoError) = (err.raise = "NONE")
  /\ phase \in RollbackPhases => err.rollback
  /\ phase \in RollbackPhases \cup {"handle_error"} => err # NoError

\* Only a finished attempt has a result.
Reported == result # "none" => phase = "finished"

\* A cleaner visits the documents of a decided attempt only.
CleanerRight ==
  \A c \in Cleaners : cpc[c] = "write" \/ todo[c] # {} =>
    entry[c].status \in {"COMMITTED", "ABORTED"}

\* Without an ATR nothing is staged.
AtrFirst ==
  ~atrId => \A d \in Docs : kind[d] = "none" /\ op[d] \in {"idle", "select"}

IInv ==
  /\ TypeOK /\ DoomedRight /\ CommittedRight /\ Undecided /\ Resolving
  /\ ErrorRight /\ Reported /\ CleanerRight /\ AtrFirst

-----------------------------------------------------------------------------
(* The rest of the inductive invariant.                                     *)

Core ==
  /\ DoomedRight /\ CommittedRight /\ Undecided /\ Resolving
  /\ ErrorRight /\ Reported /\ CleanerRight /\ AtrFirst

\* A request that changes the entry: what it may become.
LEMMA ApplyEffects ==
  ASSUME StoreTypeOK, NEW r, NEW ids, Apply(r, ids)
  PROVE  /\ r = "pending" =>
              /\ UNCHANGED committed
              /\ \/ UNCHANGED atr
                 \/ atr'.status = "PENDING" /\ ~atr'.p
         /\ r = "commit" =>
              /\ committed => committed'
              /\ \/ UNCHANGED <<atr, committed>> /\ ~CommitOk
                 \/ atr'.status = "COMMITTED" /\ committed'
         /\ r \notin {"pending", "commit"} =>
              UNCHANGED committed /\ atr' = AbortEffect(ids)
<1>1. committed \in BOOLEAN /\ CommitOk \in BOOLEAN
  BY DEF StoreTypeOK, CommitOk
<1>2. CASE r = "pending"
  BY <1>2 DEF Apply, PendingEffect
<1>3. CASE r = "commit"
  <2>1. CASE CommitOk
    <3>1. atr' = CommitEffect(ids) /\ committed' = (committed \/ CommitOk)
      BY <1>3, <2>1 DEF Apply
    <3>2. committed'
      BY Zenon, <1>1, <2>1, <3>1
    <3>3. atr'.status = "COMMITTED"
      BY <3>1 DEF CommitEffect
    <3>. QED
      BY <1>3, <3>2, <3>3
  <2>2. CASE ~CommitOk
    BY <1>1, <1>3, <2>2 DEF Apply
  <2>. QED
    BY <1>3, <2>1, <2>2
<1>4. CASE r \notin {"pending", "commit"}
  BY <1>4 DEF Apply
<1>. QED
  BY <1>2, <1>3, <1>4

LEMMA AbortedEntry ==
  ASSUME StoreTypeOK, NEW ids
  PROVE  AbortEffect(ids).status = "ABORTED"
BY DEF StoreTypeOK, Entries, AbortEffect

\* A request arrives late, or is lost.
LEMMA LateArrivesCore ==
  ASSUME TypeOK, Core, LateArrives, UNCHANGED <<clientVars, cleanupVars>>
  PROVE  Core'
<1>. USE DEF Core, clientVars, cleanupVars
<1>1. late # {} /\ late' = {} /\ UNCHANGED fate
  BY DEF LateArrives, DocsUnchanged
<1>2. phase # "resolve"
  BY <1>1 DEF Resolving
<1>3. ErrorRight' /\ Reported' /\ CleanerRight' /\ AtrFirst'
  BY Zenon DEF ErrorRight, Reported, CleanerRight, AtrFirst
<1>4. CASE UNCHANGED <<atr, committed>>
  BY Zenon, <1>1, <1>2, <1>3, <1>4
     DEF DoomedRight, Doomed, Sends, Aborts, CommittedRight, Undecided, Resolving
<1>5. ASSUME NEW m \in late, Apply(m[1], m[2])
      PROVE  Core'
  <2>1. CASE m[1] = "pending"
    BY ZenonT(30), <1>1, <1>2, <1>3, <1>5, <2>1, ApplyEffects
       DEF TypeOK, DoomedRight, Doomed, Sends, Aborts, CommittedRight, Undecided,
           Resolving
  <2>2. CASE m[1] = "commit"
    <3>1. Sends("commit") /\ ~Doomed
      BY <2>2 DEF Sends, Doomed
    <3>2. atr.status # "ABORTED"
      BY <3>1, ZenonT(30) DEF DoomedRight
    <3>3. /\ committed => committed'
          /\ \/ UNCHANGED <<atr, committed>>
             \/ atr'.status = "COMMITTED" /\ committed'
      BY <1>5, <2>2, ApplyEffects DEF TypeOK
    <3>4. DoomedRight'
      BY <1>1, <3>1, <3>2, <3>3, Zenon DEF DoomedRight, Aborts
    <3>5. CommittedRight'
      BY <1>1, <3>3, ZenonT(30) DEF CommittedRight
    <3>6. Undecided'
      BY <1>1, <3>1 DEF Undecided
    <3>7. Resolving'
      BY <1>2, <3>3 DEF Resolving
    <3>. QED
      BY <1>3, <3>4, <3>5, <3>6, <3>7
  <2>3. CASE m[1] \notin {"pending", "commit"}
    <3>1. Doomed
      BY <2>3 DEF DoomedRight, Aborts
    <3>2. UNCHANGED committed /\ atr'.status = "ABORTED"
      BY <1>5, <2>3, ApplyEffects, AbortedEntry DEF TypeOK
    <3>3. Doomed'
      BY <1>1, <3>1, <3>2 DEF Doomed, Sends
    <3>. QED
      BY ZenonT(30), <1>1, <1>2, <1>3, <3>1, <3>2, <3>3
         DEF DoomedRight, CommittedRight, Doomed, Undecided, Resolving,
             RollbackPhases
  <2>. QED
    BY Zenon, <2>1, <2>2, <2>3
<1>. QED
  BY <1>4, <1>5, ZenonT(30) DEF LateArrives

\* The clock and the other transactions.
LEMMA StoreNextCore ==
  ASSUME TypeOK, Core, StoreNext(Stopped), UNCHANGED <<clientVars, cleanupVars>>
  PROVE  Core'
<1>1. CASE UNCHANGED <<atr, committed, late, fate>>
  <2>1. /\ atr' = atr /\ committed' = committed /\ late' = late /\ fate' = fate
        /\ phase' = phase /\ err' = err /\ result' = result /\ kind' = kind
        /\ ambig' = ambig /\ atrId' = atrId /\ op' = op
        /\ cpc' = cpc /\ entry' = entry /\ todo' = todo
    BY <1>1, Zenon DEF clientVars, cleanupVars
  <2>2. Doomed' = Doomed /\ Aborts' = Aborts
    BY <2>1, Zenon DEF Doomed, Aborts, Sends
  <2>3. DoomedRight' /\ CommittedRight'
    BY <2>1, <2>2, Zenon DEF Core, DoomedRight, CommittedRight
  <2>4. Undecided' /\ Resolving' /\ ErrorRight' /\ Reported'
    BY <2>1, <2>2, Zenon DEF Core, Undecided, Resolving, ErrorRight, Reported, Sends
  <2>5. CleanerRight' /\ AtrFirst'
    BY <2>1, <2>2, Zenon DEF Core, CleanerRight, AtrFirst
  <2>. QED
    BY <2>3, <2>4, <2>5, Zenon DEF Core
<1>2. CASE ~LateArrives
  BY <1>1, <1>2, Zenon DEF StoreNext, Tick, OtherChecks, OtherStages, OtherEnds,
     AtrUnchanged, DocsUnchanged
<1>. QED
  BY <1>2, LateArrivesCore

\* The errors that operations raise, merged with those raised before.
OpErrors == {Fail, Retry, ExpiredError, NoRollback("EXPIRED")}

LEMMA MergedErrors ==
  ASSUME ClientTypeOK, ErrorRight, phase = "logic", NEW e \in OpErrors
  PROVE  /\ Merge(err, e).raise \in {"FAILED", "EXPIRED"}
         /\ Merge(err, e) \in Errors
<1>1. e \in Errors /\ e.raise \in {"FAILED", "EXPIRED"}
  <2>1. e \in Errors
    BY ErrorTypes DEF OpErrors, Raises
  <2>2. /\ Fail.raise = "FAILED" /\ Retry.raise = "FAILED"
        /\ ExpiredError.raise = "EXPIRED"
        /\ NoRollback("EXPIRED").raise = "EXPIRED"
    BY DEF Fail, Retry, ExpiredError, NoRollback
  <2>. QED
    BY <2>1, <2>2 DEF OpErrors
<1>2. err = NoError \/ err.raise \in {"FAILED", "EXPIRED"}
  BY DEF ErrorRight
<1>3. Merge(err, e) = e \/ (err # NoError /\ Merge(err, e) = err)
  BY DEF Merge
<1>4. Merge(err, e) \in Errors
  BY <1>1, MergeTypes
<1>. QED
  BY <1>1, <1>2, <1>3, <1>4

LEMMA RealErrors ==
  NoError \notin Errors /\ \A e \in Errors : e.raise # "NONE"
BY DEF NoError, Errors, Raises

\* An operation, as the invariant sees it.
OpStep ==
  /\ phase = "logic"
  /\ UNCHANGED <<phase, ambig, result, fate, committed, cpc, entry, todo>>
  /\ atr' = atr \/ (atr'.status = "PENDING" /\ ~atr'.p)
  /\ \A m \in late' : m \in late \/ m[1] = "pending"
  /\ err' = err \/ \E e \in OpErrors : err' = Merge(err, e)

LEMMA OpStepCore ==
  ASSUME TypeOK, Core, OpStep, AtrFirst'
  PROVE  Core'
<1>. USE DEF Core
<1>1. /\ ~Doomed /\ ~ambig /\ ~committed /\ ~Sends("commit")
      /\ result = "none" /\ ~Aborts
  BY Zenon DEF OpStep, Doomed, RollbackPhases, Undecided, Reported, DoomedRight
<1>2. ~Sends("commit")' /\ ~Aborts'
  BY <1>1 DEF OpStep, Sends, Aborts
<1>3. DoomedRight' /\ CommittedRight'
  BY <1>1, <1>2, Zenon DEF OpStep, DoomedRight, CommittedRight, RollbackPhases
<1>4. Undecided' /\ Resolving' /\ Reported' /\ CleanerRight'
  BY <1>1, <1>2, Zenon DEF OpStep, Undecided, Resolving, Reported, CleanerRight
<1>5. ErrorRight'
  <2>1. CASE err' = err
    BY <2>1 DEF OpStep, ErrorRight, RollbackPhases
  <2>2. CASE \E e \in OpErrors : err' = Merge(err, e)
    <3>1. err' \in Errors /\ err'.raise \in {"FAILED", "EXPIRED"}
      BY <2>2, MergedErrors DEF OpStep, TypeOK
    <3>. QED
      BY <3>1, RealErrors, Zenon DEF OpStep, ErrorRight, RollbackPhases
  <2>. QED
    BY <2>1, <2>2 DEF OpStep
<1>. QED
  BY <1>3, <1>4, <1>5

\* How an operation ends, as OpStep sees it.
LEMMA OpOutcomes ==
  ASSUME NEW d, NEW e \in OpErrors, NEW pl, NEW k, NEW keep
  PROVE  /\ OpFails(d, e) => \E f \in OpErrors : err' = Merge(err, f)
         /\ OpMoves(d, pl) => err' = err
         /\ OpStaged(d, k, keep) => err' = err
BY DEF OpFails, OpMoves, OpStaged

LEMMA CallCore ==
  ASSUME TypeOK, Core, NEW d \in Docs, NEW t \in Ours, Call(d, t),
         UNCHANGED cleanupVars
  PROVE  Core'
<1>1. OpStep
  BY OpOutcomes, Zenon DEF Call, OpStep, OpErrors, AtrUnchanged, cleanupVars
<1>2. AtrFirst'
  <2>1. ASSUME ~atrId
        PROVE  kind[d] = "none" /\ Target(d, t) # "drop"
    BY <2>1 DEF Core, AtrFirst, Target, Ours
  <2>2. ASSUME ~atrId
        PROVE  \/ op' = [op EXCEPT ![d] = "idle"]
               \/ op' = [op EXCEPT ![d] = "select"]
    BY <2>1, <2>2, Zenon DEF Call, OpFails, OpMoves
  <2>. QED
    BY <2>2, Zenon DEF Core, AtrFirst, Call, StagedUnchanged, TypeOK, ClientTypeOK
<1>. QED
  BY <1>1, <1>2, OpStepCore

LEMMA OperateCore ==
  ASSUME TypeOK, Core, NEW d \in Docs, phase = "logic", Operate(d),
         UNCHANGED cleanupVars
  PROVE  Core'
<1>. USE DEF cleanupVars
<1>1. CASE SelectAtr(d) \/ RetryAtrPending(d)
  <2>1. OpStep
    BY <1>1, OpOutcomes, Zenon DEF SelectAtr, RetryAtrPending, OpStep, OpErrors,
       AtrUnchanged, DocsUnchanged, ServerUnchanged
  <2>2. atrId'
    BY <1>1, Zenon DEF SelectAtr, RetryAtrPending, Core, AtrFirst
  <2>. QED
    BY <2>1, <2>2, OpStepCore DEF AtrFirst
<1>2. CASE SetAtrPending(d)
  <2>1. atrId'
    BY <1>2, Zenon DEF SetAtrPending, Core, AtrFirst
  <2>2. ASSUME Apply("pending", NoDocs) /\ UNCHANGED late
        PROVE  /\ UNCHANGED committed
               /\ atr' = atr \/ (atr'.status = "PENDING" /\ ~atr'.p)
               /\ \A m \in late' : m \in late \/ m[1] = "pending"
    BY <2>2, ApplyEffects DEF TypeOK
  <2>3. /\ UNCHANGED committed
        /\ atr' = atr \/ (atr'.status = "PENDING" /\ ~atr'.p)
        /\ \A m \in late' : m \in late \/ m[1] = "pending"
    BY <1>2, <2>2 DEF SetAtrPending, Ambiguous, AtrUnchanged
  <2>4. OpStep
    BY <1>2, <2>3, OpOutcomes
       DEF SetAtrPending, PendingFails, OpStep, OpErrors, DocsUnchanged
  <2>. QED
    BY <2>1, <2>4, OpStepCore DEF AtrFirst
<1>3. CASE StageWithCas(d) \/ StageInsert(d) \/ RemoveStagedInsert(d)
  <2>. USE DEF StageWithCas, StageInsert, RemoveStagedInsert
  <2>1. op[d] \in {"stage", "stage_retry"}
    BY Zenon, <1>3
  <2>2. atrId'
    BY <1>3, <2>1, Zenon DEF Core, AtrFirst, StageFrame
  <2>3. err' = err \/ \E e \in OpErrors : err' = Merge(err, e)
    BY <1>3, OpOutcomes, Zenon DEF OpErrors
  <2>4. OpStep
    BY <1>3, <2>3, Zenon DEF OpStep, StageFrame, AtrUnchanged
  <2>. QED
    BY <2>2, <2>4, OpStepCore DEF AtrFirst
<1>. QED
  BY <1>1, <1>2, <1>3 DEF Operate

\* The errors the end of an attempt raises.
LEMMA EndErrors ==
  /\ Retry \in Errors /\ Retry.rollback /\ Retry.raise = "FAILED"
  /\ Fail \in Errors /\ Fail.rollback /\ Fail.raise = "FAILED"
  /\ ExpiredError \in Errors /\ ExpiredError.rollback
  /\ ExpiredError.raise = "EXPIRED"
  /\ \A r \in Raises : /\ NoRollback(r) \in Errors
                       /\ ~NoRollback(r).rollback
                       /\ NoRollback(r).raise = r
  /\ PostCommit = NoRollback("FAILED_POST_COMMIT")
BY DEF Retry, Fail, ExpiredError, NoRollback, PostCommit, Errors, Raises

\* What no step that ends an attempt changes.
EndStep == UNCHANGED <<fate, kind, op, atrId, cpc, entry, todo>>

LEMMA EndStepRest ==
  ASSUME CleanerRight, AtrFirst, EndStep
  PROVE  CleanerRight' /\ AtrFirst'
BY Zenon DEF EndStep, CleanerRight, AtrFirst

LEMMA LogicEndCore ==
  ASSUME TypeOK, Core, Commit \/ LogicFails, UNCHANGED cleanupVars
  PROVE  Core'
<1>. USE DEF Core
<1>1. /\ ~Doomed /\ ~ambig /\ ~committed /\ ~Sends("commit")
      /\ result = "none" /\ phase = "logic"
  BY DEF Commit, LogicFails, Doomed, RollbackPhases, Undecided, Reported
<1>2. EndStep /\ UNCHANGED <<atr, committed, late, ambig>>
  BY DEF Commit, LogicFails, EndFrame, OpsDone, ServerUnchanged, DocsUnchanged,
     AtrUnchanged, EndStep, cleanupVars
<1>3. CASE phase' = "handle_error" /\ UNCHANGED result
  <2>1. err' \in Errors /\ err'.raise \in {"FAILED", "EXPIRED"}
    <3>1. CASE LogicFails
      BY <3>1, EndErrors DEF LogicFails, Handle
    <3>2. CASE Commit
      <4>1. err' = ExpiredError \/ (err' = err /\ err # NoError)
        BY <1>3, <3>2 DEF Commit, Handle
      <4>. QED
        BY <1>1, <4>1, EndErrors DEF ErrorRight, TypeOK, ClientTypeOK
    <3>. QED
      BY <3>1, <3>2
  <2>2. Doomed'
    BY <1>1, <1>2, <1>3 DEF Doomed, Sends
  <2>3. DoomedRight' /\ CommittedRight'
    BY <1>1, <1>2, <1>3, <2>1, <2>2 DEF DoomedRight, CommittedRight, EndStep
  <2>4. Undecided' /\ Resolving' /\ Reported'
    BY <1>1, <1>2, <1>3 DEF Undecided, Resolving, Reported
  <2>5. ErrorRight'
    BY <1>3, <2>1, RealErrors DEF ErrorRight, RollbackPhases
  <2>. QED
    BY <1>2, <2>3, <2>4, <2>5, EndStepRest
<1>4. CASE /\ phase' \in {"atr_commit", "finished"}
           /\ UNCHANGED err
           /\ \/ UNCHANGED result
              \/ ~atrId /\ result' = "SUCCESS" /\ phase' = "finished"
  <2>1. DoomedRight'
    BY <1>1, <1>2, <1>4 DEF DoomedRight, EndStep, Aborts, RollbackPhases
  <2>2. CommittedRight'
    BY <1>1, <1>2, <1>4 DEF CommittedRight, EndStep, AtrFirst
  <2>3. Undecided' /\ Resolving' /\ Reported'
    BY <1>1, <1>2, <1>4 DEF Undecided, Resolving, Reported, Sends
  <2>4. ErrorRight'
    BY <1>1, <1>4 DEF ErrorRight, RollbackPhases
  <2>. QED
    BY <1>2, <2>1, <2>2, <2>3, <2>4, EndStepRest
<1>. QED
  BY <1>3, <1>4 DEF Commit, LogicFails, Handle

LEMMA AtrCommitCore ==
  ASSUME TypeOK, Core, AtrCommit, UNCHANGED cleanupVars
  PROVE  Core'
<1>. USE DEF Core
<1>1. ~Doomed /\ result = "none" /\ phase = "atr_commit" /\ ~Aborts
      /\ atr.status # "ABORTED"
  BY Zenon DEF AtrCommit, Doomed, RollbackPhases, Reported, DoomedRight
<1>2. EndStep /\ UNCHANGED result
  BY DEF AtrCommit, EndFrame, OpsDone, DocsUnchanged, EndStep, cleanupVars
<1>3. CASE AtrUnchanged /\ UNCHANGED ambig
           /\ \/ phase' = "resolve" /\ UNCHANGED err /\ late = {} /\ atr.p
              \/ UNCHANGED <<phase, err>>
  <2>1. DoomedRight' /\ CommittedRight'
    BY Zenon, <1>1, <1>2, <1>3
       DEF DoomedRight, CommittedRight, EndStep, AtrUnchanged, Aborts,
           RollbackPhases
  <2>2. Undecided' /\ Resolving' /\ Reported'
    BY <1>1, <1>2, <1>3 DEF Undecided, Resolving, Reported, AtrUnchanged, Sends
  <2>3. ErrorRight'
    BY <1>1, <1>3 DEF ErrorRight, RollbackPhases
  <2>. QED
    BY <1>2, <2>1, <2>2, <2>3, EndStepRest
<1>4. CASE /\ AtrUnchanged /\ UNCHANGED ambig
           /\ phase' = "handle_error"
           /\ \/ err' = NoRollback("AMBIGUOUS")
              \/ ~ambig /\ err' \in {Retry, Fail, NoRollback("FAILED"),
                                     NoRollback("EXPIRED")}
  <2>1. /\ err' \in Errors
        /\ err'.rollback => err'.raise = "FAILED"
        /\ \/ err'.raise = "AMBIGUOUS"
           \/ ~ambig /\ err'.raise \in {"FAILED", "EXPIRED"}
    BY <1>4, EndErrors DEF Raises
  <2>2. err'.raise # "AMBIGUOUS" => Doomed'
    BY <1>1, <1>4, <2>1 DEF Doomed, Sends, AtrUnchanged, Undecided
  <2>3. DoomedRight' /\ CommittedRight'
    BY Zenon, <1>1, <1>2, <1>4, <2>1, <2>2
       DEF DoomedRight, CommittedRight, EndStep, AtrUnchanged, Aborts,
           RollbackPhases
  <2>4. Undecided' /\ Resolving' /\ Reported'
    BY <1>1, <1>2, <1>4 DEF Undecided, Resolving, Reported, AtrUnchanged
  <2>5. ErrorRight'
    BY <1>4, <2>1, RealErrors DEF ErrorRight, RollbackPhases
  <2>. QED
    BY <1>2, <2>3, <2>4, <2>5, EndStepRest
<1>5. CASE /\ CommitOk /\ Apply("commit", kind)
           /\ phase' = "commit_docs"
           /\ UNCHANGED <<late, err, ambig>>
  <2>1. atr'.status = "COMMITTED" /\ committed'
    BY <1>5, ApplyEffects DEF TypeOK
  <2>2. DoomedRight' /\ CommittedRight'
    BY Zenon, <1>1, <1>2, <1>5, <2>1
       DEF DoomedRight, CommittedRight, EndStep, Aborts, RollbackPhases
  <2>3. Undecided' /\ Resolving' /\ Reported'
    BY <1>1, <1>2, <1>5, <2>1 DEF Undecided, Resolving, Reported
  <2>4. ErrorRight'
    BY <1>1, <1>5 DEF ErrorRight, RollbackPhases
  <2>. QED
    BY <1>2, <2>2, <2>3, <2>4, EndStepRest
<1>6. CASE /\ Ambiguous("commit", kind) /\ ambig'
           /\ UNCHANGED <<phase, err>>
  <2>1. /\ committed => committed'
        /\ \/ UNCHANGED <<atr, committed>>
           \/ atr'.status = "COMMITTED" /\ committed'
    BY <1>6, ApplyEffects DEF Ambiguous, TypeOK
  <2>2. ~Aborts'
    BY <1>1, <1>6 DEF Aborts, Ambiguous
  <2>3. DoomedRight' /\ CommittedRight'
    <3>1. /\ fate' = fate /\ entry' = entry /\ kind' = kind
          /\ phase' = phase /\ err' = err /\ result' = result
      BY <1>2, <1>6, Zenon DEF EndStep
    <3>2. DoomedRight'
      <4>1. atr'.status # "ABORTED"
        BY <1>1, <2>1
      <4>2. phase \notin RollbackPhases /\ phase # "handle_error"
        BY <1>1 DEF RollbackPhases
      <4>. QED
        BY <1>1, <2>2, <3>1, <4>1, <4>2, Zenon DEF DoomedRight
    <3>3. CommittedRight'
      BY <1>1, <2>1, <3>1, Zenon DEF CommittedRight
    <3>. QED
      BY <3>2, <3>3
  <2>4. Undecided' /\ Resolving' /\ Reported'
    BY <1>1, <1>2, <1>6, <2>1 DEF Undecided, Resolving, Reported
  <2>5. ErrorRight'
    BY <1>1, <1>6 DEF ErrorRight, RollbackPhases
  <2>. QED
    BY <1>2, <2>3, <2>4, <2>5, EndStepRest
<1>. QED
  BY <1>3, <1>4, <1>5, <1>6, Zenon DEF AtrCommit, AtrCommitFails, Handle

LEMMA ResolveCore ==
  ASSUME TypeOK, Core, ResolveAmbiguity, UNCHANGED cleanupVars
  PROVE  Core'
<1>. USE DEF Core
<1>1. /\ ~Doomed /\ result = "none" /\ phase = "resolve" /\ ~Aborts
      /\ atr.status \notin {"ABORTED", "PENDING"}
  BY DEF ResolveAmbiguity, Doomed, RollbackPhases, Reported, DoomedRight,
     Resolving
<1>2. EndStep /\ UNCHANGED <<result, ambig>> /\ AtrUnchanged
  BY DEF ResolveAmbiguity, EndFrame, OpsDone, ServerUnchanged, DocsUnchanged,
     EndStep, cleanupVars
<1>3. \/ UNCHANGED <<phase, err>>
      \/ phase' = "commit_docs" /\ UNCHANGED err /\ atr.status = "COMMITTED"
      \/ phase' = "handle_error" /\ err' = NoRollback("AMBIGUOUS")
  BY <1>1 DEF ResolveAmbiguity, Handle
<1>4. phase' = "handle_error" =>
        err' \in Errors /\ ~err'.rollback /\ err'.raise = "AMBIGUOUS"
  BY <1>1, <1>3, EndErrors DEF Raises
<1>5. DoomedRight' /\ CommittedRight'
  BY Zenon, <1>1, <1>2, <1>3, <1>4
     DEF DoomedRight, CommittedRight, EndStep, AtrUnchanged, Aborts,
         RollbackPhases
<1>6. Undecided' /\ Resolving' /\ Reported'
  BY <1>1, <1>2, <1>3 DEF Undecided, Resolving, Reported, AtrUnchanged
<1>7. ErrorRight'
  BY <1>1, <1>3, <1>4, RealErrors DEF ErrorRight, RollbackPhases
<1>. QED
  BY <1>2, <1>5, <1>6, <1>7, EndStepRest

LEMMA CommitDocsEndCore ==
  ASSUME TypeOK, Core, CommitDocsEnd, UNCHANGED cleanupVars
  PROVE  Core'
<1>. USE DEF Core
<1>1. ~Doomed /\ result = "none" /\ phase = "commit_docs" /\ committed
  BY DEF CommitDocsEnd, Doomed, RollbackPhases, Reported, CommittedRight
<1>2. EndStep /\ UNCHANGED <<result, ambig>> /\ AtrUnchanged
  BY DEF CommitDocsEnd, EndFrame, OpsDone, ServerUnchanged, DocsUnchanged,
     EndStep, cleanupVars
<1>3. \/ phase' = "atr_complete" /\ UNCHANGED err
      \/ /\ phase' = "handle_error" /\ err' \in Errors /\ ~err'.rollback
         /\ err'.raise = "FAILED_POST_COMMIT"
  BY EndErrors DEF CommitDocsEnd, Handle, Raises
<1>4. DoomedRight' /\ CommittedRight'
  BY <1>1, <1>2, <1>3
     DEF DoomedRight, CommittedRight, EndStep, AtrUnchanged, Aborts,
         RollbackPhases
<1>5. Undecided' /\ Resolving' /\ Reported'
  BY <1>1, <1>2, <1>3 DEF Undecided, Resolving, Reported, AtrUnchanged
<1>6. ErrorRight'
  BY <1>1, <1>3, RealErrors DEF ErrorRight, RollbackPhases
<1>. QED
  BY <1>2, <1>4, <1>5, <1>6, EndStepRest

LEMMA AtrCompleteCore ==
  ASSUME TypeOK, Core, AtrComplete, UNCHANGED cleanupVars
  PROVE  Core'
<1>. USE DEF Core
<1>1. ~Doomed /\ result = "none" /\ phase = "atr_complete" /\ committed
  BY DEF AtrComplete, Doomed, RollbackPhases, Reported, CommittedRight
<1>2. /\ EndStep /\ UNCHANGED <<committed, late, err, ambig>>
      /\ phase' = "finished" /\ result' = "SUCCESS"
  BY DEF AtrComplete, EndFrame, OpsDone, DocsUnchanged, EndStep, cleanupVars
<1>3. atr' = atr \/ (atr'.status = "NONE" /\ ~atr'.p)
  BY DEF AtrComplete, NoEntry
<1>4. DoomedRight' /\ CommittedRight'
  BY Zenon, <1>1, <1>2, <1>3
     DEF DoomedRight, CommittedRight, EndStep, Aborts, RollbackPhases
<1>5. Undecided' /\ Resolving' /\ Reported'
  BY <1>1, <1>2, <1>3 DEF Undecided, Resolving, Reported
<1>6. ErrorRight'
  BY <1>1, <1>2 DEF ErrorRight, RollbackPhases
<1>. QED
  BY <1>2, <1>4, <1>5, <1>6, EndStepRest

\* A step of handle_error and the rollback, as the invariant sees it.
RollbackStep ==
  /\ EndStep /\ UNCHANGED <<committed, err, ambig>>
  /\ phase' \in RollbackPhases \/ (phase' = "finished" /\ result' # "SUCCESS")
  /\ phase' # "finished" => UNCHANGED result
  /\ UNCHANGED atr \/ (atr'.status \in {"NONE", "ABORTED"}
                       /\ (atr'.p => atr'.status = "ABORTED"))
  /\ \A m \in late' : m \in late \/ m[1] # "commit"

LEMMA RollbackStepCore ==
  ASSUME TypeOK, Core, Doomed, err # NoError, err.rollback, RollbackStep,
         phase \in RollbackPhases \cup {"handle_error"}
  PROVE  Core'
<1>. USE DEF Core
<1>1. Doomed'
  BY DEF Doomed, RollbackStep, Sends
<1>2. phase' \notin {"handle_error", "commit_docs", "atr_complete", "logic",
                     "atr_commit", "resolve"} /\ result = "none"
  BY DEF RollbackStep, RollbackPhases, Reported
<1>3. DoomedRight' /\ CommittedRight'
  <2>1. DoomedRight'
    BY <1>1 DEF DoomedRight
  <2>2. result' # "SUCCESS"
    BY <1>2 DEF RollbackStep, RollbackPhases
  <2>3. atr'.status = "COMMITTED" => committed'
    BY DEF RollbackStep, CommittedRight
  <2>4. CommittedRight'
    BY <1>2, <2>2, <2>3 DEF CommittedRight, RollbackStep, EndStep
  <2>. QED
    BY <2>1, <2>4
<1>4. Undecided' /\ Resolving' /\ Reported'
  BY <1>2 DEF Undecided, Resolving, Reported, RollbackStep
<1>5. ErrorRight'
  BY <1>2 DEF ErrorRight, RollbackStep
<1>. QED
  BY <1>3, <1>4, <1>5, EndStepRest DEF RollbackStep

\* The final result of an attempt that is rolled back is no success.
LEMMA RollbackResult ==
  ASSUME Core, err.rollback
  PROVE  Final(err) # "SUCCESS"
BY DEF Core, ErrorRight, Final

LEMMA RollbackCore ==
  ASSUME TypeOK, Core, UNCHANGED cleanupVars,
         AtrAbort \/ RollbackDocsEnd \/ AtrRollbackComplete \/ RolledBack
  PROVE  Core'
<1>1. phase \in RollbackPhases
  BY DEF RollbackPhases, AtrAbort, RollbackDocsEnd, AtrRollbackComplete,
     RolledBack
<1>2. Doomed /\ err # NoError /\ err.rollback
  BY <1>1, Zenon DEF Core, DoomedRight, ErrorRight
<1>3. EndStep /\ UNCHANGED <<err, ambig>>
  BY Zenon DEF AtrAbort, RollbackDocsEnd, AtrRollbackComplete, RolledBack, EndStep,
     OpsDone, DocsUnchanged, ServerUnchanged, cleanupVars
<1>4. /\ phase' \in RollbackPhases
         \/ (phase' = "finished" /\ result' # "SUCCESS")
      /\ phase' # "finished" => UNCHANGED result
  BY Zenon, <1>1, <1>2, RollbackResult
     DEF AtrAbort, RollbackDocsEnd, AtrRollbackComplete, RolledBack,
         RollbackThrows, Finish, RollbackPhases
<1>5. /\ UNCHANGED committed
      /\ UNCHANGED atr \/ (atr'.status \in {"NONE", "ABORTED"}
                           /\ (atr'.p => atr'.status = "ABORTED"))
      /\ \A m \in late' : m \in late \/ m[1] # "commit"
  <2>1. CASE AtrAbort
    <3>1. CASE Apply("abort", kind) /\ UNCHANGED late
      <4>1. UNCHANGED committed /\ atr'.status = "ABORTED"
        BY <3>1, ApplyEffects, AbortedEntry DEF TypeOK
      <4>. QED
        BY <3>1, <4>1
    <3>2. CASE UNCHANGED <<atr, committed, late>>
      BY <3>2
    <3>3. CASE late' = {<<"abort", kind>>} /\ UNCHANGED <<atr, committed>>
      BY <3>3
    <3>. QED
      BY <2>1, <3>1, <3>2, <3>3, Zenon DEF AtrAbort, Ambiguous, AtrUnchanged
  <2>2. CASE RollbackDocsEnd \/ RolledBack
    BY <2>2 DEF RollbackDocsEnd, RolledBack, AtrUnchanged, ServerUnchanged
  <2>3. CASE AtrRollbackComplete
    <3>1. UNCHANGED <<committed, late>> /\ atr' \in {atr, NoEntry}
      BY <2>3 DEF AtrRollbackComplete
    <3>. QED
      BY <3>1 DEF NoEntry
  <2>. QED
    BY <2>1, <2>2, <2>3
<1>. QED
  BY <1>1, <1>2, <1>3, <1>4, <1>5, RollbackStepCore DEF RollbackStep

LEMMA HandleErrorCore ==
  ASSUME TypeOK, Core, HandleError, UNCHANGED cleanupVars
  PROVE  Core'
<1>. USE DEF Core
<1>1. phase = "handle_error" /\ err # NoError /\ err \in Errors
      /\ result = "none"
  BY DEF HandleError, ErrorRight, Reported, TypeOK, ClientTypeOK
<1>2. EndStep /\ UNCHANGED <<err, ambig>> /\ AtrUnchanged
  BY DEF HandleError, EndStep, OpsDone, ServerUnchanged, DocsUnchanged,
     cleanupVars
<1>3. CASE err.rollback
  <2>1. Doomed
    BY <1>1, <1>3 DEF ErrorRight, DoomedRight
  <2>2. RollbackStep
    BY <1>2, <1>3 DEF HandleError, RollbackStep, AtrUnchanged, RollbackPhases
  <2>. QED
    BY <1>1, <1>3, <2>1, <2>2, RollbackStepCore
<1>4. CASE ~err.rollback
  <2>1. phase' = "finished" /\ result' = Final(err)
    BY <1>4 DEF HandleError, Finish
  <2>2. err.raise \in Raises
    BY <1>1 DEF Errors
  <2>3. /\ result' = "SUCCESS" => committed
        /\ result' \in {"FAILED", "EXPIRED", "RETRY"} => Doomed
    BY <1>1, <2>1, <2>2 DEF Final, Raises, CommittedRight, DoomedRight
  <2>4. Doomed => Doomed'
    BY <1>2, <2>1 DEF Doomed, Sends, AtrUnchanged
  <2>5. DoomedRight' /\ CommittedRight'
    BY Zenon, <1>1, <1>2, <2>1, <2>3, <2>4
       DEF DoomedRight, CommittedRight, EndStep, AtrUnchanged, Aborts,
           RollbackPhases
  <2>6. Undecided' /\ Resolving' /\ Reported'
    BY <1>2, <2>1 DEF Undecided, Resolving, Reported, AtrUnchanged
  <2>7. ErrorRight'
    BY <1>2, <2>1 DEF ErrorRight, RollbackPhases
  <2>. QED
    BY <1>2, <2>5, <2>6, <2>7, EndStepRest
<1>. QED
  BY <1>3, <1>4

\* Unstaging: what becomes of a document agrees with the entry.
LEMMA UnstageCore ==
  ASSUME TypeOK, Core, NEW d \in Docs, Unstage(d), UNCHANGED cleanupVars
  PROVE  Core'
<1>. USE DEF Unstage, CommitDoc, RemoveDoc, RollbackDoc
<1>1. UNCHANGED <<atr, committed, late, phase, err, ambig, result, op, kind,
                  atrId, cpc, entry, todo>>
  BY Zenon DEF ItemFrame, AtrUnchanged, OpsDone, cleanupVars
<1>2. \/ UNCHANGED fate
      \/ phase = "commit_docs" /\ fate' = [fate EXCEPT ![d] = "published"]
      \/ phase = "rollback_docs" /\ fate' = [fate EXCEPT ![d] = "undone"]
  BY Zenon DEF Decide, DocsUnchanged
<1>3. \A x \in Docs : /\ fate'[x] = "published" => committed
                      /\ fate'[x] = "undone" => Doomed
  BY <1>2, Zenon DEF Core, CommittedRight, DoomedRight, RollbackPhases, TypeOK,
     StoreTypeOK
<1>4. DoomedRight' /\ CommittedRight'
  BY Zenon, <1>1, <1>3
     DEF Core, DoomedRight, CommittedRight, Doomed, Sends, Aborts
<1>. QED
  BY <1>1, <1>4, Zenon DEF Core, Undecided, Resolving, ErrorRight, Reported,
     CleanerRight, AtrFirst, Sends

LEMMA StartItemCore ==
  ASSUME TypeOK, Core, StartItem \/ Crash, UNCHANGED cleanupVars
  PROVE  Core'
<1>1. /\ UNCHANGED <<atr, committed, late, fate, err, ambig, result, op, kind,
                     atrId, cpc, entry, todo>>
      /\ \/ UNCHANGED phase
         \/ phase' = "crashed" /\ phase # "finished"
  BY DEF StartItem, Crash, ItemFrame, AtrUnchanged, OpsDone, DocsUnchanged,
     cleanupVars, storeVars, Stopped
<1>2. Doomed => Doomed'
  BY <1>1 DEF Doomed, Sends
<1>3. DoomedRight'
  BY <1>1, <1>2, ZenonT(30) DEF Core, DoomedRight, Sends, Aborts, RollbackPhases
<1>4. CommittedRight'
  BY <1>1, <1>2 DEF Core, CommittedRight, Sends, Aborts, RollbackPhases
<1>5. Undecided' /\ Resolving'
  BY <1>1 DEF Core, Undecided, Resolving, Sends
<1>6. ErrorRight' /\ Reported'
  BY <1>1 DEF Core, ErrorRight, Reported, RollbackPhases
<1>7. CleanerRight' /\ AtrFirst'
  BY <1>1 DEF Core, CleanerRight, AtrFirst
<1>. QED
  BY <1>3, <1>4, <1>5, <1>6, <1>7 DEF Core

\* A cleaner acts on the entry it has read, which is decided, and a decided
\* entry is decided for good.
LEMMA CleanerCore ==
  ASSUME TypeOK, Core, NEW c \in Cleaners, CleanerNext(c), UNCHANGED clientVars
  PROVE  Core'
<1>. USE DEF Core
<1>1. UNCHANGED <<committed, late>>
  BY Zenon DEF CleanerNext, StartQueued, StartLost, ReadDoc, WriteDoc, DocsCleaned,
     CleanEntry, AtrUnchanged, storeVars
<1>2. UNCHANGED atr \/ (atr'.status = "NONE" /\ ~atr'.p)
  <2>1. CASE CleanEntry(c)
    <3>1. atr' \in {atr, NoEntry}
      BY <2>1, Zenon DEF CleanEntry
    <3>. QED
      BY <3>1 DEF NoEntry
  <2>2. CASE DocsCleaned(c)
    BY <2>2, Zenon DEF DocsCleaned, storeVars
  <2>3. CASE AtrUnchanged
    BY <2>3 DEF AtrUnchanged
  <2>. QED
    BY Zenon, <2>1, <2>2, <2>3
       DEF CleanerNext, StartQueued, StartLost, ReadDoc, WriteDoc
<1>3. \/ UNCHANGED entry
      \/ entry' = [entry EXCEPT ![c] = atr]
      \/ entry' = [entry EXCEPT ![c] = NoEntry]
  BY Zenon DEF CleanerNext, StartQueued, StartLost, ReadDoc, WriteDoc, DocsCleaned,
     CleanEntry, Starts, Ends, cleanupVars
<1>4. \A x \in Cleaners : /\ entry'[x].status = "COMMITTED" => committed
                          /\ entry'[x].status = "ABORTED" => Doomed
  <2>1. NoEntry.status = "NONE"
    BY DEF NoEntry
  <2>. QED
    BY <1>3, <2>1, Zenon DEF CommittedRight, DoomedRight, TypeOK, CleanupTypeOK
<1>5. \A x \in Docs : /\ fate'[x] = "published" => committed
                      /\ fate'[x] = "undone" => Doomed
  <2>1. CASE UNCHANGED fate
    BY <2>1, Zenon DEF CommittedRight, DoomedRight
  <2>2. CASE WriteDoc(c)
    <3>1. found[c].d \in Docs
      BY <2>2, Zenon DEF WriteDoc, TypeOK, CleanupTypeOK
    <3>2. \/ UNCHANGED fate
          \/ /\ entry[c].status = "COMMITTED"
             /\ fate' = [fate EXCEPT ![found[c].d] = "published"]
          \/ /\ entry[c].status = "ABORTED"
             /\ fate' = [fate EXCEPT ![found[c].d] = "undone"]
      BY <2>2, Zenon DEF WriteDoc, Decide, DocsUnchanged, CleanerRight
    <3>. QED
      BY <3>1, <3>2, Zenon DEF CommittedRight, DoomedRight, TypeOK, StoreTypeOK
  <2>. QED
    BY <2>1, <2>2, Zenon DEF CleanerNext, StartQueued, StartLost, ReadDoc,
       DocsCleaned, CleanEntry, DocsUnchanged, storeVars
<1>6. CleanerRight'
  <2>1. CASE UNCHANGED cleanupVars
    BY <2>1 DEF CleanerRight, cleanupVars
  <2>2. CASE Starts(c)
    BY <2>2, Zenon DEF CleanerRight, Starts, Goes, Visited, TypeOK, CleanupTypeOK
  <2>3. CASE Ends(c)
    BY <2>3 DEF CleanerRight, Ends, Goes, TypeOK, CleanupTypeOK
  <2>4. CASE ReadDoc(c)
    BY <2>4, Zenon DEF CleanerRight, ReadDoc, Goes, TypeOK, CleanupTypeOK
  <2>5. CASE /\ cpc' \in {[cpc EXCEPT ![c] = "docs"], [cpc EXCEPT ![c] = "entry"]}
             /\ UNCHANGED <<entry, todo>>
    BY <2>5 DEF CleanerRight, TypeOK, CleanupTypeOK
  <2>. QED
    BY ZenonT(30), <2>1, <2>2, <2>3, <2>4, <2>5
       DEF CleanerNext, StartQueued, StartLost, WriteDoc, DocsCleaned,
           CleanEntry, Goes
<1>7. DoomedRight' /\ CommittedRight'
  BY ZenonT(30), <1>1, <1>2, <1>4, <1>5
     DEF DoomedRight, CommittedRight, Doomed, Sends, Aborts, clientVars
<1>8. Undecided' /\ Resolving'
  BY <1>1, <1>2 DEF Undecided, Resolving, Sends, clientVars
<1>9. ErrorRight' /\ Reported' /\ AtrFirst'
  BY ZenonT(30) DEF ErrorRight, Reported, AtrFirst, clientVars
<1>. QED
  BY <1>6, <1>7, <1>8, <1>9

-----------------------------------------------------------------------------
LEMMA ZeroBounded == \A n \in Nat : 0 \in 0..n
OBVIOUS

\* The invariant holds initially.
LEMMA InitIInv == Init => IInv
<1>. SUFFICES ASSUME Init
              PROVE  IInv
  OBVIOUS
<1>. USE DEF Init, StoreInit, ClientInit, CleanupInit
<1>1. StoreTypeOK
  <2>1. NoEntry \in Entries
    BY Zenon DEF NoEntry, NoDocs, Entries, Statuses, Kinds
  <2>2. ASSUME NEW d \in Docs
        PROVE  [live |-> d \in Existing, stg |-> "none",
                body |-> IF d \in Existing THEN "old" ELSE "none"] \in Documents
    <3>1. (d \in Existing) \in BOOLEAN
      OBVIOUS
    <3>2. (IF d \in Existing THEN "old" ELSE "none") \in Bodies
      BY DEF Bodies
    <3>3. "none" \in Stages
      BY DEF Stages, Kinds
    <3>. QED
      BY <3>1, <3>2, <3>3, Zenon DEF Documents
  <2>3. doc \in [Docs -> Documents]
    BY <2>2, Zenon
  <2>4. fate \in [Docs -> Fates] /\ casOf \in [Holders -> SUBSET Docs]
    BY DEF Fates
  <2>5. faults \in 0..MaxFaults
    <3>1. faults = 0
      OBVIOUS
    <3>2. MaxFaults \in Nat
      BY StoreAssumption
    <3>. QED
      BY <3>1, <3>2, ZeroBounded, Zenon
  <2>6. queued \in BOOLEAN /\ committed \in BOOLEAN
    BY ZenonT(30)
  <2>. QED
    BY <2>1, <2>3, <2>4, <2>5, <2>6, Zenon DEF StoreTypeOK
<1>2. ClientTypeOK
  <2>1. phase \in Phases /\ st \in States /\ result \in Results
    BY DEF Phases, States, Results
  <2>2. /\ op \in [Docs -> Places] /\ want \in [Docs -> Wants]
        /\ kind \in [Docs -> Kinds] /\ item \in [Docs -> Items]
    BY DEF Places, Wants, Ours, Kinds, NoDocs, Items
  <2>3. mode \in [Docs -> [amb : BOOLEAN, cas0 : BOOLEAN]]
    OBVIOUS
  <2>4. /\ atrId \in BOOLEAN /\ overtime \in BOOLEAN /\ ambig \in BOOLEAN
        /\ abort \in BOOLEAN
    BY ZenonT(30)
  <2>5. calls \in 0..MaxCalls
    <3>1. calls = 0
      OBVIOUS
    <3>2. MaxCalls \in Nat
      BY ClientAssumption
    <3>3. \A n \in Nat : 0 \in 0..n
      OBVIOUS
    <3>. QED
      BY <3>1, <3>2, <3>3, Zenon
  <2>. QED
    BY <2>1, <2>2, <2>3, <2>4, <2>5, Zenon DEF ClientTypeOK
<1>3. CleanupTypeOK
  <2>1. NoEntry \in Entries
    BY Zenon DEF NoEntry, NoDocs, Entries, Statuses, Kinds
  <2>. QED
    BY <2>1, Zenon DEF CleanupTypeOK, CleanerPlaces
<1>4. Core
  BY Zenon DEF Core, DoomedRight, CommittedRight, Undecided, Resolving, ErrorRight,
     Reported, CleanerRight, AtrFirst, NoEntry, NoError, NoDocs, Sends, Aborts,
     RollbackPhases
<1>. QED
  BY <1>1, <1>2, <1>3, <1>4 DEF IInv, TypeOK, Core

\* Every step keeps the invariant.
LEMMA NextIInv ==
  ASSUME IInv, [Next]_vars
  PROVE  IInv'
<1>0. TypeOK /\ Core
  BY DEF IInv, Core
<1>. SUFFICES TypeOK' /\ Core'
  BY DEF IInv, Core
<1>1. CASE UNCHANGED vars
  <2>1. UNCHANGED <<storeVars, clientVars, cleanupVars>>
    BY <1>1 DEF vars
  <2>2. TypeOK'
    BY <1>0, <2>1, Zenon DEF storeVars, clientVars, cleanupVars, TypeOK, StoreTypeOK,
       ClientTypeOK, CleanupTypeOK
  <2>3. Core'
    <3>1. DoomedRight'
      BY <1>0, <2>1, Zenon DEF storeVars, clientVars, cleanupVars, Core, DoomedRight,
         Doomed, Sends, Aborts
    <3>2. CommittedRight'
      BY <1>0, <2>1, Zenon DEF storeVars, clientVars, cleanupVars, Core,
         CommittedRight, Sends
    <3>3. Undecided' /\ Resolving' /\ ErrorRight' /\ Reported'
      BY <1>0, <2>1, Zenon DEF storeVars, clientVars, cleanupVars, Core, Undecided,
         Resolving, ErrorRight, Reported, Sends
    <3>4. CleanerRight' /\ AtrFirst'
      BY <1>0, <2>1, ZenonT(30) DEF storeVars, clientVars, cleanupVars, Core,
         CleanerRight, AtrFirst
    <3>. QED
      BY <3>1, <3>2, <3>3, <3>4 DEF Core
  <2>. QED
    BY <2>2, <2>3
<1>2. ASSUME UNCHANGED clientVars
      PROVE  ClientTypeOK'
  BY <1>0, <1>2 DEF clientVars, TypeOK, ClientTypeOK
<1>3. ASSUME UNCHANGED cleanupVars
      PROVE  CleanupTypeOK'
  BY <1>0, <1>3 DEF cleanupVars, TypeOK, CleanupTypeOK
<1>4. CASE StoreNext(Stopped) /\ UNCHANGED <<clientVars, cleanupVars>>
  <2>1. Stopped \in BOOLEAN
    BY DEF Stopped
  <2>2. StoreTypeOK'
    BY <1>0, <1>4, <2>1, StoreNextTypes DEF TypeOK
  <2>. QED
    BY <1>0, <1>2, <1>3, <1>4, <2>2, StoreNextCore DEF TypeOK
<1>5. ASSUME NEW c \in Cleaners, CleanerNext(c), UNCHANGED clientVars
      PROVE  TypeOK' /\ Core'
  BY <1>0, <1>2, <1>5, CleanerNextTypes, CleanerCore DEF TypeOK
<1>6. CASE ClientNext /\ UNCHANGED cleanupVars
  <2>. SUFFICES StoreTypeOK' /\ ClientTypeOK' /\ Core'
    BY <1>3, <1>6 DEF TypeOK
  <2>0. StoreTypeOK /\ ClientTypeOK
    BY <1>0 DEF TypeOK
  <2>1. ASSUME NEW d \in Docs, NEW t \in Ours, Call(d, t)
        PROVE  StoreTypeOK' /\ ClientTypeOK' /\ Core'
    BY <1>0, <1>6, <2>0, <2>1, CallTypes, CallCore
  <2>2. ASSUME NEW d \in Docs, phase = "logic", Operate(d)
        PROVE  StoreTypeOK' /\ ClientTypeOK' /\ Core'
    <3>1. StoreTypeOK' /\ ClientTypeOK'
      BY <2>0, <2>2, AtrSelectionTypes, SetAtrPendingTypes, StageTypes
         DEF Operate
    <3>. QED
      BY <1>0, <1>6, <2>2, <3>1, OperateCore
  <2>3. CASE Commit \/ LogicFails
    BY <1>0, <1>6, <2>0, <2>3, LogicEndTypes, LogicEndCore
  <2>4. CASE StartItem \/ Crash
    BY <1>0, <1>6, <2>0, <2>4, StartItemTypes, StartItemCore
  <2>5. ASSUME NEW d \in Docs, Unstage(d)
        PROVE  StoreTypeOK' /\ ClientTypeOK' /\ Core'
    BY <1>0, <1>6, <2>0, <2>5, UnstageTypes, UnstageCore
  <2>6. CASE EndAttempt
    <3>1. CASE AtrCommit \/ ResolveAmbiguity \/ CommitDocsEnd \/ AtrComplete
      BY <1>0, <1>6, <2>0, <3>1, CommitEndTypes, AtrCommitCore, ResolveCore,
         CommitDocsEndCore, AtrCompleteCore
    <3>2. CASE \/ HandleError \/ AtrAbort \/ RollbackDocsEnd
               \/ AtrRollbackComplete \/ RolledBack
      <4>1. err # NoError
        BY <1>0, <3>2, Zenon DEF Core, ErrorRight, HandleError, AtrAbort,
           RollbackDocsEnd, AtrRollbackComplete, RolledBack, RollbackPhases
      <4>2. StoreTypeOK' /\ ClientTypeOK'
        BY <2>0, <3>2, <4>1, RollbackEndTypes
      <4>. QED
        BY <1>0, <1>6, <3>2, <4>2, HandleErrorCore, RollbackCore
    <3>. QED
      BY <2>6, <3>1, <3>2 DEF EndAttempt
  <2>. QED
    BY <1>6, <2>1, <2>2, <2>3, <2>4, <2>5, <2>6 DEF ClientNext
<1>. QED
  BY <1>1, <1>4, <1>5, <1>6 DEF Next

\* The inductive invariant: what the entry, a late request, a cleaner's copy
\* of the entry, the phase and the result say about the decision agree.
THEOREM Invariance == Spec => []IInv
BY InitIInv, NextIInv, PTL DEF Spec

\* The variables of attempt, cleaners and server keep their types.
THEOREM TypeCorrect == Spec => []TypeOK
<1>1. IInv => TypeOK
  BY DEF IInv
<1>. QED
  BY <1>1, Invariance, PTL

\* An attempt is atomic: commit_doc, remove_doc and the cleaners publish only
\* what is committed, and neither the rollback nor a cleaner undoes a
\* mutation of a committed attempt.
THEOREM Atomicity == Spec => []AllOrNothing
<1>1. IInv => AllOrNothing
  BY Zenon DEF IInv, DoomedRight, CommittedRight, Doomed, AllOrNothing
<1>. QED
  BY <1>1, Invariance, PTL

\* The result that transaction_context gives the application is true, and
\* stays true whatever request is still on its way.
THEOREM ResultsAreTrue == Spec => []ResultIsTrue
<1>1. IInv => ResultIsTrue
  BY Zenon DEF IInv, DoomedRight, CommittedRight, Doomed, ResultIsTrue, Listed
<1>. QED
  BY <1>1, Invariance, PTL

\* What a step may do to the entry and to the decision.
EntryStep ==
  /\ committed => committed'
  /\ \/ UNCHANGED atr
     \/ atr'.status \in {"NONE", "COMMITTED", "ABORTED"}
     \/ atr.status = "NONE"

LEMMA ApplyEntryStep ==
  ASSUME StoreTypeOK, NEW r, NEW ids, Apply(r, ids)
  PROVE  EntryStep
<1>1. CASE r = "pending"
  BY <1>1 DEF Apply, PendingOk, EntryStep
<1>2. CASE r = "commit"
  BY <1>2, ApplyEffects DEF EntryStep
<1>3. CASE r \notin {"pending", "commit"}
  BY <1>3, ApplyEffects, AbortedEntry DEF EntryStep
<1>. QED
  BY <1>1, <1>2, <1>3

LEMMA EntrySteps ==
  ASSUME TypeOK, [Next]_vars
  PROVE  EntryStep
<1>0. StoreTypeOK /\ NoEntry.status = "NONE"
  BY DEF TypeOK, NoEntry
<1>1. ASSUME AtrUnchanged
      PROVE  EntryStep
  BY <1>1 DEF AtrUnchanged, EntryStep
<1>2. ASSUME NEW r, NEW ids, Ambiguous(r, ids)
      PROVE  EntryStep
  BY <1>0, <1>2, ApplyEntryStep DEF Ambiguous, EntryStep
<1>3. CASE UNCHANGED vars
  BY <1>3 DEF vars, storeVars, EntryStep
<1>4. CASE StoreNext(Stopped)
  <2>1. CASE LateArrives
    BY <1>0, <2>1, ApplyEntryStep DEF LateArrives, EntryStep
  <2>. QED
    BY Zenon, <1>1, <1>4, <2>1
       DEF StoreNext, Tick, OtherChecks, OtherStages, OtherEnds
<1>5. ASSUME NEW c \in Cleaners, CleanerNext(c)
      PROVE  EntryStep
  <2>1. CASE DocsCleaned(c)
    BY <2>1 DEF DocsCleaned, storeVars, EntryStep
  <2>2. CASE CleanEntry(c)
    BY <1>0, <2>2 DEF CleanEntry, EntryStep
  <2>. QED
    BY ZenonT(30), <1>1, <1>5, <2>1, <2>2
       DEF CleanerNext, StartQueued, StartLost, ReadDoc, WriteDoc
<1>6. CASE ClientNext
  <2>1. CASE \E d \in Docs, t \in Ours : Call(d, t)
    BY <1>1, <2>1, Zenon DEF Call
  <2>2. ASSUME NEW d \in Docs, Operate(d)
        PROVE  EntryStep
    <3>1. CASE SetAtrPending(d)
      BY <1>0, <1>1, <1>2, <3>1, ApplyEntryStep DEF SetAtrPending
    <3>. QED
      BY <1>1, <2>2, <3>1, ZenonT(30) DEF Operate, SelectAtr, RetryAtrPending, StageWithCas,
         StageInsert, RemoveStagedInsert, StageFrame, ServerUnchanged
  <2>3. CASE Commit \/ LogicFails
    BY <1>1, <2>3 DEF Commit, LogicFails, ServerUnchanged
  <2>4. CASE StartItem \/ \E d \in Docs : Unstage(d)
    BY <1>1, <2>4, Zenon DEF StartItem, Unstage, CommitDoc, RemoveDoc, RollbackDoc,
       ItemFrame
  <2>5. CASE EndAttempt
    <3>1. CASE AtrCommit
      BY <1>0, <1>1, <1>2, <3>1, ApplyEntryStep DEF AtrCommit
    <3>2. CASE AtrAbort
      BY <1>0, <1>1, <1>2, <3>2, ApplyEntryStep DEF AtrAbort
    <3>3. CASE AtrComplete \/ AtrRollbackComplete
      BY <1>0, <3>3 DEF AtrComplete, AtrRollbackComplete, EntryStep
    <3>. QED
      BY ZenonT(30), <1>1, <2>5, <3>1, <3>2, <3>3
         DEF EndAttempt, ResolveAmbiguity, CommitDocsEnd, HandleError,
             RollbackDocsEnd, RolledBack, ServerUnchanged
  <2>6. CASE Crash
    BY <2>6 DEF Crash, storeVars, EntryStep
  <2>. QED
    BY <1>6, <2>1, <2>2, <2>3, <2>4, <2>5, <2>6 DEF ClientNext
<1>. QED
  BY <1>3, <1>4, <1>5, <1>6 DEF Next

\* A committed entry is never aborted, or pending again, by whatever request
\* arrives late: it can only be removed.
THEOREM CommitsAreFinal == Spec => CommitIsFinal
<1>1. ASSUME IInv, [Next]_vars
      PROVE  [atr.status = "COMMITTED" =>
                atr'.status \in {"COMMITTED", "NONE"}]_vars
  <2>. SUFFICES ASSUME atr.status = "COMMITTED"
                PROVE  atr'.status \in {"COMMITTED", "NONE"}
    OBVIOUS
  <2>1. EntryStep
    BY <1>1, EntrySteps DEF IInv
  <2>2. IInv'
    BY <1>1, NextIInv
  <2>3. committed'
    BY <1>1, <2>1, Zenon DEF IInv, CommittedRight, EntryStep
  <2>4. atr'.status # "ABORTED"
    BY <2>2, <2>3, Zenon DEF IInv, DoomedRight, Doomed
  <2>. QED
    BY <2>1, <2>4 DEF EntryStep
<1>. QED
  BY <1>1, Invariance, PTL DEF Spec, CommitIsFinal
=============================================================================
