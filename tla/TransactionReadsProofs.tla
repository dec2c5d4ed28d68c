----------------------- MODULE TransactionReadsProofs -----------------------
(***************************************************************************)
(* Proofs about TransactionReads: another transaction reads nothing of the  *)
(* attempt before the attempt is committed, and all of it afterwards, for   *)
(* any number of documents, cleaners, calls and faults, as long as no third *)
(* transaction mutates the documents.                                       *)
(***************************************************************************)
EXTENDS TransactionReads, TransactionPromise, FiniteSetTheorems

-----------------------------------------------------------------------------
(* Without other transactions: what a step does to the documents.           *)

NoOthers == casOf["other"] = {} /\ \A d \in Docs : doc[d].stg \notin Others

\* A document is staged, unlinked, or published.
Links(d) ==
  /\ ~committed
  /\ fate'[d] = fate[d]
  /\ \E k \in Ours : /\ doc'[d] = Staged(d, k)
                     /\ k = "insert" => kind[d] = "insert" \/ ~doc[d].live

Unlinks(d) ==
  /\ ~committed
  /\ fate'[d] \in {fate[d], "undone"}
  /\ \/ doc'[d] = Unlinked(d)
     \/ /\ doc'[d] = Removed
        /\ \E c \in Cleaners :
             /\ cpc[c] = "write" /\ entry[c].status = "ABORTED"
             /\ found[c].d = d /\ found[c].v.live
             /\ entry[c].ids[d] = "insert"

Publishes(d) ==
  /\ committed
  /\ fate'[d] \in {fate[d], "published"}
  /\ \/ doc'[d] = IF kind[d] = "remove" THEN Removed ELSE Written
     \/ \E c \in Cleaners :
          /\ cpc[c] = "write" /\ entry[c].status = "COMMITTED" /\ found[c].d = d
          /\ doc'[d] = IF entry[c].ids[d] = "remove" THEN Removed ELSE Written

Rests(d) == doc'[d] = doc[d] /\ fate'[d] = fate[d]

DocStep(d) == Rests(d) \/ Links(d) \/ Unlinks(d) \/ Publishes(d)

DocSteps ==
  /\ casOf'["other"] = {}
  /\ \A d \in Docs : DocStep(d)

\* A write changes one document, and tells no other transaction its CAS.
LEMMA OneWrite ==
  ASSUME TypeOK, NoOthers, NEW d \in Docs, NEW v, NEW hs, "other" \notin hs,
         Mutate(d, v, hs)
  PROVE  /\ casOf'["other"] = {}
         /\ doc'[d] = v
         /\ \A x \in Docs : x # d => doc'[x] = doc[x]
<1>1. "other" \in Holders
  BY DEF Holders
<1>. QED
  BY <1>1 DEF Mutate, NoOthers, TypeOK, StoreTypeOK

LEMMA OneFate ==
  ASSUME TypeOK, NEW d \in Docs, NEW v, NEW w, Decide(d, v, w)
  PROVE  /\ fate'[d] \in {fate[d], w}
         /\ \A x \in Docs : x # d => fate'[x] = fate[x]
BY DEF Decide, TypeOK, StoreTypeOK

LEMMA OneLearns ==
  ASSUME TypeOK, NoOthers, NEW d \in Docs, NEW h \in Holders, h # "other",
         Learn(h, d)
  PROVE  casOf'["other"] = {}
<1>1. "other" \in Holders
  BY DEF Holders
<1>. QED
  BY <1>1 DEF Learn, NoOthers, TypeOK, StoreTypeOK

\* A step that writes no document.
LEMMA DocsRest ==
  ASSUME NoOthers, UNCHANGED <<doc, fate>>, casOf'["other"] = {}
  PROVE  DocSteps
BY DEF DocSteps, DocStep, Rests

LEMMA StagingDocs ==
  ASSUME IInv, NoOthers, NEW d \in Docs, phase = "logic",
         StageWithCas(d) \/ StageInsert(d) \/ RemoveStagedInsert(d)
  PROVE  DocSteps
<1>0. TypeOK /\ ~committed /\ fate' = fate
  BY Zenon DEF IInv, Undecided, StageWithCas, StageInsert, RemoveStagedInsert
<1>1. "client" \in Holders /\ "client" # "other"
  BY DEF Holders
<1>2. ASSUME UNCHANGED <<doc, casOf>>
      PROVE  DocSteps
  BY <1>0, <1>2, DocsRest DEF NoOthers
<1>3. ASSUME UNCHANGED doc, Learn("client", d)
      PROVE  DocSteps
  BY <1>0, <1>1, <1>3, DocsRest, OneLearns
<1>4. ASSUME NEW k \in Ours, NEW hs, hs = {} \/ hs = {"client"},
             Mutate(d, Staged(d, k), hs),
             k = "insert" => kind[d] = "insert" \/ ~doc[d].live
      PROVE  DocSteps
  <2>1. /\ casOf'["other"] = {}
        /\ doc'[d] = Staged(d, k)
        /\ \A x \in Docs : x # d => doc'[x] = doc[x]
    BY <1>0, <1>1, <1>4, OneWrite
  <2>2. Links(d)
    BY <1>0, <1>4, <2>1 DEF Links
  <2>3. \A x \in Docs : x # d => Rests(x)
    BY <1>0, <2>1 DEF Rests
  <2>. QED
    BY <2>1, <2>2, <2>3 DEF DocSteps, DocStep
<1>5. ASSUME Mutate(d, Unlinked(d), {})
      PROVE  DocSteps
  <2>1. /\ casOf'["other"] = {}
        /\ doc'[d] = Unlinked(d)
        /\ \A x \in Docs : x # d => doc'[x] = doc[x]
    BY <1>0, <1>5, OneWrite
  <2>2. Unlinks(d)
    BY <1>0, <2>1 DEF Unlinks
  <2>3. \A x \in Docs : x # d => Rests(x)
    BY <1>0, <2>1 DEF Rests
  <2>. QED
    BY <2>1, <2>2, <2>3 DEF DocSteps, DocStep
<1>6. CASE StageWithCas(d)
  <2>1. want[d] \in Ours /\ want[d] # "insert"
    BY <1>6 DEF StageWithCas, Ours
  <2>2. \/ Mutate(d, Staged(d, want[d]), {"client"})
        \/ Mutate(d, Staged(d, want[d]), {})
        \/ UNCHANGED <<doc, casOf>>
    BY <1>6 DEF StageWithCas
  <2>. QED
    BY <1>2, <1>4, <2>1, <2>2
<1>7. CASE StageInsert(d)
  <2>1. "insert" \in Ours
    BY DEF Ours
  <2>2. \/ InsertFits(d) /\ Mutate(d, Staged(d, "insert"), {"client"})
        \/ InsertFits(d) /\ Mutate(d, Staged(d, "insert"), {})
        \/ UNCHANGED doc /\ Learn("client", d)
        \/ UNCHANGED <<doc, casOf>>
    BY <1>7, Zenon DEF StageInsert
  <2>3. InsertFits(d) => kind[d] = "insert" \/ ~doc[d].live
    BY DEF InsertFits
  <2>. QED
    BY <1>2, <1>3, <1>4, <2>1, <2>2, <2>3
<1>8. CASE RemoveStagedInsert(d)
  <2>1. Mutate(d, Unlinked(d), {}) \/ UNCHANGED <<doc, casOf>>
    BY <1>8, Zenon DEF RemoveStagedInsert
  <2>. QED
    BY <1>2, <1>5, <2>1
<1>. QED
  BY <1>6, <1>7, <1>8
LEMMA UnstagingDocs ==
  ASSUME IInv, NoOthers, NEW d \in Docs, Unstage(d)
  PROVE  DocSteps
<1>0. TypeOK /\ "other" \notin {} /\ "other" \notin {"client"}
  BY DEF IInv
<1>1. ASSUME DocsUnchanged
      PROVE  DocSteps
  BY <1>1, DocsRest DEF DocsUnchanged, NoOthers
<1>2. ASSUME NEW v, NEW hs, hs = {} \/ hs = {"client"}, NEW w,
             Mutate(d, v, hs), Decide(d, v, w),
             \/ /\ committed /\ w = "published"
                /\ v = IF kind[d] = "remove" THEN Removed ELSE Written
             \/ ~committed /\ w = "undone" /\ v = Unlinked(d)
      PROVE  DocSteps
  <2>1. /\ casOf'["other"] = {}
        /\ doc'[d] = v
        /\ \A x \in Docs : x # d => doc'[x] = doc[x]
    BY <1>0, <1>2, OneWrite
  <2>2. /\ fate'[d] \in {fate[d], w}
        /\ \A x \in Docs : x # d => fate'[x] = fate[x]
    BY <1>0, <1>2, OneFate
  <2>3. Publishes(d) \/ Unlinks(d)
    BY <1>2, <2>1, <2>2 DEF Publishes, Unlinks
  <2>4. \A x \in Docs : x # d => Rests(x)
    BY <2>1, <2>2 DEF Rests
  <2>. QED
    BY <2>1, <2>3, <2>4 DEF DocSteps, DocStep
<1>3. CASE CommitDoc(d)
  <2>1. committed /\ kind[d] # "remove"
    BY <1>3 DEF CommitDoc, IInv, CommittedRight
  <2>2. CommitWrite(d) = Written
    BY Zenon DEF CommitWrite, Written, Published, NoOthers
  <2>3. \/ DocsUnchanged
        \/ \E hs \in {{}, {"client"}} :
             /\ Mutate(d, CommitWrite(d), hs)
             /\ Decide(d, CommitWrite(d), "published")
    BY <1>3 DEF CommitDoc
  <2>. QED
    BY <1>1, <1>2, <2>1, <2>2, <2>3
<1>4. CASE RemoveDoc(d)
  <2>1. committed /\ kind[d] = "remove"
    BY <1>4 DEF RemoveDoc, IInv, CommittedRight
  <2>2. \/ DocsUnchanged
        \/ \E hs \in {{}, {"client"}} :
             Mutate(d, Removed, hs) /\ Decide(d, Removed, "published")
    BY <1>4 DEF RemoveDoc
  <2>. QED
    BY <1>1, <1>2, <2>1, <2>2
<1>5. CASE RollbackDoc(d)
  <2>1. ~committed
    BY <1>5 DEF RollbackDoc, IInv, DoomedRight, RollbackPhases, Doomed
  <2>2. \/ DocsUnchanged
        \/ \E hs \in {{}, {"client"}} :
             Mutate(d, Unlinked(d), hs) /\ Decide(d, Unlinked(d), "undone")
    BY <1>5 DEF RollbackDoc
  <2>. QED
    BY <1>1, <1>2, <2>1, <2>2
<1>. QED
  BY <1>3, <1>4, <1>5 DEF Unstage

LEMMA CleanerDocs ==
  ASSUME IInv, NoOthers, NEW c \in Cleaners, CleanerNext(c)
  PROVE  DocSteps
<1>0. TypeOK /\ c # "other" /\ c \in Holders
  BY StoreAssumption DEF IInv, Holders
<1>1. ASSUME DocsUnchanged
      PROVE  DocSteps
  BY <1>1, DocsRest DEF DocsUnchanged, NoOthers
<1>2. CASE StartQueued(c) \/ StartLost(c) \/ DocsCleaned(c) \/ CleanEntry(c)
  BY <1>1, <1>2 DEF StartQueued, StartLost, DocsCleaned, CleanEntry,
     DocsUnchanged, storeVars
<1>3. CASE ReadDoc(c)
  <2>1. PICK d \in todo[c] : Learn(c, d) \/ UNCHANGED casOf
    BY <1>3 DEF ReadDoc
  <2>2. d \in Docs
    BY <1>0, <2>1 DEF TypeOK, CleanupTypeOK
  <2>3. casOf'["other"] = {}
    BY <1>0, <2>1, <2>2, OneLearns DEF NoOthers
  <2>4. UNCHANGED <<doc, fate>>
    BY <1>3 DEF ReadDoc
  <2>. QED
    BY <2>3, <2>4, DocsRest
<1>4. CASE WriteDoc(c)
  <2>. PICK e, d, v, what : /\ e = entry[c] /\ d = found[c].d /\ v = found[c].v
                            /\ what = IF e.status = "COMMITTED" THEN "published"
                                      ELSE "undone"
    OBVIOUS
  <2>1. cpc[c] = "write" /\ d \in Docs
    BY <1>0, <1>4 DEF WriteDoc, TypeOK, CleanupTypeOK
  <2>2. \/ DocsUnchanged
        \/ \E hs \in {{}, {c}} :
             Mutate(d, Write(e, d, v), hs) /\ Decide(d, Write(e, d, v), what)
    BY <1>4 DEF WriteDoc
  <2>3. ASSUME NEW hs \in {{}, {c}}, Mutate(d, Write(e, d, v), hs),
               Decide(d, Write(e, d, v), what)
        PROVE  DocSteps
    <3>1. /\ casOf'["other"] = {}
          /\ doc'[d] = Write(e, d, v)
          /\ \A x \in Docs : x # d => doc'[x] = doc[x]
      BY <1>0, <2>1, <2>3, OneWrite
    <3>2. /\ fate'[d] \in {fate[d], what}
          /\ \A x \in Docs : x # d => fate'[x] = fate[x]
      BY <1>0, <2>1, <2>3, OneFate
    <3>3. e.status \in {"COMMITTED", "ABORTED"}
      BY <2>1 DEF IInv, CleanerRight
    <3>4. ASSUME e.status = "COMMITTED"
          PROVE  Publishes(d)
      <4>1. committed
        BY <3>4 DEF IInv, CommittedRight
      <4>. QED
        BY <2>1, <3>1, <3>2, <3>4, <4>1 DEF Publishes, Write
    <3>5. ASSUME e.status = "ABORTED"
          PROVE  Unlinks(d)
      <4>1. ~committed
        BY <3>5 DEF IInv, DoomedRight, Doomed
      <4>. QED
        BY <2>1, <3>1, <3>2, <3>5, <4>1 DEF Unlinks, Write
    <3>6. \A x \in Docs : x # d => Rests(x)
      BY <3>1, <3>2 DEF Rests
    <3>. QED
      BY <3>1, <3>3, <3>4, <3>5, <3>6 DEF DocSteps, DocStep
  <2>. QED
    BY <1>1, <2>2, <2>3
<1>. QED
  BY <1>2, <1>3, <1>4 DEF CleanerNext

LEMMA NextDocs ==
  ASSUME ~Foreign, IInv, NoOthers, [Next]_vars
  PROVE  DocSteps
<1>0. TypeOK /\ "client" \in Holders
  BY DEF IInv, Holders
<1>1. ASSUME DocsUnchanged
      PROVE  DocSteps
  BY <1>1, DocsRest DEF DocsUnchanged, NoOthers
<1>2. CASE UNCHANGED vars
  BY <1>1, <1>2 DEF vars, storeVars, DocsUnchanged
<1>3. CASE StoreNext(Stopped)
  <2>1. \A d \in Docs : ~OtherChecks(d) /\ ~OtherStages(d) /\ ~OtherEnds(d)
    BY DEF OtherChecks, OtherStages, OtherEnds, Current, NoOthers, Others
  <2>. QED
    BY <1>1, <1>3, <2>1 DEF StoreNext, LateArrives, Tick
<1>4. ASSUME NEW c \in Cleaners, CleanerNext(c)
      PROVE  DocSteps
  BY <1>4, CleanerDocs
<1>5. CASE ClientNext
  <2>1. ASSUME NEW d \in Docs, NEW t \in Ours, Call(d, t)
        PROVE  DocSteps
    <3>1. casOf'["other"] = {}
      BY <1>0, <2>1, OneLearns DEF Call, NoOthers
    <3>2. UNCHANGED <<doc, fate>>
      BY <2>1 DEF Call
    <3>. QED
      BY <3>1, <3>2, DocsRest
  <2>2. ASSUME NEW d \in Docs, phase = "logic", Operate(d)
        PROVE  DocSteps
    <3>1. CASE SelectAtr(d) \/ RetryAtrPending(d) \/ SetAtrPending(d)
      BY <1>1, <3>1 DEF SelectAtr, RetryAtrPending, SetAtrPending, ServerUnchanged
    <3>. QED
      BY <2>2, <3>1, StagingDocs DEF Operate
  <2>3. CASE Commit \/ LogicFails \/ StartItem
    BY <1>1, <2>3 DEF Commit, LogicFails, StartItem, ServerUnchanged
  <2>4. ASSUME NEW d \in Docs, Unstage(d)
        PROVE  DocSteps
    BY <2>4, UnstagingDocs
  <2>5. CASE EndAttempt
    BY <1>1, <2>5 DEF EndAttempt, AtrCommit, ResolveAmbiguity, CommitDocsEnd,
       AtrComplete, HandleError, AtrAbort, RollbackDocsEnd, AtrRollbackComplete,
       RolledBack, ServerUnchanged
  <2>6. CASE Crash
    BY <1>1, <2>6 DEF Crash, storeVars, DocsUnchanged
  <2>. QED
    BY <1>5, <2>1, <2>2, <2>3, <2>4, <2>5, <2>6 DEF ClientNext
<1>. QED
  BY <1>2, <1>3, <1>4, <1>5 DEF Next

-----------------------------------------------------------------------------
(* What a step does to the lists of documents.                              *)

\* The entry and a request on its way list what was staged when the request
\* was sent; a cleaner works with the entry as it was; the attempt lists an
\* insert when it finds the document inserted.
ListSteps ==
  /\ atr'.ids \in {atr.ids, NoDocs, kind} \cup {m[2] : m \in late}
  /\ \A m \in late' : m \in late \/ m[2] \in {NoDocs, kind}
  /\ \A c \in Cleaners : entry'[c] \in {entry[c], atr, NoEntry}
  /\ \A d \in Docs : kind'[d] = "insert" =>
       kind[d] = "insert" \/ doc'[d].stg = "insert"

LEMMA NoDocsListed == NoEntry.ids = NoDocs /\ PendingEffect.ids = NoDocs
BY DEF NoEntry, PendingEffect

LEMMA ApplyLists ==
  ASSUME TypeOK, NEW r, NEW ids, Apply(r, ids)
  PROVE  atr'.ids \in {atr.ids, NoDocs, ids}
<1>1. atr \in Entries
  BY DEF TypeOK, StoreTypeOK
<1>2. CommitEffect(ids).ids = ids /\ AbortEffect(ids).ids = ids
  BY <1>1 DEF CommitEffect, AbortEffect, Entries
<1>3. atr' \in {atr, PendingEffect, CommitEffect(ids), AbortEffect(ids)}
  BY DEF Apply
<1>. QED
  BY <1>2, <1>3, NoDocsListed

LEMMA AmbiguousLists ==
  ASSUME TypeOK, NEW r, NEW ids, Ambiguous(r, ids)
  PROVE  /\ atr'.ids \in {atr.ids, NoDocs, ids}
         /\ \A m \in late' : m \in late \/ m[2] = ids
BY ApplyLists DEF Ambiguous

LEMMA NextLists ==
  ASSUME TypeOK, [Next]_vars
  PROVE  ListSteps
<1>1. ASSUME UNCHANGED <<atr, late, entry, kind>>
      PROVE  ListSteps
  BY <1>1 DEF ListSteps
<1>2. CASE UNCHANGED vars
  BY <1>1, <1>2 DEF vars, storeVars, clientVars, cleanupVars
<1>3. CASE StoreNext(Stopped) /\ UNCHANGED <<clientVars, cleanupVars>>
  <2>0. UNCHANGED <<entry, kind>>
    BY <1>3 DEF clientVars, cleanupVars
  <2>1. CASE LateArrives
    <3>1. atr'.ids \in {atr.ids, NoDocs} \cup {m[2] : m \in late}
      BY <2>1, ApplyLists DEF LateArrives
    <3>. QED
      BY <2>0, <2>1, <3>1 DEF LateArrives, ListSteps
  <2>. QED
    BY <1>1, <1>3, <2>0, <2>1 DEF StoreNext, Tick, OtherChecks, OtherStages,
       OtherEnds, AtrUnchanged
<1>4. ASSUME NEW c \in Cleaners, CleanerNext(c), UNCHANGED clientVars
      PROVE  ListSteps
  <2>0. UNCHANGED <<late, kind>>
    BY <1>4, Zenon DEF clientVars, CleanerNext, StartQueued, StartLost, ReadDoc,
       WriteDoc, DocsCleaned, CleanEntry, AtrUnchanged, storeVars
  <2>1. atr'.ids \in {atr.ids, NoDocs}
    <3>1. CASE CleanEntry(c)
      BY <3>1, NoDocsListed DEF CleanEntry
    <3>. QED
      BY <1>4, <3>1, Zenon DEF CleanerNext, StartQueued, StartLost, ReadDoc,
         WriteDoc, DocsCleaned, AtrUnchanged, storeVars
  <2>2. \A x \in Cleaners : entry'[x] \in {entry[x], atr, NoEntry}
    <3>1. \/ UNCHANGED entry
          \/ entry' = [entry EXCEPT ![c] = atr]
          \/ entry' = [entry EXCEPT ![c] = NoEntry]
      BY <1>4, Zenon DEF CleanerNext, StartQueued, StartLost, ReadDoc,
         WriteDoc, DocsCleaned, CleanEntry, Starts, Ends, cleanupVars
    <3>. QED
      BY <3>1 DEF TypeOK, CleanupTypeOK
  <2>. QED
    BY <2>0, <2>1, <2>2 DEF ListSteps
<1>5. CASE ClientNext /\ UNCHANGED cleanupVars
  <2>0. UNCHANGED entry
    BY <1>5 DEF cleanupVars
  <2>1. CASE \E d \in Docs, t \in Ours : Call(d, t)
    BY <1>1, <2>0, <2>1 DEF Call, StagedUnchanged, AtrUnchanged
  <2>2. ASSUME NEW d \in Docs, Operate(d)
        PROVE  ListSteps
    <3>1. CASE SelectAtr(d) \/ RetryAtrPending(d)
      BY <1>1, <2>0, <3>1 DEF SelectAtr, RetryAtrPending, StagedUnchanged,
         ServerUnchanged, AtrUnchanged
    <3>2. CASE SetAtrPending(d)
      <4>1. UNCHANGED kind
        BY <3>2 DEF SetAtrPending, StagedUnchanged
      <4>2. /\ atr'.ids \in {atr.ids, NoDocs}
            /\ \A m \in late' : m \in late \/ m[2] = NoDocs
        BY <3>2, ApplyLists, AmbiguousLists DEF SetAtrPending, AtrUnchanged
      <4>. QED
        BY <2>0, <4>1, <4>2 DEF ListSteps
    <3>3. CASE StageWithCas(d) \/ StageInsert(d) \/ RemoveStagedInsert(d)
      <4>1. UNCHANGED <<atr, late>>
        BY <3>3, Zenon DEF StageWithCas, StageInsert, RemoveStagedInsert, StageFrame,
           AtrUnchanged
      <4>2. \/ UNCHANGED kind
            \/ kind' = [kind EXCEPT ![d] = want[d]] /\ want[d] # "insert"
            \/ kind' = [kind EXCEPT ![d] = "none"]
            \/ /\ kind' = [kind EXCEPT ![d] = "insert"]
               /\ \/ Mutate(d, Staged(d, "insert"), {"client"})
                  \/ doc[d].stg = "insert" /\ UNCHANGED doc
        BY <3>3, Zenon DEF StageWithCas, StageInsert, RemoveStagedInsert,
           StagedUnchanged, OpStaged
      <4>3. Mutate(d, Staged(d, "insert"), {"client"}) => doc'[d].stg = "insert"
        BY DEF Mutate, Staged, TypeOK, StoreTypeOK, Documents
      <4>4. \A x \in Docs : kind'[x] = "insert" =>
              kind[x] = "insert" \/ doc'[x].stg = "insert"
        BY <4>2, <4>3 DEF TypeOK, ClientTypeOK
      <4>. QED
        BY <2>0, <4>1, <4>4 DEF ListSteps
    <3>. QED
      BY <2>2, <3>1, <3>2, <3>3 DEF Operate
  <2>3. CASE Commit \/ LogicFails \/ StartItem \/ Crash \/ \E d \in Docs : Unstage(d)
    BY <1>1, <2>0, <2>3, Zenon DEF Commit, LogicFails, StartItem, Crash, Unstage,
       CommitDoc, RemoveDoc, RollbackDoc, ItemFrame, EndFrame, OpsDone,
       ServerUnchanged, AtrUnchanged, storeVars
  <2>4. CASE EndAttempt
    <3>0. UNCHANGED kind
      BY <2>4, Zenon DEF EndAttempt, AtrCommit, ResolveAmbiguity, CommitDocsEnd,
         AtrComplete, HandleError, AtrAbort, RollbackDocsEnd,
         AtrRollbackComplete, RolledBack, EndFrame, OpsDone
    <3>1. /\ atr'.ids \in {atr.ids, NoDocs, kind}
          /\ \A m \in late' : m \in late \/ m[2] = kind
      <4>1. CASE AtrCommit
        BY <4>1, ApplyLists, AmbiguousLists, Zenon DEF AtrCommit, AtrUnchanged
      <4>2. CASE AtrAbort
        BY <4>2, ApplyLists, AmbiguousLists, Zenon DEF AtrAbort, AtrUnchanged
      <4>3. CASE AtrComplete \/ AtrRollbackComplete
        BY <4>3, NoDocsListed DEF AtrComplete, AtrRollbackComplete
      <4>. QED
        BY <2>4, <4>1, <4>2, <4>3 DEF EndAttempt, ResolveAmbiguity, CommitDocsEnd,
           HandleError, RollbackDocsEnd, RolledBack, ServerUnchanged, AtrUnchanged
    <3>. QED
      BY <2>0, <3>0, <3>1 DEF ListSteps
  <2>. QED
    BY <1>5, <2>1, <2>2, <2>3, <2>4 DEF ClientNext
<1>. QED
  BY <1>2, <1>3, <1>4, <1>5 DEF Next

\* What a cleaner is about to write it read when the entry was the same.
FoundSteps ==
  \A c \in Cleaners : cpc'[c] = "write" =>
    /\ entry'[c] = entry[c]
    /\ \/ cpc[c] = "write" /\ found'[c] = found[c]
       \/ \E d \in Docs : found'[c] = [d |-> d, v |-> doc[d]]

LEMMA NextFound ==
  ASSUME TypeOK, [Next]_vars
  PROVE  FoundSteps
<1>1. ASSUME UNCHANGED cleanupVars
      PROVE  FoundSteps
  BY <1>1 DEF cleanupVars, FoundSteps
<1>2. ASSUME NEW c \in Cleaners, CleanerNext(c)
      PROVE  FoundSteps
  <2>. USE DEF TypeOK, CleanupTypeOK
  <2>1. CASE StartQueued(c) \/ StartLost(c)
    BY <1>1, <2>1 DEF StartQueued, StartLost, Starts, Goes, FoundSteps
  <2>2. CASE ReadDoc(c)
    BY <2>2 DEF ReadDoc, Goes, FoundSteps
  <2>3. CASE WriteDoc(c)
    BY <2>3, Zenon DEF WriteDoc, Goes, Ends, FoundSteps
  <2>4. CASE DocsCleaned(c) \/ CleanEntry(c)
    BY <2>4, Zenon DEF DocsCleaned, CleanEntry, Goes, Ends, FoundSteps
  <2>. QED
    BY <1>2, <2>1, <2>2, <2>3, <2>4 DEF CleanerNext
<1>. QED
  BY <1>1, <1>2 DEF Next, vars

-----------------------------------------------------------------------------
(* The documents before the decision.                                       *)

Before(d) == IF d \in Existing THEN "old" ELSE "none"

\* Only documents that did not exist are inserted.
New(ids) == \A d \in Docs : ids[d] = "insert" => d \notin Existing

InsertsAreNew ==
  /\ \A d \in Docs : doc[d].stg = "insert" => d \notin Existing
  /\ New(kind) /\ New(atr.ids)
  /\ \A c \in Cleaners : New(entry[c].ids)
  /\ \A m \in late : New(m[2])

\* Until the attempt is committed, the documents are what they were; a cleaner
\* that rolls it back has seen them so.
BodiesRest ==
  /\ ~committed => \A d \in Docs : /\ doc[d].live = (d \in Existing)
                                   /\ doc[d].body = Before(d)
  /\ \A c \in Cleaners :
       cpc[c] = "write" /\ entry[c].status = "ABORTED" /\ found[c].v.live =>
         found[c].d \in Existing

DInv == NoOthers /\ InsertsAreNew /\ BodiesRest

LEMMA InitDInv == Init => DInv
<1>. SUFFICES ASSUME Init PROVE DInv
  OBVIOUS
<1>. USE DEF Init, StoreInit, ClientInit, CleanupInit
<1>1. NoOthers
  BY DEF NoOthers, Holders, Others
<1>2. InsertsAreNew
  BY DEF InsertsAreNew, New, NoEntry, NoDocs
<1>3. BodiesRest
  BY DEF BodiesRest, Before
<1>. QED
  BY <1>1, <1>2, <1>3 DEF DInv

LEMMA NextDInv ==
  ASSUME ~Foreign, IInv, IInv', DInv, [Next]_vars
  PROVE  DInv'
<1>0. TypeOK /\ NoOthers /\ InsertsAreNew /\ BodiesRest
  BY DEF IInv, DInv
<1>1. DocSteps /\ ListSteps /\ FoundSteps
  BY <1>0, NextDocs, NextLists, NextFound
<1>2. committed => committed'
  BY <1>0, EntrySteps DEF EntryStep
<1>3. \A d \in Docs :
        /\ doc[d] \in Documents
        /\ Unlinked(d) = [doc[d] EXCEPT !.stg = "none"]
        /\ \A k \in Ours : Staged(d, k) = [doc[d] EXCEPT !.stg = k]
  BY <1>0 DEF TypeOK, StoreTypeOK, Unlinked, Staged
<1>4. NoOthers'
  <2>. SUFFICES ASSUME NEW d \in Docs PROVE doc'[d].stg \notin Others
    BY <1>1 DEF NoOthers, DocSteps
  <2>1. /\ DocStep(d) /\ doc[d].stg \notin Others
        /\ "none" \notin Others /\ \A k \in Ours : k \notin Others
    BY <1>0, <1>1 DEF NoOthers, DocSteps, Ours, Others
  <2>. QED
    BY <1>3, <2>1 DEF DocStep, Rests, Links, Unlinks, Publishes, Documents,
       Removed, Written
<1>5. ASSUME NEW d \in Docs, ~committed
      PROVE  /\ doc'[d].live = doc[d].live /\ doc'[d].body = doc[d].body
             /\ doc'[d].stg = "insert" =>
                  doc[d].stg = "insert" \/ kind[d] = "insert" \/ ~doc[d].live
  <2>1. DocStep(d) /\ ~Publishes(d)
    BY <1>1, <1>5 DEF DocSteps, Publishes
  <2>2. ASSUME NEW c \in Cleaners, cpc[c] = "write", entry[c].status = "ABORTED",
               found[c].d = d, found[c].v.live, entry[c].ids[d] = "insert"
        PROVE  FALSE
    BY <1>0, <2>2 DEF InsertsAreNew, New, BodiesRest
  <2>3. CASE Rests(d)
    BY <2>3 DEF Rests
  <2>4. CASE Links(d)
    BY <1>3, <2>4 DEF Links, Documents
  <2>5. CASE Unlinks(d)
    BY <1>3, <2>2, <2>5 DEF Unlinks, Documents
  <2>. QED
    BY <2>1, <2>3, <2>4, <2>5 DEF DocStep
<1>6. BodiesRest'
  <2>1. ~committed' => \A d \in Docs : /\ doc'[d].live = (d \in Existing)
                                       /\ doc'[d].body = Before(d)
    BY <1>0, <1>2, <1>5 DEF BodiesRest
  <2>2. ASSUME NEW c \in Cleaners, cpc'[c] = "write",
               entry'[c].status = "ABORTED", found'[c].v.live
        PROVE  found'[c].d \in Existing
    <3>1. entry[c].status = "ABORTED" /\ ~committed
      BY <1>1, <2>2 DEF FoundSteps, IInv, DoomedRight, Doomed
    <3>2. CASE cpc[c] = "write" /\ found'[c] = found[c]
      BY <1>0, <2>2, <3>1, <3>2 DEF BodiesRest
    <3>3. ASSUME NEW d \in Docs, found'[c] = [d |-> d, v |-> doc[d]]
          PROVE  found'[c].d \in Existing
      <4>1. found'[c].d = d /\ found'[c].v = doc[d]
        BY <3>3
      <4>2. doc[d].live = (d \in Existing)
        BY <1>0, <3>1 DEF BodiesRest
      <4>. QED
        BY Zenon, <2>2, <4>1, <4>2
    <3>. QED
      BY <1>1, <2>2, <3>2, <3>3, Zenon DEF FoundSteps
  <2>. QED
    BY <2>1, <2>2 DEF BodiesRest, Before
<1>7. \A d \in Docs : doc'[d].stg = "insert" => d \notin Existing
  <2>. SUFFICES ASSUME NEW d \in Docs, doc'[d].stg = "insert"
                PROVE  d \notin Existing
    OBVIOUS
  <2>1. CASE ~committed
    BY <1>0, <1>5, <2>1, Zenon DEF InsertsAreNew, New, BodiesRest
  <2>2. CASE committed
    <3>1. DocStep(d) /\ ~Links(d) /\ ~Unlinks(d)
      BY <1>1, <2>2 DEF DocSteps, Links, Unlinks
    <3>2. ~Publishes(d)
      BY DEF Publishes, Removed, Written
    <3>. QED
      BY <1>0, <3>1, <3>2 DEF DocStep, Rests, InsertsAreNew
  <2>. QED
    BY <2>1, <2>2 DEF IInv, TypeOK, StoreTypeOK
<1>8. New(kind')
  BY <1>0, <1>1, <1>7 DEF ListSteps, InsertsAreNew, New
<1>9. New(NoDocs) /\ New(NoEntry.ids)
  BY NoDocsListed DEF New, NoDocs
<1>10. New(atr'.ids)
  BY <1>0, <1>1, <1>9 DEF ListSteps, InsertsAreNew
<1>11. \A c \in Cleaners : New(entry'[c].ids)
  <2>. SUFFICES ASSUME NEW c \in Cleaners PROVE New(entry'[c].ids)
    OBVIOUS
  <2>1. entry'[c] = entry[c] \/ entry'[c] = atr \/ entry'[c] = NoEntry
    BY <1>1 DEF ListSteps
  <2>. QED
    BY <1>0, <1>9, <2>1 DEF InsertsAreNew
<1>12. \A m \in late' : New(m[2])
  BY <1>0, <1>1, <1>9 DEF ListSteps, InsertsAreNew
<1>13. InsertsAreNew'
  BY <1>7, <1>8, <1>10, <1>11, <1>12 DEF InsertsAreNew, New
<1>. QED
  BY <1>4, <1>6, <1>13 DEF DInv

-----------------------------------------------------------------------------
(* A step of the reader leaves the attempt alone, save for the count of the  *)
(* faults.                                                                  *)

AttemptRests ==
  /\ UNCHANGED <<doc, atr, casOf, late, clock, queued, committed, fate>>
  /\ UNCHANGED <<clientVars, cleanupVars>>
  /\ faults' \in 0..MaxFaults

LEMMA ReaderRests ==
  ASSUME TypeOK, GetNext, UNCHANGED <<clientVars, cleanupVars>>
  PROVE  AttemptRests
<1>1. ASSUME UNCHANGED storeVars
      PROVE  AttemptRests
  BY <1>1 DEF storeVars, AttemptRests, TypeOK, StoreTypeOK
<1>2. ASSUME Fault, DocsUnchanged, AtrUnchanged, UNCHANGED <<clock, queued>>
      PROVE  AttemptRests
  BY <1>2, FaultTypes DEF DocsUnchanged, AtrUnchanged, AttemptRests, TypeOK
<1>. QED
  BY <1>1, <1>2, Zenon DEF GetNext, StartGet, Return, LastResult, LastResultTooLate,
     GetDoc, GetDocFails, GetEntry, GetEntryFails, ResolveReadSkew,
     ResolveReadSkewFails

LEMMA RestIInv ==
  ASSUME IInv, AttemptRests
  PROVE  IInv'
<1>. USE DEF AttemptRests, clientVars, cleanupVars
<1>1. TypeOK'
  BY DEF IInv, TypeOK, StoreTypeOK, ClientTypeOK, CleanupTypeOK
<1>2. DoomedRight' /\ Undecided'
  BY Zenon DEF IInv, DoomedRight, Undecided, Doomed, Sends, Aborts
<1>3. CommittedRight' /\ Resolving' /\ ErrorRight'
  BY Zenon DEF IInv, CommittedRight, Resolving, ErrorRight
<1>4. Reported' /\ CleanerRight' /\ AtrFirst'
  BY Zenon DEF IInv, Reported, CleanerRight, AtrFirst
<1>. QED
  BY <1>1, <1>2, <1>3, <1>4 DEF IInv

LEMMA RestPInv ==
  ASSUME PInv, AttemptRests
  PROVE  PInv'
<1>. USE DEF AttemptRests, clientVars, cleanupVars
<1>1. CommittedIsVisible' /\ Alone' /\ Wanting' /\ Copies'
  BY Zenon DEF PInv, CommittedIsVisible, Alone, Wanting, Copies
<1>2. Strays' /\ NothingSent'
  BY Zenon DEF PInv, Strays, NothingSent, Winning, Open, Sends
<1>3. Intact'
  BY Zenon DEF PInv, Intact, Winning, Open, Sends, Protected, Listed
<1>4. PendingFirst'
  BY Zenon DEF PInv, PendingFirst, OneByOne, Sends, Setting
<1>5. Unstaging'
  BY Zenon DEF PInv, Unstaging, Doomed, Sends, Unstaged, Listed
<1>6. \A c \in Cleaners : Stands(c) => Stands(c)'
  BY Zenon DEF Stands
<1>7. Cleaning'
  BY ZenonT(30), <1>6 DEF PInv, Cleaning, Listed
<1>. QED
  BY <1>1, <1>2, <1>3, <1>4, <1>5, <1>7 DEF PInv

LEMMA RestDInv ==
  ASSUME DInv, AttemptRests
  PROVE  DInv'
BY Zenon DEF DInv, NoOthers, InsertsAreNew, New, BodiesRest, Before,
   AttemptRests, clientVars, cleanupVars

-----------------------------------------------------------------------------
(* What the reader has got.                                                 *)

\* The record is looked up when everything else has arrived.
OneRecord ==
  \A d \in Docs : rpc[d] = "record" =>
    /\ stage \in {"subsequent", "discovered", "resolving"}
    /\ \A e \in Docs : e # d => rpc[e] = "none"

\* Nothing else is requested, and nothing is left of an earlier call.
Fresh ==
  /\ \A d \in Docs : d \notin asked => rpc[d] = "none"
  /\ asked = {} =>
       stage = "first_doc_fetch" /\ \A d \in Docs : resolving[d] = "none"

NewLinks == \A d \in Docs : got[d].link = "insert" => d \notin Existing

\* What has arrived before the decision is what the documents were.
CleanResult(d, r) == ~committed => r.body = Before(d) \/ r = Failure

CleanResults == \A d \in asked : rpc[d] # "doc" => CleanResult(d, got[d])

Complete ==
  stage = "returned" => /\ \A d \in Docs : rpc[d] = "none"
                        /\ ~cleared => \A d \in asked : got[d] # Failure

GInv ==
  GetTypeOK /\ OneRecord /\ Fresh /\ NewLinks /\ CleanResults /\ Complete

LEMMA ResultTypes == Absent \in GetResults /\ Failure \in GetResults
BY DEF Absent, Failure, GetResults, Bodies, Stages, Kinds, Ours

\* The request of one document is answered, or followed by another.
LEMMA OneAnswer ==
  ASSUME GInv, NEW d \in asked, rpc[d] \in {"doc", "entry"},
         NEW p \in {"none", "doc", "entry"}, NEW r \in GetResults,
         rpc' = [rpc EXCEPT ![d] = p], got' = [got EXCEPT ![d] = r],
         resolving' \in [Docs -> Attempts], blind' \in BOOLEAN,
         UNCHANGED <<asked, skew, stage, cleared, since, committed>>,
         p # "doc" => CleanResult(d, r), r.link = "insert" => d \notin Existing
  PROVE  GInv'
<1>. USE DEF GInv
<1>1. d \in Docs /\ asked \subseteq Docs /\ asked # {}
      /\ rpc \in [Docs -> GetRpcs] /\ got \in [Docs -> GetResults]
  BY DEF GetTypeOK
<1>2. GetTypeOK'
  BY <1>1 DEF GetTypeOK, GetRpcs
<1>3. OneRecord' /\ NewLinks'
  BY <1>1 DEF OneRecord, NewLinks
<1>4. stage # "returned"
  BY <1>1 DEF Complete
<1>5. Fresh' /\ Complete'
  BY <1>1, <1>4 DEF Fresh, Complete
<1>6. CleanResults'
  BY <1>1 DEF CleanResults, CleanResult, Before
<1>. QED
  BY <1>2, <1>3, <1>5, <1>6

LEMMA GetDocGInv ==
  ASSUME TypeOK, DInv, GInv, NEW d \in asked, GetDoc(d) \/ GetDocFails(d)
  PROVE  GInv'
<1>0. d \in Docs /\ resolving \in [Docs -> Attempts] /\ blind \in BOOLEAN
  BY DEF GInv, GetTypeOK
<1>. PICK r : r = [body |-> doc[d].body, link |-> doc[d].stg]
  BY Zenon
<1>1. r \in GetResults /\ r.body = doc[d].body /\ r.link = doc[d].stg
  BY <1>0 DEF TypeOK, StoreTypeOK, Documents, GetResults
<1>2. /\ ~committed => r.body = Before(d)
      /\ r.link = "insert" => d \notin Existing
  BY <1>0, <1>1, Zenon DEF DInv, BodiesRest, InsertsAreNew
<1>3. Inserted(r) => (~committed => Absent.body = Before(d))
  BY <1>2 DEF Inserted, Absent, Before
<1>4. UNCHANGED <<asked, skew, stage, resolving, cleared, since, blind, committed>>
      /\ rpc[d] = "doc"
  BY DEF GetDoc, GetDocFails, storeVars
<1>5. \E p \in {"none", "entry"}, x \in GetResults :
        /\ rpc' = [rpc EXCEPT ![d] = p] /\ got' = [got EXCEPT ![d] = x]
        /\ CleanResult(d, x) /\ (x.link = "insert" => d \notin Existing)
  <2>1. Absent.link = "none" /\ Failure.link = "none"
    BY DEF Absent, Failure
  <2>2. CASE GetDocFails(d)
    BY <2>1, <2>2, ResultTypes, Zenon DEF GetDocFails, Answer, CleanResult
  <2>3. CASE GetDoc(d)
    <3>1. \/ rpc' = [rpc EXCEPT ![d] = "none"] /\ got' = [got EXCEPT ![d] = r]
          \/ /\ rpc' = [rpc EXCEPT ![d] = "none"]
             /\ got' = [got EXCEPT ![d] = Absent] /\ Inserted(r)
          \/ rpc' = [rpc EXCEPT ![d] = "entry"] /\ got' = [got EXCEPT ![d] = r]
      BY <2>3, Zenon DEF GetDoc, Answer
    <3>. QED
      BY <1>1, <1>2, <1>3, <2>1, <3>1, ResultTypes, Zenon DEF CleanResult
  <2>. QED
    BY <2>2, <2>3
<1>. QED
  BY Zenon, <1>0, <1>4, <1>5, OneAnswer

LEMMA GetEntryGInv ==
  ASSUME IInv, DInv, GInv, NEW d \in asked, GetEntry(d) \/ GetEntryFails(d)
  PROVE  GInv'
<1>0. /\ d \in Docs /\ resolving \in [Docs -> Attempts] /\ blind \in BOOLEAN
      /\ got[d] \in GetResults
  BY DEF GInv, GetTypeOK
<1>1. UNCHANGED <<asked, skew, stage, cleared, since, committed>>
      /\ rpc[d] = "entry" /\ blind' \in BOOLEAN
  BY <1>0, Zenon DEF GetEntry, GetEntryFails, storeVars, AtrUnchanged
<1>2. CleanResult(d, got[d]) /\ (got[d].link = "insert" => d \notin Existing)
  BY <1>0, <1>1, Zenon DEF GInv, CleanResults, NewLinks
<1>3. Absent.link = "none" /\ Absent.body = "none"
  BY DEF Absent
<1>4. ASSUME GetAgain(d)
      PROVE  GInv'
  <2>1. resolving' \in [Docs -> Attempts]
    BY <1>0, <1>4 DEF GetAgain, AttemptOf, Attempts
  <2>. QED
    BY <1>0, <1>1, <1>3, <1>4, <2>1, OneAnswer, ResultTypes, Zenon DEF GetAgain
<1>5. ASSUME NEW state, state = EntryState(got[d].link),
             Answer(d, Visible(got[d], state)), UNCHANGED resolving
      PROVE  GInv'
  <2>1. state = "COMMITTED" => committed
    BY <1>5, Zenon DEF EntryState, IInv, CommittedRight
  <2>2. [got[d] EXCEPT !.body = "mine"] \in GetResults
        /\ [got[d] EXCEPT !.body = "mine"].link = got[d].link
    BY <1>0 DEF GetResults, Bodies
  <2>3. Visible(got[d], state) \in GetResults
    BY <1>0, <2>2, ResultTypes DEF Visible
  <2>4. CleanResult(d, Visible(got[d], state))
    <3>1. CASE state = "COMMITTED"
      BY <2>1, <3>1 DEF CleanResult
    <3>2. CASE state # "COMMITTED" /\ Inserted(got[d])
      <4>1. got[d] # Failure
        BY <3>2 DEF Inserted, Failure
      <4>2. ~committed => Before(d) = "none"
        BY <1>2, <3>2, <4>1 DEF Inserted, CleanResult, Before
      <4>. QED
        BY <1>3, <3>2, <4>2 DEF Visible, CleanResult
    <3>3. CASE state # "COMMITTED" /\ ~Inserted(got[d])
      BY <1>2, <3>3 DEF Visible
    <3>. QED
      BY <3>1, <3>2, <3>3
  <2>5. Visible(got[d], state).link = "insert" => d \notin Existing
    BY <1>2, <1>3, <2>2 DEF Visible
  <2>. QED
    BY <1>0, <1>1, <1>5, <2>3, <2>4, <2>5, OneAnswer, Zenon DEF Answer
<1>. QED
  BY <1>4, <1>5, Zenon DEF GetEntry, GetEntryFails

\* The callback.
LEMMA CompletedGInv ==
  ASSUME GInv, asked # {}, NEW res \in [Docs -> GetResults], Completed(res),
         UNCHANGED <<asked, skew, since, blind, committed>>,
         \A d \in asked : CleanResult(d, res[d]),
         \A d \in Docs : res[d].link = "insert" => d \notin Existing
  PROVE  GInv'
<1>. USE DEF GInv, Completed
<1>1. GetTypeOK'
  BY DEF GetTypeOK, GetRpcs, GetPhases
<1>2. OneRecord' /\ Fresh' /\ NewLinks'
  BY DEF OneRecord, Fresh, NewLinks
<1>3. CleanResults'
  BY Zenon DEF CleanResults, CleanResult, Before
<1>4. Complete'
  BY DEF Complete
<1>. QED
  BY <1>1, <1>2, <1>3, <1>4

\* Some documents are fetched once more, or the call fails.
LEMMA FetchGInv ==
  ASSUME GInv, asked # {}, NEW ds \in SUBSET asked,
         NEW p \in GetPhases \ {"returned"}, Fetch(ds, p), cleared' \in BOOLEAN,
         UNCHANGED <<asked, skew, since, blind, committed>>,
         \A d \in asked \ ds : rpc[d] # "doc"
  PROVE  GInv'
<1>. USE DEF GInv, Fetch
<1>1. GetTypeOK'
  BY ResultTypes DEF GetTypeOK, GetRpcs, Attempts
<1>2. asked \subseteq Docs /\ Absent.link = "none"
  BY DEF GetTypeOK, Absent
<1>3. OneRecord' /\ Fresh' /\ NewLinks' /\ Complete'
  BY <1>2 DEF OneRecord, Fresh, NewLinks, Complete
<1>4. CleanResults'
  BY <1>2 DEF CleanResults, CleanResult, Before
<1>. QED
  BY <1>1, <1>3, <1>4

LEMMA ResetGInv ==
  ASSUME GInv, asked # {}, ResetAndRetry,
         UNCHANGED <<asked, skew, since, blind, committed>>,
         \A d \in asked : rpc[d] # "doc"
  PROVE  GInv'
<1>1. "subsequent" \in GetPhases \ {"returned"} /\ "failed" \in GetPhases \ {"returned"}
  BY DEF GetPhases, Fetching
<1>2. cleared' \in BOOLEAN
  BY DEF ResetAndRetry
<1>. QED
  BY <1>1, <1>2, FetchGInv DEF ResetAndRetry

\* Linked has one document at most where the code asks for its record.
LEMMA LinkedOne ==
  ASSUME GetTypeOK, Cardinality(Linked) = 1
  PROVE  \E d \in asked : Linked = {d}
<1>1. IsFiniteSet(Linked)
  <2>1. Linked \subseteq Docs
    BY DEF Linked, GetTypeOK
  <2>. QED
    BY <2>1, StoreAssumption, FS_Subset
<1>2. PICK d : Linked = {d}
  BY <1>1, FS_Singleton
<1>. QED
  BY <1>2 DEF Linked

LEMMA LastResultGInv ==
  ASSUME GInv, LastResult \/ LastResultTooLate
  PROVE  GInv'
<1>0. /\ asked # {} /\ stage \in Fetching /\ \A d \in asked : rpc[d] = "none"
      /\ UNCHANGED <<asked, skew, since, blind, committed>>
  BY DEF LastResult, LastResultTooLate, storeVars
<1>1. CASE LastResultTooLate
  BY <1>0, <1>1 DEF LastResultTooLate, GInv, GetTypeOK, GetPhases, OneRecord,
     Fresh, NewLinks, CleanResults, CleanResult, Before, Complete
<1>2. CASE Completed(got)
  BY <1>0, <1>2, CompletedGInv DEF GInv, CleanResults, NewLinks, GetTypeOK
<1>3. CASE ResetAndRetry
  BY <1>0, <1>3, ResetGInv
<1>4. CASE /\ Cardinality(Linked) = 1
           /\ rpc' = [d \in Docs |-> IF d \in Linked THEN "record" ELSE "none"]
           /\ stage' = IF stage = "first_doc_fetch" THEN "subsequent" ELSE stage
           /\ UNCHANGED <<resolving, got, cleared>>
  <2>1. PICK d \in asked : Linked = {d}
    BY <1>4, LinkedOne DEF GInv
  <2>2. stage' \in {"subsequent", "discovered", "resolving"}
    BY <1>0, <1>4 DEF Fetching
  <2>3. GetTypeOK'
    BY <1>0, <1>4, <2>2 DEF GInv, GetTypeOK, GetRpcs, GetPhases, Fetching
  <2>4. OneRecord'
    BY <1>4, <2>1, <2>2 DEF OneRecord
  <2>5. Fresh' /\ NewLinks' /\ Complete'
    BY <1>0, <1>4, <2>1, <2>2 DEF GInv, Fresh, NewLinks, Complete
  <2>6. CleanResults'
    BY <1>0, <1>4, Zenon DEF GInv, CleanResults, CleanResult, Before
  <2>. QED
    BY <2>3, <2>4, <2>5, <2>6 DEF GInv
<1>. QED
  BY <1>1, <1>2, <1>3, <1>4 DEF LastResult

\* What resolve_read_skew makes of the record, one case at a time.
LEMMA ResolveCases ==
  ASSUME NEW d, ResolveReadSkew(d)
  PROVE  \/ Completed(got)
         \/ Fetch({d}, "resolving") /\ UNCHANGED cleared
         \/ Fetch({d}, "discovered") /\ UNCHANGED cleared
         \/ EntryState(got[d].link) = "COMMITTED" /\ Completed(Copied(d))
         \/ ResetAndRetry
         \/ EntryState(got[d].link) \notin Statuses
         \/ stage \notin {"subsequent", "discovered", "resolving"}
<1>1. ASSUME NEW state, state \in Statuses, state = EntryState(got[d].link),
             stage \in {"subsequent", "discovered", "resolving"}
      PROVE  \/ state \in {"PENDING", "ABORTED"} \/ (state = "NONE" /\ stage = "resolving")
             \/ state = "NONE" /\ stage # "resolving"
             \/ state = "COMMITTED" /\ stage = "subsequent" /\ atr.ids[d] # "none"
             \/ /\ state = "COMMITTED"
                /\ stage = "discovered" \/ (stage = "subsequent" /\ atr.ids[d] = "none")
             \/ state = "COMMITTED" /\ stage = "resolving"
  BY <1>1 DEF Statuses
<1>. QED
  BY <1>1, Zenon DEF ResolveReadSkew

LEMMA ResolveGInv ==
  ASSUME IInv, GInv, NEW d \in asked, ResolveReadSkew(d) \/ ResolveReadSkewFails(d)
  PROVE  GInv'
<1>0. /\ d \in Docs /\ asked \subseteq Docs /\ got \in [Docs -> GetResults]
      /\ asked # {} /\ cleared \in BOOLEAN
  BY DEF GInv, GetTypeOK
<1>1. rpc[d] = "record" /\ UNCHANGED <<asked, skew, since, blind, committed>>
  BY Zenon DEF ResolveReadSkew, ResolveReadSkewFails, storeVars, AtrUnchanged
<1>2. /\ stage \in {"subsequent", "discovered", "resolving"}
      /\ \A e \in Docs : rpc[e] # "doc"
  BY <1>0, <1>1 DEF GInv, OneRecord
<1>3. EntryState(got[d].link) \in Statuses
  BY DEF EntryState, Statuses, IInv, TypeOK, StoreTypeOK, Entries
<1>4. /\ \A x \in asked : CleanResult(x, got[x])
      /\ \A x \in Docs : got[x].link = "insert" => x \notin Existing
  BY <1>0, <1>2 DEF GInv, CleanResults, NewLinks
<1>5. CASE Completed(got)
  BY <1>0, <1>1, <1>4, <1>5, CompletedGInv
<1>6. CASE \E p \in {"resolving", "discovered"} : Fetch({d}, p) /\ UNCHANGED cleared
  <2>1. PICK p \in {"resolving", "discovered"} : Fetch({d}, p) /\ UNCHANGED cleared
    BY <1>6
  <2>2. p \in GetPhases \ {"returned"} /\ {d} \in SUBSET asked
    BY <2>1 DEF GetPhases, Fetching
  <2>. QED
    BY <1>0, <1>1, <1>2, <2>1, <2>2, FetchGInv
<1>7. CASE EntryState(got[d].link) = "COMMITTED" /\ Completed(Copied(d))
  <2>1. committed
    BY <1>7 DEF EntryState, IInv, CommittedRight
  <2>2. /\ Copied(d) \in [Docs -> GetResults]
        /\ \A x \in Docs : Copied(d)[x].link = got[x].link
    BY <1>0 DEF Copied, GetResults, Bodies
  <2>3. \A x \in asked : CleanResult(x, Copied(d)[x])
    BY <2>1 DEF CleanResult
  <2>. QED
    BY <1>0, <1>1, <1>4, <1>7, <2>2, <2>3, CompletedGInv
<1>8. CASE ResetAndRetry
  BY <1>0, <1>1, <1>2, <1>8, ResetGInv
<1>. QED
  BY <1>2, <1>3, <1>5, <1>6, <1>7, <1>8, ResolveCases DEF ResolveReadSkewFails

LEMMA GetNextGInv ==
  ASSUME IInv, DInv, GInv, GetNext
  PROVE  GInv'
<1>0. TypeOK
  BY DEF IInv
<1>1. CASE StartGet
  <2>1. PICK ds \in SUBSET Docs, m \in Modes :
          /\ ds # {} /\ asked' = ds /\ skew' = m
          /\ rpc' = [d \in Docs |-> IF d \in ds THEN "doc" ELSE "none"]
    BY <1>1 DEF StartGet
  <2>2. /\ asked = {} /\ since' = committed
        /\ UNCHANGED <<stage, resolving, got, cleared, blind, committed>>
    BY <1>1 DEF StartGet, storeVars
  <2>3. GetTypeOK'
    BY <1>0, <2>1, <2>2 DEF GInv, GetTypeOK, GetRpcs, TypeOK, StoreTypeOK
  <2>4. OneRecord' /\ Fresh' /\ NewLinks' /\ CleanResults'
    BY <2>1, <2>2 DEF GInv, OneRecord, Fresh, NewLinks, CleanResults
  <2>5. Complete'
    BY <2>2, Zenon DEF GInv, Fresh, Complete
  <2>. QED
    BY <2>3, <2>4, <2>5 DEF GInv
<1>2. CASE Return
  <2>. USE <1>2 DEF Return
  <2>1. GetTypeOK'
    BY ResultTypes, Zenon DEF GetTypeOK, Modes, GetPhases, Fetching, GetRpcs, Attempts
  <2>2. OneRecord' /\ Fresh' /\ NewLinks' /\ CleanResults' /\ Complete'
    BY DEF OneRecord, Fresh, NewLinks, CleanResults, Complete, Absent
  <2>. QED
    BY <2>1, <2>2 DEF GInv
<1>. QED
  BY <1>0, <1>1, <1>2, LastResultGInv, GetDocGInv, GetEntryGInv, ResolveGInv
     DEF GetNext

LEMMA OthersGInv ==
  ASSUME TypeOK, GInv, [Next]_vars, UNCHANGED readVars
  PROVE  GInv'
<1>1. committed => committed'
  BY EntrySteps DEF EntryStep
<1>. QED
  BY <1>1, Zenon DEF GInv, GetTypeOK, OneRecord, Fresh, NewLinks, CleanResults,
     CleanResult, Before, Complete, readVars

\* The inductive invariant, for an attempt whose documents no other
\* transaction mutates.
THEOREM ReadsInvariance ==
  ASSUME ~Foreign
  PROVE  ReadsSpec => [](IInv /\ DInv /\ GInv)
<1>1. ReadsInit => IInv /\ DInv /\ GInv
  <2>. SUFFICES ASSUME ReadsInit PROVE GInv
    BY InitIInv, InitDInv DEF ReadsInit
  <2>. USE DEF ReadsInit, GetInit
  <2>1. GetTypeOK
    BY ResultTypes, Zenon DEF GetTypeOK, Modes, GetPhases, Fetching, GetRpcs, Attempts
  <2>2. OneRecord /\ Fresh /\ NewLinks /\ CleanResults /\ Complete
    BY DEF OneRecord, Fresh, NewLinks, CleanResults, Complete, Absent
  <2>. QED
    BY <2>1, <2>2 DEF GInv
<1>2. ASSUME IInv, DInv, GInv, [ReadsNext]_readsVars
      PROVE  (IInv /\ DInv /\ GInv)'
  <2>1. CASE [Next]_vars /\ UNCHANGED readVars
    <3>1. TypeOK /\ IInv'
      BY <1>2, <2>1, NextIInv DEF IInv
    <3>. QED
      BY <1>2, <2>1, <3>1, NextDInv, OthersGInv
  <2>2. CASE GetNext /\ UNCHANGED <<clientVars, cleanupVars>>
    <3>1. TypeOK /\ AttemptRests
      BY <1>2, <2>2, ReaderRests DEF IInv
    <3>. QED
      BY <1>2, <2>2, <3>1, RestIInv, RestDInv, GetNextGInv
  <2>. QED
    BY <1>2, <2>1, <2>2 DEF ReadsNext, readsVars
<1>. QED
  BY <1>1, <1>2, PTL DEF ReadsSpec

\* No dirty reads: get, get_optional and get_multi return nothing of the
\* attempt before it is committed, however the two requests of do_get, and
\* those of get_multi, interleave with its staging, its rollback and the
\* cleanup, and whether or not a cleaner's lookups fail.
THEOREM NoDirtyReads ==
  ASSUME ~Foreign
  PROVE  ReadsSpec => []ReadsAreCommitted
<1>1. ASSUME IInv, DInv, GInv
      PROVE  ReadsAreCommitted
  <2>. SUFFICES ASSUME NEW d \in Docs, Returned(d), ~committed
                PROVE  got[d].body = Before(d)
    BY DEF ReadsAreCommitted, Before
  <2>1. rpc[d] # "doc" /\ got[d] # Failure /\ d \in asked
    BY <1>1 DEF Returned, GInv, Complete
  <2>. QED
    BY <1>1, <2>1 DEF GInv, CleanResults, CleanResult
<1>. QED
  BY <1>1, ReadsInvariance, PTL

-----------------------------------------------------------------------------
(* The attempt after the decision.                                          *)

\* When an entry becomes PENDING, and what is on its way when it is COMMITTED.
PendingStep ==
  /\ Sends("pending")' => Sends("pending") \/ phase = "logic"
  /\ atr'.status = "PENDING" =>
       atr.status = "PENDING" \/ Sends("pending") \/ phase = "logic"
  /\ committed' /\ ~committed => late' = {} /\ atr'.status = "COMMITTED"

LEMMA ApplyPending ==
  ASSUME TypeOK, NEW r, NEW ids, Apply(r, ids)
  PROVE  /\ atr'.status = "PENDING" => atr.status = "PENDING" \/ r = "pending"
         /\ committed' /\ ~committed => atr'.status = "COMMITTED"
<1>1. atr \in Entries
  BY DEF TypeOK, StoreTypeOK
<1>2. CommitEffect(ids).status = "COMMITTED" /\ AbortEffect(ids).status = "ABORTED"
  BY <1>1 DEF CommitEffect, AbortEffect, Entries
<1>. QED
  BY <1>2, Zenon DEF Apply

LEMMA AmbiguousPending ==
  ASSUME TypeOK, NEW r, NEW ids, Ambiguous(r, ids), late = {},
         r = "pending" => phase = "logic"
  PROVE  PendingStep
<1>1. CASE Apply(r, ids) /\ UNCHANGED late
  BY <1>1, ApplyPending DEF PendingStep, Sends
<1>2. CASE UNCHANGED <<atr, committed, late>>
  BY <1>2 DEF PendingStep, Sends
<1>3. CASE late' = {<<r, ids>>} /\ UNCHANGED <<atr, committed>>
  BY <1>3 DEF PendingStep, Sends
<1>. QED
  BY <1>1, <1>2, <1>3 DEF Ambiguous

LEMMA PendingSteps ==
  ASSUME TypeOK, [Next]_vars
  PROVE  PendingStep
<1>1. ASSUME AtrUnchanged
      PROVE  PendingStep
  BY <1>1 DEF AtrUnchanged, PendingStep, Sends
<1>2. ASSUME atr' \in {atr, NoEntry}, UNCHANGED <<committed, late>>
      PROVE  PendingStep
  BY <1>2, NoEntryStatus DEF PendingStep, Sends
<1>3. CASE UNCHANGED vars
  BY <1>1, <1>3 DEF vars, storeVars, AtrUnchanged
<1>4. CASE StoreNext(Stopped)
  <2>1. CASE LateArrives
    <3>1. late' = {} /\ ~Sends("pending")'
      BY <2>1 DEF LateArrives, Sends
    <3>2. CASE UNCHANGED <<atr, committed>>
      BY <3>1, <3>2 DEF PendingStep
    <3>3. ASSUME NEW m \in late, Apply(m[1], m[2])
          PROVE  PendingStep
      BY <3>1, <3>3, ApplyPending DEF PendingStep, Sends
    <3>. QED
      BY <2>1, <3>2, <3>3 DEF LateArrives
  <2>. QED
    BY <1>1, <1>4, <2>1
       DEF StoreNext, Tick, OtherChecks, OtherStages, OtherEnds
<1>5. ASSUME NEW c \in Cleaners, CleanerNext(c)
      PROVE  PendingStep
  <2>1. CASE DocsCleaned(c)
    BY <1>1, <2>1, Zenon DEF DocsCleaned, storeVars, AtrUnchanged
  <2>2. CASE CleanEntry(c)
    BY <1>2, <2>2, Zenon DEF CleanEntry
  <2>. QED
    BY Zenon, <1>1, <1>5, <2>1, <2>2
       DEF CleanerNext, StartQueued, StartLost, ReadDoc, WriteDoc
<1>6. CASE ClientNext
  <2>1. CASE \E d \in Docs, t \in Ours : Call(d, t)
    BY <1>1, <2>1 DEF Call
  <2>2. ASSUME NEW d \in Docs, phase = "logic", Operate(d)
        PROVE  PendingStep
    <3>1. CASE SetAtrPending(d)
      <4>1. late = {}
        BY <3>1 DEF SetAtrPending
      <4>2. ASSUME Apply("pending", NoDocs), UNCHANGED late
            PROVE  PendingStep
        BY <2>2, <4>1, <4>2, ApplyPending DEF PendingStep, Sends
      <4>3. ASSUME Ambiguous("pending", NoDocs)
            PROVE  PendingStep
        BY <2>2, <4>1, <4>3, AmbiguousPending
      <4>. QED
        BY <1>1, <3>1, <4>2, <4>3 DEF SetAtrPending
    <3>. QED
      BY <1>1, <2>2, <3>1, Zenon DEF Operate, SelectAtr, RetryAtrPending, StageWithCas,
         StageInsert, RemoveStagedInsert, StageFrame, ServerUnchanged
  <2>3. CASE Commit \/ LogicFails
    BY <1>1, <2>3 DEF Commit, LogicFails, ServerUnchanged
  <2>4. CASE StartItem \/ \E d \in Docs : Unstage(d)
    BY <1>1, <2>4, Zenon DEF StartItem, Unstage, CommitDoc, RemoveDoc, RollbackDoc,
       ItemFrame
  <2>5. CASE EndAttempt
    <3>0. ASSUME NEW r \in {"commit", "abort"}, late = {},
                 \/ Apply(r, kind) /\ UNCHANGED late
                 \/ Ambiguous(r, kind)
          PROVE  PendingStep
      <4>1. CASE Apply(r, kind) /\ UNCHANGED late
        BY <3>0, <4>1, ApplyPending DEF PendingStep, Sends
      <4>2. CASE Ambiguous(r, kind)
        BY <3>0, <4>2, AmbiguousPending
      <4>. QED
        BY <3>0, <4>1, <4>2
    <3>1. CASE AtrCommit
      BY <1>1, <3>0, <3>1 DEF AtrCommit
    <3>2. CASE AtrAbort
      BY <1>1, <3>0, <3>2 DEF AtrAbort
    <3>3. CASE AtrComplete \/ AtrRollbackComplete
      BY <1>2, <3>3 DEF AtrComplete, AtrRollbackComplete
    <3>. QED
      BY <1>1, <2>5, <3>1, <3>2, <3>3
         DEF EndAttempt, ResolveAmbiguity, CommitDocsEnd, HandleError,
             RollbackDocsEnd, RolledBack, ServerUnchanged
  <2>6. CASE Crash
    BY <1>1, <2>6 DEF Crash, storeVars, AtrUnchanged
  <2>. QED
    BY <1>6, <2>1, <2>2, <2>3, <2>4, <2>5, <2>6 DEF ClientNext
<1>. QED
  BY <1>3, <1>4, <1>5, <1>6 DEF Next

\* The entry of a committed attempt stays COMMITTED until it is removed, and
\* what is published is the document as the attempt leaves it.
AInv ==
  /\ committed => ~Sends("pending") /\ atr.status \in {"COMMITTED", "NONE"}
  /\ \A d \in Docs : fate[d] = "published" =>
       doc[d].stg = "none" /\ doc[d].body = AfterCommit(d)

\* Once the attempt is committed, its list is final, and so is what is
\* published.
LEMMA AfterDecision ==
  ASSUME ~Foreign, IInv, DInv, committed, [Next]_vars
  PROVE  /\ committed' /\ kind' = kind /\ Listed' = Listed
         /\ \A d \in Docs : /\ AfterCommit(d)' = AfterCommit(d)
                            /\ fate[d] = "published" => fate'[d] = "published"
<1>1. EntryStep /\ DecisionStep /\ DocSteps
  BY EntrySteps, DecisionSteps, NextDocs DEF IInv, DInv
<1>2. committed' /\ kind' = kind
  BY <1>1 DEF EntryStep, DecisionStep, IInv, Undecided
<1>3. ASSUME NEW d \in Docs, fate[d] = "published"
      PROVE  fate'[d] = "published"
  BY <1>1, <1>3 DEF DocSteps, DocStep, Rests, Links, Unlinks, Publishes
<1>. QED
  BY <1>2, <1>3 DEF Listed, AfterCommit

LEMMA NextAInv ==
  ASSUME ~Foreign, IInv, IInv', DInv, PInv, AInv, [Next]_vars
  PROVE  AInv'
<1>1. PendingStep /\ EntryStep /\ DocSteps
  BY PendingSteps, EntrySteps, NextDocs DEF IInv, DInv
<1>2. ASSUME committed'
      PROVE  ~Sends("pending")' /\ atr'.status \in {"COMMITTED", "NONE"}
  <2>1. CASE ~committed
    BY <1>1, <1>2, <2>1 DEF PendingStep, Sends
  <2>2. CASE committed
    <3>1. ~Sends("pending") /\ atr.status # "PENDING" /\ phase # "logic"
      BY <2>2 DEF AInv, IInv, Undecided
    <3>2. atr'.status \in Statuses \ {"ABORTED"}
      BY <1>2, Zenon DEF IInv, TypeOK, StoreTypeOK, Entries, DoomedRight, Doomed
    <3>. QED
      BY <1>1, <3>1, <3>2 DEF PendingStep, Statuses
  <2>. QED
    BY <2>1, <2>2
<1>3. ASSUME NEW d \in Docs, fate'[d] = "published"
      PROVE  doc'[d].stg = "none" /\ doc'[d].body = AfterCommit(d)'
  <2>1. DocStep(d) /\ (fate[d] = "published" => committed)
    BY <1>1, Zenon DEF DocSteps, IInv, CommittedRight
  <2>2. CASE Rests(d) /\ fate[d] = "published"
    BY <2>1, <2>2, AfterDecision, Zenon DEF Rests, AInv
  <2>3. CASE Publishes(d)
    <3>1. doc'[d] = IF kind[d] = "remove" THEN Removed ELSE Written
      <4>1. \A c \in Cleaners : entry[c].status = "COMMITTED" => entry[c].ids = kind
        BY DEF PInv, Cleaning
      <4>. QED
        BY <2>3, <4>1 DEF Publishes
    <3>2. AfterCommit(d)' = AfterCommit(d)
      BY <2>3, AfterDecision DEF Publishes
    <3>3. CASE kind[d] = "remove"
      BY <3>1, <3>2, <3>3 DEF Removed, AfterCommit
    <3>4. CASE kind[d] # "remove"
      BY <3>1, <3>2, <3>4 DEF Written, AfterCommit
    <3>. QED
      BY <3>3, <3>4
  <2>. QED
    BY <1>3, <2>1, <2>2, <2>3, Zenon DEF DocStep, Rests, Links, Unlinks
<1>. QED
  BY <1>2, <1>3, Zenon DEF AInv

-----------------------------------------------------------------------------
(* A read that starts after the decision.                                   *)

\* What may have arrived for a document of the attempt.
Seen(d, r) ==
  \/ r = Failure
  \/ r.body = AfterCommit(d) /\ r.link \in {"none", kind[d]} \ {"remove"}

Informed(d) ==
  /\ rpc[d] \in {"none", "record"} => Seen(d, got[d])
  /\ rpc[d] \in {"record", "entry"} => got[d].link = kind[d]
  /\ resolving[d] # "none" => fate[d] = "published"

SInv ==
  /\ since => committed
  /\ since /\ ~blind => \A d \in asked \cap Listed : Informed(d)

LEMMA OneInformed ==
  ASSUME GInv, SInv, AttemptRests, NEW d \in asked,
         NEW p \in GetRpcs, NEW r, NEW a,
         rpc' = [rpc EXCEPT ![d] = p], got' = [got EXCEPT ![d] = r],
         resolving' = [resolving EXCEPT ![d] = a],
         UNCHANGED <<asked, since>>, blind => blind',
         since /\ ~blind' /\ d \in Listed =>
           /\ p = "none" => Seen(d, r)
           /\ p # "record"
           /\ p = "entry" => r.link = kind[d]
           /\ a # "none" => fate[d] = "published"
  PROVE  SInv'
<1>1. /\ d \in Docs /\ rpc \in [Docs -> GetRpcs] /\ got \in [Docs -> GetResults]
      /\ resolving \in [Docs -> Attempts] /\ asked \subseteq Docs
  BY DEF GInv, GetTypeOK
<1>2. UNCHANGED <<committed, kind, fate>>
  BY DEF AttemptRests, clientVars
<1>3. Listed' = Listed /\ Listed \subseteq Docs
  BY <1>2 DEF Listed
<1>4. ASSUME NEW x \in asked \cap Listed, since, ~blind'
      PROVE  Informed(x)'
  <2>1. CASE x = d
    BY <1>1, <1>2, <1>4, <2>1 DEF Informed, Seen, AfterCommit
  <2>2. CASE x # d
    <3>1. Informed(x)
      BY <1>4, Zenon DEF SInv
    <3>2. rpc'[x] = rpc[x] /\ got'[x] = got[x] /\ resolving'[x] = resolving[x]
      BY Zenon, <1>1, <1>4, <2>2
    <3>. QED
      BY <1>2, <3>1, <3>2 DEF Informed, Seen, AfterCommit
  <2>. QED
    BY <2>1, <2>2
<1>. QED
  BY <1>2, <1>3, <1>4 DEF SInv

\* A document of a committed attempt, as the reader may find it.
LEMMA FoundCommitted ==
  ASSUME IInv, PInv, AInv, DInv, committed, NEW d \in Listed
  PROVE  \/ /\ fate[d] = "published"
            /\ doc[d].stg = "none" /\ doc[d].body = AfterCommit(d)
         \/ /\ fate[d] # "published" /\ atr.status = "COMMITTED"
            /\ doc[d].stg = kind[d] /\ kind[d] \in Ours
<1>1. d \in Docs /\ kind[d] # "none" /\ phase # "logic"
  BY DEF Listed, IInv, Undecided
<1>2. CASE fate[d] = "published"
  BY <1>1, <1>2 DEF AInv
<1>3. CASE fate[d] # "published"
  <2>1. doc[d].stg \in Ours /\ atr.status = "COMMITTED"
    BY <1>1, <1>3 DEF PInv, CommittedIsVisible
  <2>2. kind[d] = doc[d].stg
    BY <1>1, <2>1 DEF PInv, Strays, Winning
  <2>. QED
    BY <1>3, <2>1, <2>2
<1>. QED
  BY <1>2, <1>3

LEMMA GetDocSInv ==
  ASSUME IInv, PInv, AInv, DInv, GInv, SInv, AttemptRests, NEW d \in asked,
         GetDoc(d) \/ GetDocFails(d)
  PROVE  SInv'
<1>0. /\ d \in Docs /\ resolving \in [Docs -> Attempts]
      /\ "none" \in GetRpcs /\ "entry" \in GetRpcs
  BY DEF GInv, GetTypeOK, GetRpcs
<1>. PICK r : r = [body |-> doc[d].body, link |-> doc[d].stg]
  BY Zenon
<1>1. r.body = doc[d].body /\ r.link = doc[d].stg
  OBVIOUS
<1>2. UNCHANGED <<asked, since, blind>> /\ resolving' = [resolving EXCEPT ![d] = resolving[d]]
  BY <1>0, Zenon DEF GetDoc, GetDocFails
<1>3. ASSUME since, ~blind, d \in Listed
      PROVE  /\ resolving[d] # "none" => fate[d] = "published"
             /\ doc[d].stg = "none" => Seen(d, r)
             /\ doc[d].stg # "none" => resolving[d] = "none" /\ r.link = kind[d]
  <2>1. committed /\ (resolving[d] # "none" => fate[d] = "published")
    BY <1>3, Zenon DEF SInv, Informed
  <2>2. "none" \notin Ours
    BY DEF Ours
  <2>. QED
    BY <1>1, <1>3, <2>1, <2>2, FoundCommitted, Zenon DEF Seen
<1>4. CASE GetDocFails(d)
  <2>1. rpc' = [rpc EXCEPT ![d] = "none"] /\ got' = [got EXCEPT ![d] = Failure]
    BY <1>4 DEF GetDocFails, Answer
  <2>2. Seen(d, Failure)
    BY Zenon DEF Seen
  <2>. QED
    BY ZenonT(30), <1>0, <1>2, <1>3, <2>1, <2>2, OneInformed
<1>5. CASE GetDoc(d) /\ doc[d].stg = "none"
  <2>1. rpc' = [rpc EXCEPT ![d] = "none"] /\ got' = [got EXCEPT ![d] = r]
    BY <1>5, Zenon DEF GetDoc, Answer
  <2>. QED
    BY Zenon, <1>0, <1>2, <1>3, <1>5, <2>1, OneInformed
<1>6. CASE GetDoc(d) /\ doc[d].stg # "none" /\ resolving[d] = "none"
  <2>1. AttemptOf(doc[d].stg) # "none"
    BY DEF AttemptOf
  <2>2. rpc' = [rpc EXCEPT ![d] = "entry"] /\ got' = [got EXCEPT ![d] = r]
    BY <1>6, <2>1, Zenon DEF GetDoc
  <2>. QED
    BY ZenonT(30), <1>0, <1>2, <1>3, <1>6, <2>2, OneInformed
<1>7. CASE GetDoc(d) /\ doc[d].stg # "none" /\ resolving[d] # "none"
  <2>1. ~(since /\ ~blind' /\ d \in Listed)
    BY <1>2, <1>3, <1>7
  <2>2. PICK p \in {"none", "entry"}, x \in {r, Absent} :
          rpc' = [rpc EXCEPT ![d] = p] /\ got' = [got EXCEPT ![d] = x]
    BY <1>7, Zenon DEF GetDoc, Answer
  <2>3. p \in GetRpcs
    BY <1>0
  <2>. QED
    BY Zenon, <1>2, <2>1, <2>2, <2>3, OneInformed
<1>. QED
  BY <1>4, <1>5, <1>6, <1>7

LEMMA GetEntrySInv ==
  ASSUME IInv, PInv, AInv, DInv, GInv, SInv, AttemptRests, NEW d \in asked,
         GetEntry(d) \/ GetEntryFails(d)
  PROVE  SInv'
<1>0. /\ d \in Docs /\ resolving \in [Docs -> Attempts]
      /\ "none" \in GetRpcs /\ "doc" \in GetRpcs /\ got[d] \in GetResults
  BY DEF GInv, GetTypeOK, GetRpcs
<1>1. rpc[d] = "entry" /\ UNCHANGED <<asked, since>> /\ (blind => blind')
  <2>1. rpc[d] = "entry" /\ UNCHANGED <<asked, since>>
    BY Zenon DEF GetEntry, GetEntryFails
  <2>2. blind' = blind \/ blind' = TRUE
    BY DEF GetEntry, GetEntryFails
  <2>3. blind => blind'
    BY <2>2, Zenon
  <2>. QED
    BY <2>1, <2>3
<1>2. ASSUME since, ~blind, d \in Listed
      PROVE  /\ got[d].link = kind[d] /\ kind[d] \in Ours
             /\ EntryState(got[d].link) = atr.status
             /\ resolving[d] # "none" => fate[d] = "published"
             /\ \/ atr.status = "COMMITTED"
                \/ atr.status = "NONE" /\ fate[d] = "published"
  <2>1. committed /\ Informed(d)
    BY <1>2 DEF SInv
  <2>2. got[d].link = kind[d] /\ (resolving[d] # "none" => fate[d] = "published")
    BY <1>1, <2>1, Zenon DEF Informed
  <2>3. kind[d] \in Ours /\ "other" \notin Ours /\ "orphan" \notin Ours
    BY <1>0, <1>2 DEF Listed, Ours, Kinds, IInv, TypeOK, ClientTypeOK
  <2>4. EntryState(got[d].link) = atr.status
    BY <2>2, <2>3, Zenon DEF EntryState
  <2>5. atr.status \in {"COMMITTED", "NONE"}
    BY <2>1, Zenon DEF AInv
  <2>6. fate[d] = "published" \/ atr.status = "COMMITTED"
    BY Zenon, <1>2, <2>1, FoundCommitted
  <2>. QED
    BY Zenon, <2>2, <2>3, <2>4, <2>5, <2>6
<1>3. ASSUME GetAgain(d), GetEntryFails(d) \/ EntryState(got[d].link) = "NONE"
      PROVE  SInv'
  <2>1. /\ rpc' = [rpc EXCEPT ![d] = "doc"] /\ got' = [got EXCEPT ![d] = Absent]
        /\ resolving' = [resolving EXCEPT ![d] = AttemptOf(got[d].link)]
    BY <1>3 DEF GetAgain
  <2>2. since /\ ~blind' /\ d \in Listed => fate[d] = "published"
    BY <1>1, <1>2, <1>3, Zenon DEF GetEntryFails
  <2>. QED
    BY Zenon, <1>0, <1>1, <2>1, <2>2, OneInformed
<1>4. ASSUME NEW state, state = EntryState(got[d].link), state # "NONE",
             Answer(d, Visible(got[d], state)), UNCHANGED <<resolving, blind>>
      PROVE  SInv'
  <2>1. /\ rpc' = [rpc EXCEPT ![d] = "none"]
        /\ got' = [got EXCEPT ![d] = Visible(got[d], state)]
        /\ resolving' = [resolving EXCEPT ![d] = resolving[d]]
    BY <1>0, <1>4 DEF Answer
  <2>2. ASSUME since, ~blind', d \in Listed
        PROVE  Seen(d, Visible(got[d], state))
    <3>1. state = "COMMITTED" /\ got[d].link = kind[d]
      BY <1>2, <1>4, <2>2
    <3>2. [got[d] EXCEPT !.body = "mine"].body = "mine"
          /\ [got[d] EXCEPT !.body = "mine"].link = got[d].link
      BY <1>0 DEF GetResults
    <3>. QED
      BY <3>1, <3>2 DEF Visible, Seen, AfterCommit, Absent
  <2>. QED
    BY Zenon, <1>0, <1>1, <1>2, <1>4, <2>1, <2>2, OneInformed
<1>. QED
  BY <1>3, <1>4, Zenon DEF GetEntry, GetEntryFails

LEMMA CompletedSInv ==
  ASSUME SInv, AttemptRests, NEW res, Completed(res),
         UNCHANGED <<asked, since, blind>>,
         since /\ ~blind => \A d \in asked \cap Listed : Seen(d, res[d])
  PROVE  SInv'
<1>1. UNCHANGED <<committed, kind, fate>>
  BY DEF AttemptRests, clientVars
<1>2. Listed' = Listed /\ Listed \subseteq Docs
  BY <1>1 DEF Listed
<1>. QED
  BY <1>1, <1>2 DEF SInv, Completed, Informed, Seen, AfterCommit

LEMMA FetchSInv ==
  ASSUME SInv, AttemptRests, NEW ds, NEW p, Fetch(ds, p),
         UNCHANGED <<asked, since, blind>>,
         \A d \in asked \ ds : rpc[d] \in {"none", "record"}
  PROVE  SInv'
<1>1. UNCHANGED <<committed, kind, fate>>
  BY DEF AttemptRests, clientVars
<1>2. Listed' = Listed /\ Listed \subseteq Docs
  BY <1>1 DEF Listed
<1>3. ASSUME NEW d \in asked \cap Listed, since, ~blind
      PROVE  Informed(d)'
  <2>1. Informed(d) /\ d \in Docs
    BY <1>2, <1>3 DEF SInv
  <2>2. CASE d \in ds
    BY <2>1, <2>2 DEF Fetch, Informed
  <2>3. CASE d \notin ds
    BY <1>1, <1>3, <2>1, <2>3 DEF Fetch, Informed, Seen, AfterCommit
  <2>. QED
    BY <2>2, <2>3
<1>. QED
  BY <1>1, <1>2, <1>3 DEF SInv

LEMMA ResolveSInv ==
  ASSUME IInv, GInv, SInv, AttemptRests, NEW d \in asked,
         ResolveReadSkew(d) \/ ResolveReadSkewFails(d)
  PROVE  SInv'
<1>0. /\ d \in Docs /\ asked \subseteq Docs /\ got \in [Docs -> GetResults]
  BY DEF GInv, GetTypeOK
<1>1. rpc[d] = "record" /\ UNCHANGED <<asked, since, blind>>
  BY Zenon DEF ResolveReadSkew, ResolveReadSkewFails
<1>2. /\ stage \in {"subsequent", "discovered", "resolving"}
      /\ \A e \in Docs : rpc[e] \in {"none", "record"}
  BY <1>0, <1>1 DEF GInv, OneRecord
<1>3. EntryState(got[d].link) \in Statuses
  BY Zenon DEF EntryState, Statuses, IInv, TypeOK, StoreTypeOK, Entries
<1>4. ASSUME since, ~blind, NEW x \in asked \cap Listed
      PROVE  Seen(x, got[x]) /\ (x = d => got[d].link = kind[d])
  <2>1. Informed(x) /\ x \in Docs
    BY <1>0, <1>4 DEF SInv
  <2>. QED
    BY <1>1, <1>2, <2>1, Zenon DEF Informed
<1>5. CASE Completed(got)
  BY ZenonT(30), <1>1, <1>4, <1>5, CompletedSInv
<1>6. CASE Completed(Copied(d))
  <2>1. \A x \in Docs : /\ x # d => Copied(d)[x] = got[x]
                        /\ Copied(d)[x].link = got[x].link
    BY <1>0 DEF Copied, GetResults
  <2>2. Copied(d)[d].body = IF got[d].link = "remove" THEN "empty" ELSE "mine"
    BY <1>0 DEF Copied, GetResults
  <2>3. ASSUME since, ~blind, NEW x \in asked \cap Listed
        PROVE  Seen(x, Copied(d)[x])
    <3>1. Seen(x, got[x]) /\ (x = d => got[d].link = kind[d])
      BY <1>4, <2>3
    <3>2. CASE x # d
      BY <1>0, <2>1, <2>3, <3>1, <3>2
    <3>3. CASE x = d
      <4>1. kind[d] # "none" /\ Failure.link = "none"
        BY <2>3, <3>3 DEF Listed, Failure
      <4>2. got[d].link # "remove" /\ kind[d] = got[d].link
        BY <3>1, <3>3, <4>1 DEF Seen
      <4>. QED
        BY <1>0, <2>1, <2>2, <3>3, <4>2 DEF Seen, AfterCommit
    <3>. QED
      BY <3>2, <3>3
  <2>. QED
    BY Zenon, <1>1, <1>6, <2>3, CompletedSInv
<1>7. CASE \E ds, p : Fetch(ds, p)
  BY <1>0, <1>1, <1>2, <1>7, FetchSInv
<1>. QED
  BY <1>2, <1>3, <1>5, <1>6, <1>7, ResolveCases, ZenonT(30) DEF ResolveReadSkewFails, ResetAndRetry

LEMMA LastResultSInv ==
  ASSUME GInv, SInv, AttemptRests, LastResult \/ LastResultTooLate
  PROVE  SInv'
<1>0. /\ UNCHANGED <<asked, since, blind>> /\ asked \subseteq Docs
      /\ \A d \in asked : rpc[d] = "none"
  BY DEF LastResult, LastResultTooLate, GInv, GetTypeOK
<1>1. UNCHANGED <<committed, kind, fate>>
  BY DEF AttemptRests, clientVars
<1>2. Listed' = Listed /\ Listed \subseteq Docs
  BY <1>1 DEF Listed
<1>3. ASSUME since, ~blind, NEW x \in asked \cap Listed
      PROVE  Informed(x) /\ Seen(x, got[x])
  BY <1>0, <1>3 DEF SInv, Informed
<1>4. CASE LastResultTooLate
  <2>1. UNCHANGED <<rpc, got, resolving>>
    BY <1>4 DEF LastResultTooLate
  <2>. QED
    BY <1>0, <1>1, <1>2, <2>1 DEF SInv, Informed, Seen, AfterCommit
<1>5. CASE Completed(got)
  BY Zenon, <1>0, <1>3, <1>5, CompletedSInv
<1>6. CASE \E ds, p : Fetch(ds, p)
  BY <1>0, <1>6, FetchSInv
<1>7. CASE /\ rpc' = [d \in Docs |-> IF d \in Linked THEN "record" ELSE "none"]
           /\ UNCHANGED <<resolving, got>>
  <2>1. ASSUME since, ~blind, NEW x \in asked \cap Listed
        PROVE  Informed(x)'
    <3>1. Informed(x) /\ Seen(x, got[x]) /\ x \in Docs
      BY <1>0, <1>3, <2>1
    <3>2. x \in Linked => got[x].link = kind[x]
      <4>1. x \in Linked => got[x].link # "none"
        BY DEF Linked
      <4>2. Failure.link = "none"
        BY DEF Failure
      <4>. QED
        BY <3>1, <4>1, <4>2 DEF Seen
    <3>. QED
      BY <1>1, <1>7, <3>1, <3>2 DEF Informed, Seen, AfterCommit
  <2>. QED
    BY <1>0, <1>1, <1>2, <2>1 DEF SInv
<1>. QED
  BY <1>4, <1>5, <1>6, <1>7 DEF LastResult, ResetAndRetry

LEMMA GetNextSInv ==
  ASSUME IInv, PInv, AInv, DInv, GInv, SInv, AttemptRests, GetNext
  PROVE  SInv'
<1>1. CASE StartGet
  <2>1. PICK ds \in SUBSET Docs :
          /\ asked' = ds
          /\ rpc' = [d \in Docs |-> IF d \in ds THEN "doc" ELSE "none"]
    BY <1>1 DEF StartGet
  <2>2. /\ since' = committed /\ committed' = committed
        /\ \A d \in Docs : resolving'[d] = "none"
    BY <1>1 DEF StartGet, GInv, Fresh, storeVars
  <2>. QED
    BY <2>1, <2>2 DEF SInv, Informed
<1>2. CASE Return
  BY <1>2 DEF Return, SInv
<1>. QED
  BY <1>1, <1>2, LastResultSInv, GetDocSInv, GetEntrySInv, ResolveSInv DEF GetNext

LEMMA OthersSInv ==
  ASSUME ~Foreign, IInv, DInv, SInv, [Next]_vars, UNCHANGED readVars
  PROVE  SInv'
<1>1. CASE ~since
  BY <1>1 DEF SInv, readVars
<1>2. CASE since
  <2>1. /\ committed' /\ kind' = kind /\ Listed' = Listed
        /\ \A d \in Docs : fate[d] = "published" => fate'[d] = "published"
    BY <1>2, AfterDecision DEF SInv
  <2>2. ASSUME NEW d \in asked \cap Listed, Informed(d)
        PROVE  Informed(d)'
    BY <2>1, <2>2 DEF Informed, Seen, AfterCommit, readVars, Listed
  <2>. QED
    BY <2>1, <2>2 DEF SInv, readVars
<1>. QED
  BY <1>1, <1>2

LEMMA RestAInv ==
  ASSUME AInv, AttemptRests
  PROVE  AInv'
BY Zenon DEF AInv, AttemptRests, clientVars, Sends, AfterCommit

\* The inductive invariant, for an attempt whose documents no other
\* transaction mutates, and cleaners whose lookups succeed.
THEOREM ReadsSeeInvariance ==
  ASSUME ~Foreign, ~LookupsFail
  PROVE  ReadsSpec => [](IInv /\ DInv /\ GInv /\ PInv /\ AInv /\ SInv)
<1>0. Sound
  BY DEF Sound
<1>1. ReadsInit => PInv /\ AInv /\ SInv
  <2>. SUFFICES ASSUME ReadsInit PROVE AInv /\ SInv
    BY InitGood DEF ReadsInit
  <2>. QED
    BY DEF ReadsInit, Init, StoreInit, GetInit, AInv, SInv
<1>2. ASSUME IInv, DInv, GInv, (IInv /\ DInv /\ GInv)', PInv, AInv, SInv,
             [ReadsNext]_readsVars
      PROVE  (PInv /\ AInv /\ SInv)'
  <2>1. CASE [Next]_vars /\ UNCHANGED readVars
    BY <1>0, <1>2, <2>1, NextPInv, NextAInv, OthersSInv
  <2>2. CASE GetNext /\ UNCHANGED <<clientVars, cleanupVars>>
    <3>1. TypeOK /\ AttemptRests
      BY <1>2, <2>2, ReaderRests DEF IInv
    <3>. QED
      BY <1>2, <2>2, <3>1, RestPInv, RestAInv, GetNextSInv
  <2>. QED
    BY <1>2, <2>1, <2>2 DEF ReadsNext, readsVars
<1>. QED
  BY <1>1, <1>2, ReadsInvariance, PTL DEF ReadsSpec

\* A read that starts after the commit sees it, whoever publishes the
\* documents meanwhile, and although the entry may be removed between the two
\* requests of do_get, or while get_multi resolves a read skew.
THEOREM ReadsSeeTheCommit ==
  ASSUME ~Foreign, ~LookupsFail
  PROVE  ReadsSpec => []ReadsSeeCommit
<1>1. ASSUME GInv, SInv
      PROVE  ReadsSeeCommit
  <2>. SUFFICES ASSUME NEW d \in Listed, Returned(d), since, ~blind
                PROVE  got[d].body = AfterCommit(d)
    BY DEF ReadsSeeCommit
  <2>1. d \in asked /\ rpc[d] = "none" /\ got[d] # Failure
    BY <1>1 DEF Returned, GInv, Complete, Listed
  <2>. QED
    BY <1>1, <2>1, Zenon DEF SInv, Informed, Seen
<1>. QED
  BY <1>1, ReadsSeeInvariance, PTL
=============================================================================
