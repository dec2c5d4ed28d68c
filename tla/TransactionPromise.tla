------------------------- MODULE TransactionPromise -------------------------
(***************************************************************************)
(* Transaction implements AtomicCommit: for any number of documents,        *)
(* cleaners, calls and faults, with crashes and with attempts taken for     *)
(* lost while they run, provided that no cleaner's lookup of a document     *)
(* fails, and that the application does not run operations in parallel      *)
(* while other transactions mutate the same documents.                      *)
(***************************************************************************)
EXTENDS TransactionProofs

Sound == ~LookupsFail /\ ~(Foreign /\ Concurrent)

-----------------------------------------------------------------------------
(* The inductive invariant, beyond that of TransactionProofs.               *)

\* The attempt is not committed, but may become so.
Open ==
  /\ ~committed
  /\ \/ phase = "logic" /\ err = NoError
     \/ phase = "atr_commit"
     \/ Sends("commit")

Winning == Open \/ committed

\* Who carries a mutation of the attempt is on its list.  An insert whose
\* answer was ambiguous is not, until it is repeated.
Strays ==
  Winning => \A d \in Docs : doc[d].stg \in Ours =>
    \/ kind[d] = doc[d].stg
    \/ phase = "logic" /\ op[d] = "stage_retry" /\ doc[d].stg = "insert"

\* While the entry protects them, the listed documents carry their mutations,
\* and no other transaction is about to overwrite one.
Protected == Foreign => atr.status # "NONE"

Intact ==
  /\ Open /\ Protected => \A d \in Listed : doc[d].stg = kind[d]
  /\ Winning /\ Protected =>
       \A d \in Docs : doc[d].stg \in Ours => d \notin casOf["other"]

\* Without other transactions nothing of theirs is known.
Alone == ~Foreign => casOf["other"] = {}

\* An operation that is about to insert has not staged anything else, and one
\* that is about to drop an insert has staged it.
Wanting ==
  \A d \in Docs :
    /\ op[d] = "stage_retry" => want[d] = "insert"
    /\ op[d] # "idle" /\ want[d] = "insert" => kind[d] \in {"none", "insert"}
    /\ op[d] # "idle" /\ want[d] = "drop" => kind[d] = "insert"

\* The entry is written before anything is staged: exactly so when the
\* application runs one operation at a time.
Setting == \E d \in Docs : op[d] \in {"atr", "atr_retry"}

OneByOne ==
  /\ \A d, e \in Docs : op[d] # "idle" /\ op[e] # "idle" => d = e
  /\ \A d \in Docs : phase = "logic" /\ op[d] # "idle" => err = NoError
  /\ phase = "logic" /\ err = NoError /\ Sends("pending") => Setting
  /\ Sends("pending") \/ Setting =>
       \A d \in Docs : kind[d] = "none" /\ doc[d].stg \notin Ours

PendingFirst ==
  /\ ~Concurrent => OneByOne
  /\ ~atrId => \A d \in Docs : doc[d].stg \notin Ours

\* A committed entry, and a request to commit it, list what was staged.
Copies ==
  /\ atr.status = "COMMITTED" => atr.p /\ atr.ids = kind
  /\ \A m \in late : m[1] = "commit" => m[2] = kind

\* What is published was listed, and nothing is unstaged before the decision.
Unstaging ==
  /\ \A d \in Docs : fate[d] = "published" => kind[d] # "none"
  /\ \A d \in Docs : item[d] # "queued" => committed \/ Doomed
  /\ committed =>
       \A d \in Listed : item[d] = "done" => fate[d] = "published"
  /\ phase = "atr_complete" => Unstaged

\* What a cleaner has read is a mutation of the attempt, and stands until that
\* is published.
Stands(c) ==
  /\ found[c].v.stg \in Ours
  /\ fate[found[c].d] = "published" \/ doc[found[c].d] = found[c].v

\* A cleaner of a committed attempt passes over no document.
Cleaning ==
  \A c \in Cleaners :
    /\ entry[c].status = "COMMITTED" => entry[c].ids = kind
    /\ cpc[c] # "idle" => entry[c].status # "NONE"
    /\ cpc[c] = "entry" => todo[c] = {}
    /\ cpc[c] # "idle" /\ entry[c].status = "COMMITTED" =>
         \A d \in Listed : \/ fate[d] = "published"
                           \/ d \in todo[c]
                           \/ cpc[c] = "write" /\ found[c].d = d
    /\ cpc[c] = "write" /\ entry[c].status = "COMMITTED" =>
         found[c].v.stg = kind[found[c].d] /\ Stands(c)

\* Success without a decision is that of an attempt that had none to take.
NothingSent == result = "SUCCESS" /\ ~committed => ~Sends("commit")

PInv ==
  /\ CommittedIsVisible
  /\ Strays /\ Intact /\ Alone /\ Wanting /\ PendingFirst /\ Copies
  /\ Unstaging /\ Cleaning /\ NothingSent

Good == TypeOK /\ Core /\ PInv

-----------------------------------------------------------------------------
(* Steps that touch no document.                                            *)

Quiet ==
  /\ UNCHANGED <<doc, fate, kind, op, want, atrId, item>>
  /\ casOf'["other"] = casOf["other"]

\* What such a step may do to the entry.
QuietEntry ==
  \/ UNCHANGED <<atr, committed>>
  \/ /\ atr' = CommitEffect(kind) /\ CommitOk /\ committed'
     /\ Winning /\ phase # "logic"
  \/ /\ atr' = NoEntry /\ UNCHANGED committed
     /\ committed => \A d \in Listed : fate[d] = "published"
  \/ atr'.status = "ABORTED" /\ UNCHANGED committed /\ Doomed'
  \/ /\ atr' = PendingEffect /\ PendingOk /\ UNCHANGED committed
     /\ Sends("pending")

QuietStep ==
  /\ Quiet /\ QuietEntry
  /\ phase' = "logic" => phase = "logic" /\ UNCHANGED err
  /\ Open' /\ phase = "logic" /\ phase' # "logic" => AllIdle
  /\ Winning' => Winning
  /\ Doomed => Doomed'
  /\ \A m \in late' : m \in late \/ m = <<"commit", kind>> \/ m[1] = "abort"
  /\ phase' = "atr_complete" => Unstaged
  /\ result' = "SUCCESS" /\ ~committed' => ~Sends("commit")'

LEMMA QuietCleaners ==
  ASSUME Sound, Good, QuietStep, Cleaning'
  PROVE  PInv'
<1>. USE DEF Good, PInv
<1>1. /\ UNCHANGED <<doc, fate, kind, op, want, atrId, item>>
      /\ casOf'["other"] = casOf["other"]
      /\ Listed' = Listed
  BY DEF QuietStep, Quiet, Listed
<1>2. atr' = CommitEffect(kind) =>
        atr'.status = "COMMITTED" /\ atr'.p /\ atr'.ids = kind
  BY DEF CommitEffect
<1>3. /\ atr' = NoEntry => atr'.status = "NONE"
      /\ atr' = PendingEffect => atr'.status = "PENDING"
  BY DEF NoEntry, PendingEffect
<1>4. Sends("pending")' => Sends("pending")
  BY DEF QuietStep, Sends
<1>5. Open' => Open
  BY DEF QuietStep, QuietEntry, Winning, Open, TypeOK, StoreTypeOK
<1>6. ASSUME Sends("pending"), Foreign
      PROVE  \A d \in Docs : kind[d] = "none" /\ doc[d].stg \notin Ours
  BY <1>6 DEF Sound, PendingFirst, OneByOne
<1>7. CommittedIsVisible'
  <2>1. CASE UNCHANGED <<atr, committed>>
    BY <1>1, <2>1 DEF CommittedIsVisible
  <2>2. CASE atr' = CommitEffect(kind) /\ CommitOk /\ Winning
    <3>1. CASE committed
      BY <1>1, <1>2, <2>2, <3>1 DEF CommittedIsVisible
    <3>2. CASE Open
      <4>1. Protected
        BY <2>2 DEF Protected, CommitOk
      <4>2. \A d \in Listed : doc[d].stg = kind[d] /\ kind[d] \in Ours
        BY <3>2, <4>1 DEF Intact, Listed, TypeOK, ClientTypeOK, Kinds
      <4>. QED
        BY <1>1, <1>2, <2>2, <4>2 DEF CommittedIsVisible, Listed
    <3>. QED
      BY <2>2, <3>1, <3>2 DEF Winning
  <2>3. CASE /\ UNCHANGED committed
             /\ committed => \A d \in Listed : fate[d] = "published"
    BY <1>1, <2>3 DEF CommittedIsVisible, Listed
  <2>4. CASE UNCHANGED committed /\ Doomed'
    BY <2>4 DEF CommittedIsVisible, Doomed
  <2>5. CASE PendingOk /\ UNCHANGED committed
    BY <1>1, <2>5 DEF CommittedIsVisible, PendingOk
  <2>. QED
    BY <2>1, <2>2, <2>3, <2>4, <2>5 DEF QuietStep, QuietEntry
<1>8. Strays'
  <2>1. ASSUME Winning', phase = "logic", phase' # "logic"
        PROVE  AllIdle
    <3>1. ~committed /\ ~Sends("commit")
      BY <2>1 DEF Core, Undecided
    <3>2. Open'
      BY <2>1, <3>1 DEF Winning, QuietStep, QuietEntry, Open
    <3>. QED
      BY <2>1, <3>2 DEF QuietStep
  <2>. QED
    BY <1>1, <2>1 DEF Strays, QuietStep, AllIdle
<1>9. Intact'
  <2>1. ASSUME Winning', Protected', ~Protected
        PROVE  \A d \in Docs : kind[d] = "none" /\ doc[d].stg \notin Ours
    <3>1. Foreign /\ atr.status = "NONE" /\ atr'.status # "NONE"
      BY <2>1 DEF Protected
    <3>2. ~Doomed'
      BY <2>1 DEF Doomed, Winning, Open, RollbackPhases
    <3>3. Sends("pending")
      BY <1>3, <3>1, <3>2 DEF QuietStep, QuietEntry, CommitOk
    <3>. QED
      BY <1>6, <3>1, <3>3
  <2>2. Winning' => Winning
    BY DEF QuietStep
  <2>3. Open' => Winning'
    BY DEF Winning
  <2>. QED
    BY <1>1, <1>5, <2>1, <2>2, <2>3 DEF Intact, Listed
<1>10. Alone' /\ Wanting'
  BY <1>1 DEF Alone, Wanting
<1>11. PendingFirst'
  BY <1>1, <1>4 DEF PendingFirst, OneByOne, Setting, QuietStep
<1>12. Copies'
  <2>1. \A m \in late' : m[1] = "commit" => m[2] = kind
    BY DEF QuietStep, Copies
  <2>2. atr'.status = "COMMITTED" => atr'.p /\ atr'.ids = kind
    BY <1>2, <1>3 DEF QuietStep, QuietEntry, Copies
  <2>. QED
    BY <1>1, <2>1, <2>2 DEF Copies
<1>13. Unstaging'
  <2>1. committed => committed'
    BY Zenon DEF QuietStep, QuietEntry
  <2>2. \A d \in Docs : item[d] # "queued" => committed' \/ Doomed'
    BY <2>1 DEF QuietStep, Unstaging
  <2>3. ASSUME committed', ~committed
        PROVE  \A d \in Docs : item[d] = "queued"
    BY <2>3 DEF QuietStep, Unstaging, Doomed
  <2>. QED
    BY <1>1, <2>1, <2>2, <2>3 DEF Unstaging, QuietStep, Unstaged, Listed
<1>14. NothingSent'
  BY DEF QuietStep, NothingSent
<1>. QED
  BY <1>7, <1>8, <1>9, <1>10, <1>11, <1>12, <1>13, <1>14

LEMMA QuietPromise ==
  ASSUME Sound, Good, QuietStep, UNCHANGED cleanupVars
  PROVE  PInv'
<1>1. Cleaning'
  BY DEF Good, PInv, Cleaning, Stands, QuietStep, Quiet, cleanupVars, Listed
<1>. QED
  BY <1>1, QuietCleaners

\* A request to the entry, as a quiet step sees it.
LEMMA ApplyQuiet ==
  ASSUME Good, NEW r, NEW ids, Apply(r, ids),
         r = "pending" => Sends("pending"),
         r = "commit" => ids = kind /\ Winning /\ phase # "logic",
         r \notin {"pending", "commit"} => Doomed'
  PROVE  QuietEntry
<1>1. CASE r = "pending"
  BY <1>1 DEF Apply, QuietEntry
<1>2. CASE r = "commit"
  <2>1. CASE CommitOk
    <3>1. committed'
      BY <1>2, <2>1, Zenon DEF Apply
    <3>. QED
      BY <1>2, <2>1, <3>1, Zenon DEF Apply, QuietEntry
  <2>2. CASE ~CommitOk
    <3>1. committed \in BOOLEAN /\ CommitOk \in BOOLEAN
      BY DEF Good, TypeOK, StoreTypeOK, CommitOk
    <3>2. UNCHANGED <<atr, committed>>
      BY <1>2, <2>2, <3>1 DEF Apply
    <3>. QED
      BY <3>2 DEF QuietEntry
  <2>. QED
    BY <2>1, <2>2
<1>3. CASE r \notin {"pending", "commit"}
  BY <1>3, ApplyEffects, AbortedEntry DEF QuietEntry, Good, TypeOK
<1>. QED
  BY <1>1, <1>2, <1>3

\* A late request arrives, and time passes.
LEMMA LatePromise ==
  ASSUME Sound, Good, Core', LateArrives \/ Tick(Stopped),
         UNCHANGED <<clientVars, cleanupVars>>
  PROVE  PInv'
<1>. USE DEF Good
<1>1. Quiet /\ UNCHANGED <<phase, err, result, kind>>
  BY DEF LateArrives, Tick, Quiet, DocsUnchanged, clientVars
<1>2. \A r : Sends(r)' => Sends(r)
  BY DEF LateArrives, Tick, AtrUnchanged, Sends
<1>3. QuietEntry
  <2>1. ASSUME NEW m \in late, Apply(m[1], m[2])
        PROVE  QuietEntry
    <3>1. Sends(m[1])
      BY DEF Sends
    <3>2. m[1] = "commit" => m[2] = kind /\ Winning /\ phase # "logic"
      BY <3>1 DEF PInv, Copies, Winning, Open, Core, Undecided
    <3>3. m[1] \notin {"pending", "commit"} => Doomed'
      <4>1. ASSUME m[1] \notin {"pending", "commit"}
            PROVE  Doomed /\ UNCHANGED committed
        BY <2>1, <4>1, ApplyEffects DEF Core, DoomedRight, Aborts, TypeOK
      <4>. QED
        BY <1>1, <1>2, <4>1 DEF Doomed
    <3>. QED
      BY <2>1, <3>1, <3>2, <3>3, ApplyQuiet
  <2>. QED
    BY <2>1 DEF LateArrives, Tick, AtrUnchanged, QuietEntry
<1>4. Winning' => Winning
  BY <1>1, <1>2, <1>3 DEF Winning, Open, QuietEntry
<1>5. Doomed => Doomed'
  BY <1>1, <1>2, <1>3 DEF Doomed, QuietEntry, Winning, Open, RollbackPhases
<1>6. \A m \in late' : m \in late
  BY DEF LateArrives, Tick, AtrUnchanged
<1>7. committed => committed'
  BY <1>3, Zenon DEF QuietEntry
<1>. QED
  BY <1>1, <1>2, <1>3, <1>4, <1>5, <1>6, <1>7, QuietPromise
     DEF QuietStep, PInv, Unstaging, NothingSent

\* The lambda ends, and the client crashes.
LEMMA LogicEndPromise ==
  ASSUME Sound, Good, Core', Commit \/ LogicFails \/ Crash,
         UNCHANGED cleanupVars
  PROVE  PInv'
<1>. USE DEF Good
<1>1. Quiet /\ AtrUnchanged
  BY DEF Commit, LogicFails, Crash, Quiet, ServerUnchanged, DocsUnchanged,
     EndFrame, OpsDone, AtrUnchanged, storeVars
<1>2. \A r : Sends(r)' = Sends(r)
  BY <1>1 DEF AtrUnchanged, Sends
<1>3. CASE Commit \/ LogicFails
  <2>1. phase = "logic" /\ AllIdle /\ ~committed /\ ~Sends("commit")
    BY <1>3 DEF Commit, LogicFails, Core, Undecided
  <2>2. /\ phase' \in {"handle_error", "atr_commit", "finished"}
        /\ phase' = "atr_commit" => err = NoError
    BY <1>3 DEF Commit, LogicFails, Handle
  <2>3. Open' => Open
    BY <1>1, <1>2, <2>1, <2>2 DEF Open, AtrUnchanged
  <2>4. ~Doomed
    BY <2>1 DEF Doomed, RollbackPhases
  <2>. QED
    BY <1>1, <1>2, <2>1, <2>2, <2>3, <2>4, QuietPromise
       DEF QuietStep, QuietEntry, AtrUnchanged, Winning, Open
<1>4. CASE Crash
  <2>1. phase' = "crashed" /\ UNCHANGED result /\ ~Stopped
    BY <1>4 DEF Crash
  <2>2. Winning' => Winning
    BY <1>1, <1>2, <2>1 DEF Winning, Open, AtrUnchanged
  <2>3. Doomed => Doomed'
    BY <1>1, <1>2, <2>1 DEF Doomed, AtrUnchanged
  <2>4. Open' /\ phase = "logic" => AllIdle
    BY <1>1, <1>2, <2>1 DEF Open, AtrUnchanged, Core, Undecided
  <2>. QED
    BY <1>1, <1>2, <2>1, <2>2, <2>3, <2>4, QuietPromise
       DEF QuietStep, QuietEntry, AtrUnchanged, PInv, NothingSent
<1>. QED
  BY <1>3, <1>4

\* atr_commit, its ambiguity resolution, and the end of a committed attempt.
LEMMA CommitEndPromise ==
  ASSUME Sound, Good, Core',
         AtrCommit \/ ResolveAmbiguity \/ CommitDocsEnd \/ AtrComplete,
         UNCHANGED cleanupVars
  PROVE  PInv'
<1>. USE DEF Good
<1>1. Quiet
  BY DEF AtrCommit, ResolveAmbiguity, CommitDocsEnd, AtrComplete, Quiet,
     ServerUnchanged, DocsUnchanged, EndFrame, OpsDone
<1>2. CASE AtrCommit
  <2>1. phase = "atr_commit" /\ Winning /\ ~Doomed /\ result' = "none"
    BY <1>2 DEF AtrCommit, Winning, Open, Doomed, RollbackPhases, Core, Reported
  <2>2. phase' \in {"handle_error", "commit_docs", "resolve", "atr_commit"}
    BY <1>2 DEF AtrCommit, AtrCommitFails, Handle
  <2>3. ASSUME Apply("commit", kind)
        PROVE  QuietEntry
    BY <2>1, <2>3, ApplyQuiet
  <2>4. QuietEntry
    BY <1>2, <2>3 DEF AtrCommit, Ambiguous, AtrUnchanged, QuietEntry
  <2>5. \A m \in late' : m \in late \/ m = <<"commit", kind>>
    BY <1>2 DEF AtrCommit, Ambiguous, AtrUnchanged
  <2>. QED
    BY <1>1, <2>1, <2>2, <2>4, <2>5, QuietPromise DEF QuietStep
<1>3. CASE ResolveAmbiguity \/ CommitDocsEnd
  <2>1. /\ AtrUnchanged /\ UNCHANGED result
        /\ phase \in {"resolve", "commit_docs"}
    BY <1>3 DEF ResolveAmbiguity, CommitDocsEnd, ServerUnchanged
  <2>2. phase' \in {"handle_error", "commit_docs", "resolve", "atr_complete"}
    BY <1>3 DEF ResolveAmbiguity, CommitDocsEnd, Handle
  <2>3. phase' = "atr_complete" => Unstaged
    BY <1>3 DEF ResolveAmbiguity, CommitDocsEnd, Handle
  <2>4. result = "none" /\ ~Doomed
    BY <2>1 DEF Core, Reported, Doomed, RollbackPhases
  <2>5. Winning' => Winning
    BY <2>1, <2>2 DEF AtrUnchanged, Winning, Open, Sends
  <2>. QED
    BY <1>1, <2>1, <2>2, <2>3, <2>4, <2>5, QuietPromise
       DEF QuietStep, QuietEntry, AtrUnchanged
<1>4. CASE AtrComplete
  <2>1. /\ phase = "atr_complete" /\ phase' = "finished" /\ UNCHANGED committed
        /\ UNCHANGED late
    BY <1>4 DEF AtrComplete
  <2>2. committed /\ \A d \in Listed : fate[d] = "published"
    BY <2>1 DEF Core, CommittedRight, PInv, Unstaging, Unstaged
  <2>3. QuietEntry
    BY <1>4, <2>1, <2>2 DEF AtrComplete, QuietEntry
  <2>. QED
    BY <1>1, <2>1, <2>2, <2>3, QuietPromise DEF QuietStep, Winning, Doomed, Open
<1>. QED
  BY <1>2, <1>3, <1>4

\* The steps of a rollback.
LEMMA RollbackPromise ==
  ASSUME Sound, Good, Core',
         \/ HandleError \/ AtrAbort \/ RollbackDocsEnd \/ AtrRollbackComplete
         \/ RolledBack,
         UNCHANGED cleanupVars
  PROVE  PInv'
<1>. USE DEF Good
<1>1. Quiet /\ UNCHANGED committed
  BY DEF HandleError, AtrAbort, RollbackDocsEnd, AtrRollbackComplete,
     RolledBack, Quiet, ServerUnchanged, DocsUnchanged, OpsDone, AtrUnchanged,
     Apply, Ambiguous
<1>2. phase' \in RollbackPhases \cup {"finished"}
  BY DEF HandleError, AtrAbort, RollbackDocsEnd, AtrRollbackComplete,
     RolledBack, RollbackPhases, RollbackThrows, Finish
<1>3. CASE HandleError
  <2>1. AtrUnchanged /\ phase = "handle_error"
    BY <1>3 DEF HandleError, ServerUnchanged
  <2>2. Doomed => Doomed'
    BY <1>2, <2>1 DEF Doomed, AtrUnchanged, Sends
  <2>3. Winning' => Winning
    BY <1>2, <2>1 DEF AtrUnchanged, Winning, Open, Sends, RollbackPhases
  <2>4. result' = "SUCCESS" => committed
    <3>1. err.raise # "SUCCESS" /\ result = "none"
      BY <2>1 DEF TypeOK, ClientTypeOK, Errors, Raises, NoError, Core, Reported
    <3>. QED
      BY <1>3, <2>1, <3>1 DEF HandleError, Finish, Final, Core, CommittedRight
  <2>. QED
    BY <1>1, <1>2, <2>1, <2>2, <2>3, <2>4, QuietPromise
       DEF QuietStep, QuietEntry, AtrUnchanged, RollbackPhases
<1>4. CASE ~HandleError
  <2>1. phase \in RollbackPhases /\ Doomed
    BY <1>4 DEF AtrAbort, RollbackDocsEnd, AtrRollbackComplete, RolledBack,
       RollbackPhases, Core, DoomedRight
  <2>2. \A m \in late' : m \in late \/ m[1] = "abort"
    BY <1>4 DEF AtrAbort, RollbackDocsEnd, AtrRollbackComplete, RolledBack,
       Ambiguous, AtrUnchanged, ServerUnchanged
  <2>3. Doomed'
    BY <1>1, <1>2, <2>1, <2>2 DEF Doomed, Sends
  <2>4. ASSUME Apply("abort", kind)
        PROVE  QuietEntry
    BY <2>3, <2>4, ApplyQuiet
  <2>5. QuietEntry
    BY <1>1, <1>4, <2>1, <2>4
       DEF AtrAbort, RollbackDocsEnd, AtrRollbackComplete, RolledBack,
           Ambiguous, AtrUnchanged, ServerUnchanged, QuietEntry, Doomed
  <2>6. ~Winning' /\ ~Sends("commit")'
    BY <1>2, <2>3 DEF Doomed, Winning, Open, RollbackPhases
  <2>. QED
    BY <1>1, <1>2, <2>1, <2>2, <2>3, <2>5, <2>6, QuietPromise
       DEF QuietStep, RollbackPhases, Winning
<1>. QED
  BY <1>3, <1>4

-----------------------------------------------------------------------------
(* Steps of other transactions.                                             *)

LEMMA OtherPromise ==
  ASSUME Sound, Good, NEW d \in Docs,
         OtherChecks(d) \/ OtherStages(d) \/ OtherEnds(d),
         UNCHANGED <<clientVars, cleanupVars>>
  PROVE  PInv'
<1>. USE DEF Good, PInv
<1>1. /\ UNCHANGED <<atr, committed, late, fate, phase, err, result, kind, op,
                     want, atrId, item, cpc, entry, todo, found>>
      /\ Listed' = Listed
  BY DEF OtherChecks, OtherStages, OtherEnds, AtrUnchanged, clientVars,
     cleanupVars, Listed
<1>2. /\ \A r : Sends(r)' = Sends(r)
      /\ Open' = Open /\ Winning' = Winning /\ Protected' = Protected
      /\ Doomed' = Doomed /\ Setting' = Setting
  BY <1>1 DEF Sends, Open, Winning, Protected, Doomed, Setting
<1>4. /\ \A x \in Docs : doc'[x].stg \in Ours => doc'[x] = doc[x]
      /\ \A x \in Docs : doc[x].stg \in Ours /\ doc'[x] # doc[x] =>
                           x = d /\ d \in casOf["other"]
  <2>1. "other" \notin Ours /\ "none" \notin Ours /\ "orphan" \notin Ours
    BY DEF Ours
  <2>2. CASE OtherChecks(d)
    BY <2>2 DEF OtherChecks
  <2>3. CASE OtherStages(d)
    <3>1. Staged(d, "other").stg = "other"
      BY DEF Staged, TypeOK, StoreTypeOK, Documents
    <3>. QED
      BY <2>1, <2>3, <3>1 DEF OtherStages, Mutate, Current, TypeOK, StoreTypeOK
  <2>4. CASE OtherEnds(d)
    <3>1. /\ Unlinked(d).stg = "none" /\ Staged(d, "orphan").stg = "orphan"
          /\ [live |-> TRUE, body |-> "other", stg |-> "none"].stg = "none"
      BY DEF Unlinked, Staged, TypeOK, StoreTypeOK, Documents
    <3>. QED
      BY <2>1, <2>4, <3>1 DEF OtherEnds, Mutate, TypeOK, StoreTypeOK
  <2>. QED
    BY <2>2, <2>3, <2>4
<1>5. \A x \in Docs : doc'[x].stg \in Ours /\ x \in casOf'["other"] =>
        x \in casOf["other"] \/ ~Protected
  <2>0. "other" \in Holders
    BY DEF Holders
  <2>1. CASE OtherChecks(d)
    BY <2>0, <2>1 DEF OtherChecks, Learn, Protected, TypeOK, StoreTypeOK, Ours
  <2>2. CASE OtherStages(d)
    <3>1. doc'[d].stg = "other"
      BY <2>2 DEF OtherStages, Mutate, Staged, TypeOK, StoreTypeOK, Documents
    <3>. QED
      BY <2>0, <2>2, <3>1 DEF OtherStages, Mutate, TypeOK, StoreTypeOK, Ours
  <2>3. CASE OtherEnds(d)
    BY <2>0, <2>3 DEF OtherEnds, Mutate
  <2>. QED
    BY <2>1, <2>2, <2>3
<1>6. CommittedIsVisible'
  <2>1. ASSUME NEW x \in Docs, committed, doc[x].stg \in Ours,
               atr.status = "COMMITTED"
        PROVE  doc'[x] = doc[x]
    BY <1>4, <2>1 DEF Intact, Winning, Protected
  <2>. QED
    BY <1>1, <2>1, ZenonT(30) DEF CommittedIsVisible
<1>7. Strays'
  BY <1>1, <1>2, <1>4, Zenon DEF Strays
<1>8. Intact'
  <2>1. ASSUME Open, Protected, NEW x \in Listed
        PROVE  doc'[x].stg = kind[x]
    <3>1. doc[x].stg = kind[x] /\ kind[x] \in Ours
      BY <2>1 DEF Intact, Listed, TypeOK, ClientTypeOK, Kinds
    <3>2. x \in Docs /\ x \notin casOf["other"]
      BY <2>1, <3>1 DEF Intact, Winning, Listed
    <3>. QED
      BY Zenon, <1>4, <3>1, <3>2
  <2>. QED
    BY <1>1, <1>2, <1>4, <1>5, <2>1, Zenon DEF Intact
<1>9. Alone'
  BY DEF Alone, OtherChecks, OtherStages, OtherEnds, Mutate, Current, Holders
<1>10. PendingFirst'
  BY <1>1, <1>2, <1>4, Zenon DEF PendingFirst, OneByOne
<1>11. Wanting' /\ Copies' /\ NothingSent'
  BY <1>1, <1>2, Zenon DEF Wanting, Copies, NothingSent
<1>13. Cleaning'
  <2>1. ASSUME NEW c \in Cleaners, cpc[c] = "write", entry[c].status = "COMMITTED"
        PROVE  Stands(c)'
    <3>. DEFINE x == found[c].d
    <3>1. x \in Docs /\ committed /\ kind[x] = found[c].v.stg /\ Stands(c)
      BY <2>1 DEF Cleaning, TypeOK, CleanupTypeOK, Core, CommittedRight
    <3>2. CASE fate[x] = "published"
      BY <1>1, <3>1, <3>2, Zenon DEF Stands
    <3>3. CASE fate[x] # "published" /\ doc[x] = found[c].v
      <4>1. doc[x].stg \in Ours /\ atr.status = "COMMITTED"
        <5>1. kind[x] # "none"
          BY <3>1 DEF Stands, Ours
        <5>. QED
          BY <3>1, <3>3, <5>1, Zenon DEF CommittedIsVisible
      <4>2. x \notin casOf["other"]
        BY <3>1, <4>1 DEF Intact, Winning, Protected
      <4>3. doc'[x] = doc[x]
        BY <1>4, <3>1, <4>1, <4>2
      <4>. QED
        BY <1>1, <3>1, <3>3, <4>3, Zenon DEF Stands
    <3>. QED
      BY <3>1, <3>2, <3>3, Zenon DEF Stands
  <2>. QED
    BY <1>1, <1>2, <2>1, Zenon DEF Cleaning
<1>12. Unstaging'
  BY <1>1, <1>2, Zenon DEF Unstaging, Unstaged
<1>. QED
  BY <1>6, <1>7, <1>8, <1>9, <1>10, <1>11, <1>12, <1>13

-----------------------------------------------------------------------------
(* Operations.                                                              *)

\* While the lambda runs nothing is committed, sent or unstaged.
LEMMA LogicRest ==
  ASSUME Good, Core', phase = "logic", phase' = "logic",
         UNCHANGED <<item, cpc, entry, todo, found>>
  PROVE  /\ ~committed' /\ ~Sends("commit") /\ ~Sends("commit")'
         /\ Open = (err = NoError) /\ Winning = (err = NoError)
         /\ Open' = (err' = NoError) /\ Winning' = (err' = NoError)
         /\ CommittedIsVisible' /\ Copies' /\ Unstaging' /\ Cleaning'
         /\ NothingSent'
<1>. USE DEF Good
<1>1. ~committed /\ ~committed' /\ ~Sends("commit") /\ ~Sends("commit")'
  BY DEF Core, Undecided
<1>2. /\ Open = (err = NoError) /\ Winning = (err = NoError)
      /\ Open' = (err' = NoError) /\ Winning' = (err' = NoError)
  BY <1>1, Zenon DEF Open, Winning
<1>3. Copies'
  BY <1>1, Zenon DEF Copies, Core, CommittedRight, Sends
<1>4. Unstaging'
  <2>1. \A d \in Docs : item[d] = "queued"
    BY <1>1 DEF PInv, Unstaging, Doomed, RollbackPhases
  <2>. QED
    BY <1>1, <2>1 DEF Unstaging, Core, CommittedRight
<1>5. Cleaning'
  BY <1>1 DEF Cleaning, PInv, Core, CommittedRight
<1>. QED
  BY <1>1, <1>2, <1>3, <1>4, <1>5, Zenon DEF CommittedIsVisible, NothingSent, Core,
     Reported

\* An operation that fails leaves an error behind.
LEMMA FailedOp ==
  ASSUME Good, phase = "logic", NEW d \in Docs, NEW e \in OpErrors, OpFails(d, e)
  PROVE  err' # NoError /\ op' = [op EXCEPT ![d] = "idle"]
BY MergedErrors, RealErrors DEF Good, Core, TypeOK, OpFails

\* An operation before it stages: the documents stay as they are.
BeforeStaging(d) ==
  /\ phase = "logic" /\ UNCHANGED <<phase, doc, kind, item>>
  /\ UNCHANGED cleanupVars
  /\ casOf'["other"] = casOf["other"]
  /\ \/ err' # NoError /\ op' = [op EXCEPT ![d] = "idle"]
     \/ UNCHANGED err /\ \E pl \in Places : op' = [op EXCEPT ![d] = pl]

\* What its error leaves of the invariant.
LEMMA BeforeStagingPromise ==
  ASSUME Sound, Good, Core', NEW d \in Docs, BeforeStaging(d),
         op[d] # "stage_retry", op'[d] # "stage_retry",
         Protected' => Protected \/ \A x \in Docs : kind[x] = "none"
                                                    /\ doc[x].stg \notin Ours
  PROVE  /\ CommittedIsVisible' /\ Copies' /\ Unstaging' /\ Cleaning'
         /\ NothingSent' /\ Strays' /\ Intact' /\ Alone'
<1>. USE DEF Good, PInv
<1>1. /\ CommittedIsVisible' /\ Copies' /\ Unstaging' /\ Cleaning'
      /\ NothingSent'
      /\ Open = (err = NoError) /\ Winning = (err = NoError)
      /\ Open' = (err' = NoError) /\ Winning' = (err' = NoError)
  BY LogicRest DEF BeforeStaging, cleanupVars
<1>2. Open' => Open /\ Winning
  BY <1>1, Zenon DEF BeforeStaging
<1>3. Listed' = Listed
  BY DEF BeforeStaging, Listed
<1>4. Strays'
  <2>1. \A x \in Docs : op[x] = "stage_retry" => op'[x] = "stage_retry"
    BY Zenon DEF BeforeStaging, TypeOK, ClientTypeOK
  <2>. QED
    BY <1>1, <1>2, <2>1 DEF Strays, BeforeStaging
<1>5. Intact'
  BY <1>1, <1>2, <1>3, Zenon DEF Intact, BeforeStaging, Listed
<1>6. Alone'
  BY DEF Alone, BeforeStaging
<1>. QED
  BY <1>1, <1>4, <1>5, <1>6

LEMMA CallPromise ==
  ASSUME Sound, Good, Core', NEW d \in Docs, NEW t \in Ours, Call(d, t),
         UNCHANGED cleanupVars
  PROVE  PInv'
<1>. USE DEF Good
<1>1. /\ phase = "logic" /\ err = NoError /\ op[d] = "idle"
      /\ Concurrent \/ AllIdle
      /\ UNCHANGED <<phase, doc, kind, item, atr, late, atrId>>
      /\ want' = [want EXCEPT ![d] = Target(d, t)]
  BY Zenon DEF Call, AtrUnchanged, StagedUnchanged
<1>2. casOf'["other"] = casOf["other"]
  BY Zenon DEF Call, Learn, TypeOK, StoreTypeOK, Holders
<1>3. \/ err' # NoError /\ op' = [op EXCEPT ![d] = "idle"]
      \/ /\ UNCHANGED err
         /\ \E pl \in {"stage", "select"} : op' = [op EXCEPT ![d] = pl]
  <2>1. {Fail, ExpiredError, Retry} \subseteq OpErrors
    BY DEF OpErrors
  <2>2. \A e \in {Fail, ExpiredError, Retry} :
          OpFails(d, e) => err' # NoError /\ op' = [op EXCEPT ![d] = "idle"]
    BY <1>1, <2>1, FailedOp
  <2>. QED
    BY <2>2, Zenon DEF Call, OpMoves
<1>4. op'[d] \in {"idle", "stage", "select"} /\ \A x \in Docs \ {d} : op'[x] = op[x]
  BY <1>3 DEF TypeOK, ClientTypeOK
<1>5. BeforeStaging(d)
  BY <1>1, <1>2, <1>3, Zenon DEF BeforeStaging, Places
<1>6. Wanting'
  <2>1. /\ Target(d, t) = "insert" => kind[d] \in {"none", "insert"}
        /\ Target(d, t) = "drop" => kind[d] = "insert"
    BY DEF Call, Target, TypeOK, ClientTypeOK, Kinds, Ours
  <2>2. want'[d] = Target(d, t) /\ \A x \in Docs \ {d} : want'[x] = want[x]
    BY <1>1 DEF TypeOK, ClientTypeOK
  <2>. QED
    BY <1>1, <1>4, <2>1, <2>2, Zenon DEF PInv, Wanting
<1>7. PendingFirst'
  <2>1. Sends("pending")' = Sends("pending")
    BY <1>1 DEF Sends
  <2>2. ASSUME ~Concurrent
        PROVE  OneByOne'
    <3>1. OneByOne /\ AllIdle
      BY <1>1, <2>2, Zenon DEF PInv, PendingFirst
    <3>2. ~Setting /\ ~Setting'
      BY <1>4, <3>1 DEF Setting, AllIdle
    <3>3. ~Sends("pending")
      BY <1>1, <3>1, <3>2, Zenon DEF OneByOne
    <3>4. \A x \in Docs : op'[x] # "idle" => x = d /\ err' = NoError
      BY <1>1, <1>3, <1>4, <3>1 DEF AllIdle, TypeOK, ClientTypeOK
    <3>. QED
      BY <2>1, <3>2, <3>3, <3>4, Zenon DEF OneByOne
  <2>. QED
    BY <1>1, <2>2, Zenon DEF PInv, PendingFirst
<1>8. Protected' = Protected
  BY <1>1 DEF Protected
<1>. QED
  BY <1>1, <1>4, <1>5, <1>6, <1>7, <1>8, BeforeStagingPromise, Zenon DEF PInv

\* The entry of the attempt is chosen and written.
LEMMA SettingPromise ==
  ASSUME Sound, Good, Core', NEW d \in Docs, phase = "logic",
         SelectAtr(d) \/ RetryAtrPending(d) \/ SetAtrPending(d),
         UNCHANGED cleanupVars
  PROVE  PInv'
<1>. USE DEF Good
<1>1. /\ op[d] \in {"select", "atr", "atr_retry"}
      /\ UNCHANGED <<phase, doc, casOf, kind, item, want>>
  BY Zenon DEF SelectAtr, RetryAtrPending, SetAtrPending, ServerUnchanged,
     DocsUnchanged, StagedUnchanged
<1>2. \/ err' # NoError /\ op' = [op EXCEPT ![d] = "idle"]
      \/ /\ UNCHANGED err
         /\ \E pl \in {"stage", "atr", "atr_retry", "hung"} :
              op' = [op EXCEPT ![d] = pl]
  <2>1. \A e \in OpErrors :
          OpFails(d, e) => err' # NoError /\ op' = [op EXCEPT ![d] = "idle"]
    BY FailedOp
  <2>2. \A pl : OpMoves(d, pl) => UNCHANGED err /\ op' = [op EXCEPT ![d] = pl]
    BY DEF OpMoves
  <2>3. CASE SelectAtr(d) \/ RetryAtrPending(d)
    BY <2>1, <2>2, <2>3 DEF SelectAtr, RetryAtrPending, OpErrors
  <2>4. CASE SetAtrPending(d)
    BY <2>1, <2>2, <2>4 DEF SetAtrPending, PendingFails, OpErrors
  <2>. QED
    BY <2>3, <2>4
<1>3. /\ op'[d] \in {"idle", "stage", "atr", "atr_retry", "hung"}
      /\ \A x \in Docs \ {d} : op'[x] = op[x]
  BY <1>2 DEF TypeOK, ClientTypeOK
<1>4. BeforeStaging(d)
  BY <1>1, <1>2 DEF BeforeStaging, Places
<1>5. Wanting'
  BY <1>1, <1>3, Zenon DEF PInv, Wanting
<1>6. ~atrId' => ~atrId
  BY Zenon DEF SelectAtr, RetryAtrPending, SetAtrPending
<1>7. ASSUME ~Concurrent
      PROVE  OneByOne'
  <2>1. OneByOne /\ err = NoError
    BY <1>1, <1>7, Zenon DEF PInv, PendingFirst, OneByOne
  <2>2. \A x \in Docs : op'[x] # "idle" => x = d /\ err' = NoError
    <3>1. \A x \in Docs : op[x] # "idle" => x = d
      BY <1>1, <2>1, Zenon DEF OneByOne
    <3>. QED
      BY <1>2, <1>3, <2>1, <3>1 DEF TypeOK, ClientTypeOK
  <2>3. op[d] \in {"atr", "atr_retry"} \/ ~atrId =>
          \A x \in Docs : kind[x] = "none" /\ doc[x].stg \notin Ours
    BY <2>1, Zenon DEF OneByOne, Setting, Core, AtrFirst, PInv, PendingFirst
  <2>4. CASE SelectAtr(d) /\ atrId
    <3>1. ~Setting
      BY <2>1, <2>4, Zenon DEF OneByOne, Setting, SelectAtr
    <3>2. ~Sends("pending")
      BY <2>1, <3>1, Zenon DEF OneByOne
    <3>3. UNCHANGED late /\ op'[d] = "stage"
      BY <2>4 DEF SelectAtr, ServerUnchanged, AtrUnchanged, OpMoves, TypeOK,
         ClientTypeOK
    <3>4. ~Setting' /\ ~Sends("pending")'
      BY <2>2, <3>2, <3>3 DEF Setting, Sends
    <3>. QED
      BY <2>2, <3>4, Zenon DEF OneByOne
  <2>5. CASE ~(SelectAtr(d) /\ atrId)
    <3>1. \A x \in Docs : kind'[x] = "none" /\ doc'[x].stg \notin Ours
      BY <1>1, <2>3, <2>5, Zenon DEF SelectAtr, RetryAtrPending, SetAtrPending
    <3>2. err' = NoError /\ Sends("pending")' => Setting'
      <4>1. CASE SelectAtr(d) \/ RetryAtrPending(d)
        <5>1. op'[d] = "atr" \/ err' # NoError
          BY <1>2, <2>3, <2>5, <4>1
             DEF SelectAtr, RetryAtrPending, OpMoves, OpFails, TypeOK,
                 ClientTypeOK
        <5>. QED
          BY <5>1 DEF Setting
      <4>2. CASE SetAtrPending(d)
        <5>1. late' = {} \/ op'[d] = "atr_retry" \/ err' # NoError
          BY <1>2, <4>2 DEF SetAtrPending, AtrUnchanged, OpMoves, OpFails,
             TypeOK, ClientTypeOK
        <5>. QED
          BY <5>1 DEF Setting, Sends
      <4>. QED
        BY <4>1, <4>2
    <3>. QED
      BY <2>2, <3>1, <3>2, Zenon DEF OneByOne
  <2>. QED
    BY <2>4, <2>5
<1>8. PendingFirst'
  BY <1>1, <1>6, <1>7, Zenon DEF PInv, PendingFirst
<1>9. Protected' => Protected \/ \A x \in Docs : kind[x] = "none"
                                                 /\ doc[x].stg \notin Ours
  <2>1. CASE SetAtrPending(d)
    BY <2>1, ZenonT(30) DEF SetAtrPending, Setting, Protected, Sound, PInv, PendingFirst,
       OneByOne
  <2>2. CASE SelectAtr(d) \/ RetryAtrPending(d)
    BY <2>2, Zenon DEF SelectAtr, RetryAtrPending, ServerUnchanged, AtrUnchanged,
       Protected
  <2>. QED
    BY Zenon, <2>1, <2>2
<1>. QED
  BY <1>1, <1>3, <1>4, <1>5, <1>8, <1>9, BeforeStagingPromise, ZenonT(30) DEF PInv

\* Staging, as the invariant sees it: the operation fails, the mutation is
\* staged and listed, it is dropped and no longer listed, the insert will be
\* repeated, or nothing happens.
Staging(d) ==
  \/ err' # NoError /\ op'[d] = "idle"
  \/ UNCHANGED err /\ op'[d] = "idle" /\ kind'[d] \in Ours
     /\ doc'[d].stg = kind'[d]
  \/ UNCHANGED err /\ op'[d] = "idle" /\ kind'[d] = "none"
     /\ doc'[d].stg = "none"
  \/ UNCHANGED <<err, kind>> /\ op'[d] = "stage_retry" /\ want[d] = "insert"
     /\ (doc'[d] = doc[d] \/ doc'[d].stg = "insert")
  \/ UNCHANGED <<err, kind, doc>> /\ op'[d] = op[d]
  \/ UNCHANGED <<err, kind, doc>> /\ op'[d] = "idle" /\ doc[d].stg # "insert"

LEMMA StagingSteps ==
  ASSUME Good, NEW d \in Docs, phase = "logic",
         StageWithCas(d) \/ StageInsert(d) \/ RemoveStagedInsert(d)
  PROVE  /\ Staging(d)
         /\ \A x \in Docs \ {d} : /\ op'[x] = op[x] /\ kind'[x] = kind[x]
                                  /\ doc'[x] = doc[x]
         /\ casOf'["other"] \subseteq casOf["other"]
         /\ UNCHANGED doc \/ d \notin casOf'["other"]
<1>. USE DEF Good
<1>1. "other" \in Holders /\ "other" # "client" /\ "client" \in Holders
  BY DEF Holders
<1>2. \A e \in OpErrors :
        OpFails(d, e) => err' # NoError /\ op' = [op EXCEPT ![d] = "idle"]
  BY FailedOp
<1>3. \A k \in Stages : Staged(d, k).stg = k
  BY DEF Staged, TypeOK, StoreTypeOK, Documents
<1>4. Unlinked(d).stg = "none"
  BY DEF Unlinked, TypeOK, StoreTypeOK, Documents
<1>5. \A v, hs : Mutate(d, v, hs) =>
        /\ doc'[d] = v
        /\ "other" \notin hs => /\ casOf'["other"] \subseteq casOf["other"]
                                /\ d \notin casOf'["other"]
  BY <1>1 DEF Mutate, TypeOK, StoreTypeOK
<1>6. Learn("client", d) => casOf'["other"] = casOf["other"]
  BY <1>1 DEF Learn, TypeOK, StoreTypeOK
<1>7. \A k, keep : OpStaged(d, k, keep) =>
        UNCHANGED err /\ op'[d] = "idle" /\ kind'[d] = k
  BY DEF OpStaged, OpMoves, TypeOK, ClientTypeOK
<1>8. \A pl : OpMoves(d, pl) => UNCHANGED err /\ op'[d] = pl
  BY DEF OpMoves, TypeOK, ClientTypeOK
<1>9. (\E e \in OpErrors : OpFails(d, e)) => err' # NoError /\ op'[d] = "idle"
  BY <1>2 DEF TypeOK, ClientTypeOK
<1>10. {Fail, Retry, ExpiredError, NoRollback("EXPIRED")} \subseteq OpErrors
  BY DEF OpErrors
<1>11. /\ casOf'["other"] \subseteq casOf["other"]
       /\ UNCHANGED doc \/ d \notin casOf'["other"]
  <2>1. "other" \notin {"client"} /\ "other" \notin {}
    OBVIOUS
  <2>2. \A v : Mutate(d, v, {}) \/ Mutate(d, v, {"client"}) => <1>11!:
    <3>1. \A v : Mutate(d, v, {}) => <1>11!:
      BY <1>5, <2>1
    <3>2. \A v : Mutate(d, v, {"client"}) => <1>11!:
      BY <1>5, <2>1
    <3>. QED
      BY Zenon, <3>1, <3>2
  <2>3. UNCHANGED doc /\ (UNCHANGED casOf \/ Learn("client", d)) => <1>11!:
    BY <1>6
  <2>4. CASE StageWithCas(d)
    BY <2>2, <2>3, <2>4, Zenon DEF StageWithCas
  <2>5. CASE StageInsert(d)
    BY <2>2, <2>3, <2>5, Zenon DEF StageInsert
  <2>6. CASE RemoveStagedInsert(d)
    BY <2>2, <2>3, <2>6, Zenon DEF RemoveStagedInsert
  <2>. QED
    BY <2>4, <2>5, <2>6
<1>12. \A x \in Docs \ {d} : /\ op'[x] = op[x] /\ kind'[x] = kind[x]
                             /\ doc'[x] = doc[x]
  <2>1. /\ \E pl : op' = [op EXCEPT ![d] = pl]
        /\ UNCHANGED kind \/ \E k : kind' = [kind EXCEPT ![d] = k]
    <3>1. \A e : OpFails(d, e) => \E pl : op' = [op EXCEPT ![d] = pl]
      BY Zenon DEF OpFails
    <3>2. \A q : OpMoves(d, q) => \E pl : op' = [op EXCEPT ![d] = pl]
      BY Zenon DEF OpMoves
    <3>3. \A k, keep : OpStaged(d, k, keep) =>
            /\ \E pl : op' = [op EXCEPT ![d] = pl]
            /\ \E q : kind' = [kind EXCEPT ![d] = q]
      BY <3>2, Zenon DEF OpStaged
    <3>4. CASE StageWithCas(d)
      BY <3>1, <3>2, <3>3, <3>4, Zenon DEF StageWithCas, StagedUnchanged
    <3>5. CASE StageInsert(d)
      BY <3>1, <3>2, <3>3, <3>5, Zenon DEF StageInsert, StagedUnchanged
    <3>6. CASE RemoveStagedInsert(d)
      BY <3>1, <3>2, <3>3, <3>6, Zenon DEF RemoveStagedInsert, StagedUnchanged
    <3>. QED
      BY <3>4, <3>5, <3>6
  <2>2. UNCHANGED doc \/ \E v : doc' = [doc EXCEPT ![d] = v]
    <3>1. CASE StageWithCas(d)
      BY <3>1, Zenon DEF StageWithCas, Mutate
    <3>2. CASE StageInsert(d)
      BY <3>2, Zenon DEF StageInsert, Mutate
    <3>3. CASE RemoveStagedInsert(d)
      BY <3>3, Zenon DEF RemoveStagedInsert, Mutate
    <3>. QED
      BY <3>1, <3>2, <3>3
  <2>. QED
    BY <2>1, <2>2 DEF TypeOK, ClientTypeOK, StoreTypeOK
<1>13. Staging(d)
  <2>1. CASE StageWithCas(d)
    <3>1. want[d] \in Ours /\ want[d] \in Stages
      BY <2>1, Zenon DEF StageWithCas, Ours, Stages, Kinds
    <3>. QED
      BY <1>3, <1>5, <1>7, <1>9, <1>10, <2>1, <3>1, Zenon DEF StageWithCas, Staging
  <2>2. CASE StageInsert(d)
    <3>1. "insert" \in Ours /\ Staged(d, "insert").stg = "insert"
      BY <1>3 DEF Ours, Stages, Kinds
    <3>2. ASSUME \/ InsertFits(d) /\ Mutate(d, Staged(d, "insert"), {})
                 \/ UNCHANGED <<doc, casOf>>
          PROVE  doc'[d] = doc[d] \/ doc'[d].stg = "insert"
      BY Zenon, <1>5, <3>1, <3>2
    <3>3. /\ \A e \in {Retry, Fail} :
               OpFails(d, IF overtime THEN ExpiredError ELSE e) => Staging(d)
          /\ OpFails(d, ExpiredError) \/ OpFails(d, Fail) \/ OpFails(d, Retry)
               => Staging(d)
      BY <1>9, <1>10, Zenon DEF Staging
    <3>4. /\ \/ UNCHANGED doc /\ doc[d].stg = "insert"
             \/ Mutate(d, Staged(d, "insert"), {"client"})
          /\ \E keep : OpStaged(d, "insert", keep)
          => Staging(d)
      BY <1>5, <1>7, <3>1, Zenon DEF Staging
    <3>5. /\ OpMoves(d, "stage_retry") /\ UNCHANGED kind /\ want[d] = "insert"
          /\ doc'[d] = doc[d] \/ doc'[d].stg = "insert"
          => Staging(d)
      BY <1>8 DEF Staging
    <3>6. /\ \/ OpMoves(d, op[d])
             \/ OpMoves(d, "idle") /\ doc[d].stg # "insert"
          /\ UNCHANGED <<doc, kind>>
          => Staging(d)
      BY <1>8 DEF Staging
    <3>. QED
      BY <2>2, <3>2, <3>3, <3>4, <3>5, <3>6, Zenon DEF StageInsert, StagedUnchanged
  <2>3. CASE RemoveStagedInsert(d)
    BY <1>4, <1>5, <1>7, <1>9, <1>10, <2>3, Zenon DEF RemoveStagedInsert, Staging
  <2>. QED
    BY <2>1, <2>2, <2>3
<1>. QED
  BY Zenon, <1>11, <1>12, <1>13

LEMMA StagingPromise ==
  ASSUME Sound, Good, TypeOK', Core', NEW d \in Docs, phase = "logic",
         StageWithCas(d) \/ StageInsert(d) \/ RemoveStagedInsert(d),
         UNCHANGED cleanupVars
  PROVE  PInv'
<1>. USE DEF Good, PInv
<1>1. /\ UNCHANGED <<phase, item, cpc, entry, todo, found, atr, late, want, atrId>>
      /\ op[d] \in {"stage", "stage_retry"}
  BY Zenon DEF StageWithCas, StageInsert, RemoveStagedInsert, StageFrame,
     AtrUnchanged, cleanupVars
<1>2. /\ Staging(d)
      /\ \A x \in Docs \ {d} : /\ op'[x] = op[x] /\ kind'[x] = kind[x]
                               /\ doc'[x] = doc[x]
      /\ casOf'["other"] \subseteq casOf["other"]
      /\ UNCHANGED doc \/ d \notin casOf'["other"]
  BY Zenon, StagingSteps
<1>3. /\ CommittedIsVisible' /\ Copies' /\ Unstaging' /\ Cleaning'
      /\ NothingSent'
      /\ Open = (err = NoError) /\ Winning = (err = NoError)
      /\ Open' = (err' = NoError) /\ Winning' = (err' = NoError)
  BY <1>1, LogicRest
<1>4. Protected' = Protected /\ Sends("pending")' = Sends("pending")
  BY <1>1 DEF Protected, Sends
<1>5. want[d] = "insert" => kind[d] \in {"none", "insert"}
  BY <1>1 DEF Wanting
<1>6. op'[d] \in {"idle", "stage", "stage_retry"}
  BY <1>1, <1>2, Zenon DEF Staging
<1>7. op'[d] = "stage_retry" => want[d] = "insert" /\ UNCHANGED kind
  BY <1>1, <1>2 DEF Staging, Wanting
<1>8. op'[d] # "idle" => UNCHANGED <<err, kind>>
  BY <1>1, <1>2 DEF Staging
<1>9. Strays'
  <2>. SUFFICES ASSUME err' = NoError
                PROVE  \A x \in Docs : doc'[x].stg \in Ours =>
                         \/ kind'[x] = doc'[x].stg
                         \/ op'[x] = "stage_retry" /\ doc'[x].stg = "insert"
    BY <1>1, <1>3, Zenon DEF Strays
  <2>1. err = NoError
    BY <1>2, Zenon DEF Staging
  <2>2. \A x \in Docs : doc[x].stg \in Ours =>
          \/ kind[x] = doc[x].stg
          \/ op[x] = "stage_retry" /\ doc[x].stg = "insert"
    BY <1>3, <2>1, Zenon DEF Strays
  <2>3. doc'[d].stg \in Ours => \/ kind'[d] = doc'[d].stg
                                \/ op'[d] = "stage_retry" /\ doc'[d].stg = "insert"
    <3>1. "none" \notin Ours
      BY DEF Ours
    <3>. QED
      BY <1>2, <2>2, <3>1, Zenon DEF Staging
  <2>. QED
    BY Zenon, <1>2, <2>2, <2>3
<1>10. Intact'
  <2>. SUFFICES ASSUME err' = NoError, Protected
                PROVE  /\ \A x \in Listed' : doc'[x].stg = kind'[x]
                       /\ \A x \in Docs : doc'[x].stg \in Ours =>
                                            x \notin casOf'["other"]
    BY <1>3, <1>4, Zenon DEF Intact
  <2>1. err = NoError
    BY <1>2, Zenon DEF Staging
  <2>2. /\ \A x \in Docs : kind[x] # "none" => doc[x].stg = kind[x]
        /\ \A x \in Docs : doc[x].stg \in Ours => x \notin casOf["other"]
    BY <1>3, <2>1, Zenon DEF Intact, Listed
  <2>3. \A x \in Docs : kind'[x] # "none" => doc'[x].stg = kind'[x]
    BY <1>2, <1>5, <2>2 DEF Staging
  <2>. QED
    BY <1>2, <2>2, <2>3, Zenon DEF Listed
<1>11. Alone'
  BY <1>2, Zenon DEF Alone
<1>12. Wanting'
  BY <1>1, <1>2, <1>7, <1>8, Zenon DEF Wanting
<1>13. PendingFirst'
  <2>1. atrId'
    BY <1>1, Zenon DEF Core, AtrFirst
  <2>2. ASSUME ~Concurrent
        PROVE  OneByOne'
    <3>1. OneByOne
      BY <2>2 DEF PendingFirst
    <3>2. err = NoError /\ \A x \in Docs : op[x] # "idle" => x = d
      BY <1>1, <3>1, Zenon DEF OneByOne
    <3>3. \A x \in Docs : op'[x] # "idle" => x = d
      BY Zenon, <1>2, <3>2
    <3>4. ~Setting /\ ~Setting'
      BY <1>1, <1>6, <3>2, <3>3, Zenon DEF Setting
    <3>5. ~Sends("pending")
      BY <3>1, <3>2, <3>4, Zenon DEF OneByOne
    <3>. QED
      BY <1>4, <1>8, <3>2, <3>3, <3>4, <3>5, Zenon DEF OneByOne
  <2>. QED
    BY <2>1, <2>2, Zenon DEF PendingFirst
<1>. QED
  BY <1>3, <1>9, <1>10, <1>11, <1>12, <1>13

-----------------------------------------------------------------------------
(* Steps that finish a document: of the client, and of the cleaners.        *)

\* The document is written, and its mutation published or undone.
Finishes(d, w) ==
  /\ \E v \in Documents, hs \in SUBSET Holders :
       /\ v.stg = "none" /\ "other" \notin hs
       /\ Mutate(d, v, hs) /\ Decide(d, v, w)

FinishFrame ==
  /\ UNCHANGED <<atr, committed, late, phase, err, result, kind, op, want, atrId>>
  /\ committed \/ Doomed

\* What becomes of the documents of a decided attempt.
Settled ==
  /\ committed => \A x \in Docs : fate[x] = "published" => fate'[x] = "published"
  /\ \A x \in Docs : fate'[x] = "published" => kind[x] # "none"
  /\ \A x \in Docs : /\ doc'[x].stg \in Ours => doc'[x] = doc[x]
                     /\ committed /\ kind[x] # "none" /\ doc'[x] # doc[x] =>
                          fate'[x] = "published"

LEMMA FinishSettles ==
  ASSUME Good, FinishFrame, NEW d \in Docs, NEW w,
         DocsUnchanged \/ Finishes(d, w),
         committed => w = "published", Doomed => w # "published"
  PROVE  /\ Settled
         /\ Finishes(d, w) /\ committed /\ d \in Listed => fate'[d] = "published"
         /\ casOf'["other"] \subseteq casOf["other"]
<1>. USE DEF Good, PInv
<1>1. "none" \notin Ours /\ "other" \in Holders
  BY DEF Ours, Holders
<1>2. CASE DocsUnchanged /\ ~Finishes(d, w)
  BY <1>2, Zenon DEF DocsUnchanged, Settled, Unstaging
<1>3. ASSUME Finishes(d, w)
      PROVE  /\ doc'[d].stg = "none"
             /\ \A x \in Docs \ {d} : doc'[x] = doc[x] /\ fate'[x] = fate[x]
             /\ fate'[d] = IF doc[d].stg \in Ours THEN w ELSE fate[d]
             /\ casOf'["other"] \subseteq casOf["other"]
  <2>1. PICK v \in Documents, hs \in SUBSET Holders :
          /\ v.stg = "none" /\ "other" \notin hs
          /\ Mutate(d, v, hs) /\ Decide(d, v, w)
    BY <1>3 DEF Finishes
  <2>2. doc'[d] = v /\ \A x \in Docs \ {d} : doc'[x] = doc[x]
    BY <2>1 DEF Mutate, TypeOK, StoreTypeOK
  <2>3. casOf'["other"] \subseteq casOf["other"]
    BY <1>1, <2>1, Zenon DEF Mutate
  <2>4. /\ fate'[d] = IF doc[d].stg \in Ours THEN w ELSE fate[d]
        /\ \A x \in Docs \ {d} : fate'[x] = fate[x]
    BY <1>1, <2>1 DEF Decide, TypeOK, StoreTypeOK
  <2>. QED
    BY Zenon, <2>1, <2>2, <2>3, <2>4
<1>4. CASE Finishes(d, w)
  <2>1. committed /\ d \in Listed => fate'[d] = "published"
    BY <1>3, <1>4 DEF CommittedIsVisible, Listed
  <2>2. committed => \A x \in Docs : fate[x] = "published" => fate'[x] = "published"
    BY <1>3, <1>4
  <2>3. \A x \in Docs : fate'[x] = "published" => kind[x] # "none"
    <3>1. ASSUME fate'[d] = "published", kind[d] = "none"
          PROVE  FALSE
      <4>1. fate[d] # "published" /\ doc[d].stg \in Ours /\ w = "published"
        BY <1>3, <1>4, <3>1 DEF Unstaging
      <4>2. committed /\ Winning /\ phase # "logic"
        BY <4>1 DEF FinishFrame, Winning, Core, Undecided
      <4>. QED
        BY <1>1, <3>1, <4>1, <4>2 DEF Strays
    <3>. QED
      BY <1>3, <1>4, <3>1 DEF Unstaging
  <2>. QED
    BY <1>1, <1>3, <1>4, <2>1, <2>2, <2>3, Zenon DEF Settled, Listed
<1>. QED
  BY Zenon, <1>2, <1>4

\* What a cleaner has read stands until it is published.
LEMMA SettledStands ==
  ASSUME Good, Settled, NEW c \in Cleaners, cpc[c] = "write",
         entry[c].status = "COMMITTED", found'[c] = found[c]
  PROVE  Stands(c)'
<1>. USE DEF Good
<1>1. found[c].d \in Docs /\ committed
  BY DEF TypeOK, CleanupTypeOK, Core, CommittedRight
<1>2. Stands(c) /\ kind[found[c].d] # "none"
  BY DEF PInv, Cleaning, Stands, Ours
<1>. QED
  BY <1>1, <1>2 DEF Stands, Settled

LEMMA FinishPromise ==
  ASSUME Good, FinishFrame, Settled, casOf'["other"] \subseteq casOf["other"]
  PROVE  /\ CommittedIsVisible' /\ Strays' /\ Intact' /\ Alone' /\ Wanting'
         /\ PendingFirst' /\ NothingSent'
<1>. USE DEF Good, PInv
<1>1. /\ Listed' = Listed /\ Setting' = Setting /\ Protected' = Protected
      /\ Doomed' = Doomed /\ \A r : Sends(r)' = Sends(r)
  BY DEF FinishFrame, Listed, Setting, Protected, Doomed, Sends
<1>2. ~Open /\ ~Open'
  BY <1>1 DEF FinishFrame, Open, Doomed, RollbackPhases
<1>3. Winning' => committed /\ Winning /\ phase # "logic"
  BY <1>2 DEF Winning, FinishFrame, Core, Undecided
<1>4. CommittedIsVisible'
  BY DEF CommittedIsVisible, FinishFrame, Settled
<1>5. Strays'
  BY <1>3 DEF Strays, FinishFrame, Settled
<1>6. Intact'
  BY <1>1, <1>2, <1>3 DEF Intact, Settled
<1>7. Alone' /\ Wanting' /\ NothingSent'
  BY <1>1 DEF Alone, Wanting, NothingSent, FinishFrame
<1>8. PendingFirst'
  BY <1>1 DEF PendingFirst, OneByOne, FinishFrame, Settled
<1>. QED
  BY Zenon, <1>4, <1>5, <1>6, <1>7, <1>8

\* commit_doc, remove_doc, and the rollback of a document.
LEMMA UnstagePromise ==
  ASSUME Sound, Good, Core', NEW d \in Docs, Unstage(d), UNCHANGED cleanupVars
  PROVE  PInv'
<1>. USE DEF Good
<1>. DEFINE w == IF phase = "commit_docs" THEN "published" ELSE "undone"
<1>1. /\ FinishFrame
      /\ phase \in {"commit_docs", "rollback_docs"}
      /\ phase = "commit_docs" => committed
      /\ phase = "rollback_docs" => Doomed
      /\ UNCHANGED <<cpc, entry, todo, found>>
  <2>1. /\ phase \in {"commit_docs", "rollback_docs"} /\ ItemFrame
        /\ UNCHANGED <<cpc, entry, todo, found>>
    BY Zenon DEF Unstage, CommitDoc, RemoveDoc, RollbackDoc, cleanupVars
  <2>2. /\ phase = "commit_docs" => committed
        /\ phase = "rollback_docs" => Doomed
    BY Zenon DEF Core, CommittedRight, DoomedRight, RollbackPhases
  <2>. QED
    BY <2>1, <2>2 DEF FinishFrame, ItemFrame, AtrUnchanged, OpsDone
<1>2. /\ committed => w = "published"
      /\ Doomed => w # "published"
  BY <1>1 DEF Doomed, RollbackPhases
<1>3. /\ DocsUnchanged \/ Finishes(d, w)
      /\ item'[d] = "done" => item[d] = "done" \/ Finishes(d, w)
      /\ \A x \in Docs \ {d} : item'[x] = item[x]
  <2>1. \A v \in Documents, hs \in {{}, {"client"}} :
          v.stg = "none" /\ Mutate(d, v, hs) /\ Decide(d, v, w) => Finishes(d, w)
    <3>1. \A hs \in {{}, {"client"}} : hs \in SUBSET Holders /\ "other" \notin hs
      BY DEF Holders
    <3>. QED
      BY <3>1 DEF Finishes
  <2>2. /\ CommitWrite(d) \in Documents /\ CommitWrite(d).stg = "none"
        /\ Removed \in Documents /\ Removed.stg = "none"
        /\ Unlinked(d) \in Documents /\ Unlinked(d).stg = "none"
    <3>1. /\ Published(d).stg = "none" /\ Written.stg = "none"
          /\ Removed.stg = "none" /\ Unlinked(d).stg = "none"
      BY DEF Published, Written, Removed, Unlinked, TypeOK, StoreTypeOK, Documents
    <3>. QED
      BY <3>1, DocumentTypes DEF CommitWrite, TypeOK
  <2>3. /\ ItemDone(d) => \E i \in Items : item' = [item EXCEPT ![d] = i]
        /\ ItemFails(d) => item' = [item EXCEPT ![d] = "failed"]
        /\ \A m : ItemAgain(d, m) => UNCHANGED item
    BY DEF ItemDone, ItemFails, ItemAgain, Items
  <2>4. \A ec, o : CommitDocFails(d, ec, o) =>
          item' = [item EXCEPT ![d] = "failed"] \/ UNCHANGED item
    BY <2>3 DEF CommitDocFails
  <2>5. \/ UNCHANGED item \/ item' = [item EXCEPT ![d] = "failed"]
        \/ Finishes(d, w) /\ ItemDone(d)
    <3>1. CASE CommitDoc(d)
      BY <2>1, <2>2, <2>3, <2>4, <3>1 DEF CommitDoc
    <3>2. CASE RemoveDoc(d)
      BY <2>1, <2>2, <2>3, <3>2, Zenon DEF RemoveDoc
    <3>3. CASE RollbackDoc(d)
      BY <2>1, <2>2, <2>3, <3>3 DEF RollbackDoc
    <3>. QED
      BY <3>1, <3>2, <3>3 DEF Unstage
  <2>6. DocsUnchanged \/ Finishes(d, w)
    <3>1. CASE CommitDoc(d)
      BY <2>1, <2>2, <3>1 DEF CommitDoc
    <3>2. CASE RemoveDoc(d)
      BY <2>1, <2>2, <3>2, Zenon DEF RemoveDoc
    <3>3. CASE RollbackDoc(d)
      BY <2>1, <2>2, <3>3 DEF RollbackDoc
    <3>. QED
      BY <3>1, <3>2, <3>3 DEF Unstage
  <2>. QED
    BY <2>3, <2>5, <2>6 DEF TypeOK, ClientTypeOK
<1>4. /\ Settled
      /\ Finishes(d, w) /\ committed /\ d \in Listed => fate'[d] = "published"
      /\ casOf'["other"] \subseteq casOf["other"]
  BY Zenon, <1>1, <1>2, <1>3, FinishSettles
<1>5. /\ CommittedIsVisible' /\ Strays' /\ Intact' /\ Alone' /\ Wanting'
      /\ PendingFirst' /\ NothingSent'
  BY Zenon, <1>1, <1>4, FinishPromise
<1>6. Copies'
  BY <1>1 DEF PInv, Copies, FinishFrame
<1>7. Listed' = Listed /\ Doomed' = Doomed
  BY <1>1 DEF FinishFrame, Listed, Doomed, Sends
<1>8. Unstaging'
  BY <1>1, <1>3, <1>4, <1>7 DEF PInv, Unstaging, FinishFrame, Settled, Listed
<1>9. Cleaning'
  <2>1. \A c \in Cleaners : entry[c].status = "COMMITTED" => committed
    BY Zenon DEF Core, CommittedRight
  <2>2. UNCHANGED <<kind, cpc, entry, todo, found>>
    BY <1>1 DEF FinishFrame, cleanupVars
  <2>3. committed => \A x \in Docs : fate[x] = "published" => fate'[x] = "published"
    BY <1>4, Zenon DEF Settled
  <2>4. Listed \subseteq Docs
    BY DEF Listed
  <2>5. ASSUME NEW c \in Cleaners, cpc[c] # "idle", entry[c].status = "COMMITTED",
               NEW x \in Listed
        PROVE  \/ fate'[x] = "published"
               \/ x \in todo[c]
               \/ cpc[c] = "write" /\ found[c].d = x
    BY <2>1, <2>3, <2>4, <2>5, Zenon DEF PInv, Cleaning
  <2>6. ASSUME NEW c \in Cleaners, cpc[c] = "write", entry[c].status = "COMMITTED"
        PROVE  Stands(c)'
    BY <1>4, <2>1, <2>2, <2>6, SettledStands
  <2>. QED
    BY <1>7, <2>2, <2>5, <2>6, Zenon DEF PInv, Cleaning
<1>. QED
  BY <1>5, <1>6, <1>8, <1>9 DEF PInv

\* A place for an unstaging request, or the end of waiting for one.
LEMMA StartItemPromise ==
  ASSUME Sound, Good, Core', StartItem, UNCHANGED cleanupVars
  PROVE  PInv'
<1>. USE DEF Good
<1>1. FinishFrame /\ DocsUnchanged /\ phase \in {"commit_docs", "rollback_docs"}
  BY DEF StartItem, FinishFrame, ItemFrame, AtrUnchanged, OpsDone, Core,
     CommittedRight, DoomedRight, RollbackPhases
<1>2. \A x \in Docs : item'[x] = "done" => item[x] = "done"
  BY DEF StartItem, TypeOK, ClientTypeOK
<1>3. Settled
  BY <1>1 DEF Settled, DocsUnchanged, PInv, Unstaging
<1>4. /\ CommittedIsVisible' /\ Strays' /\ Intact' /\ Alone' /\ Wanting'
      /\ PendingFirst' /\ NothingSent'
  BY <1>1, <1>3, FinishPromise DEF DocsUnchanged
<1>5. Copies'
  BY <1>1 DEF PInv, Copies, FinishFrame
<1>6. Listed' = Listed /\ Doomed' = Doomed
  BY <1>1 DEF FinishFrame, Listed, Doomed, Sends
<1>7. Unstaging'
  BY <1>1, <1>2, <1>6 DEF PInv, Unstaging, FinishFrame, DocsUnchanged, Listed
<1>8. Cleaning'
  BY <1>1, <1>6, Zenon DEF PInv, Cleaning, Stands, FinishFrame, DocsUnchanged, cleanupVars
<1>. QED
  BY <1>4, <1>5, <1>7, <1>8 DEF PInv

LEMMA NoEntryStatus == NoEntry.status = "NONE"
BY DEF NoEntry

\* A cleaner reads the entry and the documents, and removes the entry.
LEMMA CleanerReadsPromise ==
  ASSUME Sound, Good, Core', NEW c \in Cleaners, UNCHANGED clientVars,
         \/ StartQueued(c) \/ StartLost(c) \/ ReadDoc(c) \/ DocsCleaned(c)
         \/ CleanEntry(c)
  PROVE  PInv'
<1>. USE DEF Good
<1>1. /\ UNCHANGED <<phase, err, result, op, want, kind, atrId, item>>
      /\ UNCHANGED <<doc, fate, committed, late>> /\ Listed' = Listed
  BY Zenon DEF clientVars, StartQueued, StartLost, ReadDoc, DocsCleaned, CleanEntry,
     DocsUnchanged, AtrUnchanged, storeVars, Listed
<1>2. casOf'["other"] = casOf["other"]
  <2>1. c # "other"
    BY StoreAssumption
  <2>2. UNCHANGED casOf \/ \E d : Learn(c, d)
    BY Zenon DEF StartQueued, StartLost, ReadDoc, DocsCleaned, CleanEntry,
       DocsUnchanged, storeVars
  <2>. QED
    BY <2>1, <2>2 DEF Learn, TypeOK, StoreTypeOK, Holders
<1>3. QuietEntry
  <2>1. CASE CleanEntry(c)
    <3>1. /\ cpc[c] = "entry" /\ todo[c] = {} /\ entry[c].status # "NONE"
          /\ entry[c].status \in Statuses
      BY <2>1 DEF CleanEntry, PInv, Cleaning, TypeOK, CleanupTypeOK, Entries
    <3>2. ASSUME RemovalFits(entry[c]), committed
          PROVE  \A d \in Listed : fate[d] = "published"
      <4>1. CASE entry[c].status = "PENDING"
        <5>1. atr.status # "COMMITTED"
          BY <3>2, <4>1, ZenonT(30) DEF RemovalFits, PInv, Copies
        <5>. QED
          BY <3>2, <5>1, Zenon DEF PInv, CommittedIsVisible, Listed
      <4>2. CASE entry[c].status = "COMMITTED"
        BY <3>1, <4>2, Zenon DEF PInv, Cleaning
      <4>3. CASE entry[c].status = "ABORTED"
        BY <3>2, <4>3, Zenon DEF Core, DoomedRight, Doomed
      <4>. QED
        BY <3>1, <4>1, <4>2, <4>3, Zenon DEF Statuses
    <3>. QED
      BY <1>1, <2>1, <3>2, ZenonT(30) DEF CleanEntry, QuietEntry
  <2>2. CASE ~CleanEntry(c)
    BY <1>1, <2>2, Zenon DEF StartQueued, StartLost, ReadDoc, DocsCleaned,
       AtrUnchanged, storeVars, QuietEntry
  <2>. QED
    BY <2>1, <2>2
<1>4. Cleaning'
  <2>1. \A x \in Cleaners \ {c} :
          /\ cpc'[x] = cpc[x] /\ entry'[x] = entry[x] /\ todo'[x] = todo[x]
          /\ found'[x] = found[x]
    BY Zenon DEF StartQueued, StartLost, ReadDoc, DocsCleaned, CleanEntry, Starts,
       Goes, Ends, cleanupVars, TypeOK, CleanupTypeOK
  <2>2. SUFFICES
          /\ entry'[c].status = "COMMITTED" => entry'[c].ids = kind
          /\ cpc'[c] # "idle" => entry'[c].status # "NONE"
          /\ cpc'[c] = "entry" => todo'[c] = {}
          /\ cpc'[c] # "idle" /\ entry'[c].status = "COMMITTED" =>
               \A d \in Listed : \/ fate[d] = "published"
                                 \/ d \in todo'[c]
                                 \/ cpc'[c] = "write" /\ found'[c].d = d
          /\ cpc'[c] = "write" /\ entry'[c].status = "COMMITTED" =>
               found'[c].v.stg = kind[found'[c].d] /\ Stands(c)'
    <3>1. Listed' = Listed /\ UNCHANGED <<fate, kind>>
      BY <1>1, Zenon DEF Listed
    <3>2. ASSUME NEW x \in Cleaners \ {c}
          PROVE  /\ entry'[x].status = "COMMITTED" => entry'[x].ids = kind
                 /\ cpc'[x] # "idle" => entry'[x].status # "NONE"
                 /\ cpc'[x] = "entry" => todo'[x] = {}
                 /\ cpc'[x] # "idle" /\ entry'[x].status = "COMMITTED" =>
                      \A d \in Listed : \/ fate[d] = "published"
                                        \/ d \in todo'[x]
                                        \/ cpc'[x] = "write" /\ found'[x].d = d
                 /\ cpc'[x] = "write" /\ entry'[x].status = "COMMITTED" =>
                      found'[x].v.stg = kind[found'[x].d] /\ Stands(x)'
      <4>1. /\ entry[x].status = "COMMITTED" => entry[x].ids = kind
            /\ cpc[x] # "idle" => entry[x].status # "NONE"
            /\ cpc[x] = "entry" => todo[x] = {}
            /\ cpc[x] # "idle" /\ entry[x].status = "COMMITTED" =>
                 \A d \in Listed : \/ fate[d] = "published"
                                   \/ d \in todo[x]
                                   \/ cpc[x] = "write" /\ found[x].d = d
            /\ cpc[x] = "write" /\ entry[x].status = "COMMITTED" =>
                 found[x].v.stg = kind[found[x].d] /\ Stands(x)
        BY Zenon DEF PInv, Cleaning
      <4>2. Stands(x)' = Stands(x)
        BY <1>1, <2>1, Zenon DEF Stands
      <4>. QED
        BY <2>1, <4>1, <4>2, Zenon
    <3>. QED
      BY <3>1, <3>2, Zenon DEF Cleaning
  <2>3. CASE UNCHANGED cleanupVars
    <3>1. Stands(c)' = Stands(c) /\ UNCHANGED <<cpc, entry, todo, found>>
      BY <1>1, <2>3, Zenon DEF Stands, cleanupVars
    <3>. QED
      BY <3>1, ZenonT(30) DEF PInv, Cleaning
  <2>4. CASE Starts(c) /\ atr.status # "NONE"
    <3>1. /\ cpc'[c] = "docs" /\ entry'[c] = atr /\ todo'[c] = Visited(atr)
      BY <2>4 DEF Starts, Goes, TypeOK, CleanupTypeOK
    <3>2. atr.status = "COMMITTED" => atr.ids = kind /\ Listed \subseteq Visited(atr)
      BY DEF PInv, Copies, Visited, Listed
    <3>. QED
      BY Zenon, <2>4, <3>1, <3>2
  <2>5. CASE ReadDoc(c)
    <3>1. cpc[c] = "docs" /\ UNCHANGED entry
      BY <2>5, Zenon DEF ReadDoc
    <3>2. PICK d \in todo[c] :
            /\ todo'[c] = todo[c] \ {d}
            /\ \/ /\ doc[d].stg \in Ours /\ cpc'[c] = "write"
                  /\ found'[c] = [d |-> d, v |-> doc[d]]
               \/ doc[d].stg \notin Ours /\ UNCHANGED cpc
      BY <2>5, Zenon DEF ReadDoc, Sound, Goes, TypeOK, CleanupTypeOK
    <3>3. d \in Docs
      BY DEF TypeOK, CleanupTypeOK
    <3>4. ASSUME entry[c].status = "COMMITTED"
          PROVE  committed /\ phase # "logic"
      BY <3>4 DEF Core, CommittedRight, Undecided
    <3>5. CASE doc[d].stg \in Ours /\ cpc'[c] = "write"
               /\ found'[c] = [d |-> d, v |-> doc[d]]
      <4>1. found'[c].d = d /\ found'[c].v = doc[d]
        <5>. DEFINE f == found'[c]
                    v == doc[d]
        <5>1. f = [d |-> d, v |-> v]
          BY <3>5
        <5>. HIDE DEF f, v
        <5>2. f.d = d /\ f.v = v
          BY <5>1
        <5>. QED
          BY <5>2, Zenon DEF f, v
      <4>2. entry[c].status = "COMMITTED" => kind[d] = doc[d].stg
        BY <3>3, <3>4, <3>5 DEF PInv, Strays, Winning
      <4>3. entry[c].status = "COMMITTED" =>
              /\ entry[c].ids = kind
              /\ \A x \in Listed : fate[x] = "published" \/ x \in todo[c]
        BY <3>1, ZenonT(30) DEF PInv, Cleaning
      <4>4. entry[c].status # "NONE"
        BY <3>1, Zenon DEF PInv, Cleaning
      <4>5. Stands(c)'
        BY <1>1, <3>5, <4>1, Zenon DEF Stands
      <4>. QED
        BY Zenon, <3>1, <3>2, <3>5, <4>1, <4>2, <4>3, <4>4, <4>5
    <3>6. CASE doc[d].stg \notin Ours /\ UNCHANGED cpc
      <4>1. entry[c].status = "COMMITTED" /\ d \in Listed => fate[d] = "published"
        BY <3>3, <3>4, <3>6, Zenon DEF PInv, CommittedIsVisible, Listed
      <4>. QED
        BY <3>1, <3>2, <3>6, <4>1, Zenon DEF PInv, Cleaning
    <3>. QED
      BY Zenon, <3>2, <3>5, <3>6
  <2>6. CASE DocsCleaned(c)
    <3>1. /\ cpc[c] = "docs" /\ cpc'[c] = "entry" /\ todo[c] = {}
          /\ UNCHANGED <<entry, todo, found>>
      BY <2>6 DEF DocsCleaned, Goes, TypeOK, CleanupTypeOK
    <3>2. /\ entry[c].status # "NONE"
          /\ entry[c].status = "COMMITTED" =>
               /\ entry[c].ids = kind
               /\ \A d \in Listed : fate[d] = "published" \/ d \in todo[c]
      BY <3>1, Zenon DEF PInv, Cleaning
    <3>. QED
      BY Zenon, <3>1, <3>2
  <2>7. CASE CleanEntry(c)
    <3>1. cpc'[c] = "idle" /\ entry'[c] = NoEntry
      BY <2>7 DEF CleanEntry, Ends, Goes, TypeOK, CleanupTypeOK
    <3>. QED
      BY <3>1, NoEntryStatus, Zenon
  <2>. QED
    BY <2>3, <2>4, <2>5, <2>6, <2>7, Zenon DEF StartQueued, StartLost
<1>5. \A r : Sends(r)' = Sends(r)
  BY <1>1 DEF Sends
<1>6. /\ Open' = Open /\ Winning' = Winning /\ Doomed' = Doomed
  BY <1>1, <1>5 DEF Open, Winning, Doomed
<1>. QED
  BY Zenon, <1>1, <1>2, <1>3, <1>4, <1>5, <1>6, QuietCleaners
     DEF QuietStep, Quiet, PInv, Unstaging, NothingSent

\* A cleaner finishes a document.
LEMMA CleanerWritesPromise ==
  ASSUME Sound, Good, Core', NEW c \in Cleaners, UNCHANGED clientVars,
         WriteDoc(c)
  PROVE  PInv'
<1>. USE DEF Good
<1>. DEFINE d == found[c].d
            w == IF entry[c].status = "COMMITTED" THEN "published" ELSE "undone"
<1>1. /\ cpc[c] = "write" /\ d \in Docs /\ found[c].v \in Documents
      /\ entry[c].status \in {"COMMITTED", "ABORTED"}
      /\ entry[c].status = "COMMITTED" => committed
      /\ entry[c].status = "ABORTED" => Doomed
  <2>1. cpc[c] = "write"
    BY Zenon DEF WriteDoc
  <2>2. d \in Docs /\ found[c].v \in Documents
    BY <2>1 DEF TypeOK, CleanupTypeOK
  <2>3. entry[c].status \in {"COMMITTED", "ABORTED"}
    BY <2>1 DEF Core, CleanerRight
  <2>4. /\ entry[c].status = "COMMITTED" => committed
        /\ entry[c].status = "ABORTED" => Doomed
    BY DEF Core, CommittedRight, DoomedRight
  <2>. QED
    BY <2>1, <2>2, <2>3, <2>4
<1>2. FinishFrame /\ UNCHANGED item
  BY <1>1, Zenon DEF WriteDoc, AtrUnchanged, clientVars, FinishFrame
<1>3. /\ committed => w = "published"
      /\ Doomed => w # "published"
  BY <1>1, ZenonT(30) DEF Doomed
<1>4. HasWork(entry[c], d, found[c].v)
  <2>1. entry[c].status = "COMMITTED" =>
          entry[c].ids = kind /\ found[c].v.stg = kind[found[c].d]
    BY <1>1, Zenon DEF PInv, Cleaning
  <2>2. entry[c].status = "COMMITTED" => entry[c].ids[d] = found[c].v.stg
    BY <2>1
  <2>. QED
    BY <2>2 DEF HasWork
<1>5. \/ /\ Finishes(d, w) \/ (DocsUnchanged /\ Missing(entry[c], d, found[c].v))
         /\ Goes(c, "docs") /\ UNCHANGED <<entry, todo, found>>
      \/ Ends(c) /\ (DocsUnchanged \/ Finishes(d, w))
  <2>1. /\ Write(entry[c], d, found[c].v) \in Documents
        /\ Write(entry[c], d, found[c].v).stg = "none"
    <3>1. Written.stg = "none" /\ Removed.stg = "none" /\ Unlinked(d).stg = "none"
      BY <1>1 DEF Written, Removed, Unlinked, TypeOK, StoreTypeOK, Documents
    <3>. QED
      BY <1>1, <3>1, DocumentTypes, Zenon DEF Write, TypeOK
  <2>2. \A hs \in {{}, {c}} : hs \in SUBSET Holders /\ "other" \notin hs
    BY StoreAssumption DEF Holders
  <2>3. \A hs \in {{}, {c}} :
          /\ Mutate(d, Write(entry[c], d, found[c].v), hs)
          /\ Decide(d, Write(entry[c], d, found[c].v), w)
          => Finishes(d, w)
    BY <2>1, <2>2, ZenonT(30) DEF Finishes
  <2>. QED
    BY <1>4, <2>3, Zenon DEF WriteDoc
<1>6. /\ Settled
      /\ Finishes(d, w) /\ committed /\ d \in Listed => fate'[d] = "published"
      /\ casOf'["other"] \subseteq casOf["other"]
  BY <1>1, <1>2, <1>3, <1>5, FinishSettles
<1>12. Missing(entry[c], d, found[c].v) /\ committed => fate[d] = "published"
  <2>1. committed => entry[c].status = "COMMITTED"
    BY <1>1 DEF Doomed
  <2>2. committed => Stands(c)
    BY <1>1, <2>1, Zenon DEF PInv, Cleaning
  <2>. QED
    BY <2>2 DEF Missing, Stands
<1>7. /\ CommittedIsVisible' /\ Strays' /\ Intact' /\ Alone' /\ Wanting'
      /\ PendingFirst' /\ NothingSent'
  BY Zenon, <1>2, <1>6, FinishPromise
<1>8. Copies'
  BY <1>2 DEF PInv, Copies, FinishFrame
<1>9. Listed' = Listed /\ Doomed' = Doomed
  BY <1>2 DEF FinishFrame, Listed, Doomed, Sends
<1>10. Unstaging'
  BY <1>2, <1>6, <1>9 DEF PInv, Unstaging, FinishFrame, Settled, Listed,
     Unstaged
<1>11. Cleaning'
  <2>1. \A x \in Cleaners \ {c} :
          /\ cpc'[x] = cpc[x] /\ entry'[x] = entry[x] /\ todo'[x] = todo[x]
          /\ found'[x] = found[x]
    BY <1>5 DEF Goes, Ends, TypeOK, CleanupTypeOK
  <2>2. \A x \in Cleaners : entry[x].status = "COMMITTED" => committed
    BY DEF Core, CommittedRight
  <2>3. \/ /\ cpc'[c] = "docs" /\ UNCHANGED <<entry, todo, found>>
           /\ committed /\ d \in Listed => fate'[d] = "published"
        \/ cpc'[c] = "idle" /\ entry'[c] = NoEntry
    <3>1. Missing(entry[c], d, found[c].v) /\ committed => fate'[d] = "published"
      BY <1>1, <1>6, <1>12, Zenon DEF Settled
    <3>. QED
      BY <1>5, <1>6, <3>1, Zenon DEF Goes, Ends, TypeOK, CleanupTypeOK
  <2>4. kind' = kind /\ NoEntry.status = "NONE"
    BY <1>2 DEF FinishFrame, NoEntry
  <2>5. \A x \in Docs : committed /\ fate[x] = "published" => fate'[x] = "published"
    BY <1>6, Zenon DEF Settled
  <2>6. ASSUME NEW x \in Cleaners \ {c}
        PROVE  /\ entry'[x].status = "COMMITTED" => entry'[x].ids = kind'
               /\ cpc'[x] # "idle" => entry'[x].status # "NONE"
               /\ cpc'[x] = "entry" => todo'[x] = {}
               /\ cpc'[x] # "idle" /\ entry'[x].status = "COMMITTED" =>
                    \A y \in Listed' : \/ fate'[y] = "published"
                                       \/ y \in todo'[x]
                                       \/ cpc'[x] = "write" /\ found'[x].d = y
               /\ cpc'[x] = "write" /\ entry'[x].status = "COMMITTED" =>
                    found'[x].v.stg = kind'[found'[x].d] /\ Stands(x)'
    <3>1. /\ entry[x].status = "COMMITTED" => entry[x].ids = kind
          /\ cpc[x] # "idle" => entry[x].status # "NONE"
          /\ cpc[x] = "entry" => todo[x] = {}
          /\ cpc[x] = "write" /\ entry[x].status = "COMMITTED" =>
               found[x].v.stg = kind[found[x].d] /\ Stands(x)'
      BY <1>6, <2>1, SettledStands, Zenon DEF PInv, Cleaning
    <3>2. ASSUME cpc[x] # "idle", entry[x].status = "COMMITTED", NEW y \in Listed
          PROVE  \/ fate'[y] = "published"
                 \/ y \in todo[x]
                 \/ cpc[x] = "write" /\ found[x].d = y
      <4>1. y \in Docs
        BY DEF Listed
      <4>2. \/ fate[y] = "published"
            \/ y \in todo[x]
            \/ cpc[x] = "write" /\ found[x].d = y
        BY <3>2 DEF PInv, Cleaning
      <4>. QED
        BY <2>2, <2>5, <3>2, <4>1, <4>2
    <3>. QED
      BY Zenon, <1>9, <2>1, <2>4, <3>1, <3>2
  <2>7. /\ entry'[c].status = "COMMITTED" => entry'[c].ids = kind'
        /\ cpc'[c] # "idle" => entry'[c].status # "NONE"
        /\ cpc'[c] = "entry" => todo'[c] = {}
        /\ cpc'[c] # "idle" /\ entry'[c].status = "COMMITTED" =>
             \A y \in Listed' : \/ fate'[y] = "published"
                                \/ y \in todo'[c]
                                \/ cpc'[c] = "write" /\ found'[c].d = y
        /\ cpc'[c] = "write" /\ entry'[c].status = "COMMITTED" =>
             found'[c].v.stg = kind'[found'[c].d] /\ Stands(c)'
    BY <1>1, <1>9, <2>2, <2>3, <2>4, <2>5, Zenon DEF PInv, Cleaning, Listed
  <2>. QED
    BY <2>6, <2>7, Zenon DEF Cleaning
<1>. QED
  BY <1>7, <1>8, <1>10, <1>11 DEF PInv

-----------------------------------------------------------------------------
LEMMA InitGood == Init => IInv /\ PInv
<1>. SUFFICES ASSUME Init
              PROVE  PInv
  BY InitIInv
<1>. USE DEF Init, StoreInit, ClientInit, CleanupInit
<1>1. late = {} /\ Listed = {} /\ ~committed
  BY DEF NoDocs, Listed
<1>2. \A d \in Docs : doc[d].stg = "none" /\ kind[d] = "none" /\ op[d] = "idle"
                      /\ item[d] = "queued" /\ fate[d] = "none"
  BY DEF NoDocs
<1>3. casOf["other"] = {}
  BY DEF Holders
<1>4. "none" \notin Ours
  BY DEF Ours
<1>5. /\ CommittedIsVisible /\ Strays /\ Intact /\ Alone /\ Wanting
      /\ NothingSent
  BY <1>1, <1>2, <1>3, <1>4, Zenon DEF CommittedIsVisible, Strays, Intact, Alone,
     Wanting, NothingSent, Listed
<1>6. PendingFirst /\ Copies /\ Unstaging
  BY <1>1, <1>2, <1>4, Zenon DEF PendingFirst, OneByOne, Setting, Sends, Copies,
     Unstaging, NoEntry
<1>7. Cleaning
  BY Zenon DEF Cleaning, NoEntry
<1>. QED
  BY <1>5, <1>6, <1>7 DEF PInv

LEMMA NextPInv ==
  ASSUME Sound, IInv, PInv, [Next]_vars
  PROVE  PInv'
<1>0. Good /\ TypeOK' /\ Core'
  BY NextIInv DEF IInv, Core, Good
<1>1. CASE UNCHANGED vars
  <2>1. UNCHANGED <<storeVars, clientVars, cleanupVars>>
    BY <1>1 DEF vars
  <2>2. \A r : Sends(r)' = Sends(r)
    BY <2>1 DEF storeVars, Sends
  <2>3. QuietStep
    BY <1>0, <2>1, <2>2, Zenon DEF storeVars, clientVars, QuietStep, Quiet, QuietEntry,
       Winning, Open, Doomed, Good, PInv, Unstaging, NothingSent
  <2>. QED
    BY <1>0, <2>1, <2>3, QuietPromise
<1>2. CASE StoreNext(Stopped) /\ UNCHANGED <<clientVars, cleanupVars>>
  BY <1>0, <1>2, LatePromise, OtherPromise DEF StoreNext
<1>3. ASSUME NEW c \in Cleaners, CleanerNext(c), UNCHANGED clientVars
      PROVE  PInv'
  BY <1>0, <1>3, CleanerReadsPromise, CleanerWritesPromise DEF CleanerNext
<1>4. CASE ClientNext /\ UNCHANGED cleanupVars
  <2>1. ASSUME NEW d \in Docs, NEW t \in Ours, Call(d, t)
        PROVE  PInv'
    BY <1>0, <1>4, <2>1, CallPromise
  <2>2. ASSUME NEW d \in Docs, phase = "logic", Operate(d)
        PROVE  PInv'
    BY <1>0, <1>4, <2>2, SettingPromise, StagingPromise DEF Operate
  <2>3. CASE Commit \/ LogicFails \/ Crash
    BY <1>0, <1>4, <2>3, LogicEndPromise
  <2>4. CASE StartItem
    BY <1>0, <1>4, <2>4, StartItemPromise
  <2>5. ASSUME NEW d \in Docs, Unstage(d)
        PROVE  PInv'
    BY <1>0, <1>4, <2>5, UnstagePromise
  <2>6. CASE EndAttempt
    BY <1>0, <1>4, <2>6, CommitEndPromise, RollbackPromise DEF EndAttempt
  <2>. QED
    BY <1>4, <2>1, <2>2, <2>3, <2>4, <2>5, <2>6 DEF ClientNext
<1>. QED
  BY <1>1, <1>2, <1>3, <1>4 DEF Next

-----------------------------------------------------------------------------
\* What a reader sees follows from the decision.
SeenAtOnce == \A d \in Docs : Sees(d) <=> committed /\ d \in Listed

LEMMA SeenTogether == IInv /\ PInv => SeenAtOnce
<1>. SUFFICES ASSUME IInv, PInv, NEW d \in Docs
              PROVE  Sees(d) <=> committed /\ d \in Listed
  BY DEF SeenAtOnce
<1>1. ASSUME Sees(d)
      PROVE  committed /\ d \in Listed
  <2>1. committed /\ phase # "logic"
    BY <1>1 DEF Sees, IInv, CommittedRight, Undecided
  <2>2. doc[d].stg \in Ours => kind[d] = doc[d].stg
    BY <2>1 DEF PInv, Strays, Winning
  <2>3. "none" \notin Ours
    BY DEF Ours
  <2>. QED
    BY <1>1, <2>1, <2>2, <2>3 DEF Sees, PInv, Unstaging, Listed
<1>2. ASSUME committed, d \in Listed
      PROVE  Sees(d)
  BY <1>2 DEF PInv, CommittedIsVisible, Sees, Listed
<1>. QED
  BY <1>1, <1>2

\* What a step may do to the decision, the list and the result.
DecisionStep ==
  /\ committed' # committed =>
       /\ Sends("commit") \/ phase = "atr_commit"
       /\ UNCHANGED <<result, kind>>
  /\ kind' # kind => phase = "logic" /\ phase' = "logic"
  /\ result' # result => phase # "finished" /\ UNCHANGED <<kind, committed>>

LEMMA DecisionSteps ==
  ASSUME TypeOK, [Next]_vars
  PROVE  DecisionStep
<1>1. CASE UNCHANGED vars
  BY <1>1 DEF vars, storeVars, clientVars, DecisionStep
<1>2. CASE StoreNext(Stopped) /\ UNCHANGED <<clientVars, cleanupVars>>
  <2>1. UNCHANGED <<result, kind>>
    BY <1>2 DEF clientVars
  <2>2. committed' # committed => Sends("commit")
    BY <1>2, Zenon DEF StoreNext, LateArrives, Tick, OtherChecks, OtherStages,
       OtherEnds, AtrUnchanged, Apply, Sends
  <2>. QED
    BY <2>1, <2>2 DEF DecisionStep
<1>3. ASSUME NEW c \in Cleaners, CleanerNext(c), UNCHANGED clientVars
      PROVE  DecisionStep
  <2>1. UNCHANGED <<result, kind, committed>>
    BY <1>3, Zenon DEF clientVars, CleanerNext, StartQueued, StartLost, ReadDoc,
       WriteDoc, DocsCleaned, CleanEntry, AtrUnchanged, storeVars
  <2>. QED
    BY <2>1 DEF DecisionStep
<1>4. CASE ClientNext
  <2>1. ASSUME NEW d \in Docs, NEW t \in Ours, Call(d, t)
        PROVE  DecisionStep
    BY <2>1, Zenon DEF Call, AtrUnchanged, DecisionStep
  <2>2. ASSUME NEW d \in Docs, phase = "logic", Operate(d)
        PROVE  DecisionStep
    <3>1. UNCHANGED <<phase, result, committed>>
      BY <2>2, Zenon DEF Operate, SelectAtr, RetryAtrPending, SetAtrPending,
         StageWithCas, StageInsert, RemoveStagedInsert, StageFrame,
         ServerUnchanged, AtrUnchanged, Apply, Ambiguous
    <3>. QED
      BY <2>2, <3>1 DEF DecisionStep
  <2>3. CASE Commit \/ LogicFails \/ Crash
    BY <2>3 DEF Commit, LogicFails, Crash, ServerUnchanged, AtrUnchanged,
       EndFrame, OpsDone, Stopped, storeVars, DecisionStep
  <2>4. CASE StartItem \/ \E d \in Docs : Unstage(d)
    BY <2>4, Zenon DEF StartItem, Unstage, CommitDoc, RemoveDoc, RollbackDoc,
       ItemFrame, AtrUnchanged, OpsDone, DecisionStep
  <2>5. CASE AtrCommit
    BY <2>5 DEF AtrCommit, EndFrame, OpsDone, DecisionStep
  <2>6. CASE EndAttempt /\ ~AtrCommit
    <3>1. UNCHANGED <<kind, committed>> /\ phase # "finished"
      BY <2>6, Zenon DEF EndAttempt, ResolveAmbiguity, CommitDocsEnd, AtrComplete,
         HandleError, AtrAbort, RollbackDocsEnd, AtrRollbackComplete,
         RolledBack, EndFrame, OpsDone, ServerUnchanged, AtrUnchanged, Apply,
         Ambiguous
    <3>. QED
      BY <3>1 DEF DecisionStep
  <2>. QED
    BY <1>4, <2>1, <2>2, <2>3, <2>4, <2>5, <2>6 DEF ClientNext
<1>. QED
  BY <1>1, <1>2, <1>3, <1>4 DEF Next

\* Every step of the attempt is a step of the promise, or changes nothing
\* that it speaks of.
LEMMA StepKeepsPromise ==
  ASSUME IInv, PInv, SeenAtOnce, IInv', SeenAtOnce', [Next]_vars
  PROVE  [Promise!Next]_(Promise!promise)
<1>1. DecisionStep /\ (committed => committed')
  BY DecisionSteps, EntrySteps DEF IInv, EntryStep
<1>2. \A d \in Docs : /\ Sees(d) <=> committed /\ d \in Listed
                      /\ Sees(d)' <=> committed' /\ d \in Listed'
  BY DEF SeenAtOnce
<1>3. committed \in BOOLEAN /\ committed' \in BOOLEAN
      /\ result \in Results /\ result' \in Results
  BY DEF IInv, TypeOK, StoreTypeOK, ClientTypeOK
<1>4. CASE committed' # committed
  <2>1. ~committed /\ committed' /\ UNCHANGED <<result, kind>> /\ Listed' = Listed
    BY <1>1, <1>3, <1>4 DEF DecisionStep, Listed
  <2>2. result \in {"none", "AMBIGUOUS"}
    <3>1. result' \notin {"FAILED", "EXPIRED", "RETRY"}
      BY <2>1 DEF IInv, DoomedRight, Doomed
    <3>2. result # "SUCCESS"
      BY <1>1, <1>4, <2>1 DEF DecisionStep, IInv, Reported, PInv, NothingSent
    <3>. QED
      BY <1>3, <2>1, <3>1, <3>2 DEF Results
  <2>3. Promise!Decide
    BY <1>2, <2>1, <2>2 DEF Promise!Decide, Told
  <2>. QED
    BY <2>3 DEF Promise!Next
<1>5. CASE UNCHANGED committed /\ result' # result
  <2>1. result = "none" /\ UNCHANGED <<kind, committed>> /\ Listed' = Listed
    BY <1>1, <1>5 DEF DecisionStep, IInv, Reported, Listed
  <2>2. /\ result' = "SUCCESS" => committed \/ Listed = {}
        /\ result' \in {"FAILED", "EXPIRED", "RETRY"} => ~committed
    BY <2>1, Zenon DEF IInv, CommittedRight, DoomedRight, Doomed, Listed
  <2>3. Told = "nothing" /\ Told' \in {"success", "failure", "unknown"}
    BY <1>3, <1>5, <2>1 DEF Told, Results
  <2>4. /\ Told' = "success" => result' = "SUCCESS"
        /\ Told' = "failure" => result' \in {"FAILED", "EXPIRED", "RETRY"}
    BY <1>3, <1>5, <2>1 DEF Told, Results
  <2>5. Promise!Tell(Told')
    BY <1>2, <2>1, <2>2, <2>3, <2>4 DEF Promise!Tell
  <2>. QED
    BY <2>3, <2>5 DEF Promise!Next
<1>6. CASE UNCHANGED <<committed, result>> /\ Listed' # Listed
  <2>1. phase = "logic" /\ phase' = "logic"
    BY <1>1, <1>6 DEF DecisionStep, Listed
  <2>2. ~committed /\ ~committed' /\ result = "none" /\ result' = "none"
    BY <1>6, <2>1 DEF IInv, Undecided, Reported
  <2>3. Promise!Intend
    BY <1>2, <2>2 DEF Promise!Intend, Told, Listed
  <2>. QED
    BY <2>3 DEF Promise!Next
<1>7. CASE UNCHANGED <<committed, result>> /\ Listed' = Listed
  BY <1>2, <1>7 DEF Promise!promise, Told
<1>. QED
  BY <1>4, <1>5, <1>6, <1>7

\* The strengthened invariant.
THEOREM PromiseInvariance ==
  ASSUME Sound
  PROVE  Spec => [](IInv /\ PInv)
<1>1. IInv /\ PInv /\ [Next]_vars => (IInv /\ PInv)'
  BY NextIInv, NextPInv
<1>. QED
  BY <1>1, InitGood, PTL DEF Spec

\* Once the attempt is committed, a reader sees each of its mutations, whoever
\* publishes them, commit_doc, remove_doc or a cleaner, and whoever removes
\* the entry.
THEOREM CommittedSeen ==
  ASSUME Sound
  PROVE  Spec => []CommittedIsVisible
<1>1. IInv /\ PInv => CommittedIsVisible
  BY DEF PInv
<1>. QED
  BY <1>1, PromiseInvariance, PTL

\* An attempt and its cleaners implement atomic commit: the mutations become
\* visible together, at the request that makes the entry COMMITTED, they stay
\* visible, and the application is told the truth.
THEOREM Refinement ==
  ASSUME Sound
  PROVE  Spec => AtomicPromise
<1>1. Init => Promise!Init
  BY DEF Init, StoreInit, ClientInit, Promise!Init, Sees, Told, Listed, NoDocs,
     NoEntry
<1>2. /\ IInv /\ PInv /\ SeenAtOnce /\ (IInv /\ PInv /\ SeenAtOnce)' /\ [Next]_vars
      => [Promise!Next]_(Promise!promise)
  BY StepKeepsPromise
<1>. QED
  BY <1>1, <1>2, SeenTogether, PromiseInvariance, PTL
     DEF Spec, AtomicPromise, Promise!Spec
=============================================================================
