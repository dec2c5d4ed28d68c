--------------------------- MODULE TransactionGet ---------------------------
(***************************************************************************)
(* Another transaction, which reads the documents the attempt may be        *)
(* changing: get and get_optional (attempt_context_impl::do_get), and       *)
(* get_multi (get_multi_orchestrator).  It reads again and again, and       *)
(* writes nothing.                                                          *)
(*                                                                          *)
(* do_get looks a document up and, when it finds a mutation staged by       *)
(* another attempt, looks up that attempt's entry: two requests, between    *)
(* which the attempt goes on.  get_multi fetches its documents in parallel  *)
(* (100 at a time) and then compares the transactions their links name.     *)
(***************************************************************************)
EXTENDS TransactionStore

VARIABLES
  asked,      \* the documents of the call in progress
  skew,       \* mode_ of get_multi; "get" for a call of get
  stage,      \* phase_ of get_multi, and how the call ended
  rpc,        \* the request of each document that is to be answered next
  resolving,  \* resolving_missing_atr_entry of each document: the attempt
  got,        \* the result of each document, or the document as looked up
  cleared,    \* results_ has been cleared by reset_and_retry
  since,      \* the attempt was committed when the call started (history)
  blind       \* a lookup of the record failed during the call (history)

readVars == <<asked, skew, stage, rpc, resolving, got, cleared, since, blind>>

Modes     == {"get", "disable_read_skew_detection", "prioritise"}
Fetching  == {"first_doc_fetch", "subsequent", "discovered", "resolving"}
GetPhases == Fetching \cup {"returned", "failed"}
GetRpcs   == {"none", "doc", "entry", "record"}
Attempts  == {"none", "ours", "other"}

\* A result: the content, and the staged mutation its links tell of.
Absent     == [body |-> "none", link |-> "none"]
Failure    == [body |-> "error", link |-> "none"]
GetResults == [body : Bodies \cup {"error", "empty"}, link : Stages]

GetTypeOK ==
  /\ asked \in SUBSET Docs
  /\ skew \in Modes /\ stage \in GetPhases
  /\ rpc \in [Docs -> GetRpcs]
  /\ resolving \in [Docs -> Attempts]
  /\ got \in [Docs -> GetResults]
  /\ cleared \in BOOLEAN /\ since \in BOOLEAN /\ blind \in BOOLEAN

GetInit ==
  /\ asked = {} /\ skew = "get" /\ stage = "first_doc_fetch"
  /\ rpc = [d \in Docs |-> "none"] /\ resolving = [d \in Docs |-> "none"]
  /\ got = [d \in Docs |-> Absent]
  /\ cleared = FALSE /\ since = FALSE /\ blind = FALSE

-----------------------------------------------------------------------------
(* The calls. *)

StartGet ==
  /\ asked = {}
  /\ \E ds \in SUBSET Docs, m \in Modes :
       /\ ds # {} /\ (m = "get" => Cardinality(ds) = 1)
       /\ asked' = ds /\ skew' = m
       /\ rpc' = [d \in Docs |-> IF d \in ds THEN "doc" ELSE "none"]
  /\ since' = committed
  /\ UNCHANGED <<stage, resolving, got, cleared, blind>>
  /\ UNCHANGED storeVars

\* The application has the answer, and asks for something else.
Return ==
  /\ stage \in {"returned", "failed"}
  /\ asked' = {} /\ skew' = "get" /\ stage' = "first_doc_fetch"
  /\ rpc' = [d \in Docs |-> "none"] /\ resolving' = [d \in Docs |-> "none"]
  /\ got' = [d \in Docs |-> Absent]
  /\ cleared' = FALSE /\ since' = FALSE /\ blind' = FALSE
  /\ UNCHANGED storeVars

-----------------------------------------------------------------------------
(* do_get. *)

Answer(d, r) ==
  /\ rpc' = [rpc EXCEPT ![d] = "none"]
  /\ got' = [got EXCEPT ![d] = r]

\* is_document_being_inserted
Inserted(r) == r.link = "insert" \/ (r.link \in Others /\ r.body = "none")

AttemptOf(link) == IF link \in Others THEN "other" ELSE "ours"

\* get_doc, and what do_get makes of the document.
GetDoc(d) ==
  /\ rpc[d] = "doc"
  /\ LET v == doc[d]
         r == [body |-> v.body, link |-> v.stg]
     IN IF v.stg = "none" THEN Answer(d, r)   \* the document, or nothing
        ELSE IF resolving[d] = AttemptOf(v.stg)
        THEN Answer(d, IF Inserted(r) THEN Absent ELSE r)
        ELSE /\ rpc' = [rpc EXCEPT ![d] = "entry"]
             /\ got' = [got EXCEPT ![d] = r]
  /\ UNCHANGED <<asked, skew, stage, resolving, cleared, since, blind>>
  /\ UNCHANGED storeVars

\* The request fails, or the reader's own attempt has expired.
GetDocFails(d) ==
  /\ rpc[d] = "doc"
  /\ Answer(d, Failure)
  /\ UNCHANGED <<asked, skew, stage, resolving, cleared, since, blind>>
  /\ UNCHANGED storeVars

\* The state of the entry of the attempt that the links name.  Another
\* transaction's is PENDING as long as its mutation is staged and it goes on.
EntryState(link) ==
  CASE link = "other" -> "PENDING" [] link = "orphan" -> "NONE"
    [] OTHER -> atr.status

\* mutant: the staged content, whatever the state of the entry
VisibleStaged(r, state) ==
  IF r.link = "remove" THEN Absent ELSE [r EXCEPT !.body = "mine"]

\* What is visible of a document with a staged mutation.
Visible(r, state) ==
  IF state = "COMMITTED"
  THEN IF r.link = "remove" THEN Absent ELSE [r EXCEPT !.body = "mine"]
  ELSE IF Inserted(r) THEN Absent ELSE r

GetAgain(d) ==
  /\ rpc' = [rpc EXCEPT ![d] = "doc"]
  /\ got' = [got EXCEPT ![d] = Absent]
  /\ resolving' = [resolving EXCEPT ![d] = AttemptOf(got[d].link)]

\* mutant: without an entry the attempt is taken for one not committed
GetEntryOnce(d) ==
  /\ rpc[d] = "entry"
  /\ Answer(d, Visible(got[d], EntryState(got[d].link)))
  /\ UNCHANGED <<asked, skew, stage, resolving, cleared, since, blind>>
  /\ UNCHANGED storeVars

\* get_atr finds the entry, or the record without the entry.
GetEntry(d) ==
  /\ rpc[d] = "entry"
  /\ LET state == EntryState(got[d].link)
     IN IF state = "NONE" THEN GetAgain(d)
        ELSE Answer(d, Visible(got[d], state)) /\ UNCHANGED resolving
  /\ UNCHANGED <<asked, skew, stage, cleared, since, blind>>
  /\ UNCHANGED storeVars

\* get_atr fails: the same as without an entry.
GetEntryFails(d) ==
  /\ rpc[d] = "entry" /\ Fault
  /\ GetAgain(d) /\ blind' = TRUE
  /\ UNCHANGED <<asked, skew, stage, cleared, since>>
  /\ DocsUnchanged /\ AtrUnchanged /\ UNCHANGED <<clock, queued>>

-----------------------------------------------------------------------------
(* get_multi. *)

\* The callback, with the first error if there is one.
Completed(res) ==
  /\ got' = res
  /\ stage' = IF ~cleared /\ \E d \in asked : res[d] = Failure
              THEN "failed" ELSE "returned"
  /\ rpc' = [d \in Docs |-> "none"]
  /\ UNCHANGED <<resolving, cleared>>

\* retry(ds), in the phase p
Fetch(ds, p) ==
  /\ stage' = p
  /\ rpc' = [d \in Docs |-> IF d \in ds THEN "doc" ELSE "none"]
  /\ resolving' = [d \in Docs |-> IF d \in ds THEN "none" ELSE resolving[d]]
  /\ got' = [d \in Docs |-> IF d \in ds THEN Absent ELSE got[d]]

\* results_.clear() leaves a vector without elements, to whose elements the
\* results are assigned from now on: they are lost, or the process ends.
ResetAndRetry ==
  /\ cleared' = TRUE
  /\ \/ Fetch(asked, "subsequent")
     \/ Fetch({}, "failed")

\* The results that extract_transaction_id finds an id in.  The id includes
\* the operation's, so that no two results have the same.
Linked == {d \in asked : got[d].body \notin {"none", "error"} /\ got[d].link # "none"}

\* The last result has arrived: the end of get, or disambiguate_results.
LastResult ==
  /\ asked # {} /\ stage \in Fetching /\ \A d \in asked : rpc[d] = "none"
  /\ IF skew # "prioritise" \/ cleared \/ Linked = {}
     THEN Completed(got)
     ELSE IF Cardinality(Linked) = 1
     THEN /\ rpc' = [d \in Docs |-> IF d \in Linked THEN "record" ELSE "none"]
          /\ stage' = IF stage = "first_doc_fetch" THEN "subsequent" ELSE stage
          /\ UNCHANGED <<resolving, got, cleared>>
     ELSE ResetAndRetry
  /\ UNCHANGED <<asked, skew, since, blind>> /\ UNCHANGED storeVars

\* ... after deadline_
LastResultTooLate ==
  /\ asked # {} /\ stage \in Fetching /\ \A d \in asked : rpc[d] = "none"
  /\ skew = "prioritise"
  /\ stage' = "failed"
  /\ UNCHANGED <<asked, skew, rpc, resolving, got, cleared, since, blind>>
  /\ UNCHANGED storeVars

\* copy_content_from_staged_operation_into_result: a staged removal has no
\* content, and the result is there, but empty.
Copied(d) == [got EXCEPT ![d].body = IF got[d].link = "remove" THEN "empty" ELSE "mine"]

\* resolve_read_skew has the record.
ResolveReadSkew(d) ==
  /\ rpc[d] = "record"
  /\ LET state == EntryState(got[d].link)
         inT1  == atr.ids[d] # "none"
     IN CASE state \in {"PENDING", "ABORTED"} \/ (state = "NONE" /\ stage = "resolving") ->
               Completed(got)
          [] state = "NONE" /\ stage # "resolving" ->
               Fetch({d}, "resolving") /\ UNCHANGED cleared
          [] state = "COMMITTED" /\ stage = "subsequent" /\ inT1 ->
               Fetch({d}, "discovered") /\ UNCHANGED cleared
          [] state = "COMMITTED" /\ (stage = "discovered" \/ (stage = "subsequent" /\ ~inT1)) ->
               Completed(Copied(d))
          [] state = "COMMITTED" /\ stage = "resolving" -> ResetAndRetry
  /\ UNCHANGED <<asked, skew, since, blind>> /\ UNCHANGED storeVars

\* It has not.
ResolveReadSkewFails(d) ==
  /\ rpc[d] = "record" /\ Fault /\ ResetAndRetry
  /\ UNCHANGED <<asked, skew, since, blind>>
  /\ DocsUnchanged /\ AtrUnchanged /\ UNCHANGED <<clock, queued>>

GetNext ==
  \/ StartGet \/ Return \/ LastResult \/ LastResultTooLate
  \/ \E d \in asked :
       \/ GetDoc(d) \/ GetDocFails(d) \/ GetEntry(d) \/ GetEntryFails(d)
       \/ ResolveReadSkew(d) \/ ResolveReadSkewFails(d)
=============================================================================
