-------------------------- MODULE AtrCleanupEntry ---------------------------
(***************************************************************************)
(* Cleanup of one attempt (atr_cleanup_entry): by the client that ran it,   *)
(* from atr_queue_, or by any client once the attempt counts as lost.       *)
(* A cleaner reads the entry, finishes the documents the entry lists one    *)
(* after the other, and removes the entry.  An error that is not ignored    *)
(* ends the cleaner's work; the lost-attempts loop comes back to it.        *)
(***************************************************************************)
EXTENDS TransactionStore

CONSTANT LookupsFail  \* TRUE: the lookup of a document may fail

ASSUME CleanupAssumption == LookupsFail \in BOOLEAN

VARIABLES
  cpc,    \* where each cleaner is
  entry,  \* atr_entry_: the entry as the cleaner read it
  todo,   \* the listed documents it has not dealt with
  found   \* the document it read last, as it was

cleanupVars == <<cpc, entry, todo, found>>

CleanerPlaces == {"idle", "docs", "write", "entry"}
Nothing == [d |-> "none", v |-> "none"]

CleanupTypeOK ==
  /\ cpc \in [Cleaners -> CleanerPlaces]
  /\ entry \in [Cleaners -> Entries]
  /\ todo \in [Cleaners -> SUBSET Docs]
  /\ found \in [Cleaners -> [d : Docs, v : Documents] \cup {Nothing}]
  /\ \A c \in Cleaners : cpc[c] = "write" =>
       found[c] \in [d : Docs, v : Documents]

CleanupInit ==
  /\ cpc = [c \in Cleaners |-> "idle"]
  /\ entry = [c \in Cleaners |-> NoEntry]
  /\ todo = [c \in Cleaners |-> {}]
  /\ found = [c \in Cleaners |-> Nothing]

Goes(c, place) == cpc' = [cpc EXCEPT ![c] = place]

\* Back to idle; what was read is forgotten.
Ends(c) ==
  /\ Goes(c, "idle")
  /\ entry' = [entry EXCEPT ![c] = NoEntry]
  /\ todo' = [todo EXCEPT ![c] = {}]
  /\ found' = [found EXCEPT ![c] = Nothing]

-----------------------------------------------------------------------------
\* mutant: removals are left alone
VisitedButRemovals(e) ==
  IF e.status \in {"COMMITTED", "ABORTED"}
  THEN {d \in Docs : e.ids[d] \in {"insert", "replace"}} ELSE {}

\* The documents cleanup_docs visits: none when the entry is PENDING.
Visited(e) ==
  IF e.status \in {"COMMITTED", "ABORTED"}
  THEN {d \in Docs : e.ids[d] # "none"} ELSE {}

Starts(c) ==
  /\ Goes(c, "docs")
  /\ entry' = [entry EXCEPT ![c] = atr]
  /\ todo' = [todo EXCEPT ![c] = Visited(atr)]
  /\ UNCHANGED found

\* attempts_loop: pop the attempt, read its entry.  An attempt whose record
\* cannot be read is left to the cleanup of lost attempts.
StartQueued(c) ==
  /\ cpc[c] = "idle" /\ queued
  /\ queued' = FALSE
  /\ \/ /\ IF atr.status = "NONE" THEN UNCHANGED cleanupVars ELSE Starts(c)
        /\ UNCHANGED faults
     \/ Fault /\ UNCHANGED cleanupVars
  /\ DocsUnchanged /\ AtrUnchanged /\ UNCHANGED clock

\* handle_atr_cleanup: the entry has expired, safety margin included
StartLost(c) ==
  /\ cpc[c] = "idle" /\ clock = "lost" /\ atr.status # "NONE"
  /\ Starts(c)
  /\ DocsUnchanged /\ AtrUnchanged /\ UNCHANGED <<clock, faults, queued>>

\* do_per_doc: a lookup that fails is ignored, like a document that carries
\* no mutation of this attempt
ReadDoc(c) ==
  /\ cpc[c] = "docs"
  /\ \E d \in todo[c] :
       /\ todo' = [todo EXCEPT ![c] = @ \ {d}]
       /\ \/ /\ doc[d].stg \in Ours
             /\ Goes(c, "write") /\ Learn(c, d)
             /\ found' = [found EXCEPT ![c] = [d |-> d, v |-> doc[d]]]
             /\ UNCHANGED faults
          \/ /\ doc[d].stg \notin Ours
             /\ UNCHANGED <<cpc, found, casOf, faults>>
          \/ /\ LookupsFail /\ Fault
             /\ UNCHANGED <<cpc, found, casOf>>
  /\ AtrUnchanged
  /\ UNCHANGED <<doc, fate, entry, clock, queued>>

-----------------------------------------------------------------------------
(* What is written, given the entry e, the document d and what was read, v. *)

\* commit_docs has content to write, or remove_docs_staged_for_removal a
\* document that is marked for removal.
HasWork(e, d, v) ==
  e.status = "COMMITTED" => (e.ids[d] = "remove") = (v.stg = "remove")

Write(e, d, v) ==
  IF e.status = "COMMITTED"
  THEN IF e.ids[d] = "remove" THEN Removed ELSE Written
  ELSE IF e.ids[d] = "insert" /\ v.live THEN Removed ELSE Unlinked(d)

\* A tombstone is committed by an insert without CAS.
WriteFits(c, e, d, v) ==
  IF e.status = "COMMITTED" /\ e.ids[d] # "remove" /\ ~v.live
  THEN ~doc[d].live ELSE Current(c, d)

\* The write of a document that was read alive and has been removed is
\* answered FAIL_DOC_NOT_FOUND, which is ignored; remove_txn_links reaches
\* tombstones too.
Missing(e, d, v) ==
  v.live /\ ~doc[d].live /\ (e.status = "COMMITTED" \/ e.ids[d] = "insert")

\* commit_docs, remove_docs_staged_for_removal, remove_docs, remove_txn_links
WriteDoc(c) ==
  LET e == entry[c]
      d == found[c].d
      v == found[c].v
      what == IF e.status = "COMMITTED" THEN "published" ELSE "undone"
  IN
  /\ cpc[c] = "write"
  /\ \/ /\ HasWork(e, d, v) /\ WriteFits(c, e, d, v)
        /\ Mutate(d, Write(e, d, v), {c}) /\ Decide(d, Write(e, d, v), what)
        /\ Goes(c, "docs") /\ UNCHANGED <<entry, todo, found, faults>>
     \/ /\ ~HasWork(e, d, v)
        /\ DocsUnchanged
        /\ Goes(c, "docs") /\ UNCHANGED <<entry, todo, found, faults>>
     \/ /\ HasWork(e, d, v) /\ ~WriteFits(c, e, d, v)
        /\ DocsUnchanged /\ UNCHANGED faults
        /\ IF Missing(e, d, v)
           THEN Goes(c, "docs") /\ UNCHANGED <<entry, todo, found>>
           ELSE Ends(c)
     \/ /\ HasWork(e, d, v) /\ Fault /\ Ends(c)
        /\ \/ DocsUnchanged
           \/ /\ WriteFits(c, e, d, v)
              /\ Mutate(d, Write(e, d, v), {})
              /\ Decide(d, Write(e, d, v), what)
  /\ AtrUnchanged /\ UNCHANGED <<clock, queued>>

DocsCleaned(c) ==
  /\ cpc[c] = "docs" /\ todo[c] = {}
  /\ Goes(c, "entry")
  /\ UNCHANGED <<entry, todo, found>> /\ UNCHANGED storeVars

\* mutants: "p" is never looked at; it is always
RemovalForced(e) == TRUE
RemovalNeedsNoP(e) == ~atr.p

\* cleanup_entry: a PENDING entry is only removed if no "p" is in it
RemovalFits(e) == e.status = "PENDING" => ~atr.p

CleanEntry(c) ==
  /\ cpc[c] = "entry" /\ Ends(c)
  /\ \/ /\ atr' = IF RemovalFits(entry[c]) THEN NoEntry ELSE atr
        /\ UNCHANGED faults
     \/ /\ Fault
        /\ \/ UNCHANGED atr
           \/ RemovalFits(entry[c]) /\ atr' = NoEntry
  /\ DocsUnchanged /\ UNCHANGED <<committed, late, clock, queued>>

CleanerNext(c) ==
  \/ StartQueued(c) \/ StartLost(c) \/ ReadDoc(c) \/ WriteDoc(c)
  \/ DocsCleaned(c) \/ CleanEntry(c)
=============================================================================
