-------------------------- MODULE TransactionStore --------------------------
(***************************************************************************)
(* What the transaction protocol shares: the documents and the active       *)
(* transaction record (ATR) entry of one attempt, as the key-value service  *)
(* keeps them, the clock, and the other transactions.                       *)
(*                                                                          *)
(* A document carries at most one staged mutation in its "txn" extended     *)
(* attribute.  CAS values are never reused, so a comparison with a          *)
(* remembered CAS is modelled by the set of documents whose CAS, as the     *)
(* holder remembers it, is still the current one.                           *)
(*                                                                          *)
(* A request and its answer are one step.  A request that ends ambiguously  *)
(* may or may not have been applied; one to the ATR may also be applied     *)
(* later (the set late).  Requests of one client for one document are       *)
(* served in the order in which it sent them, so the client's next request  *)
(* to the ATR is answered after the late one has been applied or lost.      *)
(***************************************************************************)
EXTENDS Naturals, FiniteSets

CONSTANTS
  Docs,       \* the documents the attempt may mutate
  Existing,   \* those that exist when the attempt starts
  Cleaners,   \* threads of any client that clean up attempts
  MaxFaults,  \* bound on the requests that fail
  Foreign,    \* TRUE: other transactions mutate the same documents
  Prompt      \* TRUE: an attempt counts as lost only when its client stopped

ASSUME StoreAssumption ==
  /\ Existing \subseteq Docs
  /\ IsFiniteSet(Docs)
  /\ MaxFaults \in Nat
  /\ Foreign \in BOOLEAN
  /\ Prompt \in BOOLEAN
  /\ "client" \notin Cleaners
  /\ "other" \notin Cleaners

VARIABLES
  doc,        \* the documents
  atr,        \* the attempt's entry of the active transaction record
  casOf,      \* per holder, the documents whose CAS it knows
  late,       \* the client's ATR request that timed out and is on its way
  clock,      \* "live", "expired" (for the client), "lost" (for cleanup)
  faults,     \* failed requests so far
  queued,     \* the attempt is in atr_queue_
  committed,  \* the entry has been COMMITTED (history)
  fate        \* what became of each staged mutation (history)

storeVars == <<doc, atr, casOf, late, clock, faults, queued, committed, fate>>

-----------------------------------------------------------------------------
Ours    == {"insert", "replace", "remove"}   \* staged by the attempt
Kinds   == Ours \cup {"none"}
\* Staged by another transaction; "orphan": one that has no entry any more.
Others  == {"other", "orphan"}
Stages  == Kinds \cup Others
Bodies  == {"old", "mine", "other", "dirty", "none"}
Holders == Cleaners \cup {"client", "other"}

\* "dirty" is content another transaction has staged but not committed.
Documents == [live : BOOLEAN, body : Bodies, stg : Stages]

Statuses == {"NONE", "PENDING", "COMMITTED", "ABORTED"}
NoDocs   == [d \in Docs |-> "none"]
Entries  == [status : Statuses, p : BOOLEAN, ids : [Docs -> Kinds]]
NoEntry  == [status |-> "NONE", p |-> FALSE, ids |-> NoDocs]

Requests == {"pending", "commit", "abort"}
Fates    == {"none", "published", "undone"}

StoreTypeOK ==
  /\ doc \in [Docs -> Documents]
  /\ atr \in Entries
  /\ casOf \in [Holders -> SUBSET Docs]
  /\ late \in SUBSET (Requests \X [Docs -> Kinds])
  /\ clock \in {"live", "expired", "lost"}
  /\ faults \in 0..MaxFaults
  /\ queued \in BOOLEAN
  /\ committed \in BOOLEAN
  /\ fate \in [Docs -> Fates]

StoreInit ==
  /\ doc = [d \in Docs |-> [live |-> d \in Existing, stg |-> "none",
                            body |-> IF d \in Existing THEN "old" ELSE "none"]]
  /\ atr = NoEntry
  /\ casOf = [h \in Holders |-> {}]
  /\ late = {}
  /\ clock = "live"
  /\ faults = 0
  /\ queued = FALSE
  /\ committed = FALSE
  /\ fate = [d \in Docs |-> "none"]

Expired == clock # "live"

Fault == faults < MaxFaults /\ faults' = faults + 1

-----------------------------------------------------------------------------
(* Documents. *)

Current(h, d) == d \in casOf[h]

\* The document changes; only the holders in hs learn its new CAS.
Mutate(d, v, hs) ==
  /\ doc' = [doc EXCEPT ![d] = v]
  /\ casOf' = [h \in Holders |-> IF h \in hs THEN casOf[h] \cup {d}
                                 ELSE casOf[h] \ {d}]

Learn(h, d) == casOf' = [casOf EXCEPT ![h] = @ \cup {d}]

Staged(d, k) == [doc[d] EXCEPT !.stg = k]
Unlinked(d)  == [doc[d] EXCEPT !.stg = "none"]

\* The staged content becomes the body.
Published(d) ==
  [live |-> TRUE, stg |-> "none",
   body |-> IF doc[d].stg \in Others THEN "dirty" ELSE "mine"]

Written == [live |-> TRUE, body |-> "mine", stg |-> "none"]
Removed == [live |-> FALSE, body |-> "none", stg |-> "none"]

\* What a write does to the history of the document's staged mutation.
Decide(d, v, what) ==
  fate' = IF doc[d].stg \in Ours /\ v.stg \notin Ours
          THEN [fate EXCEPT ![d] = what] ELSE fate

DocsUnchanged == UNCHANGED <<doc, casOf, fate>>

-----------------------------------------------------------------------------
(* The ATR entry: the effect of each of the attempt's requests on it.       *)

PendingOk == atr.status = "NONE"
CommitOk  == atr.status # "NONE" /\ ~atr.p

\* insert of the entry's fields, with create_path
PendingEffect == [status |-> "PENDING", p |-> FALSE, ids |-> NoDocs]

\* upsert of the status, without create_path, and insert of "p"
CommitEffect(ids) == [status |-> "COMMITTED", p |-> TRUE, ids |-> ids]

\* upsert of the status, with create_path
AbortEffect(ids) == [atr EXCEPT !.status = "ABORTED", !.ids = ids]

Apply(r, ids) ==
  IF r = "pending"
  THEN /\ atr' = IF PendingOk THEN PendingEffect ELSE atr
       /\ UNCHANGED committed
  ELSE IF r = "commit"
       THEN /\ atr' = IF CommitOk THEN CommitEffect(ids) ELSE atr
            /\ committed' = (committed \/ CommitOk)
       ELSE /\ atr' = AbortEffect(ids)
            /\ UNCHANGED committed

\* The answer to a request is lost: applied, never applied, or still to come.
Ambiguous(r, ids) ==
  /\ Fault
  /\ \/ Apply(r, ids) /\ UNCHANGED late
     \/ UNCHANGED <<atr, committed, late>>
     \/ late' = {<<r, ids>>} /\ UNCHANGED <<atr, committed>>

\* A request that timed out reaches the server after all, or is lost.
LateArrives ==
  /\ late # {} /\ late' = {}
  /\ \/ \E m \in late : Apply(m[1], m[2])
     \/ UNCHANGED <<atr, committed>>
  /\ DocsUnchanged
  /\ UNCHANGED <<clock, faults, queued>>

AtrUnchanged == UNCHANGED <<atr, committed, late>>

-----------------------------------------------------------------------------
(* The clock, and other transactions.                                       *)

Tick(stopped) ==
  /\ \/ clock = "live" /\ clock' = "expired"
     \/ clock = "expired" /\ (Prompt => stopped) /\ clock' = "lost"
  /\ DocsUnchanged /\ AtrUnchanged
  /\ UNCHANGED <<faults, queued>>

\* Another transaction reads the document, and finds that no entry blocks it.
OtherChecks(d) ==
  /\ Foreign
  /\ ~Current("other", d)
  /\ \/ doc[d].stg \in {"none", "orphan"}
     \/ doc[d].stg \in Ours /\ atr.status = "NONE"
  /\ Learn("other", d)
  /\ AtrUnchanged
  /\ UNCHANGED <<doc, fate, clock, faults, queued>>

\* It stages its own mutation with the CAS it read.
OtherStages(d) ==
  /\ Current("other", d) /\ doc[d].stg # "other"
  /\ Mutate(d, Staged(d, "other"), {"other"})
  /\ AtrUnchanged
  /\ UNCHANGED <<fate, clock, faults, queued>>

(***************************************************************************)
(* It commits, or rolls back; or its client stops, and the cleanup of lost  *)
(* attempts removes its PENDING entry, which lists no documents, so that    *)
(* the mutation stays behind and nobody finishes it.  The document itself   *)
(* does not change then; but whoever remembers its CAS was blocked, and has *)
(* to read it again, so that no behaviour is lost by taking its CAS for a   *)
(* new one.                                                                 *)
(***************************************************************************)
OtherEnds(d) ==
  /\ doc[d].stg = "other"
  /\ \E v \in {[live |-> TRUE, body |-> "other", stg |-> "none"], Unlinked(d),
              Staged(d, "orphan")} : Mutate(d, v, {})
  /\ AtrUnchanged
  /\ UNCHANGED <<fate, clock, faults, queued>>

StoreNext(stopped) ==
  \/ LateArrives
  \/ Tick(stopped)
  \/ \E d \in Docs : OtherChecks(d) \/ OtherStages(d) \/ OtherEnds(d)
=============================================================================
