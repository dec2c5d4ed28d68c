---------------------------- MODULE AtomicCommit ----------------------------
(***************************************************************************)
(* What one attempt of a transaction promises to the application and to     *)
(* the readers of its documents: there is a single moment at which all of   *)
(* its mutations become visible, or none; and what the application is told  *)
(* about it is true, then and later.                                        *)
(***************************************************************************)
CONSTANT Docs

VARIABLES
  decision,  \* "open" until the attempt is committed
  intent,    \* the documents it would change
  view,      \* what a reader of each document sees: "before" or "after"
  told       \* what the application knows

promise == <<decision, intent, view, told>>

Init ==
  /\ decision = "open" /\ intent = {} /\ told = "nothing"
  /\ view = [d \in Docs |-> "before"]

\* The application changes its mind about what to change.
Intend ==
  /\ decision = "open" /\ told = "nothing"
  /\ intent' \in SUBSET Docs
  /\ UNCHANGED <<decision, view, told>>

\* All mutations become visible at once.  After "unknown" this may still
\* happen; after a failure it may not.
Decide ==
  /\ decision = "open" /\ told \in {"nothing", "unknown"}
  /\ decision' = "committed"
  /\ view' = [d \in Docs |-> IF d \in intent THEN "after" ELSE "before"]
  /\ UNCHANGED <<intent, told>>

Tell(what) ==
  /\ told = "nothing" /\ told' = what
  /\ what = "success" => decision = "committed" \/ intent = {}
  /\ what = "failure" => decision = "open"
  /\ UNCHANGED <<decision, intent, view>>

Next == Intend \/ Decide \/ \E what \in {"success", "failure", "unknown"} : Tell(what)

Spec == Init /\ [][Next]_promise
=============================================================================
