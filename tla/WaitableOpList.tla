--------------------------- MODULE WaitableOpList ---------------------------
(***************************************************************************)
(* The operation list of one transaction attempt (waitable_op_list.hxx) and *)
(* the threads that call it: the operations of the attempt, and the runner  *)
(* that ends the attempt with commit() or rollback().                       *)
(*                                                                          *)
(* An operation is admitted (count and in_flight go up), sends a request,   *)
(* completes (in_flight goes down), runs the application's callback, and    *)
(* leaves (count goes down).  The first query of the attempt switches it    *)
(* from KV mode to QUERY mode: it waits until no operation is in flight,    *)
(* sends BEGIN WORK, and learns the node that all later requests go to.     *)
(*                                                                          *)
(* One step is one critical section of mutex_.  The three condition         *)
(* variables are modelled by the set of waiters that a notify_all reached;  *)
(* a waiter that was not notified may still wake (a spurious wakeup), but   *)
(* no fairness is assumed of that.                                          *)
(***************************************************************************)
EXTENDS Naturals, FiniteSets

CONSTANTS
  KvOps,           \* get, insert, replace, remove: read the mode, then start
  ReplicaOps,      \* get_replica...: start, then read the mode
  QueryOps,        \* query
  BeginWorkFails,  \* TRUE: BEGIN WORK may fail without reaching a node
  CallbacksStartOps \* TRUE: callbacks, on the I/O thread, start operations

Ops == KvOps \cup ReplicaOps \cup QueryOps

ASSUME OpsAssumption ==
  /\ IsFiniteSet(KvOps) /\ IsFiniteSet(ReplicaOps) /\ IsFiniteSet(QueryOps)
  /\ KvOps \cap ReplicaOps = {}
  /\ (KvOps \cup ReplicaOps) \cap QueryOps = {}
  /\ BeginWorkFails \in BOOLEAN
  /\ CallbacksStartOps \in BOOLEAN

VARIABLES
  pc,          \* where each operation is
  onIo,        \* operations whose API call runs on the I/O thread
  notified,    \* waiting operations reached by a notify_all
  count,       \* count_
  in_flight,   \* in_flight_
  allow_ops,   \* allow_ops_
  mode,        \* mode_.mode
  nodeSet,     \* mode_.query_node is not empty
  errors,      \* errors_ is not empty
  runner,      \* where the thread that ends the attempt is
  runnerNotified

vars == <<pc, onIo, notified, count, in_flight, allow_ops, mode, nodeSet,
          errors, runner, runnerNotified>>

-----------------------------------------------------------------------------
(* Where an operation can be. *)

NodeWait   == {"waitNode", "waitNodeIn", "waitBegin"}  \* on cv_query_
FlightWait == {"drainKv", "drainQuery"}                \* on cv_in_flight_
Waiting    == NodeWait \cup FlightWait

\* The API call has not returned to its caller yet.
Calling == {"gotKv", "gotQuery", "admitted", "erring"} \cup Waiting

\* Counted in count_, and among them those counted in in_flight_.
InFlightPc == {"admitted", "waitNodeIn", "beginWork", "runKv", "runQuery",
               "erring"}
CountedPc  == InFlightPc \cup FlightWait \cup {"waitBegin", "callback"}
AllPc      == CountedPc \cup
              {"idle", "waitNode", "gotKv", "gotQuery", "done", "refused"}

At(o, s)  == pc[o] = s
In(S)     == {o \in Ops : pc[o] \in S}
Counted   == In(CountedPc)
InFlight  == In(InFlightPc)

\* The single I/O thread (public_cluster.cxx:491) is not held by an API call.
IoFree == \A o \in onIo : pc[o] \notin Calling

Goto(o, s) == pc' = [pc EXCEPT ![o] = s]

\* cv.notify_all() for the waiters at the places in S.
Notify(S) == notified' = notified \cup In(S)

Init ==
  /\ pc = [o \in Ops |-> "idle"]
  /\ onIo = {} /\ notified = {}
  /\ count = 0 /\ in_flight = 0 /\ allow_ops = TRUE
  /\ mode = "KV" /\ nodeSet = FALSE /\ errors = FALSE
  /\ runner = "logic" /\ runnerNotified = FALSE

-----------------------------------------------------------------------------
(* Starting an operation *)

\* The caller is an application thread, or a callback on the I/O thread.
CallFrom(o) ==
  \/ onIo' = onIo
  \/ /\ CallbacksStartOps /\ IoFree
     /\ \E p \in Ops : pc[p] = "callback"
     /\ onIo' = onIo \cup {o}

\* Mutant: an operation that meets a cached error is not counted.
AdmitErrorUncounted(o, next) ==
  IF allow_ops /\ ~errors
  THEN /\ count' = count + 1
       /\ in_flight' = in_flight + 1
       /\ Goto(o, next)
  ELSE /\ Goto(o, IF errors THEN "erring" ELSE "refused")
       /\ UNCHANGED <<count, in_flight>>

\* cache_error_async: increment_ops, then existing_error.  A refused
\* operation reports async_operation_conflict and touches no counter.
Admit(o, next) ==
  IF allow_ops
  THEN /\ count' = count + 1
       /\ in_flight' = in_flight + 1
       /\ Goto(o, IF errors THEN "erring" ELSE next)
  ELSE /\ Goto(o, "refused")
       /\ UNCHANGED <<count, in_flight>>

\* get() and its like: get_mode before anything is counted.
CallKv(o) ==
  /\ o \in KvOps /\ At(o, "idle")
  /\ CallFrom(o)
  /\ Goto(o, CASE mode = "KV" -> "gotKv"
               [] mode = "QUERY" /\ nodeSet -> "gotQuery"
               [] OTHER -> "waitNode")
  /\ UNCHANGED <<notified, count, in_flight, allow_ops, mode, nodeSet, errors,
                 runner, runnerNotified>>

AdmitKv(o) ==
  /\ \/ At(o, "gotKv") /\ Admit(o, "runKv")
     \/ At(o, "gotQuery") /\ Admit(o, "runQuery")
  /\ UNCHANGED <<onIo, notified, allow_ops, mode, nodeSet, errors, runner,
                 runnerNotified>>

\* get_replica_from_preferred_server_group() and query() are counted first.
CallCounted(o) ==
  /\ o \in ReplicaOps \cup QueryOps /\ At(o, "idle")
  /\ CallFrom(o)
  /\ Admit(o, "admitted")
  /\ UNCHANGED <<notified, allow_ops, mode, nodeSet, errors, runner,
                 runnerNotified>>

\* A replica read is refused in QUERY mode: it fails without a request.
ReplicaMode(o) ==
  /\ o \in ReplicaOps /\ At(o, "admitted")
  /\ Goto(o, CASE mode = "KV" -> "runKv"
               [] mode = "QUERY" /\ nodeSet -> "erring"
               [] OTHER -> "waitNodeIn")
  /\ UNCHANGED <<onIo, notified, count, in_flight, allow_ops, mode, nodeSet,
                 errors, runner, runnerNotified>>

-----------------------------------------------------------------------------
(* set_query_mode *)

\* The caller finds KV mode and nothing in flight: it sends BEGIN WORK.
BecomeSetter(o, flying) ==
  /\ mode' = "QUERY"
  /\ in_flight' = flying + 1
  /\ Goto(o, "beginWork")

\* Mutant: the follower does not wait for the other requests (line 134 missing).
FollowSetterNoDrain(o, flying) ==
  /\ mode' = mode
  /\ IF ~nodeSet THEN Goto(o, "waitBegin") /\ in_flight' = flying
     ELSE Goto(o, "runQuery") /\ in_flight' = flying + 1

\* Somebody else set the mode: wait for the node, then for the other requests.
FollowSetter(o, flying) ==
  /\ mode' = mode
  /\ IF ~nodeSet THEN Goto(o, "waitBegin") /\ in_flight' = flying
     ELSE IF flying # 0 THEN Goto(o, "drainQuery") /\ in_flight' = flying
     ELSE Goto(o, "runQuery") /\ in_flight' = flying + 1

\* Mutant: the first query does not wait for the KV requests (line 109 missing).
SetQueryModeNoDrain(o) ==
  /\ o \in QueryOps /\ At(o, "admitted")
  /\ IF mode = "KV" THEN BecomeSetter(o, in_flight - 1)
                    ELSE FollowSetter(o, in_flight - 1)
  /\ UNCHANGED <<onIo, notified, count, allow_ops, nodeSet, errors, runner,
                 runnerNotified>>

\* The query takes itself out of in_flight_; nobody is notified of that.
SetQueryMode(o) ==
  /\ o \in QueryOps /\ At(o, "admitted")
  /\ LET flying == in_flight - 1
     IN  CASE mode = "QUERY" -> FollowSetter(o, flying)
           [] mode = "KV" /\ flying = 0 -> BecomeSetter(o, flying)
           [] OTHER -> Goto(o, "drainKv") /\ mode' = mode /\ in_flight' = flying
  /\ UNCHANGED <<onIo, notified, count, allow_ops, nodeSet, errors, runner,
                 runnerNotified>>

\* The condition that ends the wait of an operation.
WaitOver(o) == IF pc[o] \in NodeWait THEN nodeSet ELSE in_flight = 0

\* Mutant: the mode is not looked at again after the wait (line 114 missing).
WakeNoRecheck(o) ==
  /\ pc[o] \in Waiting /\ WaitOver(o)
  /\ notified' = notified \ {o}
  /\ CASE At(o, "waitNode")   -> Goto(o, "gotQuery") /\ UNCHANGED <<mode, in_flight>>
       [] At(o, "waitNodeIn") -> Goto(o, "erring") /\ UNCHANGED <<mode, in_flight>>
       [] At(o, "drainKv")    -> BecomeSetter(o, in_flight)
       [] OTHER -> FollowSetter(o, in_flight)
  /\ UNCHANGED <<onIo, count, allow_ops, nodeSet, errors, runner,
                 runnerNotified>>

\* A waiter whose predicate holds goes on, in the critical section it waited in.
Wake(o) ==
  /\ pc[o] \in Waiting /\ WaitOver(o)
  /\ notified' = notified \ {o}
  /\ CASE At(o, "waitNode")   -> Goto(o, "gotQuery") /\ UNCHANGED <<mode, in_flight>>
       [] At(o, "waitNodeIn") -> Goto(o, "erring") /\ UNCHANGED <<mode, in_flight>>
       [] At(o, "drainKv") /\ mode = "KV" -> BecomeSetter(o, in_flight)
       [] OTHER -> FollowSetter(o, in_flight)
  /\ UNCHANGED <<onIo, count, allow_ops, nodeSet, errors, runner,
                 runnerNotified>>

\* A notified waiter whose predicate does not hold waits again.
SleepAgain(o) ==
  /\ pc[o] \in Waiting /\ o \in notified /\ ~WaitOver(o)
  /\ notified' = notified \ {o}
  /\ UNCHANGED <<pc, onIo, count, in_flight, allow_ops, mode, nodeSet, errors,
                 runner, runnerNotified>>

-----------------------------------------------------------------------------
(* Responses, which arrive on the I/O thread, and completion *)

\* Mutant: the mode is reset on any error, also when a node was reached.
BeginWorkAnsweredThenReset(o) ==
  /\ At(o, "beginWork") /\ IoFree
  /\ nodeSet' = TRUE
  /\ Notify(NodeWait)
  /\ \/ Goto(o, "runQuery") /\ mode' = mode
     \/ Goto(o, "erring") /\ mode' = "KV"
  /\ UNCHANGED <<onIo, count, in_flight, allow_ops, errors, runner,
                 runnerNotified>>

\* Mutant: set_query_node does not notify (line 157 missing).
BeginWorkAnsweredSilently(o) ==
  /\ At(o, "beginWork") /\ IoFree
  /\ nodeSet' = TRUE
  /\ Goto(o, "runQuery") \/ Goto(o, "erring")
  /\ UNCHANGED <<onIo, notified, count, in_flight, allow_ops, mode, errors,
                 runner, runnerNotified>>

\* BEGIN WORK reached a node: set_query_node; the query then goes out, or the
\* attempt has expired or BEGIN WORK was answered with an error.
BeginWorkAnswered(o) ==
  /\ At(o, "beginWork") /\ IoFree
  /\ nodeSet' = TRUE
  /\ Notify(NodeWait)
  /\ \/ Goto(o, "runQuery")
     \/ Goto(o, "erring")
  /\ UNCHANGED <<onIo, count, in_flight, allow_ops, mode, errors, runner,
                 runnerNotified>>

\* Mutant: the mode is not reset (line 147 missing).
BeginWorkFailedNoReset(o) ==
  /\ BeginWorkFails
  /\ At(o, "beginWork") /\ IoFree
  /\ Notify(NodeWait)
  /\ Goto(o, "erring")
  /\ UNCHANGED <<onIo, count, in_flight, allow_ops, mode, nodeSet, errors, runner,
                 runnerNotified>>

\* BEGIN WORK reached no node: reset_query_mode, then the query fails.
BeginWorkFailed(o) ==
  /\ BeginWorkFails
  /\ At(o, "beginWork") /\ IoFree
  /\ mode' = "KV"
  /\ Notify(NodeWait)
  /\ Goto(o, "erring")
  /\ UNCHANGED <<onIo, count, in_flight, allow_ops, nodeSet, errors, runner,
                 runnerNotified>>

\* decrement_in_flight of op_completed_with_callback / op_completed_with_error.
DecrementInFlight ==
  /\ in_flight' = in_flight - 1
  /\ IF in_flight = 1 THEN Notify(FlightWait) ELSE notified' = notified

\* The response of a request: a result, or an error that is cached in errors_
\* (op_exception is passed to the callback without being cached).
Complete(o) ==
  /\ \/ pc[o] \in {"runKv", "runQuery"} /\ IoFree
     \/ At(o, "erring")
  /\ errors' \in {errors, TRUE}
  /\ DecrementInFlight
  /\ Goto(o, "callback")
  /\ UNCHANGED <<onIo, count, allow_ops, mode, nodeSet, runner, runnerNotified>>

\* Mutant: cv_ops_ is not notified (line 183 missing).
DecrementOpsSilently ==
  /\ count' = count - 1
  /\ UNCHANGED <<runnerNotified, notified>>

\* decrement_ops.  change_count notifies cv_in_flight_ too when it finds
\* in_flight_ at zero; when operations are blocked it throws and changes nothing.
DecrementOps ==
  IF allow_ops
  THEN /\ count' = count - 1
       /\ runnerNotified' = (runnerNotified \/ (count = 1 /\ runner = "waiting"))
       /\ IF in_flight = 0 THEN Notify(FlightWait) ELSE notified' = notified
  ELSE UNCHANGED <<count, runnerNotified, notified>>

\* The callback, and every call it made, returned; or it threw, which may be
\* cached as an error of the attempt (handle_err_from_callback).
CallbackReturns(o) ==
  /\ At(o, "callback") /\ IoFree
  /\ errors' \in {errors, TRUE}
  /\ DecrementOps
  /\ Goto(o, "done")
  /\ UNCHANGED <<onIo, in_flight, allow_ops, mode, nodeSet, runner>>

-----------------------------------------------------------------------------
(* The runner: commit() and rollback() *)

\* Mutant: waits for in_flight_ instead of count_ (line 77).
WaitAndBlockInFlight ==
  /\ \/ runner = "logic"
     \/ runner = "waiting" /\ in_flight = 0
  /\ IF in_flight = 0 THEN runner' = "blocked" /\ allow_ops' = FALSE
                      ELSE runner' = "waiting" /\ allow_ops' = allow_ops
  /\ runnerNotified' = FALSE
  /\ UNCHANGED <<pc, onIo, notified, count, in_flight, mode, nodeSet, errors>>

\* wait_and_block_ops.
WaitAndBlockOps ==
  /\ \/ runner = "logic"
     \/ runner = "waiting" /\ count = 0
  /\ IF count = 0 THEN runner' = "blocked" /\ allow_ops' = FALSE
                  ELSE runner' = "waiting" /\ allow_ops' = allow_ops
  /\ runnerNotified' = FALSE
  /\ UNCHANGED <<pc, onIo, notified, count, in_flight, mode, nodeSet, errors>>

\* get_mode of commit() and rollback(): how the attempt is ended.
EndAttempt ==
  /\ runner = "blocked"
  /\ \/ mode = "KV" /\ runner' = "kvEnd"
     \/ mode = "QUERY" /\ nodeSet /\ runner' = "queryEnd"
  /\ UNCHANGED <<pc, onIo, notified, count, in_flight, allow_ops, mode, nodeSet,
                 errors, runnerNotified>>

Ended == runner \in {"kvEnd", "queryEnd"} /\ In({"done", "refused"}) = Ops

\* Nothing is left to do.
Terminated == Ended /\ UNCHANGED vars

OpStep(o) ==
  \/ CallKv(o) \/ AdmitKv(o) \/ CallCounted(o) \/ ReplicaMode(o)
  \/ SetQueryMode(o) \/ Wake(o) \/ SleepAgain(o)
  \/ BeginWorkAnswered(o) \/ BeginWorkFailed(o)
  \/ Complete(o) \/ CallbackReturns(o)

Next == (\E o \in Ops : OpStep(o)) \/ WaitAndBlockOps \/ EndAttempt \/ Terminated

Spec == Init /\ [][Next]_vars

\* Threads run, requests are answered or time out, and a notified waiter
\* wakes.  Nothing makes the application start an operation, and nothing but
\* a notification makes a waiter wake.
Fairness ==
  /\ \A o \in Ops :
       /\ WF_vars(AdmitKv(o)) /\ WF_vars(ReplicaMode(o)) /\ WF_vars(SetQueryMode(o))
       /\ WF_vars(o \in notified /\ Wake(o))
       /\ WF_vars(BeginWorkAnswered(o) \/ BeginWorkFailed(o))
       /\ WF_vars(Complete(o)) /\ WF_vars(CallbackReturns(o))
  /\ WF_vars((runner = "logic" \/ runnerNotified) /\ WaitAndBlockOps)
  /\ WF_vars(EndAttempt)

FairSpec == Spec /\ Fairness

-----------------------------------------------------------------------------
(* Properties *)

\* Every variable has its type.
TypeOK ==
  /\ pc \in [Ops -> AllPc]
  /\ onIo \subseteq Ops /\ notified \subseteq Ops
  /\ count \in Nat /\ in_flight \in Nat
  /\ allow_ops \in BOOLEAN /\ nodeSet \in BOOLEAN /\ errors \in BOOLEAN
  /\ mode \in {"KV", "QUERY"}
  /\ runner \in {"logic", "waiting", "blocked", "kvEnd", "queryEnd"}
  /\ runnerNotified \in BOOLEAN

\* count_ and in_flight_ always equal the number of operations admitted and the
\* number of operations in flight, across every path that leaves an operation
\* (result, error, refused admission, mode change): the asserts on lines 180
\* and 181 of waitable_op_list.hxx never fire.
CountsMatch ==
  /\ count = Cardinality(Counted)
  /\ in_flight = Cardinality(InFlight)

\* After wait_and_block_ops returned to commit() or rollback(), no operation of
\* the attempt is in progress, so nothing stages a mutation behind their back
\* and no decrement_ops is refused.
BlockedMeansQuiet == ~allow_ops => Counted = {}

\* Whoever reads the mode after being counted (the replica reads) never has a
\* KV request outstanding once the attempt is in QUERY mode.
CountedReadsSeeMode ==
  \A o \in ReplicaOps : At(o, "runKv") => mode = "KV"

\* One BEGIN WORK at a time, none after the node is known, and QUERY mode
\* without a node means that somebody is waiting for its answer.
OneBeginWork ==
  /\ \A o, p \in Ops : At(o, "beginWork") /\ At(p, "beginWork") => o = p
  /\ (\E o \in Ops : At(o, "beginWork")) <=> (mode = "QUERY" /\ ~nodeSet)

\* set_query_mode lets one query of the attempt out at a time.
QueriesAreSerial ==
  \A o, p \in QueryOps :
    pc[o] \in {"beginWork", "runQuery"} /\ pc[p] \in {"beginWork", "runQuery"}
      => o = p

\* commit() and rollback() never wait in get_mode for a node.
EndNeverWaitsForNode ==
  runner = "blocked" => mode = "KV" \/ nodeSet

\* Once the node is set the attempt stays in QUERY mode with that node, and
\* blocked operations are never allowed again.
ModeIsFinal ==
  [][ /\ nodeSet => nodeSet' /\ mode' = mode
      /\ ~allow_ops => ~allow_ops' ]_vars

Ending == runner \in {"kvEnd", "queryEnd"}

\* An operation waits for the node of a BEGIN WORK that has failed, or holds
\* the I/O thread while it waits for what only that thread can deliver.
Stuck ==
  \E o \in Ops :
    \/ pc[o] \in NodeWait /\ mode = "KV"
    \/ pc[o] \in Waiting /\ o \in onIo

\* commit() or rollback() gets to its work, whatever operations are under way,
\* unless one of them is stuck for ever: no notification is lost, and there is
\* no other way to wait in vain.
RunnerProceeds == (runner = "waiting" ~> Ending) \/ <>[]Stuck

\* An operation that was called is answered, unless one is stuck for ever.
OpsAnswered ==
  \/ \A o \in Ops : pc[o] # "idle" ~> pc[o] \in {"done", "refused"}
  \/ <>[]Stuck

\* "reset to kv mode here, allowing rollback to function properly"
\* (waitable_op_list.hxx:144): rollback() gets to its work also when BEGIN WORK
\* reached no node.
RollbackAfterReset == runner = "waiting" ~> Ending
=============================================================================
