---------------------------- MODULE McbpCommand ----------------------------
(***************************************************************************)
(* A key-value operation on its way through the client: mcbp_command with  *)
(* its two timers, the bucket that maps it to a session, defers it or      *)
(* schedules its retry, the retry orchestrator, and the part of            *)
(* mcbp_session that keeps the callbacks of requests in flight.            *)
(*                                                                         *)
(* The bucket serves one node for the commands of the model: slot is the   *)
(* session that find_session_by_index returns for it.  Opaques are numbered*)
(* per session, as in the code.  One I/O thread runs every timer, answer   *)
(* and session event, one at a time; with CallerThread the first dispatch  *)
(* of a command and close() run on threads of the application and          *)
(* interleave with it.                                                     *)
(***************************************************************************)
EXTENDS Naturals, Sequences, FiniteSets

CONSTANTS
    Commands,       \* the operations the application starts
    Idempotent,     \* those that only read
    Cancellable,    \* replica reads that a sibling may cancel
    BestEffort,     \* those with best_effort_retry_strategy; the others fail fast
    Named,          \* those in a named collection, whose id has to be looked up
    SessionCount,   \* bound: sessions the bucket creates
    ConfigCount,    \* bound: configurations that arrive after the first
    MaxOpaque,      \* bound: requests of a session after which none is refused for now
    CallerThread    \* execute() and close() are called outside the I/O thread

Sessions == 1 .. SessionCount
NoSession == 0
IO == "io"
Closer == "closer"
Threads == Commands \cup {IO, Closer}

ASSUME CommandAssumption ==
    /\ Idempotent \subseteq Commands
    /\ Cancellable \subseteq Idempotent
    /\ BestEffort \subseteq Commands
    /\ Named \subseteq Commands
    /\ IO \notin Commands /\ Closer \notin Commands
    /\ SessionCount \in Nat \ {0}
    /\ ConfigCount \in Nat
    /\ MaxOpaque \in Nat
    /\ CallerThread \in BOOLEAN
    /\ CallerThread => Cancellable = {}   \* their dispatch is confined to a strand

VARIABLES
    cmd,        \* command -> its mcbp_command
    state,      \* session -> how far it is
    lastOpaque, \* session -> opaque_ of the session
    cached,     \* sessions that know the id of the collection
    subs,       \* command_handlers_ of all sessions
    pending,    \* requests in the pending_buffer_ of a session
    wire,       \* requests the server has and has not answered
    closed, configured,
    mapped,     \* the configuration names a server for the key
    slot,       \* the session of that server, or NoSession
    members,    \* sessions in sessions_
    dropped,    \* sessions whose stop() is posted
    restart,    \* restart_sessions() is posted
    deferred,   \* deferred_commands_
    draining,   \* the rest of the queue that drain_deferred_queue swapped out
    up,         \* the session whose bootstrap callback runs
    run,        \* thread -> the dispatch it is in
    configs,    \* configurations that arrived after the first
    sent,       \* command -> requests of its operation put on the wire
    open        \* command -> those the server has not refused

session_vars == <<state, lastOpaque, cached, subs, pending, wire>>
bucket_vars == <<closed, configured, mapped, slot, members, dropped, restart,
                 deferred, draining, up, configs>>
vars == <<cmd, session_vars, bucket_vars, run, sent, open>>
-----------------------------------------------------------------------------
(***************************************************************************)
(* Retry reasons.                                                          *)
(***************************************************************************)
\* Mutant: a lost connection does not count against a retry.
allows_retry_after_loss(reason) == reason \notin {"unknown", "do_not_retry"}

allows_non_idempotent_retry(reason) ==
    reason \notin {"unknown", "socket_closed_while_in_flight", "do_not_retry"}

always_retry(reason) ==
    reason \in {"key_value_not_my_vbucket", "key_value_collection_outdated"}

retry_after(c, reason) ==
    /\ c \in BestEffort
    /\ c \in Idempotent \/ allows_non_idempotent_retry(reason)
-----------------------------------------------------------------------------
(***************************************************************************)
(* One mcbp_command.  A timer is armed until it expires or is cancelled;   *)
(* once expired its handler is due, and cancel() does not reach it.  The   *)
(* deadline tells being cancelled from having passed.                      *)
(***************************************************************************)
NewCommand(c) ==
    [handler |-> FALSE, opaque |-> 0, session |-> NoSession,
     resolved |-> c \notin Named, results |-> <<>>,
     deadline |-> "none", backoff |-> "off", due |-> {}, token |-> "unset"]

NotRunning == [pc |-> "out", cmd |-> "none", session |-> NoSession, kind |-> "op", opaque |-> 0]

Dispatch(pc, c, s) == [pc |-> pc, cmd |-> c, session |-> s, kind |-> "op", opaque |-> 0]

Subscription(s, o, c, kind) == [session |-> s, opaque |-> o, cmd |-> c, kind |-> kind]

\* Mutant: handler_ is called but not swapped out.
invoke_handler_kept(d, result) ==
    [d EXCEPT !.backoff = "off",
              !.deadline = IF @ = "armed" THEN "cancelled" ELSE @,
              !.results = IF d.handler THEN Append(@, result) ELSE @]

invoke_handler(d, result) ==
    [d EXCEPT !.handler = FALSE,
              !.backoff = "off",
              !.deadline = IF @ = "armed" THEN "cancelled" ELSE @,
              !.results = IF d.handler THEN Append(@, result) ELSE @]

\* Mutant: idempotent() is not asked.
TimeoutOfAny(c) == "ambiguous_timeout"

TimeoutOf(c) ==
    IF c \in Idempotent THEN "unambiguous_timeout" ELSE "ambiguous_timeout"

\* What cancel() reports when no callback waits for opaque_.
CancelResult(c, d) ==
    IF d.opaque = 0 THEN "unambiguous_timeout" ELSE TimeoutOf(c)

\* schedule_for_retry() is called when no callback of the command waits, so
\* its cancel() finds nothing in the session.
schedule_for_retry(c, d, isClosed) ==
    IF isClosed THEN invoke_handler(d, CancelResult(c, d))
                ELSE [d EXCEPT !.backoff = "map_and_send"]

maybe_retry(c, d, reason, ec, isClosed) ==
    IF always_retry(reason) \/ retry_after(c, reason)
    THEN schedule_for_retry(c, d, isClosed)
    ELSE invoke_handler(d, ec)

\* The callback of send() when its session stops.
Canceled(c, d, reason, isClosed) ==
    LET e == [d EXCEPT !.backoff = "off"] IN
    IF c \notin Idempotent /\ ~allows_non_idempotent_retry(reason)
    THEN invoke_handler(e, "request_canceled")
    ELSE maybe_retry(c, e, reason, "request_canceled", isClosed)

\* handle_unknown_collection() gives up when less than its back-off is left
\* until deadline.expiry(), so always once the deadline has passed; cancelling
\* the deadline leaves its expiry as it was.
handle_unknown_collection(c, d) ==
    {invoke_handler(d, TimeoutOf(c))} \cup
    (IF d.deadline \in {"armed", "cancelled"} THEN {[d EXCEPT !.backoff = "request_collection_id"]} ELSE {})
-----------------------------------------------------------------------------
(***************************************************************************)
(* Sessions.                                                               *)
(***************************************************************************)
Unused == {s \in Sessions : state[s] = "unused"}
Fresh == {s \in Unused : \A t \in Unused : s <= t}

\* A stopped session may or may not have had a configuration.
MayHaveConfig(s) == state[s] \in {"configured", "bootstrapped", "stopped"}
MayLackConfig(s) == state[s] \in {"connecting", "stopped"}

\* stop() on the sessions in S: every callback they keep is called.
StopSessions(S, reason, isClosed, cmds) ==
    LET Mine(c) == {x \in subs : x.session \in S /\ x.cmd = c} IN
    /\ state' = [s \in Sessions |-> IF s \in S THEN "stopped" ELSE state[s]]
    /\ cmd' = [c \in Commands |->
                 IF \E x \in Mine(c) : x.kind = "op"
                 THEN Canceled(c, cmds[c], reason, isClosed)
                 ELSE IF Mine(c) # {}
                      THEN invoke_handler(cmds[c], "request_canceled")
                      ELSE cmds[c]]
    /\ subs' = {x \in subs : x.session \notin S}
    /\ pending' = {x \in pending : x.session \notin S}
    /\ wire' = {x \in wire : x.session \notin S}
    /\ UNCHANGED <<lastOpaque, cached, sent, open>>

\* A new session for the node, connecting; nothing once the bound is reached.
connect_session ==
    \/ Fresh = {} /\ UNCHANGED <<state, slot, members>>
    \/ \E s \in Fresh : /\ state' = [state EXCEPT ![s] = "connecting"]
                        /\ slot' = s
                        /\ members' = members \cup {s}
-----------------------------------------------------------------------------
(***************************************************************************)
(* Dispatch of a command, by the thread t that runs it.                    *)
(***************************************************************************)
IoFree == run[IO] = NotRunning /\ draining = <<>> /\ up = NoSession

\* The thread that calls the library: one of the application or the I/O thread.
ThreadOf(x) == IF CallerThread THEN x ELSE IO

Free(t) == IF t = IO THEN IoFree ELSE run[t] = NotRunning

\* Mutant: the deadline is not armed while the command is dispatched.
execute_without_deadline(c) ==
    /\ cmd[c].deadline = "none"
    /\ Free(ThreadOf(c))
    /\ ~closed
    /\ cmd' = [cmd EXCEPT ![c].handler = TRUE, ![c].deadline = "off"]
    /\ run' = [run EXCEPT ![ThreadOf(c)] = Dispatch("check", c, NoSession)]
    /\ UNCHANGED <<session_vars, bucket_vars, sent, open>>

execute(c) ==
    LET t == ThreadOf(c)
        d == [cmd[c] EXCEPT !.handler = TRUE, !.deadline = "armed"]
    IN
    /\ cmd[c].deadline = "none"
    /\ Free(t)
    /\ \/ /\ closed
          /\ cmd' = [cmd EXCEPT ![c].deadline = "off"]
          /\ UNCHANGED run
       \/ /\ ~closed
          /\ cmd' = [cmd EXCEPT ![c] =
                       IF d.token = "fired" THEN invoke_handler(d, "request_canceled")
                       ELSE [d EXCEPT !.token = "set"]]
          /\ run' = [run EXCEPT ![t] = Dispatch("check", c, NoSession)]
    /\ UNCHANGED <<session_vars, bucket_vars, sent, open>>

\* execute(): is_configured() decides between map_and_send and the queue.
Check(t) ==
    /\ run[t].pc = "check"
    /\ run' = [run EXCEPT ![t].pc = IF configured THEN "map" ELSE "defer"]
    /\ UNCHANGED <<cmd, session_vars, bucket_vars, sent, open>>

defer_command(t) ==
    /\ run[t].pc = "defer"
    /\ deferred' = Append(deferred, run[t].cmd)
    /\ run' = [run EXCEPT ![t] = NotRunning]
    /\ UNCHANGED <<cmd, session_vars, closed, configured, mapped, slot, members,
                   dropped, restart, draining, up, configs, sent, open>>

map_and_send(t) ==
    LET c == run[t].cmd IN
    /\ run[t].pc = "map"
    /\ \/ /\ closed
          /\ cmd' = [cmd EXCEPT ![c] = invoke_handler(@, CancelResult(c, @))]
          /\ run' = [run EXCEPT ![t] = NotRunning]
          /\ UNCHANGED <<state, slot, members>>
       \/ /\ ~closed
          /\ ~mapped \/ (slot # NoSession /\ state[slot] = "stopped")
          /\ cmd' = [cmd EXCEPT ![c] =
                       maybe_retry(c, @, "node_not_available", "request_canceled", closed)]
          /\ run' = [run EXCEPT ![t] = NotRunning]
          /\ UNCHANGED <<state, slot, members>>
       \/ /\ ~closed /\ mapped /\ slot = NoSession
          /\ connect_session
          /\ run' = [run EXCEPT ![t].pc = "defer"]
          /\ UNCHANGED cmd
       \/ /\ ~closed /\ mapped /\ slot # NoSession /\ MayLackConfig(slot)
          /\ run' = [run EXCEPT ![t].pc = "defer"]
          /\ UNCHANGED <<cmd, state, slot, members>>
       \/ /\ ~closed /\ mapped /\ slot # NoSession
          /\ MayHaveConfig(slot) /\ state[slot] # "stopped"
          /\ run' = [run EXCEPT ![t] = Dispatch("send_to", c, slot)]
          /\ UNCHANGED <<cmd, state, slot, members>>
    /\ UNCHANGED <<lastOpaque, cached, subs, pending, wire, closed, configured, mapped,
                   dropped, restart, deferred, draining, up, configs, sent, open>>

\* Mutant: handler_ is not checked before the command is sent.
send_to_unchecked(t) ==
    /\ run[t].pc = "send_to"
    /\ cmd' = [cmd EXCEPT ![run[t].cmd].session = run[t].session]
    /\ run' = [run EXCEPT ![t].pc = "send"]
    /\ UNCHANGED <<session_vars, bucket_vars, sent, open>>

send_to(t) ==
    LET c == run[t].cmd IN
    /\ run[t].pc = "send_to"
    /\ \/ /\ ~cmd[c].handler
          /\ run' = [run EXCEPT ![t] = NotRunning]
          /\ UNCHANGED cmd
       \/ /\ cmd[c].handler
          /\ cmd' = [cmd EXCEPT ![c].session = run[t].session]
          /\ run' = [run EXCEPT ![t].pc = "send"]
    /\ UNCHANGED <<session_vars, bucket_vars, sent, open>>

\* Mutant: a command that is sent again keeps its opaque.
send_same_opaque(t) ==
    LET c == run[t].cmd
        s == cmd[c].session
        o == IF cmd[c].opaque > 0 THEN cmd[c].opaque ELSE lastOpaque[s] + 1
        known == cmd[c].resolved \/ s \in cached
    IN
    /\ run[t].pc = "send"
    /\ lastOpaque' = [lastOpaque EXCEPT ![s] = IF o > @ THEN o ELSE @]
    /\ cmd' = [cmd EXCEPT ![c].opaque = o, ![c].resolved = known]
    /\ run' = [run EXCEPT ![t].pc = IF known THEN "write" ELSE "request_collection_id",
                          ![t].session = s, ![t].opaque = o]
    /\ UNCHANGED <<state, cached, subs, pending, wire, bucket_vars, sent, open>>

\* send() takes an opaque for the operation even if the id of the collection
\* has to be looked up first.  It gives up when the request cannot be encoded
\* or the server knows no collections.
send(t) ==
    LET c == run[t].cmd
        s == cmd[c].session
        o == lastOpaque[s] + 1
        known == cmd[c].resolved \/ s \in cached
    IN
    /\ run[t].pc = "send"
    /\ lastOpaque' = [lastOpaque EXCEPT ![s] = o]
    /\ \/ /\ cmd' = [cmd EXCEPT ![c].opaque = o, ![c].resolved = known]
          /\ run' = [run EXCEPT ![t].pc = IF known THEN "write" ELSE "request_collection_id",
                                ![t].session = s, ![t].opaque = o]
       \/ /\ cmd' = [cmd EXCEPT ![c] = invoke_handler([@ EXCEPT !.opaque = o], "error")]
          /\ run' = [run EXCEPT ![t] = NotRunning]
    /\ UNCHANGED <<state, cached, subs, pending, wire, bucket_vars, sent, open>>

request_collection_id(t) ==
    LET c == run[t].cmd
        s == cmd[c].session
        o == lastOpaque[s] + 1
    IN
    /\ run[t].pc = "request_collection_id"
    /\ \/ /\ state[s] = "stopped"
          /\ run' = [run EXCEPT ![t] = Dispatch("map", c, NoSession)]
          /\ UNCHANGED lastOpaque
       \/ /\ state[s] # "stopped"
          /\ lastOpaque' = [lastOpaque EXCEPT ![s] = o]
          /\ run' = [run EXCEPT ![t] = [Dispatch("write", c, s) EXCEPT !.kind = "lookup",
                                                                       !.opaque = o]]
    /\ UNCHANGED <<cmd, state, cached, subs, pending, wire, bucket_vars, sent, open>>

\* write_and_subscribe(): a stopped session calls the callback at once.
write_and_subscribe(t) ==
    LET c == run[t].cmd IN
    /\ run[t].pc = "write"
    /\ \/ /\ state[run[t].session] = "stopped"
          /\ cmd' = [cmd EXCEPT ![c] =
                       IF run[t].kind = "op"
                       THEN Canceled(c, @, "socket_closed_while_in_flight", closed)
                       ELSE invoke_handler(@, "request_canceled")]
          /\ run' = [run EXCEPT ![t] = NotRunning]
       \/ /\ state[run[t].session] # "stopped"
          /\ run' = [run EXCEPT ![t].pc = "subscribe"]
          /\ UNCHANGED cmd
    /\ UNCHANGED <<session_vars, bucket_vars, sent, open>>

Subscribe(t) ==
    LET r == run[t] IN
    /\ r.pc = "subscribe"
    /\ subs' = subs \cup {Subscription(r.session, r.opaque, r.cmd, r.kind)}
    /\ run' = [run EXCEPT ![t].pc = "flush"]
    /\ UNCHANGED <<cmd, state, lastOpaque, cached, pending, wire, bucket_vars, sent, open>>

\* The requests in Q, at most one for each command, reach the wire.
Transmit(Q) ==
    LET Ops == {x.cmd : x \in {y \in Q : y.kind = "op"}} IN
    /\ wire' = wire \cup Q
    /\ sent' = [c \in Commands |-> IF c \in Ops THEN sent[c] + 1 ELSE sent[c]]
    /\ open' = [c \in Commands |-> IF c \in Ops THEN open[c] + 1 ELSE open[c]]

\* write_and_flush(), or the pending buffer of a session that is not
\* bootstrapped yet.
Flush(t) ==
    LET r == run[t]
        x == Subscription(r.session, r.opaque, r.cmd, r.kind)
    IN
    /\ r.pc = "flush"
    /\ \/ /\ state[r.session] = "stopped"
          /\ UNCHANGED <<pending, wire, sent, open>>
       \/ /\ state[r.session] = "configured"
          /\ pending' = pending \cup {x}
          /\ UNCHANGED <<wire, sent, open>>
       \/ /\ state[r.session] = "bootstrapped"
          /\ Transmit({x})
          /\ UNCHANGED pending
    /\ run' = [run EXCEPT ![t] = NotRunning]
    /\ UNCHANGED <<cmd, state, lastOpaque, cached, subs, bucket_vars>>

DispatchStep(t) ==
    \/ Check(t) \/ defer_command(t) \/ map_and_send(t)
    \/ send_to(t) \/ send(t) \/ request_collection_id(t)
    \/ write_and_subscribe(t) \/ Subscribe(t) \/ Flush(t)
-----------------------------------------------------------------------------
(***************************************************************************)
(* Timers and cancellation, on the I/O thread.                             *)
(***************************************************************************)
\* What the callback x makes of operation_aborted.
Aborted(x) == IF x.kind = "op" THEN TimeoutOf(x.cmd) ELSE "ambiguous_timeout"

\* cancel(): the callback that waits for opaque_ in session_, if there is one, is
\* taken from the session and called, and handler_ is dropped.
Cancel(c, d, result) ==
    LET hit == {x \in subs : /\ x.session = d.session
                             /\ x.opaque = d.opaque
                             /\ state[x.session] # "stopped"}
        called == [cmd EXCEPT ![c] = d]
    IN
    /\ subs' = subs \ hit
    /\ \/ /\ hit = {}
          /\ cmd' = [called EXCEPT ![c] = invoke_handler(@, result)]
       \/ \E x \in hit :
            LET after == [called EXCEPT ![x.cmd] = invoke_handler(@, Aborted(x))] IN
            cmd' = [after EXCEPT ![c] = invoke_handler([@ EXCEPT !.handler = FALSE], result)]
    /\ UNCHANGED <<state, lastOpaque, cached, pending, wire, bucket_vars, run, sent, open>>

DeadlineExpires(c) ==
    /\ cmd[c].deadline = "armed"
    /\ cmd' = [cmd EXCEPT ![c].deadline = "due"]
    /\ UNCHANGED <<session_vars, bucket_vars, run, sent, open>>

\* The handler of the deadline, set in start().
Deadline(c) ==
    /\ IoFree
    /\ cmd[c].deadline = "due"
    /\ Cancel(c, [cmd[c] EXCEPT !.deadline = "off"], CancelResult(c, cmd[c]))

\* Mutant: the timer is reset before its handler is taken from it.
BackoffExpiresReset(c) ==
    /\ cmd[c].backoff # "off"
    /\ cmd' = [cmd EXCEPT ![c].backoff = "off", ![c].due = @ \cup {"off"}]
    /\ UNCHANGED <<session_vars, bucket_vars, run, sent, open>>

BackoffExpires(c) ==
    /\ cmd[c].backoff # "off"
    /\ cmd' = [cmd EXCEPT ![c].due = @ \cup {cmd[c].backoff}, ![c].backoff = "off"]
    /\ UNCHANGED <<session_vars, bucket_vars, run, sent, open>>

\* The handler of retry_backoff, set in schedule_for_retry() or in
\* handle_unknown_collection().
Backoff(c) ==
    /\ IoFree
    /\ \E k \in cmd[c].due :
         /\ cmd' = [cmd EXCEPT ![c].due = @ \ {k}]
         /\ run' = [run EXCEPT ![IO] =
                      Dispatch(IF k = "map_and_send" THEN "map" ELSE k, c, NoSession)]
    /\ UNCHANGED <<session_vars, bucket_vars, sent, open>>

\* cancellation_token::cancel(), called when a sibling has the answer.
CancelToken(c) ==
    LET d == [cmd[c] EXCEPT !.token = "fired"] IN
    /\ c \in Cancellable
    /\ IoFree
    /\ \/ /\ cmd[c].token = "unset"
          /\ cmd' = [cmd EXCEPT ![c] = d]
          /\ UNCHANGED <<session_vars, bucket_vars, run, sent, open>>
       \/ /\ cmd[c].token = "set"
          /\ Cancel(c, d, "request_canceled")
-----------------------------------------------------------------------------
(***************************************************************************)
(* Answers.                                                                *)
(***************************************************************************)
\* What the server may answer, by kind of request.
Statuses(x) ==
    {"success", "error"} \cup
    (IF lastOpaque[x.session] >= MaxOpaque THEN {}
     ELSE (IF x.kind = "op" THEN {"not_my_vbucket", "config_only", "temporary_failure"} ELSE {})
          \cup (IF x.cmd \in Named THEN {"unknown_collection"} ELSE {}))

\* The command after the callback of send() with a status of the server.
Answered(c, d, status) ==
    LET e == [d EXCEPT !.backoff = "off"] IN
    CASE status \in {"success", "error"} -> {invoke_handler(e, status)}
      [] status = "not_my_vbucket" ->
           {maybe_retry(c, e, "key_value_not_my_vbucket", status, closed)}
      [] status = "unknown_collection" -> handle_unknown_collection(c, e)
      [] status = "config_only" ->
           {maybe_retry(c, e, "service_response_code_indicated", status, closed)}
      [] status = "temporary_failure" ->
           {maybe_retry(c, e, "key_value_temporary_failure", status, closed)}

\* The callback of send() runs.
OperationAnswered(x, status) ==
    /\ x.kind = "op"
    /\ \E d \in Answered(x.cmd, cmd[x.cmd], status) : cmd' = [cmd EXCEPT ![x.cmd] = d]
    /\ UNCHANGED <<cached, run>>

\* The callback of request_collection_id() runs: on success the operation is
\* sent, whether or not somebody still waits for it.
LookupAnswered(x, status) ==
    LET c == x.cmd IN
    /\ x.kind = "lookup"
    /\ \/ /\ status = "success"
          /\ cached' = cached \cup {x.session}
          /\ cmd' = [cmd EXCEPT ![c].resolved = TRUE]
          /\ run' = [run EXCEPT ![IO] = Dispatch("send", c, x.session)]
       \/ /\ status = "unknown_collection" /\ ~cmd[c].resolved
          /\ \E d \in handle_unknown_collection(c, cmd[c]) : cmd' = [cmd EXCEPT ![c] = d]
          /\ UNCHANGED <<cached, run>>
       \/ /\ status = "error" \/ (status = "unknown_collection" /\ cmd[c].resolved)
          /\ cmd' = [cmd EXCEPT ![c] = invoke_handler(@, "error")]
          /\ UNCHANGED <<cached, run>>

\* Mutant: the callback is called but stays in command_handlers_.
handle_request_kept(x) ==
    /\ IoFree
    /\ x \in subs
    /\ wire' = wire \ {x}
    /\ \E status \in Statuses(x) : OperationAnswered(x, status) \/ LookupAnswered(x, status)
    /\ UNCHANGED <<state, lastOpaque, subs, pending, bucket_vars, sent, open>>

\* An answer finds its callback in command_handlers_, or is an orphan.
handle_request(x) ==
    /\ IoFree
    /\ wire' = wire \ {x}
    /\ subs' = subs \ {x}
    /\ \E status \in Statuses(x) :
         /\ open' = [open EXCEPT ![x.cmd] =
                       IF x.kind = "op" /\ status # "success" THEN @ - 1 ELSE @]
         /\ \/ x \in subs /\ (OperationAnswered(x, status) \/ LookupAnswered(x, status))
            \/ x \notin subs /\ UNCHANGED <<cmd, cached, run>>
    /\ UNCHANGED <<state, lastOpaque, pending, bucket_vars, sent>>
-----------------------------------------------------------------------------
(***************************************************************************)
(* Life of a session.                                                      *)
(***************************************************************************)
\* A configuration pushed by the server before the handshake is over.
update_configuration(s) ==
    /\ IoFree
    /\ state[s] = "connecting"
    /\ state' = [state EXCEPT ![s] = "configured"]
    /\ UNCHANGED <<cmd, lastOpaque, cached, subs, pending, wire, bucket_vars, run, sent, open>>

\* The bootstrap callback: the first session configures the bucket, every
\* session drains the deferred commands.
Bootstrapped(s) ==
    /\ IoFree
    /\ state[s] \in {"connecting", "configured"}
    /\ state' = [state EXCEPT ![s] = "configured"]
    /\ configured' = TRUE
    /\ \/ configured /\ UNCHANGED <<mapped, slot, members>>
       \/ /\ ~configured
          /\ mapped' \in BOOLEAN
          /\ slot' = s
          /\ members' = members \cup {s}
    /\ draining' = deferred
    /\ deferred' = <<>>
    /\ up' = s
    /\ UNCHANGED <<cmd, lastOpaque, cached, subs, pending, wire, closed, dropped, restart,
                   configs, run, sent, open>>

\* The next deferred command is mapped again, also after close().
drain_deferred_queue ==
    /\ run[IO] = NotRunning /\ draining # <<>>
    /\ run' = [run EXCEPT ![IO] = Dispatch("map", Head(draining), NoSession)]
    /\ draining' = Tail(draining)
    /\ UNCHANGED <<cmd, session_vars, closed, configured, mapped, slot, members, dropped,
                   restart, deferred, up, configs, sent, open>>

\* invoke_bootstrap_handler() after the callback: the pending buffer is sent.
FinishBootstrap ==
    /\ run[IO] = NotRunning /\ draining = <<>> /\ up # NoSession
    /\ \/ /\ state[up] = "stopped"
          /\ UNCHANGED <<state, pending, wire, sent, open>>
       \/ /\ state[up] # "stopped"
          /\ state' = [state EXCEPT ![up] = "bootstrapped"]
          /\ Transmit({x \in pending : x.session = up})
          /\ pending' = {x \in pending : x.session # up}
    /\ up' = NoSession
    /\ UNCHANGED <<cmd, lastOpaque, cached, subs, closed, configured, mapped, slot, members,
                   dropped, restart, deferred, draining, configs, run>>

\* The handshake fails, or the bootstrap deadline passes.
BootstrapFails(s) ==
    /\ IoFree
    /\ state[s] \in {"connecting", "configured"}
    /\ \E reason \in {"node_not_available", "do_not_retry"} :
         StopSessions({s}, reason, closed, cmd)
    /\ run' = [run EXCEPT ![IO] = Dispatch("on_stop", "none", s)]
    /\ UNCHANGED bucket_vars

\* The socket fails, or the server answers auth_stale.
Disconnected(s) ==
    /\ IoFree
    /\ state[s] = "bootstrapped"
    /\ \E reason \in {"socket_closed_while_in_flight", "do_not_retry"} :
         StopSessions({s}, reason, closed, cmd)
    /\ run' = [run EXCEPT ![IO] = Dispatch("on_stop", "none", s)]
    /\ UNCHANGED bucket_vars

\* A session that is still in sessions_ is replaced by restart_sessions().
remove_session(t) ==
    LET s == run[t].session IN
    /\ run[t].pc = "on_stop"
    /\ members' = members \ {s}
    /\ slot' = IF slot = s THEN NoSession ELSE slot
    /\ restart' = (restart \/ s \in members)
    /\ run' = [run EXCEPT ![t] = NotRunning]
    /\ UNCHANGED <<cmd, session_vars, closed, configured, mapped, dropped, deferred, draining,
                   up, configs, sent, open>>

restart_sessions ==
    /\ IoFree
    /\ restart
    /\ restart' = FALSE
    /\ IF configured /\ slot = NoSession THEN connect_session ELSE UNCHANGED <<state, slot, members>>
    /\ UNCHANGED <<cmd, lastOpaque, cached, subs, pending, wire, closed, configured, mapped,
                   dropped, deferred, draining, up, configs, run, sent, open>>

\* A newer configuration: the key may have no server, the same one, or another
\* whose session is opened now or on demand; the old session is kept or dropped.
update_config ==
    /\ IoFree
    /\ configured /\ configs < ConfigCount
    /\ configs' = configs + 1
    /\ mapped' \in BOOLEAN
    /\ \E drop \in SUBSET ({slot} \cap members) :
         /\ dropped' = dropped \cup drop
         /\ \/ /\ slot' \in {NoSession} \cup ({slot} \ drop)
               /\ members' = members \ drop
               /\ UNCHANGED state
            \/ \E s \in Fresh : /\ slot' = s
                                /\ members' = (members \ drop) \cup {s}
                                /\ state' = [state EXCEPT ![s] = "connecting"]
    /\ UNCHANGED <<cmd, lastOpaque, cached, subs, pending, wire, closed, configured, restart,
                   deferred, draining, up, run, sent, open>>

\* The posted stop() of a session that the configuration dropped.
StopDropped(s) ==
    /\ IoFree
    /\ s \in dropped
    /\ dropped' = dropped \ {s}
    /\ IF state[s] = "stopped"
       THEN UNCHANGED <<cmd, session_vars, sent, open>>
       ELSE StopSessions({s}, "do_not_retry", closed, cmd)
    /\ UNCHANGED <<closed, configured, mapped, slot, members, restart, deferred, draining, up,
                   configs, run>>
-----------------------------------------------------------------------------
(***************************************************************************)
(* close(): the deferred commands are cancelled, then the sessions stopped.*)
(***************************************************************************)
close ==
    LET t == ThreadOf(Closer) IN
    /\ ~closed
    /\ Free(t)
    /\ closed' = TRUE
    /\ cmd' = [c \in Commands |->
                 IF \E i \in 1 .. Len(deferred) : deferred[i] = c
                 THEN invoke_handler(cmd[c], CancelResult(c, cmd[c]))
                 ELSE cmd[c]]
    /\ deferred' = <<>>
    /\ run' = [run EXCEPT ![t].pc = "close"]
    /\ UNCHANGED <<session_vars, configured, mapped, slot, members, dropped, restart, draining,
                   up, configs, sent, open>>

CloseSessions(t) ==
    /\ run[t].pc = "close"
    /\ StopSessions({s \in members : state[s] # "stopped"}, "do_not_retry", TRUE, cmd)
    /\ members' = {}
    /\ slot' = NoSession
    /\ run' = [run EXCEPT ![t] = NotRunning]
    /\ UNCHANGED <<closed, configured, mapped, dropped, restart, deferred, draining, up, configs>>
-----------------------------------------------------------------------------
Init ==
    /\ cmd = [c \in Commands |-> NewCommand(c)]
    /\ state = [s \in Sessions |-> IF s = 1 THEN "connecting" ELSE "unused"]
    /\ lastOpaque = [s \in Sessions |-> 0]
    /\ cached = {} /\ subs = {} /\ pending = {} /\ wire = {}
    /\ closed = FALSE /\ configured = FALSE /\ mapped = FALSE
    /\ slot = NoSession /\ members = {} /\ dropped = {} /\ restart = FALSE
    /\ deferred = <<>> /\ draining = <<>> /\ up = NoSession
    /\ run = [t \in Threads |-> NotRunning]
    /\ configs = 0
    /\ sent = [c \in Commands |-> 0]
    /\ open = [c \in Commands |-> 0]

TimerStep == \E c \in Commands :
    DeadlineExpires(c) \/ Deadline(c) \/ BackoffExpires(c) \/ Backoff(c) \/ CancelToken(c)

SessionStep ==
    \/ \E s \in Sessions : \/ update_configuration(s) \/ Bootstrapped(s)
                           \/ BootstrapFails(s) \/ Disconnected(s) \/ StopDropped(s)
    \/ drain_deferred_queue \/ FinishBootstrap \/ restart_sessions \/ update_config

Next ==
    \/ \E c \in Commands : execute(c)
    \/ \E t \in Threads : DispatchStep(t) \/ remove_session(t) \/ CloseSessions(t)
    \/ \E x \in wire : handle_request(x)
    \/ TimerStep
    \/ SessionStep
    \/ close

\* Time passes, a thread does not stop in the middle of a call, and the I/O
\* thread takes the handlers that are due in the order they became due, so
\* every handler gets its turn.
Fairness ==
    /\ \A t \in Threads : WF_vars(DispatchStep(t) \/ remove_session(t) \/ CloseSessions(t))
    /\ WF_vars(drain_deferred_queue \/ FinishBootstrap)
    /\ \A c \in Commands : WF_vars(DeadlineExpires(c)) /\ SF_vars(Deadline(c))

Spec == Init /\ [][Next]_vars
FairSpec == Spec /\ Fairness
-----------------------------------------------------------------------------
Results == {"success", "error", "request_canceled", "unambiguous_timeout", "ambiguous_timeout",
            "not_my_vbucket", "config_only", "temporary_failure"}

\* Commands, sessions, timers and queues hold what their code can put there.
TypeOK ==
    /\ cmd \in [Commands -> [handler : BOOLEAN, opaque : Nat, session : Sessions \cup {NoSession},
                             resolved : BOOLEAN, results : Seq(Results),
                             deadline : {"none", "armed", "due", "off", "cancelled"},
                             backoff : {"off", "map_and_send", "request_collection_id"},
                             due : SUBSET {"map_and_send", "request_collection_id"},
                             token : {"unset", "set", "fired"}]]
    /\ state \in [Sessions -> {"unused", "connecting", "configured", "bootstrapped", "stopped"}]
    /\ lastOpaque \in [Sessions -> Nat]
    /\ cached \subseteq Sessions
    /\ \A x \in subs \cup pending \cup wire :
         x \in [session : Sessions, opaque : Nat, cmd : Commands, kind : {"op", "lookup"}]
    /\ {closed, configured, mapped, restart} \subseteq BOOLEAN
    /\ {slot, up} \subseteq Sessions \cup {NoSession}
    /\ members \subseteq Sessions /\ dropped \subseteq Sessions
    /\ deferred \in Seq(Commands) /\ draining \in Seq(Commands)
    /\ configs \in Nat
    /\ sent \in [Commands -> Nat] /\ open \in [Commands -> Nat]

\* The application hears of a command once: a late answer, a due timer, a
\* session that stops and close() never call its handler again.
AnsweredOnce == \A c \in Commands : Len(cmd[c].results) <= 1

\* An operation that may change data and was reported as an unambiguous
\* timeout was never sent and is never sent later: not by the retry timer, the
\* deferred queue or the answer to a lookup of the collection id.
UnambiguousMeansUnsent ==
    \A c \in Commands \ Idempotent :
        (\E i \in 1 .. Len(cmd[c].results) : cmd[c].results[i] = "unambiguous_timeout")
            => sent[c] = 0

\* No read is reported as an ambiguous timeout, on any path.
ReadsAreUnambiguous ==
    \A c \in Idempotent :
        \A i \in 1 .. Len(cmd[c].results) : cmd[c].results[i] # "ambiguous_timeout"

\* When a timer or a token cancels a command, opaque_ and session_ name the
\* callback of that command's own operation or none: never another command's
\* callback, although every session numbers its requests from one.
CancelsOnlyItself ==
    IoFree => \A c \in Commands, x \in subs :
                 (x.session = cmd[c].session /\ x.opaque = cmd[c].opaque)
                     => (x.cmd = c /\ x.kind = "op")

\* An operation that may change data is sent again only after the server has
\* refused every earlier request for it: a lost session never makes the client
\* repeat what the server may have done.
NoBlindResend == \A c \in Commands \ Idempotent : open[c] <= 1

Count(q, c) == Cardinality({i \in 1 .. Len(q) : q[i] = c})

\* Ways in which a command may still go on.
Continuations(c) ==
    Count(deferred, c) + Count(draining, c)
    + Cardinality({x \in subs : x.cmd = c})
    + Cardinality(cmd[c].due)
    + (IF cmd[c].backoff # "off" THEN 1 ELSE 0)
    + Cardinality({t \in Threads : run[t].cmd = c /\ run[t].pc \notin {"flush", "out", "close", "on_stop"}})

\* A command waits in at most one place: in a queue, for a timer, for an answer
\* or in the middle of its dispatch, so no two paths ever send it side by side.
SingleTrack == \A c \in Commands : Continuations(c) <= 1

\* Every command that execute() accepts is answered, whatever happens to the
\* sessions, the configuration and the bucket.
EveryCommandAnswered ==
    \A c \in Commands : cmd[c].handler ~> cmd[c].results # <<>>
=============================================================================
