------------------------- MODULE McbpCommandProofs -------------------------
(***************************************************************************)
(* Proofs about McbpCommand, for any commands, sessions and bounds: a      *)
(* command is answered at most once; and on the I/O thread a command       *)
(* cancels only its own callback, a read is never reported as an ambiguous *)
(* timeout, and an unambiguous timeout of a mutation means that it is      *)
(* never sent.                                                             *)
(*                                                                         *)
(* The argument: opaque_ is set before anything that may send the          *)
(* operation is started, and once the handler is gone no command without   *)
(* an opaque gets one.  The opaques of a session only grow, so the one a   *)
(* command or a lookup takes is unlike all that are in use.                *)
(***************************************************************************)
EXTENDS McbpCommand, TLAPS

Kinds == {"op", "lookup"}
Waits == {"map_and_send", "request_collection_id"}
CommandRecord ==
  [handler : BOOLEAN, opaque : Nat, session : Sessions \cup {NoSession},
   resolved : BOOLEAN, results : Seq(Results),
   deadline : {"none", "armed", "due", "off", "cancelled"},
   backoff : Waits \cup {"off"}, due : SUBSET Waits,
   token : {"unset", "set", "fired"}]
Requests == [session : Sessions, opaque : Nat, cmd : Commands, kind : Kinds]
Idle == {"out", "close", "on_stop"}
Early == {"check", "defer", "map", "send_to", "send"}
Late == {"request_collection_id", "write", "subscribe", "flush"}
Frames ==
  [pc : Idle \cup Early \cup Late, cmd : Commands \cup {"none"},
   session : Sessions \cup {NoSession}, kind : Kinds, opaque : Nat]

Types ==
  /\ cmd \in [Commands -> CommandRecord]
  /\ lastOpaque \in [Sessions -> Nat]
  /\ subs \subseteq Requests /\ pending \subseteq Requests /\ wire \subseteq Requests
  /\ run \in [Threads -> Frames]
  /\ deferred \in Seq(Commands) /\ draining \in Seq(Commands)
  /\ slot \in Sessions \cup {NoSession}
  /\ sent \in [Commands -> Nat]

\* The opaque of the operation is taken.
Issued(d) == d.opaque > 0 /\ d.session \in Sessions

Reports(d, r) == \E i \in 1 .. Len(d.results) : d.results[i] = r

\* What holds of every command.
Good(c, d) ==
  /\ Len(d.results) <= 1
  /\ d.handler \/ d.deadline = "none" => Len(d.results) = 0
  /\ d.deadline = "none" => ~d.handler
  /\ ~CallerThread /\ c \in Idempotent => ~Reports(d, "ambiguous_timeout")
  /\ ~CallerThread /\ c \notin Idempotent /\ Reports(d, "unambiguous_timeout") => d.opaque = 0
  /\ "request_collection_id" \in d.due \cup {d.backoff} => Issued(d)

CmdRight == \A c \in Commands : Good(c, cmd[c])

\* Only an operation with an opaque has requests.
IssuedRight ==
  /\ \A c \in Commands : sent[c] > 0 => Issued(cmd[c])
  /\ \A x \in subs \cup pending \cup wire : Issued(cmd[x.cmd])

FrameRight(r) ==
  /\ r.pc \in Early \cup Late => r.cmd \in Commands
  /\ r.pc \in {"send_to", "write", "subscribe", "flush"} => r.session \in Sessions
  /\ r.pc = "send" => cmd[r.cmd].session \in Sessions
  /\ r.pc \in Late => Issued(cmd[r.cmd])

RunRight == \A t \in Threads : FrameRight(run[t])

\* On the I/O thread send() runs for a command somebody waits for, or for one
\* whose opaque is taken.
IoRight ==
  ~CallerThread =>
    /\ \A t \in Threads \ {IO} : run[t] = NotRunning
    /\ run[IO].pc = "send" => cmd[run[IO].cmd].handler \/ cmd[run[IO].cmd].opaque > 0

\* The I/O thread is about to replace the opaque of c.
Sending(c) == run[IO].pc = "send" /\ run[IO].cmd = c

\* A request that is about to wait for its answer.
Writing == {"write", "subscribe"}

\* On the I/O thread opaque_ and session_ of a command name its own operation.
OpaqueRight ==
  ~CallerThread =>
    /\ \A x \in subs : x.opaque <= lastOpaque[x.session]
    /\ run[IO].pc \in Writing => run[IO].opaque <= lastOpaque[run[IO].session]
    /\ \A c \in Commands :
         ~Sending(c) /\ cmd[c].session \in Sessions
             => cmd[c].opaque <= lastOpaque[cmd[c].session]
    /\ \A c \in Commands, x \in subs :
         ~Sending(c) /\ x.session = cmd[c].session /\ x.opaque = cmd[c].opaque
             => x.cmd = c /\ x.kind = "op"
    /\ \A c \in Commands :
         run[IO].pc \in Writing /\ run[IO].session = cmd[c].session
           /\ run[IO].opaque = cmd[c].opaque
             => run[IO].cmd = c /\ run[IO].kind = "op"
    /\ run[IO].pc \in {"send_to", "send"} => run[IO].kind = "op"

IInv == Types /\ CmdRight /\ IssuedRight /\ RunRight /\ IoRight /\ OpaqueRight
-----------------------------------------------------------------------------
(* What the operators on one command do.                                    *)

\* e is d after a callback: same opaque and session.
Step(c, d, e) ==
  /\ e \in CommandRecord /\ Good(c, e)
  /\ e.opaque = d.opaque /\ e.session = d.session

LEMMA InvokeStep ==
  ASSUME NEW c \in Commands, NEW d \in CommandRecord, Good(c, d), NEW r \in Results,
         ~CallerThread /\ c \in Idempotent => r # "ambiguous_timeout",
         c \notin Idempotent /\ r = "unambiguous_timeout" => d.opaque = 0
  PROVE  Step(c, d, invoke_handler(d, r))
<1>. DEFINE e == invoke_handler(d, r)
<1>1. /\ e.handler = FALSE /\ e.opaque = d.opaque /\ e.session = d.session
      /\ e.backoff = "off" /\ e.due = d.due
      /\ e.deadline = "none" => d.deadline = "none"
      /\ e.results = IF d.handler THEN Append(d.results, r) ELSE d.results
  BY DEF invoke_handler, CommandRecord
<1>2. e \in CommandRecord
  <2>1. d.results \in Seq(Results) /\ Append(d.results, r) \in Seq(Results)
    BY DEF CommandRecord
  <2>. QED
    BY <2>1, Zenon DEF invoke_handler, CommandRecord
<1>3. CASE d.handler
  <2>1. d.results \in Seq(Results) /\ Len(d.results) = 0
    BY <1>3 DEF Good, CommandRecord
  <2>2. Len(e.results) = 1 /\ e.results[1] = r
    BY <1>1, <1>3, <2>1
  <2>3. \A q : Reports(e, q) => q = r
    BY <2>2 DEF Reports
  <2>. QED
    BY <1>1, <1>2, <2>2, <2>3 DEF Step, Good, Issued
<1>4. CASE ~d.handler
  <2>1. e.results = d.results
    BY <1>1, <1>4
  <2>. QED
    BY <1>1, <1>2, <2>1 DEF Step, Good, Issued, Reports
<1>. QED
  BY <1>3, <1>4

\* The other errors and answers say nothing about timeouts.
Plain == Results \ {"ambiguous_timeout", "unambiguous_timeout"}

LEMMA InvokePlain ==
  ASSUME NEW c \in Commands, NEW d \in CommandRecord, Good(c, d), NEW r \in Plain
  PROVE  Step(c, d, invoke_handler(d, r))
BY InvokeStep DEF Plain

LEMMA InvokeCancel ==
  ASSUME NEW c \in Commands, NEW d \in CommandRecord, Good(c, d)
  PROVE  Step(c, d, invoke_handler(d, CancelResult(c, d)))
<1>1. CancelResult(c, d) \in Results
  BY DEF CancelResult, TimeoutOf, Results
<1>2. c \in Idempotent => CancelResult(c, d) # "ambiguous_timeout"
  BY DEF CancelResult, TimeoutOf
<1>3. c \notin Idempotent /\ CancelResult(c, d) = "unambiguous_timeout" => d.opaque = 0
  BY DEF CancelResult, TimeoutOf
<1>. QED
  BY <1>1, <1>2, <1>3, InvokeStep

LEMMA InvokeTimeout ==
  ASSUME NEW c \in Commands, NEW d \in CommandRecord, Good(c, d)
  PROVE  Step(c, d, invoke_handler(d, TimeoutOf(c)))
<1>1. TimeoutOf(c) \in Results
  BY DEF TimeoutOf, Results
<1>2. c \in Idempotent => TimeoutOf(c) # "ambiguous_timeout"
  BY DEF TimeoutOf
<1>3. c \notin Idempotent => TimeoutOf(c) # "unambiguous_timeout"
  BY DEF TimeoutOf
<1>. QED
  BY <1>1, <1>2, <1>3, InvokeStep

\* A timer is set or cleared.
LEMMA BackoffStep ==
  ASSUME NEW c \in Commands, NEW d \in CommandRecord, Good(c, d),
         NEW b \in Waits \cup {"off"}, b = "request_collection_id" => Issued(d)
  PROVE  Step(c, d, [d EXCEPT !.backoff = b])
BY DEF Step, Good, Reports, Issued, CommandRecord, Waits

LEMMA RetryStep ==
  ASSUME NEW c \in Commands, NEW d \in CommandRecord, Good(c, d), NEW isClosed
  PROVE  Step(c, d, schedule_for_retry(c, d, isClosed))
<1>1. CASE isClosed
  BY <1>1, InvokeCancel DEF schedule_for_retry
<1>2. CASE ~isClosed
  BY <1>2, BackoffStep, Zenon DEF schedule_for_retry, Waits
<1>. QED
  BY <1>1, <1>2

LEMMA MaybeRetryStep ==
  ASSUME NEW c \in Commands, NEW d \in CommandRecord, Good(c, d),
         NEW reason, NEW ec \in Plain, NEW isClosed
  PROVE  Step(c, d, maybe_retry(c, d, reason, ec, isClosed))
BY RetryStep, InvokePlain DEF maybe_retry

LEMMA CanceledStep ==
  ASSUME NEW c \in Commands, NEW d \in CommandRecord, Good(c, d),
         NEW reason, NEW isClosed
  PROVE  Step(c, d, Canceled(c, d, reason, isClosed))
<1>. DEFINE e == [d EXCEPT !.backoff = "off"]
<1>1. Step(c, d, e)
  BY BackoffStep
<1>2. "request_canceled" \in Plain
  BY DEF Plain, Results
<1>3. e \in CommandRecord /\ Good(c, e) /\ e.opaque = d.opaque /\ e.session = d.session
  BY <1>1 DEF Step
<1>. HIDE DEF e
<1>4. Step(c, e, invoke_handler(e, "request_canceled"))
  BY <1>2, <1>3, InvokePlain
<1>5. Step(c, e, maybe_retry(c, e, reason, "request_canceled", isClosed))
  BY <1>2, <1>3, MaybeRetryStep
<1>6. \/ Canceled(c, d, reason, isClosed) = invoke_handler(e, "request_canceled")
      \/ Canceled(c, d, reason, isClosed) = maybe_retry(c, e, reason, "request_canceled", isClosed)
  BY DEF Canceled, e
<1>. QED
  BY <1>3, <1>4, <1>5, <1>6 DEF Step

LEMMA UnknownCollectionStep ==
  ASSUME NEW c \in Commands, NEW d \in CommandRecord, Good(c, d), Issued(d),
         NEW e \in handle_unknown_collection(c, d)
  PROVE  Step(c, d, e)
<1>1. \/ e = invoke_handler(d, TimeoutOf(c))
      \/ e = [d EXCEPT !.backoff = "request_collection_id"]
  BY DEF handle_unknown_collection
<1>2. Step(c, d, [d EXCEPT !.backoff = "request_collection_id"])
  BY BackoffStep, Zenon DEF Waits
<1>. QED
  BY <1>1, <1>2, InvokeTimeout

LEMMA AnsweredStep ==
  ASSUME NEW c \in Commands, NEW d \in CommandRecord, Good(c, d), Issued(d),
         NEW status \in {"success", "error", "not_my_vbucket", "config_only",
                         "temporary_failure", "unknown_collection"},
         NEW f \in Answered(c, d, status)
  PROVE  Step(c, d, f)
<1>. DEFINE e == [d EXCEPT !.backoff = "off"]
<1>1. Step(c, d, e)
  BY BackoffStep
<1>2. e \in CommandRecord /\ Good(c, e) /\ e.opaque = d.opaque /\ e.session = d.session
  BY <1>1 DEF Step
<1>3. Issued(e)
  BY <1>2 DEF Issued
<1>. HIDE DEF e
<1>4. status \in Plain \/ status = "unknown_collection"
  BY DEF Plain, Results
<1>5. CASE status = "unknown_collection"
  <2>1. f \in handle_unknown_collection(c, e)
    BY <1>5 DEF Answered, e
  <2>. QED
    BY <2>1, <1>2, <1>3, UnknownCollectionStep DEF Step
<1>6. CASE status \in {"success", "error"}
  <2>1. f = invoke_handler(e, status)
    BY <1>6 DEF Answered, e
  <2>. QED
    BY <2>1, <1>2, <1>4, <1>6, InvokePlain DEF Step
<1>7. CASE status \in {"not_my_vbucket", "config_only", "temporary_failure"}
  <2>1. PICK reason : f = maybe_retry(c, e, reason, status, closed)
    BY <1>7 DEF Answered, e
  <2>. QED
    BY <2>1, <1>2, <1>4, <1>7, MaybeRetryStep DEF Step
<1>. QED
  BY <1>5, <1>6, <1>7

\* Whatever callbacks stop() calls.
LEMMA StopSteps ==
  ASSUME Types, CmdRight, NEW S, NEW reason, NEW isClosed,
         StopSessions(S, reason, isClosed, cmd)
  PROVE  /\ cmd' \in [Commands -> CommandRecord]
         /\ \A c \in Commands : Step(c, cmd[c], cmd'[c])
         /\ subs' \subseteq subs /\ pending' \subseteq pending /\ wire' \subseteq wire
         /\ UNCHANGED <<lastOpaque, sent>>
<1>1. /\ subs' \subseteq subs /\ pending' \subseteq pending /\ wire' \subseteq wire
      /\ UNCHANGED <<lastOpaque, sent>>
  BY DEF StopSessions
<1>2. ASSUME NEW c \in Commands
      PROVE  Step(c, cmd[c], cmd'[c])
  <2>1. cmd[c] \in CommandRecord /\ Good(c, cmd[c])
    BY DEF Types, CmdRight
  <2>2. \/ cmd'[c] = cmd[c]
        \/ cmd'[c] = Canceled(c, cmd[c], reason, isClosed)
        \/ cmd'[c] = invoke_handler(cmd[c], "request_canceled")
    BY DEF StopSessions
  <2>3. "request_canceled" \in Plain
    BY DEF Plain, Results
  <2>. QED
    BY <2>1, <2>2, <2>3, CanceledStep, InvokePlain DEF Step
<1>3. cmd' = [c \in Commands |-> cmd'[c]]
  BY DEF StopSessions
<1>4. cmd' \in [Commands -> CommandRecord]
  BY <1>2, <1>3 DEF Step
<1>. QED
  BY <1>1, <1>2, <1>4
-----------------------------------------------------------------------------
(* What is left to show for a step.                                         *)

\* A command never loses its opaque or its session.
Moves(c, d, e) ==
  /\ e \in CommandRecord /\ Good(c, e)
  /\ d.opaque > 0 => e.opaque > 0
  /\ d.session \in Sessions => e.session \in Sessions

\* The I/O thread does not start send() for a command nobody waits for.
IoKept ==
  ~CallerThread =>
    /\ \A t \in Threads \ {IO} : run'[t] = run[t]
    /\ \/ run'[IO].pc # "send"
       \/ /\ run'[IO] = run[IO]
          /\ \A c \in Commands : cmd'[c].handler = cmd[c].handler
       \/ cmd'[run'[IO].cmd].handler \/ cmd'[run'[IO].cmd].opaque > 0

\* Nor does it enter or leave send(), or take up another request to write.
OpaqueKept ==
  ~CallerThread =>
    \/ run'[IO] = run[IO]
    \/ /\ run[IO].pc # "send"
       /\ run'[IO].pc \in {"send_to", "send"} => run'[IO].kind = "op"
       /\ run'[IO].pc \in Writing =>
            /\ run[IO].pc \in Writing
            /\ run'[IO].session = run[IO].session /\ run'[IO].opaque = run[IO].opaque
            /\ run'[IO].cmd = run[IO].cmd /\ run'[IO].kind = run[IO].kind

LEMMA KeepIInv ==
  ASSUME IInv,
         cmd' \in [Commands -> CommandRecord],
         \A c \in Commands : Moves(c, cmd[c], cmd'[c]),
         lastOpaque' \in [Sessions -> Nat],
         subs' \subseteq Requests, pending' \subseteq Requests, wire' \subseteq Requests,
         \A x \in subs' \cup pending' \cup wire' :
           x \in subs \cup pending \cup wire \/ Issued(cmd[x.cmd]),
         sent' \in [Commands -> Nat],
         \A c \in Commands : sent'[c] > 0 => sent[c] > 0 \/ Issued(cmd[c]),
         run' \in [Threads -> Frames],
         \A t \in Threads : run'[t] = run[t] \/ FrameRight(run'[t]) \/ FrameRight(run[t])',
         IoKept, OpaqueRight',
         deferred' \in Seq(Commands), draining' \in Seq(Commands),
         slot' \in Sessions \cup {NoSession}
  PROVE  IInv'
<1>1. Types'
  BY DEF Types
<1>2. CmdRight'
  BY DEF CmdRight, Moves
<1>3. \A c \in Commands : Issued(cmd[c]) => Issued(cmd'[c])
  BY DEF Moves, Issued
<1>4. IssuedRight'
  <2>1. \A x \in Requests : x.cmd \in Commands
    BY DEF Requests
  <2>2. ASSUME NEW x \in subs' \cup pending' \cup wire'
        PROVE  Issued(cmd'[x.cmd])
    BY <1>3, <2>1, Zenon DEF IInv, IssuedRight
  <2>3. ASSUME NEW c \in Commands, sent'[c] > 0
        PROVE  Issued(cmd'[c])
    BY <1>3, <2>3 DEF IInv, IssuedRight
  <2>. QED
    BY <2>2, <2>3 DEF IssuedRight
<1>5. RunRight'
  <2>1. ASSUME NEW t \in Threads
        PROVE  FrameRight(run[t])'
    <3>. SUFFICES ASSUME FrameRight(run'[t])
                  PROVE  FrameRight(run[t])'
      BY Zenon DEF IInv, RunRight
    <3>1. FrameRight(run'[t])
      OBVIOUS
    <3>2. run'[t].pc \in Early \cup Late => run'[t].cmd \in Commands
      BY <3>1 DEF FrameRight
    <3>3. run'[t].pc = "send" => cmd'[run'[t].cmd].session \in Sessions
      BY <3>1, <3>2 DEF FrameRight, Moves, Early
    <3>4. run'[t].pc \in Late => Issued(cmd'[run'[t].cmd])
      BY <3>1, <3>2, <1>3 DEF FrameRight
    <3>. QED
      BY <3>1, <3>2, <3>3, <3>4 DEF FrameRight
  <2>. QED
    BY <2>1 DEF RunRight
<1>6. IoRight'
  <2>. SUFFICES ASSUME ~CallerThread
                PROVE  /\ \A t \in Threads \ {IO} : run'[t] = NotRunning
                       /\ run'[IO].pc = "send" =>
                            cmd'[run'[IO].cmd].handler \/ cmd'[run'[IO].cmd].opaque > 0
    BY DEF IoRight
  <2>1. \A t \in Threads \ {IO} : run'[t] = NotRunning
    BY DEF IInv, IoRight, IoKept
  <2>2. ASSUME run'[IO].pc = "send"
        PROVE  cmd'[run'[IO].cmd].handler \/ cmd'[run'[IO].cmd].opaque > 0
    <3>. SUFFICES ASSUME run'[IO] = run[IO],
                         \A c \in Commands : cmd'[c].handler = cmd[c].handler
                  PROVE  cmd'[run'[IO].cmd].handler \/ cmd'[run'[IO].cmd].opaque > 0
      BY <2>2 DEF IoKept
    <3>1. run'[IO] = run[IO] /\ \A c \in Commands : cmd'[c].handler = cmd[c].handler
      OBVIOUS
    <3>2. IO \in Threads
      BY DEF Threads
    <3>3. run[IO].cmd \in Commands
      BY <2>2, <3>1, <3>2 DEF IInv, RunRight, FrameRight, Early
    <3>. QED
      BY <2>2, <3>1, <3>3 DEF IInv, IoRight, Moves
  <2>. QED
    BY <2>1, <2>2
<1>. QED
  BY <1>1, <1>2, <1>4, <1>5, <1>6 DEF IInv

LEMMA StepMoves ==
  ASSUME NEW c, NEW d, NEW e, Step(c, d, e)
  PROVE  Moves(c, d, e)
BY DEF Step, Moves

\* Callbacks leave opaques alone.
LEMMA QuietOpaques ==
  ASSUME IInv, \A c \in Commands : Step(c, cmd[c], cmd'[c]),
         subs' \subseteq subs, lastOpaque' = lastOpaque, OpaqueKept
  PROVE  OpaqueRight'
<1>. SUFFICES ASSUME ~CallerThread
              PROVE  OpaqueRight'
  BY DEF OpaqueRight
<1>1. \A c \in Commands : cmd'[c].opaque = cmd[c].opaque /\ cmd'[c].session = cmd[c].session
  BY DEF Step
<1>2. \A c \in Commands : Sending(c) => Sending(c)'
  BY DEF OpaqueKept, Sending
<1>3. \A x \in subs' : x \in subs /\ x.opaque <= lastOpaque'[x.session]
  BY DEF IInv, OpaqueRight
<1>4. \A c \in Commands :
        ~Sending(c)' /\ cmd'[c].session \in Sessions
          => cmd'[c].opaque <= lastOpaque'[cmd'[c].session]
  BY <1>1, <1>2 DEF IInv, OpaqueRight
<1>5. \A c \in Commands, x \in subs' :
        ~Sending(c)' /\ x.session = cmd'[c].session /\ x.opaque = cmd'[c].opaque
          => x.cmd = c /\ x.kind = "op"
  BY <1>1, <1>2, <1>3 DEF IInv, OpaqueRight
<1>6. run'[IO].pc \in Writing =>
        /\ run[IO].pc \in Writing
        /\ run'[IO].session = run[IO].session /\ run'[IO].opaque = run[IO].opaque
        /\ run'[IO].cmd = run[IO].cmd /\ run'[IO].kind = run[IO].kind
  BY DEF OpaqueKept
<1>7. run'[IO].pc \in {"send_to", "send"} => run'[IO].kind = "op"
  BY DEF OpaqueKept, IInv, OpaqueRight
<1>8. /\ run'[IO].pc \in Writing => run'[IO].opaque <= lastOpaque'[run'[IO].session]
      /\ \A c \in Commands :
           run'[IO].pc \in Writing /\ run'[IO].session = cmd'[c].session
             /\ run'[IO].opaque = cmd'[c].opaque
               => run'[IO].cmd = c /\ run'[IO].kind = "op"
  BY <1>1, <1>6 DEF IInv, OpaqueRight
<1>. QED
  BY <1>3, <1>4, <1>5, <1>7, <1>8 DEF OpaqueRight

\* The same when no request is added and the threads stop or go on as before.
LEMMA QuietIInv ==
  ASSUME IInv,
         cmd' \in [Commands -> CommandRecord],
         \A c \in Commands : Step(c, cmd[c], cmd'[c]),
         subs' \subseteq subs, pending' \subseteq pending, wire' \subseteq wire,
         UNCHANGED <<lastOpaque, sent>>,
         run' \in [Threads -> Frames],
         \A t \in Threads : run'[t] = run[t] \/ FrameRight(run'[t]),
         IoKept, OpaqueKept,
         deferred' \in Seq(Commands), draining' \in Seq(Commands),
         slot' \in Sessions \cup {NoSession}
  PROVE  IInv'
<1>1. /\ lastOpaque' \in [Sessions -> Nat] /\ sent' \in [Commands -> Nat]
      /\ subs' \subseteq Requests /\ pending' \subseteq Requests /\ wire' \subseteq Requests
  BY DEF IInv, Types
<1>2. \A x \in subs' \cup pending' \cup wire' : x \in subs \cup pending \cup wire
  OBVIOUS
<1>3. \A c \in Commands : sent'[c] > 0 => sent[c] > 0
  OBVIOUS
<1>4. \A c \in Commands : Moves(c, cmd[c], cmd'[c])
  BY StepMoves
<1>5. OpaqueRight'
  BY QuietOpaques
<1>. QED
  BY <1>1, <1>2, <1>3, <1>4, <1>5, KeepIInv

\* Nothing happens to a command.
LEMMA SameStep ==
  ASSUME IInv, cmd' = cmd
  PROVE  /\ cmd' \in [Commands -> CommandRecord]
         /\ \A c \in Commands : Step(c, cmd[c], cmd'[c])
BY DEF IInv, Types, CmdRight, Step

LEMMA OneUpdate ==
  ASSUME NEW F \in [Commands -> CommandRecord], \A b \in Commands : Good(b, F[b]),
         NEW c \in Commands, NEW d, Step(c, F[c], d), NEW G, G = [F EXCEPT ![c] = d]
  PROVE  /\ G \in [Commands -> CommandRecord]
         /\ \A b \in Commands : Step(b, F[b], G[b]) /\ Good(b, G[b])
<1>1. d \in CommandRecord
  BY DEF Step
<1>2. \A b \in Commands : b # c => G[b] = F[b] /\ Step(b, F[b], F[b])
  BY DEF Step
<1>3. G[c] = d
  OBVIOUS
<1>4. \A b \in Commands : Step(b, F[b], G[b])
  BY <1>2, <1>3
<1>. QED
  BY <1>1, <1>4 DEF Step

LEMMA OneStep ==
  ASSUME IInv, NEW c \in Commands, NEW d, Step(c, cmd[c], d), cmd' = [cmd EXCEPT ![c] = d]
  PROVE  /\ cmd' \in [Commands -> CommandRecord]
         /\ \A b \in Commands : Step(b, cmd[b], cmd'[b])
BY OneUpdate, Zenon DEF IInv, Types, CmdRight

\* A thread goes on with frame f, which does not start send().
LEMMA FrameUpdate ==
  ASSUME IInv, NEW t \in Threads, NEW f \in Frames, FrameRight(f), f.pc # "send",
         CallerThread \/ t = IO, run' = [run EXCEPT ![t] = f]
  PROVE  /\ run' \in [Threads -> Frames]
         /\ \A u \in Threads : run'[u] = run[u] \/ FrameRight(run'[u])
         /\ IoKept
<1>1. run \in [Threads -> Frames]
  BY DEF IInv, Types
<1>2. run'[t] = f /\ \A u \in Threads : u # t => run'[u] = run[u]
  BY <1>1
<1>. QED
  BY <1>1, <1>2 DEF IoKept

LEMMA FrameSame ==
  ASSUME IInv, run' = run,
         run[IO] = NotRunning \/ \A c \in Commands : cmd'[c].handler = cmd[c].handler
  PROVE  /\ run' \in [Threads -> Frames]
         /\ \A u \in Threads : run'[u] = run[u] \/ FrameRight(run'[u])
         /\ IoKept /\ OpaqueKept
BY DEF IInv, Types, IoKept, OpaqueKept, NotRunning

\* The new frame has nothing to write, or goes on writing.
LEMMA FrameOpaque ==
  ASSUME IInv, NEW t \in Threads, NEW f, run' = [run EXCEPT ![t] = f],
         CallerThread \/ t = IO, run[t].pc # "send",
         \/ f.pc \notin Writing \cup {"send_to", "send"}
         \/ f.pc \in {"send_to", "send"} /\ f.kind = "op"
         \/ run[t].pc \in Writing /\ f = [run[t] EXCEPT !.pc = "subscribe"]
  PROVE  OpaqueKept
<1>1. run \in [Threads -> Frames] /\ run[t] \in Frames
  BY DEF IInv, Types
<1>2. run'[t] = f
  BY <1>1
<1>3. CASE run[t].pc \in Writing /\ f = [run[t] EXCEPT !.pc = "subscribe"]
  <2>1. /\ f.pc = "subscribe" /\ f.session = run[t].session /\ f.opaque = run[t].opaque
        /\ f.cmd = run[t].cmd /\ f.kind = run[t].kind
    BY <1>1, <1>3 DEF Frames
  <2>. QED
    BY <1>2, <1>3, <2>1 DEF OpaqueKept
<1>4. CASE \/ f.pc \notin Writing \cup {"send_to", "send"}
           \/ f.pc \in {"send_to", "send"} /\ f.kind = "op"
  BY <1>2, <1>4 DEF OpaqueKept, Writing
<1>. QED
  BY <1>3, <1>4

\* Only the I/O thread runs when the library is called on it.
LEMMA OnIo ==
  ASSUME IInv, NEW t \in Threads, run[t].pc # "out"
  PROVE  CallerThread \/ t = IO
BY DEF IInv, IoRight, NotRunning

LEMMA Stop ==
  /\ NotRunning \in Frames /\ FrameRight(NotRunning) /\ NotRunning.pc # "send"
  /\ IO \in Threads /\ Closer \in Threads /\ Commands \subseteq Threads
BY DEF NotRunning, Frames, FrameRight, Idle, Early, Late, Kinds, Threads

\* Where a dispatch starts.
LEMMA Starts ==
  ASSUME NEW c \in Commands, NEW s \in Sessions \cup {NoSession},
         NEW pc \in {"check", "map", "send_to", "send", "request_collection_id"},
         pc = "send_to" => s \in Sessions,
         pc = "send" => cmd[c].session \in Sessions,
         pc = "request_collection_id" => Issued(cmd[c])
  PROVE  /\ Dispatch(pc, c, s) \in Frames /\ FrameRight(Dispatch(pc, c, s))
         /\ Dispatch(pc, c, s).pc = pc
BY DEF Dispatch, Frames, FrameRight, Idle, Early, Late, Kinds
-----------------------------------------------------------------------------
(* Timers, the life of a session and close().                              *)

LEMMA TimersIInv ==
  ASSUME IInv, NEW c \in Commands, DeadlineExpires(c) \/ BackoffExpires(c)
  PROVE  IInv'
<1>1. cmd[c] \in CommandRecord /\ Good(c, cmd[c]) /\ cmd \in [Commands -> CommandRecord]
  BY DEF IInv, Types, CmdRight
<1>2. PICK d : /\ cmd' = [cmd EXCEPT ![c] = d]
               /\ \/ d = [cmd[c] EXCEPT !.deadline = "due"] /\ cmd[c].deadline = "armed"
                  \/ d = [cmd[c] EXCEPT !.due = @ \cup {cmd[c].backoff}, !.backoff = "off"]
                     /\ cmd[c].backoff # "off"
  BY <1>1 DEF DeadlineExpires, BackoffExpires, CommandRecord
<1>3. Step(c, cmd[c], d)
  <2>1. CASE d = [cmd[c] EXCEPT !.deadline = "due"] /\ cmd[c].deadline = "armed"
    BY <1>1, <2>1 DEF Step, Good, Reports, Issued, CommandRecord
  <2>2. CASE d = [cmd[c] EXCEPT !.due = @ \cup {cmd[c].backoff}, !.backoff = "off"]
             /\ cmd[c].backoff # "off"
    BY <1>1, <2>2, Zenon DEF Step, Good, Reports, Issued, CommandRecord
  <2>. QED
    BY <1>2, <2>1, <2>2
<1>4. d.handler = cmd[c].handler
  BY <1>1, <1>2, Zenon DEF CommandRecord
<1>5. \A b \in Commands : cmd'[b].handler = cmd[b].handler
  BY <1>1, <1>2, <1>4
<1>6. UNCHANGED <<session_vars, bucket_vars, run, sent>>
  BY DEF DeadlineExpires, BackoffExpires
<1>7. /\ cmd' \in [Commands -> CommandRecord]
      /\ \A b \in Commands : Step(b, cmd[b], cmd'[b])
  BY Zenon, <1>2, <1>3, OneStep
<1>8. /\ run' \in [Threads -> Frames]
      /\ \A u \in Threads : run'[u] = run[u] \/ FrameRight(run'[u])
      /\ IoKept /\ OpaqueKept
  BY <1>5, <1>6, FrameSame
<1>9. /\ subs' = subs /\ pending' = pending /\ wire' = wire
      /\ UNCHANGED <<lastOpaque, sent>>
      /\ deferred' \in Seq(Commands) /\ draining' \in Seq(Commands)
      /\ slot' \in Sessions \cup {NoSession}
  BY <1>6 DEF session_vars, bucket_vars, IInv, Types
<1>. QED
  BY <1>7, <1>8, <1>9, QuietIInv

LEMMA CancelIInv ==
  ASSUME IInv, NEW c \in Commands, Deadline(c) \/ CancelToken(c)
  PROVE  IInv'
<1>1. cmd[c] \in CommandRecord /\ Good(c, cmd[c]) /\ cmd \in [Commands -> CommandRecord]
  BY DEF IInv, Types, CmdRight
<1>2. run[IO] = NotRunning
  BY DEF Deadline, CancelToken, IoFree
<1>3. PICK d, r : /\ \/ d = [cmd[c] EXCEPT !.deadline = "off"]
                     \/ d = [cmd[c] EXCEPT !.token = "fired"]
                  /\ r \in {"request_canceled", CancelResult(c, d)}
                  /\ \/ Cancel(c, d, r)
                     \/ /\ cmd' = [cmd EXCEPT ![c] = d]
                        /\ UNCHANGED <<session_vars, bucket_vars, run, sent>>
  <2>1. CASE Deadline(c)
    <3>. DEFINE d == [cmd[c] EXCEPT !.deadline = "off"]
    <3>1. CancelResult(c, d) = CancelResult(c, cmd[c])
      BY <1>1 DEF CancelResult, CommandRecord
    <3>. QED
      BY <2>1, <3>1 DEF Deadline
  <2>2. CASE CancelToken(c)
    BY <2>2 DEF CancelToken
  <2>. QED
    BY <2>1, <2>2
<1>4. Step(c, cmd[c], d) /\ d \in CommandRecord /\ Good(c, d)
  <2>1. CASE d = [cmd[c] EXCEPT !.deadline = "off"]
    <3>1. /\ d \in CommandRecord /\ d.deadline = "off"
          /\ d.handler = cmd[c].handler /\ d.results = cmd[c].results
          /\ d.opaque = cmd[c].opaque /\ d.session = cmd[c].session
          /\ d.due = cmd[c].due /\ d.backoff = cmd[c].backoff
      BY <1>1, <2>1, Zenon DEF CommandRecord
    <3>2. Good(c, d)
      BY <1>1, <3>1 DEF Good, Reports, Issued
    <3>. QED
      BY <3>1, <3>2 DEF Step
  <2>2. CASE d = [cmd[c] EXCEPT !.token = "fired"]
    <3>1. /\ d \in CommandRecord /\ d.deadline = cmd[c].deadline
          /\ d.handler = cmd[c].handler /\ d.results = cmd[c].results
          /\ d.opaque = cmd[c].opaque /\ d.session = cmd[c].session
          /\ d.due = cmd[c].due /\ d.backoff = cmd[c].backoff
      BY <1>1, <2>2, Zenon DEF CommandRecord
    <3>2. Good(c, d)
      BY <1>1, <3>1 DEF Good, Reports, Issued
    <3>. QED
      BY <3>1, <3>2 DEF Step
  <2>. QED
    BY <1>3, <2>1, <2>2
<1>5. ASSUME NEW e \in CommandRecord, Good(c, e), e.opaque = d.opaque
      PROVE  Step(c, e, invoke_handler(e, r))
  <2>1. "request_canceled" \in Plain
    BY DEF Plain, Results
  <2>2. CancelResult(c, e) = CancelResult(c, d)
    BY <1>5 DEF CancelResult
  <2>. QED
    BY <1>3, <1>5, <2>1, <2>2, InvokePlain, InvokeCancel
<1>. DEFINE F == [cmd EXCEPT ![c] = d]
<1>6. /\ F \in [Commands -> CommandRecord] /\ F[c] = d
      /\ \A b \in Commands : Step(b, cmd[b], F[b]) /\ Good(b, F[b])
  BY <1>1, <1>4, OneUpdate, Zenon DEF IInv, CmdRight
<1>7. UNCHANGED <<lastOpaque, pending, wire, bucket_vars, run, sent>> /\ subs' \subseteq subs
  BY <1>3 DEF Cancel, session_vars
<1>8. /\ cmd' \in [Commands -> CommandRecord]
      /\ \A b \in Commands : Step(b, cmd[b], cmd'[b])
  <2>1. CASE cmd' = F
    BY <1>6, <2>1
  <2>2. CASE cmd' = [F EXCEPT ![c] = invoke_handler(F[c], r)]
    <3>1. Step(c, F[c], invoke_handler(F[c], r))
      BY <1>4, <1>5, <1>6
    <3>. HIDE DEF F
    <3>2. /\ cmd' \in [Commands -> CommandRecord]
          /\ \A b \in Commands : Step(b, F[b], cmd'[b])
      BY <1>6, <2>2, <3>1, OneUpdate
    <3>. QED
      BY <1>6, <3>2 DEF Step
  <2>3. ASSUME NEW x \in subs, x.session = d.session, x.opaque = d.opaque, NEW G,
               G = [F EXCEPT ![x.cmd] = invoke_handler(F[x.cmd], Aborted(x))],
               cmd' = [G EXCEPT ![c] = invoke_handler([G[c] EXCEPT !.handler = FALSE], r)]
        PROVE  /\ cmd' \in [Commands -> CommandRecord]
               /\ \A b \in Commands : Step(b, cmd[b], cmd'[b])
    <3>1. x.cmd \in Commands
      BY DEF IInv, Types, Requests
    <3>2. ~CallerThread => x.kind = "op"
      <4>1. d.session = cmd[c].session /\ d.opaque = cmd[c].opaque
        BY <1>4 DEF Step
      <4>. QED
        BY <1>2, <2>3, <4>1 DEF IInv, OpaqueRight, Sending, NotRunning
    <3>. DEFINE e == invoke_handler(F[x.cmd], Aborted(x))
    <3>3. Step(x.cmd, F[x.cmd], e)
      <4>1. CASE x.kind = "op"
        BY <1>6, <3>1, <4>1, InvokeTimeout DEF Aborted
      <4>2. CASE x.kind # "op"
        <5>1. Aborted(x) = "ambiguous_timeout" /\ "ambiguous_timeout" \in Results
          BY <4>2 DEF Aborted, Results
        <5>. QED
          BY <1>6, <3>1, <3>2, <4>2, <5>1, InvokeStep
      <4>. QED
        BY <4>1, <4>2
    <3>. HIDE DEF F, e
    <3>4. /\ G \in [Commands -> CommandRecord]
          /\ \A b \in Commands : Step(b, F[b], G[b]) /\ Good(b, G[b])
      BY <1>6, <2>3, <3>1, <3>3, OneUpdate, Zenon DEF e
    <3>. DEFINE h == [G[c] EXCEPT !.handler = FALSE]
    <3>5. G[c].opaque = d.opaque
      BY <1>6, <3>4 DEF Step
    <3>6. h \in CommandRecord /\ Good(c, h) /\ Step(c, G[c], h) /\ h.opaque = d.opaque
      BY <3>4, <3>5, Zenon DEF Step, Good, Reports, Issued, CommandRecord
    <3>. HIDE DEF h
    <3>7. Step(c, G[c], invoke_handler(h, r))
      BY <1>5, <3>6 DEF Step
    <3>8. /\ cmd' \in [Commands -> CommandRecord]
          /\ \A b \in Commands : Step(b, G[b], cmd'[b])
      BY <2>3, <3>4, <3>7, OneUpdate, Zenon DEF h
    <3>. QED
      BY <1>6, <3>4, <3>8 DEF Step
  <2>. QED
    BY <1>3, <2>1, <2>2, <2>3, Zenon DEF Cancel
<1>9. /\ run' \in [Threads -> Frames]
      /\ \A u \in Threads : run'[u] = run[u] \/ FrameRight(run'[u])
      /\ IoKept /\ OpaqueKept
  BY <1>2, <1>7, FrameSame
<1>10. /\ deferred' \in Seq(Commands) /\ draining' \in Seq(Commands)
       /\ slot' \in Sessions \cup {NoSession}
  BY <1>7 DEF bucket_vars, IInv, Types
<1>. QED
  BY <1>7, <1>8, <1>9, <1>10, QuietIInv

LEMMA ConfigIInv ==
  ASSUME IInv, NEW s \in Sessions,
         \/ update_configuration(s) \/ Bootstrapped(s) \/ restart_sessions \/ update_config
  PROVE  IInv'
<1>1. /\ UNCHANGED <<cmd, lastOpaque, subs, pending, wire, run, sent>>
      /\ run[IO] = NotRunning
  BY DEF update_configuration, Bootstrapped, restart_sessions, update_config, connect_session, IoFree
<1>2. /\ slot' \in Sessions \cup {NoSession}
      /\ deferred' \in {deferred, <<>>} /\ draining' \in {draining, deferred}
  BY DEF update_configuration, Bootstrapped, restart_sessions, update_config, connect_session,
         Fresh, Unused, bucket_vars, IInv, Types
<1>3. deferred' \in Seq(Commands) /\ draining' \in Seq(Commands)
  <2>1. <<>> \in Seq(Commands) /\ deferred \in Seq(Commands) /\ draining \in Seq(Commands)
    BY DEF IInv, Types
  <2>. QED
    BY Zenon, <1>2, <2>1
<1>4. /\ run' \in [Threads -> Frames]
      /\ \A u \in Threads : run'[u] = run[u] \/ FrameRight(run'[u])
      /\ IoKept /\ OpaqueKept
  BY <1>1, FrameSame
<1>. QED
  BY <1>1, <1>2, <1>3, <1>4, SameStep, QuietIInv

LEMMA DrainIInv ==
  ASSUME IInv, drain_deferred_queue
  PROVE  IInv'
<1>. DEFINE c == Head(draining)
<1>1. c \in Commands /\ Tail(draining) \in Seq(Commands)
  BY DEF drain_deferred_queue, IInv, Types
<1>2. /\ UNCHANGED <<cmd, session_vars, deferred, slot, sent>>
      /\ run[IO].pc = "out"
      /\ draining' = Tail(draining)
      /\ run' = [run EXCEPT ![IO] = Dispatch("map", c, NoSession)]
  BY DEF drain_deferred_queue, NotRunning
<1>. HIDE DEF c
<1>3. /\ Dispatch("map", c, NoSession) \in Frames
      /\ FrameRight(Dispatch("map", c, NoSession))
      /\ Dispatch("map", c, NoSession).pc = "map"
  BY <1>1, Starts
<1>4. /\ run' \in [Threads -> Frames]
      /\ \A u \in Threads : run'[u] = run[u] \/ FrameRight(run'[u])
      /\ IoKept /\ OpaqueKept
  BY <1>2, <1>3, Stop, FrameUpdate, FrameOpaque, Zenon DEF Writing
<1>5. /\ deferred' \in Seq(Commands) /\ draining' \in Seq(Commands)
      /\ slot' \in Sessions \cup {NoSession}
      /\ subs' = subs /\ pending' = pending /\ wire' = wire /\ lastOpaque' = lastOpaque
  BY <1>1, <1>2 DEF IInv, Types, session_vars
<1>. QED
  BY <1>2, <1>4, <1>5, SameStep, QuietIInv

\* Requests that reach the wire were issued.
LEMMA TransmitRight ==
  ASSUME IInv, NEW Q, Q \subseteq Requests, \A x \in Q : Issued(cmd[x.cmd]), Transmit(Q)
  PROVE  /\ wire' \subseteq Requests
         /\ \A x \in wire' : x \in wire \/ Issued(cmd[x.cmd])
         /\ sent' \in [Commands -> Nat]
         /\ \A c \in Commands : sent'[c] > 0 => sent[c] > 0 \/ Issued(cmd[c])
<1>1. wire' = wire \cup Q /\ wire \subseteq Requests /\ sent \in [Commands -> Nat]
  BY DEF Transmit, IInv, Types
<1>2. \A c \in Commands : \/ sent'[c] = sent[c]
                          \/ sent'[c] = sent[c] + 1 /\ \E x \in Q : x.cmd = c
  BY DEF Transmit
<1>3. sent' = [c \in Commands |-> sent'[c]]
  BY DEF Transmit
<1>4. sent' \in [Commands -> Nat]
  BY <1>1, <1>2, <1>3
<1>. QED
  BY <1>1, <1>2, <1>4

LEMMA FinishIInv ==
  ASSUME IInv, FinishBootstrap
  PROVE  IInv'
<1>1. /\ UNCHANGED <<cmd, lastOpaque, subs, slot, deferred, draining, run>>
      /\ run[IO] = NotRunning /\ pending' \subseteq pending
  BY DEF FinishBootstrap
<1>2. /\ run' \in [Threads -> Frames]
      /\ \A u \in Threads : run'[u] = run[u] \/ FrameRight(run'[u])
      /\ IoKept /\ OpaqueKept
  BY <1>1, FrameSame
<1>3. /\ wire' \subseteq Requests
      /\ \A x \in wire' : x \in wire \/ Issued(cmd[x.cmd])
      /\ sent' \in [Commands -> Nat]
      /\ \A c \in Commands : sent'[c] > 0 => sent[c] > 0 \/ Issued(cmd[c])
  <2>. DEFINE Q == {x \in pending : x.session = up}
  <2>1. Q \subseteq Requests /\ \A x \in Q : Issued(cmd[x.cmd])
    BY DEF IInv, Types, IssuedRight
  <2>2. CASE Transmit(Q)
    BY <2>1, <2>2, TransmitRight
  <2>3. CASE UNCHANGED <<wire, sent>>
    BY <2>3 DEF IInv, Types
  <2>. QED
    BY <2>2, <2>3 DEF FinishBootstrap
<1>4. /\ deferred' \in Seq(Commands) /\ draining' \in Seq(Commands)
      /\ slot' \in Sessions \cup {NoSession} /\ lastOpaque' \in [Sessions -> Nat]
      /\ subs' \subseteq Requests /\ pending' \subseteq Requests
  BY <1>1 DEF IInv, Types
<1>5. /\ cmd' \in [Commands -> CommandRecord]
      /\ \A c \in Commands : Moves(c, cmd[c], cmd'[c])
  BY <1>1, SameStep, StepMoves
<1>6. OpaqueRight'
  BY <1>1, <1>2, SameStep, QuietOpaques
<1>. QED
  BY <1>1, <1>2, <1>3, <1>4, <1>5, <1>6, KeepIInv

\* stop() when a session fails, is dropped, or the bucket is closed.
LEMMA StopIInv ==
  ASSUME IInv, NEW s \in Sessions, NEW t \in Threads,
         \/ BootstrapFails(s) \/ Disconnected(s) \/ StopDropped(s) \/ CloseSessions(t)
  PROVE  IInv'
<1>1. \/ \E S, reason, isClosed : StopSessions(S, reason, isClosed, cmd)
      \/ UNCHANGED <<cmd, session_vars, sent>>
  BY Zenon DEF BootstrapFails, Disconnected, StopDropped, CloseSessions
<1>2. /\ cmd' \in [Commands -> CommandRecord]
      /\ \A c \in Commands : Step(c, cmd[c], cmd'[c])
      /\ subs' \subseteq subs /\ pending' \subseteq pending /\ wire' \subseteq wire
      /\ UNCHANGED <<lastOpaque, sent>>
  <2>1. CASE \E S, reason, isClosed : StopSessions(S, reason, isClosed, cmd)
    BY <2>1, StopSteps DEF IInv
  <2>2. CASE UNCHANGED <<cmd, session_vars, sent>>
    BY <2>2, SameStep DEF session_vars
  <2>. QED
    BY <1>1, <2>1, <2>2
<1>3. /\ slot' \in Sessions \cup {NoSession}
      /\ UNCHANGED <<deferred, draining>>
  BY Zenon DEF BootstrapFails, Disconnected, StopDropped, CloseSessions, bucket_vars, IInv, Types
<1>4. deferred' \in Seq(Commands) /\ draining' \in Seq(Commands)
  BY <1>3 DEF IInv, Types
<1>5. /\ run' \in [Threads -> Frames]
      /\ \A u \in Threads : run'[u] = run[u] \/ FrameRight(run'[u])
      /\ IoKept /\ OpaqueKept
  <2>1. CASE StopDropped(s)
    BY <2>1, FrameSame DEF StopDropped, IoFree
  <2>2. CASE CloseSessions(t)
    BY <2>2, Stop, OnIo, FrameUpdate, FrameOpaque, Zenon DEF CloseSessions, NotRunning, Writing
  <2>3. CASE BootstrapFails(s) \/ Disconnected(s)
    <3>. DEFINE f == Dispatch("on_stop", "none", s)
    <3>1. run' = [run EXCEPT ![IO] = f] /\ run[IO].pc = "out"
      BY <2>3 DEF BootstrapFails, Disconnected, IoFree, NotRunning
    <3>2. f \in Frames /\ f.pc = "on_stop"
      BY DEF Dispatch, Frames, Idle, Kinds
    <3>. HIDE DEF f
    <3>3. FrameRight(f)
      BY <3>2 DEF FrameRight, Early, Late
    <3>. QED
      BY <3>1, <3>2, <3>3, Stop, FrameUpdate, FrameOpaque, Zenon DEF Writing
  <2>. QED
    BY <2>1, <2>2, <2>3
<1>. QED
  BY <1>2, <1>3, <1>4, <1>5, QuietIInv

LEMMA RemoveIInv ==
  ASSUME IInv, NEW t \in Threads, remove_session(t)
  PROVE  IInv'
<1>1. /\ UNCHANGED <<cmd, session_vars, deferred, draining, sent>>
      /\ slot' \in {slot, NoSession}
      /\ run' = [run EXCEPT ![t] = NotRunning] /\ run[t].pc = "on_stop"
  BY DEF remove_session
<1>2. /\ run' \in [Threads -> Frames]
      /\ \A u \in Threads : run'[u] = run[u] \/ FrameRight(run'[u])
      /\ IoKept /\ OpaqueKept
  BY <1>1, Stop, OnIo, FrameUpdate, FrameOpaque, Zenon DEF NotRunning, Writing
<1>3. /\ deferred' \in Seq(Commands) /\ draining' \in Seq(Commands)
      /\ slot' \in Sessions \cup {NoSession}
      /\ subs' = subs /\ pending' = pending /\ wire' = wire /\ lastOpaque' = lastOpaque
  BY <1>1 DEF IInv, Types, session_vars
<1>. QED
  BY <1>1, <1>2, <1>3, SameStep, QuietIInv

LEMMA CloseIInv ==
  ASSUME IInv, close
  PROVE  IInv'
<1>. DEFINE t == ThreadOf(Closer)
            f == [run[t] EXCEPT !.pc = "close"]
<1>1. t \in Threads /\ (CallerThread \/ t = IO) /\ run[t] = NotRunning
  BY Stop DEF ThreadOf, close, Free, IoFree
<1>2. run' = [run EXCEPT ![t] = f]
  BY DEF close
<1>3. f \in Frames /\ FrameRight(f) /\ f.pc = "close" /\ run[t].pc = "out"
  BY <1>1 DEF NotRunning, Frames, FrameRight, Idle, Early, Late, Kinds
<1>4. /\ run' \in [Threads -> Frames]
      /\ \A u \in Threads : run'[u] = run[u] \/ FrameRight(run'[u])
      /\ IoKept /\ OpaqueKept
  <2>. HIDE DEF f, t
  <2>. QED
    BY <1>1, <1>2, <1>3, FrameUpdate, FrameOpaque, Zenon DEF Writing
<1>5. ASSUME NEW c \in Commands
      PROVE  Step(c, cmd[c], cmd'[c])
  <2>1. cmd[c] \in CommandRecord /\ Good(c, cmd[c])
    BY DEF IInv, Types, CmdRight
  <2>2. cmd'[c] \in {cmd[c], invoke_handler(cmd[c], CancelResult(c, cmd[c]))}
    BY DEF close
  <2>. QED
    BY <2>1, <2>2, InvokeCancel DEF Step
<1>6. cmd' = [c \in Commands |-> cmd'[c]]
  BY DEF close
<1>7. cmd' \in [Commands -> CommandRecord]
  BY <1>5, <1>6 DEF Step
<1>8. UNCHANGED <<session_vars, slot, draining, sent>> /\ deferred' = <<>>
  BY DEF close
<1>9. /\ deferred' \in Seq(Commands) /\ draining' \in Seq(Commands)
      /\ slot' \in Sessions \cup {NoSession}
      /\ subs' = subs /\ pending' = pending /\ wire' = wire /\ lastOpaque' = lastOpaque
  BY <1>8 DEF IInv, Types, session_vars
<1>. QED
  BY <1>4, <1>5, <1>7, <1>8, <1>9, QuietIInv
-----------------------------------------------------------------------------
(* The dispatch of a command.                                               *)

LEMMA ExecuteIInv ==
  ASSUME IInv, NEW c \in Commands, execute(c)
  PROVE  IInv'
<1>. DEFINE t == ThreadOf(c)
            d == [cmd[c] EXCEPT !.handler = TRUE, !.deadline = "armed"]
<1>1. cmd[c] \in CommandRecord /\ Good(c, cmd[c]) /\ cmd \in [Commands -> CommandRecord]
  BY DEF IInv, Types, CmdRight
<1>2. /\ UNCHANGED <<session_vars, bucket_vars, sent>>
      /\ cmd[c].deadline = "none"
  BY DEF execute
<1>3. /\ deferred' \in Seq(Commands) /\ draining' \in Seq(Commands)
      /\ slot' \in Sessions \cup {NoSession}
      /\ subs' = subs /\ pending' = pending /\ wire' = wire
      /\ UNCHANGED <<lastOpaque, sent>>
  BY <1>2 DEF session_vars, bucket_vars, IInv, Types
<1>4. CASE closed
  <2>. DEFINE e == [cmd[c] EXCEPT !.deadline = "off"]
  <2>1. cmd' = [cmd EXCEPT ![c] = e] /\ run' = run
    BY <1>4 DEF execute
  <2>2. Step(c, cmd[c], e)
    BY <1>1, <1>2, Zenon DEF Step, Good, Reports, Issued, CommandRecord
  <2>3. e.handler = cmd[c].handler
    BY <1>1 DEF CommandRecord
  <2>4. \A b \in Commands : cmd'[b].handler = cmd[b].handler
    BY <1>1, <2>1, <2>3
  <2>. HIDE DEF e
  <2>. QED
    BY Zenon, <1>3, <2>1, <2>2, <2>4, OneStep, FrameSame, QuietIInv
<1>5. CASE ~closed
  <2>1. d \in CommandRecord /\ Good(c, d) /\ Step(c, cmd[c], d)
    BY <1>1, <1>2, Zenon DEF Step, Good, Reports, Issued, CommandRecord
  <2>2. PICK e : /\ cmd' = [cmd EXCEPT ![c] = e]
                 /\ e \in {invoke_handler(d, "request_canceled"), [d EXCEPT !.token = "set"]}
    BY <1>5 DEF execute
  <2>3. run' = [run EXCEPT ![t] = Dispatch("check", c, NoSession)]
    BY <1>5 DEF execute
  <2>. HIDE DEF d
  <2>4. Step(c, d, [d EXCEPT !.token = "set"])
    BY <2>1 DEF Step, Good, Reports, Issued, CommandRecord
  <2>5. Step(c, d, invoke_handler(d, "request_canceled"))
    <3>1. "request_canceled" \in Plain
      BY DEF Plain, Results
    <3>. QED
      BY <2>1, <3>1, InvokePlain
  <2>6. Step(c, cmd[c], e)
    BY <2>1, <2>2, <2>4, <2>5, Zenon DEF Step
  <2>7. t \in Threads /\ (CallerThread \/ t = IO) /\ run[t].pc = "out"
    BY Stop DEF ThreadOf, execute, Free, IoFree, NotRunning
  <2>8. /\ Dispatch("check", c, NoSession) \in Frames
        /\ FrameRight(Dispatch("check", c, NoSession))
        /\ Dispatch("check", c, NoSession).pc = "check"
    BY Starts
  <2>. HIDE DEF t
  <2>9. /\ run' \in [Threads -> Frames]
        /\ \A u \in Threads : run'[u] = run[u] \/ FrameRight(run'[u])
        /\ IoKept /\ OpaqueKept
    BY <2>3, <2>7, <2>8, FrameUpdate, FrameOpaque, Zenon DEF Writing
  <2>. QED
    BY Zenon, <1>3, <2>2, <2>6, <2>9, OneStep, QuietIInv
<1>. QED
  BY <1>4, <1>5

\* A thread in the middle of a dispatch: its command, and its next frame.
LEMMA Dispatching ==
  ASSUME IInv, NEW t \in Threads, run[t].pc \in Early \cup Late
  PROVE  /\ CallerThread \/ t = IO
         /\ run[t] \in Frames /\ FrameRight(run[t])
         /\ run[t].cmd \in Commands
         /\ cmd[run[t].cmd] \in CommandRecord /\ Good(run[t].cmd, cmd[run[t].cmd])
<1>1. CallerThread \/ t = IO
  BY OnIo DEF Early, Late
<1>2. run[t] \in Frames /\ FrameRight(run[t])
  BY DEF IInv, Types, RunRight
<1>3. run[t].cmd \in Commands
  BY <1>2 DEF FrameRight
<1>. QED
  BY <1>1, <1>2, <1>3 DEF IInv, Types, CmdRight

\* The dispatch goes on at pc.
LEMMA NextFrame ==
  ASSUME NEW f \in Frames, FrameRight(f), f.pc \in Early \cup Late,
         NEW pc \in {"map", "defer", "subscribe", "flush"},
         pc \in {"subscribe", "flush"} => f.pc \in {"write", "subscribe", "flush"}
  PROVE  /\ [f EXCEPT !.pc = pc] \in Frames
         /\ FrameRight([f EXCEPT !.pc = pc])
         /\ [f EXCEPT !.pc = pc].pc # "send"
<1>. DEFINE g == [f EXCEPT !.pc = pc]
<1>1. g \in Frames /\ g.pc = pc /\ g.cmd = f.cmd /\ g.session = f.session
  BY DEF Frames, Idle, Early, Late
<1>. HIDE DEF g
<1>2. FrameRight(g)
  BY <1>1 DEF FrameRight, Early, Late
<1>. QED
  BY <1>1, <1>2 DEF g

LEMMA CheckIInv ==
  ASSUME IInv, NEW t \in Threads, Check(t) \/ defer_command(t)
  PROVE  IInv'
<1>1. run[t].pc \in {"check", "defer"}
  BY DEF Check, defer_command
<1>2. /\ CallerThread \/ t = IO
      /\ run[t] \in Frames /\ FrameRight(run[t])
      /\ run[t].cmd \in Commands
  BY <1>1, Dispatching DEF Early
<1>3. PICK f : /\ run' = [run EXCEPT ![t] = f]
               /\ f \in {NotRunning, [run[t] EXCEPT !.pc = "map"], [run[t] EXCEPT !.pc = "defer"]}
  BY DEF Check, defer_command
<1>4. f \in Frames /\ FrameRight(f) /\ f.pc \in {"out", "map", "defer"}
  <2>1. f.pc \in {"out", "map", "defer"}
    BY <1>2, <1>3 DEF NotRunning, Frames
  <2>. QED
    BY <1>1, <1>2, <1>3, <2>1, NextFrame, Stop, Zenon DEF Early
<1>5. /\ run' \in [Threads -> Frames]
      /\ \A u \in Threads : run'[u] = run[u] \/ FrameRight(run'[u])
      /\ IoKept /\ OpaqueKept
  BY <1>1, <1>2, <1>3, <1>4, FrameUpdate, FrameOpaque, Zenon DEF Writing
<1>6. /\ UNCHANGED <<cmd, session_vars, slot, draining, sent>>
      /\ deferred' \in {deferred, Append(deferred, run[t].cmd)}
  BY DEF Check, defer_command, bucket_vars
<1>7. /\ deferred' \in Seq(Commands) /\ draining' \in Seq(Commands)
      /\ slot' \in Sessions \cup {NoSession}
      /\ subs' = subs /\ pending' = pending /\ wire' = wire
      /\ UNCHANGED <<lastOpaque, sent>>
  <2>1. deferred \in Seq(Commands) /\ Append(deferred, run[t].cmd) \in Seq(Commands)
    BY <1>2 DEF IInv, Types
  <2>. QED
    BY <1>6, <2>1, Zenon DEF IInv, Types, session_vars
<1>. QED
  BY <1>5, <1>6, <1>7, SameStep, QuietIInv

LEMMA MapIInv ==
  ASSUME IInv, NEW t \in Threads, map_and_send(t)
  PROVE  IInv'
<1>. DEFINE c == run[t].cmd
<1>1. run[t].pc = "map"
  BY DEF map_and_send
<1>2. /\ CallerThread \/ t = IO
      /\ run[t] \in Frames /\ FrameRight(run[t]) /\ c \in Commands
      /\ cmd[c] \in CommandRecord /\ Good(c, cmd[c])
  BY <1>1, Dispatching DEF Early
<1>3. PICK d : /\ cmd' = [cmd EXCEPT ![c] = d]
               /\ d \in {cmd[c], invoke_handler(cmd[c], CancelResult(c, cmd[c])),
                         maybe_retry(c, cmd[c], "node_not_available", "request_canceled", closed)}
  <2>1. cmd \in [Commands -> CommandRecord]
    BY DEF IInv, Types
  <2>2. cmd = [cmd EXCEPT ![c] = cmd[c]]
    BY <2>1
  <2>. QED
    BY <2>2 DEF map_and_send
<1>4. PICK f : /\ run' = [run EXCEPT ![t] = f]
               /\ \/ f = NotRunning \/ f = [run[t] EXCEPT !.pc = "defer"]
                  \/ f = Dispatch("send_to", c, slot) /\ slot # NoSession
  BY DEF map_and_send
<1>5. /\ UNCHANGED <<lastOpaque, subs, pending, wire, deferred, draining, sent>>
      /\ slot' \in Sessions \cup {NoSession}
  BY DEF map_and_send, connect_session, Fresh, Unused, IInv, Types
<1>. HIDE DEF c
<1>6. Step(c, cmd[c], d)
  <2>1. "request_canceled" \in Plain
    BY DEF Plain, Results
  <2>2. Step(c, cmd[c], maybe_retry(c, cmd[c], "node_not_available", "request_canceled", closed))
    BY <1>2, <2>1, MaybeRetryStep
  <2>3. Step(c, cmd[c], cmd[c])
    BY <1>2 DEF Step
  <2>. QED
    BY <1>2, <1>3, <2>2, <2>3, InvokeCancel
<1>7. /\ f \in Frames /\ FrameRight(f)
      /\ f.pc \in {"out", "defer"} \/ (f.pc = "send_to" /\ f.kind = "op")
  <2>1. CASE f = Dispatch("send_to", c, slot) /\ slot # NoSession
    <3>1. slot \in Sessions
      BY <2>1 DEF IInv, Types
    <3>2. /\ Dispatch("send_to", c, slot) \in Frames /\ FrameRight(Dispatch("send_to", c, slot))
          /\ Dispatch("send_to", c, slot).pc = "send_to"
      BY <1>2, <3>1, Starts
    <3>. QED
      BY <2>1, <3>2 DEF Dispatch
  <2>2. CASE f = [run[t] EXCEPT !.pc = "defer"]
    <3>1. f.pc = "defer"
      BY <1>2, <2>2 DEF Frames
    <3>. QED
      BY <1>1, <1>2, <2>2, <3>1, NextFrame, Zenon DEF Early
  <2>3. CASE f = NotRunning
    BY <2>3, Stop DEF NotRunning
  <2>. QED
    BY <1>4, <2>1, <2>2, <2>3
<1>8. /\ run' \in [Threads -> Frames]
      /\ \A u \in Threads : run'[u] = run[u] \/ FrameRight(run'[u])
      /\ IoKept /\ OpaqueKept
  BY <1>1, <1>2, <1>4, <1>7, FrameUpdate, FrameOpaque, Zenon DEF Writing
<1>9. deferred' \in Seq(Commands) /\ draining' \in Seq(Commands)
  BY <1>5 DEF IInv, Types
<1>. QED
  BY Zenon, <1>2, <1>3, <1>5, <1>6, <1>8, <1>9, OneStep, QuietIInv

\* A command changes in another way than by a callback.
LEMMA OneMove ==
  ASSUME IInv, NEW c \in Commands, NEW d, Moves(c, cmd[c], d), cmd' = [cmd EXCEPT ![c] = d]
  PROVE  /\ cmd' \in [Commands -> CommandRecord]
         /\ \A b \in Commands : Moves(b, cmd[b], cmd'[b])
         /\ cmd'[c] = d
<1>1. cmd \in [Commands -> CommandRecord] /\ d \in CommandRecord
  BY DEF IInv, Types, Moves
<1>2. \A b \in Commands : b # c => cmd'[b] = cmd[b] /\ Moves(b, cmd[b], cmd[b])
  BY <1>1 DEF IInv, CmdRight, Moves
<1>3. cmd'[c] = d
  BY <1>1
<1>. QED
  BY <1>1, <1>2, <1>3

\* The part of KeepIInv that is about requests, when none is added.
LEMMA SameRequests ==
  ASSUME IInv, UNCHANGED <<subs, pending, wire, sent>>
  PROVE  /\ subs' \subseteq Requests /\ pending' \subseteq Requests /\ wire' \subseteq Requests
         /\ \A x \in subs' \cup pending' \cup wire' :
              x \in subs \cup pending \cup wire \/ Issued(cmd[x.cmd])
         /\ sent' \in [Commands -> Nat]
         /\ \A c \in Commands : sent'[c] > 0 => sent[c] > 0 \/ Issued(cmd[c])
BY DEF IInv, Types

LEMMA SameBucket ==
  ASSUME IInv, UNCHANGED bucket_vars
  PROVE  /\ deferred' \in Seq(Commands) /\ draining' \in Seq(Commands)
         /\ slot' \in Sessions \cup {NoSession}
BY DEF IInv, Types, bucket_vars

LEMMA SendToIInv ==
  ASSUME IInv, NEW t \in Threads, send_to(t)
  PROVE  IInv'
<1>. DEFINE c == run[t].cmd
            s == run[t].session
            d == [cmd[c] EXCEPT !.session = s]
            f == [run[t] EXCEPT !.pc = "send"]
<1>1. run[t].pc = "send_to" /\ UNCHANGED <<session_vars, bucket_vars, sent>>
  BY DEF send_to
<1>2. /\ CallerThread \/ t = IO
      /\ run[t] \in Frames /\ FrameRight(run[t]) /\ c \in Commands
      /\ cmd[c] \in CommandRecord /\ Good(c, cmd[c])
  BY <1>1, Dispatching DEF Early
<1>3. s \in Sessions
  BY <1>1, <1>2 DEF FrameRight
<1>4. UNCHANGED <<lastOpaque, subs, pending, wire>>
  BY <1>1 DEF session_vars
<1>5. CASE cmd' = cmd /\ run' = [run EXCEPT ![t] = NotRunning]
  <2>1. /\ run' \in [Threads -> Frames]
        /\ \A u \in Threads : run'[u] = run[u] \/ FrameRight(run'[u])
        /\ IoKept /\ OpaqueKept
    BY <1>1, <1>2, <1>5, Stop, FrameUpdate, FrameOpaque, Zenon DEF Writing, NotRunning
  <2>. QED
    BY <1>1, <1>4, <1>5, <2>1, SameStep, SameBucket, QuietIInv
<1>6. CASE cmd[c].handler /\ cmd' = [cmd EXCEPT ![c] = d] /\ run' = [run EXCEPT ![t] = f]
  <2>1. Moves(c, cmd[c], d) /\ d.handler /\ d.session \in Sessions
    BY <1>2, <1>3, <1>6 DEF Moves, Good, Reports, Issued, CommandRecord
  <2>2. f \in Frames /\ f.pc = "send" /\ f.cmd = c /\ f.kind = run[t].kind
    BY <1>2 DEF Frames, Early
  <2>3. run \in [Threads -> Frames] /\ lastOpaque \in [Sessions -> Nat]
    BY DEF IInv, Types
  <2>. HIDE DEF c, d, f, s
  <2>4. /\ cmd' \in [Commands -> CommandRecord] /\ cmd'[c] = d
        /\ \A b \in Commands : Moves(b, cmd[b], cmd'[b])
    BY Zenon, <1>2, <1>6, <2>1, OneMove
  <2>5. run'[t] = f /\ \A u \in Threads : u # t => run'[u] = run[u]
    BY <1>6, <2>3
  <2>6. FrameRight(run[t])'
    BY <1>2, <2>1, <2>2, <2>4, <2>5 DEF FrameRight, Early, Late
  <2>7. IoKept
    BY <1>2, <2>1, <2>2, <2>4, <2>5 DEF IoKept
  <2>8. run' \in [Threads -> Frames]
    BY <1>6, <2>2, <2>3
  <2>9. \A u \in Threads : run'[u] = run[u] \/ FrameRight(run'[u]) \/ FrameRight(run[u])'
    BY <2>5, <2>6
  <2>10. lastOpaque' \in [Sessions -> Nat]
    BY <1>4, <2>3
  <2>11. OpaqueRight'
    <3>. SUFFICES ASSUME ~CallerThread
                  PROVE  OpaqueRight'
      BY DEF OpaqueRight
    <3>1. t = IO /\ run'[IO] = f /\ f.kind = "op"
      BY <1>1, <1>2, <2>2, <2>5 DEF IInv, OpaqueRight
    <3>2. \A b \in Commands : ~Sending(b)' => b # c
      BY <2>2, <3>1 DEF Sending
    <3>3. \A b \in Commands : ~Sending(b)
      BY <1>1, <3>1 DEF Sending
    <3>4. \A b \in Commands : b # c => cmd'[b] = cmd[b]
      BY <1>2, <1>6 DEF IInv, Types
    <3>5. subs' = subs /\ lastOpaque' = lastOpaque
      BY <1>4
    <3>6. OpaqueRight
      BY DEF IInv
    <3>7. /\ \A x \in subs' : x.opaque <= lastOpaque'[x.session]
          /\ \A b \in Commands \ {c} :
               cmd'[b].session \in Sessions => cmd'[b].opaque <= lastOpaque'[cmd'[b].session]
      BY <3>3, <3>4, <3>5, <3>6 DEF OpaqueRight
    <3>8. \A b \in Commands \ {c}, x \in subs' :
            x.session = cmd'[b].session /\ x.opaque = cmd'[b].opaque
              => x.cmd = b /\ x.kind = "op"
      BY <3>3, <3>4, <3>5, <3>6 DEF OpaqueRight
    <3>9. run'[IO].pc = "send" /\ run'[IO].kind = "op"
      BY <2>2, <3>1
    <3>. QED
      BY <3>2, <3>7, <3>8, <3>9 DEF OpaqueRight, Writing
  <2>. QED
    BY <1>1, <1>4, <2>4, <2>7, <2>8, <2>9, <2>10, <2>11, SameRequests, SameBucket, KeepIInv
<1>. QED
  BY <1>5, <1>6 DEF send_to

\* send() is the only place where opaque_ is set: somebody waits for the
\* command, or it had an opaque already.
LEMMA SendIInv ==
  ASSUME IInv, NEW t \in Threads, send(t)
  PROVE  IInv'
<1>. DEFINE c == run[t].cmd
            s == cmd[c].session
            o == lastOpaque[s] + 1
<1>1. run[t].pc = "send" /\ UNCHANGED <<subs, pending, wire, bucket_vars, sent>>
  BY Zenon DEF send
<1>2. /\ CallerThread \/ t = IO
      /\ run[t] \in Frames /\ FrameRight(run[t]) /\ c \in Commands
      /\ cmd[c] \in CommandRecord /\ Good(c, cmd[c])
  BY <1>1, Dispatching DEF Early
<1>3. s \in Sessions /\ lastOpaque \in [Sessions -> Nat] /\ run \in [Threads -> Frames]
  BY <1>1, <1>2 DEF FrameRight, IInv, Types
<1>4. o \in Nat /\ o > 0
  <2>1. lastOpaque[s] \in Nat
    BY <1>3
  <2>2. \A n \in Nat : n + 1 \in Nat /\ n + 1 > 0
    OBVIOUS
  <2>. QED
    BY <2>1, <2>2
<1>5. lastOpaque' \in [Sessions -> Nat]
  <2>1. lastOpaque' = [lastOpaque EXCEPT ![s] = o]
    BY Zenon DEF send
  <2>. QED
    BY <1>3, <1>4, <2>1
<1>6. ~CallerThread => cmd[c].handler \/ cmd[c].opaque > 0
  BY <1>1, <1>2 DEF IInv, IoRight
<1>7. ~CallerThread /\ c \notin Idempotent => ~Reports(cmd[c], "unambiguous_timeout")
  <2>1. cmd[c].handler => ~Reports(cmd[c], "unambiguous_timeout")
    <3>1. cmd[c].handler => Len(cmd[c].results) = 0
      BY <1>2 DEF Good
    <3>. QED
      BY <3>1 DEF Reports
  <2>2. cmd[c].opaque \in Nat
    BY <1>2 DEF CommandRecord
  <2>. QED
    <3>1. /\ ~CallerThread /\ c \notin Idempotent
          /\ Reports(cmd[c], "unambiguous_timeout")
          => cmd[c].opaque = 0
      BY <1>2 DEF Good
    <3>2. cmd[c].opaque > 0 => cmd[c].opaque # 0
      BY <2>2
    <3>. QED
      BY <1>6, <2>1, <3>1, <3>2
<1>8. PICK e, d, f :
        /\ \/ e = [cmd[c] EXCEPT !.opaque = o]
           \/ \E k \in BOOLEAN : e = [cmd[c] EXCEPT !.opaque = o, !.resolved = k]
        /\ cmd' = [cmd EXCEPT ![c] = d] /\ run' = [run EXCEPT ![t] = f]
        /\ \/ /\ d = e
              /\ \E pc \in {"write", "request_collection_id"} :
                   f = [run[t] EXCEPT !.pc = pc, !.session = s, !.opaque = o]
           \/ d = invoke_handler(e, "error") /\ f = NotRunning
  <2>. DEFINE k == cmd[c].resolved \/ s \in cached
              pc == IF k THEN "write" ELSE "request_collection_id"
  <2>1. k \in BOOLEAN /\ pc \in {"write", "request_collection_id"}
    BY <1>2 DEF CommandRecord
  <2>2. \/ /\ cmd' = [cmd EXCEPT ![c] = [cmd[c] EXCEPT !.opaque = o, !.resolved = k]]
           /\ run' = [run EXCEPT ![t] = [run[t] EXCEPT !.pc = pc, !.session = s, !.opaque = o]]
        \/ /\ cmd' = [cmd EXCEPT ![c] = invoke_handler([cmd[c] EXCEPT !.opaque = o], "error")]
           /\ run' = [run EXCEPT ![t] = NotRunning]
    BY Zenon DEF send
  <2>. HIDE DEF k, pc, c, s, o
  <2>. QED
    BY Zenon, <2>1, <2>2
<1>. HIDE DEF c, s, o
<1>9. e \in CommandRecord /\ Good(c, e) /\ e.opaque > 0 /\ e.session = cmd[c].session
  BY <1>2, <1>3, <1>4, <1>7, <1>8, Zenon DEF Good, Reports, Issued, CommandRecord, s
<1>10. Step(c, e, d)
  <2>1. "error" \in Plain
    BY DEF Plain, Results
  <2>2. Step(c, e, e)
    BY <1>9 DEF Step
  <2>. QED
    BY Zenon, <1>2, <1>8, <1>9, <2>1, <2>2, InvokePlain
<1>11. Moves(c, cmd[c], d) /\ Issued(d)
  BY <1>3, <1>9, <1>10 DEF Step, Moves, Issued, s
<1>12. /\ cmd' \in [Commands -> CommandRecord] /\ cmd'[c] = d
       /\ \A b \in Commands : Moves(b, cmd[b], cmd'[b])
  BY Zenon, <1>2, <1>8, <1>11, OneMove
<1>13. f \in Frames /\ f.pc # "send" /\ (f = NotRunning \/ (f.cmd = c /\ f.session \in Sessions))
  <2>1. CASE f = NotRunning
    BY <2>1, Stop
  <2>2. ASSUME NEW pc \in {"write", "request_collection_id"},
               f = [run[t] EXCEPT !.pc = pc, !.session = s, !.opaque = o]
        PROVE  f \in Frames /\ f.pc # "send" /\ f.cmd = c /\ f.session \in Sessions
    <3>1. f.pc = pc /\ f.session = s /\ f.cmd = run[t].cmd
      BY <1>2, <2>2 DEF Frames
    <3>2. f \in Frames
      BY <1>2, <1>3, <1>4, <2>2, Zenon DEF Frames, Late
    <3>. QED
      BY <1>3, <3>1, <3>2 DEF c
  <2>. QED
    BY Zenon, <1>8, <2>1, <2>2
<1>14. run'[t] = f /\ \A u \in Threads : u # t => run'[u] = run[u]
  BY Zenon, <1>3, <1>8
<1>15. run'[t] = f /\ FrameRight(run[t])'
  <2>1. CASE f = NotRunning
    BY <2>1, <1>14 DEF FrameRight, NotRunning, Early, Late
  <2>2. CASE f # NotRunning
    BY <2>2, <1>2, <1>11, <1>12, <1>13, <1>14 DEF FrameRight
  <2>. QED
    BY <2>1, <2>2, <1>14
<1>16. IoKept
  BY <1>2, <1>13, <1>14 DEF IoKept
<1>17. run' \in [Threads -> Frames]
  BY Zenon, <1>3, <1>8, <1>13
<1>18. \A u \in Threads : run'[u] = run[u] \/ FrameRight(run'[u]) \/ FrameRight(run[u])'
  BY <1>14, <1>15
<1>19. OpaqueRight'
  <2>. SUFFICES ASSUME ~CallerThread
                PROVE  OpaqueRight'
    BY DEF OpaqueRight
  <2>1. t = IO /\ run[IO].kind = "op" /\ run'[IO] = f
    BY <1>1, <1>2, <1>14 DEF IInv, OpaqueRight
  <2>2. \A b \in Commands : b # c => ~Sending(b) /\ cmd'[b] = cmd[b]
    BY <1>2, <1>8, <2>1, Zenon DEF Sending, IInv, Types, c
  <2>3. d.opaque = o /\ d.session = s
    BY <1>2, <1>3, <1>4, <1>8, <1>9, <1>10, Zenon DEF Step, CommandRecord, s
  <2>4. /\ f.pc \notin {"send_to", "send", "subscribe"}
        /\ f.pc = "write" => f.session = s /\ f.opaque = o /\ f.cmd = c /\ f.kind = "op"
    <3>1. CASE f = NotRunning
      BY <3>1 DEF NotRunning
    <3>2. ASSUME NEW pc \in {"write", "request_collection_id"},
                 f = [run[t] EXCEPT !.pc = pc, !.session = s, !.opaque = o]
          PROVE  /\ f.pc = pc /\ f.session = s /\ f.opaque = o
                 /\ f.cmd = run[t].cmd /\ f.kind = run[t].kind
      <4>1. run[t] \in Frames
        BY DEF IInv, Types
      <4>. QED
        BY <3>2, <4>1 DEF Frames
    <3>. QED
      BY <1>8, <2>1, <3>1, <3>2, Zenon DEF c
  <2>5. /\ lastOpaque'[s] = o /\ lastOpaque[s] < o
        /\ \A q \in Sessions : lastOpaque[q] <= lastOpaque'[q]
        /\ \A q \in Sessions : lastOpaque[q] \in Nat /\ lastOpaque'[q] \in Nat
    <3>1. lastOpaque' = [lastOpaque EXCEPT ![s] = o]
      BY Zenon DEF send, s, o, c
    <3>2. lastOpaque[s] \in Nat /\ o = lastOpaque[s] + 1
      BY <1>3 DEF o
    <3>. QED
      BY <1>3, <3>1, <3>2
  <2>6. \A x \in subs : x.session \in Sessions /\ x.opaque \in Nat
    BY DEF IInv, Types, Requests
  <2>7. \A b \in Commands : cmd[b].opaque \in Nat
    BY DEF IInv, Types, CommandRecord
  <2>8. \A x \in subs : x.opaque <= lastOpaque[x.session]
    BY DEF IInv, OpaqueRight
  <2>9. \A b \in Commands : b # c /\ cmd[b].session \in Sessions
                              => cmd[b].opaque <= lastOpaque[cmd[b].session]
    BY <2>2 DEF IInv, OpaqueRight
  <2>10. \A x \in subs' : x.opaque <= lastOpaque'[x.session]
    <3>1. ASSUME NEW q \in Sessions, NEW n \in Nat, n <= lastOpaque[q]
          PROVE  n <= lastOpaque'[q]
      <4>1. lastOpaque[q] \in Nat /\ lastOpaque'[q] \in Nat /\ lastOpaque[q] <= lastOpaque'[q]
        BY <2>5
      <4>. QED
        BY <3>1, <4>1
    <3>. QED
      BY <1>1, <2>6, <2>8, <3>1
  <2>11. \A b \in Commands : cmd'[b].session \in Sessions
                               => cmd'[b].opaque <= lastOpaque'[cmd'[b].session]
    <3>1. ASSUME NEW b \in Commands, b # c, cmd[b].session \in Sessions
          PROVE  cmd'[b].opaque <= lastOpaque'[cmd'[b].session]
      BY <2>2, <2>5, <2>7, <2>9, <3>1
    <3>2. cmd'[c].opaque <= lastOpaque'[cmd'[c].session]
      BY <1>4, <1>12, <2>3, <2>5
    <3>. QED
      BY <2>2, <3>1, <3>2
  <2>12. ASSUME NEW b \in Commands, NEW x \in subs',
                x.session = cmd'[b].session, x.opaque = cmd'[b].opaque
         PROVE  x.cmd = b /\ x.kind = "op"
    <3>1. CASE b = c
      BY <1>1, <1>4, <1>12, <2>3, <2>5, <2>6, <2>8, <2>12, <3>1
    <3>2. CASE b # c
      <4>1. /\ x \in subs /\ ~Sending(b)
            /\ x.session = cmd[b].session /\ x.opaque = cmd[b].opaque
        BY <1>1, <2>2, <2>12, <3>2
      <4>2. OpaqueRight
        BY DEF IInv
      <4>. QED
        BY <4>1, <4>2 DEF OpaqueRight
    <3>. QED
      BY <3>1, <3>2
  <2>13. ASSUME NEW b \in Commands, f.pc = "write",
                f.session = cmd'[b].session, f.opaque = cmd'[b].opaque
         PROVE  f.cmd = b /\ f.kind = "op"
    <3>1. CASE b = c
      BY <2>4, <2>13, <3>1
    <3>2. CASE b # c
      <4>1. cmd[b].session = s /\ cmd[b].opaque = o
        BY <2>2, <2>4, <2>13, <3>2
      <4>2. cmd[b].opaque <= lastOpaque[s]
        BY <1>3, <2>9, <3>2, <4>1
      <4>3. lastOpaque[s] \in Nat /\ lastOpaque[s] < o /\ cmd[b].opaque \in Nat
        BY <1>3, <2>5, <2>7
      <4>. QED
        BY <4>1, <4>2, <4>3
    <3>. QED
      BY <3>1, <3>2
  <2>14. f.pc \in Writing => f.pc = "write" /\ f.opaque <= lastOpaque'[f.session]
    <3>1. o \in Nat /\ o <= lastOpaque'[s]
      BY <1>4, <2>5
    <3>. QED
      BY <2>4, <3>1 DEF Writing
  <2>. QED
    BY <2>1, <2>4, <2>10, <2>11, <2>12, <2>13, <2>14 DEF OpaqueRight
<1>. QED
  BY <1>1, <1>5, <1>12, <1>16, <1>17, <1>18, <1>19, SameRequests, SameBucket, KeepIInv

LEMMA RequestIdIInv ==
  ASSUME IInv, NEW t \in Threads, request_collection_id(t)
  PROVE  IInv'
<1>. DEFINE c == run[t].cmd
            s == cmd[c].session
            o == lastOpaque[s] + 1
<1>1. /\ run[t].pc = "request_collection_id"
      /\ UNCHANGED <<cmd, subs, pending, wire, bucket_vars, sent>>
  BY DEF request_collection_id
<1>2. /\ CallerThread \/ t = IO
      /\ FrameRight(run[t]) /\ c \in Commands
  BY <1>1, Dispatching DEF Late
<1>3. Issued(cmd[c]) /\ s \in Sessions /\ lastOpaque \in [Sessions -> Nat]
  BY <1>1, <1>2 DEF FrameRight, Late, Issued, IInv, Types
<1>4. o \in Nat
  BY <1>3
<1>5. PICK f : /\ run' = [run EXCEPT ![t] = f]
               /\ \/ f = Dispatch("map", c, NoSession) /\ lastOpaque' = lastOpaque
                  \/ /\ f = [Dispatch("write", c, s) EXCEPT !.kind = "lookup", !.opaque = o]
                     /\ lastOpaque' = [lastOpaque EXCEPT ![s] = o]
  BY Zenon DEF request_collection_id
<1>. HIDE DEF c, s, o
<1>6. f \in Frames /\ FrameRight(f) /\ f.pc # "send"
  <2>1. CASE f = Dispatch("map", c, NoSession)
    BY <1>2, <2>1, Starts
  <2>2. CASE f = [Dispatch("write", c, s) EXCEPT !.kind = "lookup", !.opaque = o]
    <3>1. f = [pc |-> "write", cmd |-> c, session |-> s, kind |-> "lookup", opaque |-> o]
      BY <2>2, Zenon DEF Dispatch
    <3>2. f \in Frames /\ f.pc = "write" /\ f.cmd = c /\ f.session \in Sessions
      BY <1>2, <1>3, <1>4, <3>1 DEF Frames, Late, Kinds
    <3>. QED
      BY <1>2, <1>3, <3>2 DEF FrameRight
  <2>. QED
    BY <1>5, <2>1, <2>2
<1>7. lastOpaque' \in [Sessions -> Nat]
  BY <1>3, <1>4, <1>5
<1>8. /\ run' \in [Threads -> Frames]
      /\ \A u \in Threads : run'[u] = run[u] \/ FrameRight(run'[u])
      /\ IoKept
  BY Zenon, <1>2, <1>5, <1>6, FrameUpdate
<1>9. /\ cmd' \in [Commands -> CommandRecord]
      /\ \A b \in Commands : Moves(b, cmd[b], cmd'[b])
  BY <1>1, SameStep, StepMoves
<1>10. OpaqueRight'
  <2>. SUFFICES ASSUME ~CallerThread
                PROVE  OpaqueRight'
    BY DEF OpaqueRight
  <2>1. t = IO /\ run'[IO] = f
    BY <1>2, <1>5, Stop DEF IInv, Types
  <2>2. \A b \in Commands : ~Sending(b)
    BY <1>1, <2>1 DEF Sending
  <2>3. /\ \A q \in Sessions : lastOpaque[q] <= lastOpaque'[q]
        /\ \A q \in Sessions : lastOpaque[q] \in Nat /\ lastOpaque'[q] \in Nat
        /\ lastOpaque[s] < o
    <3>1. lastOpaque[s] \in Nat /\ o = lastOpaque[s] + 1
      BY <1>3 DEF o
    <3>. QED
      BY <1>3, <1>5, <1>7, <3>1
  <2>4. /\ \A x \in subs : x.session \in Sessions /\ x.opaque \in Nat
        /\ \A b \in Commands : cmd[b].opaque \in Nat
    BY DEF IInv, Types, Requests, CommandRecord
  <2>5. /\ \A x \in subs' : x.opaque <= lastOpaque'[x.session]
        /\ \A b \in Commands : cmd'[b].session \in Sessions
                                 => cmd'[b].opaque <= lastOpaque'[cmd'[b].session]
    <3>1. /\ \A x \in subs : x.opaque <= lastOpaque[x.session]
          /\ \A b \in Commands : cmd[b].session \in Sessions
                                   => cmd[b].opaque <= lastOpaque[cmd[b].session]
      BY <2>2 DEF IInv, OpaqueRight
    <3>2. ASSUME NEW q \in Sessions, NEW n \in Nat, n <= lastOpaque[q]
          PROVE  n <= lastOpaque'[q]
      <4>1. lastOpaque[q] \in Nat /\ lastOpaque'[q] \in Nat /\ lastOpaque[q] <= lastOpaque'[q]
        BY <2>3
      <4>. QED
        BY <3>2, <4>1
    <3>. QED
      BY <1>1, <2>4, <3>1, <3>2
  <2>6. \A b \in Commands, x \in subs' :
          x.session = cmd'[b].session /\ x.opaque = cmd'[b].opaque => x.cmd = b /\ x.kind = "op"
    BY <1>1, <2>2 DEF IInv, OpaqueRight
  <2>7. CASE f = Dispatch("map", c, NoSession)
    <3>1. f.pc = "map"
      BY <2>7 DEF Dispatch
    <3>. QED
      BY <2>1, <2>5, <2>6, <3>1 DEF OpaqueRight, Writing
  <2>8. CASE /\ f = [Dispatch("write", c, s) EXCEPT !.kind = "lookup", !.opaque = o]
             /\ lastOpaque' = [lastOpaque EXCEPT ![s] = o]
    <3>1. f.pc = "write" /\ f.session = s /\ f.opaque = o
      BY <2>8 DEF Dispatch
    <3>2. lastOpaque'[s] = o
      BY <1>3, <2>8
    <3>3. \A b \in Commands : ~(s = cmd'[b].session /\ o = cmd'[b].opaque)
      <4>1. \A b \in Commands : cmd[b].session = s => cmd[b].opaque <= lastOpaque[s]
        BY <1>3, <2>2 DEF IInv, OpaqueRight
      <4>2. lastOpaque[s] \in Nat /\ lastOpaque[s] < o
        BY <1>3, <2>3
      <4>3. ASSUME NEW b \in Commands, s = cmd[b].session, o = cmd[b].opaque
            PROVE  FALSE
        <5>1. cmd[b].opaque <= lastOpaque[s]
          BY <4>1, <4>3
        <5>. QED
          BY <1>4, <4>2, <4>3, <5>1
      <4>. QED
        BY <1>1, <4>3
    <3>4. f.opaque <= lastOpaque'[f.session]
      BY <1>4, <3>1, <3>2
    <3>. QED
      BY <2>1, <2>5, <2>6, <3>1, <3>3, <3>4 DEF OpaqueRight, Writing
  <2>. QED
    BY <1>5, <2>7, <2>8
<1>. QED
  BY <1>1, <1>7, <1>8, <1>9, <1>10, SameRequests, SameBucket, KeepIInv

LEMMA WriteIInv ==
  ASSUME IInv, NEW t \in Threads, write_and_subscribe(t)
  PROVE  IInv'
<1>. DEFINE c == run[t].cmd
<1>1. run[t].pc = "write" /\ UNCHANGED <<session_vars, bucket_vars, sent>>
  BY DEF write_and_subscribe
<1>2. /\ CallerThread \/ t = IO
      /\ run[t] \in Frames /\ FrameRight(run[t]) /\ c \in Commands
      /\ cmd[c] \in CommandRecord /\ Good(c, cmd[c])
  BY <1>1, Dispatching DEF Late
<1>3. PICK d, f : /\ cmd' = [cmd EXCEPT ![c] = d] /\ run' = [run EXCEPT ![t] = f]
                  /\ d \in {cmd[c], invoke_handler(cmd[c], "request_canceled"),
                            Canceled(c, cmd[c], "socket_closed_while_in_flight", closed)}
                  /\ f \in {NotRunning, [run[t] EXCEPT !.pc = "subscribe"]}
  <2>1. cmd \in [Commands -> CommandRecord]
    BY DEF IInv, Types
  <2>2. cmd = [cmd EXCEPT ![c] = cmd[c]]
    BY <2>1
  <2>. QED
    BY <2>2 DEF write_and_subscribe
<1>. HIDE DEF c
<1>4. Step(c, cmd[c], d)
  <2>1. "request_canceled" \in Plain
    BY DEF Plain, Results
  <2>2. Step(c, cmd[c], cmd[c])
    BY <1>2 DEF Step
  <2>. QED
    BY <1>2, <1>3, <2>1, <2>2, CanceledStep, InvokePlain
<1>5. f \in Frames /\ FrameRight(f) /\ f.pc # "send"
  BY <1>1, <1>2, <1>3, NextFrame, Stop, Zenon DEF Late
<1>6. /\ run' \in [Threads -> Frames]
      /\ \A u \in Threads : run'[u] = run[u] \/ FrameRight(run'[u])
      /\ IoKept /\ OpaqueKept
  BY <1>1, <1>2, <1>3, <1>5, FrameUpdate, FrameOpaque, Zenon DEF Writing, NotRunning
<1>7. subs' = subs /\ pending' = pending /\ wire' = wire /\ UNCHANGED <<lastOpaque, sent>>
  BY <1>1 DEF session_vars
<1>. QED
  BY Zenon, <1>1, <1>2, <1>3, <1>4, <1>6, <1>7, OneStep, SameBucket, QuietIInv

LEMMA SubscribeIInv ==
  ASSUME IInv, NEW t \in Threads, Subscribe(t) \/ Flush(t)
  PROVE  IInv'
<1>. DEFINE x == Subscription(run[t].session, run[t].opaque, run[t].cmd, run[t].kind)
<1>1. /\ run[t].pc \in {"subscribe", "flush"}
      /\ UNCHANGED <<cmd, lastOpaque, bucket_vars>>
  BY DEF Subscribe, Flush
<1>2. /\ CallerThread \/ t = IO
      /\ run[t] \in Frames /\ FrameRight(run[t]) /\ run[t].cmd \in Commands
  BY <1>1, Dispatching DEF Late
<1>3. x \in Requests /\ Issued(cmd[x.cmd])
  BY <1>1, <1>2 DEF Subscription, Requests, Frames, FrameRight, Late
<1>4. PICK f : /\ run' = [run EXCEPT ![t] = f]
               /\ f \in {NotRunning, [run[t] EXCEPT !.pc = "flush"]}
  BY DEF Subscribe, Flush
<1>5. f \in Frames /\ FrameRight(f) /\ f.pc # "send"
  BY <1>1, <1>2, <1>4, NextFrame, Stop, Zenon DEF Late
<1>6. /\ run' \in [Threads -> Frames]
      /\ \A u \in Threads : run'[u] = run[u] \/ FrameRight(run'[u])
      /\ IoKept
  BY Zenon, <1>2, <1>4, <1>5, FrameUpdate
<1>7. /\ subs' \subseteq subs \cup {x} /\ pending' \subseteq pending \cup {x}
      /\ Transmit({x}) \/ UNCHANGED <<wire, sent>>
  BY DEF Subscribe, Flush
<1>. HIDE DEF x
<1>8. /\ wire' \subseteq Requests
      /\ \A y \in wire' : y \in wire \/ Issued(cmd[y.cmd])
      /\ sent' \in [Commands -> Nat]
      /\ \A c \in Commands : sent'[c] > 0 => sent[c] > 0 \/ Issued(cmd[c])
  <2>1. {x} \subseteq Requests /\ \A y \in {x} : Issued(cmd[y.cmd])
    BY <1>3
  <2>2. CASE Transmit({x})
    BY <2>1, <2>2, TransmitRight
  <2>3. CASE UNCHANGED <<wire, sent>>
    BY <2>3 DEF IInv, Types
  <2>. QED
    BY <1>7, <2>2, <2>3
<1>9. /\ subs' \subseteq Requests /\ pending' \subseteq Requests
      /\ lastOpaque' \in [Sessions -> Nat]
  BY <1>1, <1>3, <1>7 DEF IInv, Types
<1>10. \A y \in subs' \cup pending' \cup wire' :
         y \in subs \cup pending \cup wire \/ Issued(cmd[y.cmd])
  BY <1>3, <1>7, <1>8
<1>11. /\ cmd' \in [Commands -> CommandRecord]
       /\ \A b \in Commands : Moves(b, cmd[b], cmd'[b])
  BY <1>1, SameStep, StepMoves
<1>12. OpaqueRight'
  <2>. SUFFICES ASSUME ~CallerThread
                PROVE  OpaqueRight'
    BY DEF OpaqueRight
  <2>1. t = IO /\ run'[IO] = f
    BY <1>2, <1>4, Stop DEF IInv, Types
  <2>2. \A b \in Commands : ~Sending(b)
    BY <1>1, <2>1 DEF Sending
  <2>3. f.pc \in {"out", "flush"}
    BY <1>2, <1>4 DEF NotRunning, Frames
  <2>4. \A y \in subs' : y \in subs \/ (y = x /\ run[IO].pc \in Writing)
    BY <1>1, <2>1 DEF Subscribe, Flush, Writing, x
  <2>5. /\ x.session = run[IO].session /\ x.opaque = run[IO].opaque
        /\ x.cmd = run[IO].cmd /\ x.kind = run[IO].kind
    BY <2>1 DEF x, Subscription
  <2>6. \A y \in subs' : y.opaque <= lastOpaque'[y.session]
    BY <1>1, <2>4, <2>5 DEF IInv, OpaqueRight
  <2>7. \A b \in Commands, y \in subs' :
          y.session = cmd'[b].session /\ y.opaque = cmd'[b].opaque => y.cmd = b /\ y.kind = "op"
    <3>. SUFFICES ASSUME NEW b \in Commands, NEW y \in subs',
                         y.session = cmd[b].session, y.opaque = cmd[b].opaque
                  PROVE  y.cmd = b /\ y.kind = "op"
      BY <1>1
    <3>1. OpaqueRight
      BY DEF IInv
    <3>2. CASE y \in subs
      BY <2>2, <3>1, <3>2 DEF OpaqueRight
    <3>3. CASE y = x /\ run[IO].pc \in Writing
      BY <2>5, <3>1, <3>3 DEF OpaqueRight
    <3>. QED
      BY <2>4, <3>2, <3>3
  <2>8. \A b \in Commands : cmd'[b].session \in Sessions
                              => cmd'[b].opaque <= lastOpaque'[cmd'[b].session]
    BY <1>1, <2>2 DEF IInv, OpaqueRight
  <2>. QED
    BY <2>1, <2>3, <2>6, <2>7, <2>8, Zenon DEF OpaqueRight, Writing
<1>. QED
  BY Zenon, <1>1, <1>6, <1>8, <1>9, <1>10, <1>11, <1>12, SameBucket, KeepIInv

LEMMA BackoffIInv ==
  ASSUME IInv, NEW c \in Commands, Backoff(c)
  PROVE  IInv'
<1>1. cmd[c] \in CommandRecord /\ Good(c, cmd[c])
  BY DEF IInv, Types, CmdRight
<1>2. PICK k \in cmd[c].due :
        /\ cmd' = [cmd EXCEPT ![c] = [cmd[c] EXCEPT !.due = @ \ {k}]]
        /\ run' = [run EXCEPT ![IO] = Dispatch(IF k = "map_and_send" THEN "map" ELSE k, c, NoSession)]
  BY Zenon DEF Backoff
<1>3. UNCHANGED <<session_vars, bucket_vars, sent>> /\ run[IO].pc = "out"
  BY DEF Backoff, IoFree, NotRunning
<1>4. Step(c, cmd[c], [cmd[c] EXCEPT !.due = @ \ {k}])
  BY <1>1 DEF Step, Good, Reports, Issued, CommandRecord
<1>5. k \in Waits
  BY <1>1 DEF CommandRecord
<1>. DEFINE pc == IF k = "map_and_send" THEN "map" ELSE k
<1>6. pc \in {"map", "request_collection_id"} /\ (pc = "request_collection_id" => Issued(cmd[c]))
  BY <1>1, <1>5 DEF Waits, Good
<1>. HIDE DEF pc
<1>7. /\ Dispatch(pc, c, NoSession) \in Frames /\ FrameRight(Dispatch(pc, c, NoSession))
      /\ Dispatch(pc, c, NoSession).pc = pc
  BY <1>6, Starts
<1>8. /\ run' \in [Threads -> Frames]
      /\ \A u \in Threads : run'[u] = run[u] \/ FrameRight(run'[u])
      /\ IoKept /\ OpaqueKept
  <2>1. run' = [run EXCEPT ![IO] = Dispatch(pc, c, NoSession)]
    BY <1>2 DEF pc
  <2>. QED
    BY <1>3, <1>6, <1>7, <2>1, Stop, FrameUpdate, FrameOpaque, Zenon DEF Writing
<1>9. subs' = subs /\ pending' = pending /\ wire' = wire /\ UNCHANGED <<lastOpaque, sent>>
  BY <1>3 DEF session_vars
<1>. QED
  BY Zenon, <1>2, <1>3, <1>4, <1>8, <1>9, OneStep, SameBucket, QuietIInv
-----------------------------------------------------------------------------
(* Answers.                                                                 *)

LEMMA AnswerIInv ==
  ASSUME IInv, NEW x \in wire, handle_request(x)
  PROVE  IInv'
<1>. DEFINE c == x.cmd
<1>1. c \in Commands /\ Issued(cmd[c]) /\ x.session \in Sessions
  BY DEF IInv, Types, Requests, IssuedRight
<1>2. cmd[c] \in CommandRecord /\ Good(c, cmd[c]) /\ cmd \in [Commands -> CommandRecord]
  BY <1>1 DEF IInv, Types, CmdRight
<1>3. /\ UNCHANGED <<lastOpaque, pending, bucket_vars, sent>>
      /\ subs' \subseteq subs /\ wire' \subseteq wire /\ run[IO] = NotRunning
  BY DEF handle_request, IoFree
<1>4. PICK status \in Statuses(x) :
        \/ OperationAnswered(x, status) \/ LookupAnswered(x, status)
        \/ UNCHANGED <<cmd, cached, run>>
  BY DEF handle_request
<1>5. status \in {"success", "error", "not_my_vbucket", "config_only", "temporary_failure",
                  "unknown_collection"}
  BY DEF Statuses
<1>6. \/ UNCHANGED <<cmd, run>>
      \/ \E d : Step(c, cmd[c], d) /\ cmd' = [cmd EXCEPT ![c] = d] /\ run' = run
      \/ /\ cmd' = [cmd EXCEPT ![c] = [cmd[c] EXCEPT !.resolved = TRUE]]
         /\ run' = [run EXCEPT ![IO] = Dispatch("send", c, x.session)]
  <2>1. CASE OperationAnswered(x, status)
    <3>1. PICK d \in Answered(c, cmd[c], status) : cmd' = [cmd EXCEPT ![c] = d] /\ run' = run
      BY <2>1, Zenon DEF OperationAnswered
    <3>. HIDE DEF c
    <3>2. Step(c, cmd[c], d)
      BY <1>1, <1>2, <1>5, AnsweredStep
    <3>. QED
      BY Zenon, <3>1, <3>2
  <2>2. CASE LookupAnswered(x, status)
    <3>1. \/ \E d \in handle_unknown_collection(c, cmd[c]) :
               cmd' = [cmd EXCEPT ![c] = d] /\ run' = run
          \/ cmd' = [cmd EXCEPT ![c] = invoke_handler(cmd[c], "error")] /\ run' = run
          \/ /\ cmd' = [cmd EXCEPT ![c] = [cmd[c] EXCEPT !.resolved = TRUE]]
             /\ run' = [run EXCEPT ![IO] = Dispatch("send", c, x.session)]
      BY <2>2 DEF LookupAnswered
    <3>. HIDE DEF c
    <3>2. "error" \in Plain
      BY DEF Plain, Results
    <3>3. Step(c, cmd[c], invoke_handler(cmd[c], "error"))
      BY <1>1, <1>2, <3>2, InvokePlain
    <3>4. \A d \in handle_unknown_collection(c, cmd[c]) : Step(c, cmd[c], d)
      BY <1>1, <1>2, UnknownCollectionStep
    <3>. QED
      BY <3>1, <3>3, <3>4
  <2>. QED
    BY <1>4, <2>1, <2>2
<1>. HIDE DEF c
<1>7. CASE UNCHANGED <<cmd, run>>
  <2>1. /\ run' \in [Threads -> Frames]
        /\ \A u \in Threads : run'[u] = run[u] \/ FrameRight(run'[u])
        /\ IoKept /\ OpaqueKept
    BY <1>3, <1>7, FrameSame
  <2>. QED
    BY <1>3, <1>7, <2>1, SameStep, SameBucket, QuietIInv
<1>8. ASSUME NEW d, Step(c, cmd[c], d), cmd' = [cmd EXCEPT ![c] = d], run' = run
      PROVE  IInv'
  <2>1. /\ run' \in [Threads -> Frames]
        /\ \A u \in Threads : run'[u] = run[u] \/ FrameRight(run'[u])
        /\ IoKept /\ OpaqueKept
    BY <1>3, <1>8, FrameSame
  <2>. QED
    BY Zenon, <1>1, <1>3, <1>8, <2>1, OneStep, SameBucket, QuietIInv
<1>9. CASE /\ cmd' = [cmd EXCEPT ![c] = [cmd[c] EXCEPT !.resolved = TRUE]]
           /\ run' = [run EXCEPT ![IO] = Dispatch("send", c, x.session)]
  <2>. DEFINE f == Dispatch("send", c, x.session)
  <2>1. Step(c, cmd[c], [cmd[c] EXCEPT !.resolved = TRUE])
    <3>. DEFINE d == [cmd[c] EXCEPT !.resolved = TRUE]
    <3>1. /\ d \in CommandRecord /\ d.deadline = cmd[c].deadline
          /\ d.handler = cmd[c].handler /\ d.results = cmd[c].results
          /\ d.opaque = cmd[c].opaque /\ d.session = cmd[c].session
          /\ d.due = cmd[c].due /\ d.backoff = cmd[c].backoff
      BY <1>2, Zenon DEF CommandRecord
    <3>. HIDE DEF d
    <3>2. Good(c, d)
      BY <1>2, <3>1 DEF Good, Reports, Issued
    <3>3. Step(c, cmd[c], d)
      BY <3>1, <3>2 DEF Step
    <3>. QED
      BY <3>3 DEF d
  <2>2. /\ cmd' \in [Commands -> CommandRecord]
        /\ \A b \in Commands : Step(b, cmd[b], cmd'[b])
    BY Zenon, <1>1, <1>9, <2>1, OneStep
  <2>3. f \in Frames /\ FrameRight(f) /\ f.cmd = c
    <3>1. cmd[c].session \in Sessions
      BY <1>1 DEF Issued
    <3>. QED
      BY <1>1, <3>1, Starts, Zenon DEF Dispatch
  <2>4. run \in [Threads -> Frames] /\ IO \in Threads
    BY Stop DEF IInv, Types
  <2>. HIDE DEF f
  <2>5. run'[IO] = f /\ \A u \in Threads : u # IO => run'[u] = run[u]
    BY <1>9, <2>4 DEF f
  <2>6. run' \in [Threads -> Frames]
    BY <1>9, <2>3, <2>4 DEF f
  <2>7. cmd'[c].opaque > 0
    BY <1>1, <2>2 DEF Step, Issued
  <2>8. IoKept /\ OpaqueKept
    <3>1. f.kind = "op" /\ f.pc = "send" /\ run[IO].pc = "out"
      <4>1. f.kind = "op" /\ f.pc = "send"
        BY DEF f, Dispatch
      <4>2. run[IO] = NotRunning
        BY <1>3
      <4>3. NotRunning.pc = "out"
        BY DEF NotRunning
      <4>. QED
        BY <4>1, <4>2, <4>3
    <3>. QED
      BY <2>3, <2>5, <2>7, <3>1 DEF IoKept, OpaqueKept, Writing
  <2>9. \A u \in Threads : run'[u] = run[u] \/ FrameRight(run'[u])
    BY <2>3, <2>5
  <2>. QED
    BY <1>3, <2>2, <2>6, <2>8, <2>9, SameBucket, QuietIInv
<1>. QED
  BY <1>6, <1>7, <1>8, <1>9
-----------------------------------------------------------------------------
(* The theorems.                                                            *)

LEMMA InitIInv ==
  ASSUME Init
  PROVE  IInv
<1>1. Types
  <2>1. \A c \in Commands : NewCommand(c) \in CommandRecord
    <3>1. <<>> \in Seq(Results) /\ {} \in SUBSET Waits
      OBVIOUS
    <3>. QED
      BY <3>1 DEF NewCommand, CommandRecord
  <2>. QED
    BY <2>1, Stop DEF Init, Types
<1>2. CmdRight
  <2>1. ASSUME NEW c \in Commands
        PROVE  Good(c, cmd[c])
    <3>1. /\ cmd[c].results = <<>> /\ cmd[c].handler = FALSE
          /\ cmd[c].due = {} /\ cmd[c].backoff = "off"
      BY DEF Init, NewCommand
    <3>2. Len(cmd[c].results) = 0
      BY <3>1
    <3>3. \A q : ~Reports(cmd[c], q)
      BY <3>2 DEF Reports
    <3>. QED
      BY <3>1, <3>2, <3>3 DEF Good
  <2>. QED
    BY <2>1 DEF CmdRight
<1>3. IssuedRight
  BY DEF Init, IssuedRight
<1>4. RunRight
  BY Stop DEF Init, RunRight
<1>5. IoRight
  BY Stop DEF Init, IoRight
<1>6. OpaqueRight
  <2>1. subs = {}
    BY DEF Init
  <2>2. run[IO].pc = "out"
    BY Stop DEF Init, NotRunning
  <2>3. \A c \in Commands : cmd[c].session = NoSession
    BY DEF Init, NewCommand
  <2>4. NoSession \notin Sessions
    BY DEF NoSession, Sessions
  <2>. QED
    BY <2>1, <2>2, <2>3, <2>4 DEF OpaqueRight, Writing
<1>. QED
  BY <1>1, <1>2, <1>3, <1>4, <1>5, <1>6 DEF IInv

LEMMA NextIInv ==
  ASSUME IInv, [Next]_vars
  PROVE  IInv'
<1>1. CASE UNCHANGED vars
  BY <1>1, Zenon DEF vars, session_vars, bucket_vars, IInv, Types, CmdRight, IssuedRight, RunRight,
              FrameRight, IoRight, OpaqueRight, Sending
<1>2. ASSUME NEW c \in Commands, execute(c)
      PROVE  IInv'
  BY <1>2, ExecuteIInv
<1>3. ASSUME NEW t \in Threads, DispatchStep(t)
      PROVE  IInv'
  BY <1>3, CheckIInv, MapIInv, SendToIInv, SendIInv, RequestIdIInv, WriteIInv, SubscribeIInv
     DEF DispatchStep
<1>4. ASSUME NEW t \in Threads, remove_session(t) \/ CloseSessions(t)
      PROVE  IInv'
  <2>1. 1 \in Sessions
    BY CommandAssumption DEF Sessions
  <2>. QED
    BY <1>4, <2>1, RemoveIInv, StopIInv
<1>5. ASSUME NEW x \in wire, handle_request(x)
      PROVE  IInv'
  BY <1>5, AnswerIInv
<1>6. ASSUME TimerStep
      PROVE  IInv'
  BY <1>6, TimersIInv, CancelIInv, BackoffIInv DEF TimerStep
<1>7. ASSUME SessionStep
      PROVE  IInv'
  <2>1. 1 \in Sessions /\ IO \in Threads
    BY CommandAssumption, Stop DEF Sessions
  <2>. QED
    BY <1>7, <2>1, ConfigIInv, DrainIInv, FinishIInv, StopIInv DEF SessionStep
<1>8. ASSUME close
      PROVE  IInv'
  BY <1>8, CloseIInv
<1>. QED
  BY <1>1, <1>2, <1>3, <1>4, <1>5, <1>6, <1>7, <1>8 DEF Next

\* The invariant holds in every reachable state, whoever calls the library.
THEOREM Invariance == Spec => []IInv
BY InitIInv, NextIInv, PTL DEF Spec

\* However timers, answers, lost sessions and close() interleave, the handler
\* of a command is called at most once.
THEOREM HandlerCalledOnce == Spec => []AnsweredOnce
<1>1. IInv => AnsweredOnce
  BY DEF IInv, CmdRight, Good, AnsweredOnce
<1>. QED
  BY <1>1, Invariance, PTL

\* When operations are started on the I/O thread, a deadline or a token that
\* cancels a command finds the callback of that command's operation or none.
THEOREM CancelIsOwn ==
  ASSUME ~CallerThread
  PROVE  Spec => []CancelsOnlyItself
<1>1. ASSUME IInv
      PROVE  CancelsOnlyItself
  <2>. SUFFICES ASSUME IoFree, NEW c \in Commands, NEW x \in subs,
                       x.session = cmd[c].session, x.opaque = cmd[c].opaque
                PROVE  x.cmd = c /\ x.kind = "op"
    BY DEF CancelsOnlyItself
  <2>1. run[IO].pc = "out"
    <3>1. run[IO] = NotRunning
      BY DEF IoFree
    <3>2. NotRunning.pc = "out"
      BY DEF NotRunning
    <3>. QED
      BY <3>1, <3>2
  <2>2. ~Sending(c)
    BY <2>1 DEF Sending
  <2>3. OpaqueRight
    BY <1>1 DEF IInv
  <2>. QED
    BY <2>2, <2>3 DEF OpaqueRight
<1>. QED
  BY <1>1, Invariance, PTL

\* Nor does any path then report a read as an ambiguous timeout.
THEOREM ReadsNeverAmbiguous ==
  ASSUME ~CallerThread
  PROVE  Spec => []ReadsAreUnambiguous
<1>1. IInv => ReadsAreUnambiguous
  BY CommandAssumption DEF IInv, CmdRight, Good, Reports, ReadsAreUnambiguous
<1>. QED
  BY <1>1, Invariance, PTL

\* When operations are started on the I/O thread, a mutation reported as an
\* unambiguous timeout has not been sent and never will be.
THEOREM UnambiguousIsFinal ==
  ASSUME ~CallerThread
  PROVE  Spec => []UnambiguousMeansUnsent
<1>1. IInv => UnambiguousMeansUnsent
  <2>. SUFFICES ASSUME IInv, NEW c \in Commands \ Idempotent,
                       Reports(cmd[c], "unambiguous_timeout")
                PROVE  sent[c] = 0
    BY DEF UnambiguousMeansUnsent, Reports
  <2>1. cmd[c].opaque = 0
    BY DEF IInv, CmdRight, Good
  <2>2. ~(sent[c] > 0) /\ sent[c] \in Nat
    BY <2>1 DEF IInv, IssuedRight, Issued, Types
  <2>. QED
    BY <2>2
<1>. QED
  BY <1>1, Invariance, PTL
=============================================================================
