------------------------- MODULE McbpCommandTracks -------------------------
(***************************************************************************)
(* More proofs about McbpCommand, for any commands, sessions and threads:  *)
(* a command waits in one place at a time, and an operation that may       *)
(* change data is not sent again before the server has refused it.         *)
(*                                                                         *)
(* The argument: a command moves from place to place, and every step that  *)
(* puts it somewhere takes it from where it was.  As long as it is         *)
(* anywhere but among the callbacks, no request of its operation is on its *)
(* way; and where it is among them, that one request is.                   *)
(***************************************************************************)
EXTENDS McbpCommandProofs, FiniteSetTheorems

\* The types that the proofs so far did without.
MoreTypes ==
  /\ state \in [Sessions -> {"unused", "connecting", "configured", "bootstrapped", "stopped"}]
  /\ cached \subseteq Sessions
  /\ closed \in BOOLEAN /\ configured \in BOOLEAN /\ mapped \in BOOLEAN /\ restart \in BOOLEAN
  /\ up \in Sessions \cup {NoSession}
  /\ members \subseteq Sessions /\ dropped \subseteq Sessions
  /\ configs \in Nat
  /\ open \in [Commands -> Nat]

\* A queue has the command, and has it once.
In(q, c) == \E i \in 1 .. Len(q) : q[i] = c
Once(q, c) == \A i, j \in 1 .. Len(q) : q[i] = c /\ q[j] = c => i = j

\* The thread is on its way through the dispatch of the command.
Working(t, c) == run[t].cmd = c /\ run[t].pc \notin {"flush", "out", "close", "on_stop"}

\* Where a command may wait.
Places == {"deferred", "draining", "callback", "due", "backoff", "dispatch"}

At(c, p) ==
  \/ p = "deferred" /\ In(deferred, c)
  \/ p = "draining" /\ In(draining, c)
  \/ p = "callback" /\ \E x \in subs : x.cmd = c
  \/ p = "due" /\ cmd[c].due # {}
  \/ p = "backoff" /\ cmd[c].backoff # "off"
  \/ p = "dispatch" /\ \E t \in Threads : Working(t, c)

\* It waits in one place, and there once.
OneTrack(c) ==
  /\ \A p, q \in Places : At(c, p) /\ At(c, q) => p = q
  /\ Once(deferred, c) /\ Once(draining, c)
  /\ \A x, y \in subs : x.cmd = c /\ y.cmd = c => x = y
  /\ \A k, l \in cmd[c].due : k = l
  /\ \A t, u \in Threads : Working(t, c) /\ Working(u, c) => t = u

\* The request of a frame.
Carried(f) == Subscription(f.session, f.opaque, f.cmd, f.kind)

Op(x, c) == x.cmd = c /\ x.kind = "op"

\* The thread has subscribed the operation and is about to write it.  What it
\* writes to a session that has stopped meanwhile goes nowhere.
Flushing(t, c) ==
  /\ run[t].pc = "flush" /\ run[t].cmd = c /\ run[t].kind = "op"
  /\ state[run[t].session] # "stopped"

\* No request of the operation is on its way.
Quiet(c) ==
  /\ \A x \in pending \cup wire : ~Op(x, c)
  /\ \A t \in Threads : ~Flushing(t, c)

\* One request of an operation at most is on its way, and only while its
\* callback waits for the answer or nobody does any more.
OneRequest(c) ==
  /\ \A x, y \in pending \cup wire : Op(x, c) /\ Op(y, c) => x = y
  /\ \A t, u \in Threads : Flushing(t, c) /\ Flushing(u, c) => t = u
  /\ \A t \in Threads : Flushing(t, c) => \A x \in pending \cup wire : ~Op(x, c)
  /\ \A p \in Places : At(c, p) /\ p # "callback" => Quiet(c)
  /\ \A x \in subs : x.cmd = c =>
       /\ x.kind # "op" => Quiet(c)
       /\ \A y \in pending \cup wire : Op(y, c) => y = x
       /\ \A t \in Threads : Flushing(t, c) => x = Carried(run[t])

\* Of an operation that may change data, one request at most is not refused;
\* after it, the command does nothing but wait for the answer.
OneOpen(c) ==
  /\ \A x \in wire : Op(x, c) => open[c] > 0
  /\ c \notin Idempotent => open[c] <= 1
  /\ c \notin Idempotent /\ open[c] > 0 =>
       /\ \A x \in pending : ~Op(x, c)
       /\ \A t \in Threads : ~Flushing(t, c)
       /\ \A p \in Places : At(c, p) => p = "callback"
       /\ \A x \in subs : x.cmd = c => x \in wire /\ x.kind = "op"

\* A command that execute() has not seen.
Untouched(c) ==
  cmd[c].deadline = "none" =>
    /\ \A p \in Places : ~At(c, p)
    /\ Quiet(c) /\ open[c] = 0

Track(c) == OneTrack(c) /\ OneRequest(c) /\ OneOpen(c) /\ Untouched(c)

\* Where requests are, by the state of their session.
Homes ==
  /\ \A x \in pending : state[x.session] = "configured"
  /\ \A x \in wire : state[x.session] = "bootstrapped"

TInv == MoreTypes /\ Homes /\ \A c \in Commands : Track(c)
-----------------------------------------------------------------------------
(* A step that starts nothing for a command.                                *)

QueuesStay(c) ==
  /\ In(deferred', c) => In(deferred, c)
  /\ Once(deferred, c) => Once(deferred', c)
  /\ In(draining', c) => In(draining, c)
  /\ Once(draining, c) => Once(draining', c)

TimersStay(c) ==
  /\ cmd'[c].due \subseteq cmd[c].due
  /\ cmd'[c].backoff = cmd[c].backoff \/ cmd'[c].backoff = "off"
  /\ cmd'[c].deadline = "none" => cmd[c].deadline = "none"

RunStays(c) ==
  \A t \in Threads :
    /\ Working(t, c)' => Working(t, c)
    /\ Flushing(t, c)' => Flushing(t, c) /\ run'[t] = run[t]

RequestsStay(c) ==
  /\ \A x \in pending' : Op(x, c) => x \in pending
  /\ \A x \in wire' : Op(x, c) => x \in wire

CallbacksStay(c) ==
  /\ \A x \in subs' : x.cmd = c => x \in subs
  /\ \A x \in subs' \cap wire : x.cmd = c => x \in wire'

Stays(c) ==
  /\ QueuesStay(c) /\ TimersStay(c) /\ RunStays(c) /\ RequestsStay(c) /\ CallbacksStay(c)
  /\ open'[c] = open[c]

LEMMA PlacesStay ==
  ASSUME NEW c, QueuesStay(c), TimersStay(c), RunStays(c), CallbacksStay(c),
         NEW p \in Places, At(c, p)'
  PROVE  At(c, p)
BY DEF QueuesStay, TimersStay, RunStays, CallbacksStay, At, Places

LEMMA QuietStays ==
  ASSUME NEW c, Quiet(c), RunStays(c), RequestsStay(c)
  PROVE  Quiet(c)'
BY DEF Quiet, RunStays, RequestsStay

LEMMA StaysTrack ==
  ASSUME NEW c \in Commands, Track(c), Stays(c)
  PROVE  Track(c)'
<1>. USE DEF Stays
<1>1. \A p \in Places : At(c, p)' => At(c, p)
  BY PlacesStay
<1>2. Quiet(c) => Quiet(c)'
  BY QuietStays
<1>3. OneTrack(c)'
  BY <1>1 DEF Track, OneTrack, QueuesStay, TimersStay, RunStays, CallbacksStay
<1>4. OneRequest(c)'
  <2>1. /\ \A x \in pending' \cup wire' : Op(x, c) => x \in pending \cup wire
        /\ \A t \in Threads : Flushing(t, c)' => Flushing(t, c) /\ run'[t] = run[t]
        /\ \A x \in subs' : x.cmd = c => x \in subs
    BY DEF RequestsStay, RunStays, CallbacksStay
  <2>. QED
    BY <1>1, <1>2, <2>1 DEF Track, OneRequest
<1>5. OneOpen(c)'
  BY <1>1 DEF Track, OneOpen, RequestsStay, CallbacksStay, RunStays
<1>6. Untouched(c)'
  BY <1>1, <1>2 DEF Track, Untouched, TimersStay
<1>. QED
  BY <1>3, <1>4, <1>5, <1>6 DEF Track
-----------------------------------------------------------------------------
(* Queues, commands and threads.                                            *)

LEMMA AppendQueue ==
  ASSUME NEW q \in Seq(Commands), NEW e \in Commands, NEW c
  PROVE  /\ In(Append(q, e), c) => In(q, c) \/ e = c
         /\ Once(q, c) /\ (e = c => ~In(q, c)) => Once(Append(q, e), c)
<1>1. /\ Len(Append(q, e)) = Len(q) + 1 /\ Append(q, e)[Len(q) + 1] = e
      /\ \A i \in 1 .. Len(q) : Append(q, e)[i] = q[i]
      /\ Len(q) \in Nat
  OBVIOUS
<1>2. \A i \in 1 .. Len(q) + 1 : i \in 1 .. Len(q) \/ i = Len(q) + 1
  BY <1>1
<1>3. In(Append(q, e), c) => In(q, c) \/ e = c
  BY <1>1, <1>2 DEF In
<1>4. Once(q, c) /\ (e = c => ~In(q, c)) => Once(Append(q, e), c)
  BY <1>1, <1>2 DEF In, Once
<1>. QED
  BY <1>3, <1>4

LEMMA TailQueue ==
  ASSUME NEW q \in Seq(Commands), q # <<>>, NEW c
  PROVE  /\ Head(q) \in Commands /\ In(q, Head(q))
         /\ In(Tail(q), c) => In(q, c)
         /\ Once(q, c) => Once(Tail(q), c)
         /\ Once(q, Head(q)) => ~In(Tail(q), Head(q))
<1>1. /\ Len(q) \in Nat \ {0} /\ Len(Tail(q)) = Len(q) - 1 /\ Head(q) = q[1]
      /\ \A i \in 1 .. Len(q) - 1 : Tail(q)[i] = q[i + 1]
      /\ Head(q) \in Commands
  OBVIOUS
<1>2. In(q, Head(q))
  BY <1>1 DEF In
<1>3. In(Tail(q), c) => In(q, c)
  BY <1>1 DEF In
<1>4. Once(q, c) => Once(Tail(q), c)
  <2>. SUFFICES ASSUME Once(q, c), NEW i \in 1 .. Len(q) - 1, NEW j \in 1 .. Len(q) - 1,
                       Tail(q)[i] = c, Tail(q)[j] = c
                PROVE  i = j
    BY <1>1 DEF Once
  <2>1. i + 1 \in 1 .. Len(q) /\ j + 1 \in 1 .. Len(q) /\ q[i + 1] = c /\ q[j + 1] = c
    BY <1>1
  <2>2. i + 1 = j + 1
    BY <2>1 DEF Once
  <2>. QED
    BY <2>2
<1>5. Once(q, Head(q)) => ~In(Tail(q), Head(q))
  <2>. SUFFICES ASSUME Once(q, Head(q)), NEW i \in 1 .. Len(q) - 1, Tail(q)[i] = Head(q)
                PROVE  FALSE
    BY <1>1 DEF In
  <2>1. i + 1 \in 1 .. Len(q) /\ 1 \in 1 .. Len(q) /\ q[i + 1] = Head(q) /\ q[1] = Head(q)
    BY <1>1
  <2>2. i + 1 = 1
    BY <2>1 DEF Once
  <2>. QED
    BY <2>2
<1>. QED
  BY <1>1, <1>2, <1>3, <1>4, <1>5

LEMMA EmptyQueue ==
  ASSUME NEW c
  PROVE  ~In(<<>>, c) /\ Once(<<>>, c)
BY DEF In, Once

\* A callback leaves a due handler alone.
Timers(d, e) == e.due = d.due /\ (e.deadline = "none" => d.deadline = "none")

LEMMA InvokeTimers ==
  ASSUME NEW d \in CommandRecord, NEW r
  PROVE  Timers(d, invoke_handler(d, r)) /\ invoke_handler(d, r).backoff = "off"
BY DEF Timers, invoke_handler, CommandRecord

LEMMA RetryTimers ==
  ASSUME NEW c, NEW d \in CommandRecord, NEW reason, NEW ec, NEW isClosed
  PROVE  Timers(d, maybe_retry(c, d, reason, ec, isClosed))
<1>1. Timers(d, [d EXCEPT !.backoff = "map_and_send"])
  BY DEF Timers, CommandRecord
<1>2. \/ maybe_retry(c, d, reason, ec, isClosed) = [d EXCEPT !.backoff = "map_and_send"]
      \/ \E r : maybe_retry(c, d, reason, ec, isClosed) = invoke_handler(d, r)
  BY DEF maybe_retry, schedule_for_retry
<1>. QED
  BY <1>1, <1>2, InvokeTimers

LEMMA CanceledTimers ==
  ASSUME NEW c, NEW d \in CommandRecord, NEW reason, NEW isClosed
  PROVE  /\ Timers(d, Canceled(c, d, reason, isClosed))
         /\ c \notin Idempotent /\ ~allows_non_idempotent_retry(reason)
              => Canceled(c, d, reason, isClosed).backoff = "off"
<1>. DEFINE e == [d EXCEPT !.backoff = "off"]
<1>1. e \in CommandRecord /\ Timers(d, e)
  BY DEF CommandRecord, Timers
<1>. HIDE DEF e
<1>2. Timers(e, invoke_handler(e, "request_canceled"))
      /\ invoke_handler(e, "request_canceled").backoff = "off"
  BY <1>1, InvokeTimers
<1>3. Timers(e, maybe_retry(c, e, reason, "request_canceled", isClosed))
  BY <1>1, RetryTimers
<1>4. Canceled(c, d, reason, isClosed) =
        IF c \notin Idempotent /\ ~allows_non_idempotent_retry(reason)
        THEN invoke_handler(e, "request_canceled")
        ELSE maybe_retry(c, e, reason, "request_canceled", isClosed)
  BY DEF Canceled, e
<1>. QED
  BY <1>1, <1>2, <1>3, <1>4 DEF Timers

LEMMA UnknownTimers ==
  ASSUME NEW c, NEW d \in CommandRecord, NEW e \in handle_unknown_collection(c, d)
  PROVE  Timers(d, e)
<1>1. Timers(d, [d EXCEPT !.backoff = "request_collection_id"])
  BY DEF Timers, CommandRecord
<1>. QED
  BY <1>1, InvokeTimers DEF handle_unknown_collection

LEMMA AnsweredTimers ==
  ASSUME NEW c, NEW d \in CommandRecord, NEW f,
         NEW status \in {"success", "error", "not_my_vbucket", "config_only",
                         "temporary_failure", "unknown_collection"},
         f \in Answered(c, d, status)
  PROVE  /\ Timers(d, f)
         /\ status = "success" => f.backoff = "off"
<1>. DEFINE e == [d EXCEPT !.backoff = "off"]
<1>1. e \in CommandRecord /\ Timers(d, e)
  BY DEF CommandRecord, Timers
<1>. HIDE DEF e
<1>2. \/ status # "success" /\ f \in handle_unknown_collection(c, e)
      \/ \E r : f = invoke_handler(e, r)
      \/ status # "success" /\ \E reason, ec, isClosed : f = maybe_retry(c, e, reason, ec, isClosed)
  BY DEF Answered, e
<1>. QED
  BY <1>1, <1>2, InvokeTimers, RetryTimers, UnknownTimers DEF Timers

\* No session starts again.
StoppedStay == \A s \in Sessions : state[s] = "stopped" => state'[s] = "stopped"

LEMMA RunSame ==
  ASSUME IInv, StoppedStay, run' = run, NEW c
  PROVE  RunStays(c)
<1>1. \A t \in Threads : run[t].pc = "flush" => run[t].session \in Sessions
  BY DEF IInv, RunRight, FrameRight
<1>. QED
  BY <1>1 DEF RunStays, Working, Flushing, StoppedStay

\* A thread goes on with frame f, which has nothing of c to flush, and is in the
\* dispatch of c only if it was before.
LEMMA RunFrame ==
  ASSUME IInv, StoppedStay, NEW t \in Threads, NEW f, run' = [run EXCEPT ![t] = f],
         NEW c, f.cmd = c => f.pc # "flush",
         f.cmd = c /\ f.pc \notin {"out", "close", "on_stop"} => Working(t, c)
  PROVE  RunStays(c)
<1>1. \A u \in Threads : run[u].pc = "flush" => run[u].session \in Sessions
  BY DEF IInv, RunRight, FrameRight
<1>2. run \in [Threads -> Frames]
  BY DEF IInv, Types
<1>3. run'[t] = f /\ \A u \in Threads : u # t => run'[u] = run[u]
  BY <1>2
<1>4. \A u \in Threads : Working(u, c)' => Working(u, c)
  BY <1>3 DEF Working
<1>5. \A u \in Threads : Flushing(u, c)' => Flushing(u, c) /\ run'[u] = run[u]
  BY <1>1, <1>3 DEF Flushing, StoppedStay
<1>. QED
  BY <1>4, <1>5 DEF RunStays

\* What a place says of its command.
LEMMA Place ==
  ASSUME NEW c \in Commands, Track(c), MoreTypes, NEW p \in Places, At(c, p)
  PROVE  /\ \A q \in Places : At(c, q) => q = p
         /\ cmd[c].deadline # "none"
         /\ p # "callback" => Quiet(c) /\ (c \notin Idempotent => open[c] = 0)
<1>1. \A q \in Places : At(c, q) => q = p
  BY DEF Track, OneTrack
<1>2. cmd[c].deadline # "none"
  BY DEF Track, Untouched
<1>3. ASSUME p # "callback" PROVE Quiet(c)
  BY <1>3 DEF Track, OneRequest
<1>4. ASSUME p # "callback", c \notin Idempotent PROVE open[c] = 0
  BY <1>4 DEF Track, OneOpen, MoreTypes
<1>. QED
  BY <1>1, <1>2, <1>3, <1>4

LEMMA Elsewhere ==
  ASSUME NEW c \in Commands, Track(c), NEW p \in Places, At(c, p)
  PROVE  /\ p # "deferred" => ~In(deferred, c)
         /\ p # "draining" => ~In(draining, c)
         /\ p # "callback" => \A x \in subs : x.cmd # c
         /\ p # "due" => cmd[c].due = {}
         /\ p # "backoff" => cmd[c].backoff = "off"
         /\ p # "dispatch" => \A t \in Threads : ~Working(t, c)
<1>1. \A q \in Places : At(c, q) => q = p
  BY DEF Track, OneTrack
<1>. QED
  BY <1>1 DEF At, Places

\* What is to be shown of a command that goes to p.
LEMMA OneTrackTo ==
  ASSUME NEW c \in Commands, NEW p \in Places,
         IF p = "deferred" THEN Once(deferred', c) ELSE ~In(deferred', c),
         IF p = "draining" THEN Once(draining', c) ELSE ~In(draining', c),
         IF p = "callback" THEN \A x, y \in subs' : x.cmd = c /\ y.cmd = c => x = y
                           ELSE \A x \in subs' : x.cmd # c,
         IF p = "due" THEN \A k, l \in cmd'[c].due : k = l ELSE cmd'[c].due = {},
         p # "backoff" => cmd'[c].backoff = "off",
         IF p = "dispatch" THEN \A t, u \in Threads : Working(t, c)' /\ Working(u, c)' => t = u
                           ELSE \A t \in Threads : ~Working(t, c)'
  PROVE  OneTrack(c)' /\ \A q \in Places : At(c, q)' => q = p
<1>1. \A q : ~In(q, c) => Once(q, c)
  BY DEF In, Once
<1>2. \A q \in Places : At(c, q)' => q = p
  BY DEF At, Places
<1>. QED
  BY <1>1, <1>2 DEF OneTrack

\* There no request of its operation is on its way.
LEMMA QuietThere ==
  ASSUME NEW c \in Commands, OneTrack(c)', NEW p, \A q \in Places : At(c, q)' => q = p,
         Quiet(c)', c \notin Idempotent => open'[c] = 0, cmd'[c].deadline # "none"
  PROVE  Track(c)'
<1>1. OneRequest(c)'
  BY DEF OneRequest, Quiet
<1>2. OneOpen(c)'
  BY DEF OneOpen, Quiet
<1>3. Untouched(c)'
  BY DEF Untouched
<1>. QED
  BY <1>1, <1>2, <1>3 DEF Track
-----------------------------------------------------------------------------
(* Steps of a dispatch.                                                     *)

\* The requests, callbacks and queues are left alone.
LEMMA SameStays ==
  ASSUME UNCHANGED <<subs, pending, wire, deferred, draining, open>>, NEW c
  PROVE  QueuesStay(c) /\ RequestsStay(c) /\ CallbacksStay(c) /\ open'[c] = open[c]
BY DEF QueuesStay, RequestsStay, CallbacksStay

\* No request is added, and a session that has any stays as it is.
LEMMA HomesStay ==
  ASSUME IInv, Homes, pending' \subseteq pending, wire' \subseteq wire,
         \A s \in Sessions : state[s] \in {"configured", "bootstrapped"} => state'[s] = state[s]
  PROVE  Homes'
<1>1. \A x \in pending \cup wire : x.session \in Sessions
  BY DEF IInv, Types, Requests
<1>. QED
  BY <1>1 DEF Homes

\* A new session.
LEMMA ConnectStays ==
  ASSUME TInv, connect_session \/ UNCHANGED <<state, slot, members>>
  PROVE  /\ StoppedStay
         /\ \A s \in Sessions : state[s] \in {"configured", "bootstrapped"} => state'[s] = state[s]
         /\ state' \in [Sessions -> {"unused", "connecting", "configured", "bootstrapped", "stopped"}]
         /\ members' \subseteq Sessions
<1>1. /\ state \in [Sessions -> {"unused", "connecting", "configured", "bootstrapped", "stopped"}]
      /\ members \subseteq Sessions
  BY DEF TInv, MoreTypes
<1>2. CASE UNCHANGED <<state, slot, members>>
  BY <1>1, <1>2 DEF StoppedStay
<1>3. ASSUME NEW s \in Fresh, state' = [state EXCEPT ![s] = "connecting"],
             members' = members \cup {s}
      PROVE  /\ StoppedStay
             /\ \A r \in Sessions : state[r] \in {"configured", "bootstrapped"} => state'[r] = state[r]
             /\ state' \in [Sessions -> {"unused", "connecting", "configured", "bootstrapped",
                                         "stopped"}]
             /\ members' \subseteq Sessions
  <2>1. s \in Sessions /\ state[s] = "unused"
    BY DEF Fresh, Unused
  <2>. QED
    BY <1>1, <1>3, <2>1 DEF StoppedStay
<1>. QED
  BY <1>2, <1>3 DEF connect_session

LEMMA DispatchTracks ==
  ASSUME IInv, TInv, StoppedStay, NEW t \in Threads,
         run[t].pc \in Early \cup {"request_collection_id", "write"},
         NEW f, run' = [run EXCEPT ![t] = f], f.pc # "flush",
         f.pc = "out" \/ f.cmd = run[t].cmd,
         NEW d, cmd' = [cmd EXCEPT ![run[t].cmd] = d], Timers(cmd[run[t].cmd], d),
         f.pc = "out" \/ d.backoff = cmd[run[t].cmd].backoff,
         UNCHANGED <<subs, pending, wire, deferred, draining, open>>
  PROVE  \A b \in Commands : Track(b)'
<1>0. PICK c \in Commands : c = run[t].cmd
  BY Dispatching DEF Late
<1>1. run \in [Threads -> Frames] /\ cmd \in [Commands -> CommandRecord]
  BY DEF IInv, Types
<1>2. Working(t, c)
  BY <1>0 DEF Working, Early
<1>3. cmd'[c] = d /\ \A b \in Commands : b # c => cmd'[b] = cmd[b]
  BY <1>0, <1>1
<1>4. ASSUME NEW b \in Commands
      PROVE  RunStays(b)
  BY Zenon, <1>0, <1>2, RunFrame
<1>5. \A b \in Commands : Track(b)
  BY DEF TInv
<1>6. ASSUME NEW b \in Commands, b # c
      PROVE  Track(b)'
  BY <1>3, <1>4, <1>5, <1>6, SameStays, StaysTrack DEF Stays, TimersStay
<1>7. CASE d.backoff = cmd[c].backoff
  <2>1. TimersStay(c)
    BY <1>0, <1>3, <1>7 DEF TimersStay, Timers
  <2>. QED
    BY <1>1, <1>4, <1>5, <1>6, <2>1, SameStays, StaysTrack DEF Stays
<1>8. CASE f.pc = "out"
  <2>1. At(c, "dispatch") /\ "dispatch" \in Places /\ "backoff" \in Places
    BY <1>2 DEF At, Places
  <2>2. /\ cmd[c].deadline # "none" /\ Quiet(c) /\ (c \notin Idempotent => open[c] = 0)
        /\ ~In(deferred, c) /\ ~In(draining, c) /\ cmd[c].due = {}
        /\ \A x \in subs : x.cmd # c
    BY <1>1, <1>5, <2>1, Place, Elsewhere DEF TInv
  <2>3. \A u \in Threads : Working(u, c) => u = t
    BY <1>1, <1>2, <1>5 DEF Track, OneTrack
  <2>4. \A u \in Threads : ~Working(u, c)'
    BY <1>1, <1>8, <2>3 DEF Working
  <2>5. Quiet(c)'
    BY <1>1, <1>4, <2>2, QuietStays, SameStays
  <2>6. cmd'[c].due = {} /\ cmd'[c].deadline # "none"
    BY <1>0, <1>3, <2>2 DEF Timers
  <2>7. Track(c)'
    BY <2>1, <2>2, <2>4, <2>5, <2>6, OneTrackTo, QuietThere
  <2>. QED
    BY <1>6, <2>7
<1>. QED
  BY <1>0, <1>7, <1>8

LEMMA CheckTInv ==
  ASSUME IInv, TInv, NEW t \in Threads,
         Check(t) \/ send_to(t) \/ send(t) \/ request_collection_id(t) \/ write_and_subscribe(t)
  PROVE  TInv'
<1>0. PICK c : c = run[t].cmd
  OBVIOUS
<1>1. run[t].pc \in Early \cup {"request_collection_id", "write"}
  BY Zenon DEF Check, send_to, send, request_collection_id, write_and_subscribe, Early
<1>2. /\ run[t] \in Frames /\ c \in Commands
      /\ cmd[c] \in CommandRecord /\ cmd \in [Commands -> CommandRecord]
  BY <1>0, <1>1, Dispatching DEF Late, IInv, Types
<1>3. /\ UNCHANGED <<state, cached, subs, pending, wire, open>>
      /\ UNCHANGED bucket_vars
  BY Zenon DEF Check, send_to, send, request_collection_id, write_and_subscribe, session_vars
<1>4. StoppedStay /\ UNCHANGED <<deferred, draining>>
  BY <1>3 DEF StoppedStay, bucket_vars
<1>5. cmd = [cmd EXCEPT ![c] = cmd[c]] /\ Timers(cmd[c], cmd[c])
  BY <1>2 DEF Timers
<1>6. NotRunning.pc = "out"
  BY DEF NotRunning
<1>7. \E f, d : /\ run' = [run EXCEPT ![t] = f] /\ f.pc # "flush"
                /\ f.pc = "out" \/ f.cmd = c
                /\ cmd' = [cmd EXCEPT ![c] = d] /\ Timers(cmd[c], d)
                /\ f.pc = "out" \/ d.backoff = cmd[c].backoff
  <2>1. CASE Check(t)
    <3>1. PICK pc \in {"map", "defer"} : run' = [run EXCEPT ![t] = [run[t] EXCEPT !.pc = pc]]
      BY <2>1, Zenon DEF Check
    <3>2. [run[t] EXCEPT !.pc = pc].pc = pc /\ [run[t] EXCEPT !.pc = pc].cmd = c
      BY <1>0, <1>2 DEF Frames
    <3>. QED
      BY <1>5, <2>1, <3>1, <3>2, Zenon DEF Check
  <2>2. CASE send_to(t)
    <3>1. CASE run' = [run EXCEPT ![t] = NotRunning] /\ UNCHANGED cmd
      BY Zenon, <1>5, <1>6, <3>1
    <3>2. CASE /\ cmd' = [cmd EXCEPT ![c] = [cmd[c] EXCEPT !.session = run[t].session]]
               /\ run' = [run EXCEPT ![t] = [run[t] EXCEPT !.pc = "send"]]
      <4>1. [run[t] EXCEPT !.pc = "send"].pc = "send" /\ [run[t] EXCEPT !.pc = "send"].cmd = c
        BY <1>0, <1>2 DEF Frames
      <4>2. /\ Timers(cmd[c], [cmd[c] EXCEPT !.session = run[t].session])
            /\ [cmd[c] EXCEPT !.session = run[t].session].backoff = cmd[c].backoff
        BY <1>2 DEF Timers, CommandRecord
      <4>. QED
        BY Zenon, <3>2, <4>1, <4>2
    <3>. QED
      BY <1>0, <2>2, <3>1, <3>2 DEF send_to
  <2>3. CASE send(t)
    <3>1. PICK s, o, known, g :
            \/ /\ cmd' = [cmd EXCEPT ![c] = [cmd[c] EXCEPT !.opaque = o, !.resolved = known]]
               /\ run' = [run EXCEPT ![t] = [run[t] EXCEPT !.pc = g, !.session = s, !.opaque = o]]
               /\ g \in {"write", "request_collection_id"}
            \/ /\ cmd' = [cmd EXCEPT ![c] = invoke_handler([cmd[c] EXCEPT !.opaque = o], "error")]
               /\ run' = [run EXCEPT ![t] = NotRunning]
      <4>. DEFINE z == cmd[run[t].cmd].session
                  n == lastOpaque[z] + 1
                  k == cmd[run[t].cmd].resolved \/ z \in cached
                  pc == IF k THEN "write" ELSE "request_collection_id"
      <4>1. pc \in {"write", "request_collection_id"}
        OBVIOUS
      <4>2. \/ /\ cmd' = [cmd EXCEPT ![run[t].cmd] = [cmd[run[t].cmd] EXCEPT !.opaque = n, !.resolved = k]]
               /\ run' = [run EXCEPT ![t] = [run[t] EXCEPT !.pc = pc, !.session = z, !.opaque = n]]
            \/ /\ cmd' = [cmd EXCEPT ![run[t].cmd] =
                            invoke_handler([cmd[run[t].cmd] EXCEPT !.opaque = n], "error")]
               /\ run' = [run EXCEPT ![t] = NotRunning]
        BY <2>3, Zenon DEF send
      <4>. HIDE DEF z, n, k, pc
      <4>. QED
        BY Zenon, <1>0, <4>1, <4>2
    <3>2. CASE /\ cmd' = [cmd EXCEPT ![c] = [cmd[c] EXCEPT !.opaque = o, !.resolved = known]]
               /\ run' = [run EXCEPT ![t] = [run[t] EXCEPT !.pc = g, !.session = s, !.opaque = o]]
               /\ g \in {"write", "request_collection_id"}
      <4>1. /\ [run[t] EXCEPT !.pc = g, !.session = s, !.opaque = o].pc = g
            /\ [run[t] EXCEPT !.pc = g, !.session = s, !.opaque = o].cmd = c
        BY <1>0, <1>2 DEF Frames
      <4>2. /\ Timers(cmd[c], [cmd[c] EXCEPT !.opaque = o, !.resolved = known])
            /\ [cmd[c] EXCEPT !.opaque = o, !.resolved = known].backoff = cmd[c].backoff
        BY <1>2 DEF Timers, CommandRecord
      <4>. QED
        BY Zenon, <3>2, <4>1, <4>2
    <3>3. CASE /\ cmd' = [cmd EXCEPT ![c] = invoke_handler([cmd[c] EXCEPT !.opaque = o], "error")]
               /\ run' = [run EXCEPT ![t] = NotRunning]
      <4>1. Timers(cmd[c], invoke_handler([cmd[c] EXCEPT !.opaque = o], "error"))
        BY <1>2 DEF Timers, invoke_handler, CommandRecord
      <4>. QED
        BY Zenon, <1>6, <3>3, <4>1
    <3>. QED
      BY <3>1, <3>2, <3>3
  <2>4. CASE request_collection_id(t)
    <3>1. PICK s, o : \/ run' = [run EXCEPT ![t] = Dispatch("map", c, NoSession)]
                      \/ run' = [run EXCEPT ![t] = [Dispatch("write", c, s) EXCEPT !.kind = "lookup",
                                                                                   !.opaque = o]]
      BY <1>0, <2>4, Zenon DEF request_collection_id
    <3>2. /\ Dispatch("map", c, NoSession).pc = "map" /\ Dispatch("map", c, NoSession).cmd = c
          /\ [Dispatch("write", c, s) EXCEPT !.kind = "lookup", !.opaque = o].pc = "write"
          /\ [Dispatch("write", c, s) EXCEPT !.kind = "lookup", !.opaque = o].cmd = c
      BY DEF Dispatch
    <3>. QED
      BY <1>5, <2>4, <3>1, <3>2, Zenon DEF request_collection_id
  <2>5. CASE write_and_subscribe(t)
    <3>1. CASE /\ run' = [run EXCEPT ![t] = NotRunning]
               /\ \E d : /\ cmd' = [cmd EXCEPT ![c] = d]
                         /\ \/ d = Canceled(c, cmd[c], "socket_closed_while_in_flight", closed)
                            \/ d = invoke_handler(cmd[c], "request_canceled")
      <4>1. PICK d : /\ cmd' = [cmd EXCEPT ![c] = d]
                     /\ \/ d = Canceled(c, cmd[c], "socket_closed_while_in_flight", closed)
                        \/ d = invoke_handler(cmd[c], "request_canceled")
        BY Zenon, <3>1
      <4>2. Timers(cmd[c], d)
        BY Zenon, <1>2, <4>1, CanceledTimers, InvokeTimers
      <4>. QED
        BY Zenon, <1>6, <3>1, <4>1, <4>2
    <3>2. CASE run' = [run EXCEPT ![t] = [run[t] EXCEPT !.pc = "subscribe"]] /\ UNCHANGED cmd
      <4>1. /\ [run[t] EXCEPT !.pc = "subscribe"].pc = "subscribe"
            /\ [run[t] EXCEPT !.pc = "subscribe"].cmd = c
        BY <1>0, <1>2 DEF Frames
      <4>. QED
        BY Zenon, <1>5, <3>2, <4>1
    <3>. QED
      BY <1>0, <2>5, <3>1, <3>2 DEF write_and_subscribe
  <2>. QED
    BY <2>1, <2>2, <2>3, <2>4, <2>5
<1>8. \A b \in Commands : Track(b)'
  BY Zenon, <1>0, <1>1, <1>3, <1>4, <1>7, DispatchTracks
<1>9. MoreTypes' /\ Homes'
  BY <1>3 DEF TInv, MoreTypes, Homes, bucket_vars
<1>. QED
  BY <1>8, <1>9 DEF TInv

LEMMA MapTInv ==
  ASSUME IInv, TInv, NEW t \in Threads, map_and_send(t)
  PROVE  TInv'
<1>0. PICK c : c = run[t].cmd
  OBVIOUS
<1>1. run[t].pc = "map"
  BY DEF map_and_send
<1>2. /\ run[t] \in Frames /\ c \in Commands
      /\ cmd[c] \in CommandRecord /\ cmd \in [Commands -> CommandRecord]
  BY <1>0, <1>1, Dispatching DEF Early, IInv, Types
<1>3. /\ UNCHANGED <<cached, subs, pending, wire, open, closed, configured, mapped, dropped,
                     restart, deferred, draining, up, configs>>
      /\ connect_session \/ UNCHANGED <<state, slot, members>>
  BY DEF map_and_send
<1>4. /\ StoppedStay
      /\ \A s \in Sessions : state[s] \in {"configured", "bootstrapped"} => state'[s] = state[s]
      /\ state' \in [Sessions -> {"unused", "connecting", "configured", "bootstrapped", "stopped"}]
      /\ members' \subseteq Sessions
  BY <1>3, ConnectStays
<1>5. cmd = [cmd EXCEPT ![c] = cmd[c]] /\ Timers(cmd[c], cmd[c])
  BY <1>2 DEF Timers
<1>6. /\ NotRunning.pc = "out"
      /\ Dispatch("send_to", c, slot).pc = "send_to" /\ Dispatch("send_to", c, slot).cmd = c
  BY DEF NotRunning, Dispatch
<1>7. \E f, d : /\ run' = [run EXCEPT ![t] = f] /\ f.pc # "flush"
                /\ f.pc = "out" \/ f.cmd = c
                /\ cmd' = [cmd EXCEPT ![c] = d] /\ Timers(cmd[c], d)
                /\ f.pc = "out" \/ d.backoff = cmd[c].backoff
  <2>1. CASE /\ run' = [run EXCEPT ![t] = NotRunning]
             /\ \E d, r : /\ cmd' = [cmd EXCEPT ![c] = d]
                          /\ \/ d = invoke_handler(cmd[c], r)
                             \/ d = maybe_retry(c, cmd[c], "node_not_available",
                                                "request_canceled", closed)
    <3>1. PICK d, r : /\ cmd' = [cmd EXCEPT ![c] = d]
                      /\ \/ d = invoke_handler(cmd[c], r)
                         \/ d = maybe_retry(c, cmd[c], "node_not_available",
                                            "request_canceled", closed)
      BY Zenon, <2>1
    <3>2. Timers(cmd[c], d)
      BY <1>2, <3>1, RetryTimers, InvokeTimers
    <3>. QED
      BY Zenon, <1>6, <2>1, <3>1, <3>2
  <2>2. CASE run' = [run EXCEPT ![t] = [run[t] EXCEPT !.pc = "defer"]] /\ UNCHANGED cmd
    <3>1. [run[t] EXCEPT !.pc = "defer"].pc = "defer" /\ [run[t] EXCEPT !.pc = "defer"].cmd = c
      BY <1>0, <1>2 DEF Frames
    <3>. QED
      BY Zenon, <1>5, <2>2, <3>1
  <2>3. CASE run' = [run EXCEPT ![t] = Dispatch("send_to", c, slot)] /\ UNCHANGED cmd
    BY Zenon, <1>5, <1>6, <2>3
  <2>. QED
    BY <1>0, <2>1, <2>2, <2>3 DEF map_and_send
<1>8. \A b \in Commands : Track(b)'
  BY <1>0, <1>1, <1>3, <1>4, <1>7, DispatchTracks, Zenon DEF Early
<1>9. MoreTypes' /\ Homes'
  BY <1>3, <1>4, HomesStay DEF TInv, MoreTypes
<1>. QED
  BY <1>8, <1>9 DEF TInv

LEMMA DeferTInv ==
  ASSUME IInv, TInv, NEW t \in Threads, defer_command(t)
  PROVE  TInv'
<1>1. run[t].pc = "defer" /\ run' = [run EXCEPT ![t] = NotRunning]
  BY DEF defer_command
<1>2. PICK c \in Commands : c = run[t].cmd
  BY <1>1, Dispatching DEF Early
<1>3. /\ deferred' = Append(deferred, c) /\ deferred \in Seq(Commands)
      /\ UNCHANGED <<cmd, state, cached, subs, pending, wire, open, draining>>
      /\ UNCHANGED <<closed, configured, mapped, members, dropped, restart, up, configs>>
  BY <1>2 DEF defer_command, session_vars, IInv, Types
<1>4. MoreTypes' /\ Homes' /\ StoppedStay
  BY <1>3 DEF TInv, MoreTypes, Homes, StoppedStay
<1>5. ASSUME NEW b \in Commands
      PROVE  RunStays(b)
  <2>1. NotRunning.pc = "out"
    BY DEF NotRunning
  <2>. QED
    BY Zenon, <1>1, <1>4, <2>1, RunFrame
<1>6. ASSUME NEW b \in Commands
      PROVE  RequestsStay(b) /\ CallbacksStay(b) /\ TimersStay(b) /\ open'[b] = open[b]
  BY <1>3 DEF RequestsStay, CallbacksStay, TimersStay
<1>7. \A b \in Commands : Track(b)
  BY DEF TInv
<1>8. ASSUME NEW b \in Commands, b # c
      PROVE  Track(b)'
  <2>1. QueuesStay(b)
    BY <1>3, <1>8, AppendQueue DEF QueuesStay
  <2>. QED
    BY <1>5, <1>6, <1>7, <2>1, StaysTrack DEF Stays
<1>9. Track(c)'
  <2>1. Working(t, c) /\ At(c, "dispatch") /\ {"dispatch", "deferred"} \subseteq Places
    BY <1>1, <1>2 DEF Working, At, Places
  <2>2. /\ cmd[c].deadline # "none" /\ Quiet(c) /\ (c \notin Idempotent => open[c] = 0)
        /\ ~In(deferred, c) /\ ~In(draining, c) /\ cmd[c].due = {} /\ cmd[c].backoff = "off"
        /\ \A x \in subs : x.cmd # c
    BY <1>7, <2>1, Place, Elsewhere DEF TInv
  <2>3. \A u \in Threads : Working(u, c) => u = t
    BY <1>7, <2>1 DEF Track, OneTrack
  <2>4. \A u \in Threads : ~Working(u, c)'
    <3>1. run'[t] = NotRunning /\ \A u \in Threads : u # t => run'[u] = run[u]
      BY <1>1 DEF IInv, Types
    <3>. QED
      BY <2>3, <3>1 DEF Working, NotRunning
  <2>5. Quiet(c)'
    BY <1>5, <1>6, <2>2, QuietStays
  <2>6. Once(deferred', c)
    <3>1. Once(deferred, c)
      BY <1>7 DEF Track, OneTrack
    <3>. QED
      BY <1>3, <2>2, <3>1, AppendQueue
  <2>. QED
    BY <1>3, <2>1, <2>2, <2>4, <2>5, <2>6, OneTrackTo, QuietThere
<1>. QED
  BY <1>4, <1>8, <1>9 DEF TInv

LEMMA SubscribeTInv ==
  ASSUME IInv, TInv, NEW t \in Threads, Subscribe(t)
  PROVE  TInv'
<1>1. PICK f : f = run[t]
  OBVIOUS
<1>2. PICK c \in Commands : c = f.cmd
  BY <1>1, Dispatching DEF Late, Subscribe
<1>3. /\ f \in Frames /\ f.pc = "subscribe" /\ run \in [Threads -> Frames]
      /\ subs' = subs \cup {Carried(f)} /\ run' = [run EXCEPT ![t].pc = "flush"]
      /\ UNCHANGED <<cmd, state, cached, pending, wire, open, bucket_vars>>
  BY <1>1 DEF Subscribe, Carried, IInv, Types
<1>4. MoreTypes' /\ Homes' /\ StoppedStay
  BY <1>3 DEF TInv, MoreTypes, Homes, StoppedStay, bucket_vars
<1>5. PICK g : /\ run' = [run EXCEPT ![t] = g] /\ g.pc = "flush" /\ g.cmd = c
               /\ g.kind = f.kind /\ g.session = f.session /\ g.opaque = f.opaque
  <2>1. PICK g : g = [f EXCEPT !.pc = "flush"]
    BY Zenon
  <2>2. /\ g.pc = "flush" /\ g.cmd = c
        /\ g.kind = f.kind /\ g.session = f.session /\ g.opaque = f.opaque
    BY <1>2, <1>3, <2>1 DEF Frames
  <2>3. run' = [run EXCEPT ![t] = g]
    BY <1>1, <1>3, <2>1
  <2>. QED
    BY Zenon, <2>2, <2>3
<1>6. run'[t] = g /\ \A u \in Threads : u # t => run'[u] = run[u]
  BY <1>3, <1>5
<1>7. Carried(f).cmd = c /\ Carried(f).kind = f.kind /\ Carried(g) = Carried(f)
  BY <1>2, <1>5 DEF Carried, Subscription
<1>8. \A b \in Commands : Track(b)
  BY DEF TInv
<1>9. ASSUME NEW b \in Commands
      PROVE  /\ TimersStay(b) /\ QueuesStay(b) /\ RequestsStay(b) /\ open'[b] = open[b]
             /\ wire' = wire
  BY <1>3 DEF TimersStay, QueuesStay, RequestsStay, bucket_vars
<1>10. ASSUME NEW b \in Commands, b # c
       PROVE  Track(b)'
  <2>1. RunStays(b)
    BY Zenon, <1>4, <1>5, <1>10, RunFrame
  <2>2. CallbacksStay(b)
    BY <1>3, <1>7, <1>9, <1>10 DEF CallbacksStay
  <2>. QED
    BY <1>8, <1>9, <2>1, <2>2, StaysTrack DEF Stays
<1>11. Track(c)'
  <2>1. Working(t, c) /\ At(c, "dispatch") /\ {"dispatch", "callback"} \subseteq Places
    BY <1>1, <1>2, <1>3 DEF Working, At, Places
  <2>2. /\ cmd[c].deadline # "none" /\ Quiet(c) /\ (c \notin Idempotent => open[c] = 0)
        /\ ~In(deferred, c) /\ ~In(draining, c) /\ cmd[c].due = {} /\ cmd[c].backoff = "off"
        /\ \A x \in subs : x.cmd # c
    BY <1>8, <2>1, Place, Elsewhere DEF TInv
  <2>3. \A u \in Threads : Working(u, c) => u = t
    BY <1>8, <2>1 DEF Track, OneTrack
  <2>4. \A u \in Threads : ~Working(u, c)'
    BY <1>5, <1>6, <2>3 DEF Working
  <2>5. \A u \in Threads : Flushing(u, c)' => u = t /\ f.kind = "op"
    <3>1. \A u \in Threads : u # t /\ Flushing(u, c)' => Flushing(u, c)
      BY <1>3, <1>6 DEF Flushing
    <3>2. Flushing(t, c)' => f.kind = "op"
      BY <1>5, <1>6 DEF Flushing
    <3>. QED
      BY <2>2, <3>1, <3>2 DEF Quiet
  <2>6. \A x \in subs' : x.cmd = c => x = Carried(f)
    BY <1>3, <2>2
  <2>7. OneTrack(c)' /\ \A q \in Places : At(c, q)' => q = "callback"
    BY <1>3, <2>1, <2>2, <2>4, <2>6, OneTrackTo DEF bucket_vars
  <2>8. \A x \in pending' \cup wire' : ~Op(x, c)
    BY <1>3, <2>2 DEF Quiet
  <2>9. OneRequest(c)'
    <3>1. f.kind # "op" => Quiet(c)'
      BY <2>5, <2>8 DEF Quiet
    <3>. QED
      BY <1>6, <1>7, <2>5, <2>6, <2>7, <2>8, <3>1 DEF OneRequest
  <2>10. OneOpen(c)'
    BY <1>3, <2>2, <2>8 DEF OneOpen
  <2>. QED
    BY <1>3, <2>2, <2>7, <2>9, <2>10 DEF Track, Untouched
<1>. QED
  BY <1>4, <1>10, <1>11 DEF TInv

\* A request of the operation that has not reached the wire.
LEMMA Unsent ==
  ASSUME NEW c \in Commands, Track(c), MoreTypes, NEW x, Op(x, c), x \notin wire,
         x \in pending \/ \E t \in Threads : Flushing(t, c) /\ x = Carried(run[t])
  PROVE  /\ c \notin Idempotent => open[c] = 0
         /\ \A p \in Places : At(c, p) => p = "callback"
         /\ \A y \in subs : y.cmd = c => y = x
         /\ \A y \in wire : ~Op(y, c)
         /\ \A y \in pending : Op(y, c) => y = x
         /\ cmd[c].deadline # "none"
<1>1. ~Quiet(c)
  BY DEF Quiet
<1>2. c \notin Idempotent => open[c] = 0
  BY DEF Track, OneOpen, MoreTypes
<1>3. \A p \in Places : At(c, p) => p = "callback"
  BY <1>1 DEF Track, OneRequest
<1>4. \A y \in subs : y.cmd = c => y = x
  BY DEF Track, OneRequest
<1>5. \A y \in wire : ~Op(y, c)
  BY DEF Track, OneRequest
<1>6. \A y \in pending : Op(y, c) => y = x
  BY DEF Track, OneRequest
<1>7. cmd[c].deadline # "none"
  BY <1>1 DEF Track, Untouched
<1>. QED
  BY <1>2, <1>3, <1>4, <1>5, <1>6, <1>7

\* It is put into the buffer of the session, or reaches the wire.
LEMMA RequestMoves ==
  ASSUME NEW c \in Commands, Track(c), MoreTypes, NEW x, Op(x, c),
         c \notin Idempotent => open[c] = 0,
         \A p \in Places : At(c, p) => p = "callback",
         \A y \in subs : y.cmd = c => y = x,
         cmd[c].deadline # "none",
         UNCHANGED <<cmd, subs, deferred, draining>>,
         \A t \in Threads : ~Flushing(t, c)' /\ (Working(t, c)' => Working(t, c)),
         \A y \in pending' \cup wire' : Op(y, c) => y = x,
         \/ open'[c] = open[c] /\ \A y \in wire' : ~Op(y, c)
         \/ open'[c] = open[c] + 1 /\ x \in wire' /\ \A y \in pending' : ~Op(y, c)
  PROVE  Track(c)'
<1>1. \A p \in Places : At(c, p)' => At(c, p)
  BY DEF At, Places
<1>2. OneTrack(c)'
  BY <1>1 DEF Track, OneTrack
<1>3. OneRequest(c)'
  BY <1>1 DEF OneRequest, Op
<1>4. open[c] \in Nat
  BY DEF MoreTypes
<1>5. OneOpen(c)'
  BY <1>1, <1>4 DEF OneOpen, Op
<1>. QED
  BY <1>2, <1>3, <1>5 DEF Track, Untouched

LEMMA TransmitOpen ==
  ASSUME IInv, MoreTypes, NEW Q, Q \subseteq Requests, Transmit(Q)
  PROVE  /\ open' \in [Commands -> Nat]
         /\ wire' = wire \cup Q
         /\ \A c \in Commands : open'[c] = IF \E x \in Q : Op(x, c) THEN open[c] + 1 ELSE open[c]
<1>1. wire' = wire \cup Q
  BY DEF Transmit
<1>2. \A c \in Commands : open'[c] = IF \E x \in Q : Op(x, c) THEN open[c] + 1 ELSE open[c]
  BY DEF Transmit, Op
<1>3. open' = [c \in Commands |-> open'[c]]
  BY DEF Transmit
<1>4. \A c \in Commands : open[c] \in Nat
  BY DEF MoreTypes
<1>5. \A c \in Commands : open'[c] \in Nat
  BY <1>2, <1>4
<1>. QED
  BY <1>1, <1>2, <1>3, <1>5

LEMMA FlushTInv ==
  ASSUME IInv, TInv, NEW t \in Threads, Flush(t)
  PROVE  TInv'
<1>1. PICK f, x : f = run[t] /\ x = Carried(f)
  OBVIOUS
<1>2. PICK c \in Commands : c = f.cmd
  BY <1>1, Dispatching DEF Late, Flush
<1>3. /\ f \in Frames /\ f.pc = "flush" /\ run \in [Threads -> Frames]
      /\ f.session \in Sessions
  BY <1>1 DEF Flush, IInv, Types, RunRight, FrameRight
<1>4. /\ run' = [run EXCEPT ![t] = NotRunning]
      /\ UNCHANGED <<cmd, state, cached, subs, bucket_vars>>
      /\ \/ /\ state[f.session] = "stopped"
            /\ UNCHANGED <<pending, wire, open>>
         \/ /\ state[f.session] = "configured"
            /\ pending' = pending \cup {x}
            /\ UNCHANGED <<wire, open>>
         \/ /\ state[f.session] = "bootstrapped"
            /\ Transmit({x}) /\ UNCHANGED pending
  BY <1>1 DEF Flush, Carried
<1>5. /\ x.cmd = c /\ x.kind = f.kind /\ x.session = f.session /\ x \in Requests
  BY <1>1, <1>2, <1>3 DEF Carried, Subscription, Requests, Frames
<1>6. \A b \in Commands : Track(b)
  BY DEF TInv
<1>7. StoppedStay /\ UNCHANGED <<deferred, draining>>
  BY <1>4 DEF StoppedStay, bucket_vars
<1>8. /\ run'[t] = NotRunning /\ \A u \in Threads : u # t => run'[u] = run[u]
      /\ NotRunning.pc = "out"
  BY <1>3, <1>4 DEF NotRunning
<1>9. \A b \in Commands : RunStays(b)
  BY Zenon, <1>4, <1>7, <1>8, RunFrame
<1>10. \A b \in Commands : QueuesStay(b) /\ TimersStay(b)
  BY <1>4, <1>7 DEF QueuesStay, TimersStay
<1>11. CASE state[f.session] = "stopped" /\ UNCHANGED <<pending, wire, open>>
  <2>1. MoreTypes' /\ Homes'
    BY <1>4, <1>11, Zenon DEF TInv, MoreTypes, Homes, bucket_vars
  <2>2. \A b \in Commands : Track(b)'
    BY <1>4, <1>6, <1>7, <1>9, <1>10, <1>11, SameStays, StaysTrack, Zenon DEF Stays
  <2>. QED
    BY <2>1, <2>2 DEF TInv
<1>12. CASE state[f.session] # "stopped"
  <2>1. /\ open' \in [Commands -> Nat]
        /\ \A b \in Commands : b # c \/ f.kind # "op" => open'[b] = open[b]
        /\ \/ pending' = pending \cup {x} /\ wire' = wire /\ open' = open
           \/ /\ wire' = wire \cup {x} /\ pending' = pending
              /\ f.kind = "op" => open'[c] = open[c] + 1
    <3>1. CASE pending' = pending \cup {x} /\ UNCHANGED <<wire, open>>
      BY <3>1 DEF TInv, MoreTypes
    <3>2. CASE Transmit({x}) /\ UNCHANGED pending
      <4>1. /\ open' \in [Commands -> Nat] /\ wire' = wire \cup {x}
            /\ \A b \in Commands : open'[b] = IF \E y \in {x} : Op(y, b) THEN open[b] + 1 ELSE open[b]
        BY <1>5, <3>2, TransmitOpen DEF TInv
      <4>. QED
        BY <1>5, <3>2, <4>1 DEF Op
    <3>. QED
      BY <1>4, <1>12, <3>1, <3>2
  <2>2. MoreTypes'
    BY <1>4, <2>1 DEF TInv, MoreTypes, bucket_vars
  <2>3. Homes'
    <3>1. \/ pending' = pending \cup {x} /\ wire' = wire /\ state[x.session] = "configured"
          \/ wire' = wire \cup {x} /\ pending' = pending /\ state[x.session] = "bootstrapped"
      BY <1>4, <1>5, <1>12 DEF Transmit
    <3>. QED
      BY <1>4, <3>1 DEF TInv, Homes
  <2>4. ASSUME NEW b \in Commands, b # c \/ f.kind # "op"
        PROVE  Track(b)'
    <3>1. ~Op(x, b)
      BY <1>5, <2>4 DEF Op
    <3>2. RequestsStay(b) /\ CallbacksStay(b)
      BY <1>4, <2>1, <3>1 DEF RequestsStay, CallbacksStay
    <3>. QED
      BY <1>6, <1>9, <1>10, <2>1, <2>4, <3>2, StaysTrack DEF Stays
  <2>5. ASSUME f.kind = "op"
        PROVE  Track(c)'
    <3>1. Op(x, c) /\ Flushing(t, c)
      BY <1>1, <1>2, <1>3, <1>5, <1>12, <2>5 DEF Op, Flushing
    <3>2. \A y \in pending \cup wire : ~Op(y, c)
      BY <1>6, <3>1 DEF Track, OneRequest
    <3>3. /\ c \notin Idempotent => open[c] = 0
          /\ \A p \in Places : At(c, p) => p = "callback"
          /\ \A y \in subs : y.cmd = c => y = x
          /\ cmd[c].deadline # "none"
      BY <1>1, <1>6, <3>1, <3>2, Unsent DEF TInv
    <3>4. \A u \in Threads : ~Flushing(u, c)' /\ (Working(u, c)' => Working(u, c))
      <4>1. \A u \in Threads : Flushing(u, c) => u = t
        BY <1>6, <3>1 DEF Track, OneRequest
      <4>2. ~Flushing(t, c)'
        BY <1>8 DEF Flushing
      <4>. QED
        BY <1>9, <4>1, <4>2 DEF RunStays
    <3>5. /\ \A y \in pending' \cup wire' : Op(y, c) => y = x
          /\ \/ open'[c] = open[c] /\ \A y \in wire' : ~Op(y, c)
             \/ open'[c] = open[c] + 1 /\ x \in wire' /\ \A y \in pending' : ~Op(y, c)
      BY <2>1, <2>5, <3>2
    <3>. QED
      BY <1>4, <1>6, <1>7, <3>1, <3>3, <3>4, <3>5, RequestMoves, ZenonT(30) DEF TInv
  <2>. QED
    BY <2>2, <2>3, <2>4, <2>5 DEF TInv
<1>. QED
  BY <1>4, <1>11, <1>12

LEMMA FinishTInv ==
  ASSUME IInv, TInv, FinishBootstrap
  PROVE  TInv'
<1>1. PICK s \in Sessions : s = up
  BY DEF FinishBootstrap, TInv, MoreTypes
<1>2. /\ UNCHANGED <<cmd, cached, subs, closed, configured, mapped, members, dropped, restart,
                     deferred, draining, configs, run>>
      /\ up' = NoSession
  BY DEF FinishBootstrap
<1>3. \A b \in Commands : Track(b)
  BY DEF TInv
<1>4. CASE UNCHANGED <<state, pending, wire, open>>
  <2>1. StoppedStay /\ MoreTypes' /\ Homes'
    BY <1>2, <1>4 DEF StoppedStay, TInv, MoreTypes, Homes
  <2>2. ASSUME NEW b \in Commands
        PROVE  Track(b)'
    <3>1. RunStays(b)
      BY <1>2, <2>1, RunSame
    <3>2. TimersStay(b)
      BY <1>2 DEF TimersStay
    <3>. QED
      BY <1>2, <1>3, <1>4, <3>1, <3>2, SameStays, StaysTrack DEF Stays
  <2>. QED
    BY <2>1, <2>2 DEF TInv
<1>5. CASE /\ state[s] # "stopped" /\ state' = [state EXCEPT ![s] = "bootstrapped"]
           /\ Transmit({x \in pending : x.session = s})
           /\ pending' = {x \in pending : x.session # s}
  <2>. DEFINE Q == {x \in pending : x.session = s}
  <2>1. Q \subseteq Requests
    BY DEF IInv, Types
  <2>2. /\ open' \in [Commands -> Nat] /\ wire' = wire \cup Q
        /\ \A c \in Commands : open'[c] = IF \E x \in Q : Op(x, c) THEN open[c] + 1 ELSE open[c]
    <3>. HIDE DEF Q
    <3>1. Transmit(Q)
      BY <1>5 DEF Q
    <3>. QED
      BY <2>1, <3>1, TransmitOpen DEF TInv
  <2>3. /\ state \in [Sessions -> {"unused", "connecting", "configured", "bootstrapped", "stopped"}]
        /\ pending \subseteq Requests /\ wire \subseteq Requests
    BY DEF TInv, MoreTypes, IInv, Types
  <2>4. MoreTypes' /\ StoppedStay
    BY <1>2, <1>5, <2>2, <2>3 DEF TInv, MoreTypes, StoppedStay
  <2>5. Homes'
    BY <1>5, <2>2, <2>3 DEF TInv, Homes, Requests
  <2>6. ASSUME NEW b \in Commands
        PROVE  RunStays(b) /\ QueuesStay(b) /\ TimersStay(b)
    <3>1. RunStays(b)
      BY <1>2, <2>4, RunSame
    <3>. QED
      BY <1>2, <3>1 DEF QueuesStay, TimersStay
  <2>7. ASSUME NEW b \in Commands, \A x \in Q : ~Op(x, b)
        PROVE  Track(b)'
    <3>1. open'[b] = open[b]
      BY <2>2, <2>7
    <3>2. RequestsStay(b) /\ CallbacksStay(b)
      BY <1>2, <1>5, <2>2, <2>7 DEF RequestsStay, CallbacksStay
    <3>. QED
      BY <1>3, <2>6, <3>1, <3>2, StaysTrack DEF Stays
  <2>8. ASSUME NEW c \in Commands, NEW x \in Q, Op(x, c)
        PROVE  Track(c)'
    <3>1. x \in pending /\ x \notin wire
      BY DEF TInv, Homes
    <3>2. /\ c \notin Idempotent => open[c] = 0
          /\ \A p \in Places : At(c, p) => p = "callback"
          /\ \A y \in subs : y.cmd = c => y = x
          /\ \A y \in wire : ~Op(y, c)
          /\ \A y \in pending : Op(y, c) => y = x
          /\ cmd[c].deadline # "none"
      BY <1>3, <2>8, <3>1, Unsent, Zenon DEF TInv
    <3>3. \A t \in Threads : ~Flushing(t, c)' /\ (Working(t, c)' => Working(t, c))
      <4>1. \A t \in Threads : ~Flushing(t, c)
        BY <1>3, <2>8, <3>1 DEF Track, OneRequest
      <4>. QED
        BY <2>6, <4>1 DEF RunStays
    <3>4. /\ \A y \in pending' \cup wire' : Op(y, c) => y = x
          /\ open'[c] = open[c] + 1 /\ x \in wire' /\ \A y \in pending' : ~Op(y, c)
      BY <1>5, <2>2, <2>8, <3>2
    <3>. QED
      BY <1>2, <1>3, <2>8, <3>2, <3>3, <3>4, RequestMoves, Zenon DEF TInv
  <2>. QED
    BY <2>4, <2>5, <2>7, <2>8 DEF TInv
<1>. QED
  BY <1>1, <1>4, <1>5 DEF FinishBootstrap
-----------------------------------------------------------------------------
(* Starts, timers and cancellation.                                         *)

\* A command that was nowhere, or in one place that no request goes with,
\* starts a dispatch on thread t.
LEMMA StartTracks ==
  ASSUME IInv, TInv, NEW t \in Threads, NEW c \in Commands, NEW f,
         run' = [run EXCEPT ![t] = f],
         f.cmd = c /\ f.pc \in {"check", "map", "send", "request_collection_id"},
         StoppedStay,
         Quiet(c), c \notin Idempotent => open[c] = 0,
         \A u \in Threads : ~Working(u, c),
         ~In(deferred', c), ~In(draining', c), \A x \in subs' : x.cmd # c,
         cmd'[c].due = {}, cmd'[c].backoff = "off", cmd'[c].deadline # "none",
         RequestsStay(c), open'[c] = open[c],
         \A b \in Commands : b # c =>
           /\ QueuesStay(b) /\ TimersStay(b) /\ RequestsStay(b) /\ CallbacksStay(b)
           /\ open'[b] = open[b]
  PROVE  \A b \in Commands : Track(b)'
<1>1. \A b \in Commands : Track(b)
  BY DEF TInv
<1>2. ASSUME NEW b \in Commands, b # c
      PROVE  Track(b)'
  <2>1. RunStays(b)
    BY Zenon, <1>2, RunFrame
  <2>. QED
    BY <1>1, <1>2, <2>1, StaysTrack DEF Stays
<1>3. run'[t] = f /\ \A u \in Threads : u # t => run'[u] = run[u]
  BY Zenon DEF IInv, Types
<1>4. \A u \in Threads : Working(u, c)' => u = t
  BY <1>3 DEF Working
<1>5. \A u \in Threads : ~Flushing(u, c)'
  <2>1. \A u \in Threads : run[u].pc = "flush" => run[u].session \in Sessions
    BY Zenon DEF IInv, RunRight, FrameRight
  <2>. QED
    BY <1>3, <2>1, Zenon DEF Quiet, Flushing, StoppedStay
<1>6. Quiet(c)'
  BY <1>5, Zenon DEF Quiet, RequestsStay
<1>7. "dispatch" \in Places
  BY Zenon DEF Places
<1>8. Track(c)'
  BY Zenon, <1>4, <1>6, <1>7, OneTrackTo, QuietThere
<1>. QED
  BY <1>2, <1>8

LEMMA ExecuteTInv ==
  ASSUME IInv, TInv, NEW c \in Commands, execute(c)
  PROVE  TInv'
<1>1. /\ cmd[c].deadline = "none" /\ cmd \in [Commands -> CommandRecord]
      /\ UNCHANGED <<state, cached, subs, pending, wire, open>> /\ UNCHANGED bucket_vars
      /\ cmd[c] \in CommandRecord
  BY DEF execute, session_vars, IInv, Types
<1>2. MoreTypes' /\ Homes' /\ StoppedStay /\ UNCHANGED <<deferred, draining>>
  BY <1>1, Zenon DEF TInv, MoreTypes, Homes, StoppedStay, bucket_vars
<1>3. \A b \in Commands : Track(b)
  BY DEF TInv
<1>4. ASSUME NEW b \in Commands
      PROVE  QueuesStay(b) /\ RequestsStay(b) /\ CallbacksStay(b) /\ open'[b] = open[b]
  BY <1>1, <1>2, SameStays
<1>5. (\A p \in Places : ~At(c, p)) /\ Quiet(c) /\ open[c] = 0
  BY <1>1, <1>3 DEF Track, Untouched
<1>6. /\ ~In(deferred, c) /\ ~In(draining, c) /\ \A x \in subs : x.cmd # c
      /\ cmd[c].due = {} /\ cmd[c].backoff = "off" /\ \A u \in Threads : ~Working(u, c)
  BY <1>5 DEF At, Places
<1>7. CASE cmd' = [cmd EXCEPT ![c].deadline = "off"] /\ UNCHANGED run
  <2>1. ASSUME NEW b \in Commands
        PROVE  TimersStay(b) /\ RunStays(b)
    <3>1. TimersStay(b)
      <4>1. CASE b # c
        BY <1>1, <1>7, <4>1 DEF TimersStay
      <4>2. CASE b = c
        BY <1>1, <1>7, <4>2 DEF TimersStay, CommandRecord
      <4>. QED
        BY <4>1, <4>2
    <3>. QED
      BY <1>2, <1>7, <3>1, RunSame
  <2>2. \A b \in Commands : Track(b)'
    BY <1>3, <1>4, <2>1, StaysTrack DEF Stays
  <2>. QED
    BY <1>2, <2>2 DEF TInv
<1>8. CASE run' = [run EXCEPT ![ThreadOf(c)] = Dispatch("check", c, NoSession)]
  <2>1. ThreadOf(c) \in Threads
    BY Stop DEF ThreadOf
  <2>2. PICK d, r : /\ d = [cmd[c] EXCEPT !.handler = TRUE, !.deadline = "armed"]
                    /\ \/ cmd' = [cmd EXCEPT ![c] = invoke_handler(d, r)]
                       \/ cmd' = [cmd EXCEPT ![c] = [d EXCEPT !.token = "set"]]
                       \/ cmd' = [cmd EXCEPT ![c].deadline = "off"]
    BY Zenon DEF execute
  <2>3. d \in CommandRecord /\ d.due = {} /\ d.backoff = "off" /\ d.deadline = "armed"
    BY <1>1, <1>6, <2>2, Zenon DEF CommandRecord
  <2>4. cmd'[c].due = {} /\ cmd'[c].backoff = "off" /\ cmd'[c].deadline # "none"
    <3>1. CASE cmd' = [cmd EXCEPT ![c] = invoke_handler(d, r)]
      BY <1>1, <2>3, <3>1, InvokeTimers DEF Timers
    <3>2. CASE cmd' = [cmd EXCEPT ![c] = [d EXCEPT !.token = "set"]]
      BY <1>1, <2>3, <3>2 DEF CommandRecord
    <3>3. CASE cmd' = [cmd EXCEPT ![c].deadline = "off"]
      BY <1>1, <1>6, <3>3 DEF CommandRecord
    <3>. QED
      BY <2>2, <3>1, <3>2, <3>3
  <2>5. \A b \in Commands : b # c => TimersStay(b)
    BY <1>1, <2>2 DEF TimersStay
  <2>6. Dispatch("check", c, NoSession).cmd = c /\ Dispatch("check", c, NoSession).pc = "check"
    BY DEF Dispatch
  <2>7. \A b \in Commands : Track(b)'
    BY Zenon, <1>1, <1>2, <1>4, <1>5, <1>6, <1>8, <2>1, <2>4, <2>5, <2>6, StartTracks
  <2>. QED
    BY <1>2, <2>7 DEF TInv
<1>. QED
  BY <1>7, <1>8 DEF execute

LEMMA TimersTInv ==
  ASSUME IInv, TInv, NEW c \in Commands, DeadlineExpires(c) \/ BackoffExpires(c)
  PROVE  TInv'
<1>1. /\ UNCHANGED <<state, cached, subs, pending, wire, open, run>> /\ UNCHANGED bucket_vars
      /\ cmd \in [Commands -> CommandRecord] /\ cmd[c] \in CommandRecord
  BY DEF DeadlineExpires, BackoffExpires, session_vars, IInv, Types
<1>2. MoreTypes' /\ Homes' /\ StoppedStay /\ UNCHANGED <<deferred, draining>>
  BY <1>1, Zenon DEF TInv, MoreTypes, Homes, StoppedStay, bucket_vars
<1>3. \A b \in Commands : Track(b)
  BY DEF TInv
<1>4. ASSUME NEW b \in Commands
      PROVE  /\ QueuesStay(b) /\ RequestsStay(b) /\ CallbacksStay(b) /\ open'[b] = open[b]
             /\ RunStays(b)
  BY <1>1, <1>2, SameStays, RunSame
<1>5. CASE DeadlineExpires(c)
  <2>1. ASSUME NEW b \in Commands
        PROVE  TimersStay(b)
    <3>1. CASE b # c
      BY <1>1, <1>5, <3>1 DEF DeadlineExpires, TimersStay
    <3>2. CASE b = c
      BY <1>1, <1>5, <3>2 DEF DeadlineExpires, TimersStay, CommandRecord
    <3>. QED
      BY <3>1, <3>2
  <2>2. \A b \in Commands : Track(b)'
    BY <1>3, <1>4, <2>1, StaysTrack, Zenon DEF Stays
  <2>. QED
    BY <1>2, <2>2 DEF TInv
<1>6. CASE BackoffExpires(c)
  <2>1. \A b \in Commands : b # c => TimersStay(b)
    BY <1>1, <1>6 DEF BackoffExpires, TimersStay
  <2>2. At(c, "backoff") /\ {"backoff", "due"} \subseteq Places
    BY <1>6 DEF BackoffExpires, At, Places
  <2>3. /\ cmd[c].deadline # "none" /\ Quiet(c) /\ (c \notin Idempotent => open[c] = 0)
        /\ ~In(deferred, c) /\ ~In(draining, c) /\ cmd[c].due = {}
        /\ \A x \in subs : x.cmd # c
        /\ \A u \in Threads : ~Working(u, c)
    <3>1. /\ "backoff" # "callback" /\ "backoff" # "deferred" /\ "backoff" # "draining"
          /\ "backoff" # "due" /\ "backoff" # "dispatch" /\ "backoff" \in Places
      BY DEF Places
    <3>2. Track(c) /\ MoreTypes
      BY <1>3, Zenon DEF TInv
    <3>3. /\ cmd[c].deadline # "none" /\ Quiet(c)
          /\ c \notin Idempotent => open[c] = 0
      BY <2>2, <3>1, <3>2, Place, Zenon
    <3>. QED
      BY <2>2, <3>1, <3>2, <3>3, Elsewhere, Zenon
  <2>4. /\ cmd'[c].due = {cmd[c].backoff} /\ cmd'[c].backoff = "off"
        /\ cmd'[c].deadline = cmd[c].deadline
    BY <1>1, <1>6, <2>3 DEF BackoffExpires, CommandRecord
  <2>5. Quiet(c)' /\ \A u \in Threads : ~Working(u, c)'
    BY <1>4, <2>3, QuietStays DEF RunStays
  <2>6. Track(c)'
    BY Zenon, <1>1, <1>2, <2>2, <2>3, <2>4, <2>5, OneTrackTo, QuietThere
  <2>7. \A b \in Commands : b # c => Track(b)'
    BY <1>3, <1>4, <2>1, StaysTrack, Zenon DEF Stays
  <2>. QED
    BY <1>2, <2>6, <2>7 DEF TInv
<1>. QED
  BY <1>5, <1>6

LEMMA BackoffTInv ==
  ASSUME IInv, TInv, NEW c \in Commands, Backoff(c)
  PROVE  TInv'
<1>1. /\ UNCHANGED <<state, cached, subs, pending, wire, open>> /\ UNCHANGED bucket_vars
      /\ cmd \in [Commands -> CommandRecord] /\ cmd[c] \in CommandRecord
  BY DEF Backoff, session_vars, IInv, Types
<1>2. MoreTypes' /\ Homes' /\ StoppedStay /\ UNCHANGED <<deferred, draining>>
  BY <1>1 DEF TInv, MoreTypes, Homes, StoppedStay, bucket_vars
<1>3. \A b \in Commands : Track(b)
  BY DEF TInv
<1>4. ASSUME NEW b \in Commands
      PROVE  QueuesStay(b) /\ RequestsStay(b) /\ CallbacksStay(b) /\ open'[b] = open[b]
  BY <1>1, <1>2, SameStays
<1>5. PICK k \in cmd[c].due :
        /\ cmd' = [cmd EXCEPT ![c].due = @ \ {k}]
        /\ run' = [run EXCEPT ![IO] = Dispatch(IF k = "map_and_send" THEN "map" ELSE k, c, NoSession)]
  BY Zenon DEF Backoff
<1>6. At(c, "due") /\ "due" \in Places
  BY DEF At, Places
<1>7. /\ cmd[c].deadline # "none" /\ Quiet(c) /\ (c \notin Idempotent => open[c] = 0)
      /\ ~In(deferred, c) /\ ~In(draining, c) /\ cmd[c].backoff = "off"
      /\ \A x \in subs : x.cmd # c
      /\ \A u \in Threads : ~Working(u, c)
  BY <1>3, <1>6, Place, Elsewhere, ZenonT(30) DEF TInv
<1>8. cmd[c].due = {k}
  BY <1>3 DEF Track, OneTrack
<1>9. /\ cmd'[c].due = {} /\ cmd'[c].backoff = "off" /\ cmd'[c].deadline # "none"
      /\ \A b \in Commands : b # c => TimersStay(b)
  BY <1>1, <1>5, <1>7, <1>8 DEF CommandRecord, TimersStay
<1>10. PICK pc \in {"map", "request_collection_id"} :
         run' = [run EXCEPT ![IO] = Dispatch(pc, c, NoSession)]
  BY <1>1, <1>5, Zenon DEF CommandRecord, Waits
<1>11. Dispatch(pc, c, NoSession).pc = pc /\ Dispatch(pc, c, NoSession).cmd = c
  BY DEF Dispatch
<1>12. \A b \in Commands : Track(b)'
  BY Zenon, <1>1, <1>2, <1>4, <1>7, <1>9, <1>10, <1>11, Stop, StartTracks
<1>. QED
  BY <1>2, <1>12, Zenon DEF TInv

LEMMA DrainTInv ==
  ASSUME IInv, TInv, drain_deferred_queue
  PROVE  TInv'
<1>1. /\ UNCHANGED <<cmd, state, cached, subs, pending, wire, open, deferred>>
      /\ UNCHANGED <<closed, configured, mapped, members, dropped, restart, up, configs>>
      /\ draining # <<>> /\ draining' = Tail(draining)
      /\ draining \in Seq(Commands)
  BY DEF drain_deferred_queue, session_vars, IInv, Types
<1>2. MoreTypes' /\ Homes' /\ StoppedStay
  BY <1>1 DEF TInv, MoreTypes, Homes, StoppedStay
<1>3. \A b \in Commands : Track(b)
  BY DEF TInv
<1>4. PICK c \in Commands : c = Head(draining)
  BY <1>1, TailQueue
<1>5. ASSUME NEW b \in Commands
      PROVE  /\ RequestsStay(b) /\ CallbacksStay(b) /\ open'[b] = open[b]
             /\ QueuesStay(b) /\ TimersStay(b)
  BY <1>1, TailQueue DEF RequestsStay, CallbacksStay, QueuesStay, TimersStay
<1>6. At(c, "draining") /\ "draining" \in Places
  BY <1>1, <1>4, TailQueue DEF At, Places
<1>7. /\ cmd[c].deadline # "none" /\ Quiet(c) /\ (c \notin Idempotent => open[c] = 0)
      /\ ~In(deferred, c) /\ cmd[c].due = {} /\ cmd[c].backoff = "off"
      /\ \A x \in subs : x.cmd # c
      /\ \A u \in Threads : ~Working(u, c)
  BY <1>3, <1>6, Place, Elsewhere DEF TInv
<1>8. ~In(draining', c)
  <2>1. Once(draining, c)
    BY <1>3 DEF Track, OneTrack
  <2>. QED
    BY <1>1, <1>4, <2>1, TailQueue
<1>9. run' = [run EXCEPT ![IO] = Dispatch("map", c, NoSession)]
  BY <1>4 DEF drain_deferred_queue
<1>10. Dispatch("map", c, NoSession).pc = "map" /\ Dispatch("map", c, NoSession).cmd = c
  BY DEF Dispatch
<1>11. \A b \in Commands : Track(b)'
  BY Zenon, <1>1, <1>2, <1>5, <1>7, <1>8, <1>9, <1>10, Stop, StartTracks
<1>. QED
  BY <1>2, <1>11 DEF TInv

LEMMA InvokeRecord ==
  ASSUME NEW d \in CommandRecord, NEW r \in Results
  PROVE  invoke_handler(d, r) \in CommandRecord
<1>1. d.results \in Seq(Results) /\ Append(d.results, r) \in Seq(Results)
  BY DEF CommandRecord
<1>. QED
  BY <1>1, Zenon DEF invoke_handler, CommandRecord

\* cancel() takes callbacks away and calls them; it starts nothing.
LEMMA CancelTracks ==
  ASSUME IInv, TInv, NEW c \in Commands, NEW d \in CommandRecord, Timers(cmd[c], d),
         d.backoff = cmd[c].backoff, NEW result, Cancel(c, d, result)
  PROVE  TInv'
<1>. DEFINE hit == {x \in subs : /\ x.session = d.session
                                 /\ x.opaque = d.opaque
                                 /\ state[x.session] # "stopped"}
<1>1. /\ UNCHANGED <<state, cached, pending, wire, open, run>> /\ UNCHANGED bucket_vars
      /\ subs' = subs \ hit /\ cmd \in [Commands -> CommandRecord]
  BY DEF Cancel, IInv, Types
<1>2. MoreTypes' /\ Homes' /\ StoppedStay /\ UNCHANGED <<deferred, draining>>
  BY <1>1, Zenon DEF TInv, MoreTypes, Homes, StoppedStay, bucket_vars
<1>3. \A b \in Commands : Track(b)
  BY DEF TInv
<1>. DEFINE called == [cmd EXCEPT ![c] = d]
<1>4. /\ called \in [Commands -> CommandRecord] /\ called[c] = d
      /\ \A b \in Commands : b # c => called[b] = cmd[b]
  BY <1>1
<1>5. \A b \in Commands : Timers(cmd[b], called[b]) /\ called[b].backoff = cmd[b].backoff
  BY <1>4 DEF Timers
<1>. HIDE DEF hit, called
<1>6. ASSUME NEW b \in Commands
      PROVE  Timers(cmd[b], cmd'[b]) /\ (cmd'[b].backoff = cmd[b].backoff \/ cmd'[b].backoff = "off")
  <2>1. CASE cmd' = [called EXCEPT ![c] = invoke_handler(@, result)]
    <3>1. Timers(called[c], invoke_handler(called[c], result))
          /\ invoke_handler(called[c], result).backoff = "off"
      BY <1>4, InvokeTimers
    <3>2. cmd'[b] = called[b] \/ (b = c /\ cmd'[b] = invoke_handler(called[c], result))
      BY <1>4, <2>1
    <3>. QED
      BY <1>5, <3>1, <3>2 DEF Timers
  <2>2. ASSUME NEW x \in hit,
               cmd' = [[called EXCEPT ![x.cmd] = invoke_handler(@, Aborted(x))]
                         EXCEPT ![c] = invoke_handler([@ EXCEPT !.handler = FALSE], result)]
        PROVE  Timers(cmd[b], cmd'[b]) /\ (cmd'[b].backoff = cmd[b].backoff \/ cmd'[b].backoff = "off")
    <3>1. PICK a \in Commands : a = x.cmd
      BY DEF hit, IInv, Types, Requests
    <3>2. PICK after : after = [called EXCEPT ![a] = invoke_handler(called[a], Aborted(x))]
      BY ZenonT(30)
    <3>3. /\ Timers(called[a], invoke_handler(called[a], Aborted(x)))
          /\ invoke_handler(called[a], Aborted(x)).backoff = "off"
      BY <1>4, InvokeTimers
    <3>4. /\ after[b] = called[b] \/ (b = a /\ after[b] = invoke_handler(called[a], Aborted(x)))
          /\ after[c] = called[c] \/ (c = a /\ after[c] = invoke_handler(called[a], Aborted(x)))
      BY <1>4, <3>2
    <3>5. /\ Timers(cmd[b], after[b])
          /\ after[b].backoff = cmd[b].backoff \/ after[b].backoff = "off"
      BY <1>5, <3>3, <3>4 DEF Timers
    <3>6. PICK e : e = [after[c] EXCEPT !.handler = FALSE]
      BY Zenon
    <3>7. cmd'[b] = after[b] \/ (b = c /\ cmd'[b] = invoke_handler(e, result))
      BY <1>4, <2>2, <3>1, <3>2, <3>6
    <3>8. after[c] \in CommandRecord
      <4>1. Aborted(x) \in Results
        BY DEF Aborted, TimeoutOf, Results
      <4>. QED
        BY <1>4, <3>1, <3>4, <4>1, InvokeRecord
    <3>9. Timers(after[c], invoke_handler(e, result)) /\ invoke_handler(e, result).backoff = "off"
      <4>1. e \in CommandRecord /\ Timers(after[c], e)
        BY <3>6, <3>8, Zenon DEF CommandRecord, Timers
      <4>. QED
        BY <4>1, InvokeTimers DEF Timers
    <3>. QED
      BY <3>5, <3>7, <3>9 DEF Timers
  <2>. QED
    BY <2>1, <2>2, Zenon DEF Cancel, hit, called
<1>7. ASSUME NEW b \in Commands
      PROVE  Stays(b)
  <2>1. RunStays(b)
    BY <1>1, <1>2, RunSame
  <2>2. TimersStay(b)
    BY <1>6 DEF TimersStay, Timers
  <2>. QED
    BY <1>1, <1>2, <2>1, <2>2 DEF Stays, QueuesStay, RequestsStay, CallbacksStay
<1>. QED
  BY <1>2, <1>3, <1>7, StaysTrack, Zenon DEF TInv

LEMMA CancelTInv ==
  ASSUME IInv, TInv, NEW c \in Commands, Deadline(c) \/ CancelToken(c)
  PROVE  TInv'
<1>1. cmd[c] \in CommandRecord /\ cmd \in [Commands -> CommandRecord]
  BY DEF IInv, Types
<1>2. PICK d, r : /\ \/ d = [cmd[c] EXCEPT !.deadline = "off"]
                     \/ d = [cmd[c] EXCEPT !.token = "fired"]
                  /\ \/ Cancel(c, d, r)
                     \/ /\ cmd' = [cmd EXCEPT ![c] = d]
                        /\ UNCHANGED <<session_vars, bucket_vars, run, open>>
  BY DEF Deadline, CancelToken
<1>3. d \in CommandRecord /\ Timers(cmd[c], d) /\ d.backoff = cmd[c].backoff
  BY <1>1, <1>2, Zenon DEF CommandRecord, Timers
<1>4. CASE Cancel(c, d, r)
  BY <1>3, <1>4, CancelTracks
<1>5. CASE cmd' = [cmd EXCEPT ![c] = d] /\ UNCHANGED <<session_vars, bucket_vars, run, open>>
  <2>1. MoreTypes' /\ Homes' /\ StoppedStay
    BY <1>5 DEF TInv, MoreTypes, Homes, StoppedStay, session_vars, bucket_vars
  <2>2. ASSUME NEW b \in Commands
        PROVE  Track(b)'
    <3>1. TimersStay(b)
      BY <1>1, <1>3, <1>5 DEF TimersStay, Timers
    <3>2. RunStays(b)
      BY <1>5, <2>1, RunSame
    <3>. QED
      BY <1>5, <3>1, <3>2, SameStays, StaysTrack DEF Stays, TInv, session_vars, bucket_vars
  <2>. QED
    BY <2>1, <2>2 DEF TInv
<1>. QED
  BY <1>2, <1>4, <1>5
-----------------------------------------------------------------------------
(* Life of a session, and close().                                          *)

\* The threads and the commands are left alone, but for the queues.
LEMMA ConfigTInv ==
  ASSUME IInv, TInv, NEW s \in Sessions,
         update_configuration(s) \/ Bootstrapped(s) \/ restart_sessions \/ update_config
  PROVE  TInv'
<1>1. UNCHANGED <<cmd, cached, subs, pending, wire, open, run>>
  BY DEF update_configuration, Bootstrapped, restart_sessions, update_config, bucket_vars
<1>2. state \in [Sessions -> {"unused", "connecting", "configured", "bootstrapped", "stopped"}]
  BY DEF TInv, MoreTypes
<1>3. \/ UNCHANGED state
      \/ \E r \in Sessions : state[r] = "unused" /\ state' = [state EXCEPT ![r] = "connecting"]
      \/ /\ state[s] \in {"connecting", "configured"}
         /\ state' = [state EXCEPT ![s] = "configured"]
  BY DEF update_configuration, Bootstrapped, restart_sessions, update_config, connect_session,
         Fresh, Unused
<1>4. /\ StoppedStay
      /\ state' \in [Sessions -> {"unused", "connecting", "configured", "bootstrapped", "stopped"}]
      /\ \A r \in Sessions : state[r] \in {"configured", "bootstrapped"} => state'[r] = state[r]
  BY <1>2, <1>3 DEF StoppedStay
<1>5. Homes'
  BY <1>1, <1>4, HomesStay DEF TInv
<1>6. MoreTypes'
  <2>1. /\ closed' = closed /\ open' = open /\ cached' = cached
        /\ configured' \in {configured, TRUE} /\ mapped' \in BOOLEAN \cup {mapped}
        /\ restart' \in {restart, FALSE}
        /\ up' \in {up, s} /\ configs' \in {configs, configs + 1}
        /\ dropped' \subseteq dropped \cup members /\ members' \subseteq members \cup Sessions
    <3>1. CASE update_configuration(s)
      BY <3>1 DEF update_configuration, bucket_vars
    <3>2. CASE Bootstrapped(s)
      BY <3>2 DEF Bootstrapped
    <3>3. CASE restart_sessions
      BY <3>3, Zenon DEF restart_sessions, connect_session, Fresh, Unused
    <3>4. CASE update_config
      BY <3>4 DEF update_config, Fresh, Unused
    <3>. QED
      BY Zenon, <3>1, <3>2, <3>3, <3>4
  <2>2. /\ closed \in BOOLEAN /\ configured \in BOOLEAN /\ mapped \in BOOLEAN /\ restart \in BOOLEAN
        /\ up \in Sessions \cup {NoSession} /\ members \subseteq Sessions /\ dropped \subseteq Sessions
        /\ configs \in Nat
    BY DEF TInv, MoreTypes
  <2>3. /\ closed' \in BOOLEAN /\ configured' \in BOOLEAN /\ mapped' \in BOOLEAN
        /\ restart' \in BOOLEAN
    BY <2>1, <2>2, Zenon
  <2>4. /\ up' \in Sessions \cup {NoSession} /\ members' \subseteq Sessions
        /\ dropped' \subseteq Sessions /\ configs' \in Nat
    BY <2>1, <2>2, SMT
  <2>. QED
    BY <1>4, <2>1, <2>3, <2>4 DEF TInv, MoreTypes
<1>7. \A b \in Commands : Track(b)
  BY DEF TInv
<1>8. ASSUME NEW b \in Commands
      PROVE  RequestsStay(b) /\ CallbacksStay(b) /\ TimersStay(b) /\ open'[b] = open[b] /\ RunStays(b)
  BY <1>1, <1>4, RunSame DEF RequestsStay, CallbacksStay, TimersStay
<1>9. ASSUME NEW b \in Commands
      PROVE  Track(b)'
  <2>1. CASE UNCHANGED <<deferred, draining>>
    BY <1>7, <1>8, <2>1, StaysTrack, Zenon DEF Stays, QueuesStay
  <2>2. CASE draining = <<>> /\ draining' = deferred /\ deferred' = <<>>
    <3>1. CASE ~In(deferred, b)
      <4>1. Once(deferred, b)
        BY <1>7, Zenon DEF Track, OneTrack
      <4>2. QueuesStay(b)
        BY <2>2, <3>1, <4>1, EmptyQueue DEF QueuesStay
      <4>. QED
        BY <1>7, <1>8, <4>2, StaysTrack, Zenon DEF Stays
    <3>2. CASE In(deferred, b)
      <4>1. At(b, "deferred") /\ {"deferred", "draining"} \subseteq Places
        BY <3>2 DEF At, Places
      <4>2. /\ cmd[b].deadline # "none" /\ Quiet(b) /\ (b \notin Idempotent => open[b] = 0)
            /\ cmd[b].due = {} /\ cmd[b].backoff = "off"
            /\ \A x \in subs : x.cmd # b
            /\ \A u \in Threads : ~Working(u, b)
        BY <1>7, <4>1, Place, Elsewhere, Zenon DEF TInv
      <4>3. Quiet(b)' /\ \A u \in Threads : ~Working(u, b)'
        BY <1>8, <4>2, QuietStays, Zenon DEF RunStays
      <4>4. Once(draining', b) /\ ~In(deferred', b)
        BY <1>7, <2>2, EmptyQueue, Zenon DEF Track, OneTrack
      <4>. QED
        BY ZenonT(30), <1>1, <4>1, <4>2, <4>3, <4>4, OneTrackTo, QuietThere
    <3>. QED
      BY <3>1, <3>2
  <2>. QED
    BY <2>1, <2>2 DEF update_configuration, Bootstrapped, restart_sessions, update_config,
                      bucket_vars, IoFree
<1>. QED
  BY <1>5, <1>6, <1>9 DEF TInv

LEMMA RemoveTInv ==
  ASSUME IInv, TInv, NEW t \in Threads, remove_session(t)
  PROVE  TInv'
<1>1. /\ UNCHANGED <<cmd, state, cached, subs, pending, wire, open, deferred, draining>>
      /\ UNCHANGED <<closed, configured, mapped, dropped, up, configs>>
      /\ members' \subseteq members /\ restart' \in BOOLEAN
      /\ run' = [run EXCEPT ![t] = NotRunning]
  BY Zenon DEF remove_session, session_vars
<1>2. MoreTypes' /\ Homes' /\ StoppedStay
  BY <1>1 DEF TInv, MoreTypes, Homes, StoppedStay
<1>3. ASSUME NEW b \in Commands
      PROVE  Track(b)'
  <2>1. NotRunning.pc = "out"
    BY DEF NotRunning
  <2>2. RunStays(b)
    BY Zenon, <1>1, <1>2, <2>1, RunFrame
  <2>3. TimersStay(b)
    BY <1>1 DEF TimersStay
  <2>. QED
    BY <1>1, <2>2, <2>3, SameStays, StaysTrack DEF Stays, TInv
<1>. QED
  BY <1>2, <1>3 DEF TInv

LEMMA CloseTInv ==
  ASSUME IInv, TInv, close
  PROVE  TInv'
<1>1. /\ UNCHANGED <<state, cached, subs, pending, wire, open, draining>>
      /\ UNCHANGED <<configured, mapped, members, dropped, restart, up, configs>>
      /\ closed' = TRUE /\ deferred' = <<>>
  BY DEF close, session_vars
<1>2. MoreTypes' /\ Homes' /\ StoppedStay
  BY <1>1 DEF TInv, MoreTypes, Homes, StoppedStay
<1>3. PICK t \in Threads : run' = [run EXCEPT ![t].pc = "close"]
  BY Stop, Zenon DEF close, ThreadOf
<1>4. PICK f : run' = [run EXCEPT ![t] = f] /\ f.pc = "close"
  <2>1. run \in [Threads -> Frames] /\ run[t] \in Frames
    BY DEF IInv, Types
  <2>2. PICK f : f = [run[t] EXCEPT !.pc = "close"]
    BY Zenon
  <2>3. f.pc = "close"
    BY <2>1, <2>2 DEF Frames
  <2>4. run' = [run EXCEPT ![t] = f]
    BY <1>3, <2>2
  <2>. QED
    BY Zenon, <2>3, <2>4
<1>5. ASSUME NEW b \in Commands
      PROVE  Track(b)'
  <2>1. RunStays(b)
    BY Zenon, <1>2, <1>4, RunFrame
  <2>2. TimersStay(b)
    <3>1. cmd[b] \in CommandRecord
      BY DEF IInv, Types
    <3>2. cmd'[b] \in {cmd[b], invoke_handler(cmd[b], CancelResult(b, cmd[b]))}
      BY DEF close
    <3>. QED
      BY <3>1, <3>2, InvokeTimers DEF TimersStay, Timers
  <2>3. QueuesStay(b)
    BY <1>1, EmptyQueue DEF QueuesStay
  <2>. QED
    BY <1>1, <2>1, <2>2, <2>3, StaysTrack, Zenon DEF Stays, TInv, RequestsStay, CallbacksStay
<1>. QED
  BY <1>2, <1>5 DEF TInv

\* stop() calls the callbacks of sessions.  A retry that it allows for an
\* operation that may change data comes from a session that sent nothing.
LEMMA StopTracks ==
  ASSUME IInv, TInv, NEW S, S \subseteq Sessions, NEW reason, NEW isClosed,
         StopSessions(S, reason, isClosed, cmd),
         allows_non_idempotent_retry(reason) => \A s \in S : state[s] # "bootstrapped",
         \A u \in Threads : run'[u] = run[u] \/ run'[u].pc \in {"out", "on_stop"},
         UNCHANGED <<deferred, draining>>
  PROVE  /\ \A b \in Commands : Track(b)'
         /\ Homes'
         /\ state' \in [Sessions -> {"unused", "connecting", "configured", "bootstrapped", "stopped"}]
         /\ UNCHANGED <<cached, open>>
<1>1. /\ subs' = {x \in subs : x.session \notin S}
      /\ pending' = {x \in pending : x.session \notin S}
      /\ wire' = {x \in wire : x.session \notin S}
      /\ UNCHANGED <<cached, open>>
      /\ \A s \in Sessions : state'[s] = IF s \in S THEN "stopped" ELSE state[s]
  BY DEF StopSessions
<1>2. state' \in [Sessions -> {"unused", "connecting", "configured", "bootstrapped", "stopped"}]
  BY DEF StopSessions, TInv, MoreTypes
<1>3. /\ pending \subseteq Requests /\ wire \subseteq Requests /\ subs \subseteq Requests
      /\ cmd \in [Commands -> CommandRecord]
  BY ZenonT(30) DEF IInv, Types
<1>4. Homes'
  BY <1>1, <1>3, Zenon DEF TInv, Homes, Requests
<1>5. StoppedStay
  BY <1>1 DEF StoppedStay
<1>6. \A u \in Threads : run[u].pc = "flush" => run[u].session \in Sessions
  BY DEF IInv, RunRight, FrameRight
<1>7. ASSUME NEW b \in Commands
      PROVE  RunStays(b)
  BY <1>5, <1>6 DEF RunStays, Working, Flushing, StoppedStay
<1>8. ASSUME NEW b \in Commands
      PROVE  QueuesStay(b) /\ RequestsStay(b) /\ CallbacksStay(b) /\ open'[b] = open[b]
  BY <1>1 DEF QueuesStay, RequestsStay, CallbacksStay
<1>9. \A b \in Commands : Track(b)
  BY DEF TInv
<1>10. ASSUME NEW b \in Commands
       PROVE  Track(b)'
  <2>1. cmd[b] \in CommandRecord
    BY <1>3
  <2>2. CASE TimersStay(b)
    BY <1>7, <1>8, <1>9, <2>2, StaysTrack DEF Stays
  <2>3. CASE ~TimersStay(b)
    <3>1. /\ \E x \in subs : x.session \in S /\ x.cmd = b /\ x.kind = "op"
          /\ cmd'[b] = Canceled(b, cmd[b], reason, isClosed)
      <4>1. cmd'[b] # cmd[b]
        BY <2>3 DEF TimersStay
      <4>2. cmd'[b] # invoke_handler(cmd[b], "request_canceled")
        BY <2>1, <2>3, InvokeTimers DEF TimersStay, Timers
      <4>. QED
        BY <4>1, <4>2, Zenon DEF StopSessions
    <3>2. PICK x \in subs : x.session \in S /\ x.cmd = b /\ x.kind = "op"
      BY <3>1
    <3>3. Timers(cmd[b], cmd'[b]) /\ (b \in Idempotent \/ allows_non_idempotent_retry(reason))
      <4>1. Timers(cmd[b], cmd'[b])
        BY Zenon, <2>1, <3>1, CanceledTimers
      <4>2. cmd'[b].backoff # "off"
        BY <2>3, <4>1 DEF TimersStay, Timers
      <4>. QED
        BY <2>1, <3>1, <4>1, <4>2, CanceledTimers
    <3>4. At(b, "callback") /\ {"callback", "backoff"} \subseteq Places
      BY <3>2, Zenon DEF At, Places
    <3>5. /\ cmd[b].deadline # "none" /\ ~In(deferred, b) /\ ~In(draining, b) /\ cmd[b].due = {}
          /\ \A u \in Threads : ~Working(u, b)
      BY <1>9, <3>4, Place, Elsewhere, Zenon DEF TInv
    <3>6. \A y \in subs : y.cmd = b => y = x
      BY <1>9, <3>2, Zenon DEF Track, OneTrack
    <3>7. Quiet(b)'
      <4>1. /\ \A y \in pending \cup wire : Op(y, b) => y = x
            /\ \A u \in Threads : Flushing(u, b) => x = Carried(run[u])
        BY <1>9, <3>2, Zenon DEF Track, OneRequest
      <4>2. \A y \in pending' \cup wire' : ~Op(y, b)
        BY ZenonT(30), <1>1, <3>2, <4>1
      <4>3. ASSUME NEW u \in Threads, Flushing(u, b)'
            PROVE  FALSE
        <5>1. Flushing(u, b) /\ run'[u] = run[u]
          BY <1>7, <4>3, ZenonT(30) DEF RunStays
        <5>2. run[u].session \in S
          BY <3>2, <4>1, <5>1 DEF Carried, Subscription
        <5>. QED
          BY <1>1, <4>3, <5>1, <5>2 DEF Flushing
      <4>. QED
        BY <4>2, <4>3, Zenon DEF Quiet
    <3>8. b \notin Idempotent => open'[b] = 0
      <4>1. ASSUME b \notin Idempotent
            PROVE  x \notin wire
        BY <3>2, <3>3, <4>1, Zenon DEF TInv, Homes
      <4>2. open[b] \in Nat /\ open'[b] = open[b]
        BY <1>1 DEF TInv, MoreTypes
      <4>3. b \notin Idempotent /\ open[b] > 0 => \A y \in subs : y.cmd = b => y \in wire
        BY <1>9, Zenon DEF Track, OneOpen
      <4>. QED
        BY <3>2, <4>1, <4>2, <4>3
    <3>9. /\ cmd'[b].due = {} /\ cmd'[b].deadline # "none"
          /\ \A y \in subs' : y.cmd # b
          /\ \A u \in Threads : ~Working(u, b)'
      BY <1>1, <1>7, <3>2, <3>3, <3>5, <3>6, Zenon DEF Timers, RunStays
    <3>. QED
      BY Zenon, <3>4, <3>5, <3>7, <3>8, <3>9, OneTrackTo, QuietThere
  <2>. QED
    BY <2>2, <2>3
<1>. QED
  BY <1>1, <1>2, <1>4, <1>10

LEMMA StopTInv ==
  ASSUME IInv, TInv, NEW s \in Sessions, NEW t \in Threads,
         BootstrapFails(s) \/ Disconnected(s) \/ StopDropped(s) \/ CloseSessions(t)
  PROVE  TInv'
<1>1. run \in [Threads -> Frames] /\ members \subseteq Sessions
  BY DEF IInv, Types, TInv, MoreTypes
<1>2. /\ \A u \in Threads : run'[u] = run[u] \/ run'[u].pc \in {"out", "on_stop"}
      /\ UNCHANGED <<deferred, draining>>
      /\ UNCHANGED <<closed, configured, mapped, restart, up, configs>>
      /\ members' \subseteq members /\ dropped' \subseteq dropped
  <2>1. Dispatch("on_stop", "none", s).pc = "on_stop" /\ NotRunning.pc = "out"
    BY DEF Dispatch, NotRunning
  <2>2. CASE BootstrapFails(s) \/ Disconnected(s)
    BY <1>1, <2>1, <2>2 DEF BootstrapFails, Disconnected, bucket_vars
  <2>3. CASE StopDropped(s)
    BY <1>1, <2>3 DEF StopDropped
  <2>4. CASE CloseSessions(t)
    BY <1>1, <2>1, <2>4 DEF CloseSessions
  <2>. QED
    BY <2>2, <2>3, <2>4
<1>3. CASE UNCHANGED <<cmd, session_vars, open, run>>
  <2>1. MoreTypes' /\ Homes' /\ StoppedStay
    BY <1>2, <1>3 DEF TInv, MoreTypes, Homes, StoppedStay, session_vars
  <2>2. ASSUME NEW b \in Commands
        PROVE  Track(b)'
    <3>1. RunStays(b) /\ TimersStay(b)
      BY <1>3, <2>1, RunSame DEF TimersStay
    <3>. QED
      BY <1>2, <1>3, <3>1, SameStays, StaysTrack DEF Stays, TInv, session_vars
  <2>. QED
    BY <2>1, <2>2 DEF TInv
<1>4. ASSUME NEW S, S \subseteq Sessions, NEW reason, NEW isClosed,
             StopSessions(S, reason, isClosed, cmd),
             allows_non_idempotent_retry(reason) => \A r \in S : state[r] # "bootstrapped"
      PROVE  TInv'
  <2>1. /\ \A b \in Commands : Track(b)'
        /\ Homes'
        /\ state' \in [Sessions -> {"unused", "connecting", "configured", "bootstrapped", "stopped"}]
        /\ UNCHANGED <<cached, open>>
    BY <1>2, <1>4, StopTracks
  <2>2. MoreTypes'
    BY <1>2, <2>1 DEF TInv, MoreTypes
  <2>. QED
    BY <2>1, <2>2 DEF TInv
<1>5. /\ ~allows_non_idempotent_retry("do_not_retry")
      /\ ~allows_non_idempotent_retry("socket_closed_while_in_flight")
  BY DEF allows_non_idempotent_retry
<1>6. CASE BootstrapFails(s)
  <2>1. PICK reason : StopSessions({s}, reason, closed, cmd)
    BY <1>6 DEF BootstrapFails
  <2>. QED
    BY <1>4, <1>6, <2>1 DEF BootstrapFails
<1>7. CASE Disconnected(s)
  <2>1. PICK reason \in {"socket_closed_while_in_flight", "do_not_retry"} :
          StopSessions({s}, reason, closed, cmd)
    BY <1>7 DEF Disconnected
  <2>. QED
    BY <1>4, <1>5, <2>1
<1>8. CASE StopDropped(s)
  BY <1>3, <1>4, <1>5, <1>8 DEF StopDropped
<1>9. CASE CloseSessions(t)
  <2>1. StopSessions({r \in members : state[r] # "stopped"}, "do_not_retry", TRUE, cmd)
    BY <1>9, Zenon DEF CloseSessions
  <2>. QED
    BY Zenon, <1>1, <1>4, <1>5, <2>1
<1>. QED
  BY <1>6, <1>7, <1>8, <1>9
-----------------------------------------------------------------------------
(* Answers.                                                                 *)

LEMMA AnswerTInv ==
  ASSUME IInv, TInv, NEW x \in wire, handle_request(x)
  PROVE  TInv'
<1>1. PICK status \in Statuses(x) :
        /\ open' = [open EXCEPT ![x.cmd] = IF x.kind = "op" /\ status # "success" THEN @ - 1 ELSE @]
        /\ \/ x \in subs /\ (OperationAnswered(x, status) \/ LookupAnswered(x, status))
           \/ x \notin subs /\ UNCHANGED <<cmd, cached, run>>
  BY Zenon DEF handle_request
<1>2. PICK c \in Commands : c = x.cmd
  BY DEF IInv, Types, Requests
<1>3. /\ x \in Requests /\ x.kind \in {"op", "lookup"} /\ x.session \in Sessions
      /\ cmd \in [Commands -> CommandRecord] /\ cmd[c] \in CommandRecord
      /\ open \in [Commands -> Nat] /\ run \in [Threads -> Frames] /\ IO \in Threads
  BY Stop DEF IInv, Types, Requests, Kinds, TInv, MoreTypes
<1>4. status \in {"success", "error", "not_my_vbucket", "config_only", "temporary_failure",
                  "unknown_collection"}
  BY DEF Statuses
<1>5. /\ run[IO] = NotRunning /\ UNCHANGED <<state, pending>> /\ UNCHANGED bucket_vars
      /\ wire' = wire \ {x} /\ subs' = subs \ {x}
  BY DEF handle_request, IoFree
<1>6. StoppedStay /\ Homes' /\ UNCHANGED <<deferred, draining>>
  BY <1>5 DEF StoppedStay, TInv, Homes, bucket_vars
<1>7. \A b \in Commands : Track(b)
  BY DEF TInv
<1>8. ASSUME NEW b \in Commands
      PROVE  QueuesStay(b) /\ RequestsStay(b) /\ CallbacksStay(b)
  BY <1>5, <1>6 DEF QueuesStay, RequestsStay, CallbacksStay
<1>9. /\ \A b \in Commands : b # c => open'[b] = open[b]
      /\ open'[c] = IF x.kind = "op" /\ status # "success" THEN open[c] - 1 ELSE open[c]
      /\ x.kind = "op" => open[c] > 0
  <2>1. x.kind = "op" => open[c] > 0
    BY <1>2, <1>7 DEF Track, OneOpen, Op
  <2>. QED
    BY <1>1, <1>2, <1>3, <2>1
<1>10. open' \in [Commands -> Nat]
  BY <1>1, <1>2, <1>3, <1>9
<1>11. MoreTypes'
  <2>1. cached' \subseteq Sessions
    BY <1>1, <1>3 DEF OperationAnswered, LookupAnswered, TInv, MoreTypes
  <2>. QED
    BY <1>5, <1>10, <2>1 DEF TInv, MoreTypes, bucket_vars
\* What becomes of the command: it is left alone, called back, or sent.
<1>12. \/ x \notin subs /\ UNCHANGED <<cmd, run>>
       \/ /\ x \in subs /\ UNCHANGED run
          /\ \E d : /\ cmd' = [cmd EXCEPT ![c] = d] /\ Timers(cmd[c], d)
                    /\ x.kind = "op" /\ status = "success" => d.backoff = "off"
       \/ /\ x \in subs /\ x.kind = "lookup"
          /\ cmd' = [cmd EXCEPT ![c].resolved = TRUE]
          /\ run' = [run EXCEPT ![IO] = Dispatch("send", c, x.session)]
  <2>1. CASE x \notin subs /\ UNCHANGED <<cmd, cached, run>>
    BY <2>1
  <2>2. CASE x \in subs /\ OperationAnswered(x, status)
    <3>1. PICK d \in Answered(c, cmd[c], status) : cmd' = [cmd EXCEPT ![c] = d]
      BY <1>2, <2>2, Zenon DEF OperationAnswered
    <3>2. Timers(cmd[c], d) /\ (status = "success" => d.backoff = "off")
      BY <1>3, <1>4, <3>1, AnsweredTimers
    <3>3. UNCHANGED run
      BY <2>2 DEF OperationAnswered
    <3>. QED
      BY Zenon, <2>2, <3>1, <3>2, <3>3
  <2>3. CASE x \in subs /\ LookupAnswered(x, status)
    <3>1. x.kind = "lookup"
      BY <2>3 DEF LookupAnswered
    <3>2. CASE /\ cmd' = [cmd EXCEPT ![c].resolved = TRUE]
               /\ run' = [run EXCEPT ![IO] = Dispatch("send", c, x.session)]
      BY <2>3, <3>1, <3>2
    <3>3. ASSUME NEW d \in handle_unknown_collection(c, cmd[c]),
                 cmd' = [cmd EXCEPT ![c] = d], UNCHANGED run
          PROVE  \E e : cmd' = [cmd EXCEPT ![c] = e] /\ Timers(cmd[c], e)
      BY Zenon, <1>3, <3>3, UnknownTimers
    <3>4. CASE cmd' = [cmd EXCEPT ![c] = invoke_handler(@, "error")] /\ UNCHANGED run
      BY Zenon, <1>3, <2>3, <3>1, <3>4, InvokeTimers
    <3>. QED
      BY <1>2, <2>3, <3>1, <3>2, <3>3, <3>4 DEF LookupAnswered
  <2>. QED
    BY <1>1, <2>1, <2>2, <2>3
\* An answer to a lookup that nobody waits for, or to a command that is not
\* asked again, leaves the command where it is.
<1>13. ASSUME UNCHANGED run, TimersStay(c), open'[c] = open[c],
              \A b \in Commands : b # c => TimersStay(b)
       PROVE  \A b \in Commands : Track(b)'
  <2>1. \A b \in Commands : RunStays(b)
    BY <1>6, <1>13, RunSame
  <2>. QED
    BY <1>7, <1>8, <1>9, <1>13, <2>1, StaysTrack DEF Stays
\* Otherwise it goes for a back-off, if anywhere, and nothing of it is left.
<1>14. ASSUME UNCHANGED run, Timers(cmd[c], cmd'[c]),
              \A b \in Commands : b # c => TimersStay(b),
              x \in subs \/ (x.kind = "op" /\ cmd'[c] = cmd[c]),
              x.kind = "op" => status # "success"
       PROVE  \A b \in Commands : Track(b)'
  <2>1. \A b \in Commands : RunStays(b)
    BY <1>6, <1>14, RunSame
  <2>2. ASSUME NEW b \in Commands, b # c
        PROVE  Track(b)'
    BY <1>7, <1>8, <1>9, <1>14, <2>1, <2>2, StaysTrack, Zenon DEF Stays
  <2>3. {"callback", "backoff"} \subseteq Places
    BY DEF Places
  <2>4. CASE x.kind = "op"
    <3>1. Op(x, c) /\ ~Quiet(c)
      BY <1>2, <2>4 DEF Op, Quiet
    <3>2. /\ \A p \in Places : At(c, p) => p = "callback"
          /\ \A y \in subs : y.cmd = c => y = x
          /\ \A y \in pending \cup wire : Op(y, c) => y = x
          /\ \A u \in Threads : ~Flushing(u, c)
      BY <1>7, <3>1 DEF Track, OneRequest
    <3>3. x \notin pending
      BY DEF TInv, Homes
    <3>4. Quiet(c)'
      <4>1. \A y \in pending' \cup wire' : ~Op(y, c)
        BY <1>5, <3>2, <3>3
      <4>. QED
        BY <2>1, <3>2, <4>1, Zenon DEF Quiet, RunStays
    <3>5. c \notin Idempotent => open'[c] = 0
      <4>1. c \notin Idempotent => open[c] <= 1
        BY <1>7, Zenon DEF Track, OneOpen
      <4>2. open[c] \in Nat
        BY <1>3
      <4>. QED
        BY <1>9, <1>14, <2>4, <4>1, <4>2
    <3>6. /\ ~In(deferred, c) /\ ~In(draining, c) /\ cmd[c].due = {}
          /\ \A u \in Threads : ~Working(u, c)
      BY <3>2, Zenon DEF At, Places
    <3>7. cmd[c].deadline # "none"
      BY <1>7, <3>1 DEF Track, Untouched
    <3>8. /\ cmd'[c].due = {} /\ cmd'[c].deadline # "none"
          /\ \A y \in subs' : y.cmd # c
          /\ \A u \in Threads : ~Working(u, c)'
      BY <1>5, <1>14, <2>1, <3>2, <3>6, <3>7, Zenon DEF Timers, RunStays
    <3>9. OneTrack(c)' /\ \A q \in Places : At(c, q)' => q = "backoff"
      BY Zenon, <1>6, <2>3, <3>6, <3>8, OneTrackTo
    <3>10. Track(c)'
      BY Zenon, <3>4, <3>5, <3>8, <3>9, QuietThere
    <3>. QED
      BY Zenon, <2>2, <3>10
  <2>5. CASE x.kind # "op"
    <3>1. x \in subs /\ At(c, "callback")
      BY <1>2, <1>14, <2>5, Zenon DEF At
    <3>2. /\ cmd[c].deadline # "none" /\ ~In(deferred, c) /\ ~In(draining, c) /\ cmd[c].due = {}
          /\ \A u \in Threads : ~Working(u, c)
      BY <1>7, <2>3, <3>1, Place, Elsewhere, Zenon DEF TInv
    <3>3. Quiet(c) /\ (c \notin Idempotent => open[c] = 0)
      BY <1>2, <1>3, <1>7, <2>5, <3>1 DEF Track, OneRequest, OneOpen
    <3>4. \A y \in subs : y.cmd = c => y = x
      BY <1>2, <1>7, <3>1, Zenon DEF Track, OneTrack
    <3>5. Quiet(c)'
      BY <1>8, <2>1, <3>3, QuietStays
    <3>6. /\ cmd'[c].due = {} /\ cmd'[c].deadline # "none"
          /\ \A y \in subs' : y.cmd # c
          /\ \A u \in Threads : ~Working(u, c)'
          /\ open'[c] = open[c]
      <4>1. open'[c] = open[c] /\ \A y \in subs' : y.cmd # c
        BY <1>5, <1>9, <2>5, <3>4
      <4>2. cmd'[c].due = {} /\ cmd'[c].deadline # "none"
        BY <1>14, <3>2, Zenon DEF Timers
      <4>3. \A u \in Threads : ~Working(u, c)'
        BY <2>1, <3>2, Zenon DEF RunStays
      <4>. QED
        BY Zenon, <4>1, <4>2, <4>3
    <3>7. OneTrack(c)' /\ \A q \in Places : At(c, q)' => q = "backoff"
      BY Zenon, <1>6, <2>3, <3>2, <3>6, OneTrackTo
    <3>8. Track(c)'
      BY Zenon, <3>3, <3>5, <3>6, <3>7, QuietThere
    <3>. QED
      BY Zenon, <2>2, <3>8
  <2>. QED
    BY <2>4, <2>5
<1>15. \A b \in Commands : Track(b)'
  <2>1. CASE x \notin subs /\ UNCHANGED <<cmd, run>>
    <3>1. \A b \in Commands : TimersStay(b) /\ Timers(cmd[b], cmd'[b])
      BY <2>1 DEF TimersStay, Timers
    <3>2. CASE x.kind = "op" /\ status # "success"
      BY <1>14, <2>1, <3>1, <3>2
    <3>3. CASE ~(x.kind = "op" /\ status # "success")
      BY <1>9, <1>13, <2>1, <3>1, <3>3
    <3>. QED
      BY <3>2, <3>3
  <2>2. ASSUME x \in subs, UNCHANGED run, NEW d, cmd' = [cmd EXCEPT ![c] = d], Timers(cmd[c], d),
               x.kind = "op" /\ status = "success" => d.backoff = "off"
        PROVE  \A b \in Commands : Track(b)'
    <3>1. cmd'[c] = d /\ \A b \in Commands : b # c => TimersStay(b)
      BY <1>3, <2>2 DEF TimersStay
    <3>2. CASE x.kind = "op" => status # "success"
      BY <1>14, <2>2, <3>1, <3>2
    <3>3. CASE x.kind = "op" /\ status = "success"
      <4>1. TimersStay(c) /\ open'[c] = open[c]
        BY <1>9, <2>2, <3>1, <3>3 DEF TimersStay, Timers
      <4>. QED
        BY <1>13, <2>2, <3>1, <4>1
    <3>. QED
      BY <3>2, <3>3
  <2>3. CASE /\ x \in subs /\ x.kind = "lookup"
             /\ cmd' = [cmd EXCEPT ![c].resolved = TRUE]
             /\ run' = [run EXCEPT ![IO] = Dispatch("send", c, x.session)]
    <3>1. At(c, "callback") /\ "callback" \in Places
      BY <1>2, <2>3 DEF At, Places
    <3>2. /\ cmd[c].deadline # "none" /\ ~In(deferred, c) /\ ~In(draining, c) /\ cmd[c].due = {}
          /\ cmd[c].backoff = "off" /\ \A u \in Threads : ~Working(u, c)
      BY <1>7, <3>1, Place, Elsewhere DEF TInv
    <3>3. Quiet(c) /\ (c \notin Idempotent => open[c] = 0)
      BY <1>2, <1>3, <1>7, <2>3 DEF Track, OneRequest, OneOpen
    <3>4. \A y \in subs' : y.cmd # c
      BY <1>2, <1>5, <1>7, <2>3 DEF Track, OneTrack
    <3>5. /\ cmd'[c].due = {} /\ cmd'[c].backoff = "off" /\ cmd'[c].deadline # "none"
          /\ \A b \in Commands : b # c => TimersStay(b)
      BY <1>3, <2>3, <3>2 DEF CommandRecord, TimersStay
    <3>6. Dispatch("send", c, x.session).pc = "send" /\ Dispatch("send", c, x.session).cmd = c
      BY DEF Dispatch
    <3>7. open'[c] = open[c]
      BY <1>9, <2>3
    <3>. QED
      BY ZenonT(30), <1>3, <1>6, <1>8, <1>9, <2>3, <3>2, <3>3, <3>4, <3>5, <3>6, <3>7, StartTracks
  <2>. QED
    BY <1>12, <2>1, <2>2, <2>3
<1>. QED
  BY <1>6, <1>11, <1>15 DEF TInv
-----------------------------------------------------------------------------
(* The theorems.                                                            *)

LEMMA InitTInv ==
  ASSUME Init
  PROVE  TInv
<1>1. MoreTypes
  <2>1. 0 \in Nat /\ 1 \in Sessions
    BY CommandAssumption DEF Sessions
  <2>. QED
    BY <2>1, ZenonT(30) DEF Init, MoreTypes
<1>2. Homes
  BY DEF Init, Homes
<1>3. ASSUME NEW c \in Commands
      PROVE  Track(c)
  <2>1. /\ cmd[c].due = {} /\ cmd[c].backoff = "off" /\ open[c] = 0
        /\ subs = {} /\ pending = {} /\ wire = {} /\ deferred = <<>> /\ draining = <<>>
    BY DEF Init, NewCommand
  <2>2. \A t \in Threads : ~Working(t, c) /\ ~Flushing(t, c)
    BY DEF Init, NotRunning, Working, Flushing
  <2>3. \A p \in Places : ~At(c, p)
    BY <2>1, <2>2, EmptyQueue, Zenon DEF At, Places
  <2>4. Quiet(c)
    BY <2>1, <2>2, Zenon DEF Quiet
  <2>. QED
    <3>1. OneTrack(c) /\ Untouched(c)
      BY <2>1, <2>2, <2>3, <2>4, EmptyQueue, Zenon DEF OneTrack, Untouched
    <3>2. OneRequest(c)
      BY <2>1, <2>2, <2>4, Zenon DEF OneRequest
    <3>3. OneOpen(c)
      BY <2>1 DEF OneOpen
    <3>. QED
      BY <3>1, <3>2, <3>3 DEF Track
<1>. QED
  BY <1>1, <1>2, <1>3 DEF TInv

LEMMA NextTInv ==
  ASSUME IInv, TInv, [Next]_vars
  PROVE  TInv'
<1>1. CASE UNCHANGED vars
  <2>1. MoreTypes' /\ Homes' /\ StoppedStay
    BY <1>1, Zenon DEF TInv, MoreTypes, Homes, StoppedStay, vars, session_vars, bucket_vars
  <2>2. ASSUME NEW b \in Commands
        PROVE  Track(b)'
    <3>1. RunStays(b) /\ TimersStay(b)
      BY <1>1, <2>1, RunSame DEF TimersStay, vars
    <3>2. UNCHANGED <<subs, pending, wire, deferred, draining, open>>
      BY <1>1 DEF vars, session_vars, bucket_vars
    <3>. QED
      BY <3>1, <3>2, SameStays, StaysTrack DEF Stays, TInv
  <2>. QED
    BY <2>1, <2>2 DEF TInv
<1>2. ASSUME NEW c \in Commands, execute(c)
      PROVE  TInv'
  BY <1>2, ExecuteTInv
<1>3. ASSUME NEW t \in Threads, DispatchStep(t)
      PROVE  TInv'
  BY <1>3, CheckTInv, DeferTInv, MapTInv, SubscribeTInv, FlushTInv DEF DispatchStep
<1>4. ASSUME NEW t \in Threads, remove_session(t) \/ CloseSessions(t)
      PROVE  TInv'
  <2>1. 1 \in Sessions
    BY CommandAssumption DEF Sessions
  <2>. QED
    BY <1>4, <2>1, RemoveTInv, StopTInv
<1>5. ASSUME NEW x \in wire, handle_request(x)
      PROVE  TInv'
  BY <1>5, AnswerTInv
<1>6. CASE TimerStep
  BY <1>6, TimersTInv, CancelTInv, BackoffTInv DEF TimerStep
<1>7. CASE SessionStep
  <2>1. 1 \in Sessions /\ IO \in Threads
    BY CommandAssumption, Stop DEF Sessions
  <2>. QED
    BY <1>7, <2>1, ConfigTInv, DrainTInv, FinishTInv, StopTInv DEF SessionStep
<1>8. CASE close
  BY <1>8, CloseTInv
<1>. QED
  BY <1>1, <1>2, <1>3, <1>4, <1>5, <1>6, <1>7, <1>8 DEF Next

\* In every reachable state, whoever calls the library, each command is in one
\* place, and one request of its operation at most is on its way.
THEOREM TracksInvariance == Spec => [](IInv /\ TInv)
<1>1. Init => IInv /\ TInv
  BY InitIInv, InitTInv
<1>2. IInv /\ TInv /\ [Next]_vars => (IInv /\ TInv)'
  BY NextIInv, NextTInv
<1>. QED
  BY <1>1, <1>2, PTL DEF Spec

\* Commands, sessions, timers and queues always hold what their code can put
\* there; the count of requests that are not refused never falls below zero.
THEOREM TypesAreKept == Spec => []TypeOK
<1>1. IInv /\ TInv => TypeOK
  <2>. SUFFICES ASSUME IInv, TInv PROVE TypeOK
    OBVIOUS
  <2>1. /\ cmd \in [Commands -> CommandRecord] /\ lastOpaque \in [Sessions -> Nat]
        /\ \A x \in subs \cup pending \cup wire : x \in Requests
        /\ deferred \in Seq(Commands) /\ draining \in Seq(Commands)
        /\ sent \in [Commands -> Nat]
    BY DEF IInv, Types
  <2>2. {closed, configured, mapped, restart} \subseteq BOOLEAN
    BY Zenon DEF TInv, MoreTypes
  <2>3. {slot, up} \subseteq Sessions \cup {NoSession}
    BY DEF TInv, MoreTypes, IInv, Types
  <2>4. CommandRecord =
          [handler : BOOLEAN, opaque : Nat, session : Sessions \cup {NoSession},
           resolved : BOOLEAN, results : Seq(Results),
           deadline : {"none", "armed", "due", "off", "cancelled"},
           backoff : {"off", "map_and_send", "request_collection_id"},
           due : SUBSET {"map_and_send", "request_collection_id"},
           token : {"unset", "set", "fired"}]
    <3>1. Waits \cup {"off"} = {"off", "map_and_send", "request_collection_id"}
      BY DEF Waits
    <3>2. Waits = {"map_and_send", "request_collection_id"}
      BY DEF Waits
    <3>. QED
      BY <3>1, <3>2, Zenon DEF CommandRecord
  <2>. QED
    BY <2>1, <2>2, <2>3, <2>4, Zenon DEF TypeOK, TInv, MoreTypes, Requests, Kinds
<1>. QED
  BY <1>1, TracksInvariance, PTL

\* However sessions are lost, answers are late, configurations change and the
\* bucket is closed, an operation that may change data never has two requests
\* at the server that it has not refused.
THEOREM NeverResentBlindly == Spec => []NoBlindResend
<1>1. TInv => NoBlindResend
  BY DEF TInv, Track, OneOpen, NoBlindResend
<1>. QED
  BY <1>1, TracksInvariance, PTL

\* One place, once: every count of Continuations is zero but one at most.
LEMMA AtMostOne ==
  ASSUME NEW S, \A x, y \in S : x = y
  PROVE  /\ S = {} => Cardinality(S) = 0
         /\ S # {} => Cardinality(S) = 1
<1>1. ASSUME S # {}
      PROVE  Cardinality(S) = 1
  <2>1. PICK x : x \in S
    BY <1>1
  <2>2. S = {x}
    BY <2>1
  <2>. QED
    BY <2>2, FS_Singleton
<1>. QED
  BY <1>1, FS_EmptySet

LEMMA OneContinuation ==
  ASSUME NEW c \in Commands, OneTrack(c)
  PROVE  Continuations(c) <= 1
<1>. DEFINE n1 == Count(deferred, c)
            n2 == Count(draining, c)
            n3 == Cardinality({x \in subs : x.cmd = c})
            n4 == Cardinality(cmd[c].due)
            n5 == IF cmd[c].backoff # "off" THEN 1 ELSE 0
            n6 == Cardinality({t \in Threads : Working(t, c)})
<1>1. n1 = IF At(c, "deferred") THEN 1 ELSE 0
  <2>. DEFINE S == {i \in 1 .. Len(deferred) : deferred[i] = c}
  <2>1. (\A i, j \in S : i = j) /\ (At(c, "deferred") <=> S # {})
    BY Zenon DEF OneTrack, Once, In, At
  <2>2. n1 = Cardinality(S)
    BY DEF Count
  <2>. HIDE DEF S, n1
  <2>. QED
    BY <2>1, <2>2, AtMostOne
<1>2. n2 = IF At(c, "draining") THEN 1 ELSE 0
  <2>. DEFINE S == {i \in 1 .. Len(draining) : draining[i] = c}
  <2>1. (\A i, j \in S : i = j) /\ (At(c, "draining") <=> S # {})
    BY DEF OneTrack, Once, In, At
  <2>2. n2 = Cardinality(S)
    BY DEF Count
  <2>. HIDE DEF S, n2
  <2>. QED
    BY <2>1, <2>2, AtMostOne
<1>3. n3 = IF At(c, "callback") THEN 1 ELSE 0
  <2>. DEFINE S == {x \in subs : x.cmd = c}
  <2>1. (\A x, y \in S : x = y) /\ (At(c, "callback") <=> S # {})
    BY Zenon DEF OneTrack, At
  <2>. HIDE DEF S
  <2>. QED
    BY <2>1, AtMostOne DEF S
<1>4. n4 = IF At(c, "due") THEN 1 ELSE 0
  <2>1. (\A k, l \in cmd[c].due : k = l) /\ (At(c, "due") <=> cmd[c].due # {})
    BY DEF OneTrack, At
  <2>. QED
    BY <2>1, AtMostOne
<1>5. n5 = IF At(c, "backoff") THEN 1 ELSE 0
  BY DEF At
<1>6. n6 = IF At(c, "dispatch") THEN 1 ELSE 0
  <2>. DEFINE S == {t \in Threads : Working(t, c)}
  <2>1. (\A t, u \in S : t = u) /\ (At(c, "dispatch") <=> S # {})
    BY Zenon DEF OneTrack, At
  <2>. HIDE DEF S
  <2>. QED
    BY <2>1, AtMostOne DEF S
<1>7. Continuations(c) = n1 + n2 + n3 + n4 + n5 + n6
  BY DEF Continuations, Working
<1>8. \A p, q \in Places : At(c, p) /\ At(c, q) => p = q
  BY DEF OneTrack
<1>. HIDE DEF n1, n2, n3, n4, n5, n6
<1>. QED
  BY <1>1, <1>2, <1>3, <1>4, <1>5, <1>6, <1>7, <1>8 DEF Places

\* A command never waits in two places: no two paths, on whatever threads, ever
\* go on with it side by side.
THEOREM OneTrackOnly == Spec => []SingleTrack
<1>1. TInv => SingleTrack
  BY OneContinuation DEF TInv, Track, SingleTrack
<1>. QED
  BY <1>1, TracksInvariance, PTL
=============================================================================
