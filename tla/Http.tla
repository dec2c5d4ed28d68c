-------------------------------- MODULE Http --------------------------------
(***************************************************************************)
(* The pool of HTTP sessions and its commands, with what happens on the I/O *)
(* thread, and what the pool promises.                                      *)
(***************************************************************************)
EXTENDS HttpSessionManager

(* Connecting *)

\* The callback of connect(), for a session that is not connected: the
\* command goes on with a new session, unless its time is over.  When the
\* bound on sessions is reached, the command waits for its deadline.
ConnectAgain(c, s) ==
  IF deadline[c] # "armed" \/ (NodesFor(c) # {} /\ Fresh = {})
  THEN /\ onConnect' = [onConnect EXCEPT ![s] = none]
       /\ UNCHANGED <<nodeOf, session, handler, answers, deadline>>
  ELSE IF NodesFor(c) = {}
  THEN /\ onConnect' = [onConnect EXCEPT ![s] = none]
       /\ Handle(c)
       /\ UNCHANGED <<nodeOf, session>>
  ELSE \E t \in Fresh, n \in NodesFor(c) :
         /\ nodeOf' = [nodeOf EXCEPT ![t] = n]
         /\ session' = [session EXCEPT ![c] = t]
         /\ onConnect' = Connecting([onConnect EXCEPT ![s] = none], t, c)
         /\ UNCHANGED <<handler, answers, deadline>>

\* The session cannot be resolved or connected, and the back-off is over.  The
\* callback stops it, unless the time of the command is over.
ConnectFails(s) ==
  /\ IoFree /\ s \notin connected \cup stopped /\ onConnect[s] # none
  /\ ConnectAgain(onConnect[s], s)
  /\ toStop' = IF deadline[onConnect[s]] = "armed" THEN {s} ELSE {}
  /\ UNCHANGED <<connected, stopped, keep, timer, current, output, wire>>
  /\ UNCHANGED <<idle, busy, pending, config, configs, posted, closed, pc, again>>

\* on_connect, and the callback: send_to, on the I/O thread.
OnConnect(s) ==
  LET c == onConnect[s]
  IN /\ IoFree /\ s \notin connected \cup stopped /\ c # none
     /\ connected' = connected \cup {s}
     /\ onConnect' = [onConnect EXCEPT ![s] = none]
     /\ busy' = busy \cup {s}
     /\ IF c \in handler THEN Subscribe(c, s, c \in KeepAlive)
        ELSE UNCHANGED <<current, keep, output>>
     /\ UNCHANGED <<nodeOf, stopped, timer, wire>>
     /\ UNCHANGED <<idle, pending, config, configs, toStop, posted, closed>>
     /\ UNCHANGED commandVars

\* ... but encode_to fails: keep_alive_ is not set yet, so that check_in posts
\* the end of the session.
OnConnectEncodeFails(s) ==
  LET c == onConnect[s]
  IN /\ IoFree /\ s \notin connected \cup stopped /\ c \in handler
     /\ connected' = connected \cup {s}
     /\ onConnect' = [onConnect EXCEPT ![s] = none]
     /\ busy' = busy \cup {s}
     /\ Handle(c) /\ posted' = posted \cup {s}
     /\ UNCHANGED <<nodeOf, stopped, keep, timer, current, output, wire>>
     /\ UNCHANGED <<idle, pending, config, configs, toStop, closed, pc, session, again>>

-----------------------------------------------------------------------------
(* Answers *)

Write(s) ==
  /\ IoFree /\ DoWrite(s)
  /\ UNCHANGED poolVars /\ UNCHANGED commandVars

\* do_read has the answer to the request in front.  The handler of send()
\* cancels the deadline and calls invoke_handler.  The server, or a request
\* that is not to be kept alive, may close the connection.
Answered(s) ==
  LET c == current[s]
  IN /\ IoFree /\ s \notin stopped /\ wire[s] # <<>> /\ c # none
     /\ wire' = [wire EXCEPT ![s] = Tail(@)]
     /\ current' = [current EXCEPT ![s] = none]
     /\ keep' \in {keep, keep \ {s}}
     /\ Handle(c)
     /\ IF c \in handler
        THEN IF s \in keep' /\ nodeOf[s] \in config
             THEN PutIdle(s)
             ELSE posted' = posted \cup {s} /\ UNCHANGED <<idle, busy, pending, timer>>
        ELSE UNCHANGED <<idle, busy, pending, timer, posted>>
     /\ UNCHANGED <<nodeOf, connected, stopped, onConnect, output>>
     /\ UNCHANGED <<config, configs, toStop, closed, pc, session, again>>

\* make_response throws retry_http_request: handler_ is gone, and send()
\* writes the request again, or fails to encode it.
AnsweredWithRetry(s) ==
  LET c == current[s]
  IN /\ IoFree /\ s \notin stopped /\ wire[s] # <<>> /\ c \in handler \cap Retried
     /\ wire' = [wire EXCEPT ![s] = Tail(@)]
     /\ handler' = handler \ {c} /\ again' = again \cup {c}
     /\ deadline' = [deadline EXCEPT ![c] = Cancelled(@)]
     /\ keep' \in {keep, keep \ {s}}
     /\ \/ /\ output' = [output EXCEPT ![s] = Append(@, c)]
           /\ UNCHANGED current
        \/ /\ current' = [current EXCEPT ![s] = none]
           /\ UNCHANGED output
     /\ UNCHANGED <<nodeOf, connected, stopped, timer, onConnect>>
     /\ UNCHANGED poolVars /\ UNCHANGED <<pc, session, answers>>

\* Reading or writing fails.
ConnectionLost(s) ==
  /\ IoFree /\ s \in connected \ stopped /\ (wire[s] # <<>> \/ output[s] # <<>>)
  /\ toStop' = {s}
  /\ UNCHANGED sessionVars /\ UNCHANGED commandVars
  /\ UNCHANGED <<idle, busy, pending, config, configs, posted, closed>>

-----------------------------------------------------------------------------
(* Timers *)

DeadlineExpires(c) ==
  /\ deadline[c] = "armed" /\ deadline' = [deadline EXCEPT ![c] = "due"]
  /\ UNCHANGED sessionVars /\ UNCHANGED poolVars
  /\ UNCHANGED <<pc, handler, session, answers, again>>

\* mutant: the session is not stopped
CancelOnly(c) ==
  /\ IoFree /\ deadline[c] = "due" /\ pc[c] # "started"
  /\ handler' = handler \ {c}
  /\ answers' = [answers EXCEPT ![c] = IF c \in handler THEN @ + 1 ELSE @]
  /\ deadline' = [deadline EXCEPT ![c] = "off"]
  /\ IF c \in handler THEN CheckIn(session[c])
     ELSE UNCHANGED <<idle, busy, pending, timer, posted>>
  /\ UNCHANGED <<nodeOf, connected, stopped, keep, onConnect, current, output, wire>>
  /\ UNCHANGED <<config, configs, toStop, closed, pc, session, again>>

\* cancel: the handler is called and checks the session in; then, whatever
\* has become of the session since the command was answered, it is stopped.
\* Before set_command_session, invoke_handler dereferences a null session_, and
\* the process ends there: no behaviour goes on from such a call.
Cancel(c) ==
  /\ IoFree /\ deadline[c] = "due" /\ pc[c] # "started"
  /\ handler' = handler \ {c}
  /\ answers' = [answers EXCEPT ![c] = IF c \in handler THEN @ + 1 ELSE @]
  /\ deadline' = [deadline EXCEPT ![c] = "off"]
  /\ IF c \in handler THEN CheckIn(session[c])
     ELSE UNCHANGED <<idle, busy, pending, timer, posted>>
  /\ toStop' = {session[c]}
  /\ UNCHANGED <<nodeOf, connected, stopped, keep, onConnect, current, output, wire>>
  /\ UNCHANGED <<config, configs, closed, pc, session, again>>

TimerExpires(s) ==
  /\ IdleExpires(s)
  /\ UNCHANGED poolVars /\ UNCHANGED commandVars

IdleStop(s) ==
  /\ IoFree /\ timer[s] = "due"
  /\ timer' = [timer EXCEPT ![s] = "off"] /\ toStop' = {s}
  /\ UNCHANGED <<nodeOf, connected, stopped, keep, onConnect, current, output, wire>>
  /\ UNCHANGED <<idle, busy, pending, config, configs, posted, closed>>
  /\ UNCHANGED commandVars

-----------------------------------------------------------------------------
(* stop *)

\* The state of the session, the callbacks, and on_stop.
Stop(s) ==
  /\ s \in toStop /\ toStop' = toStop \ {s}
  /\ IF s \in stopped
     THEN /\ UNCHANGED <<stopped, timer, onConnect, current, nodeOf>>
          /\ UNCHANGED <<idle, busy, pending>>
          /\ UNCHANGED <<session, handler, answers, deadline>>
     ELSE /\ stopped' = stopped \cup {s}
          /\ timer' = [timer EXCEPT ![s] = Cancelled(@)]
          /\ current' = [current EXCEPT ![s] = none]
          /\ IF onConnect[s] # none THEN ConnectAgain(onConnect[s], s)
             ELSE IF current[s] # none
             THEN Handle(current[s]) /\ UNCHANGED <<onConnect, nodeOf, session>>
             ELSE UNCHANGED <<onConnect, nodeOf, session, handler, answers, deadline>>
          /\ idle' = idle \ {s} /\ busy' = busy \ {s} /\ pending' = pending \ {s}
  /\ UNCHANGED <<connected, keep, output, wire>>
  /\ UNCHANGED <<config, configs, posted, closed, pc, again>>

RunPosted(s) ==
  /\ IoFree /\ s \in posted
  /\ posted' = posted \ {s} /\ toStop' = {s}
  /\ UNCHANGED sessionVars /\ UNCHANGED commandVars
  /\ UNCHANGED <<idle, busy, pending, config, configs, closed>>

\* The destructor of a session that nobody refers to any more.
Destroy(s) ==
  /\ IoFree /\ s \in Made \ (stopped \cup idle \cup busy \cup pending \cup posted)
  /\ timer[s] = "off" /\ current[s] = none /\ onConnect[s] = none
  /\ \A c \in Commands : session[c] = s => pc[c] = "done" /\ deadline[c] = "off"
  /\ toStop' = {s}
  /\ UNCHANGED sessionVars /\ UNCHANGED commandVars
  /\ UNCHANGED <<idle, busy, pending, config, configs, posted, closed>>

-----------------------------------------------------------------------------
(* Configurations, and the end *)

\* update_config: idle sessions of other nodes are dropped, their timers stay.
UpdateConfig ==
  /\ IoFree /\ configs < MaxConfigs /\ configs' = configs + 1
  /\ config' \in SUBSET Nodes
  /\ idle' = {s \in idle : nodeOf[s] \in config'}
  /\ UNCHANGED sessionVars /\ UNCHANGED commandVars
  /\ UNCHANGED <<busy, pending, toStop, posted, closed>>

\* close
Close ==
  /\ IoFree /\ ~closed /\ closed' = TRUE
  /\ idle' = {} /\ busy' = {} /\ pending' = {}
  /\ timer' = [s \in Sessions |-> IF s \in idle THEN Cancelled(timer[s]) ELSE timer[s]]
  /\ toStop' = busy \cup pending
  /\ UNCHANGED <<nodeOf, connected, stopped, keep, onConnect, current, output, wire>>
  /\ UNCHANGED <<config, configs, posted>> /\ UNCHANGED commandVars

IoStep(s) ==
  \/ ConnectFails(s) \/ OnConnect(s) \/ OnConnectEncodeFails(s)
  \/ Write(s) \/ Answered(s) \/ AnsweredWithRetry(s) \/ ConnectionLost(s)
  \/ IdleStop(s) \/ Stop(s) \/ RunPosted(s) \/ Destroy(s)

Next ==
  \/ \E c \in Commands : Execute(c) \/ DeadlineExpires(c) \/ Cancel(c)
  \/ \E s \in Sessions : IoStep(s) \/ TimerExpires(s)
  \/ UpdateConfig \/ Close

Spec == Init /\ [][Next]_vars

\* What happens by itself: the thread of a command goes on, timers expire, and
\* the I/O thread runs what is queued on it.
ThreadStep == \E c \in Commands : pc[c] # "new" /\ Execute(c)
DeadlineStep == \E c \in Commands : DeadlineExpires(c) \/ Cancel(c)
QueuedStep ==
  \E s \in Sessions :
    TimerExpires(s) \/ IdleStop(s) \/ Stop(s) \/ RunPosted(s) \/ Destroy(s)

\* Nothing is assumed of the server, of connections, of configurations, of
\* close(), or of the application's next command.
Fairness == WF_vars(ThreadStep) /\ WF_vars(DeadlineStep) /\ WF_vars(QueuedStep)

FairSpec == Spec /\ Fairness

-----------------------------------------------------------------------------
\* The handler of a command is called at most once, whoever gets to it first:
\* the answer, the deadline, the end of the session, or a failure to encode.
AnsweredOnce == \A c \in Commands : answers[c] <= 1

\* A command under way, from check_out until its handler is called.
UnderWay(c) == pc[c] = "checked_out" \/ c \in handler

\* No two commands under way have the same session.
OwnSession ==
  \A c, d \in Commands :
    UnderWay(c) /\ UnderWay(d) /\ session[c] = session[d] => c = d

\* The answer that is read next goes to the command that asked for it: a
\* session that cancel() gives back before its request is answered is stopped
\* before it reads.
OwnAnswer ==
  \A s \in Sessions :
    s \notin stopped \cup toStop /\ wire[s] # <<>> => current[s] = Head(wire[s])

\* A request is written only while its command waits for the answer, or is
\* retried: not after the application has been told that it timed out.
NoLateRequest ==
  [][\A s \in Sessions : \A i \in 1..Len(wire'[s]) :
       i > Len(wire[s]) => wire'[s][i] \in handler \cup again]_vars

\* In the end, every command that was executed is answered, also when its
\* session is stopped under it, unless make_response asked for a retry: the
\* handler is lost then.
EveryCommandAnswered ==
  <>[](\A c \in Commands : pc[c] = "new" \/ answers[c] = 1 \/ c \in again)

\* No session is leaked: in the end each is stopped, by its command, its idle
\* timer, close() or its destructor, unless a retried command holds it.
SessionsEnd ==
  <>[](\A s \in Made : s \in stopped \/ \E c \in again : session[c] = s)
=============================================================================
