------------------------- MODULE HttpSessionManager -------------------------
(***************************************************************************)
(* The pool of HTTP sessions (http_session_manager) and the commands that   *)
(* use it (http_command), for one service.                                  *)
(*                                                                          *)
(* A command is executed by a thread of the application, which checks a     *)
(* session out, starts the deadline, and connects the session or writes the *)
(* request.  Everything else happens on the I/O thread: connections,        *)
(* answers, timers, configurations and close(), which the cluster posts     *)
(* there.  The handler of the command checks the session in.  One step is   *)
(* one critical section of an application's thread, or one handler of the   *)
(* I/O thread, save that stopping sessions is a step of its own (toStop):   *)
(* cancel() and close() go on to it after they have let other threads see   *)
(* the pool.                                                                *)
(***************************************************************************)
EXTENDS HttpSession

CONSTANTS
  Sticky,      \* the node a command asks for (send_to_node), or none
  KeepAlive,   \* commands with "connection: keep-alive"
  Retried,     \* commands whose answer may ask for a retry (prepared queries)
  MaxConfigs   \* bound on the configurations that arrive

ASSUME ManagerAssumption ==
  /\ Sticky \in [Commands -> Nodes \cup {none}]
  /\ KeepAlive \subseteq Commands /\ Retried \subseteq Commands
  /\ MaxConfigs \in Nat

VARIABLES
  idle, busy, pending,  \* idle_sessions_, busy_sessions_, pending_sessions_
  config,     \* nodes of config_ with the service
  configs,    \* configurations that have arrived
  toStop,     \* sessions the handler on the I/O thread is about to stop
  posted,     \* sessions whose stop() is posted to the I/O thread
  closed,     \* close() has been called
  pc,         \* where the thread that executes each command is
  handler,    \* commands with a handler_
  session,    \* the session checked out for each command: its session_ once set
  deadline,   \* deadline of each command: "off", "armed", "due"
  answers,    \* calls of each command's handler
  again       \* commands that were retried (history)

poolVars == <<idle, busy, pending, config, configs, toStop, posted, closed>>
commandVars == <<pc, handler, session, deadline, answers, again>>
vars == <<sessionVars, poolVars, commandVars>>

Places ==
  {"new", "checked_out", "started", "send_to", "subscribe", "check_in", "done"}

\* Every variable of the sessions, the pool and the commands has its type.
TypeOK ==
  /\ SessionTypeOK
  /\ idle \in SUBSET Sessions /\ busy \in SUBSET Sessions /\ pending \in SUBSET Sessions
  /\ config \in SUBSET Nodes /\ configs \in 0..MaxConfigs
  /\ toStop \in SUBSET Sessions /\ posted \in SUBSET Sessions
  /\ closed \in BOOLEAN
  /\ pc \in [Commands -> Places]
  /\ handler \in SUBSET Commands /\ again \in SUBSET Commands
  /\ session \in [Commands -> Sessions \cup {none}]
  /\ deadline \in [Commands -> {"off", "armed", "due"}]
  /\ answers \in [Commands -> Nat]

Init ==
  /\ SessionInit
  /\ idle = {} /\ busy = {} /\ pending = {}
  /\ config = Nodes /\ configs = 0
  /\ toStop = {} /\ posted = {} /\ closed = FALSE
  /\ pc = [c \in Commands |-> "new"]
  /\ handler = {} /\ again = {}
  /\ session = [c \in Commands |-> none]
  /\ deadline = [c \in Commands |-> "off"]
  /\ answers = [c \in Commands |-> 0]

Goto(c, p) == pc' = [pc EXCEPT ![c] = p]

\* The I/O thread is between two handlers.
IoFree == toStop = {}

\* The nodes next_node or lookup_node may return.
NodesFor(c) == IF Sticky[c] = none THEN config ELSE config \cap {Sticky[c]}

\* The idle sessions check_out looks at.
Fitting(c) == {s \in idle : Sticky[c] \in {none, nodeOf[s]}}

-----------------------------------------------------------------------------
(* check_in and invoke_handler *)

\* mutant: set_idle is forgotten
PutIdleUntimed(s) ==
  /\ idle' = idle \cup {s}
  /\ busy' = busy \ {s} /\ pending' = pending \ {s}
  /\ UNCHANGED <<posted, timer>>

\* set_idle, and the session is put back.
PutIdle(s) ==
  /\ timer' = [timer EXCEPT ![s] = "armed"]
  /\ idle' = idle \cup {s}
  /\ busy' = busy \ {s} /\ pending' = pending \ {s}
  /\ UNCHANGED posted

CheckIn(s) ==
  IF s \notin connected
  THEN pending' = pending \ {s} /\ UNCHANGED <<idle, busy, timer, posted>>
  ELSE IF s \notin keep \/ nodeOf[s] \notin config
  THEN posted' = posted \cup {s} /\ UNCHANGED <<idle, busy, pending, timer>>
  ELSE IF s \in stopped
  THEN UNCHANGED <<idle, busy, pending, timer, posted>>
  ELSE PutIdle(s)

\* mutant: handler_ is not moved out
HandleKept(c) ==
  /\ handler' = handler
  /\ answers' = [answers EXCEPT ![c] = IF c \in handler THEN @ + 1 ELSE @]
  /\ deadline' = [deadline EXCEPT ![c] = Cancelled(@)]

\* invoke_handler, without the check_in
Handle(c) ==
  /\ handler' = handler \ {c}
  /\ answers' = [answers EXCEPT ![c] = IF c \in handler THEN @ + 1 ELSE @]
  /\ deadline' = [deadline EXCEPT ![c] = Cancelled(@)]

-----------------------------------------------------------------------------
(* execute, on a thread of the application *)

\* mutant: the session stays in idle_sessions_
TakeIdleShared(c, s) ==
  /\ s \in Fitting(c) /\ timer[s] = "armed"
  /\ busy' = busy \cup {s}
  /\ UNCHANGED <<idle, timer, nodeOf, pending>>

\* reset_idle succeeds for s; the sessions before it, whose timers are due, go.
TakeIdle(c, s) ==
  /\ s \in Fitting(c) /\ timer[s] = "armed"
  /\ \E D \in SUBSET {t \in Fitting(c) : timer[t] # "armed"} : idle' = idle \ (D \cup {s})
  /\ timer' = [timer EXCEPT ![s] = "off"]
  /\ busy' = busy \cup {s}
  /\ UNCHANGED <<nodeOf, pending>>

\* No idle session fits: create_session.
CreateSession(c, s) ==
  /\ \A t \in Fitting(c) : timer[t] # "armed"
  /\ \E n \in NodesFor(c) : nodeOf' = [nodeOf EXCEPT ![s] = n]
  /\ idle' = idle \ Fitting(c)
  /\ pending' = pending \cup {s}
  /\ UNCHANGED <<busy, timer>>

\* check_out: of a session of the pool or of a new one.
CheckOut(c) ==
  /\ pc[c] = "new" /\ Goto(c, "checked_out")
  /\ (Sticky[c] # none => NodesFor(c) # {})
  /\ \E s \in Sessions :
       /\ TakeIdle(c, s) \/ (s \in Fresh /\ CreateSession(c, s))
       /\ session' = [session EXCEPT ![c] = s]
  /\ UNCHANGED <<connected, stopped, keep, onConnect, current, output, wire>>
  /\ UNCHANGED <<config, configs, toStop, posted, closed>>
  /\ UNCHANGED <<handler, deadline, answers, again>>

\* check_out finds no node: execute answers service_not_available.
CheckOutFails(c) ==
  /\ pc[c] = "new" /\ Goto(c, "done")
  /\ NodesFor(c) = {}
  /\ Sticky[c] = none => \A t \in idle : timer[t] # "armed"
  /\ answers' = [answers EXCEPT ![c] = @ + 1]
  /\ idle' = IF Sticky[c] = none THEN {} ELSE idle
  /\ UNCHANGED sessionVars
  /\ UNCHANGED <<busy, pending, config, configs, toStop, posted, closed>>
  /\ UNCHANGED <<handler, session, deadline, again>>

\* mutant: the deadline is not started
StartWithoutDeadline(c) ==
  /\ pc[c] = "checked_out" /\ Goto(c, "started")
  /\ handler' = handler \cup {c}
  /\ UNCHANGED sessionVars /\ UNCHANGED poolVars
  /\ UNCHANGED <<session, answers, again, deadline>>

\* start: the deadline runs from here on, and session_ is still null.
Start(c) ==
  /\ pc[c] = "checked_out" /\ Goto(c, "started")
  /\ handler' = handler \cup {c}
  /\ deadline' = [deadline EXCEPT ![c] = "armed"]
  /\ UNCHANGED sessionVars /\ UNCHANGED poolVars
  /\ UNCHANGED <<session, answers, again>>

\* set_command_session; then connect, or send_to.  A session that is stopped
\* does not connect, and says nothing.
SetCommandSession(c) ==
  /\ pc[c] = "started"
  /\ IF session[c] \in connected
     THEN Goto(c, "send_to") /\ UNCHANGED onConnect
     ELSE /\ Goto(c, "done")
          /\ onConnect' = IF session[c] \in stopped THEN onConnect
                          ELSE Connecting(onConnect, session[c], c)
  /\ UNCHANGED <<nodeOf, connected, stopped, keep, timer, current, output, wire>>
  /\ UNCHANGED poolVars /\ UNCHANGED <<handler, session, deadline, answers, again>>

\* send_to, send, and the test of stopped_ in write_and_subscribe
SendTo(c) ==
  /\ pc[c] = "send_to"
  /\ Goto(c, IF c \in handler /\ session[c] \notin stopped THEN "subscribe" ELSE "done")
  /\ UNCHANGED sessionVars /\ UNCHANGED poolVars
  /\ UNCHANGED <<handler, session, deadline, answers, again>>

\* encode_to fails: the handler is called on the application's thread, where
\* the session may be stopped between the test of is_stopped() and its return
\* to the pool.
EncodeFails(c) ==
  LET s == session[c]
  IN /\ pc[c] = "send_to" /\ c \in handler
     /\ Handle(c)
     /\ IF s \in keep \ stopped /\ nodeOf[s] \in config
        THEN Goto(c, "check_in") /\ UNCHANGED <<idle, busy, pending, timer, posted>>
        ELSE Goto(c, "done") /\ CheckIn(s)
     /\ UNCHANGED <<nodeOf, connected, stopped, keep, onConnect, current, output, wire>>
     /\ UNCHANGED <<config, configs, toStop, closed, session, again>>

CheckInIdle(c) ==
  /\ pc[c] = "check_in" /\ Goto(c, "done")
  /\ PutIdle(session[c])
  /\ UNCHANGED <<nodeOf, connected, stopped, keep, onConnect, current, output, wire>>
  /\ UNCHANGED <<config, configs, toStop, closed>>
  /\ UNCHANGED <<handler, session, deadline, answers, again>>

\* The rest of write_and_subscribe.
WriteAndSubscribe(c) ==
  /\ pc[c] = "subscribe" /\ Goto(c, "done")
  /\ Subscribe(c, session[c], c \in KeepAlive)
  /\ UNCHANGED <<nodeOf, connected, stopped, timer, onConnect, wire>>
  /\ UNCHANGED poolVars /\ UNCHANGED <<handler, session, deadline, answers, again>>

Execute(c) ==
  CheckOut(c) \/ CheckOutFails(c) \/ Start(c) \/ SetCommandSession(c) \/ SendTo(c)
  \/ EncodeFails(c) \/ CheckInIdle(c) \/ WriteAndSubscribe(c)
=============================================================================
