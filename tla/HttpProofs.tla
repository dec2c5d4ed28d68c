----------------------------- MODULE HttpProofs -----------------------------
(***************************************************************************)
(* The safety properties of Http, for any commands, sessions, nodes and     *)
(* configurations.                                                          *)
(***************************************************************************)
EXTENDS Http, TLAPS, SequenceTheorems

\* A command that holds its session: nobody else may use it.
Holds(c) == pc[c] \in {"checked_out", "check_in"} \/ c \in handler

\* Where the thread of a command is about to use its session.
Using == {"checked_out", "started", "send_to", "subscribe", "check_in"}

\* Nothing is under way on the session.
Free(s) == current[s] = none /\ output[s] = <<>> /\ wire[s] = <<>>

Live(s) == s \notin stopped \cup toStop

-----------------------------------------------------------------------------
(* The inductive invariant.                                                 *)

\* A command is answered once, and its handler is there until then.
Counting ==
  \A c \in Commands :
    /\ answers[c] <= 1
    /\ c \in handler \/ pc[c] \in {"new", "checked_out"} => answers[c] = 0
    /\ pc[c] \in {"new", "checked_out"} => c \notin handler /\ deadline[c] = "off"
    /\ pc[c] = "started" => c \in handler
    /\ pc[c] = "check_in" => c \notin handler
    /\ deadline[c] = "armed" => c \in handler

\* A session has one holder, and none while it is idle.
Owners ==
  /\ \A c, d \in Commands :
       Holds(c) /\ Holds(d) /\ session[c] = session[d] => c = d
  /\ \A c \in Commands : Holds(c) => session[c] \in Made \ idle
  /\ \A c \in Commands : pc[c] \in {"send_to", "subscribe", "check_in"} =>
                           session[c] \in connected
  /\ \A c \in Commands : deadline[c] # "off" => session[c] \in Made
  /\ idle \subseteq connected /\ connected \subseteq Made

\* The callbacks of a session belong to its holder, or to nobody any more.
Callbacks ==
  /\ \A s \in Sessions, c \in Commands :
       /\ current[s] = c => pc[c] = "done" /\ (c \in handler => session[c] = s)
       /\ onConnect[s] = c =>
            /\ pc[c] = "done" /\ s \in Made
            /\ c \in handler => session[c] = s
            /\ \A x \in Sessions : current[x] # c

\* A session that is not about to stop carries the request of its holder only.
Carried(s) ==
  \/ wire[s] = <<>> /\ output[s] = <<>>
  \/ /\ current[s] \in handler \cup again
     /\ \/ wire[s] = <<>> /\ output[s] = <<current[s]>>
        \/ wire[s] = <<current[s]>> /\ output[s] = <<>>

Orderly(s) ==
  /\ s \notin connected => Free(s)
  /\ Live(s) =>
       /\ Carried(s)
       /\ s \in idle => Free(s)
       /\ \A c \in Commands : session[c] = s /\ pc[c] \in Using =>
            /\ Free(s)
            /\ pc[c] \in {"send_to", "subscribe"} => c \in handler

Clean == \A s \in Sessions : Orderly(s)

IInv == TypeOK /\ Counting /\ Owners /\ Callbacks /\ Clean

-----------------------------------------------------------------------------
(* Types.                                                                   *)

\* What invoke_handler leaves of the command has its type.
LEMMA HandleType ==
  ASSUME TypeOK, NEW c \in Commands, Handle(c)
  PROVE  /\ handler' \in SUBSET Commands
         /\ answers' \in [Commands -> Nat]
         /\ deadline' \in [Commands -> {"off", "armed", "due"}]
<1>1. handler \in SUBSET Commands /\ answers \in [Commands -> Nat]
      /\ deadline \in [Commands -> {"off", "armed", "due"}]
  BY DEF TypeOK
<1>2. handler' \in SUBSET Commands
  BY <1>1 DEF Handle
<1>3. answers' \in [Commands -> Nat]
  BY <1>1 DEF Handle
<1>4. deadline' \in [Commands -> {"off", "armed", "due"}]
  BY <1>1 DEF Handle, Cancelled
<1> QED  BY <1>2, <1>3, <1>4

\* So has the pool after set_idle,
LEMMA PutIdleType ==
  ASSUME TypeOK, NEW s \in Sessions, PutIdle(s)
  PROVE  /\ idle' \in SUBSET Sessions /\ busy' \in SUBSET Sessions
         /\ pending' \in SUBSET Sessions /\ posted' \in SUBSET Sessions
         /\ timer' \in [Sessions -> {"off", "armed", "due"}]
<1>1. /\ idle \in SUBSET Sessions /\ busy \in SUBSET Sessions
      /\ pending \in SUBSET Sessions /\ posted \in SUBSET Sessions
      /\ timer \in [Sessions -> {"off", "armed", "due"}]
  BY DEF TypeOK, SessionTypeOK
<1> QED  BY <1>1 DEF PutIdle

\* after check_in,
LEMMA CheckInType ==
  ASSUME TypeOK, NEW s \in Sessions, CheckIn(s)
  PROVE  /\ idle' \in SUBSET Sessions /\ busy' \in SUBSET Sessions
         /\ pending' \in SUBSET Sessions /\ posted' \in SUBSET Sessions
         /\ timer' \in [Sessions -> {"off", "armed", "due"}]
<1>1. /\ idle \in SUBSET Sessions /\ busy \in SUBSET Sessions
      /\ pending \in SUBSET Sessions /\ posted \in SUBSET Sessions
      /\ timer \in [Sessions -> {"off", "armed", "due"}]
  BY DEF TypeOK, SessionTypeOK
<1>2. CASE PutIdle(s)
  BY <1>2, PutIdleType
<1>3. CASE pending' = pending \ {s} /\ UNCHANGED <<idle, busy, timer, posted>>
  BY <1>1, <1>3
<1>4. CASE posted' = posted \cup {s} /\ UNCHANGED <<idle, busy, pending, timer>>
  BY <1>1, <1>4
<1>5. CASE UNCHANGED <<idle, busy, pending, timer, posted>>
  BY <1>1, <1>5
<1> QED  BY <1>2, <1>3, <1>4, <1>5 DEF CheckIn

\* and the session after write_and_subscribe.
LEMMA SubscribeType ==
  ASSUME TypeOK, NEW c \in Commands, NEW s \in Sessions, NEW k \in BOOLEAN,
         Subscribe(c, s, k)
  PROVE  /\ current' \in [Sessions -> Commands \cup {none}]
         /\ keep' \in SUBSET Sessions
         /\ output' \in [Sessions -> Seq(Commands)]
<1>1. /\ current \in [Sessions -> Commands \cup {none}]
      /\ keep \in SUBSET Sessions
      /\ output \in [Sessions -> Seq(Commands)]
  BY DEF TypeOK, SessionTypeOK
<1>2. current' \in [Sessions -> Commands \cup {none}]
  BY <1>1 DEF Subscribe
<1>3. keep' \in SUBSET Sessions
  BY <1>1 DEF Subscribe
<1>4. Append(output[s], c) \in Seq(Commands)
  BY <1>1
<1>5. output' \in [Sessions -> Seq(Commands)]
  BY <1>1, <1>4 DEF Subscribe
<1> QED  BY <1>2, <1>3, <1>5

\* next_node and lookup_node return nodes.
LEMMA NodesForType ==
  ASSUME TypeOK, NEW c
  PROVE  NodesFor(c) \subseteq Nodes
BY DEF TypeOK, NodesFor

\* The callback of connect() keeps the types.
LEMMA ConnectAgainType ==
  ASSUME TypeOK, NEW c \in Commands, NEW s \in Sessions, ConnectAgain(c, s)
  PROVE  /\ onConnect' \in [Sessions -> Commands \cup {none}]
         /\ nodeOf' \in [Sessions -> Nodes \cup {none}]
         /\ session' \in [Commands -> Sessions \cup {none}]
         /\ handler' \in SUBSET Commands
         /\ answers' \in [Commands -> Nat]
         /\ deadline' \in [Commands -> {"off", "armed", "due"}]
<1>1. /\ onConnect \in [Sessions -> Commands \cup {none}]
      /\ nodeOf \in [Sessions -> Nodes \cup {none}]
      /\ session \in [Commands -> Sessions \cup {none}]
      /\ handler \in SUBSET Commands
      /\ answers \in [Commands -> Nat]
      /\ deadline \in [Commands -> {"off", "armed", "due"}]
  BY DEF TypeOK, SessionTypeOK
<1>2. CASE /\ onConnect' = [onConnect EXCEPT ![s] = none]
           /\ UNCHANGED <<nodeOf, session, handler, answers, deadline>>
  BY <1>1, <1>2
<1>3. CASE /\ onConnect' = [onConnect EXCEPT ![s] = none]
           /\ Handle(c) /\ UNCHANGED <<nodeOf, session>>
  BY <1>1, <1>3, HandleType
<1>4. ASSUME NEW t \in Fresh, NEW n \in NodesFor(c),
             nodeOf' = [nodeOf EXCEPT ![t] = n],
             session' = [session EXCEPT ![c] = t],
             onConnect' = Connecting([onConnect EXCEPT ![s] = none], t, c),
             UNCHANGED <<handler, answers, deadline>>
      PROVE  /\ onConnect' \in [Sessions -> Commands \cup {none}]
             /\ nodeOf' \in [Sessions -> Nodes \cup {none}]
             /\ session' \in [Commands -> Sessions \cup {none}]
  <2>1. t \in Sessions /\ n \in Nodes
    BY NodesForType DEF Fresh
  <2>2. onConnect' \in [Sessions -> Commands \cup {none}]
    BY <1>1, <1>4, <2>1 DEF Connecting
  <2>3. nodeOf' \in [Sessions -> Nodes \cup {none}]
    BY <1>1, <1>4, <2>1
  <2>4. session' \in [Commands -> Sessions \cup {none}]
    BY <1>1, <1>4, <2>1
  <2> QED  BY <2>2, <2>3, <2>4
<1> QED  BY <1>1, <1>2, <1>3, <1>4, Zenon DEF ConnectAgain

\* What a command that has a session is known to have.
LEMMA HasSession ==
  ASSUME TypeOK, Owners, NEW c \in Commands,
         \/ Holds(c) \/ deadline[c] # "off"
         \/ pc[c] \in {"send_to", "subscribe", "check_in"}
  PROVE  session[c] \in Made /\ session[c] \in Sessions
<1>1. Made \subseteq Sessions
  BY DEF Made
<1> QED  BY <1>1 DEF Owners

\* Every step keeps the types.
LEMMA TypeStep ==
  ASSUME TypeOK, Owners, Next \/ UNCHANGED vars
  PROVE  TypeOK'
<1>1. ASSUME NEW c \in Commands, CheckOut(c) PROVE TypeOK'
  <2>1. PICK t \in Sessions :
          /\ TakeIdle(c, t) \/ (t \in Fresh /\ CreateSession(c, t))
          /\ session' = [session EXCEPT ![c] = t]
    BY <1>1, Zenon DEF CheckOut
  <2>2. /\ idle' \in SUBSET Sessions /\ busy' \in SUBSET Sessions
        /\ pending' \in SUBSET Sessions
        /\ timer' \in [Sessions -> {"off", "armed", "due"}]
        /\ nodeOf' \in [Sessions -> Nodes \cup {none}]
    <3>1. CASE TakeIdle(c, t)
      BY <3>1 DEF TakeIdle, TypeOK, SessionTypeOK
    <3>2. CASE CreateSession(c, t)
      BY <3>2, NodesForType DEF CreateSession, TypeOK, SessionTypeOK
    <3> QED  BY <2>1, <3>1, <3>2
  <2>3. session' \in [Commands -> Sessions \cup {none}] /\ pc' \in [Commands -> Places]
    BY <1>1, <2>1 DEF CheckOut, Goto, TypeOK, Places
  <2> QED  BY <1>1, <2>2, <2>3 DEF CheckOut, TypeOK, SessionTypeOK
<1>2. ASSUME NEW c \in Commands, CheckOutFails(c) PROVE TypeOK'
  BY <1>2, ManagerAssumption, HttpAssumption DEF CheckOutFails, Goto, sessionVars, TypeOK,
     SessionTypeOK, Places, Made
<1>0. ASSUME NEW c \in Commands, Start(c) PROVE TypeOK'
  BY <1>0 DEF Start, Goto, sessionVars, poolVars, TypeOK, SessionTypeOK, Places, Made
<1>3. ASSUME NEW c \in Commands, SetCommandSession(c) PROVE TypeOK'
  <2>1. onConnect' \in [Sessions -> Commands \cup {none}]
    BY <1>3, Zenon DEF SetCommandSession, Connecting, TypeOK, SessionTypeOK
  <2>2. pc' \in [Commands -> Places]
    BY <1>3 DEF SetCommandSession, Goto, TypeOK, Places
  <2>3. deadline' \in [Commands -> {"off", "armed", "due"}]
    BY <1>3 DEF SetCommandSession, TypeOK
  <2> QED  BY <1>3, <2>1, <2>2, <2>3 DEF SetCommandSession, poolVars, TypeOK, SessionTypeOK
<1>4. ASSUME NEW c \in Commands, SendTo(c) PROVE TypeOK'
  BY <1>4, ManagerAssumption, HttpAssumption DEF SendTo, Goto, sessionVars, poolVars,
     TypeOK, SessionTypeOK, Places, Made
<1>5. ASSUME NEW c \in Commands, EncodeFails(c) PROVE TypeOK'
  <2>1. session[c] \in Sessions
    BY <1>5, HasSession DEF EncodeFails
  <2>2. /\ idle' \in SUBSET Sessions /\ busy' \in SUBSET Sessions
        /\ pending' \in SUBSET Sessions /\ posted' \in SUBSET Sessions
        /\ timer' \in [Sessions -> {"off", "armed", "due"}]
    <3>1. CASE CheckIn(session[c])
      BY <2>1, <3>1, CheckInType
    <3>2. CASE UNCHANGED <<idle, busy, pending, timer, posted>>
      BY <3>2 DEF TypeOK, SessionTypeOK
    <3> QED  BY <1>5, <3>1, <3>2 DEF EncodeFails
  <2>3. pc' \in [Commands -> Places]
    BY <1>5 DEF EncodeFails, Goto, TypeOK, Places
  <2>4. Handle(c)
    BY <1>5 DEF EncodeFails
  <2> QED  BY <1>5, <2>2, <2>3, <2>4, HandleType DEF EncodeFails, TypeOK, SessionTypeOK
<1>6. ASSUME NEW c \in Commands, CheckInIdle(c) PROVE TypeOK'
  <2>1. session[c] \in Sessions
    BY <1>6, HasSession DEF CheckInIdle
  <2>2. PutIdle(session[c]) /\ pc' \in [Commands -> Places]
    BY <1>6 DEF CheckInIdle, Goto, TypeOK, Places
  <2> QED  BY <1>6, <2>1, <2>2, PutIdleType DEF CheckInIdle, TypeOK, SessionTypeOK
<1>7. ASSUME NEW c \in Commands, WriteAndSubscribe(c) PROVE TypeOK'
  <2>1. session[c] \in Sessions
    BY <1>7, HasSession DEF WriteAndSubscribe
  <2>2. /\ Subscribe(c, session[c], c \in KeepAlive) /\ (c \in KeepAlive) \in BOOLEAN
        /\ pc' \in [Commands -> Places]
    BY <1>7 DEF WriteAndSubscribe, Goto, TypeOK, Places
  <2>3. /\ current' \in [Sessions -> Commands \cup {none}]
        /\ keep' \in SUBSET Sessions
        /\ output' \in [Sessions -> Seq(Commands)]
    BY Zenon, <2>1, <2>2, SubscribeType
  <2> QED  BY <1>7, <2>2, <2>3 DEF WriteAndSubscribe, poolVars, TypeOK, SessionTypeOK
<1>8. ASSUME NEW c \in Commands, DeadlineExpires(c) PROVE TypeOK'
  BY <1>8, ManagerAssumption, HttpAssumption DEF DeadlineExpires, sessionVars, poolVars,
     TypeOK, SessionTypeOK, Places, Made
<1>9. ASSUME NEW c \in Commands, Cancel(c) PROVE TypeOK'
  <2>1. session[c] \in Sessions
    BY <1>9, HasSession DEF Cancel
  <2>2. /\ idle' \in SUBSET Sessions /\ busy' \in SUBSET Sessions
        /\ pending' \in SUBSET Sessions /\ posted' \in SUBSET Sessions
        /\ timer' \in [Sessions -> {"off", "armed", "due"}]
    <3>1. CASE CheckIn(session[c])
      BY <2>1, <3>1, CheckInType
    <3>2. CASE UNCHANGED <<idle, busy, pending, timer, posted>>
      BY <3>2 DEF TypeOK, SessionTypeOK
    <3> QED  BY <1>9, <3>1, <3>2 DEF Cancel
  <2>3. /\ handler' \in SUBSET Commands
        /\ answers' \in [Commands -> Nat]
        /\ deadline' \in [Commands -> {"off", "armed", "due"}]
    BY <1>9 DEF Cancel, TypeOK
  <2> QED  BY <1>9, <2>1, <2>2, <2>3 DEF Cancel, TypeOK, SessionTypeOK
<1>10. ASSUME NEW s \in Sessions, ConnectFails(s) PROVE TypeOK'
  <2>1. onConnect[s] \in Commands /\ ConnectAgain(onConnect[s], s)
    BY <1>10 DEF ConnectFails, TypeOK, SessionTypeOK
  <2>2. toStop' \in SUBSET Sessions
    BY <1>10 DEF ConnectFails
  <2> QED  BY <1>10, <2>1, <2>2, ConnectAgainType DEF ConnectFails, TypeOK, SessionTypeOK
<1>11. ASSUME NEW s \in Sessions, OnConnect(s) PROVE TypeOK'
  <2>1. onConnect[s] \in Commands
    BY <1>11 DEF OnConnect, TypeOK, SessionTypeOK
  <2>2. /\ current' \in [Sessions -> Commands \cup {none}]
        /\ keep' \in SUBSET Sessions
        /\ output' \in [Sessions -> Seq(Commands)]
    <3>1. CASE onConnect[s] \in handler
      <4>1. Subscribe(onConnect[s], s, onConnect[s] \in KeepAlive)
            /\ (onConnect[s] \in KeepAlive) \in BOOLEAN
        BY <1>11, <3>1 DEF OnConnect
      <4> QED  BY Zenon, <2>1, <4>1, SubscribeType
    <3>2. CASE onConnect[s] \notin handler
      BY <1>11, <3>2 DEF OnConnect, TypeOK, SessionTypeOK
    <3> QED  BY <3>1, <3>2
  <2>3. onConnect' \in [Sessions -> Commands \cup {none}]
    BY <1>11 DEF OnConnect, TypeOK, SessionTypeOK
  <2> QED  BY <1>11, <2>2, <2>3 DEF OnConnect, commandVars, TypeOK, SessionTypeOK
<1>12. ASSUME NEW s \in Sessions, OnConnectEncodeFails(s) PROVE TypeOK'
  BY <1>12, ManagerAssumption, HttpAssumption DEF OnConnectEncodeFails, Handle, Cancelled,
     IoFree, TypeOK, SessionTypeOK, Places, Made
<1>13. ASSUME NEW s \in Sessions, Write(s) PROVE TypeOK'
  BY <1>13, ManagerAssumption, HttpAssumption DEF Write, DoWrite, poolVars, commandVars,
     IoFree, TypeOK, SessionTypeOK, Places, Made
<1>14. ASSUME NEW s \in Sessions, Answered(s) PROVE TypeOK'
  <2>1. current[s] \in Commands /\ Handle(current[s])
    BY <1>14 DEF Answered, TypeOK, SessionTypeOK
  <2>2. /\ idle' \in SUBSET Sessions /\ busy' \in SUBSET Sessions
        /\ pending' \in SUBSET Sessions /\ posted' \in SUBSET Sessions
        /\ timer' \in [Sessions -> {"off", "armed", "due"}]
    <3>1. CASE PutIdle(s)
      BY <3>1, PutIdleType
    <3>2. CASE /\ posted' \in {posted, posted \cup {s}}
               /\ UNCHANGED <<idle, busy, pending, timer>>
      BY <3>2 DEF TypeOK, SessionTypeOK
    <3> QED  BY <1>14, <3>1, <3>2 DEF Answered
  <2>3. wire[s] \in Seq(Commands) /\ wire[s] # <<>>
    BY <1>14 DEF Answered, TypeOK, SessionTypeOK
  <2>4. Tail(wire[s]) \in Seq(Commands)
    BY <2>3
  <2>5. /\ wire' \in [Sessions -> Seq(Commands)]
        /\ current' \in [Sessions -> Commands \cup {none}]
        /\ keep' \in SUBSET Sessions
    BY <1>14, <2>4 DEF Answered, TypeOK, SessionTypeOK
  <2> QED  BY <1>14, <2>1, <2>2, <2>5, HandleType DEF Answered, TypeOK, SessionTypeOK
<1>15. ASSUME NEW s \in Sessions, AnsweredWithRetry(s) PROVE TypeOK'
  <2>1. current[s] \in Commands /\ wire[s] \in Seq(Commands) /\ wire[s] # <<>>
    BY <1>15 DEF AnsweredWithRetry, TypeOK, SessionTypeOK
  <2>2. Tail(wire[s]) \in Seq(Commands) /\ Append(output[s], current[s]) \in Seq(Commands)
    BY <2>1 DEF TypeOK, SessionTypeOK
  <2>3. /\ wire' \in [Sessions -> Seq(Commands)]
        /\ keep' \in SUBSET Sessions
        /\ deadline' \in [Commands -> {"off", "armed", "due"}]
    BY <1>15, <2>2 DEF AnsweredWithRetry, Cancelled, TypeOK, SessionTypeOK
  <2>4. /\ current' \in [Sessions -> Commands \cup {none}]
        /\ output' \in [Sessions -> Seq(Commands)]
    <3>1. CASE output' = [output EXCEPT ![s] = Append(@, current[s])] /\ UNCHANGED current
      BY <2>2, <3>1 DEF TypeOK, SessionTypeOK
    <3>2. CASE current' = [current EXCEPT ![s] = none] /\ UNCHANGED output
      BY <3>2 DEF TypeOK, SessionTypeOK
    <3> QED  BY <1>15, <3>1, <3>2 DEF AnsweredWithRetry
  <2> QED  BY <1>15, <2>1, <2>3, <2>4 DEF AnsweredWithRetry, poolVars, TypeOK, SessionTypeOK
<1>16. ASSUME NEW s \in Sessions, ConnectionLost(s) PROVE TypeOK'
  BY <1>16, ManagerAssumption, HttpAssumption DEF ConnectionLost, sessionVars,
     commandVars, IoFree, TypeOK, SessionTypeOK, Places, Made
<1>17. ASSUME NEW s \in Sessions, IdleStop(s) PROVE TypeOK'
  BY <1>17, ManagerAssumption, HttpAssumption DEF IdleStop, commandVars, IoFree, TypeOK,
     SessionTypeOK, Places, Made
<1>18. ASSUME NEW s \in Sessions, Stop(s) PROVE TypeOK'
  <2>1. /\ onConnect' \in [Sessions -> Commands \cup {none}]
        /\ nodeOf' \in [Sessions -> Nodes \cup {none}]
        /\ session' \in [Commands -> Sessions \cup {none}]
        /\ handler' \in SUBSET Commands
        /\ answers' \in [Commands -> Nat]
        /\ deadline' \in [Commands -> {"off", "armed", "due"}]
    <3>1. CASE onConnect[s] # none /\ ConnectAgain(onConnect[s], s)
      BY <3>1, ConnectAgainType DEF TypeOK, SessionTypeOK
    <3>2. CASE /\ current[s] # none /\ Handle(current[s])
               /\ UNCHANGED <<onConnect, nodeOf, session>>
      BY <3>2, HandleType DEF TypeOK, SessionTypeOK
    <3>3. CASE UNCHANGED <<onConnect, nodeOf, session, handler, answers, deadline>>
      BY <3>3 DEF TypeOK, SessionTypeOK
    <3> QED  BY <1>18, <3>1, <3>2, <3>3 DEF Stop
  <2>2. /\ idle' \in SUBSET Sessions /\ busy' \in SUBSET Sessions
        /\ pending' \in SUBSET Sessions /\ stopped' \in SUBSET Sessions
        /\ timer' \in [Sessions -> {"off", "armed", "due"}]
        /\ current' \in [Sessions -> Commands \cup {none}]
        /\ toStop' \in SUBSET Sessions
    BY <1>18, Zenon DEF Stop, Cancelled, TypeOK, SessionTypeOK
  <2> QED  BY <1>18, <2>1, <2>2 DEF Stop, TypeOK, SessionTypeOK
<1>19. ASSUME NEW s \in Sessions, RunPosted(s) PROVE TypeOK'
  BY <1>19, ManagerAssumption, HttpAssumption DEF RunPosted, sessionVars, commandVars,
     IoFree, TypeOK, SessionTypeOK, Places, Made
<1>20. ASSUME NEW s \in Sessions, Destroy(s) PROVE TypeOK'
  BY <1>20, ManagerAssumption, HttpAssumption DEF Destroy, sessionVars, commandVars,
     IoFree, TypeOK, SessionTypeOK, Places, Made
<1>21. ASSUME NEW s \in Sessions, TimerExpires(s) PROVE TypeOK'
  BY <1>21, ManagerAssumption, HttpAssumption DEF TimerExpires, IdleExpires, poolVars,
     commandVars, TypeOK, SessionTypeOK, Places, Made
<1>22. CASE UpdateConfig
  BY <1>22, ManagerAssumption, HttpAssumption DEF UpdateConfig, sessionVars, commandVars,
     IoFree, TypeOK, SessionTypeOK, Places, Made
<1>23. CASE Close
  BY <1>23, ManagerAssumption, HttpAssumption DEF Close, commandVars, IoFree, Cancelled,
     TypeOK, SessionTypeOK, Places, Made
<1>24. CASE UNCHANGED vars
  BY <1>24 DEF vars, sessionVars, poolVars, commandVars, TypeOK, SessionTypeOK, Places, Made
<1> QED  BY <1>0, <1>1, <1>2, <1>3, <1>4, <1>5, <1>6, <1>7, <1>8, <1>9, <1>10, <1>11, <1>12,
   <1>13, <1>14, <1>15, <1>16, <1>17, <1>18, <1>19, <1>20, <1>21, <1>22, <1>23, <1>24 DEF
   Next, Execute, IoStep

-----------------------------------------------------------------------------
(* Steps that only let timers expire, or sessions go.                       *)

Quiet ==
  /\ UNCHANGED <<nodeOf, connected, onConnect, current, output, wire>>
  /\ UNCHANGED <<pc, handler, session, answers, again>>
  /\ idle' \subseteq idle
  /\ stopped \cup toStop \subseteq stopped' \cup toStop'
  /\ \A c \in Commands :
       \/ deadline'[c] = deadline[c]
       \/ deadline[c] = "armed" /\ deadline'[c] = "due"

\* Deadlines, idle timers, posted stops, destructors, configurations and close()
\* are such steps.
LEMMA QuietSteps ==
  ASSUME TypeOK,
         \/ \E c \in Commands : DeadlineExpires(c)
         \/ \E s \in Sessions : \/ ConnectionLost(s) \/ IdleStop(s) \/ RunPosted(s)
                                \/ Destroy(s) \/ TimerExpires(s)
         \/ UpdateConfig \/ Close \/ UNCHANGED vars
  PROVE  Quiet
<1>1. ASSUME NEW c \in Commands, DeadlineExpires(c)  PROVE Quiet
  BY <1>1 DEF DeadlineExpires, sessionVars, poolVars, Quiet, TypeOK
<1>2. ASSUME NEW s \in Sessions, \/ ConnectionLost(s) \/ IdleStop(s) \/ RunPosted(s)
                                 \/ Destroy(s) \/ TimerExpires(s)
      PROVE  Quiet
  BY <1>2 DEF ConnectionLost, IdleStop, RunPosted, Destroy, TimerExpires, IdleExpires,
              sessionVars, commandVars, poolVars, IoFree, Quiet
<1>3. CASE UpdateConfig \/ Close
  BY <1>3 DEF UpdateConfig, Close, sessionVars, commandVars, IoFree, Quiet
<1>4. CASE UNCHANGED vars
  BY <1>4 DEF vars, sessionVars, commandVars, poolVars, Quiet
<1> QED  BY <1>1, <1>2, <1>3, <1>4

\* They keep the invariant.
LEMMA QuietInv ==
  ASSUME IInv, Quiet
  PROVE  Counting' /\ Owners' /\ Callbacks' /\ Clean'
<1>1. Counting'
  BY Zenon DEF Quiet, IInv, Counting
<1>2. Owners'
  <2>1. Made' = Made /\ \A c \in Commands : Holds(c)' <=> Holds(c)
    BY DEF Quiet, Made, Holds
  <2> QED  BY <2>1, Zenon DEF Quiet, IInv, Owners
<1>3. Callbacks'
  BY DEF Quiet, IInv, Callbacks, Made
<1>4. ASSUME NEW s \in Sessions  PROVE Orderly(s)'
  <2>1. /\ Live(s)' => Live(s)
        /\ Free(s)' <=> Free(s)
        /\ Carried(s)' <=> Carried(s)
        /\ Orderly(s)
    BY DEF Quiet, Live, Free, Carried, IInv, Clean
  <2> QED  BY <2>1 DEF Quiet, Orderly
<1> QED  BY <1>1, <1>2, <1>3, <1>4 DEF Clean

-----------------------------------------------------------------------------
(* The steps, one part of the invariant at a time.                          *)

\* The callback of connect() answers its command at most once.
LEMMA ConnectAgainCounting ==
  ASSUME TypeOK, Counting, NEW c \in Commands, NEW s \in Sessions,
         ConnectAgain(c, s), pc[c] = "done", UNCHANGED pc
  PROVE  Counting'
<1>1. CASE UNCHANGED <<handler, answers, deadline>>
  BY <1>1 DEF Counting
<1>2. CASE Handle(c)
  BY <1>2 DEF Handle, Cancelled, Counting, TypeOK
<1> QED  BY <1>1, <1>2 DEF ConnectAgain

\* A command is answered once.
LEMMA CountingStep ==
  ASSUME TypeOK, Counting, Owners, Callbacks, Clean, Next \/ UNCHANGED vars
  PROVE  Counting'
<1>1. ASSUME NEW c \in Commands, CheckOut(c) PROVE Counting'
  BY <1>1, HttpAssumption DEF CheckOut, Goto, TakeIdle, CreateSession, Fitting,
     NodesFor, Fresh, Counting, TypeOK, SessionTypeOK
<1>2. ASSUME NEW c \in Commands, CheckOutFails(c) PROVE Counting'
  BY <1>2, HttpAssumption DEF CheckOutFails, Goto, sessionVars, Counting, TypeOK,
     SessionTypeOK
<1>0. ASSUME NEW c \in Commands, Start(c) PROVE Counting'
  BY <1>0, HttpAssumption DEF Start, Goto, sessionVars, poolVars, Counting, TypeOK,
     SessionTypeOK
<1>3. ASSUME NEW c \in Commands, SetCommandSession(c) PROVE Counting'
  BY <1>3, HttpAssumption DEF SetCommandSession, Goto, Connecting, poolVars, Counting,
     TypeOK, SessionTypeOK
<1>4. ASSUME NEW c \in Commands, SendTo(c) PROVE Counting'
  BY <1>4, HttpAssumption DEF SendTo, Goto, sessionVars, poolVars, Counting, TypeOK,
     SessionTypeOK
<1>5. ASSUME NEW c \in Commands, EncodeFails(c) PROVE Counting'
  BY <1>5, HttpAssumption DEF EncodeFails, Goto, Handle, Cancelled, CheckIn, PutIdle,
     Counting, TypeOK, SessionTypeOK
<1>6. ASSUME NEW c \in Commands, CheckInIdle(c) PROVE Counting'
  BY <1>6, HttpAssumption DEF CheckInIdle, Goto, PutIdle, Counting, TypeOK,
     SessionTypeOK
<1>7. ASSUME NEW c \in Commands, WriteAndSubscribe(c) PROVE Counting'
  BY <1>7, HttpAssumption DEF WriteAndSubscribe, Goto, Subscribe, poolVars, Counting,
     TypeOK, SessionTypeOK
<1>8. ASSUME NEW c \in Commands, Cancel(c) PROVE Counting'
  BY <1>8, HttpAssumption DEF Cancel, CheckIn, PutIdle, IoFree, Counting, TypeOK,
     SessionTypeOK
<1>9. ASSUME NEW s \in Sessions, ConnectFails(s) PROVE Counting'
  <2>1. /\ onConnect[s] \in Commands /\ ConnectAgain(onConnect[s], s)
        /\ UNCHANGED pc
    BY <1>9 DEF ConnectFails, TypeOK, SessionTypeOK
  <2>2. pc[onConnect[s]] = "done"
    BY <2>1, Zenon DEF Callbacks
  <2> QED  BY <2>1, <2>2, ConnectAgainCounting
<1>10. ASSUME NEW s \in Sessions, OnConnect(s) PROVE Counting'
  BY <1>10, HttpAssumption DEF OnConnect, Subscribe, commandVars, IoFree, Counting,
     TypeOK, SessionTypeOK
<1>11. ASSUME NEW s \in Sessions, OnConnectEncodeFails(s) PROVE Counting'
  <2> DEFINE c == onConnect[s]
  <2>1. c \in Commands /\ Handle(c) /\ UNCHANGED pc
    BY <1>11 DEF OnConnectEncodeFails, TypeOK
  <2>2. pc[c] = "done"
    BY <2>1, Zenon DEF Callbacks
  <2> QED  BY <2>1, <2>2 DEF Handle, Cancelled, Counting, TypeOK
<1>12. ASSUME NEW s \in Sessions, Write(s) PROVE Counting'
  BY <1>12, HttpAssumption DEF Write, DoWrite, poolVars, commandVars, IoFree, Counting,
     TypeOK, SessionTypeOK
<1>13. ASSUME NEW s \in Sessions, Answered(s) PROVE Counting'
  <2> DEFINE c == current[s]
  <2>1. c \in Commands /\ Handle(c) /\ UNCHANGED pc
    BY <1>13 DEF Answered, TypeOK, SessionTypeOK
  <2>2. pc[c] = "done"
    BY <2>1, Zenon DEF Callbacks
  <2> QED  BY <2>1, <2>2 DEF Handle, Cancelled, Counting, TypeOK
<1>14. ASSUME NEW s \in Sessions, AnsweredWithRetry(s) PROVE Counting'
  <2> DEFINE c == current[s]
  <2>1. /\ c \in Commands /\ handler' = handler \ {c}
        /\ deadline' = [deadline EXCEPT ![c] = Cancelled(@)]
        /\ UNCHANGED <<pc, answers>>
    BY <1>14 DEF AnsweredWithRetry, TypeOK
  <2>2. pc[c] = "done"
    BY <2>1, Zenon DEF Callbacks
  <2> QED  BY <2>1, <2>2 DEF Cancelled, Counting, TypeOK
<1>15. ASSUME NEW s \in Sessions, Stop(s) PROVE Counting'
  <2>1. UNCHANGED pc
    BY <1>15, Zenon DEF Stop
  <2>2. CASE onConnect[s] # none /\ ConnectAgain(onConnect[s], s)
    <3>1. onConnect[s] \in Commands
      BY <2>2 DEF TypeOK, SessionTypeOK
    <3>2. pc[onConnect[s]] = "done"
      BY <3>1, Zenon DEF Callbacks
    <3> QED  BY <2>1, <2>2, <3>1, <3>2, ConnectAgainCounting
  <2>3. CASE current[s] # none /\ Handle(current[s])
    <3>1. current[s] \in Commands
      BY <2>3 DEF TypeOK, SessionTypeOK
    <3>2. pc[current[s]] = "done"
      BY <3>1, Zenon DEF Callbacks
    <3> QED  BY <2>1, <2>3, <3>1, <3>2 DEF Handle, Cancelled, Counting, TypeOK
  <2>4. CASE UNCHANGED <<handler, answers, deadline>>
    BY <2>1, <2>4 DEF Counting
  <2> QED  BY <1>15, <2>2, <2>3, <2>4, Zenon DEF Stop
<1>16. CASE Quiet
  BY <1>16, QuietInv DEF IInv
<1> QED  BY <1>0, <1>1, <1>2, <1>3, <1>4, <1>5, <1>6, <1>7, <1>8, <1>9, <1>10, <1>11, <1>12,
   <1>13, <1>14, <1>15, <1>16, QuietSteps DEF Next, Execute, IoStep

\* Made sessions stay made.
LEMMA MadeGrows ==
  ASSUME TypeOK, NEW c, NEW t \in Sessions, NEW n \in NodesFor(c),
         nodeOf' = [nodeOf EXCEPT ![t] = n]
  PROVE  Made' = Made \cup {t}
<1>1. n # none
  BY NodesForType, HttpAssumption
<1> QED  BY <1>1 DEF Made, TypeOK, SessionTypeOK

\* The callback of connect() moves with its command to the new session.
LEMMA ConnectAgainCallbacks ==
  ASSUME TypeOK, Callbacks, NEW s \in Sessions,
         onConnect[s] # none, ConnectAgain(onConnect[s], s), UNCHANGED pc,
         \A x \in Sessions : current'[x] \in {current[x], none}
  PROVE  Callbacks'
<1> DEFINE c == onConnect[s]
<1>1. c \in Commands /\ none \notin Commands
  BY HttpAssumption DEF TypeOK, SessionTypeOK
<1>2. pc[c] = "done" /\ \A x \in Sessions : current[x] # c
  BY <1>1 DEF Callbacks
<1> HIDE DEF c
<1>3. CASE /\ onConnect' = [onConnect EXCEPT ![s] = none]
           /\ UNCHANGED <<nodeOf, session>> /\ handler' \subseteq handler
  BY <1>1, <1>3 DEF Callbacks, Made, TypeOK, SessionTypeOK
<1>4. ASSUME NEW t \in Fresh, NEW n \in NodesFor(c),
             nodeOf' = [nodeOf EXCEPT ![t] = n],
             session' = [session EXCEPT ![c] = t],
             onConnect' = Connecting([onConnect EXCEPT ![s] = none], t, c),
             UNCHANGED handler
      PROVE  Callbacks'
  <2>1. Made' = Made \cup {t} /\ t \in Sessions
    BY <1>4, MadeGrows, Zenon DEF Fresh
  <2>2. \A d \in Commands : session'[d] = IF d = c THEN t ELSE session[d]
    BY <1>1, <1>4 DEF TypeOK
  <2>3. \A x \in Sessions :
          onConnect'[x] = IF x = t THEN c ELSE IF x = s THEN none ELSE onConnect[x]
    BY <1>4, <2>1 DEF Connecting, TypeOK, SessionTypeOK
  <2>4. \A x \in Sessions : x # s /\ onConnect[x] = c => c \notin handler
    BY <1>1 DEF Callbacks, c
  <2>5. \A x \in Sessions, d \in Commands : current'[x] = d => current[x] = d /\ d # c
    BY <1>1, <1>2
  <2>6. \A d \in Commands : d # c => session'[d] = session[d]
    BY <2>2
  <2>7. \A x \in Sessions, d \in Commands :
          current'[x] = d => pc'[d] = "done" /\ (d \in handler' => session'[d] = x)
    BY <1>4, <2>5, <2>6 DEF Callbacks
  <2>8. ASSUME NEW x \in Sessions, NEW d \in Commands, onConnect'[x] = d
        PROVE  /\ pc'[d] = "done" /\ x \in Made'
               /\ d \in handler' => session'[d] = x
               /\ \A y \in Sessions : current'[y] # d
    <3>1. CASE x = t
      BY <1>1, <1>2, <2>1, <2>2, <2>3, <2>5, <2>8, <3>1
    <3>2. CASE x # t
      <4>1. x # s /\ onConnect[x] = d
        BY <1>1, <2>3, <2>8, <3>2
      <4>2. /\ pc[d] = "done" /\ x \in Made
            /\ d \in handler => session[d] = x
            /\ \A y \in Sessions : current[y] # d
        BY <4>1 DEF Callbacks
      <4> QED  BY <1>4, <2>1, <2>4, <2>5, <2>6, <4>1, <4>2
    <3> QED  BY <3>1, <3>2
  <2> QED  BY <2>7, <2>8, Zenon DEF Callbacks
<1> QED  BY <1>3, <1>4, Zenon DEF ConnectAgain, Handle, c

\* The callbacks of a session stay with its holder.
LEMMA CallbacksStep ==
  ASSUME TypeOK, Counting, Owners, Callbacks, Clean, Next \/ UNCHANGED vars
  PROVE  Callbacks'
<1>1. ASSUME NEW c \in Commands, CheckOut(c) PROVE Callbacks'
  <2>1. PICK t \in Sessions :
          /\ TakeIdle(c, t) \/ (t \in Fresh /\ CreateSession(c, t))
          /\ session' = [session EXCEPT ![c] = t]
    BY <1>1, Zenon DEF CheckOut
  <2>2. /\ pc[c] = "new" /\ pc' = [pc EXCEPT ![c] = "checked_out"]
        /\ UNCHANGED <<current, onConnect, handler>>
    BY <1>1 DEF CheckOut, Goto
  <2>3. Made \subseteq Made'
    <3>1. CASE TakeIdle(c, t)
      BY <3>1 DEF TakeIdle, Made
    <3>2. CASE CreateSession(c, t)
      BY <3>2, MadeGrows, Zenon DEF CreateSession
    <3> QED  BY <2>1, <3>1, <3>2
  <2> QED  BY <2>1, <2>2, <2>3 DEF Callbacks, TypeOK
<1>2. ASSUME NEW c \in Commands, CheckOutFails(c) PROVE Callbacks'
  BY <1>2 DEF CheckOutFails, Goto, sessionVars, Callbacks, TypeOK, Made
<1>0. ASSUME NEW c \in Commands, Start(c) PROVE Callbacks'
  BY <1>0, HttpAssumption DEF Start, Goto, sessionVars, poolVars, Callbacks, Counting,
     Owners, Holds, TypeOK, SessionTypeOK, Made
<1>3. ASSUME NEW c \in Commands, SetCommandSession(c) PROVE Callbacks'
  BY <1>3, HttpAssumption DEF SetCommandSession, Goto, Connecting, poolVars, Callbacks,
     Counting, Owners, Holds, TypeOK, SessionTypeOK, Made
<1>4. ASSUME NEW c \in Commands, SendTo(c) PROVE Callbacks'
  BY <1>4, HttpAssumption DEF SendTo, Goto, sessionVars, poolVars, Callbacks, Counting,
     Owners, Holds, TypeOK, SessionTypeOK, Made
<1>5. ASSUME NEW c \in Commands, EncodeFails(c) PROVE Callbacks'
  BY <1>5, HttpAssumption DEF EncodeFails, Goto, Handle, Cancelled, CheckIn, PutIdle,
     Callbacks, Counting, Owners, Holds, TypeOK, SessionTypeOK, Made
<1>6. ASSUME NEW c \in Commands, CheckInIdle(c) PROVE Callbacks'
  BY <1>6, HttpAssumption DEF CheckInIdle, Goto, PutIdle, Callbacks, Counting, Owners,
     Holds, TypeOK, SessionTypeOK, Made
<1>7. ASSUME NEW c \in Commands, WriteAndSubscribe(c) PROVE Callbacks'
  BY <1>7, HttpAssumption DEF WriteAndSubscribe, Goto, Subscribe, poolVars, Callbacks,
     Counting, Owners, Holds, TypeOK, SessionTypeOK, Made
<1>8. ASSUME NEW c \in Commands, Cancel(c) PROVE Callbacks'
  BY <1>8, HttpAssumption DEF Cancel, CheckIn, PutIdle, IoFree, Callbacks, Counting,
     Owners, Holds, TypeOK, SessionTypeOK, Made
<1>9. ASSUME NEW s \in Sessions, ConnectFails(s) PROVE Callbacks'
  BY <1>9, ConnectAgainCallbacks, Zenon DEF ConnectFails
<1>10. ASSUME NEW s \in Sessions, OnConnect(s) PROVE Callbacks'
  BY <1>10, HttpAssumption DEF OnConnect, Subscribe, commandVars, IoFree, Callbacks,
     Counting, Owners, Holds, TypeOK, SessionTypeOK, Made
<1>11. ASSUME NEW s \in Sessions, OnConnectEncodeFails(s) PROVE Callbacks'
  BY <1>11, HttpAssumption DEF OnConnectEncodeFails, Handle, Cancelled, IoFree,
     Callbacks, Counting, Owners, Holds, TypeOK, SessionTypeOK, Made
<1>12. ASSUME NEW s \in Sessions, Write(s) PROVE Callbacks'
  BY <1>12, HttpAssumption DEF Write, DoWrite, poolVars, commandVars, IoFree, Callbacks,
     Counting, Owners, Holds, TypeOK, SessionTypeOK, Made
<1>13. ASSUME NEW s \in Sessions, Answered(s) PROVE Callbacks'
  BY <1>13, HttpAssumption DEF Answered, Handle, Cancelled, PutIdle, IoFree, Callbacks,
     Counting, Owners, Holds, TypeOK, SessionTypeOK, Made
<1>14. ASSUME NEW s \in Sessions, AnsweredWithRetry(s) PROVE Callbacks'
  BY <1>14, HttpAssumption DEF AnsweredWithRetry, Cancelled, poolVars, IoFree,
     Callbacks, Counting, Owners, Holds, TypeOK, SessionTypeOK, Made
<1>15. ASSUME NEW s \in Sessions, Stop(s) PROVE Callbacks'
  <2>1. /\ UNCHANGED pc
        /\ current' = [current EXCEPT ![s] = none] \/ UNCHANGED current
    BY <1>15 DEF Stop
  <2>2. \A x \in Sessions : current'[x] \in {current[x], none}
    BY <2>1 DEF TypeOK, SessionTypeOK
  <2>3. CASE onConnect[s] # none /\ ConnectAgain(onConnect[s], s)
    BY <2>1, <2>2, <2>3, ConnectAgainCallbacks
  <2>4. CASE UNCHANGED <<onConnect, nodeOf, session>> /\ handler' \subseteq handler
    BY <2>1, <2>2, <2>4, HttpAssumption DEF Callbacks, Made
  <2> QED  BY <1>15, <2>3, <2>4, Zenon DEF Stop, Handle
<1>16. CASE Quiet
  BY <1>16, QuietInv DEF IInv
<1> QED  BY <1>0, <1>1, <1>2, <1>3, <1>4, <1>5, <1>6, <1>7, <1>8, <1>9, <1>10, <1>11, <1>12,
   <1>13, <1>14, <1>15, <1>16, QuietSteps DEF Next, Execute, IoStep

\* A command whose session cannot be connected leaves it for a new one.
LEMMA ConnectAgainOwners ==
  ASSUME TypeOK, Counting, Owners, Callbacks, NEW s \in Sessions,
         onConnect[s] # none, ConnectAgain(onConnect[s], s),
         UNCHANGED <<pc, connected>>, idle' \subseteq idle
  PROVE  Owners'
<1> DEFINE c == onConnect[s]
<1>1. c \in Commands /\ pc[c] = "done" /\ c \notin {none}
  BY HttpAssumption DEF TypeOK, SessionTypeOK, Callbacks
<1>2. CASE UNCHANGED <<nodeOf, session, handler, deadline>>
  BY <1>2 DEF Owners, Holds, Made
<1>3. CASE Handle(c) /\ UNCHANGED <<nodeOf, session>>
  BY <1>1, <1>3 DEF Owners, Holds, Made, Handle, Cancelled, TypeOK
<1>4. ASSUME NEW t \in Fresh, NEW n \in NodesFor(c),
             nodeOf' = [nodeOf EXCEPT ![t] = n],
             session' = [session EXCEPT ![c] = t],
             UNCHANGED <<handler, deadline>>
      PROVE  Owners'
  <2>1. n # none
    BY NodesForType, HttpAssumption
  <2>2. Made' = Made \cup {t} /\ t \in Sessions \ Made
    BY <1>4, <2>1 DEF Made, Fresh, TypeOK, SessionTypeOK
  <2>3. \A d \in Commands : session'[d] = IF d = c THEN t ELSE session[d]
    BY <1>1, <1>4 DEF TypeOK
  <2>4. \A d \in Commands : Holds(d)' = Holds(d)
    BY <1>4 DEF Holds
  <2> HIDE DEF c
  <2>5. \A d, e \in Commands :
          Holds(d)' /\ Holds(e)' /\ session'[d] = session'[e] => d = e
    BY <2>2, <2>3, <2>4 DEF Owners
  <2>6. \A d \in Commands : Holds(d)' => session'[d] \in Made' \ idle'
    BY <2>2, <2>3, <2>4 DEF Owners
  <2>7. \A d \in Commands : pc'[d] \in {"send_to", "subscribe", "check_in"} =>
                              session'[d] \in connected'
    BY <1>1, <2>3 DEF Owners
  <2>8. \A d \in Commands : deadline'[d] # "off" => session'[d] \in Made'
    BY <1>4, <2>2, <2>3 DEF Owners
  <2>9. idle' \subseteq connected' /\ connected' \subseteq Made'
    BY <2>2 DEF Owners
  <2> QED  BY <2>5, <2>6, <2>7, <2>8, <2>9, Zenon DEF Owners
<1> QED  BY <1>2, <1>3, <1>4 DEF ConnectAgain

\* A session keeps at most one holder.
LEMMA OwnersStep ==
  ASSUME TypeOK, Counting, Owners, Callbacks, Clean, Next \/ UNCHANGED vars
  PROVE  Owners'
<1>1. ASSUME NEW c \in Commands, CheckOut(c) PROVE Owners'
  <2>1. PICK t \in Sessions :
          /\ TakeIdle(c, t) \/ (t \in Fresh /\ CreateSession(c, t))
          /\ session' = [session EXCEPT ![c] = t]
    BY <1>1, Zenon DEF CheckOut
  <2>2. /\ pc[c] = "new" /\ c \notin handler /\ deadline[c] = "off"
        /\ pc' = [pc EXCEPT ![c] = "checked_out"]
        /\ UNCHANGED <<connected, handler, deadline>>
    BY <1>1 DEF CheckOut, Goto, Counting
  <2>3. CASE TakeIdle(c, t)
    <3>1. Made' = Made /\ t \in idle /\ idle' \subseteq idle \ {t}
      BY <2>3 DEF TakeIdle, Fitting, Made
    <3> QED  BY <2>1, <2>2, <3>1 DEF Owners, Holds, TypeOK
  <2>4. CASE t \in Fresh /\ CreateSession(c, t)
    <3>1. PICK n \in NodesFor(c) : nodeOf' = [nodeOf EXCEPT ![t] = n]
      BY <2>4, Zenon DEF CreateSession
    <3>2. Made' = Made \cup {t} /\ t \notin Made /\ idle' \subseteq idle
      BY <2>4, <3>1, MadeGrows, Zenon DEF CreateSession, Fresh
    <3> QED  BY <2>1, <2>2, <3>2 DEF Owners, Holds, TypeOK
  <2> QED  BY <2>1, <2>3, <2>4
<1>2. ASSUME NEW c \in Commands, CheckOutFails(c) PROVE Owners'
  BY <1>2, HttpAssumption, Zenon DEF CheckOutFails, Goto, sessionVars, Owners, Holds,
     Counting,
     TypeOK, SessionTypeOK, Made
<1>0. ASSUME NEW c \in Commands, Start(c) PROVE Owners'
  BY <1>0, HttpAssumption DEF Start, Goto, sessionVars, poolVars, Owners, Holds,
     Counting, TypeOK, SessionTypeOK, Made
<1>3. ASSUME NEW c \in Commands, SetCommandSession(c) PROVE Owners'
  BY <1>3, HttpAssumption DEF SetCommandSession, Goto, Connecting, poolVars, Owners, Holds,
     Counting, TypeOK, SessionTypeOK, Made
<1>4. ASSUME NEW c \in Commands, SendTo(c) PROVE Owners'
  BY <1>4, HttpAssumption DEF SendTo, Goto, sessionVars, poolVars, Owners, Holds,
     Counting, TypeOK, SessionTypeOK, Made
<1>5. ASSUME NEW c \in Commands, EncodeFails(c) PROVE Owners'
  BY <1>5, HttpAssumption DEF EncodeFails, Goto, Handle, Cancelled, CheckIn, PutIdle,
     Owners, Holds, Counting, TypeOK, SessionTypeOK, Made
<1>6. ASSUME NEW c \in Commands, CheckInIdle(c) PROVE Owners'
  BY <1>6, HttpAssumption DEF CheckInIdle, Goto, PutIdle, Owners, Holds, Counting,
     TypeOK, SessionTypeOK, Made
<1>7. ASSUME NEW c \in Commands, WriteAndSubscribe(c) PROVE Owners'
  BY <1>7, HttpAssumption DEF WriteAndSubscribe, Goto, Subscribe, poolVars, Owners,
     Holds, Counting, TypeOK, SessionTypeOK, Made
<1>8. ASSUME NEW c \in Commands, Cancel(c) PROVE Owners'
  BY <1>8, HttpAssumption DEF Cancel, CheckIn, PutIdle, IoFree, Owners, Holds, Counting,
     TypeOK, SessionTypeOK, Made
<1>9. ASSUME NEW s \in Sessions, ConnectFails(s) PROVE Owners'
  BY <1>9, ConnectAgainOwners, Zenon DEF ConnectFails
<1>10. ASSUME NEW s \in Sessions, OnConnect(s) PROVE Owners'
  BY <1>10, HttpAssumption DEF OnConnect, commandVars, Callbacks, Owners, Holds, Counting,
     TypeOK, SessionTypeOK, Made
<1>11. ASSUME NEW s \in Sessions, OnConnectEncodeFails(s) PROVE Owners'
  BY <1>11, HttpAssumption DEF OnConnectEncodeFails, Handle, Cancelled, Callbacks, Owners,
     Holds, Counting, TypeOK, SessionTypeOK, Made
<1>12. ASSUME NEW s \in Sessions, Write(s) PROVE Owners'
  BY <1>12, HttpAssumption DEF Write, DoWrite, poolVars, commandVars, IoFree, Owners,
     Holds, Counting, TypeOK, SessionTypeOK, Made
<1>13. ASSUME NEW s \in Sessions, Answered(s) PROVE Owners'
  <2>1. /\ current[s] \in Commands /\ pc[current[s]] = "done" /\ s \in connected
        /\ current[s] \in handler => session[current[s]] = s
    BY <1>13 DEF Answered, Callbacks, Clean, Orderly, Free, TypeOK, SessionTypeOK
  <2>2. /\ handler' = handler \ {current[s]}
        /\ \A c \in Commands : deadline'[c] # "off" => deadline[c] # "off"
        /\ UNCHANGED <<pc, session, nodeOf, connected>>
        /\ idle' = idle \/ (current[s] \in handler /\ idle' = idle \cup {s})
    BY <1>13 DEF Answered, Handle, Cancelled, PutIdle, TypeOK
  <2> QED  BY <2>1, <2>2 DEF Owners, Holds, Counting, TypeOK, SessionTypeOK, Made
<1>14. ASSUME NEW s \in Sessions, AnsweredWithRetry(s) PROVE Owners'
  BY <1>14, HttpAssumption DEF AnsweredWithRetry, Cancelled, poolVars, IoFree, Owners,
     Holds, Counting, TypeOK, SessionTypeOK, Made
<1>15. ASSUME NEW s \in Sessions, Stop(s) PROVE Owners'
  <2>1. UNCHANGED <<pc, connected>> /\ idle' \subseteq idle
    BY <1>15 DEF Stop
  <2>2. CASE onConnect[s] # none /\ ConnectAgain(onConnect[s], s)
    BY <2>1, <2>2, ConnectAgainOwners
  <2>3. CASE current[s] # none /\ Handle(current[s]) /\ UNCHANGED <<nodeOf, session>>
    BY <2>1, <2>3 DEF Handle, Cancelled, Owners, Holds, Made, TypeOK, SessionTypeOK
  <2>4. CASE UNCHANGED <<nodeOf, session, handler, deadline>>
    BY <2>1, <2>4, Zenon DEF Owners, Holds, Made
  <2> QED  BY <1>15, <2>2, <2>3, <2>4, Zenon DEF Stop
<1>16. CASE Quiet
  BY <1>16, QuietInv DEF IInv
<1> QED  BY <1>0, <1>1, <1>2, <1>3, <1>4, <1>5, <1>6, <1>7, <1>8, <1>9, <1>10, <1>11, <1>12,
   <1>13, <1>14, <1>15, <1>16, QuietSteps DEF Next, Execute, IoStep

\* What a step must show that leaves the connections alone.
LEMMA CleanFrame ==
  ASSUME Clean,
         UNCHANGED <<connected, output, wire, again>>,
         \A s \in Sessions : /\ current'[s] \in {current[s], none}
                             /\ Live(s)' => Live(s) /\ current'[s] = current[s],
         \A s \in Sessions : Live(s)' /\ current[s] \in handler => current[s] \in handler',
         \A s \in Sessions : Live(s)' /\ s \in idle' => Free(s),
         \A s \in Sessions, c \in Commands :
           Live(s)' /\ session'[c] = s /\ pc'[c] \in Using =>
             Free(s) /\ (pc'[c] \in {"send_to", "subscribe"} => c \in handler')
  PROVE  Clean'
<1> SUFFICES ASSUME NEW s \in Sessions PROVE Orderly(s)'
  BY Zenon DEF Clean
<1>1. Orderly(s)
  BY Zenon DEF Clean
<1>2. Free(s) => Free(s)'
  BY DEF Free
<1>3. Live(s)' => Carried(s)'
  <2> SUFFICES ASSUME Live(s)' PROVE Carried(s)'
    OBVIOUS
  <2>1. /\ Carried(s) /\ current'[s] = current[s]
        /\ current[s] \in handler => current[s] \in handler'
    BY <1>1, Zenon DEF Orderly
  <2> QED  BY <2>1 DEF Carried
<1> QED  BY <1>1, <1>2, <1>3, Zenon DEF Orderly

\* The callback of connect() leaves what the sessions carry alone.
LEMMA ConnectAgainClean ==
  ASSUME TypeOK, Callbacks, Clean, NEW s \in Sessions,
         onConnect[s] # none, ConnectAgain(onConnect[s], s),
         UNCHANGED <<connected, output, wire, pc, again>>, idle' \subseteq idle,
         \A x \in Sessions : /\ current'[x] \in {current[x], none}
                             /\ Live(x)' => Live(x) /\ current'[x] = current[x]
  PROVE  Clean'
<1> DEFINE c == onConnect[s]
<1>0. c \in Commands
  BY DEF TypeOK, SessionTypeOK
<1>1. c \in Commands /\ pc[c] = "done" /\ \A x \in Sessions : current[x] # c
  BY <1>0 DEF Callbacks
<1>2. /\ handler' = handler \/ handler' = handler \ {c}
      /\ \A d \in Commands : d # c => session'[d] = session[d]
  BY <1>1 DEF ConnectAgain, Handle, TypeOK
<1> HIDE DEF c
<1>3. \A x \in Sessions : Live(x)' /\ current[x] \in handler => current[x] \in handler'
  BY <1>1, <1>2
<1>4. \A x \in Sessions : Live(x)' /\ x \in idle' => Free(x)
  BY DEF Clean, Orderly
<1>5. \A x \in Sessions, d \in Commands :
        Live(x)' /\ session'[d] = x /\ pc'[d] \in Using =>
          Free(x) /\ (pc'[d] \in {"send_to", "subscribe"} => d \in handler')
  <2>1. "done" \notin Using
    BY DEF Using
  <2> QED  BY <1>1, <1>2, <2>1 DEF Clean, Orderly
<1> QED  BY <1>3, <1>4, <1>5, CleanFrame

\* A session carries the request of its holder only.
LEMMA CleanStep ==
  ASSUME TypeOK, Counting, Owners, Callbacks, Clean, Next \/ UNCHANGED vars
  PROVE  Clean'
<1>1. ASSUME NEW c \in Commands, CheckOut(c) PROVE Clean'
  <2>1. PICK t \in Sessions :
          /\ TakeIdle(c, t) \/ (t \in Fresh /\ CreateSession(c, t))
          /\ session' = [session EXCEPT ![c] = t]
    BY <1>1, Zenon DEF CheckOut
  <2>2. /\ pc' = [pc EXCEPT ![c] = "checked_out"]
        /\ UNCHANGED <<connected, stopped, current, output, wire, toStop, handler, again>>
    BY <1>1 DEF CheckOut, Goto
  <2>3. idle' \subseteq idle /\ (Live(t) => Free(t))
    <3>1. CASE TakeIdle(c, t)
      BY <3>1 DEF TakeIdle, Fitting, Clean, Orderly
    <3>2. CASE t \in Fresh /\ CreateSession(c, t)
      BY <3>2 DEF CreateSession, Fresh, Owners, Clean, Orderly
    <3> QED  BY <2>1, <3>1, <3>2
  <2>4. \A s \in Sessions : Live(s)' => Live(s) /\ (s \in idle' => Free(s))
    BY <2>2, <2>3 DEF Live, Clean, Orderly
  <2>5. \A s \in Sessions, d \in Commands :
          Live(s)' /\ session'[d] = s /\ pc'[d] \in Using =>
            Free(s) /\ (pc'[d] \in {"send_to", "subscribe"} => d \in handler')
    BY <2>1, <2>2, <2>3, <2>4 DEF Clean, Orderly, Using, TypeOK
  <2> QED  BY <2>2, <2>4, <2>5, CleanFrame
<1>2. ASSUME NEW c \in Commands, CheckOutFails(c) PROVE Clean'
  BY Zenon, <1>2, CleanFrame
     DEF CheckOutFails, Goto, sessionVars, Live, Clean, Orderly, Using, TypeOK
<1>0. ASSUME NEW c \in Commands, Start(c) PROVE Clean'
  BY <1>0, CleanFrame, Zenon
     DEF Start, Goto, sessionVars, poolVars, Live, Clean, Orderly, Using, TypeOK
<1>3. ASSUME NEW c \in Commands, SetCommandSession(c) PROVE Clean'
  BY <1>3, CleanFrame, Zenon
     DEF SetCommandSession, Goto, poolVars, Live, Clean, Orderly, Using, Counting, TypeOK
<1>4. ASSUME NEW c \in Commands, SendTo(c) PROVE Clean'
  BY Zenon, <1>4, CleanFrame
     DEF SendTo, Goto, sessionVars, poolVars, Live, Clean, Orderly, Using, TypeOK
<1>5. ASSUME NEW c \in Commands, EncodeFails(c) PROVE Clean'
  <2>1. /\ pc[c] = "send_to" /\ handler' = handler \ {c}
        /\ pc' = [pc EXCEPT ![c] = "check_in"] \/ pc' = [pc EXCEPT ![c] = "done"]
        /\ UNCHANGED <<connected, stopped, current, output, wire, toStop, session, again>>
    BY <1>5 DEF EncodeFails, Goto, Handle
  <2>2. idle' \subseteq idle \cup {session[c]}
    BY <1>5 DEF EncodeFails, CheckIn, PutIdle
  <2>3. \A s \in Sessions : current[s] # c
    BY <2>1, Zenon DEF Callbacks
  <2>4. \A s \in Sessions : Live(s)' => Live(s) /\ (s \in idle' => Free(s))
    BY <2>1, <2>2 DEF Live, Clean, Orderly, Using
  <2>5. \A s \in Sessions, d \in Commands :
          Live(s)' /\ session'[d] = s /\ pc'[d] \in Using =>
            Free(s) /\ (pc'[d] \in {"send_to", "subscribe"} => d \in handler')
    BY <2>1, <2>4 DEF Clean, Orderly, Using, TypeOK
  <2> QED  BY Zenon, <2>1, <2>3, <2>4, <2>5, CleanFrame
<1>6. ASSUME NEW c \in Commands, CheckInIdle(c) PROVE Clean'
  <2>1. /\ pc[c] = "check_in" /\ pc' = [pc EXCEPT ![c] = "done"]
        /\ idle' = idle \cup {session[c]}
        /\ UNCHANGED <<connected, stopped, current, output, wire, toStop>>
        /\ UNCHANGED <<handler, session, again>>
    BY <1>6, Zenon DEF CheckInIdle, Goto, PutIdle
  <2>2. \A s \in Sessions : Live(s)' => Live(s) /\ (s \in idle' => Free(s))
    BY <2>1 DEF Live, Clean, Orderly, Using
  <2> QED  BY <2>1, <2>2, CleanFrame, Zenon DEF Clean, Orderly, Using, TypeOK
<1>7. ASSUME NEW c \in Commands, WriteAndSubscribe(c) PROVE Clean'
  <2> PICK s \in Sessions : s = session[c]
    BY <1>7, HasSession DEF WriteAndSubscribe, IInv
  <2>1. s \in Sessions /\ s \in connected
    BY <1>7 DEF WriteAndSubscribe, Owners
  <2>2. /\ current' = [current EXCEPT ![s] = c]
        /\ output' = IF s \in stopped THEN output ELSE [output EXCEPT ![s] = Append(@, c)]
        /\ pc[c] = "subscribe" /\ pc' = [pc EXCEPT ![c] = "done"]
        /\ UNCHANGED <<connected, stopped, wire, idle, toStop, handler, session, again>>
    BY <1>7 DEF WriteAndSubscribe, Subscribe, Goto, poolVars
  <2>3. ASSUME NEW x \in Sessions, x # s  PROVE Orderly(x)'
    BY <2>1, <2>2, <2>3 DEF Orderly, Free, Live, Carried, Using, Clean, TypeOK,
       SessionTypeOK
  <2>4. ASSUME Live(s)  PROVE /\ Free(s) /\ c \in handler /\ s \notin idle
                              /\ \A d \in Commands : session[d] = s /\ pc[d] \in Using => d = c
    <3>1. Free(s) /\ c \in handler
      BY <2>1, <2>2, <2>4 DEF Clean, Orderly, Using
    <3>2. s \notin idle
      BY <3>1 DEF Owners, Holds
    <3>3. ASSUME NEW d \in Commands, session[d] = s, pc[d] \in Using  PROVE d = c
      <4>1. Holds(d) /\ Holds(c)
        BY <2>1, <2>4, <3>1, <3>3 DEF Clean, Orderly, Using, Holds, Counting
      <4> QED  BY <3>3, <4>1 DEF Owners
    <3> QED  BY <3>1, <3>2, <3>3
  <2>5. ASSUME Live(s)'  PROVE Carried(s)'
    <3>1. Live(s) /\ Append(<<>>, c) = <<c>>
      BY <2>2, <2>5 DEF Live
    <3>2. wire'[s] = <<>> /\ output'[s] = <<c>> /\ current'[s] = c /\ c \in handler'
      BY <2>1, <2>2, <2>4, <3>1 DEF Free, Live, TypeOK, SessionTypeOK
    <3> QED  BY <3>2 DEF Carried
  <2>6. Orderly(s)'
    BY <2>1, <2>2, <2>4, <2>5 DEF Orderly, Live, Using, TypeOK
  <2> QED  BY <2>3, <2>6 DEF Clean
<1>8. ASSUME NEW c \in Commands, Cancel(c) PROVE Clean'
  <2>1. /\ toStop = {} /\ toStop' = {session[c]} /\ handler' = handler \ {c}
        /\ UNCHANGED <<connected, stopped, current, output, wire, pc, session, again>>
    BY <1>8 DEF Cancel, IoFree
  <2>2. idle' \subseteq idle \cup {session[c]}
    BY <1>8 DEF Cancel, CheckIn, PutIdle
  <2>3. \A s \in Sessions : Live(s)' => Live(s) /\ s # session[c]
    BY <2>1 DEF Live
  <2>4. \A s \in Sessions : Live(s)' /\ current[s] \in handler => current[s] \in handler'
    BY <2>1, <2>3, Zenon DEF Callbacks
  <2>5. \A s \in Sessions : Live(s)' /\ s \in idle' => Free(s)
    BY <2>2, <2>3 DEF Clean, Orderly
  <2>6. \A s \in Sessions, d \in Commands :
          Live(s)' /\ session'[d] = s /\ pc'[d] \in Using =>
            Free(s) /\ (pc'[d] \in {"send_to", "subscribe"} => d \in handler')
    BY <2>1, <2>3 DEF Clean, Orderly
  <2> QED  BY Zenon, <2>1, <2>3, <2>4, <2>5, <2>6, CleanFrame
<1>9. ASSUME NEW s \in Sessions, ConnectFails(s) PROVE Clean'
  <2>1. /\ toStop = {} /\ onConnect[s] # none /\ ConnectAgain(onConnect[s], s)
        /\ UNCHANGED <<connected, stopped, current, output, wire, idle, pc, again>>
    BY <1>9 DEF ConnectFails, IoFree
  <2>2. \A x \in Sessions : Live(x)' => Live(x)
    BY <2>1 DEF Live
  <2> QED  BY <2>1, <2>2, ConnectAgainClean
<1>10. ASSUME NEW s \in Sessions, OnConnect(s) PROVE Clean'
  <2> DEFINE c == onConnect[s]
  <2>1. /\ s \notin connected \cup stopped /\ c \in Commands
        /\ connected' = connected \cup {s}
        /\ UNCHANGED <<stopped, wire, idle, toStop, pc, handler, session, again>>
    BY <1>10 DEF OnConnect, commandVars, TypeOK, SessionTypeOK
  <2>2. \/ /\ c \in handler
           /\ current' = [current EXCEPT ![s] = c]
           /\ output' = [output EXCEPT ![s] = Append(@, c)]
        \/ UNCHANGED <<current, output>>
    BY <1>10, <2>1 DEF OnConnect, Subscribe
  <2>3. c \in handler => session[c] = s /\ pc[c] = "done"
    BY <2>1, Zenon DEF Callbacks
  <2> HIDE DEF c
  <2>4. ASSUME NEW x \in Sessions, x # s  PROVE Orderly(x)'
    <3>1. /\ wire'[x] = wire[x] /\ current'[x] = current[x] /\ output'[x] = output[x]
          /\ (x \in connected' <=> x \in connected)
      BY <2>1, <2>2, <2>4 DEF TypeOK, SessionTypeOK
    <3>2. /\ Free(x)' <=> Free(x)
          /\ Live(x)' <=> Live(x)
          /\ Carried(x)' <=> Carried(x)
          /\ Orderly(x)
      BY <2>1, <3>1 DEF Free, Live, Carried, Clean
    <3> QED  BY <2>1, <3>1, <3>2 DEF Orderly
  <2>5. Free(s) /\ s \notin idle
    BY <2>1, ZenonT(30) DEF Clean, Orderly, Owners
  <2>6. CASE UNCHANGED <<current, output>>
    <3>1. /\ Free(s)' /\ Carried(s)'
          /\ Live(s)' <=> Live(s)
          /\ Orderly(s)
      BY <2>1, <2>5, <2>6 DEF Free, Live, Carried, Clean
    <3> QED  BY <2>1, <2>4, <3>1 DEF Orderly, Clean
  <2>7. CASE /\ c \in handler
             /\ current' = [current EXCEPT ![s] = c]
             /\ output' = [output EXCEPT ![s] = Append(@, c)]
    <3>1. Append(<<>>, c) = <<c>>
      OBVIOUS
    <3>2. wire'[s] = <<>> /\ output'[s] = <<c>> /\ current'[s] = c /\ c \in handler'
      BY <2>1, <2>5, <2>7, <3>1 DEF Free, TypeOK, SessionTypeOK
    <3>3. Carried(s)'
      BY <3>2 DEF Carried
    <3>4. ASSUME NEW d \in Commands, session[d] = s, pc[d] \in Using  PROVE FALSE
      <4>1. pc[d] \notin {"send_to", "subscribe", "check_in"}
        BY <2>1, <3>4 DEF Owners
      <4>2. Holds(d) /\ Holds(c) /\ session[c] = s /\ pc[d] # "done"
        BY <2>3, <2>7, <3>4, <4>1 DEF Holds, Using, Counting
      <4> QED  BY <2>1, <2>3, <2>7, <3>4, <4>2, Zenon DEF Owners
    <3>5. Orderly(s)'
      BY <2>1, <2>5, <3>3, <3>4 DEF Orderly
    <3> QED  BY <2>4, <3>5 DEF Clean
  <2> QED  BY <2>2, <2>6, <2>7
<1>11. ASSUME NEW s \in Sessions, OnConnectEncodeFails(s) PROVE Clean'
  <2> DEFINE c == onConnect[s]
  <2>1. /\ c \in handler /\ c \in Commands /\ handler' = handler \ {c}
        /\ connected' = connected \cup {s}
        /\ UNCHANGED <<stopped, current, output, wire, toStop, idle, pc, session, again>>
    BY <1>11 DEF OnConnectEncodeFails, Handle, TypeOK
  <2>2. pc[c] = "done" /\ \A x \in Sessions : current[x] # c
    BY <2>1 DEF Callbacks
  <2> HIDE DEF c
  <2> SUFFICES ASSUME NEW x \in Sessions PROVE Orderly(x)'
    BY DEF Clean
  <2>3. (Free(x)' <=> Free(x)) /\ (Live(x)' <=> Live(x)) /\ Orderly(x)
    BY <2>1 DEF Free, Live, Clean
  <2>4. Carried(x) => Carried(x)'
    BY <2>1, <2>2 DEF Carried
  <2> QED  BY <2>1, <2>2, <2>3, <2>4 DEF Orderly, Using
<1>12. ASSUME NEW s \in Sessions, Write(s) PROVE Clean'
  <2>1. /\ s \in connected \ stopped /\ toStop = {}
        /\ wire' = [wire EXCEPT ![s] = @ \o output[s]]
        /\ output' = [output EXCEPT ![s] = <<>>]
        /\ UNCHANGED <<connected, stopped, current, idle, toStop, handler, session, again, pc>>
    BY <1>12 DEF Write, DoWrite, poolVars, commandVars, IoFree
  <2>2. output[s] # <<>> /\ Orderly(s) /\ Live(s)
    BY <1>12, <2>1 DEF Write, DoWrite, Live, Clean
  <2>3. ASSUME NEW x \in Sessions, x # s  PROVE Orderly(x)'
    BY <2>1, <2>3 DEF Orderly, Free, Live, Carried, Using, Clean, TypeOK, SessionTypeOK
  <2>4. /\ wire[s] = <<>> /\ output[s] = <<current[s]>> /\ current[s] \in handler \cup again
        /\ current[s] \in Commands
    BY <2>2, HttpAssumption DEF Orderly, Carried, TypeOK, SessionTypeOK
  <2>5. <<>> \o <<current[s]>> = <<current[s]>>
    BY <2>4
  <2>6. wire'[s] = <<current[s]>> /\ output'[s] = <<>>
    BY <2>1, <2>4, <2>5 DEF TypeOK, SessionTypeOK
  <2>7. ~Free(s)
    BY <2>2 DEF Free
  <2>8. Carried(s)'
    BY <2>1, <2>4, <2>6 DEF Carried
  <2>9. Orderly(s)'
    BY <2>1, <2>2, <2>7, <2>8 DEF Orderly, Live, Using
  <2> QED  BY <2>3, <2>9 DEF Clean
<1>13. ASSUME NEW s \in Sessions, Answered(s) PROVE Clean'
  <2> DEFINE c == current[s]
  <2>1. /\ s \notin stopped /\ toStop = {} /\ wire[s] # <<>> /\ c \in Commands
        /\ wire' = [wire EXCEPT ![s] = Tail(@)]
        /\ current' = [current EXCEPT ![s] = none]
        /\ handler' = handler \ {c}
        /\ UNCHANGED <<connected, stopped, output, toStop, session, again, pc>>
    BY <1>13 DEF Answered, Handle, IoFree, TypeOK, SessionTypeOK
  <2>2. idle' \subseteq idle \cup {s}
    BY <1>13 DEF Answered, PutIdle
  <2>3. Live(s) /\ Orderly(s)
    BY <2>1 DEF Live, Clean
  <2>4. wire[s] = <<c>> /\ output[s] = <<>>
    BY <2>1, <2>3 DEF Orderly, Carried
  <2>5. wire'[s] = <<>> /\ current'[s] = none
    BY <2>1, <2>4 DEF TypeOK, SessionTypeOK
  <2>6. Free(s)' /\ Carried(s)'
    BY <2>1, <2>4, <2>5 DEF Free, Carried
  <2>7. s \in connected /\ \A d \in Commands : session[d] = s => pc[d] \notin Using
    BY <2>1, <2>3 DEF Orderly, Free
  <2>8. Orderly(s)'
    BY <2>1, <2>6, <2>7 DEF Orderly
  <2>9. pc[c] = "done" /\ (c \in handler => session[c] = s)
    BY <2>1 DEF Callbacks
  <2> HIDE DEF c
  <2>10. ASSUME NEW x \in Sessions, x # s  PROVE Orderly(x)'
    <3>1. /\ wire'[x] = wire[x] /\ current'[x] = current[x] /\ output'[x] = output[x]
          /\ (x \in idle' => x \in idle) /\ (Live(x)' <=> Live(x))
      BY <2>1, <2>2, <2>10 DEF Live, TypeOK, SessionTypeOK
    <3>2. current[x] = c => c \notin handler
      BY <2>1, <2>9, <2>10 DEF Callbacks
    <3>3. Orderly(x)
      BY DEF Clean
    <3>4. Free(x)' <=> Free(x)
      BY <3>1 DEF Free
    <3> DEFINE y == current[x]
    <3>5. y \in handler \cup again => y \in handler' \cup again'
      BY <2>1, <3>2
    <3> HIDE DEF y
    <3>6. Carried(x) => Carried(x)'
      BY <3>1, <3>5, Zenon DEF Carried, y
    <3> QED  BY <2>1, <2>9, <3>1, <3>3, <3>4, <3>6, Zenon DEF Orderly, Using
  <2> QED  BY <2>8, <2>10 DEF Clean
<1>14. ASSUME NEW s \in Sessions, AnsweredWithRetry(s) PROVE Clean'
  <2> DEFINE c == current[s]
  <2>1. /\ s \notin stopped /\ toStop = {} /\ wire[s] # <<>> /\ c \in handler /\ c \in Commands
        /\ wire' = [wire EXCEPT ![s] = Tail(@)]
        /\ handler' = handler \ {c} /\ again' = again \cup {c}
        /\ UNCHANGED <<connected, stopped, toStop, session, pc, idle>>
    BY <1>14 DEF AnsweredWithRetry, IoFree, poolVars, TypeOK, SessionTypeOK
  <2>2. \/ output' = [output EXCEPT ![s] = Append(@, c)] /\ UNCHANGED current
        \/ current' = [current EXCEPT ![s] = none] /\ UNCHANGED output
    BY <1>14 DEF AnsweredWithRetry
  <2>3. Live(s) /\ Orderly(s)
    BY <2>1 DEF Live, Clean
  <2>4. wire[s] = <<c>> /\ output[s] = <<>>
    BY <2>1, <2>3 DEF Orderly, Carried
  <2>5. wire'[s] = <<>>
    BY <2>1, <2>4 DEF TypeOK, SessionTypeOK
  <2>6. Carried(s)'
    <3>1. Append(<<>>, c) = <<c>>
      OBVIOUS
    <3> QED  BY <2>1, <2>2, <2>4, <2>5, <3>1 DEF Carried, TypeOK, SessionTypeOK
  <2>7. /\ s \in connected /\ s \notin idle
        /\ \A d \in Commands : session[d] = s => pc[d] \notin Using
    BY <2>1, <2>3 DEF Orderly, Free
  <2>8. Orderly(s)'
    BY <2>1, <2>6, <2>7 DEF Orderly
  <2>9. pc[c] = "done"
    BY <2>1 DEF Callbacks
  <2> HIDE DEF c
  <2>10. ASSUME NEW x \in Sessions, x # s  PROVE Orderly(x)'
    <3>1. /\ wire'[x] = wire[x] /\ current'[x] = current[x] /\ output'[x] = output[x]
          /\ (Live(x)' <=> Live(x))
      BY <2>1, <2>2, <2>10 DEF Live, TypeOK, SessionTypeOK
    <3>3. Orderly(x)
      BY DEF Clean
    <3>4. Free(x)' <=> Free(x)
      BY <3>1 DEF Free
    <3>5. Carried(x) => Carried(x)'
      BY <2>1, <3>1, Zenon DEF Carried
    <3> QED  BY <2>1, <2>9, <3>1, <3>3, <3>4, <3>5, Zenon DEF Orderly, Using
  <2> QED  BY <2>8, <2>10 DEF Clean
<1>15. ASSUME NEW s \in Sessions, Stop(s) PROVE Clean'
  <2>1. /\ s \in toStop /\ toStop' = toStop \ {s} /\ idle' \subseteq idle
        /\ s \in stopped' /\ stopped \subseteq stopped'
        /\ UNCHANGED <<connected, output, wire, pc, again>>
    BY <1>15, Zenon DEF Stop
  <2>2. \A x \in Sessions : Live(x)' => Live(x) /\ x # s
    BY <2>1 DEF Live
  <2>3. current' = [current EXCEPT ![s] = none] \/ UNCHANGED current
    BY <1>15, Zenon DEF Stop
  <2>4. \A x \in Sessions :
          /\ current'[x] \in {current[x], none}
          /\ Live(x)' => Live(x) /\ current'[x] = current[x]
    BY <2>2, <2>3 DEF TypeOK, SessionTypeOK
  <2>5. CASE onConnect[s] # none /\ ConnectAgain(onConnect[s], s)
    BY Zenon, <2>1, <2>4, <2>5, ConnectAgainClean
  <2>6. ASSUME UNCHANGED session,
               \A x \in Sessions : Live(x)' /\ current[x] \in handler => current[x] \in handler',
               \A d \in Commands : pc[d] # "done" /\ d \in handler => d \in handler'
        PROVE  Clean'
    <3>1. \A x \in Sessions : Live(x)' /\ x \in idle' => Free(x)
      BY <2>1, <2>2, Zenon DEF Clean, Orderly
    <3>2. \A x \in Sessions, d \in Commands :
            Live(x)' /\ session'[d] = x /\ pc'[d] \in Using =>
              Free(x) /\ (pc'[d] \in {"send_to", "subscribe"} => d \in handler')
      BY <2>1, <2>2, <2>6, Zenon DEF Clean, Orderly, Using
    <3> QED  BY <2>1, <2>4, <2>6, <3>1, <3>2, CleanFrame
  <2>7. CASE current[s] # none /\ Handle(current[s]) /\ UNCHANGED session
    <3>1. \A x \in Sessions : Live(x)' /\ current[x] \in handler => current[x] \in handler'
      BY <2>2, <2>7 DEF Handle, Callbacks, TypeOK, SessionTypeOK
    <3>2. \A d \in Commands : pc[d] # "done" /\ d \in handler => d \in handler'
      BY <2>7 DEF Handle, Callbacks, TypeOK, SessionTypeOK
    <3> QED  BY Zenon, <2>6, <2>7, <3>1, <3>2
  <2>8. CASE UNCHANGED <<session, handler>>
    BY <2>6, <2>8
  <2> QED  BY <1>15, <2>5, <2>7, <2>8, Zenon DEF Stop
<1>16. CASE Quiet
  BY <1>16, QuietInv DEF IInv
<1> QED  BY <1>0, <1>1, <1>2, <1>3, <1>4, <1>5, <1>6, <1>7, <1>8, <1>9, <1>10, <1>11, <1>12,
   <1>13, <1>14, <1>15, <1>16, QuietSteps DEF Next, Execute, IoStep

-----------------------------------------------------------------------------
(* The theorems.                                                            *)

\* The invariant holds at first.
LEMMA InitInv == Init => IInv
<1> SUFFICES ASSUME Init PROVE IInv
  OBVIOUS
<1>1. TypeOK
  <2>1. SessionTypeOK
    BY DEF Init, SessionInit, SessionTypeOK
  <2>2. /\ pc \in [Commands -> Places]
        /\ session \in [Commands -> Sessions \cup {none}]
        /\ deadline \in [Commands -> {"off", "armed", "due"}]
        /\ answers \in [Commands -> Nat]
    BY DEF Init, Places
  <2>3. configs \in 0..MaxConfigs
    BY ManagerAssumption DEF Init
  <2> QED  BY <2>1, <2>2, <2>3, Zenon DEF Init, TypeOK
<1>2. Counting
  BY DEF Init, Counting
<1>3. Made = {} /\ \A c \in Commands : ~Holds(c) /\ pc[c] = "new"
  BY DEF Init, SessionInit, Made, Holds
<1>4. Owners
  BY <1>3 DEF Init, SessionInit, Owners
<1>5. Callbacks
  BY HttpAssumption DEF Init, SessionInit, Callbacks
<1>6. Clean
  BY <1>3 DEF Init, SessionInit, Clean, Orderly, Free, Carried
<1> QED  BY <1>1, <1>2, <1>4, <1>5, <1>6 DEF IInv

\* Every step keeps it.
LEMMA StepInv == IInv /\ [Next]_vars => IInv'
<1> SUFFICES ASSUME IInv, Next \/ UNCHANGED vars PROVE IInv'
  OBVIOUS
<1> QED  BY TypeStep, CountingStep, CallbacksStep, OwnersStep, CleanStep DEF IInv

\* The invariant holds in every state: types, the count of answers, the one
\* holder of each session, the callbacks that check_out, connect() and
\* write_and_subscribe install, and what a session carries.
THEOREM Invariance == Spec => []IInv
BY InitInv, StepInv, PTL DEF Spec

\* invoke_handler calls the handler of a command at most once, whatever the
\* order of answers, deadlines, stops and failures.
THEOREM AnsweredAtMostOnce == Spec => []AnsweredOnce
<1>1. IInv => AnsweredOnce
  BY DEF IInv, Counting, AnsweredOnce
<1> QED  BY <1>1, Invariance, PTL

\* check_out never gives one session to two commands that are under way.
THEOREM SessionsAreExclusive == Spec => []OwnSession
<1>1. IInv => OwnSession
  BY Zenon DEF IInv, Owners, Holds, OwnSession, UnderWay
<1> QED  BY <1>1, Invariance, PTL

\* do_read hands the answer it reads next to the command that asked for it,
\* for every number of commands that have used the session before.
THEOREM AnswersReachTheirCommand == Spec => []OwnAnswer
<1>1. IInv => OwnAnswer
  <2> SUFFICES ASSUME IInv, NEW s \in Sessions, s \notin stopped \cup toStop, wire[s] # <<>>
               PROVE  current[s] = Head(wire[s])
    BY DEF OwnAnswer
  <2>1. wire[s] = <<current[s]>>
    BY DEF IInv, Clean, Orderly, Live, Carried
  <2>2. \A x : Head(<<x>>) = x
    OBVIOUS
  <2> QED  BY <2>1, <2>2, Zenon
<1> QED  BY <1>1, Invariance, PTL

\* Only do_write adds to what is on a connection.
LEMMA WireGrows ==
  ASSUME TypeOK, Next \/ UNCHANGED vars, NEW s \in Sessions
  PROVE  \/ wire'[s] = wire[s]
         \/ wire[s] # <<>> /\ wire'[s] = Tail(wire[s])
         \/ Write(s)
<1>1. ASSUME NEW x \in Sessions, Write(x)
      PROVE  wire'[s] = wire[s] \/ Write(s)
  <2>1. CASE x = s
    BY <1>1, <2>1
  <2>2. CASE x # s
    BY <1>1, <2>2 DEF Write, DoWrite, TypeOK, SessionTypeOK
  <2> QED  BY <2>1, <2>2
<1>2. ASSUME NEW x \in Sessions, Answered(x) \/ AnsweredWithRetry(x)
      PROVE  wire'[s] = wire[s] \/ (wire[s] # <<>> /\ wire'[s] = Tail(wire[s]))
  <2>1. wire[x] # <<>> /\ wire' = [wire EXCEPT ![x] = Tail(@)]
    BY <1>2 DEF Answered, AnsweredWithRetry
  <2> QED  BY <2>1 DEF TypeOK, SessionTypeOK
<1>3. ASSUME NEW c \in Commands, Execute(c) \/ DeadlineExpires(c) \/ Cancel(c)
      PROVE  UNCHANGED wire
  BY <1>3, Zenon DEF Execute, CheckOut, CheckOutFails, Start, SetCommandSession,
     SendTo, EncodeFails, CheckInIdle, WriteAndSubscribe, DeadlineExpires, Cancel, sessionVars
<1>4. ASSUME NEW x \in Sessions,
             \/ ConnectFails(x) \/ OnConnect(x) \/ OnConnectEncodeFails(x)
             \/ ConnectionLost(x) \/ IdleStop(x) \/ Stop(x) \/ RunPosted(x)
             \/ Destroy(x) \/ TimerExpires(x)
      PROVE  UNCHANGED wire
  BY <1>4, Zenon DEF ConnectFails, OnConnect, OnConnectEncodeFails, ConnectionLost,
     IdleStop,
              Stop, RunPosted, Destroy, TimerExpires, IdleExpires, sessionVars
<1>5. CASE UpdateConfig \/ Close \/ UNCHANGED vars
  BY <1>5 DEF UpdateConfig, Close, vars, sessionVars
<1> QED  BY <1>1, <1>2, <1>3, <1>4, <1>5, Zenon DEF Next, IoStep

\* do_write writes no request of a command whose handler has been called, save
\* the one that is sent again.
THEOREM NothingLateIsWritten == Spec => NoLateRequest
<1>1. ASSUME IInv, Next \/ UNCHANGED vars, NEW s \in Sessions, NEW i \in 1..Len(wire'[s]),
             i > Len(wire[s])
      PROVE  wire'[s][i] \in handler \cup again
  <2>1. wire[s] \in Seq(Commands) /\ Len(wire[s]) \in Nat
    BY <1>1 DEF IInv, TypeOK, SessionTypeOK
  <2>2. CASE wire'[s] = wire[s]
    BY <1>1, <2>1, <2>2
  <2>3. CASE wire[s] # <<>> /\ wire'[s] = Tail(wire[s])
    <3>1. Len(Tail(wire[s])) = Len(wire[s]) - 1
      BY <2>1, <2>3
    <3> QED  BY <1>1, <2>1, <2>3, <3>1
  <2>4. CASE Write(s)
    <3>1. /\ s \notin stopped \cup toStop /\ output[s] # <<>>
          /\ wire' = [wire EXCEPT ![s] = @ \o output[s]]
      BY <2>4 DEF Write, DoWrite, IoFree
    <3>2. /\ wire[s] = <<>> /\ output[s] = <<current[s]>>
          /\ current[s] \in handler \cup again
      BY <1>1, <3>1 DEF IInv, Clean, Orderly, Live, Carried
    <3>3. current[s] \in Commands
      BY <1>1, <3>2 DEF IInv, TypeOK
    <3>4. <<>> \o <<current[s]>> = <<current[s]>>
      BY <3>3
    <3>5. wire'[s] = <<current[s]>>
      BY <1>1, <3>1, <3>2, <3>4 DEF IInv, TypeOK, SessionTypeOK
    <3> QED  BY <1>1, <3>2, <3>5
  <2> QED  BY <1>1, <2>2, <2>3, <2>4, WireGrows DEF IInv
<1>2. IInv /\ [Next]_vars =>
        [\A s \in Sessions : \A i \in 1..Len(wire'[s]) :
           i > Len(wire[s]) => wire'[s][i] \in handler \cup again]_vars
  BY <1>1
<1> QED  BY <1>2, Invariance, PTL DEF Spec, NoLateRequest
=============================================================================
