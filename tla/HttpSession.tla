----------------------------- MODULE HttpSession -----------------------------
(***************************************************************************)
(* HTTP sessions (http_session): one connection to one node, which carries  *)
(* one request at a time.                                                   *)
(*                                                                          *)
(* A session is connected once and stopped once; connected_ is never reset. *)
(* Requests are put in the output buffer by the thread that sends them and  *)
(* written by the I/O thread.  The answer is handed to current_response_,   *)
(* whoever has put it there.  A timer that is due has its handler queued on *)
(* the I/O thread: cancel() does not reach it any more.                     *)
(***************************************************************************)
EXTENDS Naturals, Sequences, FiniteSets

CONSTANTS
  Commands,   \* requests of the application
  Sessions,   \* bound on the sessions that are created
  Nodes,      \* nodes with the service
  none

ASSUME HttpAssumption ==
  /\ none \notin Commands \cup Sessions \cup Nodes
  /\ IsFiniteSet(Sessions)

VARIABLES
  nodeOf,     \* the node of each session; none: not created yet
  connected,  \* connected_
  stopped,    \* stopped_
  keep,       \* keep_alive_
  timer,      \* idle_timer_: "off", "armed", "due"
  onConnect,  \* connect_callback_: the command it sends
  current,    \* current_response_: the command whose handler it is
  output,     \* output_buffer_
  wire        \* requests on the connection that are not answered yet

sessionVars ==
  <<nodeOf, connected, stopped, keep, timer, onConnect, current, output, wire>>

Made  == {s \in Sessions : nodeOf[s] # none}
Fresh == Sessions \ Made

SessionTypeOK ==
  /\ nodeOf \in [Sessions -> Nodes \cup {none}]
  /\ connected \in SUBSET Sessions /\ stopped \in SUBSET Sessions
  /\ keep \in SUBSET Sessions
  /\ timer \in [Sessions -> {"off", "armed", "due"}]
  /\ onConnect \in [Sessions -> Commands \cup {none}]
  /\ current \in [Sessions -> Commands \cup {none}]
  /\ output \in [Sessions -> Seq(Commands)]
  /\ wire \in [Sessions -> Seq(Commands)]

SessionInit ==
  /\ nodeOf = [s \in Sessions |-> none]
  /\ connected = {} /\ stopped = {} /\ keep = {}
  /\ timer = [s \in Sessions |-> "off"]
  /\ onConnect = [s \in Sessions |-> none]
  /\ current = [s \in Sessions |-> none]
  /\ output = [s \in Sessions |-> <<>>]
  /\ wire = [s \in Sessions |-> <<>>]

-----------------------------------------------------------------------------
(* What the members of a session do to its state.                           *)

\* connect, when the session is not stopped: the callback waits for on_connect.
Connecting(cb, s, c) == [cb EXCEPT ![s] = c]

\* write_and_subscribe after its test of stopped_: current_response_, then the
\* output buffer, which write() leaves alone when the session is stopped.
Subscribe(c, s, keepAlive) ==
  /\ current' = [current EXCEPT ![s] = c]
  /\ keep' = IF keepAlive THEN keep \cup {s} ELSE keep
  /\ output' = IF s \in stopped THEN output
               ELSE [output EXCEPT ![s] = Append(@, c)]

\* mutant: without the test of stopped_
DoWriteStopped(s) ==
  /\ s \in connected /\ output[s] # <<>>
  /\ wire' = [wire EXCEPT ![s] = @ \o output[s]]
  /\ output' = [output EXCEPT ![s] = <<>>]
  /\ UNCHANGED <<nodeOf, connected, stopped, keep, timer, onConnect, current>>

\* do_write, posted by flush
DoWrite(s) ==
  /\ s \in connected \ stopped /\ output[s] # <<>>
  /\ wire' = [wire EXCEPT ![s] = @ \o output[s]]
  /\ output' = [output EXCEPT ![s] = <<>>]
  /\ UNCHANGED <<nodeOf, connected, stopped, keep, timer, onConnect, current>>

\* The idle timer of a session expires: its handler is queued.
IdleExpires(s) ==
  /\ timer[s] = "armed" /\ timer' = [timer EXCEPT ![s] = "due"]
  /\ UNCHANGED <<nodeOf, connected, stopped, keep, onConnect, current, output, wire>>

Cancelled(t) == IF t = "armed" THEN "off" ELSE t
=============================================================================
