---------------------------- MODULE OnvifServer ----------------------------
(***************************************************************************)
(* The listening half of one ONVIF endpoint per device: the server socket  *)
(* that make_server() binds, the thread the runtime starts on              *)
(* serve_forever, and the shutdown handshake between that thread and the   *)
(* thread that stops the server.  The handshake itself (a request flag and *)
(* an event) belongs to the standard library's socketserver.BaseServer; it *)
(* is modelled because CameraMockRuntime.stop() blocks on it.              *)
(*                                                                         *)
(* The actions constrain only the four variables of this module: Runtime   *)
(* conjoins them with the step of the thread that calls them.              *)
(***************************************************************************)
EXTENDS Integers

CONSTANT NumDevices          \* devices of the configuration, in its order

ASSUME NumDevicesAssumption == NumDevices \in Nat \ {0}

Devices == 1 .. NumDevices

VARIABLES
  socket,      \* socket[d]: the listening socket of device d
  loop,        \* loop[d]: where the thread of device d's serve_forever is
  request,     \* request[d]: the server's shutdown request flag
  isShutDown   \* isShutDown[d]: the event that says serve_forever was left

serverVars == <<socket, loop, request, isShutDown>>

ServerTypeOK ==
  /\ socket     \in [Devices -> {"none", "open", "closed"}]
  /\ loop       \in [Devices -> {"none", "started", "serving", "ended"}]
  /\ request    \in [Devices -> BOOLEAN]
  /\ isShutDown \in [Devices -> BOOLEAN]

ServerInit ==
  /\ socket     = [d \in Devices |-> "none"]
  /\ loop       = [d \in Devices |-> "none"]
  /\ request    = [d \in Devices |-> FALSE]
  /\ isShutDown = [d \in Devices |-> FALSE]

-----------------------------------------------------------------------------
(* Calls made by the runtime's main thread.                                *)

\* make_server binds and listens, then thread.start() returns once the new
\* thread runs, which need not have reached serve_forever yet.
StartServing(d) ==
  /\ socket' = [socket EXCEPT ![d] = "open"]
  /\ loop'   = [loop EXCEPT ![d] = "started"]
  /\ UNCHANGED <<request, isShutDown>>

\* First half of server.shutdown(): ask the loop to leave.
RequestShutdown(d) ==
  /\ request' = [request EXCEPT ![d] = TRUE]
  /\ UNCHANGED <<socket, loop, isShutDown>>

\* Second half of server.shutdown(): blocked until the event is set.
ReturnsAtOnce(d)   == TRUE            \* faulty
ShutdownReturns(d) == isShutDown[d]

ServerClose(d) ==
  /\ socket' = [socket EXCEPT ![d] = "closed"]
  /\ UNCHANGED <<loop, request, isShutDown>>

\* The Python process is gone: its daemon threads and its sockets with it.
ServersGone ==
  /\ socket' = [d \in Devices |-> IF socket[d] = "none" THEN "none" ELSE "closed"]
  /\ loop'   = [d \in Devices |-> IF loop[d] = "none" THEN "none" ELSE "ended"]
  /\ UNCHANGED <<request, isShutDown>>

-----------------------------------------------------------------------------
(* Steps of the serving thread of device d.                                *)

\* serve_forever is entered: the event is cleared before the loop's test.
EnterLoop(d) ==
  /\ loop[d] = "started"
  /\ loop'       = [loop EXCEPT ![d] = "serving"]
  /\ isShutDown' = [isShutDown EXCEPT ![d] = FALSE]
  /\ UNCHANGED <<socket, request>>

\* The loop sees the request (it looks every half second) and leaves; its
\* finally clause resets the request and sets the event.
LeaveLoop(d) ==
  /\ loop[d] = "serving"
  /\ request[d]
  /\ loop'       = [loop EXCEPT ![d] = "ended"]
  /\ request'    = [request EXCEPT ![d] = FALSE]
  /\ isShutDown' = [isShutDown EXCEPT ![d] = TRUE]
  /\ UNCHANGED socket

ServingThread(d) == EnterLoop(d) \/ LeaveLoop(d)

=============================================================================
