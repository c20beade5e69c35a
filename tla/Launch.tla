------------------------------- MODULE Launch -------------------------------
(***************************************************************************)
(* An accepted configuration meets the machine: start() has MediaMTX open  *)
(* its ports, then binds one ONVIF server after the other.  The parser     *)
(* compared the ONVIF ports with each other only.                          *)
(*                                                                         *)
(* The machine is otherwise idle and nobody interrupts: what goes wrong    *)
(* for other reasons, and what is left behind then, is in Runtime.         *)
(***************************************************************************)
EXTENDS Samples

CONSTANTS
  OwnPorts   \* the TCP ports MediaMTX opens besides the one it is told

ASSUME OwnPortsAssumption == OwnPorts \subseteq Int

VARIABLES
  phase,     \* of start(), once there is a configuration
  listening, \* pairs <<port, who>> of open TCP ports
  server     \* the device whose server is next

launchVars == <<phase, listening, server>>
allVars    == <<vars, launchVars>>

MediaMTX == 0

LaunchInit ==
  /\ Init
  /\ phase = "idle" /\ listening = {} /\ server = 1

Taken(port) == \E l \in listening : l[1] = port

-----------------------------------------------------------------------------

Parse == Next /\ UNCHANGED launchVars

\* MediaMTX ends when it cannot open all its ports; the runtime sees that, at
\* the latest when it polls it, and stops.
StartMediaMTX ==
  /\ pc = "accepted" /\ phase = "idle"
  /\ IF config.rtsp \in OwnPorts
     THEN phase' = "failed" /\ UNCHANGED <<listening, server>>
     ELSE /\ phase' = "servers"
          /\ listening' = {<<n, MediaMTX>> : n \in OwnPorts \cup {config.rtsp}}
          /\ UNCHANGED server
  /\ UNCHANGED vars

\* make_server: binding a port of MediaMTX raises OSError.  On a port of
\* another server of this process it depends on the options that the
\* version of http.server sets on its socket.
BindServer ==
  /\ phase = "servers" /\ server \in Devices
  /\ LET n == Port(server) IN
     \/ /\ Taken(n)
        /\ phase' = "failed" /\ UNCHANGED <<listening, server>>
     \/ /\ <<n, MediaMTX>> \notin listening
        /\ listening' = listening \cup {<<n, server>>}
        /\ server' = server + 1
        /\ UNCHANGED phase
  /\ UNCHANGED vars

Serve ==
  /\ phase = "servers" /\ server \notin Devices
  /\ phase' = "serving"
  /\ UNCHANGED <<vars, listening, server>>

LaunchNext == Parse \/ StartMediaMTX \/ BindServer \/ Serve

LaunchSpec == LaunchInit /\ [][LaunchNext]_allVars /\ WF_allVars(LaunchNext)

-----------------------------------------------------------------------------
(* Properties.                                                             *)

\* Type invariant; what was accepted is fit to be started.
LaunchTypeOK ==
  /\ TypeOK
  /\ phase \in {"idle", "servers", "serving", "failed"}
  /\ \A l \in listening : /\ l[1] \in OwnPorts \/ l[1] \in 1 .. MaxPort
                          /\ l[2] \in Devices \cup {MediaMTX}
  /\ server \in 1 .. Len(config.devices) + 1
  /\ phase # "idle" => pc = "accepted"

\* The ports on which a configuration can meet MediaMTX.
MeetsMediaMTX ==
  \/ config.rtsp \in OwnPorts
  \/ \E i \in Devices : Port(i) \in OwnPorts \cup {config.rtsp}

\* MediaMTX is all that an accepted configuration can collide with: its own
\* devices never compete for a port, given or by default, so that start()
\* fails for no other reason, and once it is through each advertised port
\* is answered by the one device that advertises it.
OnlyMediaMTXCollides ==
  /\ phase = "failed" => MeetsMediaMTX
  /\ phase = "serving" =>
       \A i \in Devices : {l \in listening : l[1] = Port(i)} = {<<Port(i), i>>}

\* What "validate" calls valid, "run" can start.
ValidConfigStarts == (pc = "accepted") ~> (phase = "serving")

=============================================================================
