-------------------------- MODULE RuntimeInvariant --------------------------
(***************************************************************************)
(* The inductive invariant behind the safety properties of Runtime: what   *)
(* is known at each statement of the main thread.  TLC checks it on the    *)
(* instances, Runtime_proof proves it.                                     *)
(***************************************************************************)
EXTENDS Runtime

Dead(c) == child[c] \notin Alive

\* Statements by what start() has done before them.
BeforeSpawn   == {"load", "binaries", "tempdir", "mediamtx"}
BeforePublish == BeforeSpawn \cup {"portPoll", "portConnect"}
BeforeServe   == BeforePublish \cup {"publish"}
AllSpawned    == Pcs \ (BeforeServe \cup {"exited"})
AllServing    == AllSpawned \ {"serve"}

\* Statements of stop() by what it has done before them.
DiscoveryDown  == (StopPcs \ {"stopDiscovery"}) \cup {"stopped"}
ClosingPcs     == {"srv", "srvWait", "srvClose"}
ServersDown    == DiscoveryDown \ (ClosingPcs \cup {"joinDiscovery"})
PublishersDown == {"clearPublishers", "dropMediaMTX", "cleanup", "stopped"}
MediaMTXDown   == {"dropMediaMTX", "cleanup", "stopped"}

\* start() spawns the children one after the other.
SpawnInv ==
  /\ pc \in BeforeSpawn => \A c \in Children : child[c] = "none"
  /\ pc \in {"portPoll", "portConnect"} =>
       /\ child[MediaMTX] # "none"
       /\ \A p \in Publishers : child[p] = "none"
  /\ pc = "publish" =>
       /\ child[MediaMTX] # "none"
       /\ \A p \in Publishers : (child[p] # "none") <=> (p < idx)
  /\ pc \in AllSpawned => \A c \in Children : child[c] # "none"

\* self._publishers is complete once start() is through it, until cleared.
ListInv ==
  /\ pc \in BeforePublish => publishers = {}
  /\ pc = "publish" => \A p \in Publishers : (p \in publishers) <=> (p < idx)
  /\ pc \in AllSpawned => publishers \in {{}, Publishers}

\* stop() terminates the children in order and passes none that lives.
TerminateInv ==
  /\ pc \in TermPcs =>
       \A p \in Publishers : idx = MediaMTX \/ p < idx => Dead(p)
  /\ pc \in PublishersDown => \A p \in Publishers : Dead(p)
  /\ pc \in MediaMTXDown => Dead(MediaMTX)
  /\ pc = "termWait" => child[idx] # "running"
  /\ pc = "stopped" => ~tempdir

\* Which endpoints exist, and which of them stop() has closed already.
ServerInv ==
  /\ \A d \in Devices : (socket[d] = "none") <=> (loop[d] = "none")
  /\ \A d \in Devices : isShutDown[d] => loop[d] = "ended"
  /\ pc \in BeforeServe =>
       servers = {} /\ threads = {} /\ \A d \in Devices : socket[d] = "none"
  /\ pc = "serve" => \A d \in Devices : (d \in servers) <=> (d < idx)
  /\ pc = "serve" => \A d \in Devices : socket[d] # "none" => d < idx
  /\ pc \in AllServing => servers \in {{}, Devices}
  /\ pc # "exited" => \A d \in Devices : socket[d] = "open" => d \in servers
  /\ pc \in ClosingPcs => \A d \in Devices : d < idx => socket[d] # "open"
  /\ pc = "srvClose" => loop[idx] = "ended"
  /\ pc \in ServersDown => \A d \in Devices : socket[d] # "open"

\* A responder that still answers is one that stop() still knows of.
ResponderInv ==
  /\ pc # "exited" /\ responder = "running" => discovery
  /\ pc \in DiscoveryDown => responder # "running"

ChildInv    == SpawnInv /\ ListInv /\ ChildrenTracked /\ TerminateInv
EndpointInv == ServerInv /\ NoCloseUnderServe
ServiceInv  == ResponderInv /\ ServedAfterMedia

\* The inductive invariant: what makes the safety properties of Runtime hold
\* statement by statement, through every interrupted and repeated stop().
IInv == TypeOK /\ ChildInv /\ EndpointInv /\ ServiceInv

=============================================================================
