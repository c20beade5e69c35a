------------------------------ MODULE Runtime ------------------------------
(***************************************************************************)
(* CameraMockRuntime: one process run of `camera-mock run`, from main() to *)
(* the exit status.  The main thread starts the children (MediaMTX and one *)
(* ffmpeg publisher per profile), the ONVIF servers and the discovery      *)
(* responder, polls the children, and stops everything again; it competes  *)
(* with the serving threads, with children that exit whenever they like,   *)
(* with KeyboardInterrupt at any of its statements, and with a kill.       *)
(*                                                                         *)
(* pc names the statement the main thread executes next and idx is the     *)
(* position of the loop it is in.  Children are numbered: 0 is MediaMTX,   *)
(* 1 .. NumProfiles the publishers in the order of config.profiles.        *)
(***************************************************************************)
EXTENDS OnvifServer

CONSTANTS
  NumProfiles,     \* profiles of the configuration, over all its devices
  MaxTries,        \* bound: connection attempts before the port deadline
  MaxInterrupts    \* bound: KeyboardInterrupts delivered to the main thread

ASSUME NumProfilesAssumption == NumProfiles \in Nat \ {0}
ASSUME BoundsAssumption == MaxTries \in Nat /\ MaxInterrupts \in Nat

MediaMTX   == 0
Publishers == 1 .. NumProfiles
Children   == 0 .. NumProfiles

VARIABLES
  pc, idx,
  pending,      \* exception travelling through run_forever's finally clause
  exit,         \* how the process ended
  interrupts,   \* KeyboardInterrupts delivered so far
  child,        \* child[c]: the operating system's view of child c
  port,         \* who listens on the RTSP port
  responder,    \* the discovery thread: its stop flag is set in "stopping"
  tempdir,      \* the temporary directory exists
  mediamtx,     \* self._mediamtx is not None
  publishers,   \* self._publishers
  servers,      \* self._servers
  threads,      \* self._threads
  discovery     \* self._discovery is not None

fields == <<tempdir, mediamtx, publishers, servers, threads, discovery>>
world  == <<child, port>>
vars == <<pc, idx, pending, exit, interrupts, child, port, responder,
          tempdir, mediamtx, publishers, servers, threads, discovery,
          socket, loop, request, isShutDown>>

\* How the process ends: main()'s 0 and 2, an exception it does not catch,
\* a KeyboardInterrupt it does not catch, a signal without a handler.
Statuses == {"ok", "error", "traceback", "interrupted", "killed"}

\* Running and not signalled; SIGINT sent; SIGKILL sent but not yet gone.
Alive == {"running", "interrupted", "killed"}

StartPcs == {"load", "binaries", "tempdir", "mediamtx", "portPoll",
             "portConnect", "publish", "serve", "discover", "started"}
LoopPcs  == {"poll", "sleep"}
StopPcs  == {"stopDiscovery", "joinDiscovery", "srv", "srvWait", "srvClose",
             "join", "clearServers", "clearThreads", "term", "termWait",
             "killWait", "clearPublishers", "dropMediaMTX", "cleanup"}
\* In _stop_after_interrupts, but outside the try that guards stop().
GapPcs   == {"guard", "warn"}
TermPcs  == {"term", "termWait", "killWait"}
Pcs == StartPcs \cup LoopPcs \cup {"requested"} \cup GapPcs \cup StopPcs
         \cup {"stopped", "exited"}

Init ==
  /\ pc = "load" /\ idx = 0
  /\ pending = "none" /\ exit = "none" /\ interrupts = 0
  /\ child = [c \in Children |-> "none"]
  /\ port \in {"free", "foreign"}     \* another program may hold it already
  /\ responder = "none"
  /\ tempdir = FALSE /\ mediamtx = FALSE /\ publishers = {}
  /\ servers = {} /\ threads = {} /\ discovery = FALSE
  /\ ServerInit

\* Where the loops over the children begin and end.  Each "faulty" operator
\* of this project is a plausible slip in the definition that follows it.
OnePastLast   == NumProfiles + 1      \* faulty
OneShort      == NumProfiles - 1      \* faulty
LastPublisher == NumProfiles
PublishersOnly == 1                   \* faulty
FirstPolled    == MediaMTX
MediaMTXFirst   == MediaMTX           \* faulty
FirstTerminated == 1

\* Whether stop() can still reach child c.
Referenced(c) == IF c = MediaMTX THEN mediamtx ELSE c \in publishers

\* The process ends: an exception nobody catches, main()'s return, or a kill.
\* Children live on; the temporary directory has a finalizer, unless the
\* process is killed or removing the directory was what failed.
Leave(status) ==
  /\ pc' = "exited" /\ exit' = status
  /\ responder' = IF responder = "none" THEN "none" ELSE "ended"
  /\ tempdir' = (tempdir /\ (status = "killed" \/ pc = "cleanup"))
  /\ ServersGone
  /\ UNCHANGED <<idx, pending, child, port, mediamtx, publishers, servers,
                 threads, discovery>>

\* The main thread goes to a statement and a position, and that is all.
Goto(at, i)  == pc' = at /\ idx' = i
Moves(at, i) ==
  /\ Goto(at, i)
  /\ UNCHANGED <<pending, exit, responder, world, fields, serverVars>>

-----------------------------------------------------------------------------
(* main(), _run() and start(): an exception here ends the process, since   *)
(* run_forever calls start() before its try.                               *)

\* load_config: main() turns its ConfigError into exit status 2, but not
\* what running ffprobe may raise.
LoadConfig ==
  pc = "load" /\ (Leave("error") \/ Leave("traceback") \/ Moves("binaries", idx))

RequireBinaries == pc = "binaries" /\ (Leave("error") \/ Moves("tempdir", idx))

MakeTempdir ==
  /\ pc = "tempdir"
  /\ \/ Leave("traceback")
     \/ /\ Goto("mediamtx", idx)
        /\ tempdir' = TRUE
        /\ UNCHANGED <<pending, exit, responder, world, mediamtx, publishers,
                       servers, threads, discovery, serverVars>>

SpawnMediaMTX ==
  /\ pc = "mediamtx"
  /\ \/ Leave("traceback")
     \/ /\ Goto("portPoll", 0)
        /\ child' = [child EXCEPT ![MediaMTX] = "running"]
        /\ mediamtx' = TRUE
        /\ UNCHANGED <<pending, exit, responder, port, tempdir, publishers,
                       servers, threads, discovery, serverVars>>

\* Head of _wait_for_port's loop: the deadline, then process.poll().
PortPoll ==
  /\ pc = "portPoll"
  /\ \/ Leave("error")                          \* the deadline has passed
     \/ idx < MaxTries /\ child[MediaMTX] = "exited" /\ Leave("error")
     \/ idx < MaxTries /\ child[MediaMTX] # "exited" /\ Moves("portConnect", idx)

\* connect() succeeds whoever listens, and may time out even then.
PortConnect ==
  /\ pc = "portConnect"
  /\ \/ port # "free" /\ Moves("publish", 1)
     \/ Moves("portPoll", idx + 1)

\* One iteration of _start_publishers.
StartPublisher ==
  /\ pc = "publish"
  /\ \/ Leave("traceback")
     \/ /\ child' = [child EXCEPT ![idx] = "running"]
        /\ publishers' = publishers \cup {idx}
        /\ IF idx = LastPublisher THEN Goto("serve", 1) ELSE Goto(pc, idx + 1)
        /\ UNCHANGED <<pending, exit, responder, port, tempdir, mediamtx,
                       servers, threads, discovery, serverVars>>

\* make_server may fail to bind; an OSError is not caught anywhere.
StartServer ==
  /\ pc = "serve"
  /\ \/ Leave("traceback")
     \/ /\ StartServing(idx)
        /\ servers' = servers \cup {idx}
        /\ threads' = threads \cup {idx}
        /\ IF idx = NumDevices THEN Goto("discover", idx) ELSE Goto(pc, idx + 1)
        /\ UNCHANGED <<pending, exit, responder, world, tempdir, mediamtx,
                       publishers, discovery>>

StartDiscovery ==
  /\ pc = "discover"
  /\ \/ Leave("traceback")                 \* no thread can be started
     \/ /\ Goto("started", idx)
        /\ discovery' = TRUE
        /\ responder' = "running"
        /\ UNCHANGED <<pending, exit, world, tempdir, mediamtx, publishers,
                       servers, threads, serverVars>>

-----------------------------------------------------------------------------
(* The polling loop of run_forever.                                        *)

\* The line between start() and the try.
Started == pc = "started" /\ Moves("poll", FirstPolled)

\* poll() of one child; a dead one raises RuntimeErrorMessage.
PollChild ==
  /\ pc = "poll"
  /\ \/ /\ child[idx] = "exited"
        /\ Goto("guard", idx)
        /\ pending' = "childExited"
        /\ UNCHANGED <<exit, responder, world, fields, serverVars>>
     \/ /\ child[idx] # "exited"
        /\ IF idx = LastPublisher THEN Moves("sleep", idx) ELSE Moves(pc, idx + 1)

Sleep == pc = "sleep" /\ Moves("poll", FirstPolled)

BackToPolling  == "poll"              \* faulty
AfterRequested == "guard"

\* The handler of the first KeyboardInterrupt, then the finally clause.
ShutdownRequested == pc = "requested" /\ Moves(AfterRequested, idx)

-----------------------------------------------------------------------------
(* stop(), called by _stop_after_interrupts.                               *)

EnterStop == pc = "guard" /\ Moves("stopDiscovery", idx)

\* DiscoveryResponder.stop() sets the flag and closes the socket.
StopDiscovery ==
  /\ pc = "stopDiscovery"
  /\ \/ ~discovery /\ Moves("srv", 1)
     \/ /\ discovery
        /\ responder' = IF responder = "running" THEN "stopping" ELSE responder
        /\ Goto("joinDiscovery", idx)
        /\ UNCHANGED <<pending, exit, world, fields, serverVars>>

\* join(timeout=2) returns whether or not the thread has ended.
JoinDiscovery ==
  /\ pc = "joinDiscovery"
  /\ discovery' = FALSE
  /\ Goto("srv", 1)
  /\ UNCHANGED <<pending, exit, responder, world, tempdir, mediamtx,
                 publishers, servers, threads, serverVars>>

ShutdownServer ==
  /\ pc = "srv"
  /\ \/ idx \notin servers /\ Moves("join", 1)
     \/ /\ idx \in servers
        /\ RequestShutdown(idx)
        /\ Goto("srvWait", idx)
        /\ UNCHANGED <<pending, exit, responder, world, fields>>

\* server.shutdown() blocks until serve_forever has been left.
AwaitShutdown ==
  pc = "srvWait" /\ ShutdownReturns(idx) /\ Moves("srvClose", idx)

CloseServer ==
  /\ pc = "srvClose"
  /\ ServerClose(idx)
  /\ Goto("srv", idx + 1)
  /\ UNCHANGED <<pending, exit, responder, world, fields>>

\* thread.join(timeout=2) gives up on a thread that has not ended.
JoinThread ==
  /\ pc = "join"
  /\ IF idx \in threads THEN Moves(pc, idx + 1) ELSE Moves("clearServers", idx)

ClearServers ==
  /\ pc = "clearServers"
  /\ servers' = {}
  /\ Goto("clearThreads", idx)
  /\ UNCHANGED <<pending, exit, responder, world, tempdir, mediamtx,
                 publishers, threads, discovery, serverVars>>

ClearThreads ==
  /\ pc = "clearThreads"
  /\ threads' = {}
  /\ Goto("term", FirstTerminated)
  /\ UNCHANGED <<pending, exit, responder, world, tempdir, mediamtx,
                 publishers, servers, discovery, serverVars>>

\* The lists run out: after the publishers they are cleared, and without a
\* MediaMTX there is nothing more to terminate.
NothingToTerminate ==
  /\ pc = "term"
  /\ ~Referenced(idx)
  /\ IF idx = MediaMTX THEN Moves("cleanup", idx) ELSE Moves("clearPublishers", idx)

\* Where the main thread goes when _terminate(idx) returns.
AfterTerminate ==
  IF idx = MediaMTX THEN Goto("dropMediaMTX", idx) ELSE Goto("term", idx + 1)

\* Having sent SIGINT, wait for the child.
ForgetSignalled == AfterTerminate     \* faulty
AwaitSignalled  == Goto("termWait", idx)

\* _terminate: poll(), then SIGINT to a child that is still there.
Terminate ==
  /\ pc = "term"
  /\ Referenced(idx)
  /\ \/ /\ child[idx] = "exited"
        /\ AfterTerminate
        /\ UNCHANGED child
     \/ /\ child[idx] # "exited"
        /\ child' = [child EXCEPT ![idx] = IF @ = "running" THEN "interrupted" ELSE @]
        /\ AwaitSignalled
  /\ UNCHANGED <<pending, exit, responder, port, fields, serverVars>>

\* process.wait(timeout=5) returns, or expires and kill() follows.
AwaitInterrupted ==
  /\ pc = "termWait"
  /\ \/ /\ child[idx] = "exited"
        /\ AfterTerminate
        /\ UNCHANGED child
     \/ /\ child[idx] # "exited"
        /\ child' = [child EXCEPT ![idx] = "killed"]
        /\ Goto("killWait", idx)
  /\ UNCHANGED <<pending, exit, responder, port, fields, serverVars>>

\* Faulty: goes on with the next child when the last wait expires as well.
IgnoreUnkillable ==
  /\ pc = "killWait"
  /\ AfterTerminate
  /\ UNCHANGED <<pending, exit, responder, world, fields, serverVars>>

\* The second wait: its TimeoutExpired leaves stop() and the process.
AwaitKilled ==
  /\ pc = "killWait"
  /\ \/ /\ child[idx] = "exited"
        /\ AfterTerminate
        /\ UNCHANGED <<pending, exit, responder, world, fields, serverVars>>
     \/ /\ child[idx] # "exited"
        /\ Leave("traceback")

ClearPublishers ==
  /\ pc = "clearPublishers"
  /\ publishers' = {}
  /\ Goto("term", MediaMTX)
  /\ UNCHANGED <<pending, exit, responder, world, tempdir, mediamtx, servers,
                 threads, discovery, serverVars>>

DropMediaMTX ==
  /\ pc = "dropMediaMTX"
  /\ mediamtx' = FALSE
  /\ Goto("cleanup", idx)
  /\ UNCHANGED <<pending, exit, responder, world, tempdir, publishers,
                 servers, threads, discovery, serverVars>>

\* An OSError of cleanup() is not caught either.
Cleanup ==
  /\ pc = "cleanup"
  /\ \/ tempdir /\ Leave("traceback")
     \/ /\ tempdir' = FALSE
        /\ Goto("stopped", idx)
        /\ UNCHANGED <<pending, exit, responder, world, mediamtx, publishers,
                       servers, threads, discovery, serverVars>>

GiveUp  == "stopped"                  \* faulty
GoRound == "guard"

\* The handler in _stop_after_interrupts: log and go round again.
ContinueStop == pc = "warn" /\ Moves(GoRound, idx)

\* stop() has returned; the pending exception decides main()'s status.
Return ==
  /\ pc = "stopped"
  /\ Leave(CASE pending = "childExited" -> "error"
             [] pending = "interrupt"   -> "interrupted"
             [] OTHER                   -> "ok")

MainThread ==
  /\ \/ LoadConfig \/ RequireBinaries \/ MakeTempdir \/ SpawnMediaMTX
     \/ PortPoll \/ PortConnect \/ StartPublisher \/ StartServer
     \/ StartDiscovery \/ Started \/ PollChild \/ Sleep \/ ShutdownRequested
     \/ EnterStop \/ StopDiscovery \/ JoinDiscovery \/ ShutdownServer
     \/ AwaitShutdown \/ CloseServer \/ JoinThread \/ ClearServers
     \/ ClearThreads \/ NothingToTerminate \/ Terminate \/ AwaitInterrupted
     \/ AwaitKilled \/ ClearPublishers \/ DropMediaMTX \/ Cleanup
     \/ ContinueStop \/ Return
  /\ UNCHANGED interrupts

-----------------------------------------------------------------------------
(* Everybody else.                                                         *)

\* KeyboardInterrupt is raised at the statement the main thread is at: the
\* loop has a handler, stop() is retried, anything else is not protected.
Interrupt ==
  /\ interrupts < MaxInterrupts
  /\ interrupts' = interrupts + 1
  /\ \/ /\ pc \in StartPcs \cup GapPcs \cup {"stopped"}
        /\ Leave("interrupted")
     \/ /\ \/ pc \in LoopPcs /\ pc' = "requested" /\ pending' = pending
           \/ pc = "requested" /\ pc' = "guard" /\ pending' = "interrupt"
           \/ pc \in StopPcs /\ pc' = "warn" /\ pending' = pending
        /\ UNCHANGED <<idx, exit, responder, world, fields, serverVars>>

\* SIGKILL or SIGTERM: neither has a handler.
Kill ==
  /\ pc # "exited"
  /\ Leave("killed")
  /\ UNCHANGED interrupts

ServerThread(d) ==
  /\ pc # "exited"
  /\ ServingThread(d)
  /\ UNCHANGED <<pc, idx, pending, exit, interrupts, responder, world, fields>>

\* The discovery thread ends: told to, or on an error of its own.
ResponderEnds ==
  /\ responder \in {"running", "stopping"}
  /\ responder' = "ended"
  /\ UNCHANGED <<pc, idx, pending, exit, interrupts, world, fields, serverVars>>

\* A child exits, after a signal or by itself, also when the runtime is gone.
ChildExits(c) ==
  /\ child[c] \in Alive
  /\ child' = [child EXCEPT ![c] = "exited"]
  /\ port' = IF c = MediaMTX /\ port = "ours" THEN "free" ELSE port
  /\ UNCHANGED <<pc, idx, pending, exit, interrupts, responder, fields, serverVars>>

MediaMTXListens ==
  /\ child[MediaMTX] \in Alive
  /\ port = "free"
  /\ port' = "ours"
  /\ UNCHANGED <<pc, idx, pending, exit, interrupts, responder, child, fields,
                 serverVars>>

\* MediaMTX cannot bind a port that another program holds, and gives up.
MediaMTXCannotBind == port = "foreign" /\ ChildExits(MediaMTX)

\* The process is gone and so are all its children.
Terminated ==
  /\ pc = "exited"
  /\ \A c \in Children : child[c] \notin Alive
  /\ UNCHANGED vars

Next ==
  \/ MainThread
  \/ Interrupt
  \/ Kill
  \/ \E d \in Devices : ServerThread(d)
  \/ ResponderEnds
  \/ \E c \in Children : ChildExits(c)
  \/ MediaMTXListens
  \/ Terminated

Spec == Init /\ [][Next]_vars

Fairness ==
  /\ WF_vars(MainThread)
  /\ \A d \in Devices : WF_vars(ServerThread(d))
  /\ WF_vars(MediaMTXCannotBind)

FairSpec == Spec /\ Fairness

-----------------------------------------------------------------------------
(* Safety.                                                                 *)

ChildStates == {"none", "running", "interrupted", "killed", "exited"}

\* The position of every loop stays inside what the loop iterates over.
PositionOK ==
  /\ idx \in Int
  /\ pc = "portPoll" => idx \in 0 .. MaxTries
  /\ pc = "portConnect" => idx \in 0 .. MaxTries - 1
  /\ pc = "publish" => idx \in Publishers
  /\ pc \in {"poll", "termWait", "killWait"} => idx \in Children
  /\ pc = "term" => idx \in 0 .. NumProfiles + 1
  /\ pc \in {"serve", "srvWait", "srvClose"} => idx \in Devices
  /\ pc \in {"srv", "join"} => idx \in 1 .. NumDevices + 1

WorldOK ==
  /\ pending \in {"none", "childExited", "interrupt"}
  /\ exit \in {"none"} \cup Statuses
  /\ interrupts \in 0 .. MaxInterrupts
  /\ child \in [Children -> ChildStates]
  /\ port \in {"free", "ours", "foreign"}
  /\ responder \in {"none", "running", "stopping", "ended"}

FieldsOK ==
  /\ tempdir \in BOOLEAN /\ mediamtx \in BOOLEAN /\ discovery \in BOOLEAN
  /\ publishers \in SUBSET Publishers
  /\ servers \in SUBSET Devices
  /\ threads \in SUBSET Devices

\* Type invariant, with the bounds of the loops over config.profiles,
\* self._publishers, self._servers and self._threads.
TypeOK ==
  /\ pc \in Pcs /\ PositionOK
  /\ WorldOK
  /\ FieldsOK
  /\ ServerTypeOK

\* However often stop() was interrupted and run again, once it has returned
\* nothing of this run is left: no child lives, no endpoint listens or
\* serves, the responder was told to stop, the directory is removed.
StopReleasesEverything ==
  pc = "stopped" =>
    /\ \A c \in Children : child[c] \notin Alive
    /\ \A d \in Devices : socket[d] # "open" /\ loop[d] \in {"none", "ended"}
    /\ responder # "running"
    /\ ~tempdir

\* stop() only reaches children through self._publishers and self._mediamtx:
\* as long as the process is there, no live child drops out of them, at
\* whatever statement an interrupt makes stop() start over.
ChildrenTracked ==
  pc # "exited" => \A c \in Children : child[c] \in Alive => Referenced(c)

\* server_close() never pulls the socket away under a thread that is still
\* in, or on its way into, serve_forever.
NoCloseUnderServe ==
  pc # "exited" =>
    \A d \in Devices : socket[d] = "closed" => loop[d] = "ended"

\* A client that reaches an ONVIF endpoint or the responder does so only
\* after MediaMTX and every publisher behind the advertised URIs was started.
ServedAfterMedia ==
  (responder # "none" \/ \E d \in Devices : socket[d] # "none") =>
    \A c \in Children : child[c] # "none"

\* The runtime signals a child in this step.
Signals(c) ==
  /\ child'[c] \in {"interrupted", "killed"}
  /\ child'[c] # child[c]

\* A step of stop() signals a child only when nobody can be sent to it any
\* more, MediaMTX only when no publisher is connected to it, and SIGKILL
\* follows only a SIGINT.
SignalsInOrder ==
  \A c \in Children : Signals(c) =>
    /\ \A d \in Devices : socket[d] # "open"
    /\ responder # "running"
    /\ c = MediaMTX => \A p \in Publishers : child[p] \notin Alive
    /\ child'[c] = "killed" => child[c] = "interrupted"

OrderlyShutdown == [][SignalsInOrder]_vars

\* An interrupt of stop(), or of the handler that has caught one, does not
\* end the process: the warning logged there says
\* "shutdown_interrupted_continuing".  Not so: see the README.
ShutdownContinues ==
  [][(pc \in StopPcs \cup {"warn"} /\ interrupts' # interrupts)
       => pc' # "exited"]_vars

-----------------------------------------------------------------------------
(* Liveness, under FairSpec: MaxInterrupts bounds how often the user        *)
(* interrupts, every wait in stop() is either bounded or fair.              *)

\* A child that dies while the loop polls ends the run.
DeathEndsRun ==
  (pc \in LoopPcs /\ \E c \in Children : child[c] = "exited") ~> (pc = "exited")

\* A KeyboardInterrupt, wherever it hits, ends the run; stop() never blocks
\* for good on serve_forever.
InterruptEndsRun == (interrupts > 0) ~> (pc = "exited")

\* _wait_for_port takes a foreign listener for MediaMTX; the poll loop still
\* notices that MediaMTX could not bind.
ForeignPortEndsRun == (port = "foreign") ~> (pc = "exited")

-----------------------------------------------------------------------------
(* Refinement.                                                             *)

Phase ==
  IF pc \in StartPcs THEN "starting"
  ELSE IF pc \in LoopPcs THEN "serving"
  ELSE IF pc = "exited" THEN "ended" ELSE "stopping"
Spawned == {c \in Children : child[c] # "none"}
Living  == {c \in Children : child[c] \in Alive}

Abstract == INSTANCE Supervisor WITH
  phase <- Phase, spawned <- Spawned, alive <- Living, verdict <- exit

\* What main()'s exit status promises about the children: Supervisor.
SupervisorSpec == Abstract!Spec

=============================================================================
