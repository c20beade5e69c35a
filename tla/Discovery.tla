----------------------------- MODULE Discovery -----------------------------
(***************************************************************************)
(* DiscoveryResponder: the thread that answers WS-Discovery datagrams for  *)
(* all devices, against the thread that starts and stops it (the runtime's *)
(* main thread, which runs stop() again when it was interrupted) and a     *)
(* network that delivers datagrams in any order, twice or not at all.      *)
(*                                                                         *)
(* A datagram is what its sender means by it, which _run does not know,    *)
(* and what _run looks for in its text: which of the two words and which   *)
(* devices' uuids occur.  A reply of another responder contains the word   *)
(* of the request and the uuid of a device, and means no request.          *)
(*                                                                         *)
(* inbox keeps every datagram the socket ever received and taken counts    *)
(* those read, so that answers[i] can tell which devices answered the      *)
(* i-th.                                                                   *)
(***************************************************************************)
EXTENDS Naturals, Sequences

CONSTANTS
  NumDevices,          \* devices of the configuration, in its order
  InterfaceIsAddress,  \* interface_host is an IP address, not a host name
  Traffic,             \* the datagrams that may come in
  MaxDatagrams,        \* bound: datagrams delivered
  MaxInterrupts        \* bound: interrupted calls of stop()

ASSUME NumDevicesAssumption == NumDevices \in Nat \ {0}
ASSUME InterfaceAssumption == InterfaceIsAddress \in BOOLEAN
ASSUME BoundsAssumption == MaxDatagrams \in Nat /\ MaxInterrupts \in Nat

Devices   == 1 .. NumDevices
Datagrams ==
  {m \in [means : {"Probe", "Resolve", "other"},
          words : SUBSET {"Probe", "Resolve"}, uuids : SUBSET Devices] :
     m.means = "other" \/ m.means \in m.words}

ASSUME TrafficAssumption == Traffic \subseteq Datagrams

VARIABLES
  caller,      \* where start() or stop() is
  interrupts,  \* calls of stop() cut short so far
  flag,        \* self._stop is set
  socketRef,   \* self._socket is not None
  socket,      \* the operating system's view of the socket
  pc,          \* where the thread is
  pos,         \* the device the reply loop is at
  inbox, taken, answers,
  fault        \* a call of the operating system failed on an open socket

callerVars == <<caller, interrupts, flag>>
netVars    == <<inbox, taken, answers>>
vars == <<callerVars, socketRef, socket, pc, pos, netVars, fault>>

Init ==
  /\ caller = "new" /\ interrupts = 0 /\ flag = FALSE
  /\ socketRef = FALSE /\ socket = "none"
  /\ pc = "none" /\ pos = 0
  /\ inbox = <<>> /\ taken = 0 /\ answers = <<>>
  /\ fault = FALSE

-----------------------------------------------------------------------------
(* The calling thread: start(), stop().                                    *)

Start ==
  /\ caller = "new"
  /\ caller' = "running" /\ pc' = "create"
  /\ UNCHANGED <<interrupts, flag, socketRef, socket, pos, netVars, fault>>

SetStop ==
  /\ caller = "running"
  /\ caller' = "close" /\ flag' = TRUE
  /\ UNCHANGED <<interrupts, socketRef, socket, pc, pos, netVars, fault>>

\* There may be no self._socket yet.
CloseSocket ==
  /\ caller = "close"
  /\ caller' = "join"
  /\ socket' = IF socketRef THEN "closed" ELSE socket
  /\ UNCHANGED <<interrupts, flag, socketRef, pc, pos, netVars, fault>>

\* join(timeout=2) returns whether or not the thread has ended.
Join ==
  /\ caller = "join"
  /\ caller' = "stopped"
  /\ UNCHANGED <<interrupts, flag, socketRef, socket, pc, pos, netVars, fault>>

\* An interrupt takes the runtime out of stop(); it calls stop() again.
InterruptStop ==
  /\ caller \in {"close", "join"}
  /\ interrupts < MaxInterrupts
  /\ caller' = "running" /\ interrupts' = interrupts + 1
  /\ UNCHANGED <<flag, socketRef, socket, pc, pos, netVars, fault>>

Caller == Start \/ SetStop \/ CloseSocket \/ Join \/ InterruptStop

-----------------------------------------------------------------------------
(* The responder's thread.                                                 *)

Goes(at) ==
  /\ pc' = at
  /\ UNCHANGED <<callerVars, socketRef, socket, pos, netVars, fault>>

\* An OSError that _run does not catch, or catches to leave its loop: on a
\* socket that stop() has closed, or because the system refuses the call.
Fails ==
  /\ pc' = "ended"
  /\ fault' = (fault \/ socket # "closed")
  /\ UNCHANGED <<callerVars, socketRef, socket, pos, netVars>>

CreateSocket ==
  /\ pc = "create"
  /\ \/ Fails
     \/ /\ socket' = "created" /\ pc' = "publish"
        /\ UNCHANGED <<callerVars, socketRef, pos, netVars, fault>>

\* self._socket = sock: from here on stop() can close it.
PublishSocket ==
  /\ pc = "publish"
  /\ socketRef' = TRUE /\ pc' = "bind"
  /\ UNCHANGED <<callerVars, socket, pos, netVars, fault>>

BindSocket ==
  /\ pc = "bind"
  /\ \/ Fails
     \/ /\ socket # "closed"
        /\ socket' = "bound" /\ pc' = "group"
        /\ UNCHANGED <<callerVars, socketRef, pos, netVars, fault>>

\* inet_aton raises on a host name, which is no fault of the system.
JoinGroup ==
  /\ pc = "group"
  /\ \/ ~InterfaceIsAddress /\ Goes("ended")
     \/ InterfaceIsAddress /\ Fails
     \/ InterfaceIsAddress /\ socket # "closed" /\ Goes("test")

IgnoreStop  == TRUE                   \* faulty
KeepServing == ~flag

TestStop ==
  /\ pc = "test"
  /\ IF KeepServing THEN Goes("recv") ELSE Goes("ended")

EndOnTimeout == "ended"               \* faulty, as TimeoutError is an OSError
AfterTimeout == "test"

NothingQueued == taken = Len(inbox)

\* The socket's timeout passes: nothing came in, or stop() closed it.
ReceiveTimeout ==
  /\ pc = "recv"
  /\ NothingQueued \/ socket = "closed"
  /\ Goes(AfterTimeout)

ReceiveError == pc = "recv" /\ Fails

Receive ==
  /\ pc = "recv"
  /\ socket # "closed"
  /\ taken < Len(inbox)
  /\ taken' = taken + 1 /\ pos' = 1 /\ pc' = "reply"
  /\ UNCHANGED <<callerVars, socketRef, socket, inbox, answers, fault>>

\* Whether device d answers: the Probe test comes first.
ResolveAll(m, d) == m.words # {}      \* faulty
Answers(m, d) ==
  \/ "Probe" \in m.words
  \/ "Resolve" \in m.words /\ d \in m.uuids

OnePastLast == NumDevices + 1         \* faulty
LastDevice  == NumDevices

\* One iteration of the loop over the devices; sendto may fail.
Reply ==
  /\ pc = "reply" /\ pos <= LastDevice
  /\ \/ ~Answers(inbox[taken], pos) /\ answers' = answers
        /\ pos' = pos + 1
        /\ UNCHANGED <<callerVars, socketRef, socket, pc, inbox, taken, fault>>
     \/ /\ Answers(inbox[taken], pos) /\ socket # "closed"
        /\ answers' = [answers EXCEPT ![taken] = Append(@, pos)]
        /\ pos' = pos + 1
        /\ UNCHANGED <<callerVars, socketRef, socket, pc, inbox, taken, fault>>
     \/ Answers(inbox[taken], pos) /\ Fails

Replied == pc = "reply" /\ pos > LastDevice /\ Goes("test")

Thread ==
  \/ CreateSocket \/ PublishSocket \/ BindSocket \/ JoinGroup \/ TestStop
  \/ ReceiveTimeout \/ ReceiveError \/ Receive \/ Reply \/ Replied

-----------------------------------------------------------------------------
(* The network: a bound socket receives.                                   *)

Deliver(m) ==
  /\ socket = "bound"
  /\ Len(inbox) < MaxDatagrams
  /\ inbox' = Append(inbox, m) /\ answers' = Append(answers, <<>>)
  /\ UNCHANGED <<callerVars, socketRef, socket, pc, pos, taken, fault>>

\* stop() has returned and the thread is gone.
Terminated == caller = "stopped" /\ pc = "ended" /\ UNCHANGED vars

Next ==
  \/ Caller
  \/ Thread
  \/ \E m \in Traffic : Deliver(m)
  \/ Terminated

Spec == Init /\ [][Next]_vars

\* The thread runs; the socket's one second timeout makes every recv return.
FairSpec == Spec /\ WF_vars(Thread)

-----------------------------------------------------------------------------
(* Properties.                                                             *)

\* Type invariant.
TypeOK ==
  /\ caller \in {"new", "running", "close", "join", "stopped"}
  /\ interrupts \in 0 .. MaxInterrupts
  /\ flag \in BOOLEAN /\ socketRef \in BOOLEAN /\ fault \in BOOLEAN
  /\ socket \in {"none", "created", "bound", "closed"}
  /\ pc \in {"none", "create", "publish", "bind", "group", "test", "recv",
             "reply", "ended"}
  /\ pos \in 0 .. NumDevices + 1
  /\ inbox \in Seq(Traffic) /\ Len(inbox) <= MaxDatagrams
  /\ taken \in 0 .. Len(inbox)
  /\ answers \in Seq(Seq(Devices)) /\ Len(answers) = Len(inbox)

\* What the sender of m wants: a Probe is for every device, a Resolve for the
\* one it names, and any other message for none.
Wanted(m) ==
  {d \in Devices : m.means = "Probe" \/ (m.means = "Resolve" /\ d \in m.uuids)}

\* The text of m does not look like anything but what it means.
Clear(m) == m.words \subseteq {m.means}

\* Each device at most once, and in the order of the configuration.
InOrder(seq) == \A k, l \in 1 .. Len(seq) : k < l => seq[k] < seq[l]

\* seq answers m: all that are wanted do, and no other unless m is unclear.
InFull(m, seq) ==
  LET answering == {seq[k] : k \in 1 .. Len(seq)} IN
  InOrder(seq) /\ Wanted(m) \subseteq answering /\ (Clear(m) => answering = Wanted(m))

\* The responder is never half way through two datagrams: each one it has
\* read is answered in full, by the devices that its sender wants and in
\* their order, before it reads the next one (discovery.py:50-57); only the
\* last may be cut short, by the end of the thread.
AnsweredInFull ==
  \A i \in 1 .. Len(inbox) :
    /\ i < taken => InFull(inbox[i], answers[i])
    /\ i = taken => \/ pc \in {"reply", "ended"}
                    \/ InFull(inbox[i], answers[i])
    /\ i > taken => answers[i] = <<>>

\* When stop() is past the close of the socket, even if it found none to
\* close, nothing is answered any more, although the thread may still run.
NoReplyAfterStop ==
  [][(caller \in {"join", "stopped"}) =>
       \A i \in 1 .. Len(inbox) : answers'[i] = answers[i]]_vars

\* Discovery does not fall silent behind the runtime's back: the thread ends
\* only for stop() or for a fault of the system.  The help text of
\* --interface ("Advertised interface/IP/host.") allows a host name.
ServesUntilStopped == pc = "ended" => flag \/ fault

\* Once asked to, the thread ends, also if stop() came before its socket.
StopEndsThread == (flag /\ pc # "none") ~> (pc = "ended")

\* Until stop() is called every datagram that the socket received is answered
\* in the end, to the last device wanted, however many came in meanwhile and
\* however often nothing did: the one second timeout ends a recvfrom and not
\* the thread (discovery.py:44-48).  A failing call of the system is excused.
EveryDatagramAnswered ==
  \A i \in 1 .. MaxDatagrams :
    (Len(inbox) >= i) ~> \/ flag \/ fault
                         \/ taken >= i /\ InFull(inbox[i], answers[i])

=============================================================================
