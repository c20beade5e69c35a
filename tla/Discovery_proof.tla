-------------------------- MODULE Discovery_proof --------------------------
(***************************************************************************)
(* Proofs about Discovery, for every number of devices and every bound.    *)
(* The invariant has three parts besides the types: how far the thread is  *)
(* with its datagrams, what it knows of its socket, and what has become of *)
(* both once stop() was called.                                            *)
(***************************************************************************)
EXTENDS Discovery, TLAPS

\* The devices that answer m.
Answering(m) == {d \in Devices : Answers(m, d)}

\* They, in the order of the configuration and once each.
Ordered(S, seq) == {seq[k] : k \in 1 .. Len(seq)} = S /\ InOrder(seq)

\* The devices before the one the reply loop is at that answer m.
Passed(m, at) == {d \in Answering(m) : d < at}

\* Every datagram read was answered in full, but for the one being answered
\* and the one the thread died over.
AnswerInv ==
  /\ pc = "reply" => taken > 0 /\ pos > 0
  /\ \A i \in 1 .. Len(inbox) :
       /\ i < taken => Ordered(Answering(inbox[i]), answers[i])
       /\ i = taken /\ pc = "reply" => Ordered(Passed(inbox[i], pos), answers[i])
       /\ i = taken /\ pc \notin {"reply", "ended"} => Ordered(Answering(inbox[i]), answers[i])
       /\ i > taken => answers[i] = <<>>

Loop == {"test", "recv", "reply"}

\* The thread has told stop() of its socket before it binds it; once stop()
\* is past the close, the thread cannot answer.
SocketInv ==
  /\ caller = "new" => pc = "none"
  /\ pc \in {"bind", "group"} \cup Loop => socketRef
  /\ caller \in {"close", "join", "stopped"} => flag
  /\ caller \in {"join", "stopped"} /\ pc \in {"recv", "reply"} => socket = "closed"

\* Why the thread has ended.
EndInv ==
  /\ socket = "closed" => flag
  /\ ServesUntilStopped

DiscoveryInv == TypeOK /\ AnswerInv /\ SocketInv

-----------------------------------------------------------------------------
(* The order of the answers.                                               *)

\* Nobody answers before the first device.
LEMMA NobodyPassed == \A m \in Traffic : Ordered(Passed(m, 1), <<>>)
BY DEF Ordered, InOrder, Passed, Answering, Devices

\* A device that does not answer changes nothing.
LEMMA Skipped ==
  ASSUME NEW m \in Traffic, NEW at \in Devices, ~Answers(m, at)
  PROVE  Passed(m, at + 1) = Passed(m, at)
BY NumDevicesAssumption DEF Passed, Answering, Answers, Devices

\* One that does is the last in the order so far.
LEMMA Appended ==
  ASSUME NEW m \in Traffic, NEW at \in Devices, Answers(m, at),
         NEW seq \in Seq(Devices), Ordered(Passed(m, at), seq)
  PROVE  Ordered(Passed(m, at + 1), Append(seq, at))
<1> DEFINE new == Append(seq, at)
<1>1. /\ Len(new) = Len(seq) + 1 /\ Len(seq) \in Nat
      /\ \A k \in 1 .. Len(seq) : new[k] = seq[k]
      /\ new[Len(new)] = at
  OBVIOUS
<1>2. Passed(m, at + 1) = Passed(m, at) \cup {at}
  BY NumDevicesAssumption DEF Passed, Answering, Answers, Devices
<1>3. \A k \in 1 .. Len(seq) : seq[k] < at
  BY DEF Ordered, InOrder, Passed
<1>4. {new[k] : k \in 1 .. Len(new)} = {seq[k] : k \in 1 .. Len(seq)} \cup {at}
  BY <1>1
<1>5. \A k, l \in 1 .. Len(new) : k < l => new[k] < new[l]
  BY <1>1, <1>3 DEF Ordered, InOrder
<1> HIDE DEF new
<1> QED
  BY <1>2, <1>4, <1>5 DEF Ordered, InOrder, new

\* After the last device all have answered that should.
LEMMA AllPassed ==
  ASSUME NEW m \in Traffic, NEW at \in Nat, at > NumDevices
  PROVE  Passed(m, at) = Answering(m)
BY NumDevicesAssumption DEF Passed, Answering, Devices

-----------------------------------------------------------------------------
(* The invariant.                                                          *)

LEMMA InitDiscoveryInv == Init => DiscoveryInv
<1> SUFFICES ASSUME Init PROVE DiscoveryInv
  OBVIOUS
<1> USE NumDevicesAssumption, BoundsAssumption DEF Init
<1>1. /\ inbox \in Seq(Traffic) /\ answers \in Seq(Seq(Devices))
      /\ Len(inbox) = 0 /\ Len(answers) = 0
  OBVIOUS
<1>2. /\ inbox \in Seq(Traffic) /\ Len(inbox) <= MaxDatagrams
      /\ taken \in 0 .. Len(inbox)
      /\ answers \in Seq(Seq(Devices)) /\ Len(answers) = Len(inbox)
  <2>1. taken = 0 /\ MaxDatagrams \in Nat
    OBVIOUS
  <2> QED
    BY ONLY <1>1, <2>1
<1>3. /\ interrupts \in 0 .. MaxInterrupts
      /\ pos \in 0 .. NumDevices + 1
  <2>1. /\ interrupts = 0 /\ MaxInterrupts \in Nat
        /\ pos = 0 /\ NumDevices \in Nat
    OBVIOUS
  <2> QED
    BY ONLY <2>1
<1>4. TypeOK
  BY <1>2, <1>3 DEF TypeOK
<1>5. AnswerInv
  BY <1>1 DEF AnswerInv
<1>6. SocketInv
  BY DEF SocketInv, Loop
<1> QED
  BY <1>4, <1>5, <1>6 DEF DiscoveryInv

\* Types.
LEMMA TypeStep == TypeOK /\ AnswerInv /\ [Next]_vars => TypeOK'
<1> SUFFICES ASSUME TypeOK, AnswerInv, [Next]_vars PROVE TypeOK'
  OBVIOUS
<1> USE NumDevicesAssumption, BoundsAssumption DEF TypeOK, callerVars, netVars
<1>1. CASE Caller
  <2>1. CASE Start \/ SetStop \/ Join
    BY <2>1 DEF Start, SetStop, Join
  <2>2. CASE CloseSocket
    BY <2>2 DEF CloseSocket
  <2>3. CASE InterruptStop
    BY <2>3 DEF InterruptStop
  <2> QED
    BY <1>1, <2>1, <2>2, <2>3 DEF Caller
<1>2. CASE CreateSocket \/ PublishSocket \/ BindSocket \/ JoinGroup \/ TestStop
  BY <1>2 DEF CreateSocket, PublishSocket, BindSocket, JoinGroup, TestStop, Fails, Goes
<1>3. CASE ReceiveTimeout \/ ReceiveError \/ Replied
  BY <1>3 DEF ReceiveTimeout, ReceiveError, Replied, Fails, Goes, AfterTimeout
<1>4. CASE Receive
  BY <1>4 DEF Receive
<1>5. CASE Reply
  <2>1. pos \in Devices /\ taken \in 1 .. Len(answers)
    BY <1>5 DEF Reply, AnswerInv, LastDevice, Devices
  <2>2. Append(answers[taken], pos) \in Seq(Devices)
    BY <2>1
  <2> DEFINE longer == [answers EXCEPT ![taken] = Append(@, pos)]
  <2>3. longer \in Seq(Seq(Devices)) /\ Len(longer) = Len(answers)
    BY <2>1, <2>2
  <2>4. CASE Fails
    BY <2>4 DEF Fails
  <2>5. CASE /\ answers' \in Seq(Seq(Devices)) /\ Len(answers') = Len(answers)
             /\ pos' = pos + 1
             /\ UNCHANGED <<callerVars, socketRef, socket, pc, inbox, taken, fault>>
    BY <2>1, <2>5 DEF Devices
  <2> QED
    BY <1>5, <2>3, <2>4, <2>5 DEF Reply, LastDevice
<1>6. ASSUME NEW m \in Traffic, Deliver(m) PROVE TypeOK'
  BY <1>6 DEF Deliver
<1>7. CASE UNCHANGED vars
  BY <1>7 DEF vars
<1> QED
  BY <1>1, <1>2, <1>3, <1>4, <1>5, <1>6, <1>7 DEF Next, Thread, Terminated

\* Steps that leave the datagrams and the reply loop alone.
LEMMA AnswersKept ==
  ASSUME TypeOK, AnswerInv, UNCHANGED netVars,
         \/ UNCHANGED <<pc, pos>>
         \/ pc # "reply" /\ pc' # "reply" /\ pc # "ended"
         \/ pc' = "ended"
  PROVE  AnswerInv'
BY DEF TypeOK, AnswerInv, netVars

\* How far the thread is with its datagrams.
LEMMA AnswerStep == DiscoveryInv /\ [Next]_vars => AnswerInv'
<1> SUFFICES ASSUME TypeOK, AnswerInv, SocketInv, [Next]_vars PROVE AnswerInv'
  BY DEF DiscoveryInv
<1> USE DEF callerVars
<1>1. CASE Caller
  <2>1. UNCHANGED netVars
    BY <1>1 DEF Caller, Start, SetStop, CloseSocket, Join, InterruptStop
  <2>2. CASE UNCHANGED <<pc, pos>>
    BY <2>1, <2>2, AnswersKept
  <2>3. CASE Start
    BY <2>3, <2>1, AnswersKept DEF Start, SocketInv
  <2> QED
    BY <1>1, <2>2, <2>3 DEF Caller, SetStop, CloseSocket, Join, InterruptStop
<1>2. CASE CreateSocket \/ PublishSocket \/ BindSocket \/ JoinGroup \/ TestStop
  <2>1. /\ pc \notin {"reply", "ended"} /\ pc' # "reply"
        /\ UNCHANGED netVars
    BY <1>2 DEF CreateSocket, PublishSocket, BindSocket, JoinGroup, TestStop, Fails, Goes,
                KeepServing
  <2> QED
    BY <2>1, AnswersKept
<1>3. CASE ReceiveTimeout \/ ReceiveError
  BY <1>3, AnswersKept DEF ReceiveTimeout, ReceiveError, Fails, Goes, AfterTimeout
<1>4. CASE Receive
  <2>1. /\ pc = "recv" /\ pc' = "reply" /\ taken' = taken + 1 /\ pos' = 1
        /\ UNCHANGED <<inbox, answers>>
        /\ taken \in Nat /\ Len(inbox) \in Nat /\ taken + 1 \in 1 .. Len(inbox)
        /\ \A i \in 1 .. Len(inbox) : inbox[i] \in Traffic
    BY <1>4 DEF Receive, TypeOK
  <2>2. ASSUME NEW i \in 1 .. Len(inbox), i < taken + 1
        PROVE  Ordered(Answering(inbox[i]), answers[i])
    <3>1. CASE i < taken
      BY <3>1 DEF AnswerInv
    <3>2. CASE i = taken
      BY <2>1, <3>2 DEF AnswerInv
    <3> QED
      BY <2>1, <2>2, <3>1, <3>2
  <2>3. ASSUME NEW i \in 1 .. Len(inbox), i = taken + 1
        PROVE  Ordered(Passed(inbox[i], 1), answers[i])
    BY <2>1, <2>3, NobodyPassed DEF AnswerInv
  <2>4. ASSUME NEW i \in 1 .. Len(inbox), i > taken + 1
        PROVE  answers[i] = <<>>
    BY <2>1, <2>4 DEF AnswerInv
  <2> QED
    BY <2>1, <2>2, <2>3, <2>4 DEF AnswerInv
<1>5. CASE Reply
  <2> DEFINE m == inbox[taken]
  <2>1. /\ pos \in Devices /\ taken \in 1 .. Len(inbox) /\ m \in Traffic
        /\ answers[taken] \in Seq(Devices)
        /\ Ordered(Passed(m, pos), answers[taken])
    BY <1>5 DEF Reply, TypeOK, AnswerInv, LastDevice, Devices
  <2>2. CASE ~Answers(m, pos) /\ UNCHANGED <<pc, netVars>> /\ pos' = pos + 1
    BY <1>5, <2>1, <2>2, Skipped DEF Reply, TypeOK, AnswerInv, netVars, Devices
  <2>3. CASE /\ Answers(m, pos) /\ UNCHANGED <<pc, inbox, taken>> /\ pos' = pos + 1
             /\ answers' = [answers EXCEPT ![taken] = Append(@, pos)]
    <3>1. answers'[taken] = Append(answers[taken], pos)
      BY <2>1, <2>3 DEF TypeOK
    <3>2. \A i \in 1 .. Len(inbox) : i # taken => answers'[i] = answers[i]
      BY <2>3 DEF TypeOK
    <3>3. Ordered(Passed(m, pos + 1), answers'[taken])
      BY <2>1, <2>3, <3>1, Appended
    <3> QED
      BY <1>5, <2>1, <2>3, <3>2, <3>3 DEF Reply, TypeOK, AnswerInv, Devices
  <2>4. CASE Fails
    BY <2>4, AnswersKept DEF Fails
  <2> QED
    BY <1>5, <2>2, <2>3, <2>4 DEF Reply, netVars
<1>6. CASE Replied
  <2>1. /\ taken \in 1 .. Len(inbox) /\ inbox[taken] \in Traffic
        /\ pos \in Nat /\ pos > NumDevices
    BY <1>6 DEF Replied, TypeOK, AnswerInv, LastDevice
  <2>2. Ordered(Answering(inbox[taken]), answers[taken])
    BY <1>6, <2>1, AllPassed DEF Replied, AnswerInv
  <2> QED
    BY <1>6, <2>1, <2>2 DEF Replied, Goes, netVars, TypeOK, AnswerInv
<1>7. ASSUME NEW m \in Traffic, Deliver(m) PROVE AnswerInv'
  <2>1. /\ Len(inbox') = Len(inbox) + 1 /\ Len(inbox) \in Nat
        /\ \A i \in 1 .. Len(inbox) : inbox'[i] = inbox[i] /\ answers'[i] = answers[i]
        /\ answers'[Len(inbox')] = <<>>
    BY <1>7 DEF Deliver, TypeOK
  <2>2. UNCHANGED <<pc, pos, taken>> /\ taken < Len(inbox')
    BY <1>7, <2>1 DEF Deliver, TypeOK
  <2>3. ASSUME NEW i \in 1 .. Len(inbox'), i # Len(inbox')
        PROVE  /\ i \in 1 .. Len(inbox)
               /\ inbox'[i] = inbox[i] /\ answers'[i] = answers[i]
    BY <2>1, <2>3
  <2>4. ASSUME NEW i \in 1 .. Len(inbox')
        PROVE
          /\ i < taken => Ordered(Answering(inbox'[i]), answers'[i])
          /\ i = taken /\ pc = "reply" => Ordered(Passed(inbox'[i], pos), answers'[i])
          /\ i = taken /\ pc \notin {"reply", "ended"}
               => Ordered(Answering(inbox'[i]), answers'[i])
          /\ i > taken => answers'[i] = <<>>
    <3>1. CASE i = Len(inbox')
      BY <2>1, <2>2, <3>1 DEF TypeOK
    <3>2. CASE i # Len(inbox')
      <4>1. /\ i \in 1 .. Len(inbox)
            /\ inbox'[i] = inbox[i] /\ answers'[i] = answers[i]
        BY <2>3, <3>2
      <4> QED
        BY <4>1 DEF AnswerInv
    <3> QED
      BY <3>1, <3>2
  <2>5. pc = "reply" => taken > 0 /\ pos > 0
    BY DEF AnswerInv
  <2> QED
    BY <2>2, <2>4, <2>5 DEF AnswerInv
<1>8. CASE UNCHANGED vars
  BY <1>8, AnswersKept DEF vars
<1> QED
  BY <1>1, <1>2, <1>3, <1>4, <1>5, <1>6, <1>7, <1>8 DEF Next, Thread, Terminated

\* What stop() and the thread know of the socket.
LEMMA SocketStep == TypeOK /\ SocketInv /\ [Next]_vars => SocketInv'
<1> SUFFICES ASSUME TypeOK, SocketInv, [Next]_vars PROVE SocketInv'
  OBVIOUS
<1> USE DEF SocketInv, Loop, callerVars
<1>1. CASE Caller
  BY <1>1 DEF Caller, Start, SetStop, CloseSocket, Join, InterruptStop, TypeOK
<1>2. CASE CreateSocket \/ PublishSocket \/ BindSocket \/ JoinGroup \/ TestStop
  BY <1>2 DEF CreateSocket, PublishSocket, BindSocket, JoinGroup, TestStop, Fails, Goes,
              KeepServing
<1>3. CASE ReceiveTimeout \/ ReceiveError \/ Receive \/ Reply \/ Replied
  BY <1>3 DEF ReceiveTimeout, ReceiveError, Receive, Reply, Replied, Fails, Goes, AfterTimeout
<1>4. ASSUME NEW m \in Traffic, Deliver(m) PROVE SocketInv'
  BY <1>4 DEF Deliver
<1>5. CASE UNCHANGED vars
  BY <1>5 DEF vars
<1> QED
  BY <1>1, <1>2, <1>3, <1>4, <1>5 DEF Next, Thread, Terminated

\* Where the thread is with its datagrams, and what stop() leaves it.
THEOREM DiscoveryInvariance == Spec => []DiscoveryInv
<1>1. DiscoveryInv /\ [Next]_vars => DiscoveryInv'
  BY TypeStep, AnswerStep, SocketStep DEF DiscoveryInv
<1> QED
  BY <1>1, InitDiscoveryInv, PTL DEF Spec

-----------------------------------------------------------------------------
(* What follows.                                                           *)

\* Types, and no reply loop that leaves the list of devices.
THEOREM DiscoveryTypeCorrect == Spec => []TypeOK
<1>1. DiscoveryInv => TypeOK
  BY DEF DiscoveryInv
<1> QED
  BY <1>1, DiscoveryInvariance, PTL

\* Each datagram is answered by the devices its sender wants, in order and
\* once each, before the next is read.
THEOREM Answered == Spec => []AnsweredInFull
<1>1. ASSUME NEW m \in Traffic, NEW seq, Ordered(Answering(m), seq) PROVE InFull(m, seq)
  <2>1. Wanted(m) \subseteq Answering(m)
    BY TrafficAssumption DEF Datagrams, Wanted, Answering, Answers
  <2>2. Clear(m) => Answering(m) = Wanted(m)
    BY TrafficAssumption DEF Datagrams, Clear, Wanted, Answering, Answers
  <2> QED
    BY <1>1, <2>1, <2>2 DEF Ordered, InFull
<1>2. DiscoveryInv => AnsweredInFull
  <2> SUFFICES ASSUME DiscoveryInv, NEW i \in 1 .. Len(inbox)
               PROVE  /\ i < taken => InFull(inbox[i], answers[i])
                      /\ i = taken => \/ pc \in {"reply", "ended"}
                                      \/ InFull(inbox[i], answers[i])
                      /\ i > taken => answers[i] = <<>>
    BY DEF AnsweredInFull
  <2>1. inbox[i] \in Traffic
    BY DEF DiscoveryInv, TypeOK
  <2> QED
    BY <2>1, <1>1 DEF DiscoveryInv, AnswerInv
<1> QED
  BY <1>2, DiscoveryInvariance, PTL

\* Once stop() is past the close of the socket, nothing is answered.
THEOREM SilentAfterStop == Spec => NoReplyAfterStop
<1> DEFINE Silent == caller \in {"join", "stopped"} =>
                       \A i \in 1 .. Len(inbox) : answers'[i] = answers[i]
<1>1. DiscoveryInv /\ [Next]_vars => [Silent]_vars
  <2> SUFFICES ASSUME DiscoveryInv, Next, caller \in {"join", "stopped"},
                      NEW i \in 1 .. Len(inbox)
               PROVE  answers'[i] = answers[i]
    OBVIOUS
  <2>1. CASE Reply
    BY <2>1 DEF Reply, Fails, netVars, DiscoveryInv, SocketInv
  <2>2. ASSUME NEW m \in Traffic, Deliver(m) PROVE answers'[i] = answers[i]
    BY <2>2 DEF Deliver, DiscoveryInv, TypeOK
  <2>3. CASE UNCHANGED answers
    BY <2>3
  <2>4. CASE Caller
    BY <2>3, <2>4 DEF Caller, Start, SetStop, CloseSocket, Join, InterruptStop, netVars
  <2>5. CASE Thread /\ ~Reply
    BY <2>3, <2>5 DEF Thread, CreateSocket, PublishSocket, BindSocket, JoinGroup, TestStop,
                     ReceiveTimeout, ReceiveError, Receive, Replied, Fails, Goes, netVars
  <2> QED
    BY <2>1, <2>2, <2>3, <2>4, <2>5 DEF Next, Terminated, vars, netVars
<1> QED
  BY <1>1, DiscoveryInvariance, PTL DEF Spec, NoReplyAfterStop

\* With an address as its interface the thread ends only for stop() or for a
\* fault of the system.
THEOREM Serves ==
  ASSUME InterfaceIsAddress
  PROVE  Spec => []ServesUntilStopped
<1>1. Init => EndInv
  BY DEF Init, EndInv, ServesUntilStopped
<1>2. DiscoveryInv /\ EndInv /\ [Next]_vars => EndInv'
  <2> SUFFICES ASSUME DiscoveryInv, EndInv, [Next]_vars PROVE EndInv'
    OBVIOUS
  <2> USE DEF EndInv, ServesUntilStopped, callerVars
  <2>1. CASE Caller
    BY <2>1 DEF Caller, Start, SetStop, CloseSocket, Join, InterruptStop, DiscoveryInv,
                SocketInv
  <2>2. CASE CreateSocket \/ PublishSocket \/ BindSocket \/ JoinGroup \/ TestStop
    BY <2>2 DEF CreateSocket, PublishSocket, BindSocket, JoinGroup, TestStop, Fails, Goes,
                KeepServing
  <2>3. CASE ReceiveTimeout \/ ReceiveError \/ Receive \/ Reply \/ Replied
    BY <2>3 DEF ReceiveTimeout, ReceiveError, Receive, Reply, Replied, Fails, Goes,
                AfterTimeout
  <2>4. ASSUME NEW m \in Traffic, Deliver(m) PROVE EndInv'
    BY <2>4 DEF Deliver
  <2>5. CASE UNCHANGED vars
    BY <2>5 DEF vars
  <2> QED
    BY <2>1, <2>2, <2>3, <2>4, <2>5 DEF Next, Thread, Terminated
<1>3. EndInv => ServesUntilStopped
  BY DEF EndInv
<1> QED
  BY <1>1, <1>2, <1>3, DiscoveryInvariance, PTL DEF Spec

=============================================================================
