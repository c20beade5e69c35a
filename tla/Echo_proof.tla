----------------------------- MODULE Echo_proof -----------------------------
(***************************************************************************)
(* Proofs about Echo, for any hosts, devices, clients and bounds.  Every   *)
(* datagram is on its way between the address that was asked from and a    *)
(* responder: one that reaches a responder comes from the client, or from  *)
(* a responder whose address the client has.                               *)
(***************************************************************************)
EXTENDS Echo, Integers, TLAPS

\* What holds of every datagram on its way.
Sound(m) ==
  /\ m.kind \in ContainProbe \cup ContainResolve /\ m.device \in Devices
  /\ {m.from, m.to} \subseteq Responders \cup Clients
  /\ m.hops \in Nat /\ m.origin \in Clients
  /\ m.origin \in {m.from, m.to}
  /\ m.hops = 0 => m.from = m.origin
  /\ m.hops > 0 => m.from = Responder(Home[m.device])
  /\ m.hops > 1 => /\ m.origin \in Responders
                   /\ m.kind = "ProbeMatches" \/ m.origin = Responder(Home[m.device])

EchoInv ==
  /\ IsABag(network)
  /\ \A m \in BagToSet(network) : Sound(m)
  /\ requests \in 0 .. MaxRequests /\ copies \in 0 .. MaxCopies
  /\ found \in [Clients -> SUBSET Devices]

-----------------------------------------------------------------------------
(* Bags.                                                                   *)

\* Sending adds the datagrams of a set to the network, and nothing else.
LEMMA Sent ==
  ASSUME NEW B, IsABag(B), NEW S
  PROVE  IsABag(B (+) SetToBag(S)) /\ BagToSet(B (+) SetToBag(S)) = BagToSet(B) \cup S
BY DEF IsABag, BagToSet, SetToBag, (+)

\* Taking a datagram from the network adds none.
LEMMA Taken ==
  ASSUME NEW B, IsABag(B), NEW m
  PROVE  IsABag(B (-) SetToBag({m})) /\ BagToSet(B (-) SetToBag({m})) \subseteq BagToSet(B)
<1> DEFINE left == [e \in DOMAIN B |-> IF e \in {m} THEN B[e] - SetToBag({m})[e] ELSE B[e]]
<1>1. B (-) SetToBag({m}) = [e \in {d \in DOMAIN B : left[d] > 0} |-> left[e]]
  BY DEF (-), SetToBag
<1>2. \A e \in DOMAIN B : left[e] \in Int
  BY DEF IsABag, SetToBag
<1>3. \A e \in {d \in DOMAIN B : left[d] > 0} : left[e] \in {n \in Nat : n > 0}
  BY <1>2
<1> HIDE DEF left
<1> QED
  BY <1>1, <1>3 DEF IsABag, BagToSet

-----------------------------------------------------------------------------
(* The invariant.                                                          *)

LEMMA InitEchoInv == Init => EchoInv
BY BoundsAssumption DEF Init, EchoInv, EmptyBag, SetToBag, IsABag, BagToSet

LEMMA AskKeeps ==
  ASSUME EchoInv, NEW c \in Clients, NEW kind \in {"Probe", "Resolve"}, NEW d \in Devices,
         Ask(c, kind, d)
  PROVE  EchoInv'
<1> DEFINE sent == {Datagram(kind, d, c, r, 0, c) : r \in Responders}
<1>1. IsABag(network') /\ BagToSet(network') = BagToSet(network) \cup sent
  BY Sent DEF Ask, EchoInv
<1>2. \A m \in sent : Sound(m)
  BY DEF Sound, Datagram, ContainProbe, ContainResolve
<1>3. requests' \in 0 .. MaxRequests
  BY BoundsAssumption DEF Ask, EchoInv
<1> QED
  BY <1>1, <1>2, <1>3 DEF EchoInv, Ask, Sound

\* An answer leads back to where the question came from: one to an answer is
\* sent from the client's address, which is then the responder's own.
LEMMA RespondKeeps ==
  ASSUME EchoInv, NEW m \in BagToSet(network), NEW h \in Hosts, Respond(h, m)
  PROVE  EchoInv'
<1> DEFINE rest == network (-) SetToBag({m})
<1>1. IsABag(rest) /\ BagToSet(rest) \subseteq BagToSet(network)
  BY Taken DEF EchoInv
<1>2. IsABag(network') /\ BagToSet(network') = BagToSet(rest) \cup Replies(h, m)
  BY <1>1, Sent DEF Respond
<1>3. Sound(m) /\ m.to = Responder(h) /\ m.to \in Responders /\ Requester(m) = m.from
  BY DEF EchoInv, Respond, Responders, Requester
<1>4. ASSUME NEW q \in Replies(h, m) PROVE Sound(q)
  <2>1. PICK d \in Matches(h, m) :
          q = Datagram(IF m.kind \in ContainProbe THEN "ProbeMatches" ELSE "ResolveMatches",
                       d, m.to, m.from, m.hops + 1, m.origin)
    BY <1>3, <1>4 DEF Replies
  <2>2. d \in Devices /\ m.to = Responder(Home[d])
    BY <1>3, <2>1 DEF Matches
  <2>3. q.kind \in ContainProbe \cup ContainResolve /\ q.device = d
        /\ q.from = m.to /\ q.to = m.from /\ q.hops = m.hops + 1 /\ q.origin = m.origin
    BY <2>1 DEF Datagram, ContainProbe, ContainResolve
  <2>4. m.hops \in Nat /\ m.origin \in {m.from, m.to}
    BY <1>3 DEF Sound
  <2>5. ASSUME m.hops > 0 PROVE m.origin \in Responders
    BY <1>3, <2>5, HomeAssumption DEF Sound, Responders
  <2>6. ASSUME m.hops > 0 PROVE q.kind = "ProbeMatches" \/ m.origin = Responder(Home[d])
    <3>1. CASE m.kind \in ContainProbe
      BY <2>1, <3>1 DEF Datagram
    <3>2. CASE m.kind \notin ContainProbe
      <4>1. m.device = d
        BY <2>1, <3>2 DEF Matches
      <4>2. m.from = m.to
        BY <1>3, <2>2, <2>6, <4>1 DEF Sound
      <4> QED
        BY <2>2, <2>4, <4>2
    <3> QED
      BY <3>1, <3>2
  <2> QED
    BY <1>3, <2>2, <2>3, <2>4, <2>5, <2>6 DEF Sound
<1> QED
  BY <1>1, <1>2, <1>4 DEF EchoInv, Respond, Sound

\* Receiving, losing and repeating a datagram send nothing new.
LEMMA OthersKeep ==
  ASSUME EchoInv, NEW m \in BagToSet(network),
         (\E c \in Clients : Hear(c, m)) \/ Lose(m) \/ Duplicate(m)
  PROVE  EchoInv'
<1>1. IsABag(network') /\ BagToSet(network') \subseteq BagToSet(network)
  <2>1. IsABag(network) /\ {m} \subseteq BagToSet(network)
    BY DEF EchoInv
  <2>2. CASE network' = network (-) SetToBag({m})
    BY <2>1, <2>2, Taken
  <2>3. CASE network' = network (+) SetToBag({m})
    BY <2>1, <2>3, Sent
  <2> QED
    BY <2>2, <2>3 DEF Hear, Lose, Duplicate
<1>2. copies' \in 0 .. MaxCopies /\ found' \in [Clients -> SUBSET Devices] /\ requests' = requests
  BY BoundsAssumption DEF EchoInv, Sound, Hear, Lose, Duplicate
<1> QED
  BY <1>1, <1>2 DEF EchoInv, Sound

\* Every reachable state is sound.
THEOREM EchoInvariance == Spec => []EchoInv
<1>1. EchoInv /\ [Next]_vars => EchoInv'
  <2> SUFFICES ASSUME EchoInv, [Next]_vars PROVE EchoInv'
    OBVIOUS
  <2>1. CASE \E c \in Clients, kind \in {"Probe", "Resolve"}, d \in Devices : Ask(c, kind, d)
    BY <2>1, AskKeeps
  <2>2. CASE \E m \in BagToSet(network) : \E h \in Hosts : Respond(h, m)
    BY <2>2, RespondKeeps
  <2>3. CASE \E m \in BagToSet(network) :
               (\E c \in Clients : Hear(c, m)) \/ Lose(m) \/ Duplicate(m)
    BY <2>3, OthersKeep
  <2>4. CASE UNCHANGED vars
    BY <2>4 DEF vars, EchoInv, Sound
  <2> QED
    BY <2>1, <2>2, <2>3, <2>4 DEF Next, Deliver
<1> QED
  BY <1>1, InitEchoInv, PTL DEF Spec

-----------------------------------------------------------------------------

\* Types, and that a device is spoken for by its own responder.
THEOREM EchoTypeCorrect == Spec => []TypeOK
<1>1. EchoInv => TypeOK
  BY DEF EchoInv, TypeOK, Sound
<1> QED
  BY <1>1, EchoInvariance, PTL

\* An answer is answered only on account of a client that asked from a
\* responder's address; of one device, only by its responder to itself.
THEOREM NoEcho == Spec => []RepliesUnanswered
<1>1. EchoInv => RepliesUnanswered
  BY DEF EchoInv, RepliesUnanswered, Sound
<1> QED
  BY <1>1, EchoInvariance, PTL

\* No echo draws in a third address, with any number of responders, clients
\* and requests, and after any number of answers.
THEOREM NoThirdParty == Spec => []EchoesBetweenTwo
<1>1. EchoInv => EchoesBetweenTwo
  BY DEF EchoInv, EchoesBetweenTwo, Sound
<1> QED
  BY <1>1, EchoInvariance, PTL

=============================================================================
