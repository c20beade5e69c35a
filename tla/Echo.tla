-------------------------------- MODULE Echo --------------------------------
(***************************************************************************)
(* Several discovery responders and their clients on one network.  A       *)
(* responder takes for a request whatever contains the word "Probe" or     *)
(* "Resolve", and so the replies of its like; and it answers to the        *)
(* address that a datagram came from, which may be that of a responder:    *)
(* sockets share port 3702 (SO_REUSEADDR, discovery.py:40), and a client   *)
(* that asks from it has its replies answered.  Discovery looks inside one *)
(* responder; here it answers a datagram in one step.                      *)
(*                                                                         *)
(* The network loses, reorders and, up to a bound, duplicates datagrams.   *)
(***************************************************************************)
EXTENDS Naturals, Bags

CONSTANTS
  Hosts,         \* those that run a responder
  Devices,
  Home,          \* Home[d]: the host whose responder knows device d
  Clients,       \* the addresses clients ask from, a responder's perhaps
  MaxRequests,   \* bound: requests made
  MaxCopies,     \* bound: datagrams duplicated
  MaxHops        \* bound: datagrams that lead to one another

DiscoveryPort == "3702"
Responder(h)  == <<h, DiscoveryPort>>
Responders    == {Responder(h) : h \in Hosts}

ASSUME HomeAssumption == Home \in [Devices -> Hosts]
ASSUME BoundsAssumption == MaxRequests \in Nat /\ MaxCopies \in Nat /\ MaxHops \in Nat

VARIABLES
  network,       \* the bag of datagrams on their way
  requests,      \* made so far
  copies,        \* duplicated so far
  found          \* found[c]: the devices the client at c has heard of

vars == <<network, requests, copies, found>>

\* device: whose uuid occurs in the text; hops: how many datagrams led to it,
\* origin: the client that sent the first of them.
Datagram(kind, device, from, to, hops, origin) ==
  [kind |-> kind, device |-> device, from |-> from, to |-> to,
   hops |-> hops, origin |-> origin]

Init == network = EmptyBag /\ requests = 0 /\ copies = 0 /\ found = [c \in Clients |-> {}]

-----------------------------------------------------------------------------

\* What the client at c multicasts: to the responders, wherever they are.
Ask(c, kind, d) ==
  /\ requests < MaxRequests
  /\ requests' = requests + 1
  /\ network' = network (+) SetToBag({Datagram(kind, d, c, r, 0, c) : r \in Responders})
  /\ UNCHANGED <<copies, found>>

\* "Probe" in text, and otherwise "Resolve" in text and device.uuid in text.
ContainProbe   == {"Probe", "ProbeMatches"}
ContainResolve == {"Resolve", "ResolveMatches"}

OfAnyHost(h, m) == {d \in Devices : m.kind \in ContainProbe \/ m.device = d}  \* faulty
Matches(h, m) ==
  {d \in Devices : /\ Home[d] = h
                   /\ \/ m.kind \in ContainProbe
                      \/ m.kind \in ContainResolve /\ m.device = d}

WellKnown(m) == <<m.from[1], DiscoveryPort>>                    \* faulty
Requester(m) == m.from

Replies(h, m) ==
  {Datagram(IF m.kind \in ContainProbe THEN "ProbeMatches" ELSE "ResolveMatches",
            d, Responder(h), Requester(m), m.hops + 1, m.origin) : d \in Matches(h, m)}

\* The responder of host h receives m and answers it.
Respond(h, m) ==
  /\ m.to = Responder(h) /\ m.hops < MaxHops
  /\ network' = (network (-) SetToBag({m})) (+) SetToBag(Replies(h, m))
  /\ UNCHANGED <<requests, copies, found>>

\* The client at c receives m.  Where it shares address and port with a
\* responder, either of them may.
Hear(c, m) ==
  /\ m.to = c
  /\ network' = network (-) SetToBag({m})
  /\ found' = IF m.kind \in {"ProbeMatches", "ResolveMatches"}
                THEN [found EXCEPT ![c] = @ \cup {m.device}] ELSE found
  /\ UNCHANGED <<requests, copies>>

Lose(m) ==
  /\ network' = network (-) SetToBag({m})
  /\ UNCHANGED <<requests, copies, found>>

Duplicate(m) ==
  /\ copies < MaxCopies
  /\ copies' = copies + 1
  /\ network' = network (+) SetToBag({m})
  /\ UNCHANGED <<requests, found>>

Deliver(m) == (\E c \in Clients : Hear(c, m)) \/ \E h \in Hosts : Respond(h, m)

Next ==
  \/ \E c \in Clients, kind \in {"Probe", "Resolve"}, d \in Devices : Ask(c, kind, d)
  \/ \E m \in BagToSet(network) : Deliver(m) \/ Lose(m) \/ Duplicate(m)

Spec == Init /\ [][Next]_vars

\* What was sent on behalf of a client arrives or is lost, however busy the
\* responders are with the echoes of another.
FairSpec ==
  /\ Spec
  /\ \A c \in Clients : WF_vars(\E m \in BagToSet(network) : m.origin = c /\ Deliver(m))

-----------------------------------------------------------------------------
(* Properties.                                                             *)

\* Type invariant; a device is spoken for by its own responder.
TypeOK ==
  /\ IsABag(network)
  /\ \A m \in BagToSet(network) :
       /\ m.kind \in ContainProbe \cup ContainResolve /\ m.device \in Devices
       /\ {m.from, m.to} \subseteq Responders \cup Clients
       /\ m.hops \in Nat /\ m.origin \in Clients
       /\ m.hops > 0 => m.from = Responder(Home[m.device])
  /\ requests \in 0 .. MaxRequests /\ copies \in 0 .. MaxCopies
  /\ found \in [Clients -> SUBSET Devices]

\* An answer is answered only on account of a client that asked from a
\* responder's address (discovery.py:50-57); and if it asked for one device,
\* only by that device's own responder, to itself.
RepliesUnanswered ==
  \A m \in BagToSet(network) :
    m.hops > 1 => /\ m.origin \in Responders
                  /\ m.kind = "ProbeMatches" \/ m.origin = Responder(Home[m.device])

\* However long responders answer each other, it is between the address that
\* was asked from and one other: no echo ever draws in a third party, be it a
\* responder or a client (the address of sendto, discovery.py:53, 57).
EchoesBetweenTwo == \A m \in BagToSet(network) : m.origin \in {m.from, m.to}

\* Requests die out: once there are no more requests, nothing is left on the
\* network but the echoes of those made from a responder's address.
FallsSilent == <>[](\A m \in BagToSet(network) : m.origin \in Responders)

\* What is answered comes from a client: "discovery_probe client=%s"
\* (discovery.py:51) is logged of a request, not of a responder's answer.
OnlyClientsAnswered == \A m \in BagToSet(network) : m.hops <= 1

=============================================================================
