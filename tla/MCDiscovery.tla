---------------------------- MODULE MCDiscovery ----------------------------
(***************************************************************************)
(* Instances of Discovery for TLC: two devices, two datagrams (one can     *)
(* wait while the other is answered), one interrupted stop().              *)
(***************************************************************************)
EXTENDS Discovery

Text(means, words, uuids) == [means |-> means, words |-> words, uuids |-> uuids]

\* Requests for all devices, for either, for one that is not here, the replies
\* of another responder, something else; and requests whose text contains both
\* words, in a scope for instance.
MCTraffic ==
  { Text("Probe", {"Probe"}, {}),
    Text("Resolve", {"Resolve"}, {1}), Text("Resolve", {"Resolve"}, {2}),
    Text("Resolve", {"Resolve"}, {}),
    Text("other", {"Probe"}, {}), Text("other", {"Resolve"}, {1}), Text("other", {}, {}),
    Text("Probe", {"Probe", "Resolve"}, {}), Text("Resolve", {"Probe", "Resolve"}, {2}) }

=============================================================================
