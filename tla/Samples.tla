------------------------------ MODULE Samples ------------------------------
(***************************************************************************)
(* The two configurations that sample-config prints, as raw configurations *)
(* for the parser.  Their media file is taken to be what they say it is.   *)
(***************************************************************************)
EXTENDS Config

Stream(id, token) ==
  [shape |-> "ok", token |-> <<token>>, media |-> "H265", codec |-> "probed",
   path |-> <<id, token>>, numbers |-> "ok"]

Camera(id, port, uuid, tokens) ==
  [shape |-> "ok", id |-> <<id>>, number |-> "ok", port |-> <<port>>,
   uuid |-> <<uuid>>, rest |-> "ok",
   profiles |-> [j \in DOMAIN tokens |-> Stream(id, tokens[j])]]

Sample(devices) ==
  [file |-> "ok", shape |-> "ok", rtsp |-> 8554, start |-> 8000, auth |-> "off",
   devices |-> devices]

Single == Sample(<<Camera("camera-1", 8000, "11111111", <<"main", "sub">>)>>)
Multi  == Sample(<<Camera("camera-4k", 8000, "22222222", <<"main">>),
                   Camera("camera-vga", 8001, "33333333", <<"main">>)>>)

\* What sample-config prints, load_config takes: also the two devices of the
\* second sample that call their only profile by one name, which no check
\* that outlives a device may mind.
SamplesAccepted == config \in {Single, Multi} => pc \notin {"rejected", "raised"}

=============================================================================
