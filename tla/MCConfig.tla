------------------------------ MODULE MCConfig ------------------------------
(***************************************************************************)
(* Raw configurations for TLC, in four families: everything outside the    *)
(* devices varies; the profiles of one device vary; two devices meet in    *)
(* their ids, ports, uuids and paths, given or by default; three devices   *)
(* have ports close to each other, to the RTSP port and to the ports that  *)
(* MediaMTX opens for RTMP, HLS and WebRTC.  And the two samples.          *)
(***************************************************************************)
EXTENDS Launch

MCOwnPorts == {1935, 8888, 8889}

MCCameraName(i)  == <<"camera-1", "camera-2", "camera-3">>[i]
MCProfileName(i) == <<"profile-1", "profile-2">>[i]

Profile(token, media, codec, path) ==
  [shape |-> "ok", token |-> token, media |-> media, codec |-> codec,
   path |-> path, numbers |-> "ok"]
Plain == Profile(Absent, "H265", "probed", Absent)

Device(id, port, uuid, profiles) ==
  [shape |-> "ok", id |-> id, number |-> "ok", port |-> port, uuid |-> uuid,
   profiles |-> profiles, rest |-> "ok"]
PlainDevice == Device(Absent, Absent, Absent, <<Plain>>)

Root(start, devices) ==
  [file |-> "ok", shape |-> "ok", rtsp |-> 8554, start |-> start, auth |-> "off",
   devices |-> devices]

\* With a fault of one check anywhere.
Outer ==
  [file : Outcomes, shape : Outcomes, rtsp : {0, 1, MaxPort, MaxPort + 1},
   start : {-1, 0, MaxPort}, auth : {"off", "complete", "incomplete"},
   devices : {<<>>, <<PlainDevice>>, <<PlainDevice, PlainDevice>>}]
Spoilt ==
  {Root(8000, <<[[PlainDevice EXCEPT ![f] = o] EXCEPT !.profiles[1][g] = q]>>) :
     f \in {"shape", "number", "rest"}, g \in {"shape", "numbers"},
     o \in Outcomes, q \in Outcomes}

OneDevice ==
  LET varied == {Profile(t, m, c, x) :
                   t \in {Absent, EmptyText, <<"profile-2">>, <<"t">>},
                   m \in {"H264", "other", "rejects", "raises"},
                   c \in {"probed", "H264", "H265"},
                   x \in {Absent, <<"", "t", "">>, <<"a", "", "t">>, <<"a", "..">>,
                          <<"", "">>}}
      second == {Plain, Profile(<<"profile-1">>, "H265", "H265", <<"t">>),
                 Profile(<<"t">>, "H265", "probed", <<"", "a", "t">>)}
  IN  {Root(8000, <<Device(<<"a">>, Absent, Absent, q)>>) :
         q \in {<<x>> : x \in varied} \cup {<<>>} \cup
               {<<x, y>> : x \in varied, y \in second} \cup
               {<<x, y>> : x \in second, y \in varied}}

TwoDevices ==
  LET T(token) == Profile(token, "H264", "probed", Absent)
      varied == {Device(i, n, u, q) :
                   i \in {Absent, <<"camera-2">>, <<"a">>, <<"a", "b">>},
                   n \in {Absent, <<0>>, <<8001>>},
                   u \in {Absent, EmptyText, <<"uuid5", "a">>,
                          <<"urn:uuid:", "uuid5", "a">>},
                   q \in {<<T(<<"t">>)>>, <<T(<<"b", "t">>)>>,
                          <<T(<<"t">>), Profile(<<"s">>, "H265", "H265", <<"a", "t">>)>>}}
  IN  {Root(s, <<x, y>>) : s \in {8000, MaxPort}, x \in varied, y \in varied}

ThreePorts ==
  LET ports == {Absent, <<0>>, <<8000>>, <<8001>>, <<8554>>, <<8888>>}
      On(port) == Device(Absent, port, Absent, <<Plain>>)
  IN  {[Root(s, <<On(a), On(b), On(c)>>) EXCEPT !.rtsp = r] :
         a \in ports, b \in ports, c \in ports,
         r \in {8001, 8554, 8888}, s \in {8000, 8552, 8886}}

MCSomeConfigs == ThreePorts \cup {Single, Multi}
MCRawConfigs  == Outer \cup Spoilt \cup OneDevice \cup TwoDevices \cup MCSomeConfigs

=============================================================================
