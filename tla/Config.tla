------------------------------- MODULE Config -------------------------------
(***************************************************************************)
(* load_config and parse_config: one pass over the devices and profiles of *)
(* a raw configuration, with sets of what was used so far, that accepts it *)
(* or fails at the first thing it dislikes.  Everything the other modules  *)
(* assume of a configuration is what this pass lets through.               *)
(*                                                                         *)
(* A text is the sequence of its parts between slashes, so that "" is      *)
(* <<"">> and "/a" is <<"", "a">>; a missing value is the empty sequence.  *)
(* A check whose details do not matter is its outcome: "ok", "rejects" for *)
(* a ConfigError, or "raises" for an exception of another kind.  What is   *)
(* not a list of devices or of profiles counts as an empty one.            *)
(***************************************************************************)
EXTENDS Outcomes

CONSTANTS
  RawConfigs,        \* the configurations considered
  MaxPort,           \* 65535
  CameraName(_),     \* "camera-1", "camera-2", ...
  ProfileName(_)     \* "profile-1", "profile-2", ...

ASSUME MaxPortAssumption == MaxPort \in Nat

Texts     == Seq(STRING) \ {<<>>}
Optional(S) == {s \in Seq(S) : Len(s) <= 1}
Absent    == <<>>
EmptyText == <<"">>

\* What _probe_media finds: a codec, or how it fails.  It raises when
\* ffprobe is not installed or takes more than ten seconds.
Codecs == {"H264", "H265", "other"}
Probes == Codecs \cup {"rejects", "raises"}

RawProfiles ==
  [shape : Outcomes, token : Texts \cup {Absent}, media : Probes,
   codec : Codecs \cup {"probed"}, path : Texts \cup {Absent}, numbers : Outcomes]
RawDevices ==
  [shape : Outcomes, id : Texts \cup {Absent}, number : Outcomes,
   port : Optional(Int), uuid : Texts \cup {Absent},
   profiles : Seq(RawProfiles), rest : Outcomes]

ASSUME RawConfigsAssumption ==
  \A raw \in RawConfigs :
    /\ raw.file \in Outcomes /\ raw.shape \in Outcomes
    /\ raw.rtsp \in Int /\ raw.start \in Int
    /\ raw.auth \in {"off", "complete", "incomplete"}
    /\ raw.devices \in Seq(RawDevices)

\* The provers know of no literal that it is a string: hence the first line.
ASSUME NamesAssumption ==
  /\ {"", "uuid5"} \subseteq STRING
  /\ \A raw \in RawConfigs : \A i \in DOMAIN raw.devices :
       /\ CameraName(i) \in STRING
       /\ \A j \in DOMAIN raw.devices[i].profiles : ProfileName(j) \in STRING

VARIABLES
  config,      \* the raw configuration
  pc,
  d, p,        \* the device and the profile the loops are at
  usedPorts, usedUuids, usedPaths,
  usedTokens   \* of the device being parsed

used == <<usedPorts, usedUuids, usedPaths, usedTokens>>
vars == <<config, pc, d, p, used>>

Init ==
  /\ config \in RawConfigs
  /\ pc = "root" /\ d = 1 /\ p = 1
  /\ usedPorts = {} /\ usedUuids = {} /\ usedPaths = {} /\ usedTokens = {}

-----------------------------------------------------------------------------
(* The values a configuration stands for: defaults, normal forms.          *)

Devices     == 1 .. Len(config.devices)
Profiles(i) == 1 .. Len(config.devices[i].profiles)

Default(value, fallback) == IF value = Absent THEN fallback ELSE value

Id(i) == Default(config.devices[i].id, <<CameraName(i)>>)

\* raw.get("http_port", ports.onvif_start + index), the index from 0.
Port(i) == IF config.devices[i].port = Absent THEN config.start + i - 1
                                              ELSE config.devices[i].port[1]

\* uuid5 of the id, taken to be injective; an empty uuid counts as none.
Uuid5(id) == <<"uuid5">> \o id
Uuid(i) ==
  LET given == config.devices[i].uuid
      uuid  == IF given \in {Absent, EmptyText} THEN Uuid5(Id(i)) ELSE given
  IN  IF uuid[1] = "urn:uuid:" THEN Tail(uuid) ELSE uuid

Token(i, j) == Default(config.devices[i].profiles[j].token, <<ProfileName(j)>>)

\* value.strip("/")
Stripped(text) ==
  LET kept == {k \in DOMAIN text : text[k] # ""}
      from == CHOOSE k \in kept : \A l \in kept : k <= l
      to   == CHOOSE k \in kept : \A l \in kept : l <= k
  IN  IF kept = {} THEN EmptyText ELSE SubSeq(text, from, to)

Path(i, j) ==
  Stripped(Default(config.devices[i].profiles[j].path, Id(i) \o Token(i, j)))

-----------------------------------------------------------------------------
(* The checks.                                                             *)

ZeroIsValid(n) == n \in 0 .. MaxPort                            \* faulty
ValidPort(n)   == n \in 1 .. MaxPort

ValidPath(path) ==
  \A k \in DOMAIN path : path[k] \notin {"", ".", ".."}

\* _profile_codec; without a codec of its own a profile has the probed one.
ValidCodec(profile) ==
  /\ profile.media \in {"H264", "H265"}
  /\ profile.codec \in {"probed", profile.media}

Probe(profile) == IF profile.media \in Codecs THEN "ok" ELSE profile.media

Fail(outcome) ==
  /\ outcome # "ok"
  /\ pc' = IF outcome = "rejects" THEN "rejected" ELSE "raised"
  /\ UNCHANGED <<config, d, p, used>>

-----------------------------------------------------------------------------
(* The pass.                                                               *)

\* load_config up to _parse_devices' loop.
ParseRoot ==
  /\ pc = "root"
  /\ LET outcome == Checked(<< config.file, config.shape,
                               Require(ValidPort(config.rtsp)),
                               Require(ValidPort(config.start)),
                               Require(config.auth # "incomplete"),
                               Require(config.devices # <<>>) >>)
     IN  \/ Fail(outcome)
         \/ outcome = "ok" /\ pc' = "device" /\ UNCHANGED <<config, d, p, used>>

StaleTokens == usedTokens                                       \* faulty
FreshTokens == {}

\* _parse_device up to _parse_profiles' loop.
BeginDevice ==
  /\ pc = "device" /\ d \in Devices
  /\ LET device  == config.devices[d]
         outcome == Checked(<< device.shape, Require(Id(d) # EmptyText),
                               device.number, Require(ValidPort(Port(d))),
                               Require(device.profiles # <<>>) >>)
     IN  \/ Fail(outcome)
         \/ /\ outcome = "ok"
            /\ pc' = "profile" /\ p' = 1 /\ usedTokens' = FreshTokens
            /\ UNCHANGED <<config, d, usedPorts, usedUuids, usedPaths>>

\* One iteration of _parse_profiles.
ParseProfile ==
  /\ pc = "profile" /\ p \in Profiles(d)
  /\ LET profile == config.devices[d].profiles[p]
         outcome == Checked(<< profile.shape, Require(Token(d, p) # EmptyText),
                               Require(Token(d, p) \notin usedTokens),
                               Probe(profile), Require(ValidCodec(profile)),
                               Require(ValidPath(Path(d, p))), profile.numbers >>)
     IN  \/ Fail(outcome)
         \/ /\ outcome = "ok"
            /\ p' = p + 1 /\ usedTokens' = usedTokens \cup {Token(d, p)}
            /\ UNCHANGED <<config, pc, d, usedPorts, usedUuids, usedPaths>>

AnyPort(i)  == TRUE                                             \* faulty
PortFree(i) == Port(i) \notin usedPorts

\* The rest of _parse_device, then the checks of _parse_devices.
EndProfiles ==
  /\ pc = "profile" /\ p \notin Profiles(d)
  /\ LET outcome == Checked(<< config.devices[d].rest,
                               Require(PortFree(d)),
                               Require(Uuid(d) \notin usedUuids) >>)
     IN  \/ Fail(outcome)
         \/ /\ outcome = "ok"
            /\ pc' = "paths" /\ p' = 1
            /\ UNCHANGED <<config, d, used>>

TakePath ==
  /\ pc = "paths" /\ p \in Profiles(d)
  /\ LET outcome == Require(Path(d, p) \notin usedPaths)
     IN  \/ Fail(outcome)
         \/ /\ outcome = "ok"
            /\ p' = p + 1 /\ usedPaths' = usedPaths \cup {Path(d, p)}
            /\ UNCHANGED <<config, pc, d, usedPorts, usedUuids, usedTokens>>

EndDevice ==
  /\ pc = "paths" /\ p \notin Profiles(d)
  /\ pc' = "device" /\ d' = d + 1
  /\ usedPorts' = usedPorts \cup {Port(d)}
  /\ usedUuids' = usedUuids \cup {Uuid(d)}
  /\ UNCHANGED <<config, p, usedPaths, usedTokens>>

Accept ==
  /\ pc = "device" /\ d \notin Devices
  /\ pc' = "accepted"
  /\ UNCHANGED <<config, d, p, used>>

Terminated == pc \in {"accepted", "rejected", "raised"} /\ UNCHANGED vars

Next ==
  \/ ParseRoot \/ BeginDevice \/ ParseProfile \/ EndProfiles \/ TakePath
  \/ EndDevice \/ Accept \/ Terminated

Spec == Init /\ [][Next]_vars

-----------------------------------------------------------------------------
(* Properties.                                                             *)

\* Type invariant; what was used so far is fit to be served.
TypeOK ==
  /\ config \in RawConfigs
  /\ pc \in {"root", "device", "profile", "paths", "accepted", "rejected", "raised"}
  /\ d \in 1 .. Len(config.devices) + 1
  /\ p \in Nat \ {0}
  /\ pc \in {"profile", "paths"} =>
       d \in Devices /\ p <= Len(config.devices[d].profiles) + 1
  /\ usedPorts \subseteq 1 .. MaxPort
  /\ usedUuids \subseteq Seq(STRING) /\ usedTokens \subseteq Texts
  /\ usedPaths \subseteq Texts

\* What the configuration must be, without an order of checks: every part
\* well formed; ports, uuids and stream paths unique over all devices, after
\* defaults and normalisation; tokens unique on their device.
WellFormed ==
  /\ config.file = "ok" /\ config.shape = "ok" /\ config.auth # "incomplete"
  /\ {config.rtsp, config.start} \subseteq 1 .. MaxPort
  /\ Devices # {}
  /\ \A i \in Devices :
       LET device == config.devices[i] IN
       /\ {device.shape, device.number, device.rest} = {"ok"}
       /\ Id(i) # EmptyText /\ Port(i) \in 1 .. MaxPort
       /\ Profiles(i) # {}
       /\ \A j \in Profiles(i) :
            LET profile == device.profiles[j] IN
            /\ profile.shape = "ok" /\ profile.numbers = "ok"
            /\ Token(i, j) # EmptyText
            /\ profile.media \in {"H264", "H265"}
            /\ profile.codec = "probed" \/ profile.codec = profile.media
            /\ ValidPath(Path(i, j))
            /\ \A k \in Profiles(i) : Token(i, j) = Token(i, k) => j = k
  /\ \A i, k \in Devices :
       i # k => /\ Port(i) # Port(k) /\ Uuid(i) # Uuid(k)
                /\ \A j \in Profiles(i), l \in Profiles(k) : Path(i, j) # Path(k, l)
  /\ \A i \in Devices : \A j, l \in Profiles(i) : j # l => Path(i, j) # Path(i, l)

\* The pass accepts exactly the well-formed configurations: no order of
\* checks, no default that meets an explicit value and no state left over
\* from one device to the next makes it accept or reject a wrong one.
AcceptsExactly ==
  /\ pc = "accepted" => WellFormed
  /\ pc = "rejected" => ~WellFormed

=============================================================================
