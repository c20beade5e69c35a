---------------------------- MODULE Launch_proof ----------------------------
(***************************************************************************)
(* Proofs about the pass over a configuration (Config) and its start       *)
(* (Launch), for every set of raw configurations.  The invariant of the    *)
(* pass says what the used_* sets stand for: the ports, uuids and paths of *)
(* the devices passed so far, all different, and the tokens of the         *)
(* profiles passed on this device.                                         *)
(***************************************************************************)
EXTENDS Launch, Outcomes_proof

\* What the pass checks of the root, of a device before and with its profiles,
\* and of a profile.
RootOk ==
  /\ config.file = "ok" /\ config.shape = "ok" /\ config.auth # "incomplete"
  /\ ValidPort(config.rtsp) /\ ValidPort(config.start) /\ Devices # {}

HeadOk(i) ==
  /\ config.devices[i].shape = "ok" /\ config.devices[i].number = "ok"
  /\ Id(i) # EmptyText /\ ValidPort(Port(i)) /\ Profiles(i) # {}

ProfileOk(i, j) ==
  LET profile == config.devices[i].profiles[j] IN
  /\ profile.shape = "ok" /\ profile.numbers = "ok"
  /\ Token(i, j) # EmptyText /\ ValidCodec(profile) /\ ValidPath(Path(i, j))

DeviceOk(i) ==
  /\ HeadOk(i) /\ config.devices[i].rest = "ok"
  /\ \A j \in Profiles(i) : ProfileOk(i, j)
  /\ \A j, k \in Profiles(i) : Token(i, j) = Token(i, k) => j = k

\* What distinguishes devices, and profiles on all of them.
Unique ==
  /\ \A i, k \in Devices : i # k => Port(i) # Port(k) /\ Uuid(i) # Uuid(k)
  /\ \A i, k \in Devices : \A j \in Profiles(i), l \in Profiles(k) :
       Path(i, j) = Path(k, l) => i = k /\ j = l

Good == RootOk /\ (\A i \in Devices : DeviceOk(i)) /\ Unique

\* The configuration is still on its way or through.
Passing == {"root", "device", "profile", "paths", "accepted"}
Failed  == {"rejected", "raised"}

\* The path of profile j of device i is in usedPaths.
PathTaken(i, j) == i < d \/ (i = d /\ pc = "paths" /\ j < p)

Counters ==
  /\ config \in RawConfigs
  /\ pc \in Passing \cup Failed
  /\ d \in 1 .. Len(config.devices) + 1 /\ p \in Nat \ {0}
  /\ pc \in {"profile", "paths"} => d \in Devices

Outcome ==
  /\ pc \in Passing \ {"root"} => RootOk
  /\ pc = "accepted" => d = Len(config.devices) + 1
  /\ pc \in Failed => ~Good

\* The devices passed.
DevicesPassed ==
  pc \in Passing =>
    /\ \A i \in 1 .. d - 1 : DeviceOk(i)
    /\ usedPorts = {Port(i) : i \in 1 .. d - 1}
    /\ usedUuids = {Uuid(i) : i \in 1 .. d - 1}
    /\ \A i, k \in 1 .. d - 1 : i # k => Port(i) # Port(k) /\ Uuid(i) # Uuid(k)

\* The device at which the pass is.
DeviceAtHand ==
  /\ pc = "profile" =>
       /\ HeadOk(d) /\ p <= Len(config.devices[d].profiles) + 1
       /\ usedTokens = {Token(d, j) : j \in 1 .. p - 1}
       /\ \A j \in 1 .. p - 1 : ProfileOk(d, j)
       /\ \A j, k \in 1 .. p - 1 : Token(d, j) = Token(d, k) => j = k
  /\ pc = "paths" => DeviceOk(d) /\ Port(d) \notin usedPorts /\ Uuid(d) \notin usedUuids

\* The paths taken.
PathsPassed ==
  pc \in Passing =>
    /\ \A x : x \in usedPaths <=>
         \E i \in Devices : \E j \in Profiles(i) : PathTaken(i, j) /\ x = Path(i, j)
    /\ \A i, k \in Devices : \A j \in Profiles(i), l \in Profiles(k) :
         PathTaken(i, j) /\ PathTaken(k, l) /\ Path(i, j) = Path(k, l) => i = k /\ j = l

PassInv == Counters /\ Outcome /\ DevicesPassed /\ DeviceAtHand /\ PathsPassed

-----------------------------------------------------------------------------
(* The pass.                                                               *)

\* The pass leaves the configuration alone, and so all it stands for.
LEMMA SameValues ==
  ASSUME UNCHANGED config
  PROVE  /\ UNCHANGED <<Devices, RootOk, Good>>
         /\ \A i : UNCHANGED <<Profiles(i), Port(i), Uuid(i), HeadOk(i), DeviceOk(i)>>
         /\ \A i, j : UNCHANGED <<Token(i, j), Path(i, j), ProfileOk(i, j)>>
<1>1. Devices' = Devices
  BY DEF Devices
<1>2. \A i : Profiles(i)' = Profiles(i) /\ Id(i)' = Id(i) /\ Port(i)' = Port(i)
  BY DEF Profiles, Id, Port
<1>3. \A i : Uuid(i)' = Uuid(i)
  BY <1>2 DEF Uuid
<1>4. \A i, j : Token(i, j)' = Token(i, j)
  BY DEF Token
<1>5. \A i, j : Path(i, j)' = Path(i, j)
  BY <1>2, <1>4 DEF Path
<1>6. \A i, j : ProfileOk(i, j)' = ProfileOk(i, j)
  BY <1>4, <1>5 DEF ProfileOk
<1>7. \A i : HeadOk(i)' = HeadOk(i)
  BY <1>2 DEF HeadOk
<1>8. \A i : DeviceOk(i)' = DeviceOk(i)
  BY <1>2, <1>4, <1>6, <1>7 DEF DeviceOk
<1>9. RootOk' = RootOk
  BY <1>1 DEF RootOk
<1>10. Unique' = Unique
  BY <1>1, <1>2, <1>3, <1>5 DEF Unique
<1>11. Good' = Good
  BY <1>1, <1>8, <1>9, <1>10 DEF Good
<1> QED
  BY <1>1, <1>2, <1>3, <1>4, <1>5, <1>6, <1>7, <1>8, <1>9, <1>11

\* The declarative definition, in the parts that the pass checks.
LEMMA GoodIsWellFormed == Good <=> WellFormed
<1>1. RootOk <=> /\ config.file = "ok" /\ config.shape = "ok" /\ config.auth # "incomplete"
                 /\ {config.rtsp, config.start} \subseteq 1 .. MaxPort
                 /\ Devices # {}
  BY DEF RootOk, ValidPort
<1>2. ASSUME NEW i \in Devices
      PROVE  DeviceOk(i) <=>
               LET device == config.devices[i] IN
               /\ {device.shape, device.number, device.rest} = {"ok"}
               /\ Id(i) # EmptyText /\ Port(i) \in 1 .. MaxPort
               /\ Profiles(i) # {}
               /\ \A j \in Profiles(i) :
                    LET profile == device.profiles[j] IN
                    /\ profile.shape = "ok" /\ profile.numbers = "ok"
                    /\ Token(i, j) # EmptyText
                    /\ profile.media \in {"H264", "H265"}
                    /\ profile.codec = "probed" \/ profile.codec = profile.media
                    /\ ValidPath(Path(i, j))
                    /\ \A k \in Profiles(i) : Token(i, j) = Token(i, k) => j = k
  BY DEF DeviceOk, HeadOk, ProfileOk, ValidPort, ValidCodec
<1>3. Unique <=>
        /\ \A i, k \in Devices :
             i # k => /\ Port(i) # Port(k) /\ Uuid(i) # Uuid(k)
                      /\ \A j \in Profiles(i), l \in Profiles(k) : Path(i, j) # Path(k, l)
        /\ \A i \in Devices : \A j, l \in Profiles(i) : j # l => Path(i, j) # Path(i, l)
  BY DEF Unique
<1> QED
  BY <1>1, <1>2, <1>3 DEF Good, WellFormed

\* What the raw configuration has.
LEMMA RawTypes ==
  ASSUME Counters
  PROVE  /\ config.devices \in Seq(RawDevices) /\ Len(config.devices) \in Nat
         /\ Devices = 1 .. Len(config.devices)
         /\ Devices = {} <=> config.devices = <<>>
         /\ \A i \in Devices :
              /\ config.devices[i].profiles \in Seq(RawProfiles)
              /\ Len(config.devices[i].profiles) \in Nat
              /\ Profiles(i) = 1 .. Len(config.devices[i].profiles)
              /\ Profiles(i) = {} <=> config.devices[i].profiles = <<>>
<1>1. config.devices \in Seq(RawDevices)
  BY RawConfigsAssumption DEF Counters
<1>2. \A i \in Devices : config.devices[i].profiles \in Seq(RawProfiles)
  <2>1. \A S : \A s \in Seq(S) : \A i \in 1 .. Len(s) : s[i] \in S
    OBVIOUS
  <2>2. \A i \in Devices : config.devices[i] \in RawDevices
    BY <1>1, <2>1 DEF Devices
  <2> QED
    BY <2>2 DEF RawDevices
<1>3. \A S : \A s \in Seq(S) : Len(s) \in Nat /\ (s = <<>> <=> 1 .. Len(s) = {})
  OBVIOUS
<1>4. Devices = {} <=> config.devices = <<>>
  BY <1>1, <1>3 DEF Devices
<1>5. \A i \in Devices : Profiles(i) = {} <=> config.devices[i].profiles = <<>>
  BY <1>2, <1>3 DEF Profiles
<1> QED
  BY <1>1, <1>2, <1>3, <1>4, <1>5 DEF Devices, Profiles

\* The checks of ParseRoot, of BeginDevice, of ParseProfile and of EndProfiles.
LEMMA RootChecked ==
  ASSUME Counters
  PROVE  Checked(<< config.file, config.shape, Require(ValidPort(config.rtsp)),
                    Require(ValidPort(config.start)), Require(config.auth # "incomplete"),
                    Require(config.devices # <<>>) >>) = "ok" <=> RootOk
<1> DEFINE checks == << config.file, config.shape, Require(ValidPort(config.rtsp)),
                        Require(ValidPort(config.start)),
                        Require(config.auth # "incomplete"),
                        Require(config.devices # <<>>) >>
<1>1. DOMAIN checks = 1 .. 6
  OBVIOUS
<1>2. (\A k \in 1 .. 6 : checks[k] = "ok") <=>
        /\ checks[1] = "ok" /\ checks[2] = "ok" /\ checks[3] = "ok"
        /\ checks[4] = "ok" /\ checks[5] = "ok" /\ checks[6] = "ok"
  <2> HIDE DEF checks
  <2> QED OBVIOUS
<1>3. RootOk <=> \A k \in 1 .. 6 : checks[k] = "ok"
  BY <1>2, RawTypes DEF RootOk, Require
<1> HIDE DEF checks
<1>4. Checked(checks) = "ok" <=> \A k \in 1 .. 6 : checks[k] = "ok"
  BY <1>1, AllChecked
<1> QED
  BY <1>3, <1>4 DEF checks

LEMMA HeadChecked ==
  ASSUME Counters, d \in Devices
  PROVE  Checked(<< config.devices[d].shape, Require(Id(d) # EmptyText),
                    config.devices[d].number, Require(ValidPort(Port(d))),
                    Require(config.devices[d].profiles # <<>>) >>) = "ok" <=> HeadOk(d)
<1> DEFINE checks == << config.devices[d].shape, Require(Id(d) # EmptyText),
                        config.devices[d].number, Require(ValidPort(Port(d))),
                        Require(config.devices[d].profiles # <<>>) >>
<1>1. DOMAIN checks = 1 .. 5
  OBVIOUS
<1>2. (\A k \in 1 .. 5 : checks[k] = "ok") <=>
        /\ checks[1] = "ok" /\ checks[2] = "ok" /\ checks[3] = "ok"
        /\ checks[4] = "ok" /\ checks[5] = "ok"
  <2> HIDE DEF checks
  <2> QED OBVIOUS
<1>3. HeadOk(d) <=> \A k \in 1 .. 5 : checks[k] = "ok"
  BY <1>2, RawTypes DEF HeadOk, Require
<1> HIDE DEF checks
<1>4. Checked(checks) = "ok" <=> \A k \in 1 .. 5 : checks[k] = "ok"
  BY <1>1, AllChecked
<1> QED
  BY <1>3, <1>4 DEF checks

LEMMA ProfileChecked ==
  Checked(<< config.devices[d].profiles[p].shape, Require(Token(d, p) # EmptyText),
             Require(Token(d, p) \notin usedTokens), Probe(config.devices[d].profiles[p]),
             Require(ValidCodec(config.devices[d].profiles[p])),
             Require(ValidPath(Path(d, p))), config.devices[d].profiles[p].numbers >>) = "ok"
    <=> ProfileOk(d, p) /\ Token(d, p) \notin usedTokens
<1> DEFINE profile == config.devices[d].profiles[p]
           checks  == << profile.shape, Require(Token(d, p) # EmptyText),
                         Require(Token(d, p) \notin usedTokens), Probe(profile),
                         Require(ValidCodec(profile)), Require(ValidPath(Path(d, p))),
                         profile.numbers >>
<1>1. DOMAIN checks = 1 .. 7
  OBVIOUS
<1>2. (\A k \in 1 .. 7 : checks[k] = "ok") <=>
        /\ checks[1] = "ok" /\ checks[2] = "ok" /\ checks[3] = "ok" /\ checks[4] = "ok"
        /\ checks[5] = "ok" /\ checks[6] = "ok" /\ checks[7] = "ok"
  <2> HIDE DEF checks
  <2> QED OBVIOUS
<1>3. ValidCodec(profile) => Probe(profile) = "ok"
  BY DEF ValidCodec, Probe, Codecs
<1>4. ProfileOk(d, p) /\ Token(d, p) \notin usedTokens
        <=> \A k \in 1 .. 7 : checks[k] = "ok"
  BY <1>2, <1>3 DEF ProfileOk, Require
<1> HIDE DEF checks
<1>5. Checked(checks) = "ok" <=> \A k \in 1 .. 7 : checks[k] = "ok"
  BY <1>1, AllChecked
<1> QED
  BY <1>4, <1>5 DEF checks

LEMMA RestChecked ==
  Checked(<< config.devices[d].rest, Require(PortFree(d)),
             Require(Uuid(d) \notin usedUuids) >>) = "ok"
    <=> /\ config.devices[d].rest = "ok"
        /\ Port(d) \notin usedPorts /\ Uuid(d) \notin usedUuids
<1> DEFINE checks == << config.devices[d].rest, Require(PortFree(d)),
                        Require(Uuid(d) \notin usedUuids) >>
<1>1. DOMAIN checks = 1 .. 3
  OBVIOUS
<1>2. (\A k \in 1 .. 3 : checks[k] = "ok") <=>
        checks[1] = "ok" /\ checks[2] = "ok" /\ checks[3] = "ok"
  <2> HIDE DEF checks
  <2> QED OBVIOUS
<1>3. (config.devices[d].rest = "ok" /\ Port(d) \notin usedPorts /\ Uuid(d) \notin usedUuids)
        <=> \A k \in 1 .. 3 : checks[k] = "ok"
  BY <1>2 DEF Require, PortFree
<1> HIDE DEF checks
<1>4. Checked(checks) = "ok" <=> \A k \in 1 .. 3 : checks[k] = "ok"
  BY <1>1, AllChecked
<1> QED
  BY <1>3, <1>4 DEF checks

LEMMA InitPass == Init => PassInv
<1> SUFFICES ASSUME Init PROVE PassInv
  OBVIOUS
<1> USE DEF Init, Passing, Failed
<1>1. config.devices \in Seq(RawDevices)
  BY RawConfigsAssumption
<1>2. Counters
  BY <1>1 DEF Counters
<1>3. Outcome /\ DeviceAtHand
  BY DEF Outcome, DeviceAtHand
<1>4. 1 .. d - 1 = {}
  OBVIOUS
<1>5. DevicesPassed
  BY <1>4 DEF DevicesPassed
<1>6. \A i \in Devices : \A j \in Profiles(i) : ~PathTaken(i, j)
  BY DEF PathTaken, Devices
<1>7. PathsPassed
  BY <1>6 DEF PathsPassed
<1> QED
  BY <1>2, <1>3, <1>5, <1>7 DEF PassInv

\* Steps that take no path.
LEMMA PathsKept ==
  ASSUME PathsPassed, pc \in Passing, UNCHANGED <<config, usedPaths>>,
         \A i \in Devices : \A j \in Profiles(i) : PathTaken(i, j)' = PathTaken(i, j)
  PROVE  PathsPassed'
<1>1. /\ \A x : x \in usedPaths' <=>
           \E i \in Devices : \E j \in Profiles(i) : PathTaken(i, j)' /\ x = Path(i, j)
      /\ \A i, k \in Devices : \A j \in Profiles(i), l \in Profiles(k) :
           PathTaken(i, j)' /\ PathTaken(k, l)' /\ Path(i, j) = Path(k, l) => i = k /\ j = l
  BY DEF PathsPassed
<1> QED
  BY <1>1, SameValues DEF PathsPassed

\* The pass fails only where the configuration is at fault.
LEMMA FailStep ==
  ASSUME PassInv, ~Good, NEW outcome, Fail(outcome)
  PROVE  PassInv'
<1> USE DEF Fail, Passing, Failed
<1>1. pc' \in Failed /\ UNCHANGED <<config, d, p, used>> /\ ~Good'
  BY SameValues
<1>2. Counters' /\ Outcome'
  BY <1>1 DEF PassInv, Counters, Outcome
<1> QED
  BY <1>1, <1>2 DEF PassInv, DevicesPassed, DeviceAtHand, PathsPassed

LEMMA ParseRootStep == PassInv /\ ParseRoot => PassInv'
<1> SUFFICES ASSUME PassInv, ParseRoot PROVE PassInv'
  OBVIOUS
<1> USE DEF ParseRoot, Passing, Failed
<1>1. ASSUME ~RootOk PROVE PassInv'
  BY <1>1, RootChecked, FailStep DEF PassInv, Good
<1>2. ASSUME RootOk PROVE PassInv'
  <2>1. pc = "root" /\ pc' = "device" /\ UNCHANGED <<config, d, p, used>>
    BY <1>2, RootChecked DEF PassInv, Fail
  <2>2. Counters' /\ Outcome'
    BY <1>2, <2>1, SameValues DEF PassInv, Counters, Outcome
  <2>3. \A i, j : PathTaken(i, j)' = PathTaken(i, j)
    BY <2>1 DEF PathTaken
  <2>4. DevicesPassed' /\ DeviceAtHand'
    BY <2>1, SameValues DEF PassInv, DevicesPassed, DeviceAtHand, used
  <2>5. PathsPassed'
    BY <2>1, <2>3, PathsKept DEF PassInv, used
  <2> QED
    BY <2>2, <2>4, <2>5 DEF PassInv
<1> QED
  BY <1>1, <1>2

LEMMA BeginDeviceStep == PassInv /\ BeginDevice => PassInv'
<1> SUFFICES ASSUME PassInv, BeginDevice PROVE PassInv'
  OBVIOUS
<1> USE DEF BeginDevice, Passing, Failed
<1>1. ASSUME ~HeadOk(d) PROVE PassInv'
  BY <1>1, HeadChecked, FailStep DEF PassInv, Good, DeviceOk
<1>2. ASSUME HeadOk(d) PROVE PassInv'
  <2>1. /\ pc = "device" /\ pc' = "profile" /\ p' = 1 /\ usedTokens' = {}
        /\ UNCHANGED <<config, d, usedPorts, usedUuids, usedPaths>>
        /\ d \in Devices
    BY <1>2, HeadChecked DEF PassInv, Fail, FreshTokens
  <2>2. Counters' /\ Outcome'
    BY <2>1, SameValues DEF PassInv, Counters, Outcome
  <2>3. \A i, j : PathTaken(i, j)' = PathTaken(i, j)
    BY <2>1 DEF PathTaken
  <2>4. DevicesPassed'
    BY <2>1, SameValues DEF PassInv, DevicesPassed
  <2>5. PathsPassed'
    BY <2>1, <2>3, PathsKept DEF PassInv, used
  <2>6. HeadOk(d)' /\ p' <= Len(config'.devices[d'].profiles) + 1
    BY <1>2, <2>1, SameValues, RawTypes DEF PassInv
  <2>7. DeviceAtHand'
    BY <2>1, <2>6 DEF DeviceAtHand
  <2> QED
    BY <2>2, <2>4, <2>5, <2>7 DEF PassInv
<1> QED
  BY <1>1, <1>2

LEMMA ParseProfileStep == PassInv /\ ParseProfile => PassInv'
<1> SUFFICES ASSUME PassInv, ParseProfile PROVE PassInv'
  OBVIOUS
<1> USE DEF ParseProfile, Passing, Failed
<1>1. ASSUME ~ProfileOk(d, p) PROVE PassInv'
  BY <1>1, ProfileChecked, FailStep DEF PassInv, Counters, Good, DeviceOk
<1>2. ASSUME Token(d, p) \in usedTokens PROVE PassInv'
  <2>1. PICK j \in 1 .. p - 1 : Token(d, p) = Token(d, j)
    BY <1>2 DEF PassInv, DeviceAtHand
  <2>2. /\ d \in Devices /\ p \in 1 .. Len(config.devices[d].profiles)
        /\ Len(config.devices[d].profiles) \in Nat
        /\ Profiles(d) = 1 .. Len(config.devices[d].profiles)
    BY RawTypes DEF PassInv, Counters
  <2>3. j \in Profiles(d) /\ j # p
    BY <2>1, <2>2
  <2>4. ~Good
    BY <2>1, <2>2, <2>3 DEF Good, DeviceOk
  <2> QED
    BY <1>2, <2>4, ProfileChecked, FailStep
<1>3. ASSUME ProfileOk(d, p), Token(d, p) \notin usedTokens PROVE PassInv'
  <2>1. /\ pc = "profile" /\ p' = p + 1 /\ usedTokens' = usedTokens \cup {Token(d, p)}
        /\ UNCHANGED <<config, pc, d, usedPorts, usedUuids, usedPaths>>
        /\ d \in Devices /\ p \in Profiles(d) /\ p \in Nat \ {0}
    BY <1>3, ProfileChecked DEF PassInv, Counters, Fail
  <2>2. Counters' /\ Outcome'
    BY <2>1, SameValues DEF PassInv, Counters, Outcome
  <2>3. \A i, j : PathTaken(i, j)' = PathTaken(i, j)
    BY <2>1 DEF PathTaken
  <2>4. DevicesPassed'
    BY <2>1, SameValues DEF PassInv, DevicesPassed
  <2>5. PathsPassed'
    BY <2>1, <2>3, PathsKept DEF PassInv, used
  <2>6. HeadOk(d)' /\ p' <= Len(config'.devices[d'].profiles) + 1
    BY <2>1, SameValues, RawTypes DEF PassInv, DeviceAtHand
  <2>7. 1 .. p' - 1 = 1 .. p - 1 \cup {p}
    BY <2>1
  <2>8. /\ usedTokens' = {Token(d, j) : j \in 1 .. p' - 1}
        /\ \A j \in 1 .. p' - 1 : ProfileOk(d, j)
        /\ \A j, k \in 1 .. p' - 1 : Token(d, j) = Token(d, k) => j = k
    BY <1>3, <2>1, <2>7 DEF PassInv, DeviceAtHand
  <2>9. DeviceAtHand'
    BY <2>1, <2>6, <2>8, SameValues DEF DeviceAtHand
  <2> QED
    BY <2>2, <2>4, <2>5, <2>9 DEF PassInv
<1> QED
  BY <1>1, <1>2, <1>3

LEMMA EndProfilesStep == PassInv /\ EndProfiles => PassInv'
<1> SUFFICES ASSUME PassInv, EndProfiles PROVE PassInv'
  OBVIOUS
<1> USE DEF EndProfiles, Passing, Failed
<1>1. pc = "profile" /\ d \in Devices /\ Profiles(d) = 1 .. p - 1
  BY RawTypes DEF PassInv, Counters, DeviceAtHand
<1>2. ASSUME config.devices[d].rest # "ok" PROVE PassInv'
  BY <1>1, <1>2, RestChecked, FailStep DEF PassInv, Good, DeviceOk
<1>3. ASSUME Port(d) \in usedPorts \/ Uuid(d) \in usedUuids PROVE PassInv'
  <2>1. PICK i \in 1 .. d - 1 : Port(d) = Port(i) \/ Uuid(d) = Uuid(i)
    BY <1>1, <1>3 DEF PassInv, DevicesPassed
  <2>2. i \in Devices /\ i # d
    BY <1>1, <2>1, RawTypes DEF PassInv, Counters
  <2>3. ~Good
    BY <1>1, <2>1, <2>2 DEF Good, Unique
  <2> QED
    BY <1>3, <2>3, RestChecked, FailStep
<1>4. ASSUME config.devices[d].rest = "ok", Port(d) \notin usedPorts, Uuid(d) \notin usedUuids
      PROVE  PassInv'
  <2>1. pc' = "paths" /\ p' = 1 /\ UNCHANGED <<config, d, used>>
    BY <1>4, RestChecked DEF Fail
  <2>2. Counters' /\ Outcome'
    BY <1>1, <2>1, SameValues DEF PassInv, Counters, Outcome
  <2>3. \A i \in Devices : \A j \in Profiles(i) : PathTaken(i, j)' = PathTaken(i, j)
    BY <1>1, <2>1, RawTypes DEF PathTaken, PassInv
  <2>4. DevicesPassed'
    BY <1>1, <2>1, SameValues DEF PassInv, DevicesPassed, used
  <2>5. PathsPassed'
    BY <1>1, <2>1, <2>3, PathsKept DEF PassInv, used
  <2>6. DeviceOk(d)
    BY <1>1, <1>4 DEF PassInv, DeviceAtHand, DeviceOk
  <2>7. DeviceAtHand'
    BY <1>4, <2>1, <2>6, SameValues DEF DeviceAtHand, used
  <2> QED
    BY <2>2, <2>4, <2>5, <2>7 DEF PassInv
<1> QED
  BY <1>2, <1>3, <1>4

LEMMA TakePathStep == PassInv /\ TakePath => PassInv'
<1> SUFFICES ASSUME PassInv, TakePath PROVE PassInv'
  OBVIOUS
<1> USE DEF TakePath, Passing, Failed
<1>1. /\ pc = "paths" /\ d \in Devices /\ p \in Profiles(d) /\ p \in Nat \ {0}
      /\ d \in Nat /\ Devices = 1 .. Len(config.devices) /\ Len(config.devices) \in Nat
  BY RawTypes DEF PassInv, Counters
<1>2. ASSUME Path(d, p) \in usedPaths PROVE PassInv'
  <2>1. PICK i \in Devices : \E j \in Profiles(i) : PathTaken(i, j) /\ Path(d, p) = Path(i, j)
    BY <1>1, <1>2 DEF PassInv, PathsPassed
  <2>2. PICK j \in Profiles(i) : PathTaken(i, j) /\ Path(d, p) = Path(i, j)
    BY <2>1
  <2>3. i # d \/ j # p
    BY <1>1, <2>2 DEF PathTaken
  <2>4. ~Good
    BY <1>1, <2>2, <2>3 DEF Good, Unique
  <2> QED
    BY <1>2, <2>4, FailStep DEF Require
<1>3. ASSUME Path(d, p) \notin usedPaths PROVE PassInv'
  <2>1. /\ p' = p + 1 /\ usedPaths' = usedPaths \cup {Path(d, p)}
        /\ UNCHANGED <<config, pc, d, usedPorts, usedUuids, usedTokens>>
    BY <1>3 DEF Require, Fail
  <2>2. Counters' /\ Outcome'
    BY <1>1, <2>1, SameValues DEF PassInv, Counters, Outcome
  <2>3. \A i \in Devices : \A j \in Profiles(i) :
          PathTaken(i, j)' <=> PathTaken(i, j) \/ (i = d /\ j = p)
    BY <1>1, <2>1, RawTypes DEF PathTaken, PassInv
  <2>4. DevicesPassed' /\ DeviceAtHand'
    BY <1>1, <2>1, SameValues DEF PassInv, DevicesPassed, DeviceAtHand
  <2>5. \A x : x \in usedPaths' <=>
          \E i \in Devices : \E j \in Profiles(i) : PathTaken(i, j)' /\ x = Path(i, j)
    BY <1>1, <2>1, <2>3 DEF PassInv, PathsPassed
  <2>6. \A i, k \in Devices : \A j \in Profiles(i), l \in Profiles(k) :
          PathTaken(i, j)' /\ PathTaken(k, l)' /\ Path(i, j) = Path(k, l) => i = k /\ j = l
    BY <1>1, <1>3, <2>3 DEF PassInv, PathsPassed
  <2>7. PathsPassed'
    BY <2>1, <2>5, <2>6, SameValues DEF PathsPassed
  <2> QED
    BY <2>2, <2>4, <2>7 DEF PassInv
<1> QED
  BY <1>2, <1>3

LEMMA EndDeviceStep == PassInv /\ EndDevice => PassInv'
<1> SUFFICES ASSUME PassInv, EndDevice PROVE PassInv'
  OBVIOUS
<1> USE DEF EndDevice, Passing, Failed
<1>1. /\ pc = "paths" /\ d \in Devices /\ p \notin Profiles(d) /\ p \in Nat \ {0}
      /\ d \in Nat /\ Devices = 1 .. Len(config.devices) /\ Len(config.devices) \in Nat
      /\ pc' = "device" /\ d' = d + 1
      /\ usedPorts' = usedPorts \cup {Port(d)} /\ usedUuids' = usedUuids \cup {Uuid(d)}
      /\ UNCHANGED <<config, p, usedPaths, usedTokens>>
  BY RawTypes DEF PassInv, Counters
<1>2. Counters' /\ Outcome'
  BY <1>1, SameValues DEF PassInv, Counters, Outcome
<1>3. DeviceAtHand'
  BY <1>1 DEF DeviceAtHand
<1>4. 1 .. d' - 1 = 1 .. d - 1 \cup {d}
  BY <1>1
<1>5. /\ \A i \in 1 .. d' - 1 : DeviceOk(i)
      /\ usedPorts' = {Port(i) : i \in 1 .. d' - 1}
      /\ usedUuids' = {Uuid(i) : i \in 1 .. d' - 1}
      /\ \A i, k \in 1 .. d' - 1 : i # k => Port(i) # Port(k) /\ Uuid(i) # Uuid(k)
  BY <1>1, <1>4 DEF PassInv, DevicesPassed, DeviceAtHand
<1>6. DevicesPassed'
  BY <1>1, <1>5, SameValues DEF DevicesPassed
<1>7. \A i \in Devices : \A j \in Profiles(i) : PathTaken(i, j)' = PathTaken(i, j)
  BY <1>1, RawTypes DEF PathTaken, PassInv
<1>8. PathsPassed'
  BY <1>1, <1>7, PathsKept DEF PassInv
<1> QED
  BY <1>2, <1>3, <1>6, <1>8 DEF PassInv

LEMMA AcceptStep == PassInv /\ Accept => PassInv'
<1> SUFFICES ASSUME PassInv, Accept PROVE PassInv'
  OBVIOUS
<1> USE DEF Accept, Passing, Failed
<1>1. /\ pc = "device" /\ d = Len(config.devices) + 1 /\ pc' = "accepted"
      /\ UNCHANGED <<config, d, p, used>>
  BY RawTypes DEF PassInv, Counters
<1>2. Counters' /\ Outcome'
  BY <1>1, SameValues DEF PassInv, Counters, Outcome
<1>3. DevicesPassed' /\ DeviceAtHand'
  BY <1>1, SameValues DEF PassInv, DevicesPassed, DeviceAtHand, used
<1>4. \A i, j : PathTaken(i, j)' = PathTaken(i, j)
  BY <1>1 DEF PathTaken
<1>5. PathsPassed'
  BY <1>1, <1>4, PathsKept DEF PassInv, used
<1> QED
  BY <1>2, <1>3, <1>5 DEF PassInv

LEMMA PassStep == PassInv /\ [Next]_vars => PassInv'
<1>1. PassInv /\ UNCHANGED vars => PassInv'
  <2> SUFFICES ASSUME PassInv, UNCHANGED vars PROVE PassInv'
    OBVIOUS
  <2> USE DEF vars, used
  <2>1. Counters' /\ Outcome' /\ DevicesPassed' /\ DeviceAtHand'
    BY SameValues DEF PassInv, Counters, Outcome, DevicesPassed, DeviceAtHand
  <2>2. \A i, j : PathTaken(i, j)' = PathTaken(i, j)
    BY DEF PathTaken
  <2>3. PathsPassed'
    BY <2>2, PathsKept DEF PassInv, PathsPassed
  <2> QED
    BY <2>1, <2>3 DEF PassInv
<1> QED
  BY <1>1, ParseRootStep, BeginDeviceStep, ParseProfileStep, EndProfilesStep, TakePathStep,
     EndDeviceStep, AcceptStep DEF Next, Terminated

\* What is accepted is well formed and the other way round.
LEMMA PassDecides == PassInv => AcceptsExactly
<1> SUFFICES ASSUME PassInv PROVE AcceptsExactly
  OBVIOUS
<1>1. ASSUME pc = "accepted" PROVE Good
  <2> USE <1>1 DEF Passing, PassInv
  <2>1. Devices = 1 .. d - 1 /\ d \in Nat
    BY RawTypes DEF Outcome, Counters
  <2>2. \A i \in Devices : \A j \in Profiles(i) : PathTaken(i, j)
    BY <2>1 DEF PathTaken
  <2>3. RootOk /\ \A i \in Devices : DeviceOk(i)
    BY <2>1 DEF Outcome, DevicesPassed
  <2>4. Unique
    BY <2>1, <2>2 DEF DevicesPassed, PathsPassed, Unique
  <2> QED
    BY <2>3, <2>4 DEF Good
<1>2. pc = "rejected" => ~Good
  BY DEF PassInv, Outcome, Failed
<1> QED
  BY <1>1, <1>2, GoodIsWellFormed DEF AcceptsExactly

-----------------------------------------------------------------------------
(* The values used.                                                        *)

LEMMA OneSegment ==
  ASSUME NEW s \in STRING
  PROVE  <<s>> \in Texts
<1>1. \A S : \A x \in S : <<x>> \in Seq(S)
  OBVIOUS
<1>2. <<s>> \in Seq(STRING)
  BY <1>1
<1>3. <<s>> # <<>>
  OBVIOUS
<1> QED
  BY <1>2, <1>3 DEF Texts

\* Stripping slashes leaves a text.
LEMMA StrippedText ==
  ASSUME NEW text \in Seq(STRING)
  PROVE  Stripped(text) \in Texts
<1> DEFINE kept == {k \in DOMAIN text : text[k] # ""}
           from == CHOOSE k \in kept : \A l \in kept : k <= l
           to   == CHOOSE k \in kept : \A l \in kept : l <= k
<1>1. CASE kept = {}
  <2>1. Stripped(text) = EmptyText
    BY <1>1 DEF Stripped
  <2> QED
    BY <2>1, OneSegment, NamesAssumption DEF EmptyText
<1>2. CASE kept # {}
  <2>1. Len(text) \in Nat /\ DOMAIN text = 1 .. Len(text)
    OBVIOUS
  <2>2. from \in kept /\ \A l \in kept : from <= l
    <3>1. \A S \in SUBSET (1 .. Len(text)) : S \in SUBSET Nat
      BY <2>1
    <3>2. kept \in SUBSET Nat
      BY <2>1, <3>1
    <3> QED
      BY <1>2, <3>2, Smallest
  <2>3. to \in kept
    <3>1. kept \in SUBSET (1 .. Len(text))
      BY <2>1
    <3> QED
      BY <1>2, <2>1, <3>1, Largest
  <2>4. Stripped(text) = SubSeq(text, from, to)
    BY <1>2 DEF Stripped
  <2> HIDE DEF from, to
  <2>5. from \in 1 .. Len(text) /\ to \in 1 .. Len(text) /\ from <= to
    BY <2>1, <2>2, <2>3
  <2>6. SubSeq(text, from, to) \in Seq(STRING) /\ Len(SubSeq(text, from, to)) = to - from + 1
    BY <2>5
  <2>7. SubSeq(text, from, to) # <<>>
    BY <2>5, <2>6
  <2> QED
    BY <2>4, <2>6, <2>7 DEF Texts
<1> QED
  BY <1>1, <1>2

\* The values that a configuration stands for are texts, defaults or not.
LEMMA Values ==
  ASSUME Counters, NEW i \in Devices
  PROVE  /\ Id(i) \in Texts /\ Uuid(i) \in Seq(STRING)
         /\ \A j \in Profiles(i) : Token(i, j) \in Texts /\ Path(i, j) \in Texts
<1>1. /\ config.devices[i] \in RawDevices
      /\ \A j \in Profiles(i) : config.devices[i].profiles[j] \in RawProfiles
  <2>1. \A S : \A s \in Seq(S) : \A k \in 1 .. Len(s) : s[k] \in S
    OBVIOUS
  <2>2. config.devices[i] \in RawDevices
    BY <2>1, RawTypes
  <2>3. config.devices[i].profiles \in Seq(RawProfiles)
    BY RawTypes
  <2> QED
    BY <2>1, <2>2, <2>3, RawTypes
<1>2. CameraName(i) \in STRING /\ \A j \in Profiles(i) : ProfileName(j) \in STRING
  <2>1. \A S : \A s \in Seq(S) : DOMAIN s = 1 .. Len(s)
    OBVIOUS
  <2>2. i \in DOMAIN config.devices /\ config \in RawConfigs
    BY <2>1, RawTypes DEF Counters
  <2>3. \A j \in Profiles(i) : j \in DOMAIN config.devices[i].profiles
    BY <2>1, RawTypes
  <2> QED
    BY <2>2, <2>3, NamesAssumption
<1>3. \A s \in STRING : <<s>> \in Texts
  BY OneSegment
<1>4. Id(i) \in Texts
  <2>1. config.devices[i].id \in Texts \cup {Absent}
    BY <1>1 DEF RawDevices
  <2> QED
    BY <1>2, <1>3, <2>1 DEF Id, Default
<1>5. \A j \in Profiles(i) : Token(i, j) \in Texts
  <2>1. \A j \in Profiles(i) : config.devices[i].profiles[j].token \in Texts \cup {Absent}
    BY <1>1 DEF RawProfiles
  <2> QED
    BY <1>2, <1>3, <2>1 DEF Token, Default
<1>6. Uuid(i) \in Seq(STRING)
  <2> DEFINE given == config.devices[i].uuid
             uuid  == IF given \in {Absent, EmptyText} THEN Uuid5(Id(i)) ELSE given
  <2>1. given \in Texts \cup {Absent}
    BY <1>1 DEF RawDevices
  <2>2. Uuid5(Id(i)) \in Texts
    <3>1. <<"uuid5">> \in Seq(STRING) /\ Id(i) \in Seq(STRING)
      BY <1>3, <1>4, NamesAssumption DEF Texts
    <3>2. /\ <<"uuid5">> \o Id(i) \in Seq(STRING)
          /\ Len(<<"uuid5">> \o Id(i)) = 1 + Len(Id(i)) /\ Len(Id(i)) \in Nat
      BY <3>1
    <3> QED
      BY <3>2 DEF Uuid5, Texts
  <2>3. uuid \in Texts
    BY <2>1, <2>2 DEF Absent
  <2>4. Uuid(i) = IF uuid[1] = "urn:uuid:" THEN Tail(uuid) ELSE uuid
    BY DEF Uuid
  <2> HIDE DEF uuid
  <2>5. uuid \in Seq(STRING) /\ Tail(uuid) \in Seq(STRING)
    BY <2>3 DEF Texts
  <2> QED
    BY <2>4, <2>5
<1>7. ASSUME NEW j \in Profiles(i) PROVE Path(i, j) \in Texts
  <2>1. config.devices[i].profiles[j].path \in Texts \cup {Absent}
    BY <1>1 DEF RawProfiles
  <2>2. Id(i) \o Token(i, j) \in Seq(STRING)
    BY <1>4, <1>5 DEF Texts
  <2>3. Default(config.devices[i].profiles[j].path, Id(i) \o Token(i, j)) \in Seq(STRING)
    BY <2>1, <2>2 DEF Default, Texts
  <2> QED
    BY <2>3, StrippedText DEF Path
<1> QED
  BY <1>4, <1>5, <1>6, <1>7

LEMMA InitTypes == Init => TypeOK
<1> SUFFICES ASSUME Init PROVE TypeOK
  OBVIOUS
<1>1. Counters
  BY InitPass DEF PassInv
<1> QED
  BY <1>1 DEF Init, TypeOK, Counters

\* A path is checked for its device's profiles one by one.
LEMMA PathsInRange ==
  ASSUME PassInv, TypeOK, [Next]_vars, pc' = "paths"
  PROVE  p' <= Len(config'.devices[d'].profiles) + 1
<1>1. /\ pc \in {"profile", "paths"} => Len(config.devices[d].profiles) \in Nat
      /\ pc \in {"profile", "paths"} => Profiles(d) = 1 .. Len(config.devices[d].profiles)
  BY RawTypes DEF PassInv, Counters
<1>2. CASE EndProfiles
  BY <1>1, <1>2 DEF EndProfiles, Fail
<1>3. CASE TakePath
  BY <1>1, <1>3 DEF TakePath, Fail
<1>4. CASE UNCHANGED vars
  BY <1>4 DEF TypeOK, vars
<1> QED
  BY <1>2, <1>3, <1>4 DEF Next, ParseRoot, BeginDevice, ParseProfile, EndDevice, Accept,
                          Terminated, Fail

\* What is used is what the device or the profile at hand stands for.
LEMMA UsedTypes ==
  ASSUME PassInv, TypeOK, [Next]_vars
  PROVE  /\ usedPorts' \subseteq 1 .. MaxPort
         /\ usedUuids' \subseteq Seq(STRING) /\ usedTokens' \subseteq Texts
         /\ usedPaths' \subseteq Texts
<1> USE DEF TypeOK, used
<1>1. CASE UNCHANGED used
  BY <1>1
<1>2. CASE BeginDevice
  BY <1>2 DEF BeginDevice, Fail, FreshTokens
<1>3. CASE ParseProfile
  <2>1. d \in Devices /\ p \in Profiles(d)
    BY <1>3 DEF ParseProfile, PassInv, Counters
  <2>2. Token(d, p) \in Texts
    BY <2>1, Values DEF PassInv
  <2> QED
    BY <1>3, <2>2 DEF ParseProfile, Fail
<1>4. CASE TakePath
  <2>1. d \in Devices /\ p \in Profiles(d)
    BY <1>4 DEF TakePath, PassInv, Counters
  <2>2. Path(d, p) \in Texts
    BY <2>1, Values DEF PassInv
  <2> QED
    BY <1>4, <2>2 DEF TakePath, Fail
<1>5. CASE EndDevice
  <2>1. d \in Devices /\ ValidPort(Port(d))
    BY <1>5 DEF EndDevice, PassInv, Counters, DeviceAtHand, DeviceOk, HeadOk
  <2>2. Uuid(d) \in Seq(STRING)
    BY <2>1, Values DEF PassInv
  <2> QED
    BY <1>5, <2>1, <2>2 DEF EndDevice, ValidPort
<1> QED
  BY <1>1, <1>2, <1>3, <1>4, <1>5 DEF Next, ParseRoot, EndProfiles, Accept, Terminated, Fail, vars

LEMMA TypeStep == PassInv /\ TypeOK /\ [Next]_vars => TypeOK'
<1> SUFFICES ASSUME PassInv, TypeOK, [Next]_vars PROVE TypeOK'
  OBVIOUS
<1>1. PassInv'
  BY PassStep
<1>2. Counters'
  BY <1>1 DEF PassInv
<1>3. pc' = "profile" => p' <= Len(config'.devices[d'].profiles) + 1
  BY <1>1 DEF PassInv, DeviceAtHand
<1> QED
  BY <1>2, <1>3, PathsInRange, UsedTypes DEF TypeOK, Counters, Passing, Failed

-----------------------------------------------------------------------------
(* The samples.                                                            *)

\* What no check minds as part of a text.
Ordinary(s) == s \notin {"", ".", "..", "urn:uuid:"}

Different(tokens) == \A j, k \in DOMAIN tokens : tokens[j] = tokens[k] => j = k

\* Between two parts that are not empty there is nothing to strip.
LEMMA NothingStripped ==
  ASSUME NEW s, NEW t, Ordinary(s), Ordinary(t)
  PROVE  Stripped(<<s, t>>) = <<s, t>>
<1> DEFINE text == <<s, t>>
           kept == {k \in DOMAIN text : text[k] # ""}
<1>1. /\ text \in Seq({s, t}) /\ Len(text) = 2 /\ DOMAIN text = {1, 2}
      /\ text[1] = s /\ text[2] = t
  BY ShortSeqs
<1> HIDE DEF text
<1>2. kept = {1, 2}
  BY <1>1 DEF Ordinary
<1>3. Stripped(text) = SubSeq(text, 1, 2)
  BY <1>2, OneAndTwo, Zenon DEF Stripped
<1>4. Stripped(text) = text
  BY <1>1, <1>3, SubSeqFull
<1> QED
  BY <1>4 DEF text

LEMMA CameraFields ==
  ASSUME NEW id, NEW port, NEW uuid, NEW tokens,
         NEW camera, camera = Camera(id, port, uuid, tokens)
  PROVE  /\ camera.shape = "ok" /\ camera.number = "ok" /\ camera.rest = "ok"
         /\ camera.id = <<id>> /\ camera.port = <<port>> /\ camera.uuid = <<uuid>>
         /\ camera.profiles = [j \in DOMAIN tokens |-> Stream(id, tokens[j])]
BY DEF Camera

LEMMA StreamFields ==
  ASSUME NEW id, NEW token, NEW stream, stream = Stream(id, token)
  PROVE  /\ stream.shape = "ok" /\ stream.numbers = "ok"
         /\ stream.media = "H265" /\ stream.codec = "probed"
         /\ stream.token = <<token>> /\ stream.path = <<id, token>>
BY DEF Stream

\* A device of the configuration is written as those of the samples are.
IsCamera(i, id, port, uuid, n, tokens) ==
  /\ config.devices[i] = Camera(id, port, uuid, tokens)
  /\ Ordinary(id) /\ Ordinary(uuid)
  /\ n \in Nat /\ DOMAIN tokens = 1 .. n
  /\ \A j \in 1 .. n : Ordinary(tokens[j])

\* What a device stands for that is written as those of the samples are.
LEMMA SampleDevice ==
  ASSUME NEW i, NEW id, NEW port, NEW uuid, NEW n, NEW tokens,
         IsCamera(i, id, port, uuid, n, tokens)
  PROVE  /\ config.devices[i].shape = "ok" /\ config.devices[i].number = "ok"
         /\ config.devices[i].rest = "ok"
         /\ Id(i) = <<id>> /\ Port(i) = port /\ Uuid(i) = <<uuid>>
         /\ Profiles(i) = 1 .. n
         /\ \A j \in 1 .. n : /\ config.devices[i].profiles[j] = Stream(id, tokens[j])
                              /\ Token(i, j) = <<tokens[j]>>
                              /\ Path(i, j) = <<id, tokens[j]>>
<1> USE DEF IsCamera
<1> DEFINE device == config.devices[i]
           streams == [j \in 1 .. n |-> Stream(id, tokens[j])]
<1>1. /\ device.id = <<id>> /\ device.port = <<port>> /\ device.uuid = <<uuid>>
      /\ device.profiles = streams
      /\ device.shape = "ok" /\ device.number = "ok" /\ device.rest = "ok"
  BY CameraFields
<1> HIDE DEF device
<1>2. Id(i) = <<id>> /\ Port(i) = port
  BY <1>1, ShortSeqs DEF Id, Default, Port, Absent, device
<1>3. Uuid(i) = <<uuid>>
  <2>1. <<uuid>> \notin {Absent, EmptyText} /\ <<uuid>>[1] # "urn:uuid:"
    BY ShortSeqs DEF Absent, EmptyText, Ordinary
  <2> QED
    BY <1>1, <2>1 DEF Uuid, device
<1>4. Profiles(i) = 1 .. n
  <2>1. streams \in [1 .. n -> {Stream(id, tokens[j]) : j \in 1 .. n}]
    OBVIOUS
  <2> HIDE DEF streams
  <2>2. Len(streams) = n
    BY <2>1, LenIsDomain
  <2> QED
    BY <1>1, <2>2 DEF Profiles, device
<1>5. ASSUME NEW j \in 1 .. n
      PROVE  /\ config.devices[i].profiles[j] = Stream(id, tokens[j])
             /\ Token(i, j) = <<tokens[j]>> /\ Path(i, j) = <<id, tokens[j]>>
  <2> DEFINE stream == config.devices[i].profiles[j]
  <2>1. stream = Stream(id, tokens[j])
    BY <1>1 DEF device
  <2>2. stream.token = <<tokens[j]>> /\ stream.path = <<id, tokens[j]>>
    BY <2>1, StreamFields
  <2>3. <<tokens[j]>> # Absent /\ <<id, tokens[j]>> # Absent
    BY ShortSeqs DEF Absent
  <2> HIDE DEF stream
  <2>4. Token(i, j) = <<tokens[j]>> /\ Path(i, j) = Stripped(<<id, tokens[j]>>)
    BY <2>2, <2>3 DEF Token, Path, Default, stream
  <2> QED
    BY <2>1, <2>4, NothingStripped DEF stream
<1> QED
  BY <1>1, <1>2, <1>3, <1>4, <1>5 DEF device

\* Its profiles pass, and itself with them.
LEMMA SampleDeviceOk ==
  ASSUME NEW i, NEW id, NEW port, NEW uuid, NEW n, NEW tokens,
         IsCamera(i, id, port, uuid, n, tokens), ValidPort(port), n # 0, Different(tokens)
  PROVE  DeviceOk(i)
<1>1. /\ Id(i) = <<id>> /\ Port(i) = port /\ Profiles(i) = 1 .. n
      /\ \A j \in 1 .. n : /\ config.devices[i].profiles[j] = Stream(id, tokens[j])
                           /\ Token(i, j) = <<tokens[j]>>
                           /\ Path(i, j) = <<id, tokens[j]>>
  BY SampleDevice
<1>2. /\ config.devices[i].shape = "ok" /\ config.devices[i].number = "ok"
      /\ config.devices[i].rest = "ok"
  BY SampleDevice
<1>3. HeadOk(i)
  <2>1. <<id>> # EmptyText
    BY ShortSeqs DEF EmptyText, Ordinary, IsCamera
  <2> QED
    BY <1>1, <1>2, <2>1 DEF HeadOk, IsCamera
<1>4. ASSUME NEW j \in 1 .. n PROVE ProfileOk(i, j)
  <2>1. LET stream == Stream(id, tokens[j]) IN
        stream.shape = "ok" /\ stream.numbers = "ok" /\ ValidCodec(stream)
    BY StreamFields DEF ValidCodec
  <2>2. <<tokens[j]>> # EmptyText
    BY ShortSeqs DEF EmptyText, Ordinary, IsCamera
  <2> DEFINE path == <<id, tokens[j]>>
  <2>3. ValidPath(path)
    <3>1. DOMAIN path = {1, 2} /\ path[1] = id /\ path[2] = tokens[j]
      BY ShortSeqs
    <3> HIDE DEF path
    <3> QED
      BY <3>1 DEF ValidPath, Ordinary, IsCamera
  <2> QED
    BY <1>1, <2>1, <2>2, <2>3 DEF ProfileOk
<1>5. \A j, k \in Profiles(i) : Token(i, j) = Token(i, k) => j = k
  BY <1>1, ShortSeqs DEF Different, IsCamera
<1> QED
  BY <1>1, <1>2, <1>3, <1>4, <1>5 DEF DeviceOk

\* Both are well formed, of one device and of two.
LEMMA SingleGood ==
  ASSUME MaxPort >= 8554, config = Single
  PROVE  Good
<1> DEFINE tokens == <<"main", "sub">>
           device == Camera("camera-1", 8000, "11111111", tokens)
<1>1. /\ config.file = "ok" /\ config.shape = "ok" /\ config.rtsp = 8554
      /\ config.start = 8000 /\ config.auth = "off" /\ config.devices = <<device>>
  BY DEF Single, Sample
<1>2. DOMAIN tokens = 1 .. 2 /\ tokens[1] = "main" /\ tokens[2] = "sub"
  OBVIOUS
<1> HIDE DEF tokens, device
<1>3. Devices = {1} /\ config.devices[1] = device
  <2>1. Len(<<device>>) = 1 /\ <<device>>[1] = device
    BY ShortSeqs
  <2> QED
    BY <1>1, <2>1 DEF Devices
<1>4. IsCamera(1, "camera-1", 8000, "11111111", 2, tokens)
  <2>1. config.devices[1] = Camera("camera-1", 8000, "11111111", tokens)
    BY <1>3 DEF device
  <2>2. Ordinary("camera-1") /\ Ordinary("11111111") /\ Ordinary("main") /\ Ordinary("sub")
    BY DEF Ordinary
  <2>3. 2 \in Nat /\ \A j \in 1 .. 2 : Ordinary(tokens[j])
    BY <1>2, <2>2
  <2> QED
    BY <1>2, <2>1, <2>2, <2>3 DEF IsCamera
<1>5. RootOk
  BY <1>1, <1>3, MaxPortAssumption DEF RootOk, ValidPort
<1>6. DeviceOk(1)
  <2>1. ValidPort(8000) /\ Different(tokens)
    BY <1>2, MaxPortAssumption DEF ValidPort, Different
  <2> QED
    BY <1>4, <2>1, SampleDeviceOk
<1>7. Unique
  <2>1. Profiles(1) = 1 .. 2 /\ \A j \in 1 .. 2 : Path(1, j) = <<"camera-1", tokens[j]>>
    BY <1>4, SampleDevice
  <2>2. \A j, l \in 1 .. 2 : Path(1, j) = Path(1, l) => tokens[j] = tokens[l]
    BY <2>1, ShortSeqs
  <2> QED
    BY <1>2, <1>3, <2>1, <2>2 DEF Unique
<1> QED
  BY <1>3, <1>5, <1>6, <1>7 DEF Good

LEMMA MultiGood ==
  ASSUME MaxPort >= 8554, config = Multi
  PROVE  Good
<1> DEFINE tokens == <<"main">>
           first  == Camera("camera-4k", 8000, "22222222", tokens)
           second == Camera("camera-vga", 8001, "33333333", tokens)
<1>1. /\ config.file = "ok" /\ config.shape = "ok" /\ config.rtsp = 8554
      /\ config.start = 8000 /\ config.auth = "off" /\ config.devices = <<first, second>>
  BY DEF Multi, Sample
<1>2. DOMAIN tokens = 1 .. 1 /\ tokens[1] = "main"
  OBVIOUS
<1> HIDE DEF tokens, first, second
<1>3. Devices = {1, 2} /\ config.devices[1] = first /\ config.devices[2] = second
  <2>1. /\ Len(<<first, second>>) = 2
        /\ <<first, second>>[1] = first /\ <<first, second>>[2] = second
    BY ShortSeqs
  <2> QED
    BY <1>1, <2>1 DEF Devices
<1>4. /\ IsCamera(1, "camera-4k", 8000, "22222222", 1, tokens)
      /\ IsCamera(2, "camera-vga", 8001, "33333333", 1, tokens)
  <2>1. /\ config.devices[1] = Camera("camera-4k", 8000, "22222222", tokens)
        /\ config.devices[2] = Camera("camera-vga", 8001, "33333333", tokens)
    BY <1>3 DEF first, second
  <2>2. /\ Ordinary("camera-4k") /\ Ordinary("22222222") /\ Ordinary("main")
        /\ Ordinary("camera-vga") /\ Ordinary("33333333")
    BY DEF Ordinary
  <2>3. 1 \in Nat /\ \A j \in 1 .. 1 : Ordinary(tokens[j])
    BY <1>2, <2>2
  <2> QED
    BY <1>2, <2>1, <2>2, <2>3 DEF IsCamera
<1>5. RootOk
  BY <1>1, <1>3, MaxPortAssumption DEF RootOk, ValidPort
<1>6. DeviceOk(1) /\ DeviceOk(2)
  <2>1. ValidPort(8000) /\ ValidPort(8001) /\ Different(tokens)
    BY <1>2, MaxPortAssumption DEF ValidPort, Different
  <2> QED
    BY <1>4, <2>1, SampleDeviceOk
<1>7. Unique
  <2>1. /\ Profiles(1) = 1 .. 1 /\ Port(1) = 8000 /\ Uuid(1) = <<"22222222">>
        /\ Path(1, 1) = <<"camera-4k", tokens[1]>>
    BY <1>4, SampleDevice
  <2>2. /\ Profiles(2) = 1 .. 1 /\ Port(2) = 8001 /\ Uuid(2) = <<"33333333">>
        /\ Path(2, 1) = <<"camera-vga", tokens[1]>>
    BY <1>4, SampleDevice
  <2>3. Uuid(1) # Uuid(2) /\ Path(1, 1) # Path(2, 1)
    BY <2>1, <2>2, ShortSeqs
  <2> QED
    BY <1>3, <2>1, <2>2, <2>3 DEF Unique
<1> QED
  BY <1>3, <1>5, <1>6, <1>7 DEF Good

-----------------------------------------------------------------------------
(* The start of what was accepted.                                         *)

\* Who listens once the first servers are bound, and that none of them met
\* MediaMTX; why start() has failed.
LaunchInv ==
  /\ phase \in {"idle", "servers", "serving", "failed"}
  /\ phase # "idle" => pc = "accepted"
  /\ phase \in {"servers", "serving"} =>
       /\ server \in 1 .. Len(config.devices) + 1
       /\ listening = {<<n, MediaMTX>> : n \in OwnPorts \cup {config.rtsp}}
                        \cup {<<Port(i), i>> : i \in 1 .. server - 1}
  /\ phase = "idle" => server = 1
  /\ phase = "serving" => server = Len(config.devices) + 1
  /\ phase \in {"servers", "serving"} =>
       \A i \in 1 .. server - 1 : Port(i) \notin OwnPorts \cup {config.rtsp}
  /\ phase = "failed" => MeetsMediaMTX

LEMMA InitLaunch == LaunchInit => PassInv /\ LaunchInv
BY InitPass DEF LaunchInit, LaunchInv

LEMMA PassDuringLaunch == PassInv /\ [LaunchNext]_allVars => PassInv'
<1>1. [LaunchNext]_allVars => [Next]_vars
  BY DEF LaunchNext, Parse, StartMediaMTX, BindServer, Serve, allVars
<1> QED
  BY <1>1, PassStep

\* Devices that were accepted have ports of their own.
LEMMA OwnPort ==
  ASSUME PassInv, pc = "accepted",
         NEW i \in Devices, NEW k \in Devices, Port(i) = Port(k)
  PROVE  i = k
<1>1. WellFormed
  BY PassDecides DEF AcceptsExactly
<1> QED
  BY <1>1, GoodIsWellFormed DEF Good, Unique

LEMMA LaunchStep == PassInv /\ LaunchInv /\ [LaunchNext]_allVars => LaunchInv'
<1> SUFFICES ASSUME PassInv, LaunchInv, [LaunchNext]_allVars PROVE LaunchInv'
  OBVIOUS
<1>1. /\ config.devices \in Seq(RawDevices) /\ Len(config.devices) \in Nat
      /\ Devices = 1 .. Len(config.devices)
  BY RawTypes DEF PassInv
<1>2. UNCHANGED config => /\ \A i : Port(i)' = Port(i)
                          /\ MeetsMediaMTX' = MeetsMediaMTX
  BY SameValues DEF MeetsMediaMTX
<1>3. CASE Parse
  <2>1. UNCHANGED <<config, phase, listening, server>> /\ (pc = "accepted" => pc' = "accepted")
    BY <1>3 DEF Parse, launchVars, Next, ParseRoot, BeginDevice, ParseProfile, EndProfiles,
                TakePath, EndDevice, Accept, Terminated, Fail, vars
  <2> QED
    BY <1>2, <2>1 DEF LaunchInv
<1>4. CASE StartMediaMTX
  <2>1. UNCHANGED <<config, pc>> /\ pc = "accepted" /\ server = 1 /\ server' = 1
    BY <1>4 DEF StartMediaMTX, LaunchInv, vars
  <2>2. CASE config.rtsp \in OwnPorts /\ phase' = "failed"
    BY <1>2, <2>1, <2>2 DEF LaunchInv, MeetsMediaMTX
  <2>3. CASE phase' = "servers" /\ listening' = {<<n, MediaMTX>> : n \in OwnPorts \cup {config.rtsp}}
    <3>1. 1 .. server' - 1 = {}
      BY <2>1
    <3> QED
      BY <1>1, <1>2, <2>1, <2>3, <3>1 DEF LaunchInv
  <2> QED
    BY <1>4, <2>2, <2>3 DEF StartMediaMTX
<1>5. CASE BindServer
  <2>1. /\ UNCHANGED <<config, pc>> /\ pc = "accepted" /\ phase = "servers"
        /\ server \in Devices /\ server \in Nat /\ server >= 1
    BY <1>1, <1>5 DEF BindServer, LaunchInv, vars
  <2>2. CASE Taken(Port(server)) /\ phase' = "failed"
    <3>1. PICK l \in listening : l[1] = Port(server)
      BY <2>2 DEF Taken
    <3>2. ASSUME NEW i \in 1 .. server - 1, Port(i) = Port(server)
          PROVE  FALSE
      <4>1. i \in Devices /\ i # server
        BY <1>1, <2>1
      <4> QED
        BY <2>1, <3>2, <4>1, OwnPort
    <3>3. l \in {<<n, MediaMTX>> : n \in OwnPorts \cup {config.rtsp}}
      BY <2>1, <3>1, <3>2 DEF LaunchInv
    <3>4. Port(server) \in OwnPorts \cup {config.rtsp}
      BY <3>1, <3>3
    <3>5. MeetsMediaMTX
      BY <2>1, <3>4 DEF MeetsMediaMTX
    <3> QED
      BY <1>2, <2>1, <2>2, <3>5 DEF LaunchInv
  <2>3. CASE /\ <<Port(server), MediaMTX>> \notin listening
             /\ listening' = listening \cup {<<Port(server), server>>}
             /\ server' = server + 1 /\ phase' = phase
    <3>1. 1 .. server' - 1 = 1 .. server - 1 \cup {server}
      BY <2>1, <2>3
    <3>2. Port(server) \notin OwnPorts \cup {config.rtsp}
      BY <2>1, <2>3 DEF LaunchInv
    <3>3. listening' = {<<n, MediaMTX>> : n \in OwnPorts \cup {config.rtsp}}
                         \cup {<<Port(i), i>> : i \in 1 .. server' - 1}
      BY <2>1, <2>3, <3>1 DEF LaunchInv
    <3>4. \A i \in 1 .. server' - 1 : Port(i) \notin OwnPorts \cup {config.rtsp}
      BY <2>1, <3>1, <3>2 DEF LaunchInv
    <3>5. server' \in 1 .. Len(config.devices) + 1
      BY <1>1, <2>1, <2>3
    <3> QED
      BY <1>2, <2>1, <2>3, <3>3, <3>4, <3>5 DEF LaunchInv
  <2> QED
    BY <1>5, <2>2, <2>3 DEF BindServer
<1>6. CASE Serve
  <2>1. /\ UNCHANGED <<config, pc, listening, server>>
        /\ phase = "servers" /\ phase' = "serving" /\ server \notin Devices
    BY <1>6 DEF Serve, vars
  <2>2. server = Len(config.devices) + 1
    BY <1>1, <2>1 DEF LaunchInv
  <2> QED
    BY <1>2, <2>1, <2>2 DEF LaunchInv
<1>7. CASE UNCHANGED allVars
  BY <1>2, <1>7 DEF LaunchInv, allVars, launchVars, vars
<1> QED
  BY <1>3, <1>4, <1>5, <1>6, <1>7 DEF LaunchNext

\* What the pass knows at each of its steps, and the start at each of its.
THEOREM LaunchInvariance == LaunchSpec => [](PassInv /\ LaunchInv)
<1>1. PassInv /\ LaunchInv /\ [LaunchNext]_allVars => (PassInv /\ LaunchInv)'
  BY PassDuringLaunch, LaunchStep
<1> QED
  BY <1>1, InitLaunch, PTL DEF LaunchSpec

\* Each port that is listened on is one of MediaMTX or of a device.
LEMMA ListeningTypes ==
  ASSUME PassInv, LaunchInv, LaunchTypeOK, [LaunchNext]_allVars
  PROVE  /\ \A l \in listening' : /\ l[1] \in OwnPorts \/ l[1] \in 1 .. MaxPort
                                  /\ l[2] \in Devices' \cup {MediaMTX}
         /\ server' \in 1 .. Len(config'.devices) + 1
<1> USE DEF LaunchTypeOK
<1>1. Devices = 1 .. Len(config.devices) /\ Len(config.devices) \in Nat
  BY RawTypes DEF PassInv
<1>2. UNCHANGED config => Devices' = Devices
  BY SameValues
<1>3. phase # "idle" => Good
  BY PassDecides, GoodIsWellFormed DEF AcceptsExactly
<1>4. CASE UNCHANGED <<config, listening, server>>
  BY <1>2, <1>4
<1>5. CASE StartMediaMTX
  <2>1. UNCHANGED config /\ UNCHANGED server /\ config.rtsp \in 1 .. MaxPort
    BY <1>5, PassDecides DEF StartMediaMTX, AcceptsExactly, WellFormed, vars
  <2> QED
    BY <1>2, <1>5, <2>1 DEF StartMediaMTX
<1>6. CASE BindServer
  <2>1. UNCHANGED config /\ server \in Devices /\ Port(server) \in 1 .. MaxPort
    BY <1>3, <1>6 DEF BindServer, Good, DeviceOk, HeadOk, ValidPort, vars
  <2>2. server' \in 1 .. Len(config'.devices) + 1
    BY <1>1, <1>6, <2>1 DEF BindServer
  <2> QED
    BY <1>2, <1>6, <2>1, <2>2 DEF BindServer
<1> QED
  BY <1>4, <1>5, <1>6 DEF LaunchNext, Parse, Serve, Next, ParseRoot, BeginDevice, ParseProfile,
     EndProfiles, TakePath, EndDevice, Accept, Terminated, Fail, vars, launchVars, allVars

LEMMA InitLaunchTypes == LaunchInit => LaunchTypeOK
<1> SUFFICES ASSUME LaunchInit PROVE LaunchTypeOK
  OBVIOUS
<1>1. Init /\ TypeOK /\ PassInv
  BY InitTypes, InitPass DEF LaunchInit
<1>2. Len(config.devices) \in Nat
  BY <1>1, RawTypes DEF PassInv
<1> QED
  BY <1>1, <1>2 DEF LaunchInit, LaunchTypeOK

LEMMA LaunchTypeStep ==
  PassInv /\ LaunchInv /\ LaunchTypeOK /\ [LaunchNext]_allVars => LaunchTypeOK'
<1> SUFFICES ASSUME PassInv, LaunchInv, LaunchTypeOK, [LaunchNext]_allVars
             PROVE  LaunchTypeOK'
  OBVIOUS
<1>1. [Next]_vars
  BY DEF LaunchNext, Parse, StartMediaMTX, BindServer, Serve, allVars
<1>2. TypeOK'
  BY <1>1, TypeStep DEF LaunchTypeOK
<1>3. LaunchInv'
  BY LaunchStep
<1> QED
  BY <1>2, <1>3, ListeningTypes DEF LaunchTypeOK, LaunchInv

\* What the pass keeps of a configuration, and what start() makes of it, is of
\* its type: ports within their range, texts that are not missing, servers of
\* devices that there are.
THEOREM LaunchTypeCorrect == LaunchSpec => []LaunchTypeOK
<1>1. LaunchInit => LaunchTypeOK
  BY InitLaunchTypes
<1>2. PassInv /\ LaunchInv /\ LaunchTypeOK /\ [LaunchNext]_allVars => LaunchTypeOK'
  BY LaunchTypeStep
<1> QED
  BY <1>1, <1>2, LaunchInvariance, PTL DEF LaunchSpec

\* Exactly the well-formed configurations are accepted, whatever they are.
THEOREM Accepts == LaunchSpec => []AcceptsExactly
BY PassDecides, LaunchInvariance, PTL

\* Where ports go as far as those of the samples, as all 65535 do, the parser
\* takes what sample-config prints.
THEOREM SamplesPass ==
  ASSUME MaxPort >= 8554
  PROVE  LaunchSpec => []SamplesAccepted
<1>1. PassInv => SamplesAccepted
  BY SingleGood, MultiGood DEF PassInv, Outcome, Failed, SamplesAccepted
<1> QED
  BY <1>1, LaunchInvariance, PTL

\* Only a port of MediaMTX keeps an accepted configuration from starting, and
\* each port is answered by the device that advertises it.
THEOREM Collides == LaunchSpec => []OnlyMediaMTXCollides
<1>1. ASSUME PassInv, LaunchInv PROVE OnlyMediaMTXCollides
  <2>1. phase = "failed" => MeetsMediaMTX
    BY <1>1 DEF LaunchInv
  <2>2. ASSUME phase = "serving", NEW i \in Devices
        PROVE  {l \in listening : l[1] = Port(i)} = {<<Port(i), i>>}
    <3>1. i \in 1 .. server - 1 /\ 1 .. server - 1 = Devices
      BY <1>1, <2>2, RawTypes DEF LaunchInv, PassInv
    <3>2. <<Port(i), i>> \in listening
      BY <1>1, <2>2, <3>1 DEF LaunchInv
    <3>3. ASSUME NEW l \in listening, l[1] = Port(i)
          PROVE  l = <<Port(i), i>>
      <4>1. l \notin {<<n, MediaMTX>> : n \in OwnPorts \cup {config.rtsp}}
        BY <1>1, <2>2, <3>1, <3>3 DEF LaunchInv
      <4>2. PICK k \in 1 .. server - 1 : l = <<Port(k), k>>
        BY <1>1, <2>2, <4>1 DEF LaunchInv
      <4>3. k = i
        BY <1>1, <2>2, <3>1, <3>3, <4>2, OwnPort DEF LaunchInv
      <4> QED
        BY <4>2, <4>3
    <3> QED
      BY <3>2, <3>3
  <2> QED
    BY <2>1, <2>2 DEF OnlyMediaMTXCollides
<1> QED
  BY <1>1, LaunchInvariance, PTL

=============================================================================
