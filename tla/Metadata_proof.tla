--------------------------- MODULE Metadata_proof ---------------------------
(***************************************************************************)
(* Proofs about the numbers of a profile, for whatever ffprobe and the     *)
(* configuration say.                                                      *)
(***************************************************************************)
EXTENDS Metadata, Outcomes_proof

-----------------------------------------------------------------------------
(* What is probed.                                                         *)

\* The rate taken is the average one, if that means anything.
LEMMA RateTaken ==
  ASSUME UsableAt(payload) # {}
  PROVE  /\ Usable(Rate(payload))
         /\ Rate(payload) = IF Usable(payload.avg) THEN payload.avg ELSE payload.r
<1> DEFINE first == CHOOSE k \in UsableAt(payload) : \A l \in UsableAt(payload) : k <= l
<1>1. /\ DOMAIN Rates(payload) = 1 .. 2
      /\ Rates(payload)[1] = payload.avg /\ Rates(payload)[2] = payload.r
  BY DEF Rates
<1>2. UsableAt(payload) \in SUBSET Nat
  BY <1>1 DEF UsableAt
<1>3. first \in UsableAt(payload) /\ \A l \in UsableAt(payload) : first <= l
  BY <1>2, Smallest
<1> HIDE DEF first
<1>4. first \in 1 .. 2 /\ Usable(Rates(payload)[first])
  BY <1>1, <1>3 DEF UsableAt
<1>5. Usable(payload.avg) => 1 \in UsableAt(payload)
  BY <1>1 DEF UsableAt
<1>6. first = IF Usable(payload.avg) THEN 1 ELSE 2
  BY <1>1, <1>3, <1>4, <1>5
<1>7. Rate(payload) = Rates(payload)[first]
  BY DEF Rate, first
<1> QED
  BY <1>1, <1>4, <1>6, <1>7

\* Usable integers, or nothing.
LEMMA ProbedNumbers ==
  ASSUME payload \in Payloads
  PROVE  /\ Probed.width = OptionalInt(payload.width)
         /\ Probed.width = None \/ IsNumber(Probed.width)
         /\ Probed.fps = Rate(payload)
         /\ Probed.bitrate \in Int
         /\ Probed.bitrate = IF IsNumber(payload.bitrate) /\ payload.bitrate # 0
                             THEN payload.bitrate ELSE OptionalInt(payload.formatBitrate)
         /\ Probed.duration \in Int
         /\ \/ Probed.duration \in {None, Half} \/ Probed.duration > 0
            \/ Probed.duration = Inf /\ payload.duration = Inf
<1> USE DEF Payloads, None, Missing, Junk, NaN, Inf, Half, IsNumber
<1>1. Probed.duration = OptionalFloat(payload.duration)
  BY DEF Probed
<1>2. Probed.bitrate = Or(OptionalInt(payload.bitrate), OptionalInt(payload.formatBitrate))
  BY DEF Probed
<1>3. Probed.width = OptionalInt(payload.width) /\ Probed.fps = Rate(payload)
  BY DEF Probed
<1>4. /\ OptionalInt(payload.bitrate) \in Int /\ OptionalInt(payload.formatBitrate) \in Int
      /\ Probed.width = None \/ IsNumber(Probed.width)
  BY <1>3 DEF OptionalInt
<1>5. Probed.bitrate = IF IsNumber(payload.bitrate) /\ payload.bitrate # 0
                       THEN payload.bitrate ELSE OptionalInt(payload.formatBitrate)
  BY <1>2 DEF OptionalInt, Or
<1>6. /\ Probed.duration \in Int
      /\ \/ Probed.duration \in {None, Half} \/ Probed.duration > 0
         \/ Probed.duration = Inf /\ payload.duration = Inf
  BY <1>1 DEF OptionalFloat
<1> QED
  BY <1>3, <1>4, <1>5, <1>6 DEF OptionalInt

-----------------------------------------------------------------------------
(* What is accepted.                                                       *)

\* The numbers are those of the configuration, or the probed ones, and have
\* passed their conversions.
LEMMA ProbeAccepted ==
  ProbeOutcome = "ok" <=> /\ payload.stream /\ payload.codec # ""
                          /\ OptionalInt(payload.width) # None /\ UsableAt(payload) # {}
<1> DEFINE checks == << Require(payload.stream), Require(payload.codec # ""),
                        Require(OptionalInt(payload.width) # None),
                        Require(UsableAt(payload) # {}) >>
<1>1. DOMAIN checks = 1 .. 4
  OBVIOUS
<1>2. (\A k \in 1 .. 4 : checks[k] = "ok") <=>
        /\ checks[1] = "ok" /\ checks[2] = "ok" /\ checks[3] = "ok" /\ checks[4] = "ok"
  <2> HIDE DEF checks
  <2> QED OBVIOUS
<1>3. (\A k \in 1 .. 4 : checks[k] = "ok") <=>
        /\ payload.stream /\ payload.codec # ""
        /\ OptionalInt(payload.width) # None /\ UsableAt(payload) # {}
  BY <1>2 DEF Require
<1>4. ProbeOutcome = Checked(checks)
  BY DEF ProbeOutcome
<1> HIDE DEF checks
<1>5. Checked(checks) = "ok" <=> \A k \in 1 .. 4 : checks[k] = "ok"
  BY <1>1, AllChecked
<1> QED
  BY <1>3, <1>4, <1>5

LEMMA ItemAccepted ==
  ItemOutcome = "ok" <=>
    /\ AsInt(Width) = "ok"
    /\ item.fps # Missing => AsFloat(item.fps) = "ok"
    /\ Optional(Bitrate, AsInt(Bitrate)) = "ok"
    /\ Optional(Duration, AsFloat(Duration)) = "ok"
<1> DEFINE checks == << AsInt(Width), IF item.fps = Missing THEN "ok" ELSE AsFloat(item.fps),
                        Optional(Bitrate, AsInt(Bitrate)),
                        Optional(Duration, AsFloat(Duration)) >>
<1>1. DOMAIN checks = 1 .. 4
  OBVIOUS
<1>2. (\A k \in 1 .. 4 : checks[k] = "ok") <=>
        /\ checks[1] = "ok" /\ checks[2] = "ok" /\ checks[3] = "ok" /\ checks[4] = "ok"
  <2> HIDE DEF checks
  <2> QED OBVIOUS
<1>3. ItemOutcome = Checked(checks)
  BY DEF ItemOutcome
<1>4. /\ checks[1] = AsInt(Width)
      /\ checks[2] = IF item.fps = Missing THEN "ok" ELSE AsFloat(item.fps)
      /\ checks[3] = Optional(Bitrate, AsInt(Bitrate))
      /\ checks[4] = Optional(Duration, AsFloat(Duration))
  OBVIOUS
<1> HIDE DEF checks
<1>5. Checked(checks) = "ok" <=> \A k \in 1 .. 4 : checks[k] = "ok"
  BY <1>1, AllChecked
<1> QED
  BY <1>2, <1>3, <1>4, <1>5

\* However the checks go, they go in one of the ways there are.
LEMMA OutcomesOfChecks == ProbeOutcome \in Outcomes /\ ItemOutcome \in Outcomes
<1> USE DEF Outcomes, Require, AsInt, AsFloat, Optional
<1>1. ProbeOutcome \in Outcomes
  <2> DEFINE checks == << Require(payload.stream), Require(payload.codec # ""),
                          Require(OptionalInt(payload.width) # None),
                          Require(UsableAt(payload) # {}) >>
  <2>1. DOMAIN checks = 1 .. 4 /\ \A k \in 1 .. 4 : checks[k] \in Outcomes
    OBVIOUS
  <2>2. ProbeOutcome = Checked(checks)
    BY DEF ProbeOutcome
  <2> HIDE DEF checks
  <2> QED
    BY <2>1, <2>2, OneOfChecked
<1>2. ItemOutcome \in Outcomes
  <2> DEFINE checks == << AsInt(Width), IF item.fps = Missing THEN "ok" ELSE AsFloat(item.fps),
                          Optional(Bitrate, AsInt(Bitrate)),
                          Optional(Duration, AsFloat(Duration)) >>
  <2>1. DOMAIN checks = 1 .. 4 /\ \A k \in 1 .. 4 : checks[k] \in Outcomes
    OBVIOUS
  <2>2. ItemOutcome = Checked(checks)
    BY DEF ItemOutcome
  <2> HIDE DEF checks
  <2> QED
    BY <2>1, <2>2, OneOfChecked
<1> QED
  BY <1>1, <1>2

\* An infinite number is all that is not turned into a ConfigError.
LEMMA OnlyInfinityRaises ==
  ASSUME payload \in Payloads
  PROVE  /\ ProbeOutcome # "raises"
         /\ ItemOutcome = "raises" => Inf \in {item.width, item.bitrate}
<1> USE DEF Require
<1>1. ProbeOutcome # "raises"
  <2> DEFINE checks == << Require(payload.stream), Require(payload.codec # ""),
                          Require(OptionalInt(payload.width) # None),
                          Require(UsableAt(payload) # {}) >>
  <2>1. DOMAIN checks = 1 .. 4 /\ \A k \in 1 .. 4 : checks[k] \in {"ok", "rejects"}
    OBVIOUS
  <2>2. ProbeOutcome = Checked(checks)
    BY DEF ProbeOutcome
  <2> HIDE DEF checks
  <2> QED
    BY <2>1, <2>2, OneOfChecked
<1>2. ASSUME Inf \notin {item.width, item.bitrate} PROVE ItemOutcome # "raises"
  <2> DEFINE checks == << AsInt(Width), IF item.fps = Missing THEN "ok" ELSE AsFloat(item.fps),
                          Optional(Bitrate, AsInt(Bitrate)),
                          Optional(Duration, AsFloat(Duration)) >>
  <2>1. Width # Inf /\ Bitrate # Inf
    <3> USE DEF None, Missing, Junk, NaN, Inf, Half, IsNumber
    <3>1. Probed.width # Inf /\ Probed.bitrate # Inf
      BY ProbedNumbers DEF OptionalInt
    <3> QED
      BY <1>2, <3>1 DEF Width, Bitrate, Given, Truncated
  <2>2. DOMAIN checks = 1 .. 4 /\ \A k \in 1 .. 4 : checks[k] \in {"ok", "rejects"}
    BY <2>1 DEF AsInt, AsFloat, Optional
  <2>3. ItemOutcome = Checked(checks)
    BY DEF ItemOutcome
  <2> HIDE DEF checks
  <2> QED
    BY <2>2, <2>3, OneOfChecked
<1> QED
  BY <1>1, <1>2

-----------------------------------------------------------------------------
(* The result.                                                             *)

MetadataInv ==
  /\ item \in Items /\ payload \in Payloads
  /\ TypeOK /\ OddNumbersAreExplicit /\ ExplicitValuesWin

\* What is accepted is fit for use and as the configuration wants it.
LEMMA ParseStep ==
  ASSUME item \in Items, payload \in Payloads, Parse
  PROVE  TypeOK' /\ OddNumbersAreExplicit' /\ ExplicitValuesWin'
<1> USE DEF None, Missing, Junk, NaN, Inf, Half, IsNumber
<1>1. UNCHANGED <<item, payload>>
  BY DEF Parse
<1>2. CASE ProbeOutcome # "ok" \/ ItemOutcome # "ok"
  <2>1. PICK o \in Outcomes \ {"ok"} :
          result' = [outcome |-> o] /\ (o = "raises" => Inf \in {item.width, item.bitrate})
    BY <1>2, OutcomesOfChecks, OnlyInfinityRaises DEF Parse
  <2>2. result'.outcome = o
    BY <2>1
  <2> QED
    BY <1>1, <2>1, <2>2 DEF TypeOK, OddNumbersAreExplicit, ExplicitValuesWin
<1>3. CASE ProbeOutcome = "ok" /\ ItemOutcome = "ok"
  <2>1. /\ result'.outcome = "ok" /\ result'.width = Width /\ result'.fps = Fps
        /\ result'.bitrate = Bitrate /\ result'.duration = Duration /\ result'.kbps = Kbps
    BY <1>3 DEF Parse
  <2>2. /\ IsNumber(Width)
        /\ item.width # Missing => Width = Truncated(item.width)
        /\ item.width = Missing => Width \in {payload.width, None}
    <3>1. AsInt(Width) = "ok"
      BY <1>3, ItemAccepted
    <3>2. Width = Truncated(Given(item.width, Probed.width))
      BY DEF Width
    <3>3. Probed.width \in {payload.width, None} /\ Truncated(Probed.width) = Probed.width
      BY ProbedNumbers DEF OptionalInt, Truncated
    <3> QED
      BY <3>1, <3>2, <3>3 DEF AsInt, Require, Given, Truncated
  <2>3. /\ \/ Fps[1] * Fps[2] > 0
           \/ item.fps \in {NaN, Inf, Half} /\ Fps = <<item.fps, 1>> /\ Fps[1] = item.fps
        /\ Fps = IF item.fps # Missing THEN <<item.fps, 1>>
                 ELSE IF Usable(payload.avg) THEN payload.avg ELSE payload.r
    <3>1. CASE item.fps # Missing
      <4>1. AsFloat(item.fps) = "ok" /\ Fps = <<item.fps, 1>> /\ item.fps \in Int
        BY <1>3, <3>1, ItemAccepted DEF Fps, Items
      <4>2. item.fps \in {NaN, Inf, Half} \/ item.fps > 0
        BY <4>1 DEF AsFloat, Require
      <4>3. Fps[1] = item.fps /\ Fps[2] = 1 /\ item.fps * 1 = item.fps
        BY <4>1
      <4>4. item.fps \in {NaN, Inf, Half} \/ Fps[1] * Fps[2] > 0
        BY <4>2, <4>3
      <4> QED
        BY <3>1, <4>1, <4>3, <4>4
    <3>2. CASE item.fps = Missing
      <4>1. Fps = Rate(payload) /\ UsableAt(payload) # {}
        <5>1. Fps = Probed.fps
          BY <3>2 DEF Fps
        <5>2. Probed.fps = Rate(payload)
          BY ProbedNumbers
        <5>3. UsableAt(payload) # {}
          BY <1>3, ProbeAccepted
        <5> QED
          BY <5>1, <5>2, <5>3
      <4>2. /\ Usable(Rate(payload))
            /\ Rate(payload) = IF Usable(payload.avg) THEN payload.avg ELSE payload.r
        BY <4>1, RateTaken
      <4>3. Fps[1] * Fps[2] > 0
        BY <4>1, <4>2 DEF Usable
      <4> QED
        BY <3>2, <4>1, <4>2, <4>3
    <3> QED
      BY <3>1, <3>2
  <2>4. /\ Kbps >= 0 /\ (Kbps = 0 <=> Bitrate = None)
        /\ Bitrate = IF item.bitrate # Missing THEN Truncated(item.bitrate)
                     ELSE IF IsNumber(payload.bitrate) /\ payload.bitrate # 0
                     THEN payload.bitrate ELSE OptionalInt(payload.formatBitrate)
    <3>1. Bitrate \in Int
      BY ProbedNumbers DEF Bitrate, Truncated, Given, Items
    <3>2. Kbps >= 0 /\ (Kbps = 0 <=> Bitrate = None)
      BY <3>1 DEF Kbps
    <3>3. Bitrate = IF item.bitrate # Missing THEN Truncated(item.bitrate)
                                               ELSE Truncated(Probed.bitrate)
      BY DEF Bitrate, Given
    <3>4. Probed.bitrate = IF IsNumber(payload.bitrate) /\ payload.bitrate # 0
                           THEN payload.bitrate ELSE OptionalInt(payload.formatBitrate)
      BY ProbedNumbers
    <3>5. Truncated(Probed.bitrate) = Probed.bitrate
      BY <3>4 DEF Truncated, OptionalInt
    <3> QED
      BY <3>2, <3>3, <3>4, <3>5
  <2>5. /\ \/ Duration \in {None, Half} \/ Duration > 0
           \/ item.duration \in {NaN, Inf} /\ Duration = item.duration
           \/ payload.duration = Inf /\ Duration = Inf
        /\ item.duration # Missing => Duration = item.duration
    <3>1. Optional(Duration, AsFloat(Duration)) = "ok"
      BY <1>3, ItemAccepted
    <3>2. Duration = IF item.duration = Missing THEN Probed.duration ELSE item.duration
      BY DEF Duration, Given
    <3>3. CASE item.duration = Missing
      BY <3>2, <3>3, ProbedNumbers
    <3>4. CASE item.duration # Missing
      BY <3>1, <3>2, <3>4 DEF Optional, AsFloat, Require
    <3> QED
      BY <3>3, <3>4
  <2>6. TypeOK'
    BY <2>1, <2>2, <2>3, <2>4, <2>5 DEF TypeOK, Outcomes
  <2>7. OddNumbersAreExplicit'
    <3>1. \/ Width > 0 \/ item.width = Half \/ item.width = Width
          \/ item.width = Missing /\ payload.width = Width
      BY <2>2 DEF Truncated
    <3> QED
      BY <1>1, <2>1, <2>3, <2>5, <3>1 DEF OddNumbersAreExplicit
  <2>8. ExplicitValuesWin'
    BY <1>1, <2>1, <2>2, <2>3, <2>4, <2>5 DEF ExplicitValuesWin
  <2> QED
    BY <2>6, <2>7, <2>8
<1> QED
  BY <1>2, <1>3

THEOREM MetadataInvariance == Spec => []MetadataInv
<1>1. Init => MetadataInv
  BY InputsAssumption DEF Init, MetadataInv, TypeOK, OddNumbersAreExplicit, ExplicitValuesWin, Unparsed
<1>2. MetadataInv /\ [Next]_vars => MetadataInv'
  <2> SUFFICES ASSUME MetadataInv, [Next]_vars PROVE MetadataInv'
    OBVIOUS
  <2>1. CASE Parse
    BY <2>1, ParseStep DEF MetadataInv, Parse
  <2>2. CASE Parsed \/ UNCHANGED vars
    BY <2>2 DEF MetadataInv, Parsed, vars, TypeOK, OddNumbersAreExplicit, ExplicitValuesWin
  <2> QED
    BY <2>1, <2>2 DEF Next
<1> QED
  BY <1>1, <1>2, PTL DEF Spec

\* Rates and durations are positive or no finite numbers, whatever a file and
\* a configuration say.
THEOREM MetadataTypeCorrect == Spec => []TypeOK
<1>1. MetadataInv => TypeOK
  BY DEF MetadataInv
<1> QED
  BY <1>1, MetadataInvariance, PTL

\* Numbers that are not positive and finite are there only because the
\* configuration says exactly that, or ffprobe found a size or an endless file.
THEOREM OddNumbersTold == Spec => []OddNumbersAreExplicit
<1>1. MetadataInv => OddNumbersAreExplicit
  BY DEF MetadataInv
<1> QED
  BY <1>1, MetadataInvariance, PTL

\* Explicit values are never replaced by probed ones.
THEOREM ExplicitWins == Spec => []ExplicitValuesWin
<1>1. MetadataInv => ExplicitValuesWin
  BY DEF MetadataInv
<1> QED
  BY <1>1, MetadataInvariance, PTL

=============================================================================
