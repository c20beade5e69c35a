------------------------------ MODULE Metadata ------------------------------
(***************************************************************************)
(* The numbers of a profile: what ffprobe found in the media file, unless  *)
(* the configuration says otherwise.  Config takes their outcome as given; *)
(* this is how it comes about, and what the endpoints announce then.       *)
(*                                                                         *)
(* A number is an integer or one of the values below; one fraction stands  *)
(* for those that are not integers.  A rate is a pair <<n, d>>, or <<>> for *)
(* a text that is none.  Height is treated like width.                     *)
(***************************************************************************)
EXTENDS Outcomes

CONSTANTS
  Inputs   \* pairs of an item, which is what the configuration says, [width,
           \* fps, bitrate, duration], and a payload, which is what ffprobe
           \* says, [stream, codec, width, avg, r, bitrate, formatBitrate,
           \* duration]

None    == -1001      \* null, and for ffprobe also "N/A" and ""
Missing == -1002      \* no such key
Junk    == -1003      \* not a number
NaN     == -1004
Inf     == -1005
Half    == -1006      \* 0.5

IsNumber(v) == v \notin {None, Missing, Junk, NaN, Inf, Half}

Items ==
  [width : Int, fps : Int, bitrate : Int, duration : Int]
Fractions == {<<>>} \cup (Int \X Int)
Payloads ==
  [stream : BOOLEAN, codec : STRING, width : Int, avg : Fractions, r : Fractions,
   bitrate : Int, formatBitrate : Int, duration : Int]

ASSUME InputsAssumption ==
  \A input \in Inputs : input[1] \in Items /\ input[2] \in Payloads

VARIABLES item, payload, result

vars == <<item, payload, result>>

Unparsed == [outcome |-> "unparsed"]
Init == \E input \in Inputs :
          item = input[1] /\ payload = input[2] /\ result = Unparsed

-----------------------------------------------------------------------------
(* _metadata_from_probe.                                                   *)

\* ffprobe writes the bit rate and the duration as texts: int() takes no
\* fraction from one.
OptionalInt(v)   == IF IsNumber(v) THEN v ELSE None
UnlessNegative(v) ==                                            \* faulty
  IF v \in {NaN, Inf, Half} \/ (IsNumber(v) /\ v > 0) THEN v ELSE None
\* Null unless it is > 0, which NaN is not.
OptionalFloat(v) ==
  IF v \in {Inf, Half} \/ (IsNumber(v) /\ v > 0) THEN v ELSE None

\* _probe_fps: the first rate that divides and is positive.
Defined(rate) == rate # <<>> /\ rate[2] # 0                     \* faulty
Usable(rate)  == rate # <<>> /\ rate[2] # 0 /\ rate[1] * rate[2] > 0
Rates(stream) == <<stream.avg, stream.r>>
UsableAt(stream) == {k \in DOMAIN Rates(stream) : Usable(Rates(stream)[k])}
Rate(stream) ==
  Rates(stream)[CHOOSE k \in UsableAt(stream) : \A l \in UsableAt(stream) : k <= l]

\* Python's "or": 0 is as good as None.
UnlessNone(a, b) == IF a = None THEN b ELSE a                   \* faulty
Or(a, b)         == IF a \in {None, 0} THEN b ELSE a

ProbeOutcome ==
  Checked(<< Require(payload.stream), Require(payload.codec # ""),
             Require(OptionalInt(payload.width) # None), Require(UsableAt(payload) # {}) >>)

Probed ==
  [width    |-> OptionalInt(payload.width),
   fps      |-> Rate(payload),
   bitrate  |-> Or(OptionalInt(payload.bitrate), OptionalInt(payload.formatBitrate)),
   duration |-> OptionalFloat(payload.duration)]

-----------------------------------------------------------------------------
(* _parse_profiles.                                                        *)

\* item.get(field, metadata.field)
OrDefault(value, probed) == IF value \in {Missing, None} THEN probed ELSE value  \* faulty
Given(value, probed)     == IF value = Missing THEN probed ELSE value

\* int() truncates a fraction; that of infinity is an OverflowError, which _int
\* does not catch.
Truncated(v) == IF v = Half THEN 0 ELSE v
AsInt(v)     == IF v = Inf THEN "raises" ELSE Require(IsNumber(Truncated(v)))
\* NaN is not <= 0.
NotNegative(v) == Require(v \in {NaN, Inf, Half} \/ (IsNumber(v) /\ v >= 0))  \* faulty
AsFloat(v)     == Require(v \in {NaN, Inf, Half} \/ (IsNumber(v) /\ v > 0))
\* _optional_int, _optional_float: the conversion of v unless it is null.
Optional(v, conversion) == IF v = None THEN "ok" ELSE conversion

Width    == Truncated(Given(item.width, Probed.width))
Fps      == IF item.fps = Missing THEN Probed.fps ELSE <<item.fps, 1>>
Bitrate  == Truncated(Given(item.bitrate, Probed.bitrate))
Duration == Given(item.duration, Probed.duration)

ItemOutcome ==
  Checked(<< AsInt(Width), IF item.fps = Missing THEN "ok" ELSE AsFloat(item.fps),
             Optional(Bitrate, AsInt(Bitrate)),
             Optional(Duration, AsFloat(Duration)) >>)

\* _bitrate_kbps, as the endpoints announce it.
Kbps == CASE Bitrate = None   -> 0
          [] Bitrate >= 2000  -> Bitrate \div 1000
          [] OTHER            -> 1

Parse ==
  /\ result = Unparsed
  /\ result' =
       IF ProbeOutcome # "ok" THEN [outcome |-> ProbeOutcome]
       ELSE IF ItemOutcome # "ok" THEN [outcome |-> ItemOutcome]
       ELSE [outcome |-> "ok", width |-> Width, fps |-> Fps, bitrate |-> Bitrate,
             duration |-> Duration, kbps |-> Kbps]
  /\ UNCHANGED <<item, payload>>

Parsed == result # Unparsed /\ UNCHANGED vars

Next == Parse \/ Parsed

Spec == Init /\ [][Next]_vars

-----------------------------------------------------------------------------
(* Properties.                                                             *)

\* Type invariant: frame rates are positive or, like durations, no finite
\* number at all; and a bit rate of 0 is announced for an unknown one only.
TypeOK ==
  /\ result.outcome \in Outcomes \cup {"unparsed"}
  /\ result.outcome = "ok" =>
       /\ IsNumber(result.width)
       /\ result.fps[1] \in {NaN, Inf, Half} \/ result.fps[1] * result.fps[2] > 0
       /\ result.duration \in {None, NaN, Inf, Half} \/ result.duration > 0
       /\ result.kbps >= 0 /\ (result.kbps = 0 <=> result.bitrate = None)

\* The snapshots take a duration to be a positive length, or unknown, and the
\* endpoints announce a positive rate and size.  Whatever ffprobe says, no
\* division by zero, negative rate or NaN of its becomes such a number: an odd
\* one is there only because the configuration says exactly that, or because
\* ffprobe itself found a size, or an endless file.  And the one error that
\* parse_config does not turn into a ConfigError takes an infinite number in
\* the configuration.
OddNumbersAreExplicit ==
  /\ result.outcome = "raises" => Inf \in {item.width, item.bitrate}
  /\ result.outcome = "ok" =>
       /\ \/ result.fps[1] * result.fps[2] > 0
          \/ item.fps \in {NaN, Inf, Half} /\ result.fps = <<item.fps, 1>>
       /\ \/ result.duration \in {None, Half} \/ result.duration > 0
          \/ item.duration \in {NaN, Inf} /\ result.duration = item.duration
          \/ payload.duration = Inf /\ result.duration = Inf
       /\ \/ result.width > 0
          \/ item.width = Half \/ item.width = result.width
          \/ item.width = Missing /\ payload.width = result.width

\* An explicit value is never replaced by a probed one, not even 0 or null
\* where they are accepted; without one the stream's own value comes before
\* that of the file, and an average rate before a nominal one, if they mean
\* anything.
ExplicitValuesWin ==
  result.outcome = "ok" =>
    /\ item.width # Missing => result.width = Truncated(item.width)
    /\ result.fps = IF item.fps # Missing THEN <<item.fps, 1>>
                    ELSE IF Usable(payload.avg) THEN payload.avg ELSE payload.r
    /\ result.bitrate = IF item.bitrate # Missing THEN Truncated(item.bitrate)
                        ELSE IF IsNumber(payload.bitrate) /\ payload.bitrate # 0
                        THEN payload.bitrate ELSE OptionalInt(payload.formatBitrate)
    /\ item.duration # Missing => result.duration = item.duration

=============================================================================
