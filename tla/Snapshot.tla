------------------------------ MODULE Snapshot ------------------------------
(***************************************************************************)
(* GET /snapshot/<token>.jpg: one handler thread per request seeks ffmpeg  *)
(* in the media file to where the live stream of the profile is, which it  *)
(* infers from the time the runtime started the publisher.  The handlers   *)
(* read the runtime's dictionary of start times, keyed by profile token,   *)
(* while the runtime's main thread fills it and, in stop(), clears it; the *)
(* handler threads are daemons that stop() does not wait for.              *)
(*                                                                         *)
(* Time is counted in ticks, TicksPerMs of them to the millisecond, since  *)
(* the seek position is formatted with three decimals of a second.         *)
(***************************************************************************)
EXTENDS Integers, Sequences

CONSTANTS
  Profiles,      \* config.profiles: a sequence of [device, token]
  Duration,      \* Duration[i]: profile.duration in ticks, 0 for None, or NaN
  Length,        \* Length[i]: how long the media file really is, in ticks
  TicksPerMs,
  Handlers,      \* bound: the requests made
  MaxClock       \* bound: ticks

\* Not a number, which YAML can say (.nan) and _float lets through.
NaN == -1

Indices == 1 .. Len(Profiles)
Devices == {Profiles[i].device : i \in Indices}
Tokens  == {Profiles[i].token : i \in Indices}

\* parse_config refuses a token used twice on one device, not on two.
ASSUME ProfilesAssumption ==
  /\ Profiles # <<>>
  /\ \A i, j \in Indices : Profiles[i] = Profiles[j] => i = j
ASSUME TimesAssumption ==
  /\ Duration \in [Indices -> Nat \cup {NaN}]
  /\ Length \in [Indices -> Nat \ {0}]
  /\ TicksPerMs \in Nat \ {0} /\ MaxClock \in Nat

NotStarted == MaxClock + 1      \* no entry in the dictionary
NoProfile  == 0

VARIABLES
  clock,
  media,       \* media[i]: whether ffmpeg can decode the file
  stage,       \* the runtime: "starting", "serving", "stopping", "cleared", "gone"
  publisher,   \* publishers started so far
  publishedAt, \* publishedAt[i]: when the publisher of profile i was started
  startedAt,   \* self._publisher_started_at, by token
  hpc,         \* where handler h is
  profile,     \* the profile it was asked for, on the device it was asked at
  since,       \* its copy of the start time
  measuredAt,  \* when it read the clock
  offset,
  status       \* what it answered, "dropped" for a connection without answer

runtimeVars == <<stage, publisher, publishedAt, startedAt>>
handlerVars == <<hpc, profile, since, measuredAt, offset, status>>
vars == <<clock, media, runtimeVars, handlerVars>>

Init ==
  /\ clock = 0
  /\ media \in [Indices -> {"good", "bad"}]
  /\ stage = "starting" /\ publisher = 0
  /\ publishedAt = [i \in Indices |-> NotStarted]
  /\ startedAt = [t \in Tokens |-> NotStarted]
  /\ hpc = [h \in Handlers |-> "idle"]
  /\ profile = [h \in Handlers |-> NoProfile]
  /\ since = [h \in Handlers |-> NotStarted]
  /\ measuredAt = [h \in Handlers |-> 0]
  /\ offset = [h \in Handlers |-> 0]
  /\ status = [h \in Handlers |-> "none"]

-----------------------------------------------------------------------------
(* The runtime's main thread, as far as snapshots see it.                  *)

OnceForAll(i) == IF i = 1 THEN clock ELSE publishedAt[1]   \* faulty
StartTime(i)  == clock

\* One iteration of _start_publishers.
StartPublisher ==
  /\ stage = "starting" /\ publisher < Len(Profiles)
  /\ LET i == publisher + 1 IN
       /\ publisher' = i
       /\ publishedAt' = [publishedAt EXCEPT ![i] = clock]
       /\ startedAt' = [startedAt EXCEPT ![Profiles[i].token] = StartTime(i)]
  /\ UNCHANGED <<clock, media, stage, handlerVars>>

StartServers ==
  /\ stage = "starting" /\ publisher = Len(Profiles)
  /\ stage' = "serving"
  /\ UNCHANGED <<clock, media, publisher, publishedAt, startedAt, handlerVars>>

\* stop(): shutdown() and server_close() leave the handlers alone.
StopServers ==
  /\ stage = "serving"
  /\ stage' = "stopping"
  /\ UNCHANGED <<clock, media, publisher, publishedAt, startedAt, handlerVars>>

ClearStarted ==
  /\ stage = "stopping"
  /\ stage' = "cleared"
  /\ startedAt' = [t \in Tokens |-> NotStarted]
  /\ UNCHANGED <<clock, media, publisher, publishedAt, handlerVars>>

\* The process ends, stopped or killed, under the handlers still there.
Exit ==
  /\ stage # "gone"
  /\ stage' = "gone"
  /\ hpc' = [h \in Handlers |-> "done"]
  /\ UNCHANGED <<clock, media, publisher, publishedAt, startedAt, profile, since,
                 measuredAt, offset, status>>

Runtime == StartPublisher \/ StartServers \/ StopServers \/ ClearStarted \/ Exit

-----------------------------------------------------------------------------
(* A handler thread: do_GET, _send_snapshot.                               *)

Answer(h, code) ==
  /\ hpc' = [hpc EXCEPT ![h] = "done"]
  /\ status' = [status EXCEPT ![h] = code]

\* The profile of the device with that token.
ByToken(d, t) ==
  IF \E i \in Indices : Profiles[i] = [device |-> d, token |-> t]
  THEN CHOOSE i \in Indices : Profiles[i] = [device |-> d, token |-> t]
  ELSE NoProfile

Request(h, d, t) ==
  /\ stage = "serving" /\ hpc[h] = "idle"
  /\ profile' = [profile EXCEPT ![h] = ByToken(d, t)]
  /\ IF ByToken(d, t) = NoProfile
     THEN Answer(h, "404")
     ELSE hpc' = [hpc EXCEPT ![h] = "lookup"] /\ UNCHANGED status
  /\ UNCHANGED <<clock, media, runtimeVars, since, measuredAt, offset>>

\* stream_started_at.get(profile.token)
Lookup(h) ==
  /\ hpc[h] = "lookup"
  /\ since' = [since EXCEPT ![h] = startedAt[Profiles[profile[h]].token]]
  /\ hpc' = [hpc EXCEPT ![h] = "measure"]
  /\ UNCHANGED <<clock, media, runtimeVars, profile, measuredAt, offset, status>>

\* _snapshot_offset
Rescaled(from) == TicksPerMs * (clock - from)                       \* faulty
Elapsed(from)  == IF clock > from THEN clock - from ELSE 0
StartOfFile(i, from) == 0                                          \* faulty
Wrap(i, from) == CASE Duration[i] = 0   -> Elapsed(from)
                   [] Duration[i] = NaN -> NaN
                   [] OTHER             -> Elapsed(from) % Duration[i]

Measure(h) ==
  /\ hpc[h] = "measure"
  /\ measuredAt' = [measuredAt EXCEPT ![h] = clock]
  /\ offset' = [offset EXCEPT ![h] = IF since[h] = NotStarted THEN 0
                                     ELSE Wrap(profile[h], since[h])]
  /\ hpc' = [hpc EXCEPT ![h] = "seek"]
  /\ UNCHANGED <<clock, media, runtimeVars, profile, since, status>>

\* The position ffmpeg gets: rounded to the millisecond.
Formatted(x) == ((x + TicksPerMs \div 2) \div TicksPerMs) * TicksPerMs

\* What ffmpeg does: a frame if there is one at the position, otherwise an
\* error or no output, which the code takes for the same.
HasFrame(h, x) ==
  media[profile[h]] = "good" /\ x # NaN /\ Formatted(x) < Length[profile[h]]

\* Whether _snapshot_jpeg runs ffmpeg again, and what it does before.  The
\* code raises if offset <= 0, which is not the same as trying if offset > 0.
NeverAgain(h) == FALSE                \* faulty
IfPositive(h) == offset[h] > 0        \* faulty
TryAgain(h)   == ~(offset[h] # NaN /\ offset[h] <= 0)
MeasureAgain  == "measure"            \* faulty
SeekAgain     == "again"

\* The first _run_snapshot_command, at the offset.
Seek(h) ==
  /\ hpc[h] = "seek"
  /\ \/ HasFrame(h, offset[h]) /\ Answer(h, "200") /\ offset' = offset
     \/ /\ ~HasFrame(h, offset[h]) /\ TryAgain(h)
        /\ offset' = [offset EXCEPT ![h] = 0]
        /\ hpc' = [hpc EXCEPT ![h] = SeekAgain]
        /\ UNCHANGED status
     \/ ~HasFrame(h, offset[h]) /\ ~TryAgain(h) /\ Answer(h, "503") /\ offset' = offset
  /\ UNCHANGED <<clock, media, runtimeVars, profile, since, measuredAt>>

\* The second one, at the start of the file.
FallBack(h) ==
  /\ hpc[h] = "again"
  /\ Answer(h, IF HasFrame(h, offset[h]) THEN "200" ELSE "503")
  /\ UNCHANGED <<clock, media, runtimeVars, profile, since, measuredAt, offset>>

\* ffmpeg outlives its ten seconds, or its binary is gone: neither exception
\* is a SnapshotError, the connection is closed without an answer.
SeekRaises(h) ==
  /\ hpc[h] \in {"seek", "again"}
  /\ Answer(h, "dropped")
  /\ UNCHANGED <<clock, media, runtimeVars, profile, since, measuredAt, offset>>

Handler(h) ==
  \/ Lookup(h) \/ Measure(h) \/ Seek(h) \/ FallBack(h) \/ SeekRaises(h)

-----------------------------------------------------------------------------

Tick ==
  /\ clock < MaxClock
  /\ clock' = clock + 1
  /\ UNCHANGED <<media, runtimeVars, handlerVars>>

Terminated == stage = "gone" /\ UNCHANGED vars

Next ==
  \/ Runtime
  \/ \E h \in Handlers, d \in Devices, t \in Tokens : Request(h, d, t)
  \/ \E h \in Handlers : Handler(h)
  \/ Tick
  \/ Terminated

Spec == Init /\ [][Next]_vars

\* A handler thread runs; ffmpeg's ten second timeout ends every run of it.
FairSpec == Spec /\ \A h \in Handlers : WF_vars(Handler(h))

-----------------------------------------------------------------------------
(* Properties.                                                             *)

Times == 0 .. NotStarted

\* Type invariant.
TypeOK ==
  /\ clock \in 0 .. MaxClock
  /\ media \in [Indices -> {"good", "bad"}]
  /\ stage \in {"starting", "serving", "stopping", "cleared", "gone"}
  /\ publisher \in 0 .. Len(Profiles)
  /\ publishedAt \in [Indices -> Times]
  /\ startedAt \in [Tokens -> Times]
  /\ hpc \in [Handlers -> {"idle", "lookup", "measure", "seek", "again", "done"}]
  /\ profile \in [Handlers -> {NoProfile} \cup Indices]
  /\ since \in [Handlers -> Times]
  /\ measuredAt \in [Handlers -> 0 .. MaxClock]
  /\ offset \in [Handlers -> {NaN} \cup 0 .. MaxClock]
  /\ status \in [Handlers -> {"none", "200", "404", "503", "dropped"}]

\* Whatever the configured duration, be it no number at all, the rounding of
\* the position and the moment of the request: a file that ffmpeg can decode
\* is never reported as unavailable, because a seek past its end, or to
\* nowhere, falls back to its start.
HealthyMediaServed ==
  \A h \in Handlers : status[h] = "503" => media[profile[h]] = "bad"

\* When request h read the clock, the stream of its own profile had been
\* running for some time, and the position to seek is where it was: that time
\* less whole durations, where the profile has one.  Only a request that was
\* overtaken by stop() seeks the start of the file instead.
FollowsItsStream(h) ==
  LET i    == profile[h]
      live == measuredAt[h] - publishedAt[i]
  IN  \/ stage = "cleared" /\ offset[h] = 0
      \/ /\ live >= 0
         /\ CASE Duration[i] = 0   -> offset[h] = live
              [] Duration[i] = NaN -> offset[h] = NaN
              [] OTHER -> /\ offset[h] < Duration[i]
                          /\ \E n \in 0 .. MaxClock : live = n * Duration[i] + offset[h]

\* No other profile has the token of profile i, on whatever device.
OwnToken(i) == \A j \in Indices : Profiles[j].token = Profiles[i].token => j = i

\* A snapshot shows what the stream shows: the position that ffmpeg is asked
\* for first (server.py:88) is that of the profile's own publisher, through
\* the runtime's dictionary, the handler's copy and the clock, while the
\* dictionary is filled and cleared.  A token of two devices has one entry in
\* the dictionary, so it is left to EverySnapshotFollowsStream.
SnapshotFollowsStream ==
  \A h \in Handlers : hpc[h] = "seek" /\ OwnToken(profile[h]) => FollowsItsStream(h)

\* The same of every profile that the configuration may have, as the tests
\* say of one: started at 12.0, at 25.5 the offset is 3.5 of 10
\* (test_snapshot_offset_wraps_by_duration).
EverySnapshotFollowsStream ==
  \A h \in Handlers : hpc[h] = "seek" => FollowsItsStream(h)

\* Every request is answered or dropped, or the process ends.
RequestEnds ==
  \A h \in Handlers : (hpc[h] # "idle") ~> (hpc[h] = "done")

=============================================================================
