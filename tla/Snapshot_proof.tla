--------------------------- MODULE Snapshot_proof ---------------------------
(***************************************************************************)
(* Proofs about Snapshot, for every list of profiles, all durations, any   *)
(* number of handlers and any time.  The invariant follows a start time    *)
(* from the publisher it belongs to through the runtime's dictionary and   *)
(* the handler's copy into the position the handler seeks.                 *)
(***************************************************************************)
EXTENDS Snapshot, TLAPS

Busy == {"lookup", "measure", "seek", "again"}

\* Profile j is the last of the first n with token t.
IsLast(j, t, n) ==
  /\ j <= n /\ Profiles[j].token = t
  /\ \A k \in Indices : k <= n /\ Profiles[k].token = t => k <= j

\* The dictionary of start times.
RuntimeInv ==
  /\ \A i \in Indices : i <= publisher => publishedAt[i] \in 0 .. clock
  /\ \A t \in Tokens : startedAt[t] # NotStarted =>
       \E j \in Indices : IsLast(j, t, publisher) /\ startedAt[t] = publishedAt[j]
  /\ stage \in {"starting", "serving", "stopping"} =>
       \A i \in Indices : i <= publisher => startedAt[Profiles[i].token] # NotStarted
  /\ stage \notin {"starting", "gone"} => publisher = Len(Profiles)

\* The start time of the last publisher with the token of profile i.
StartOfLast(i, time) ==
  \E j \in Indices : IsLast(j, Profiles[i].token, Len(Profiles)) /\ time = publishedAt[j]

\* Where the stream of length or duration n was after a time.
At(n, position, time) ==
  CASE n = 0   -> position = time
    [] n = NaN -> position = NaN
    [] OTHER   -> position < n /\ \E q \in 0 .. MaxClock : time = q * n + position

\* A handler at work.
AtWork(h) ==
  /\ hpc[h] \in Busy =>
       profile[h] \in Indices /\ stage \notin {"starting", "gone"}
  /\ hpc[h] \in {"measure", "seek"} =>
       IF since[h] = NotStarted THEN stage = "cleared" ELSE StartOfLast(profile[h], since[h])
  /\ hpc[h] = "seek" =>
       IF since[h] = NotStarted THEN offset[h] = 0
       ELSE /\ measuredAt[h] >= since[h]
            /\ At(Duration[profile[h]], offset[h], measuredAt[h] - since[h])
  /\ hpc[h] = "again" => offset[h] = 0

HandlerInv == \A h \in Handlers : AtWork(h)

\* Why a picture is refused.
RefusalInv ==
  \A h \in Handlers :
    /\ hpc[h] # "done" => status[h] = "none"
    /\ status[h] = "503" => profile[h] \in Indices /\ media[profile[h]] = "bad"

SnapshotInv == TypeOK /\ RuntimeInv /\ HandlerInv /\ RefusalInv

-----------------------------------------------------------------------------
(* Arithmetic.                                                             *)

\* What is left of a time after whole durations.
LEMMA Remainder ==
  ASSUME NEW x \in Nat, NEW n \in Nat \ {0}
  PROVE  /\ x % n \in 0 .. n - 1 /\ x % n <= x
         /\ x \div n \in 0 .. x /\ x = (x \div n) * n + (x % n)
<1>1. /\ x % n \in 0 .. n - 1 /\ x \div n \in Nat
      /\ x = (x \div n) * n + (x % n)
  OBVIOUS
<1>2. ASSUME NEW q \in Nat, NEW r \in Nat, x = q * n + r
      PROVE  r <= x /\ q <= x
  BY <1>2
<1> QED
  BY <1>1, <1>2

\* The start of the file is formatted as such.
LEMMA FormattedStart == Formatted(0) = 0
<1> DEFINE half == TicksPerMs \div 2
<1>1. TicksPerMs \in Nat \ {0} /\ half \in Nat /\ half < TicksPerMs
  BY TimesAssumption
<1> HIDE DEF half
<1>2. half \div TicksPerMs = 0
  BY <1>1
<1>3. 0 + half = half /\ 0 * TicksPerMs = 0
  BY <1>1
<1> QED
  BY <1>2, <1>3 DEF Formatted, half

-----------------------------------------------------------------------------
(* The invariant.                                                          *)

LEMMA ProfilesTypes ==
  /\ Len(Profiles) \in Nat /\ Indices = 1 .. Len(Profiles)
  /\ \A i \in Indices : Profiles[i].token \in Tokens
  /\ MaxClock \in Nat /\ NotStarted = MaxClock + 1 /\ NaN = -1
BY ProfilesAssumption, TimesAssumption DEF Indices, Tokens, NotStarted, NaN

LEMMA InitSnapshotInv == Init => SnapshotInv
<1> SUFFICES ASSUME Init PROVE SnapshotInv
  OBVIOUS
<1> USE ProfilesTypes DEF Init, NoProfile
<1>1. TypeOK
  BY DEF TypeOK, Times
<1>2. RuntimeInv
  BY DEF RuntimeInv
<1>3. HandlerInv /\ RefusalInv
  BY DEF HandlerInv, AtWork, RefusalInv, Busy
<1> QED
  BY <1>1, <1>2, <1>3 DEF SnapshotInv

\* The position is a time of the run or none.
LEMMA Positions ==
  ASSUME TypeOK, NEW i \in Indices, NEW from \in 0 .. MaxClock
  PROVE  /\ Elapsed(from) \in 0 .. MaxClock
         /\ Wrap(i, from) \in {NaN} \cup 0 .. MaxClock
         /\ from <= clock => At(Duration[i], Wrap(i, from), clock - from)
<1> USE ProfilesTypes
<1>1. Elapsed(from) \in 0 .. MaxClock /\ (from <= clock => Elapsed(from) = clock - from)
  BY DEF TypeOK, Elapsed
<1>2. CASE Duration[i] = 0
  BY <1>1, <1>2 DEF Wrap, At
<1>3. CASE Duration[i] = NaN
  BY <1>1, <1>3 DEF Wrap, At
<1>4. CASE Duration[i] \in Nat \ {0}
  <2> DEFINE n == Duration[i]
             x == Elapsed(from)
  <2>1. Wrap(i, from) = x % n
    BY <1>4 DEF Wrap
  <2>2. n \in Nat \ {0} /\ x \in 0 .. MaxClock /\ x \in Nat
    BY <1>1, <1>4
  <2> HIDE DEF n, x
  <2>3. /\ x % n \in 0 .. n - 1 /\ x % n <= x
        /\ x \div n \in 0 .. x /\ x = (x \div n) * n + (x % n)
    BY <2>2, Remainder
  <2> DEFINE r == x % n
             q == x \div n
  <2>4. r \in 0 .. n - 1 /\ r <= x /\ q \in 0 .. x /\ x = q * n + r
    BY <2>3
  <2> HIDE DEF r, q
  <2>5. r \in 0 .. MaxClock /\ q \in 0 .. MaxClock /\ r < n /\ n # 0
    BY <2>2, <2>4
  <2>6. At(n, r, x)
    BY <2>4, <2>5 DEF At
  <2> QED
    BY <1>1, <2>1, <2>5, <2>6 DEF n, x, r
<1> QED
  BY <1>2, <1>3, <1>4, TimesAssumption

\* Types.
LEMMA TypeStep == SnapshotInv /\ [Next]_vars => TypeOK'
<1> SUFFICES ASSUME SnapshotInv, [Next]_vars PROVE TypeOK'
  OBVIOUS
<1> USE ProfilesTypes DEF TypeOK, Times, runtimeVars, handlerVars, SnapshotInv, NoProfile
<1>1. CASE StartPublisher
  BY <1>1 DEF StartPublisher, StartTime
<1>2. CASE StartServers \/ StopServers \/ Tick
  BY <1>2 DEF StartServers, StopServers, Tick
<1>3. CASE ClearStarted \/ Exit
  BY <1>3 DEF ClearStarted, Exit
<1>4. ASSUME NEW h \in Handlers, NEW e \in Devices, NEW t \in Tokens, Request(h, e, t)
      PROVE  TypeOK'
  <2>1. ByToken(e, t) \in {NoProfile} \cup Indices
    BY DEF ByToken
  <2> QED
    BY <1>4, <2>1 DEF Request, Answer
<1>5. ASSUME NEW h \in Handlers, Lookup(h) PROVE TypeOK'
  <2>1. profile[h] \in Indices /\ startedAt[Profiles[profile[h]].token] \in Times
    BY <1>5 DEF Lookup, HandlerInv, AtWork, Busy
  <2> QED
    BY <1>5, <2>1 DEF Lookup
<1>6. ASSUME NEW h \in Handlers, Measure(h) PROVE TypeOK'
  <2>1. since[h] # NotStarted =>
          Wrap(profile[h], since[h]) \in {NaN} \cup 0 .. MaxClock
    <3>1. profile[h] \in Indices /\ since[h] \in 0 .. MaxClock + 1
      BY <1>6 DEF Measure, HandlerInv, AtWork, Busy
    <3>2. TypeOK
      OBVIOUS
    <3>3. since[h] # NotStarted => since[h] \in 0 .. MaxClock
      BY <3>1
    <3> QED
      BY ONLY <3>1, <3>2, <3>3, Positions
  <2> QED
    BY <1>6, <2>1 DEF Measure
<1>7. ASSUME NEW h \in Handlers, Seek(h) \/ FallBack(h) \/ SeekRaises(h) PROVE TypeOK'
  <2>1. CASE Answer(h, "200") \/ Answer(h, "503") \/ Answer(h, "dropped")
    BY <1>7, <2>1 DEF Seek, FallBack, SeekRaises, Answer, SeekAgain
  <2>2. CASE /\ offset' = [offset EXCEPT ![h] = 0] /\ hpc' = [hpc EXCEPT ![h] = "again"]
             /\ UNCHANGED status
    BY <1>7, <2>2 DEF Seek, FallBack, SeekRaises, Answer
  <2> QED
    BY <1>7, <2>1, <2>2 DEF Seek, FallBack, SeekRaises, SeekAgain
<1>8. CASE UNCHANGED vars
  BY <1>8 DEF vars
<1> QED
  BY <1>1, <1>2, <1>3, <1>4, <1>5, <1>6, <1>7, <1>8 DEF Next, Runtime, Handler, Terminated

\* The dictionary.
LEMMA RuntimeStep == SnapshotInv /\ [Next]_vars => RuntimeInv'
<1> SUFFICES ASSUME TypeOK, RuntimeInv, [Next]_vars PROVE RuntimeInv'
  BY DEF SnapshotInv
<1> USE ProfilesTypes DEF handlerVars
<1>1. CASE StartPublisher
  <2> DEFINE i == publisher + 1
  <2>1. /\ stage = "starting" /\ stage' = stage /\ i \in Indices /\ publisher' = i
        /\ publishedAt' = [publishedAt EXCEPT ![i] = clock]
        /\ startedAt' = [startedAt EXCEPT ![Profiles[i].token] = clock]
        /\ clock' = clock /\ publisher \in Nat /\ clock \in 0 .. MaxClock
    BY <1>1 DEF StartPublisher, StartTime, TypeOK
  <2>2. \A j \in Indices : j <= publisher => publishedAt'[j] = publishedAt[j]
    BY <2>1 DEF TypeOK
  <2>3. publishedAt'[i] = clock
    BY <2>1 DEF TypeOK
  <2>4. \A j \in Indices : j <= publisher' => publishedAt'[j] \in 0 .. clock'
    BY <2>1, <2>2, <2>3 DEF RuntimeInv
  <2>5. ASSUME NEW t \in Tokens, startedAt'[t] # NotStarted
        PROVE  \E j \in Indices : IsLast(j, t, publisher') /\ startedAt'[t] = publishedAt'[j]
    <3>1. CASE t = Profiles[i].token
      <4>1. IsLast(i, t, publisher')
        BY <2>1, <3>1 DEF IsLast
      <4>2. startedAt'[t] = clock
        BY <2>1, <3>1 DEF TypeOK
      <4> QED
        BY <2>1, <2>3, <4>1, <4>2
    <3>2. CASE t # Profiles[i].token
      <4>1. startedAt'[t] = startedAt[t]
        BY <2>1, <3>2 DEF TypeOK
      <4>2. PICK j \in Indices : IsLast(j, t, publisher) /\ startedAt[t] = publishedAt[j]
        BY <2>5, <4>1 DEF RuntimeInv
      <4>3. IsLast(j, t, publisher')
        BY <2>1, <3>2, <4>2 DEF IsLast
      <4>4. publishedAt'[j] = publishedAt[j]
        BY <2>2, <4>2 DEF IsLast
      <4> QED
        BY <4>1, <4>2, <4>3, <4>4
    <3> QED
      BY <3>1, <3>2
  <2>6. ASSUME NEW j \in Indices, j <= publisher'
        PROVE  startedAt'[Profiles[j].token] # NotStarted
    <3>1. CASE Profiles[j].token = Profiles[i].token
      BY <2>1, <3>1 DEF TypeOK
    <3>2. CASE Profiles[j].token # Profiles[i].token
      <4>1. startedAt'[Profiles[j].token] = startedAt[Profiles[j].token] /\ j # i
        BY <2>1, <3>2 DEF TypeOK
      <4> QED
        BY <2>1, <2>6, <4>1 DEF RuntimeInv
    <3> QED
      BY <3>1, <3>2
  <2> QED
    BY <2>1, <2>4, <2>5, <2>6 DEF RuntimeInv
<1>2. CASE StartServers \/ StopServers
  BY <1>2 DEF StartServers, StopServers, RuntimeInv, IsLast
<1>3. CASE ClearStarted \/ Exit
  BY <1>3 DEF ClearStarted, Exit, RuntimeInv, IsLast
<1>4. CASE Tick
  BY <1>4 DEF Tick, runtimeVars, TypeOK, RuntimeInv, IsLast
<1>5. CASE UNCHANGED <<clock, runtimeVars>>
  BY <1>5 DEF runtimeVars, RuntimeInv, IsLast
<1> QED
  BY <1>1, <1>2, <1>3, <1>4, <1>5
     DEF Next, Runtime, Request, Handler, Lookup, Measure, Seek, FallBack, SeekRaises,
         Terminated, vars

\* A step that does not concern a handler.
LEMMA AtWorkKept ==
  ASSUME TypeOK, NEW h \in Handlers, AtWork(h),
         hpc'[h] = hpc[h], profile'[h] = profile[h], since'[h] = since[h],
         measuredAt'[h] = measuredAt[h], offset'[h] = offset[h],
         \/ hpc[h] \notin Busy
         \/ /\ UNCHANGED publishedAt /\ (stage = "cleared" => stage' = "cleared")
            /\ stage \notin {"starting", "gone"} => stage' \notin {"starting", "gone"}
  PROVE  AtWork(h)'
<1>1. CASE hpc[h] \notin Busy
  BY <1>1 DEF AtWork, Busy
<1>2. CASE /\ UNCHANGED publishedAt /\ (stage = "cleared" => stage' = "cleared")
           /\ stage \notin {"starting", "gone"} => stage' \notin {"starting", "gone"}
  BY <1>2 DEF AtWork, Busy, StartOfLast
<1> QED
  BY <1>1, <1>2

\* The handlers.
LEMMA HandlerStep == SnapshotInv /\ [Next]_vars => HandlerInv'
<1> SUFFICES ASSUME TypeOK, RuntimeInv, HandlerInv, [Next]_vars, NEW h \in Handlers
             PROVE  AtWork(h)'
  BY DEF SnapshotInv, HandlerInv
<1> USE ProfilesTypes DEF NoProfile
<1>1. AtWork(h)
  BY DEF HandlerInv
<1>2. CASE UNCHANGED <<runtimeVars, handlerVars>>
  BY <1>1, <1>2, AtWorkKept DEF runtimeVars, handlerVars
<1>3. CASE StartPublisher \/ StartServers
  <2>1. hpc[h] \notin Busy
    BY <1>1, <1>3 DEF StartPublisher, StartServers, AtWork
  <2> QED
    BY <1>1, <1>3, <2>1, AtWorkKept DEF StartPublisher, StartServers, handlerVars
<1>4. CASE StopServers \/ ClearStarted
  BY <1>1, <1>4, AtWorkKept DEF StopServers, ClearStarted, handlerVars
<1>5. CASE Exit
  BY <1>5 DEF Exit, AtWork, Busy
<1>6. ASSUME NEW g \in Handlers, g # h,
             \/ \E e \in Devices, t \in Tokens : Request(g, e, t)
             \/ Handler(g)
      PROVE  AtWork(h)'
  <2>1. /\ hpc'[h] = hpc[h] /\ profile'[h] = profile[h] /\ since'[h] = since[h]
        /\ measuredAt'[h] = measuredAt[h] /\ offset'[h] = offset[h]
        /\ UNCHANGED <<stage, publishedAt>>
    BY <1>6 DEF Request, Handler, Lookup, Measure, Seek, FallBack, SeekRaises, Answer, TypeOK,
                runtimeVars
  <2> QED
    BY <1>1, <2>1, AtWorkKept
<1>7. ASSUME NEW e \in Devices, NEW t \in Tokens, Request(h, e, t)
      PROVE  AtWork(h)'
  <2>1. ByToken(e, t) \in {NoProfile} \cup Indices
    BY DEF ByToken
  <2> QED
    BY <1>7, <2>1 DEF Request, Answer, AtWork, Busy, TypeOK, runtimeVars
<1>8. CASE Lookup(h)
  <2> DEFINE i == profile[h]
             t == Profiles[i].token
  <2>1. /\ i \in Indices /\ t \in Tokens /\ stage \notin {"starting", "gone"}
        /\ publisher = Len(Profiles)
    BY <1>1, <1>8 DEF Lookup, AtWork, Busy, RuntimeInv
  <2>2. IF startedAt[t] = NotStarted THEN stage = "cleared" ELSE StartOfLast(i, startedAt[t])
    <3>1. startedAt[t] = NotStarted => stage = "cleared"
      BY <2>1 DEF RuntimeInv, TypeOK
    <3> QED
      BY <2>1, <3>1 DEF RuntimeInv, StartOfLast
  <2>3. /\ hpc'[h] = "measure" /\ since'[h] = startedAt[t]
        /\ UNCHANGED <<profile, stage, publishedAt>>
    BY <1>8 DEF Lookup, TypeOK, runtimeVars
  <2> HIDE DEF t
  <2> QED
    BY <2>1, <2>2, <2>3 DEF AtWork, Busy, StartOfLast
<1>9. CASE Measure(h)
  <2> DEFINE i == profile[h]
             from == since[h]
  <2>1. /\ i \in Indices /\ stage \notin {"starting", "gone"} /\ publisher = Len(Profiles)
        /\ IF from = NotStarted THEN stage = "cleared" ELSE StartOfLast(i, from)
    BY <1>1, <1>9 DEF Measure, AtWork, Busy, RuntimeInv
  <2>2. /\ hpc'[h] = "seek" /\ measuredAt'[h] = clock
        /\ offset'[h] = IF from = NotStarted THEN 0 ELSE Wrap(i, from)
        /\ UNCHANGED <<profile, since, stage, publishedAt>>
    BY <1>9 DEF Measure, TypeOK, runtimeVars
  <2>3. ASSUME from # NotStarted
        PROVE  StartOfLast(i, from) /\ clock >= from /\ At(Duration[i], Wrap(i, from), clock - from)
    <3>1. PICK j \in Indices : IsLast(j, Profiles[i].token, Len(Profiles)) /\ from = publishedAt[j]
      BY <2>1, <2>3 DEF StartOfLast
    <3>2. from \in 0 .. clock /\ clock \in 0 .. MaxClock
      BY <2>1, <3>1 DEF IsLast, RuntimeInv, TypeOK
    <3>3. from \in 0 .. MaxClock /\ from <= clock /\ clock >= from
      BY <3>2
    <3>4. At(Duration[i], Wrap(i, from), clock - from)
      BY <2>1, <2>3, <3>3, Positions
    <3> QED
      BY <2>1, <2>3, <3>3, <3>4
  <2> HIDE DEF from
  <2>4. StartOfLast(i, from)' <=> StartOfLast(i, from)
    BY <2>2 DEF StartOfLast, from
  <2> QED
    BY <2>1, <2>2, <2>3, <2>4 DEF AtWork, Busy, from
<1>10. CASE Seek(h) \/ FallBack(h) \/ SeekRaises(h)
  <2>1. \/ hpc'[h] = "done"
        \/ hpc[h] = "seek" /\ hpc'[h] = "again" /\ offset'[h] = 0
    BY <1>10 DEF Seek, FallBack, SeekRaises, Answer, SeekAgain, TypeOK
  <2>2. UNCHANGED <<runtimeVars, profile, since>>
    BY <1>10 DEF Seek, FallBack, SeekRaises
  <2> QED
    BY <1>1, <2>1, <2>2 DEF AtWork, Busy, StartOfLast, runtimeVars
<1> QED
  BY <1>2, <1>3, <1>4, <1>5, <1>6, <1>7, <1>8, <1>9, <1>10
     DEF Next, Runtime, Handler, Tick, Terminated, vars

\* A file that can be decoded has a frame at its start.
LEMMA StartHasFrame ==
  ASSUME TypeOK, NEW h \in Handlers, profile[h] \in Indices, ~HasFrame(h, 0)
  PROVE  media[profile[h]] = "bad"
<1>1. Formatted(0) < Length[profile[h]]
  BY FormattedStart, TimesAssumption
<1>2. 0 # NaN
  BY ProfilesTypes
<1> QED
  BY <1>1, <1>2 DEF HasFrame, TypeOK

\* Refusals.
LEMMA RefusalStep == SnapshotInv /\ [Next]_vars => RefusalInv'
<1> SUFFICES ASSUME TypeOK, HandlerInv, RefusalInv, [Next]_vars, NEW h \in Handlers
             PROVE  /\ hpc'[h] # "done" => status'[h] = "none"
                    /\ status'[h] = "503" => profile'[h] \in Indices /\ media'[profile'[h]] = "bad"
  BY DEF SnapshotInv, RefusalInv
<1> USE ProfilesTypes
<1>1. /\ hpc[h] # "done" => status[h] = "none"
      /\ status[h] = "503" => profile[h] \in Indices /\ media[profile[h]] = "bad"
  BY DEF RefusalInv
<1>2. CASE UNCHANGED <<media, handlerVars>>
  BY <1>1, <1>2 DEF handlerVars
<1>3. CASE Exit
  BY <1>1, <1>3 DEF Exit
<1>4. ASSUME NEW g \in Handlers, g # h,
             \/ \E e \in Devices, t \in Tokens : Request(g, e, t)
             \/ Handler(g)
      PROVE  hpc'[h] = hpc[h] /\ profile'[h] = profile[h] /\ status'[h] = status[h] /\ UNCHANGED media
  BY <1>4 DEF Request, Handler, Lookup, Measure, Seek, FallBack, SeekRaises, Answer, TypeOK
<1>5. ASSUME \/ \E e \in Devices, t \in Tokens : Request(h, e, t)
             \/ Lookup(h) \/ Measure(h) \/ SeekRaises(h)
      PROVE  status'[h] # "503" /\ (hpc'[h] # "done" => status'[h] = "none")
  BY <1>1, <1>5 DEF Request, Lookup, Measure, SeekRaises, Answer, TypeOK
<1>6. CASE Seek(h)
  <2>1. profile[h] \in Indices /\ UNCHANGED <<media, profile>> /\ status[h] = "none"
    BY <1>1, <1>6 DEF Seek, HandlerInv, AtWork, Busy
  <2>2. ASSUME ~HasFrame(h, offset[h]), ~TryAgain(h)
        PROVE  media[profile[h]] = "bad"
    <3>1. offset[h] = 0
      BY <2>2 DEF TryAgain, TypeOK
    <3> QED
      BY <2>1, <2>2, <3>1, StartHasFrame DEF TypeOK
  <2>3. CASE HasFrame(h, offset[h]) /\ Answer(h, "200")
    BY <2>1, <2>3 DEF Answer, TypeOK
  <2>4. CASE ~HasFrame(h, offset[h]) /\ ~TryAgain(h) /\ Answer(h, "503")
    BY <2>1, <2>2, <2>4 DEF Answer, TypeOK
  <2>5. CASE UNCHANGED status
    BY <2>1, <2>5
  <2> QED
    BY <1>6, <2>3, <2>4, <2>5 DEF Seek
<1>7. CASE FallBack(h)
  <2>1. /\ profile[h] \in Indices /\ offset[h] = 0 /\ UNCHANGED <<media, profile>>
        /\ status'[h] = (IF HasFrame(h, offset[h]) THEN "200" ELSE "503") /\ hpc'[h] = "done"
    BY <1>7 DEF FallBack, Answer, HandlerInv, AtWork, Busy, TypeOK
  <2> QED
    BY <2>1, StartHasFrame DEF TypeOK
<1> QED
  BY <1>1, <1>2, <1>3, <1>4, <1>5, <1>6, <1>7
     DEF Next, Runtime, StartPublisher, StartServers, StopServers, ClearStarted, Tick,
         Handler, Terminated, vars

\* From the start of a publisher to the position a handler seeks.
THEOREM SnapshotInvariance == Spec => []SnapshotInv
<1>1. SnapshotInv /\ [Next]_vars => SnapshotInv'
  BY TypeStep, RuntimeStep, HandlerStep, RefusalStep DEF SnapshotInv
<1> QED
  BY <1>1, InitSnapshotInv, PTL DEF Spec

\* Types: no clock and no duration makes a position outside of the run's time.
THEOREM SnapshotTypeCorrect == Spec => []TypeOK
<1>1. SnapshotInv => TypeOK
  BY DEF SnapshotInv
<1> QED
  BY <1>1, SnapshotInvariance, PTL

\* A file that can be decoded is never reported as unavailable.
THEOREM HealthyServed == Spec => []HealthyMediaServed
<1>1. SnapshotInv => HealthyMediaServed
  BY DEF SnapshotInv, RefusalInv, HealthyMediaServed
<1> QED
  BY <1>1, SnapshotInvariance, PTL

\* The first position asked for is where the live stream of the profile is,
\* if no other profile has its token; the start of the file is asked for only
\* there or once stop() has cleared the dictionary.
THEOREM FollowsStream == Spec => []SnapshotFollowsStream
<1>1. SnapshotInv => SnapshotFollowsStream
  <2> SUFFICES ASSUME SnapshotInv, NEW h \in Handlers, hpc[h] = "seek", OwnToken(profile[h])
               PROVE  FollowsItsStream(h)
    BY DEF SnapshotFollowsStream
  <2> DEFINE i == profile[h]
  <2>1. i \in Indices /\ AtWork(h)
    BY DEF SnapshotInv, HandlerInv, AtWork, Busy
  <2>2. CASE since[h] = NotStarted
    BY <2>1, <2>2 DEF AtWork, FollowsItsStream
  <2>3. CASE since[h] # NotStarted
    <3>1. PICK j \in Indices : IsLast(j, Profiles[i].token, Len(Profiles)) /\ since[h] = publishedAt[j]
      BY <2>1, <2>3 DEF AtWork, StartOfLast
    <3>2. since[h] = publishedAt[i]
      BY <2>1, <3>1 DEF OwnToken, IsLast
    <3>3. /\ measuredAt[h] >= since[h]
          /\ At(Duration[i], offset[h], measuredAt[h] - since[h])
      BY <2>1, <2>3 DEF AtWork
    <3>4. measuredAt[h] \in Nat /\ since[h] \in Nat
      BY ProfilesTypes DEF SnapshotInv, TypeOK, Times
    <3>5. measuredAt[h] - publishedAt[i] >= 0
      BY <3>2, <3>3, <3>4
    <3> QED
      BY <3>2, <3>3, <3>5 DEF At, FollowsItsStream
  <2> QED
    BY <2>2, <2>3
<1> QED
  BY <1>1, SnapshotInvariance, PTL

=============================================================================
