--------------------------- MODULE Session_proof ---------------------------
(***************************************************************************)
(* Proofs about Session, for every set of configurations, logins and       *)
(* requests: what single requests get, and that a login is judged alike by *)
(* every service and by MediaMTX.                                          *)
(***************************************************************************)
EXTENDS Session, Launch_proof

-----------------------------------------------------------------------------
(* Logins.                                                                 *)

\* The header says what its sender meant.
LEMMA LoginJudged ==
  ASSUME NEW login \in Logins \cup {Anonymous}
  PROVE  Authorized(Header(login)) <=> Granted(login)
<1>1. CASE login.way = "none"
  BY <1>1 DEF Header, Authorized, Granted, Logins, Absent, Username
<1>2. CASE login.way = "text"
  BY <1>2 DEF Header, Authorized, Granted, Absent, Username, Password, Plain
<1>3. CASE login.way = "untyped"
  BY <1>3 DEF Header, Authorized, Granted, Absent, Username, Password, Plain
<1>4. CASE login.way = "digest"
  BY <1>4 DEF Header, Authorized, Granted, ValidDigest, Absent, Username, Password, Plain, Sha1
<1>5. CASE login.way \in {"old digest", "altered digest"}
  BY <1>5 DEF Header, Authorized, Granted, ValidDigest, Absent, Username, Password, Plain, Sha1
<1>6. CASE login.way \in {"bare digest", "bad nonce"}
  BY <1>6 DEF Header, Authorized, Granted, ValidDigest, Absent, Username, Password, Plain, Sha1
<1>7. login.way \in {"none", "text", "untyped", "digest", "old digest", "altered digest",
                     "bare digest", "bad nonce"}
  <2>1. CASE login = Anonymous
    BY <2>1 DEF Anonymous
  <2>2. CASE login \in Logins
    BY <2>2 DEF Logins
  <2> QED
    BY <2>1, <2>2
<1> QED
  BY <1>1, <1>2, <1>3, <1>4, <1>5, <1>6, <1>7

-----------------------------------------------------------------------------
(* URIs.                                                                   *)

\* What FlattenSeq makes of s: after its first i parts, f[i].
Flattens(s, f) ==
  f = [i \in 1 .. Len(s) |-> IF i = 1 THEN s[i] ELSE f[i - 1] \o s[i]]

\* There is but one such f.
LEMMA FlattenedOnce ==
  ASSUME NEW s, NEW n \in Nat \ {0}, Len(s) = n,
         NEW f, Flattens(s, f), NEW g, Flattens(s, g)
  PROVE  f = g
<1> DEFINE apart == {i \in 1 .. n : f[i] # g[i]}
<1>1. /\ \A i \in 1 .. n : f[i] = IF i = 1 THEN s[i] ELSE f[i - 1] \o s[i]
      /\ \A i \in 1 .. n : g[i] = IF i = 1 THEN s[i] ELSE g[i - 1] \o s[i]
      /\ f = [i \in 1 .. n |-> f[i]] /\ g = [i \in 1 .. n |-> g[i]]
  BY DEF Flattens
<1>2. ASSUME apart # {} PROVE FALSE
  <2>1. \A S \in SUBSET (1 .. n) : S \in SUBSET Nat
    OBVIOUS
  <2>2. apart \in SUBSET Nat
    BY <2>1
  <2>3. PICK k \in apart : \A l \in apart : k <= l
    BY <1>2, <2>2, Smallest
  <2>4. k # 1
    BY <1>1, <2>3
  <2>5. k - 1 \in 1 .. n /\ k - 1 \notin apart
    BY <2>3, <2>4
  <2>6. f[k - 1] = g[k - 1]
    BY <2>5
  <2>7. f[k] = f[k - 1] \o s[k] /\ g[k] = g[k - 1] \o s[k]
    BY <1>1, <2>3, <2>4
  <2> QED
    BY <2>3, <2>6, <2>7, Zenon
<1>3. \A i \in 1 .. n : f[i] = g[i]
  BY <1>2
<1> QED
  BY <1>1, <1>3

LEMMA Flattened ==
  ASSUME NEW s, NEW n \in Nat \ {0}, Len(s) = n, NEW f, Flattens(s, f)
  PROVE  Unquote(s) = f[n]
<1>1. Unquote(s) = (CHOOSE g : Flattens(s, g))[Len(s)]
  BY DEF Unquote, Ext!FlattenSeq, Flattens
<1>2. Flattens(s, CHOOSE g : Flattens(s, g))
  OBVIOUS
<1>3. (CHOOSE g : Flattens(s, g)) = f
  BY <1>2, FlattenedOnce
<1> QED
  BY <1>1, <1>3

\* A text that was quoted as one segment, slashes and all, is itself again.
LEMMA QuotedText ==
  ASSUME NEW text
  PROVE  Unquote(Quote(text)) = text
<1> DEFINE f == [i \in {1} |-> text]
           s == <<text>>
<1>1. Len(s) = 1 /\ s[1] = text
  BY ShortSeqs
<1> HIDE DEF s
<1>2. Flattens(s, f)
  <2>1. 1 .. Len(s) = {1}
    BY <1>1
  <2> QED
    BY <1>1, <2>1 DEF Flattens
<1>3. f[1] = text /\ 1 \in Nat \ {0}
  OBVIOUS
<1> HIDE DEF f
<1>4. Unquote(s) = f[1]
  BY <1>1, <1>2, <1>3, Flattened
<1> QED
  BY <1>3, <1>4 DEF Quote, s

\* And so is one whose segments were written one by one.
LEMMA SegmentedText ==
  ASSUME NEW text \in Texts
  PROVE  Unquote(Segments(text)) = text
<1> DEFINE n == Len(text)
           f == [i \in 1 .. n |-> SubSeq(text, 1, i)]
           s == [k \in 1 .. n |-> <<text[k]>>]
<1>1. text \in Seq(STRING) /\ n \in Nat \ {0} /\ DOMAIN text = 1 .. n
  BY DEF Texts
<1>2. Segments(text) = s
  BY <1>1 DEF Segments
<1>3. Len(s) = n
  <2>1. s \in [1 .. n -> {<<text[k]>> : k \in 1 .. n}]
    OBVIOUS
  <2> HIDE DEF s
  <2> QED
    BY <1>1, <2>1, LenIsDomain
<1>4. ASSUME NEW i \in 1 .. n
      PROVE  SubSeq(text, 1, i) = IF i = 1 THEN <<text[i]>>
                                  ELSE SubSeq(text, 1, i - 1) \o <<text[i]>>
  <2>1. SubSeq(text, 1, i) = SubSeq(text, 1, i - 1) \o <<text[i]>>
    BY <1>1, SubSeqRecursiveSecond
  <2>2. SubSeq(text, 1, 1) = <<text[1]>>
    <3>1. SubSeq(text, 1, 1) = SubSeq(text, 1, 0) \o <<text[1]>> /\ SubSeq(text, 1, 0) = <<>>
      BY <1>1, SubSeqRecursiveSecond, SubSeqEmpty
    <3>2. \A x : <<>> \o <<x>> = <<x>>
      OBVIOUS
    <3> QED
      BY <3>1, <3>2
  <2> QED
    BY <2>1, <2>2
<1>5. Flattens(s, f)
  <2>1. ASSUME NEW i \in 1 .. n
        PROVE  f[i] = IF i = 1 THEN s[i] ELSE f[i - 1] \o s[i]
    BY <1>1, <1>4
  <2> QED
    BY <1>3, <2>1 DEF Flattens
<1>6. f[n] = text
  BY <1>1, SubSeqFull
<1> HIDE DEF s, f
<1> QED
  BY <1>1, <1>2, <1>3, <1>5, <1>6, Flattened

\* A snapshot URI names its profile to the device that it leads to.
LEMMA FetchesIts ==
  ASSUME PassInv, pc = "accepted", NEW i \in Devices, NEW j \in Profiles(i)
  PROVE  GetSnapshot(i, SnapshotUri(i, j).path) = {<<i, j>>}
<1> DEFINE path == SnapshotUri(i, j).path
           token == Quote(Token(i, j))
<1>1. \A k \in Profiles(i) : Token(i, k) = Token(i, j) => k = j
  BY PassDecides, GoodIsWellFormed DEF AcceptsExactly, Good, DeviceOk
<1>2. path = <<<<"snapshot">>, Token(i, j)>>
  <2>1. Segments(<<"snapshot">>) = <<<<"snapshot">>>>
    BY DEF Segments
  <2>2. path = <<<<"snapshot">>>> \o <<Token(i, j)>>
    BY <2>1 DEF SnapshotUri, Uri, Quote
  <2> QED
    BY <2>2, ShortConcat
<1>3. Len(path) > 1 /\ path[1] = <<"snapshot">> /\ Tail(path) = token
  <2>1. \A x, y : Tail(<<x, y>>) = <<y>> /\ Len(<<x, y>>) = 2 /\ <<x, y>>[1] = x
    OBVIOUS
  <2> QED
    BY <1>2, <2>1 DEF Quote
<1>4. Unquote(Tail(path)) = Token(i, j)
  BY <1>3, QuotedText
<1> HIDE DEF path
<1>5. GetSnapshot(i, path) = ProfileByToken(i, Token(i, j))
  BY <1>3, <1>4 DEF GetSnapshot
<1>6. ProfileByToken(i, Token(i, j)) = {<<i, j>>}
  BY <1>1 DEF ProfileByToken
<1> QED
  BY <1>5, <1>6 DEF path

-----------------------------------------------------------------------------
(* Single requests.                                                        *)

\* The first token named, if any is.
LEMMA TokenNamed ==
  ASSUME NEW i, NEW m, m.tokens \in Seq(Texts)
  PROVE  IF Asked(m) = {} THEN RequestedToken(i, m) = Token(i, 1)
                          ELSE RequestedToken(i, m) \in Asked(m)
<1> DEFINE named == {k \in DOMAIN m.tokens : m.tokens[k] # EmptyText}
           first == CHOOSE k \in named : \A l \in named : k <= l
<1>1. CASE named = {}
  BY <1>1 DEF RequestedToken, Asked
<1>2. CASE named # {}
  <2>1. named \in SUBSET Nat
    OBVIOUS
  <2>2. first \in named
    BY <1>2, <2>1, Smallest
  <2> QED
    BY <1>2, <2>2 DEF RequestedToken, Asked
<1> QED
  BY <1>1, <1>2

LEMMA FaultFields ==
  ASSUME NEW code
  PROVE  /\ Fault(code).status = code /\ Fault(code).of = 0
         /\ Fault(code).tokens = <<>> /\ Fault(code).uri = Absent
BY DEF Fault

\* The kinds of actions do not overlap.
LEMMA DispatchReply ==
  ASSUME NEW i, NEW m
  PROVE  /\ m.action \in DOMAIN NoopSetters => Dispatch(i, m) = Ok(NoopSetters[m.action], 0)
         /\ m.action \in UriQueries     => Dispatch(i, m) = UriReply(i, m)
         /\ m.action \in Lists          => Dispatch(i, m) = ListReply(i, m)
         /\ m.action \in ServiceQueries => Dispatch(i, m) = ServicesReply(i)
         /\ m.action \in DeviceQueries  => Dispatch(i, m) = DeviceReply(i, m)
         /\ ~Supported(m)               => Dispatch(i, m) = Fault("501")
<1> USE DEF ServiceQueries, DeviceQueries, Lists, UriQueries, NoopSetters, Dispatch
<1>1. CASE m.action \in DOMAIN NoopSetters
  BY <1>1 DEF Supported
<1>2. CASE m.action \in UriQueries
  BY <1>2 DEF Supported
<1>3. CASE m.action \in Lists
  BY <1>3 DEF Supported
<1>4. CASE m.action \in ServiceQueries
  BY <1>4 DEF Supported
<1>5. CASE m.action \in DeviceQueries
  BY <1>5 DEF Supported
<1>6. CASE ~Supported(m)
  BY <1>6 DEF Supported
<1> QED
  BY <1>1, <1>2, <1>3, <1>4, <1>5, <1>6 DEF Supported

\* A token that a profile has gets its URI.
LEMMA UriGiven ==
  ASSUME PassInv, pc = "accepted", NEW i \in Devices, NEW j \in Profiles(i), NEW m,
         RequestedToken(i, m) = Token(i, j)
  PROVE  UriReply(i, m) = [Ok("trt", i) EXCEPT !.uri = <<HandedOut(m.action, <<i, j>>)>>]
<1>1. DeviceOk(i)
  BY PassDecides, GoodIsWellFormed DEF AcceptsExactly, Good
<1>2. ProfileByToken(i, RequestedToken(i, m)) = {<<i, j>>}
  BY <1>1 DEF ProfileByToken, DeviceOk
<1>3. FirstOf({<<i, j>>}) = <<i, j>>
  <2>1. j \in Nat
    BY RawTypes DEF PassInv, Profiles
  <2> QED
    BY <2>1 DEF FirstOf
<1> QED
  BY <1>2, <1>3 DEF UriReply

\* It leads to the profile, and with auth takes the login along.
LEMMA Leads ==
  ASSUME PassInv, pc = "accepted", NEW i \in Devices, NEW j \in Profiles(i),
         NEW action \in UriQueries
  PROVE  LeadsTo(HandedOut(action, <<i, j>>), action, i, j)
<1>1. CASE action = "GetStreamUri"
  <2>1. Unquote(Segments(Path(i, j))) = Path(i, j)
    BY Values, SegmentedText DEF PassInv
  <2>2. MayRead(RtspLogin)
    BY DEF MayRead, RtspLogin
  <2> QED
    BY <1>1, <2>1, <2>2 DEF LeadsTo, HandedOut, RtspUri, Uri
<1>2. CASE action = "GetSnapshotUri"
  <2>1. SnapshotUri(i, j).port = Port(i)
    BY DEF SnapshotUri, Uri
  <2> QED
    BY <1>2, <2>1, FetchesIts DEF LeadsTo, HandedOut
<1> QED
  BY <1>1, <1>2 DEF UriQueries

\* What is asked of a device by who may ask it.
LEMMA Served ==
  ASSUME PassInv, pc = "accepted", NEW i \in Devices, NEW m \in Requests,
         Readable(m), Admitted(m)
  PROVE  AsMeant(i, m, Dispatch(i, m))
<1> DEFINE r == Dispatch(i, m)
<1>1. m.tokens \in Seq(Texts) /\ m.ns \in {"trt", "tr2"} /\ m.length = "given"
  BY DEF Requests, Readable
<1> SUFFICES AsMeant(i, m, r)
  OBVIOUS
<1>2. SUFFICES
        /\ r.status \in {"200", "400", "501"}
        /\ r.status = "501" <=> ~Supported(m)
        /\ Supported(m) =>
             /\ m.action \notin UriQueries \/ Asked(m) \subseteq Known(i) => r.status = "200"
             /\ m.action \in UriQueries /\ Meant(i, m) = {} => r.status = "400"
        /\ DueContents(i, m, r)
  <2> HIDE DEF r
  <2> QED
    BY <1>1 DEF AsMeant, DueStatus
<1>3. CASE ~Supported(m)
  <2>1. r = Fault("501")
    BY <1>3, DispatchReply
  <2>2. r.status = "501" /\ r.of = 0 /\ r.tokens = <<>> /\ r.uri = Absent
    BY <2>1, FaultFields
  <2> HIDE DEF r
  <2> QED
    BY <1>3, <2>2 DEF DueContents
<1>4. CASE m.action \in DOMAIN NoopSetters
  <2>1. r = Ok(NoopSetters[m.action], 0) /\ m.action \notin UriQueries \cup Lists \cup ServiceQueries
    BY <1>4, DispatchReply DEF NoopSetters, UriQueries, Lists, ServiceQueries
  <2> QED
    BY <1>4, <2>1 DEF DueContents, Ok, Fault, Supported
<1>5. CASE m.action \in ServiceQueries
  <2>1. /\ r = ServicesReply(i)
        /\ m.action \notin UriQueries \cup Lists \cup DOMAIN NoopSetters \cup {"GetSystemDateAndTime"}
    BY <1>5, DispatchReply DEF NoopSetters, UriQueries, Lists, ServiceQueries
  <2> QED
    BY <1>5, <2>1 DEF DueContents, Ok, Fault, Supported, ServicesReply, ServiceUrl, Uri
<1>6. CASE m.action \in DeviceQueries
  <2>1. /\ r = DeviceReply(i, m)
        /\ m.action \notin UriQueries \cup Lists \cup ServiceQueries \cup DOMAIN NoopSetters
    BY <1>6, DispatchReply DEF NoopSetters, UriQueries, Lists, ServiceQueries, DeviceQueries
  <2> QED
    BY <1>6, <2>1 DEF DueContents, Ok, Fault, Supported, DeviceReply
<1>7. CASE m.action \in Lists
  <2>1. /\ r = ListReply(i, m)
        /\ m.action \notin UriQueries \cup ServiceQueries \cup DOMAIN NoopSetters
                             \cup {"GetSystemDateAndTime"}
    BY <1>7, DispatchReply DEF NoopSetters, UriQueries, Lists, ServiceQueries
  <2>2. /\ r.status = "200" /\ r.of = i /\ r.ns = m.ns /\ r.suffix = Suffix(m.action)
        /\ r.tokens = [j \in Profiles(i) |-> Token(i, j)]
    BY <1>1, <2>1 DEF ListReply, Ok, Fault
  <2>3. {r.tokens[j] : j \in DOMAIN r.tokens} = Known(i)
    BY <2>2 DEF Known
  <2>4. r.suffix = "" <=> m.action = "GetProfiles"
    BY <1>7, <2>2 DEF Suffix, Lists
  <2> QED
    BY <1>7, <2>1, <2>2, <2>3, <2>4 DEF DueContents, Supported
<1>8. CASE m.action \in UriQueries
  <2> DEFINE t == RequestedToken(i, m)
  <2>1. /\ r = UriReply(i, m)
        /\ m.action \notin Lists \cup ServiceQueries \cup DOMAIN NoopSetters
                             \cup {"GetSystemDateAndTime"}
    BY <1>8, DispatchReply DEF NoopSetters, UriQueries, Lists, ServiceQueries
  <2>2. 1 \in Profiles(i)
    BY PassDecides, GoodIsWellFormed, RawTypes
       DEF AcceptsExactly, Good, PassInv, DeviceOk, HeadOk, Profiles
  <2>3. IF Asked(m) = {} THEN t = Token(i, 1) ELSE t \in Asked(m)
    BY <1>1, TokenNamed
  <2> HIDE DEF t
  <2>4. CASE \E j \in Profiles(i) : t = Token(i, j)
    <3>1. PICK j \in Profiles(i) : t = Token(i, j) /\ j \in Meant(i, m)
      <4>1. CASE Asked(m) = {}
        BY <2>2, <2>3, <4>1 DEF Meant
      <4>2. CASE Asked(m) # {}
        BY <2>3, <2>4, <4>2 DEF Meant
      <4> QED
        BY <4>1, <4>2
    <3>2. r = [Ok("trt", i) EXCEPT !.uri = <<HandedOut(m.action, <<i, j>>)>>]
      BY <2>1, <3>1, UriGiven DEF t
    <3>3. r.status = "200" /\ r.of = i /\ r.uri[1] = HandedOut(m.action, <<i, j>>)
      BY <3>2 DEF Ok, Fault
    <3>4. LeadsTo(r.uri[1], m.action, i, j)
      BY <1>8, <3>3, Leads
    <3> HIDE DEF r
    <3> QED
      BY <1>8, <2>1, <3>1, <3>3, <3>4 DEF DueContents, Supported
  <2>5. CASE ~\E j \in Profiles(i) : t = Token(i, j)
    <3>1. ProfileByToken(i, t) = {}
      BY <2>5 DEF ProfileByToken
    <3>2. r = Fault("400")
      BY <2>1, <3>1 DEF UriReply, t
    <3> HIDE DEF r
    <3>3. ~(Asked(m) \subseteq Known(i))
      BY <2>2, <2>3, <2>5 DEF Known
    <3>4. r.status = "400" /\ r.of = 0 /\ r.tokens = <<>> /\ r.uri = Absent
      BY <3>2, FaultFields
    <3> HIDE DEF r
    <3> QED
      BY <1>8, <3>3, <3>4 DEF DueContents, Supported
  <2> QED
    BY <2>4, <2>5
<1> QED
  BY <1>3, <1>4, <1>5, <1>6, <1>7, <1>8 DEF Supported

\* The reply to a request meets the decision table.
LEMMA Replies ==
  ASSUME PassInv, pc = "accepted", NEW i \in Devices, NEW m \in Requests
  PROVE  AsMeant(i, m, Post(i, m))
<1> DEFINE r == Post(i, m)
<1> SUFFICES AsMeant(i, m, r)
  OBVIOUS
<1>1. /\ m.form \in {"garbled", "bodiless", "empty", "action"}
      /\ m.length \in {"none", "unreadable", "given"}
      /\ m.login \in Logins \cup {Anonymous}
  BY DEF Requests
<1>2. CASE m.length = "unreadable"
  <2>1. r = Fault("dropped")
    BY <1>2 DEF Post
  <2> HIDE DEF r
  <2> QED
    BY <1>1, <1>2, <2>1, FaultFields DEF AsMeant, DueStatus, DueContents, Readable
<1>3. CASE m.length # "unreadable" /\ ~Readable(m)
  <2>1. [m EXCEPT !.form = "garbled"].form = "garbled"
    BY DEF Requests
  <2>2. r = Fault("400")
    BY <1>1, <1>3, <2>1 DEF Post, HandleSoap, HasAction, Readable
  <2> HIDE DEF r
  <2> QED
    BY <1>3, <2>2, FaultFields DEF AsMeant, DueStatus, DueContents
<1>4. CASE Readable(m)
  <2>1. r = IF ~Admitted(m) THEN Fault("401") ELSE Dispatch(i, m)
    BY <1>1, <1>4, LoginJudged DEF Post, HandleSoap, HasAction, AuthExempt, Readable, Admitted
  <2>2. CASE ~Admitted(m)
    <3>1. r = Fault("401")
      BY <2>1, <2>2
    <3> HIDE DEF r
    <3> QED
      BY <1>4, <2>2, <3>1, FaultFields DEF AsMeant, DueStatus, DueContents, Readable
  <2>3. CASE Admitted(m)
    <3>1. r = Dispatch(i, m)
      BY <2>1, <2>3
    <3> QED
      BY <1>4, <2>3, <3>1, Served
  <2> QED
    BY <2>2, <2>3
<1> QED
  BY <1>2, <1>3, <1>4

-----------------------------------------------------------------------------
(* The session.                                                            *)

\* Session s is at device i; it has chosen a profile there, or none yet; the
\* profile that it gets is the j-th.
OnDevice(s, i) == s.at = Port(i) /\ s.uuid = Uuid(i)
ChosenOn(s, i) ==
  /\ OnDevice(s, i)
  /\ s.token = Absent \/ \E j \in Profiles(i) : s.token = Token(i, j)
Picked(s, i, j) ==
  /\ s.uuid = Uuid(i)
  /\ IF s.token = Absent THEN j = 1 ELSE s.token = Token(i, j)

\* What each step has led the session to.
Placed(s) ==
  /\ s.step \in {"found", "media"} => \E i \in Devices : OnDevice(s, i)
  /\ s.step = "chosen" => \E i \in Devices : ChosenOn(s, i)
  /\ s.step \in UriQueries =>
       \E i \in Devices : \E j \in Profiles(i) :
         Picked(s, i, j) /\ s.uri = <<HandedOut(s.step, <<i, j>>)>>
  /\ s.step = "done" =>
       \E i \in Devices : \E j \in Profiles(i) : Picked(s, i, j) /\ s.got = {<<i, j>>}

\* Who has come where, and with what.
ClientInv ==
  /\ DOMAIN session = {"step", "login", "ns", "uuid", "at", "token", "uri", "got"}
  /\ session.step \in Steps /\ session.login \in Logins \cup {Anonymous}
  /\ session.step # "start" \/ exchange # <<>> => phase = "serving"
  /\ session.step = "refused" => ~Granted(session.login)
  /\ session.step \notin {"start", "found", "refused"} => Granted(session.login)
  /\ Placed(session)

\* MediaMTX has under each path what the profile of that path publishes.
PublishedInv ==
  \A f \in published : \E i \in Devices : \E j \in Profiles(i) : f = <<Path(i, j), <<i, j>>>>

SessionInv == PassInv /\ LaunchInv /\ PublishedInv /\ ClientInv /\ AnsweredAsMeant

LEMMA InitSession == SessionInit => SessionInv
<1> SUFFICES ASSUME SessionInit PROVE SessionInv
  OBVIOUS
<1>1. PassInv /\ LaunchInv
  BY InitLaunch DEF SessionInit
<1>2. session.login = Anonymous /\ session.step = "start" /\ exchange = <<>>
  BY DEF SessionInit
<1>3. DOMAIN session = {"step", "login", "ns", "uuid", "at", "token", "uri", "got"}
  BY DEF SessionInit
<1>4. ClientInv
  BY <1>2, <1>3 DEF ClientInv, Placed, Steps, UriQueries
<1>5. PublishedInv
  BY DEF SessionInit, PublishedInv
<1> QED
  BY <1>1, <1>2, <1>4, <1>5 DEF SessionInv, AnsweredAsMeant

\* What the client's login gets it.
LEMMA Heard ==
  ASSUME ClientInv, NEW i, NEW action, NEW tokens, action \notin AuthExempt
  PROVE  IF Granted(session.login)
         THEN Post(i, Says(action, tokens)) = Dispatch(i, Says(action, tokens))
         ELSE Post(i, Says(action, tokens)).status = "401"
<1> DEFINE m == Says(action, tokens)
<1>1. m.form = "action" /\ m.length = "given" /\ m.action = action /\ m.login = session.login
  BY DEF Says
<1>2. Authorized(Header(session.login)) <=> Granted(session.login)
  BY LoginJudged DEF ClientInv
<1> HIDE DEF m
<1>3. Post(i, m) = IF Granted(session.login) THEN Dispatch(i, m) ELSE Fault("401")
  BY <1>1, <1>2 DEF Post, HandleSoap, HasAction
<1> QED
  BY <1>3, FaultFields DEF m

\* A client that chose a token of device i, or none, gets the URI of the
\* profile with that token, or of the first one.
LEMMA UriFound ==
  ASSUME PassInv, pc = "accepted", NEW i \in Devices, ChosenOn(session, i),
         NEW action \in UriQueries
  PROVE  LET m == Says(action, IF session.token = Absent THEN <<>> ELSE <<session.token>>)
         IN  /\ Dispatch(i, m).status = "200"
             /\ \E j \in Profiles(i) : /\ Picked(session, i, j)
                                       /\ Dispatch(i, m).uri = <<HandedOut(action, <<i, j>>)>>
<1> DEFINE tokens == IF session.token = Absent THEN <<>> ELSE <<session.token>>
           m      == Says(action, tokens)
<1>1. m.action = action /\ m.tokens = tokens
  BY DEF Says
<1>2. DeviceOk(i)
  BY PassDecides, GoodIsWellFormed DEF AcceptsExactly, Good
<1>3. Profiles(i) = 1 .. Len(config.devices[i].profiles) /\ 1 \in Profiles(i)
  BY <1>2, RawTypes DEF PassInv, DeviceOk, HeadOk
<1>4. \E j \in Profiles(i) : RequestedToken(i, m) = Token(i, j) /\ Picked(session, i, j)
  <2>1. CASE session.token = Absent
    <3>1. {k \in DOMAIN m.tokens : m.tokens[k] # EmptyText} = {}
      BY <1>1, <2>1
    <3> QED
      BY <1>3, <2>1, <3>1 DEF RequestedToken, Picked, ChosenOn, OnDevice
  <2>2. CASE session.token # Absent
    <3>1. PICK j \in Profiles(i) : session.token = Token(i, j)
      BY <2>2 DEF ChosenOn
    <3>2. Token(i, j) # EmptyText
      BY <1>2 DEF DeviceOk, ProfileOk
    <3>3. m.tokens = <<Token(i, j)>>
      BY <1>1, <2>2, <3>1
    <3> HIDE DEF m
    <3>4. {k \in DOMAIN m.tokens : m.tokens[k] # EmptyText} = {1}
      BY <3>2, <3>3
    <3>5. (CHOOSE k \in {1} : \A l \in {1} : k <= l) = 1
      OBVIOUS
    <3> QED
      BY <2>2, <3>1, <3>3, <3>4, <3>5 DEF RequestedToken, Picked, ChosenOn, OnDevice
  <2> QED
    BY <2>1, <2>2
<1> HIDE DEF m
<1>5. PICK j \in Profiles(i) : RequestedToken(i, m) = Token(i, j) /\ Picked(session, i, j)
  BY <1>4
<1>6. Dispatch(i, m) = [Ok("trt", i) EXCEPT !.uri = <<HandedOut(action, <<i, j>>)>>]
  BY <1>1, <1>5, UriGiven, DispatchReply
<1> QED
  BY <1>5, <1>6 DEF Ok, Fault, m

\* What the client relies on does not change under it.
LEMMA SameWorld ==
  ASSUME UNCHANGED config
  PROVE  /\ \A login : Granted(login)' = Granted(login)
         /\ \A s : Placed(s)' = Placed(s)
<1>1. \A login : Granted(login)' = Granted(login)
  BY DEF Granted
<1>2. \A i, j : RtspUri(i, j)' = RtspUri(i, j) /\ SnapshotUri(i, j)' = SnapshotUri(i, j)
  BY SameValues DEF RtspUri, RtspLogin, SnapshotUri
<1>3. \A action, q : HandedOut(action, q)' = HandedOut(action, q)
  BY <1>2 DEF HandedOut
<1>4. /\ \A s, i : OnDevice(s, i)' = OnDevice(s, i) /\ ChosenOn(s, i)' = ChosenOn(s, i)
      /\ \A s, i, j : Picked(s, i, j)' = Picked(s, i, j)
  BY SameValues DEF OnDevice, ChosenOn, Picked
<1>5. ASSUME NEW s PROVE Placed(s)' = Placed(s)
  <2>1. Devices' = Devices /\ \A i : Profiles(i)' = Profiles(i)
    BY SameValues
  <2> QED
    BY <1>3, <1>4, <2>1 DEF Placed
<1> QED
  BY <1>1, <1>5

LEMMA SameMeaning ==
  ASSUME UNCHANGED config, NEW i, NEW m, NEW r
  PROVE  AsMeant(i, m, r)' = AsMeant(i, m, r)
<1>1. /\ \A k : Profiles(k)' = Profiles(k) /\ Port(k)' = Port(k)
      /\ \A k, j : Token(k, j)' = Token(k, j) /\ Path(k, j)' = Path(k, j)
  BY SameValues
<1>2. Known(i)' = Known(i) /\ Meant(i, m)' = Meant(i, m)
  BY <1>1 DEF Known, Meant, Asked
<1>3. DueStatus(i, m, r.status)' = DueStatus(i, m, r.status)
  <2>1. Admitted(m)' = Admitted(m)
    BY SameWorld DEF Admitted
  <2> QED
    BY <1>2, <2>1, Zenon DEF DueStatus, Readable, Supported, Asked
<1>4. ASSUME NEW uri, NEW action, NEW j
      PROVE  LeadsTo(uri, action, i, j)' = LeadsTo(uri, action, i, j)
  <2>1. GetSnapshot(i, uri.path)' = GetSnapshot(i, uri.path)
    BY <1>1 DEF GetSnapshot, ProfileByToken
  <2>2. MayRead(uri.login)' = MayRead(uri.login)
    BY DEF MayRead
  <2> QED
    BY <1>1, <2>1, <2>2, Zenon DEF LeadsTo
<1>5. DueContents(i, m, r)' = DueContents(i, m, r)
  <2>1. \A j : LeadsTo(r.uri[1], m.action, i, j)' = LeadsTo(r.uri[1], m.action, i, j)
    BY <1>4
  <2>2. (\E j \in Meant(i, m) : LeadsTo(r.uri[1], m.action, i, j))'
          <=> \E j \in Meant(i, m) : LeadsTo(r.uri[1], m.action, i, j)
    BY <1>2, <2>1, Zenon
  <2> QED
    BY <1>1, <1>2, <2>2, Zenon DEF DueContents
<1> QED
  BY <1>3, <1>5 DEF AsMeant

LEMMA LaunchKept ==
  ASSUME LaunchInv, [LaunchNext]_allVars
  PROVE  UNCHANGED config /\ (phase = "serving" => phase' = "serving")
BY DEF LaunchNext, Parse, StartMediaMTX, BindServer, Serve, allVars, launchVars, vars,
       Next, ParseRoot, BeginDevice, ParseProfile, EndProfiles, TakePath, EndDevice, Accept,
       Terminated, Fail

\* A connection reaches the device that advertises the port.
LEMMA Reached ==
  ASSUME PassInv, LaunchInv, NEW port, NEW i \in Devices, Connects(port, i)
  PROVE  pc = "accepted" /\ port = Port(i)
<1>1. phase = "serving" /\ <<port, i>> \in listening /\ i # MediaMTX
  BY DEF Connects
<1>2. <<port, i>> \in {<<Port(k), k>> : k \in 1 .. server - 1}
  BY <1>1 DEF LaunchInv
<1> QED
  BY <1>1, <1>2 DEF LaunchInv

LEMMA WorldKept ==
  ASSUME LaunchInv, [SessionNext]_world
  PROVE  /\ [LaunchNext]_allVars /\ UNCHANGED config
         /\ phase = "serving" => phase' = "serving"
<1>1. [LaunchNext]_allVars
  BY DEF SessionNext, Launching, Client, Play, Discover, ListProfiles, Fetch, FindMedia,
         AskUri, Continue, Exchange, Publish, world
<1> QED
  BY <1>1, LaunchKept

LEMMA PublishedStep == SessionInv /\ [SessionNext]_world => PublishedInv'
<1> SUFFICES ASSUME SessionInv, [SessionNext]_world PROVE PublishedInv'
  OBVIOUS
<1>1. /\ Devices' = Devices /\ \A i : Profiles(i)' = Profiles(i)
      /\ \A i, j : Path(i, j)' = Path(i, j)
  BY WorldKept, SameValues DEF SessionInv
<1>2. CASE UNCHANGED published
  BY <1>1, <1>2 DEF SessionInv, PublishedInv
<1>3. ASSUME NEW i \in Devices, NEW j \in Profiles(i), Publish(i, j) PROVE PublishedInv'
  BY <1>1, <1>3 DEF SessionInv, PublishedInv, Publish
<1> QED
  BY <1>2, <1>3
     DEF SessionNext, Launching, Client, Play, Discover, ListProfiles, Fetch, FindMedia,
         AskUri, Continue, Exchange, world, sessionVars

\* A device that is found under a port is the one that the session is at.
LEMMA AtHome ==
  ASSUME PassInv, pc = "accepted", NEW i \in Devices, session.at = Port(i),
         NEW k \in Devices, OnDevice(session, k)
  PROVE  k = i
BY OwnPort DEF OnDevice

\* A stream URI plays its profile's stream, if anything.
LEMMA PlaysIts ==
  ASSUME PassInv, pc = "accepted", PublishedInv, NEW i \in Devices, NEW j \in Profiles(i),
         Played(RtspUri(i, j)) # {}
  PROVE  Played(RtspUri(i, j)) = {<<i, j>>}
<1>1. Unique
  BY PassDecides, GoodIsWellFormed DEF AcceptsExactly, Good
<1>2. Unquote(RtspUri(i, j).path) = Path(i, j)
  <2>1. RtspUri(i, j).path = Segments(Path(i, j))
    BY DEF RtspUri, Uri
  <2> QED
    BY <2>1, Values, SegmentedText DEF PassInv
<1>3. ASSUME NEW f \in published, f[1] = Path(i, j)
      PROVE  f[2] = <<i, j>>
  <2>1. PICK k \in Devices : \E l \in Profiles(k) : f = <<Path(k, l), <<k, l>>>>
    BY DEF PublishedInv
  <2>2. PICK l \in Profiles(k) : f = <<Path(k, l), <<k, l>>>>
    BY <2>1
  <2>3. k = i /\ l = j
    BY <1>1, <1>3, <2>2 DEF Unique
  <2> QED
    BY <2>2, <2>3
<1> QED
  BY <1>2, <1>3 DEF Played

LEMMA ClientStep == SessionInv /\ [SessionNext]_world => ClientInv'
<1> SUFFICES ASSUME PassInv, LaunchInv, PublishedInv, ClientInv, [SessionNext]_world
             PROVE  ClientInv'
  BY DEF SessionInv
<1> USE DEF Steps, UriQueries
<1>1. /\ phase = "serving" => phase' = "serving"
      /\ \A login : Granted(login)' = Granted(login)
      /\ \A s : Placed(s)' = Placed(s)
  BY WorldKept, SameWorld
<1>2. CASE UNCHANGED session /\ (exchange' = exchange \/ phase = "serving")
  BY <1>1, <1>2 DEF ClientInv
<1>3. ASSUME NEW i \in Devices, Discover(i) PROVE ClientInv'
  <2>1. PICK login \in ClientLogins, ns \in {"trt", "tr2"} :
          session' = [session EXCEPT !.step = "found", !.login = login, !.ns = ns,
                                     !.uuid = Uuid(i), !.at = DeviceUrl(i).port]
    BY <1>3 DEF Discover
  <2>2. DeviceUrl(i).port = Port(i)
    BY DEF DeviceUrl, Uri
  <2>3. /\ session'.step = "found" /\ session'.login = login /\ DOMAIN session' = DOMAIN session
        /\ session'.at = Port(i) /\ session'.uuid = Uuid(i)
    BY <2>1, <2>2 DEF ClientInv
  <2>4. Placed(session')
    BY <2>3 DEF Placed, OnDevice
  <2> QED
    BY <1>1, <1>3, <2>3, <2>4, ClientLoginsAssumption DEF Discover, ClientInv
<1>4. ASSUME NEW reply, NEW next, Continue(reply, next),
             session.step \in {"found", "media", "chosen"},
             reply.status = "200" <=> Granted(session.login),
             DOMAIN next = DOMAIN session, next.login = session.login,
             next.step \in {"media", "chosen", "GetStreamUri", "GetSnapshotUri"},
             Granted(session.login) => Placed(next)
      PROVE  ClientInv'
  <2>1. CASE Granted(session.login)
    <3>1. session' = next /\ UNCHANGED <<phase, exchange>>
      BY <1>4, <2>1 DEF Continue, allVars, launchVars
    <3> QED
      BY <1>1, <1>4, <2>1, <3>1 DEF ClientInv
  <2>2. CASE ~Granted(session.login)
    <3>1. session' = [session EXCEPT !.step = "refused"] /\ UNCHANGED <<phase, exchange>>
      BY <1>4, <2>2 DEF Continue, allVars, launchVars
    <3>2. /\ session'.step = "refused" /\ session'.login = session.login
          /\ DOMAIN session' = DOMAIN session
      BY <3>1 DEF ClientInv
    <3>3. Placed(session')
      BY <3>2 DEF Placed
    <3> QED
      BY <1>1, <1>4, <2>2, <3>1, <3>2, <3>3 DEF ClientInv
  <2> QED
    BY <2>1, <2>2
<1>5. ASSUME NEW i \in Devices, NEW action \in ServiceQueries, FindMedia(i, action)
      PROVE  ClientInv'
  <2> DEFINE m     == Says(action, <<>>)
             reply == Post(i, m)
             next  == [session EXCEPT !.step = "media", !.at = reply.uri[1].port]
  <2>1. Dispatch(i, m) = ServicesReply(i)
    <3>1. m.action = action
      BY DEF Says
    <3> HIDE DEF m
    <3> QED
      BY <3>1, DispatchReply
  <2>2. ServicesReply(i).status = "200" /\ ServicesReply(i).uri[1].port = Port(i)
    BY DEF ServicesReply, Ok, Fault, ServiceUrl, Uri
  <2>3. IF Granted(session.login) THEN reply = ServicesReply(i) ELSE reply.status = "401"
    BY <2>1, Heard DEF ServiceQueries, AuthExempt
  <2>4. session.step = "found" /\ session.at = Port(i) /\ pc = "accepted"
    BY <1>5, Reached DEF FindMedia
  <2>5. OnDevice(session, i)
    BY <2>4, AtHome DEF ClientInv, Placed
  <2>6. /\ DOMAIN next = DOMAIN session /\ next.login = session.login /\ next.step = "media"
        /\ next.at = reply.uri[1].port /\ next.uuid = session.uuid
    BY DEF ClientInv
  <2>7. Continue(reply, next)
    BY <1>5 DEF FindMedia
  <2> HIDE DEF reply, next
  <2>8. Granted(session.login) => Placed(next)
    BY <2>2, <2>3, <2>5, <2>6 DEF Placed, OnDevice
  <2> QED
    BY <1>4, <2>2, <2>3, <2>4, <2>6, <2>7, <2>8
<1>6. ASSUME NEW i \in Devices, ListProfiles(i) PROVE ClientInv'
  <2> DEFINE m     == Says("GetProfiles", <<>>)
             reply == Post(i, m)
             next(j) == [session EXCEPT !.step = "chosen",
                           !.token = IF j = 0 THEN Absent ELSE reply.tokens[j]]
  <2>1. m.action = "GetProfiles"
    BY DEF Says
  <2>2. Granted(session.login) => reply = ListReply(i, m)
    <3>1. Dispatch(i, m) = ListReply(i, m)
      BY <2>1, DispatchReply DEF Lists
    <3> QED
      BY <3>1, Heard DEF AuthExempt
  <2>3. reply.status = "200" <=> Granted(session.login)
    BY <2>2, Heard DEF AuthExempt, ListReply, Ok, Fault
  <2>4. session.at = Port(i) /\ session.step = "media" /\ pc = "accepted"
    BY <1>6, Reached DEF ListProfiles
  <2>5. OnDevice(session, i)
    BY <2>4, AtHome DEF ClientInv, Placed
  <2>6. PICK j \in 0 .. Len(reply.tokens) : Continue(reply, next(j))
    BY <1>6 DEF ListProfiles
  <2>7. /\ DOMAIN next(j) = DOMAIN session /\ next(j).login = session.login
        /\ next(j).step = "chosen" /\ next(j).at = session.at /\ next(j).uuid = session.uuid
        /\ next(j).token = IF j = 0 THEN Absent ELSE reply.tokens[j]
    BY DEF ClientInv
  <2>8. ASSUME Granted(session.login), j # 0
        PROVE  j \in Profiles(i) /\ reply.tokens[j] = Token(i, j)
    <3>1. reply.tokens = [k \in Profiles(i) |-> Token(i, k)]
      BY <2>2, <2>8 DEF ListReply, Ok, Fault
    <3>2. /\ Profiles(i) = 1 .. Len(config.devices[i].profiles)
          /\ Len(config.devices[i].profiles) \in Nat
      BY RawTypes DEF PassInv
    <3>3. Len(reply.tokens) = Len(config.devices[i].profiles)
      BY <3>1, <3>2
    <3>4. j \in Profiles(i)
      BY <2>6, <2>8, <3>2, <3>3
    <3> QED
      BY <3>1, <3>4
  <2> HIDE DEF reply, next
  <2>9. Granted(session.login) => Placed(next(j))
    BY <2>5, <2>7, <2>8 DEF Placed, ChosenOn, OnDevice
  <2> QED
    BY <1>4, <2>3, <2>4, <2>6, <2>7, <2>9
<1>7. ASSUME NEW i \in Devices, NEW action \in UriQueries, AskUri(i, action)
      PROVE  ClientInv'
  <2> DEFINE m     == Says(action, IF session.token = Absent THEN <<>> ELSE <<session.token>>)
             reply == Post(i, m)
             next  == [session EXCEPT !.step = action, !.uri = reply.uri]
  <2>1. session.at = Port(i) /\ session.step = "chosen" /\ pc = "accepted"
    BY <1>7, Reached DEF AskUri
  <2>2. ChosenOn(session, i)
    BY <2>1, AtHome DEF ClientInv, Placed, ChosenOn
  <2>3. /\ Dispatch(i, m).status = "200"
        /\ \E j \in Profiles(i) : /\ Picked(session, i, j)
                                  /\ Dispatch(i, m).uri = <<HandedOut(action, <<i, j>>)>>
    BY <2>1, <2>2, UriFound
  <2>4. IF Granted(session.login) THEN reply = Dispatch(i, m) ELSE reply.status = "401"
    BY Heard DEF AuthExempt
  <2>5. /\ DOMAIN next = DOMAIN session /\ next.login = session.login
        /\ next.step = action /\ next.uri = reply.uri
        /\ next.uuid = session.uuid /\ next.token = session.token
    BY DEF ClientInv
  <2>6. Continue(reply, next)
    BY <1>7 DEF AskUri
  <2> HIDE DEF m, reply, next
  <2>7. Granted(session.login) => Placed(next)
    BY <2>3, <2>4, <2>5 DEF Placed, Picked
  <2> QED
    BY <1>4, <2>1, <2>3, <2>4, <2>5, <2>6, <2>7
<1>8. CASE Play
  <2>1. session.step = "GetStreamUri" /\ pc = "accepted"
    BY <1>8 DEF Play, ClientInv, LaunchInv
  <2>2. PICK i \in Devices : \E j \in Profiles(i) :
          Picked(session, i, j) /\ session.uri = <<HandedOut("GetStreamUri", <<i, j>>)>>
    BY <2>1 DEF ClientInv, Placed
  <2>3. PICK j \in Profiles(i) : Picked(session, i, j) /\ session.uri = <<RtspUri(i, j)>>
    BY <2>2 DEF HandedOut
  <2>4. session.uri[1] = RtspUri(i, j)
    BY <2>3
  <2>5. MayRead(RtspUri(i, j).login)
    BY DEF MayRead, RtspLogin, RtspUri, Uri
  <2>6. /\ session' = [session EXCEPT !.step = "done", !.got = {<<i, j>>}]
        /\ UNCHANGED <<phase, exchange>>
    BY <1>8, <2>1, <2>4, <2>5, PlaysIts DEF Play, allVars, launchVars
  <2>7. /\ session'.step = "done" /\ session'.login = session.login
        /\ DOMAIN session' = DOMAIN session /\ session'.got = {<<i, j>>}
        /\ session'.uuid = session.uuid /\ session'.token = session.token
    BY <2>6 DEF ClientInv
  <2>8. Placed(session')
    BY <2>3, <2>7 DEF Placed, Picked
  <2> QED
    BY <1>1, <2>1, <2>6, <2>7, <2>8 DEF ClientInv
<1>9. ASSUME NEW i \in Devices, Fetch(i) PROVE ClientInv'
  <2>1. /\ session.step = "GetSnapshotUri" /\ pc = "accepted"
        /\ session.uri[1].port = Port(i)
    BY <1>9, Reached DEF Fetch
  <2>2. PICK k \in Devices : \E j \in Profiles(k) :
          Picked(session, k, j) /\ session.uri = <<HandedOut("GetSnapshotUri", <<k, j>>)>>
    BY <2>1 DEF ClientInv, Placed
  <2>3. PICK j \in Profiles(k) : Picked(session, k, j) /\ session.uri = <<SnapshotUri(k, j)>>
    BY <2>2 DEF HandedOut
  <2>4. session.uri[1] = SnapshotUri(k, j) /\ SnapshotUri(k, j).port = Port(k)
    BY <2>3 DEF SnapshotUri, Uri
  <2>5. k = i
    BY <2>1, <2>4, OwnPort
  <2>6. /\ session' = [session EXCEPT !.step = "done", !.got = {<<i, j>>}]
        /\ UNCHANGED <<phase, exchange>>
    BY <1>9, <2>1, <2>4, <2>5, FetchesIts DEF Fetch, allVars, launchVars
  <2>7. /\ session'.step = "done" /\ session'.login = session.login
        /\ DOMAIN session' = DOMAIN session /\ session'.got = {<<i, j>>}
        /\ session'.uuid = session.uuid /\ session'.token = session.token
    BY <2>6 DEF ClientInv
  <2>8. Placed(session')
    BY <2>3, <2>5, <2>7 DEF Placed, Picked
  <2> QED
    BY <1>1, <2>1, <2>6, <2>7, <2>8 DEF ClientInv
<1>10. ASSUME NEW i \in Devices, Exchange(i) PROVE ClientInv'
  BY <1>2, <1>10 DEF Exchange, Connects
<1>11. CASE Launching \/ (\E i \in Devices : \E j \in Profiles(i) : Publish(i, j)) \/ UNCHANGED world
  BY <1>2, <1>11 DEF Launching, Publish, world, sessionVars
<1> QED
  BY <1>3, <1>5, <1>6, <1>7, <1>8, <1>9, <1>10, <1>11 DEF SessionNext, Client

\* The replies.
LEMMA ReplyStep == SessionInv /\ [SessionNext]_world => AnsweredAsMeant'
<1> SUFFICES ASSUME SessionInv, [SessionNext]_world PROVE AnsweredAsMeant'
  OBVIOUS
<1>1. UNCHANGED config /\ [LaunchNext]_allVars
  BY WorldKept DEF SessionInv
<1>2. ASSUME NEW i, NEW m, NEW r PROVE AsMeant(i, m, r)' <=> AsMeant(i, m, r)
  BY <1>1, SameMeaning
<1>3. CASE UNCHANGED exchange
  BY <1>2, <1>3 DEF SessionInv, AnsweredAsMeant
<1>4. ASSUME NEW i \in Devices, Exchange(i) PROVE AnsweredAsMeant'
  <2>0. Messages(config) \subseteq Requests
    BY MessagesAssumption DEF SessionInv, PassInv, Counters
  <2>1. PICK m \in Messages(config) :
          exchange' = <<[device |-> i, message |-> m, reply |-> Post(i, m)]>>
    BY <1>4 DEF Exchange
  <2>2. AsMeant(i, m, Post(i, m))
    BY <1>4, <2>0, Reached, Replies DEF Exchange, SessionInv
  <2> DEFINE r == Post(i, m)
  <2>3. AsMeant(i, m, r)
    BY <2>2
  <2> HIDE DEF r
  <2>4. exchange'[1].device = i /\ exchange'[1].message = m /\ exchange'[1].reply = r
    BY <2>1 DEF r
  <2> QED
    BY <1>2, <2>3, <2>4 DEF AnsweredAsMeant
<1> QED
  BY <1>3, <1>4
     DEF SessionNext, Launching, Client, Play, Discover, ListProfiles, Fetch, FindMedia,
         AskUri, Continue, Publish, world, sessionVars

\* Where the client is, with which login and by which tokens.
THEOREM SessionInvariance == SessionSpec => []SessionInv
<1>1. SessionInv /\ [SessionNext]_world => SessionInv'
  <2> SUFFICES ASSUME SessionInv, [SessionNext]_world PROVE SessionInv'
    OBVIOUS
  <2>1. [LaunchNext]_allVars
    BY WorldKept DEF SessionInv
  <2>2. PassInv' /\ LaunchInv'
    BY <2>1, PassDuringLaunch, LaunchStep DEF SessionInv
  <2> QED
    BY <2>2, PublishedStep, ClientStep, ReplyStep DEF SessionInv
<1> QED
  BY <1>1, InitSession, PTL DEF SessionSpec

\* Services and streams judge a login alike, on every configuration that the
\* parser accepts.
THEOREM LoginJudgedAlike == SessionSpec => []LoginDecides
<1>1. SessionInv => LoginDecides
  BY DEF SessionInv, ClientInv, LoginDecides
<1> QED
  BY <1>1, SessionInvariance, PTL

\* The session that went through got the profile that it chose, on every
\* configuration that the parser accepts.
THEOREM GetsIt == SessionSpec => []GetsWhatItChose
<1>1. SessionInv => GetsWhatItChose
  BY DEF SessionInv, ClientInv, Placed, Picked, GetsWhatItChose
<1> QED
  BY <1>1, SessionInvariance, PTL

\* Every request gets what it is due.
THEOREM Due == SessionSpec => []AnsweredAsMeant
<1>1. SessionInv => AnsweredAsMeant
  BY DEF SessionInv
<1> QED
  BY <1>1, SessionInvariance, PTL

-----------------------------------------------------------------------------
(* Types.                                                                  *)

\* At which steps the client changes its mind.
SameButFor(s, t) ==
  /\ t.at = s.at \/ t.step \in {"found", "media"}
  /\ t.token = s.token \/ t.step = "chosen"
  /\ t.got = s.got \/ t.step = "done"

LEMMA ClientChanges ==
  ASSUME ClientInv, Client
  PROVE  SameButFor(session, session') /\ UNCHANGED <<published, exchange>>
<1> USE DEF SameButFor
<1>1. DOMAIN session = {"step", "login", "ns", "uuid", "at", "token", "uri", "got"}
  BY DEF ClientInv
<1>2. ASSUME NEW next, NEW reply, Continue(reply, next), SameButFor(session, next)
      PROVE  SameButFor(session, session') /\ UNCHANGED <<published, exchange>>
  BY <1>1, <1>2 DEF Continue
<1>3. CASE Play
  <2> DEFINE got == Played(session.uri[1])
  <2> HIDE DEF got
  <2>1. \/ session' = [session EXCEPT !.step = "refused"]
        \/ session' = [session EXCEPT !.step = "done", !.got = got]
    BY <1>3 DEF Play, got
  <2>2. UNCHANGED <<published, exchange>>
    BY <1>3 DEF Play
  <2> QED
    BY <1>1, <2>1, <2>2
<1>4. ASSUME NEW i \in Devices, Discover(i)
      PROVE  SameButFor(session, session') /\ UNCHANGED <<published, exchange>>
  <2> DEFINE next(l, n, u, a) ==
        [session EXCEPT !.step = "found", !.login = l, !.ns = n, !.uuid = u, !.at = a]
  <2>1. \E l, n : session' = next(l, n, Uuid(i), DeviceUrl(i).port)
    BY <1>4 DEF Discover
  <2>2. \A l, n, u, a : SameButFor(session, next(l, n, u, a))
    BY <1>1
  <2> HIDE DEF next, SameButFor
  <2> QED
    BY <1>4, <2>1, <2>2 DEF Discover
<1>5. ASSUME NEW i \in Devices, ListProfiles(i)
      PROVE  SameButFor(session, session') /\ UNCHANGED <<published, exchange>>
  <2> DEFINE next(t) == [session EXCEPT !.step = "chosen", !.token = t]
  <2>1. \E r, t : Continue(r, next(t))
    BY <1>5 DEF ListProfiles
  <2>2. \A t : SameButFor(session, next(t))
    BY <1>1
  <2> HIDE DEF next, SameButFor
  <2> QED
    BY <1>2, <2>1, <2>2
<1>6. ASSUME NEW i \in Devices, Fetch(i)
      PROVE  SameButFor(session, session') /\ UNCHANGED <<published, exchange>>
  <2> DEFINE got == GetSnapshot(i, session.uri[1].path)
  <2>1. /\ session' = [session EXCEPT !.step = "done", !.got = got]
        /\ UNCHANGED <<published, exchange>>
    BY <1>6 DEF Fetch
  <2> HIDE DEF got
  <2> QED
    BY <1>1, <2>1
<1>7. ASSUME NEW i \in Devices, NEW a \in ServiceQueries, FindMedia(i, a)
      PROVE  SameButFor(session, session') /\ UNCHANGED <<published, exchange>>
  <2> DEFINE next(n) == [session EXCEPT !.step = "media", !.at = n]
  <2>1. \E r, n : Continue(r, next(n))
    BY <1>7 DEF FindMedia
  <2>2. \A n : SameButFor(session, next(n))
    BY <1>1
  <2> HIDE DEF next, SameButFor
  <2> QED
    BY <1>2, <2>1, <2>2
<1>8. ASSUME NEW i \in Devices, NEW a \in UriQueries, AskUri(i, a)
      PROVE  SameButFor(session, session') /\ UNCHANGED <<published, exchange>>
  <2> DEFINE next(u) == [session EXCEPT !.step = a, !.uri = u]
  <2>1. \E r, u : Continue(r, next(u))
    BY <1>8 DEF AskUri
  <2>2. \A u : SameButFor(session, next(u))
    BY <1>1
  <2> HIDE DEF next, SameButFor
  <2> QED
    BY <1>2, <2>1, <2>2
<1> QED
  BY <1>3, <1>4, <1>5, <1>6, <1>7, <1>8 DEF Client

LEMMA SessionTypeStep ==
  SessionInv /\ SessionInv' /\ SessionTypeOK /\ [SessionNext]_world => SessionTypeOK'
<1> SUFFICES ASSUME SessionInv, SessionInv', SessionTypeOK, [SessionNext]_world
             PROVE  SessionTypeOK'
  OBVIOUS
<1>1. /\ Devices' = Devices
      /\ \A i : Profiles(i)' = Profiles(i) /\ Port(i)' = Port(i)
      /\ \A i, j : Token(i, j)' = Token(i, j) /\ Path(i, j)' = Path(i, j)
  BY WorldKept, SameValues DEF SessionInv
<1>2. LaunchTypeOK'
  BY WorldKept, LaunchTypeStep DEF SessionInv, SessionTypeOK
<1>3. SameButFor(session, session')
  <2>1. CASE UNCHANGED session
    BY <2>1 DEF SameButFor
  <2>2. CASE Client
    BY <2>2, ClientChanges DEF SessionInv
  <2> QED
    BY <2>1, <2>2 DEF SessionNext, Launching, Exchange, Publish, world, sessionVars
<1>4. session'.step \in Steps /\ Placed(session)'
  BY DEF SessionInv, ClientInv
<1>5. session'.at \in {0} \cup {Port(i) : i \in Devices}
  BY <1>1, <1>3, <1>4 DEF SessionTypeOK, SameButFor, Placed, OnDevice
<1>6. session'.token \in {Absent} \cup UNION {{Token(i, j) : j \in Profiles(i)} : i \in Devices}
  BY <1>1, <1>3, <1>4 DEF SessionTypeOK, SameButFor, Placed, ChosenOn
<1>7. session'.got \subseteq UNION {{i} \X Profiles(i) : i \in Devices}
  <2>1. CASE session'.got = session.got
    BY <2>1 DEF SessionTypeOK
  <2>2. CASE session'.step = "done"
    <3>1. PICK i \in Devices : \E j \in Profiles(i) : session'.got = {<<i, j>>}
      BY <1>1, <1>4, <2>2 DEF Placed
    <3> QED
      BY <3>1
  <2> QED
    BY <1>3, <2>1, <2>2 DEF SameButFor
<1>8. published' \subseteq
        {<<Path(q[1], q[2]), q>> : q \in UNION {{i} \X Profiles(i) : i \in Devices}}
  <2>1. ASSUME NEW f \in published'
        PROVE  f \in {<<Path(q[1], q[2]), q>> : q \in UNION {{i} \X Profiles(i) : i \in Devices}}
    <3>1. PICK i \in Devices : \E j \in Profiles(i) : f = <<Path(i, j), <<i, j>>>>
      BY <1>1 DEF SessionInv, PublishedInv
    <3>2. PICK j \in Profiles(i) : f = <<Path(i, j), <<i, j>>>>
      BY <3>1
    <3> DEFINE q == <<i, j>>
    <3>3. q \in UNION {{k} \X Profiles(k) : k \in Devices} /\ q[1] = i /\ q[2] = j
      OBVIOUS
    <3> HIDE DEF q
    <3>4. f = <<Path(q[1], q[2]), q>>
      BY <3>2, <3>3 DEF q
    <3> QED
      BY <3>3, <3>4
  <2> QED
    BY <2>1
<1>9. Len(exchange') <= 1
  <2>1. CASE UNCHANGED exchange
    BY <2>1 DEF SessionTypeOK
  <2>2. ASSUME NEW i \in Devices, Exchange(i) PROVE Len(exchange') <= 1
    BY <2>2, ShortSeqs DEF Exchange
  <2>3. CASE Client
    BY <2>1, <2>3, ClientChanges DEF SessionInv
  <2> QED
    BY <2>1, <2>2, <2>3 DEF SessionNext, Launching, Publish, world, sessionVars
<1> QED
  BY <1>1, <1>2, <1>4, <1>5, <1>6, <1>7, <1>8, <1>9 DEF SessionTypeOK

\* What the client has is of its type: the port of a device, the token of a
\* profile, profiles that there are.
THEOREM SessionTypeCorrect == SessionSpec => []SessionTypeOK
<1>1. SessionInit => SessionTypeOK
  <2> SUFFICES ASSUME SessionInit PROVE SessionTypeOK
    OBVIOUS
  <2>1. LaunchTypeOK
    BY InitLaunchTypes DEF SessionInit
  <2>2. Len(<<>>) <= 1
    OBVIOUS
  <2> QED
    BY <2>1, <2>2 DEF SessionInit, SessionTypeOK, Steps
<1>2. SessionInv /\ SessionInv' /\ SessionTypeOK /\ [SessionNext]_world => SessionTypeOK'
  BY SessionTypeStep
<1> QED
  BY <1>1, <1>2, SessionInvariance, PTL DEF SessionSpec

=============================================================================
