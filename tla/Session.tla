------------------------------ MODULE Session ------------------------------
(***************************************************************************)
(* A client of the mock that was launched: it finds a device by discovery, *)
(* asks it over SOAP for its media service, its profiles and the URI of    *)
(* one of them, and follows that URI to MediaMTX or to the snapshots.      *)
(* Anybody may also send any single request, well formed or not.           *)
(*                                                                         *)
(* A request is what the code looks up in its XML, a reply what it hands   *)
(* out.  Texts are those of Config.  In the path of a URI each segment is  *)
(* a text: a quoted one may contain slashes.  The host is the same in all  *)
(* URIs and left out.                                                      *)
(***************************************************************************)
EXTENDS Launch
Ext == INSTANCE SequencesExt

CONSTANTS
  Messages(_),    \* the requests that are made with a configuration
  ClientLogins    \* the logins of the client

VARIABLES
  published,   \* what MediaMTX offers: pairs <<path, <<device, profile>>>>
  session,     \* the client
  exchange     \* a request, the device it was made of, and the reply

sessionVars == <<published, session, exchange>>
world       == <<allVars, sessionVars>>

-----------------------------------------------------------------------------
(* Logins, and the header with which a client presents them.               *)

\* What a configuration with auth gives.
Username == "admin"
Password == "secret"

Plain(text) == <<"plain", text>>
\* base64(sha1(nonce + created + password)), taken to be injective.
Sha1(nonce, created, password) == <<"sha1", nonce, created, password>>

Anonymous == [user |-> "", secret |-> "", way |-> "none"]
Logins ==
  [user : {Username, "guest"}, secret : {Password, "guess"},
   way : {"text", "untyped", "digest", "old digest", "altered digest", "bare digest",
          "bad nonce"}]

\* The requests that there are: how the body parses, what Content-Length says,
\* and what is looked up in the XML.
Requests ==
  [form : {"garbled", "bodiless", "empty", "action"},
   length : {"none", "unreadable", "given"}, action : STRING, ns : {"trt", "tr2"},
   tokens : Seq(Texts), login : Logins \cup {Anonymous}]

ASSUME ClientLoginsAssumption == ClientLogins \subseteq Logins \cup {Anonymous}
ASSUME MessagesAssumption == \A raw \in RawConfigs : Messages(raw) \subseteq Requests

\* username, password: at most one text; type: how the password is given.  An
\* old digest was made for an earlier message, nonce and time included; an
\* altered one says another time than that it was made with.
Header(login) ==
  LET plain  == [username |-> <<login.user>>, password |-> <<Plain(login.secret)>>,
                 type |-> "text", nonce |-> Absent, created |-> Absent]
      digest == [plain EXCEPT !.type = "digest", !.nonce = <<"n">>, !.created = <<"now">>,
                              !.password = <<Sha1("n", "now", login.secret)>>]
      old    == [plain EXCEPT !.type = "digest", !.nonce = <<"n0">>, !.created = <<"then">>,
                              !.password = <<Sha1("n0", "then", login.secret)>>]
  IN  CASE login.way = "none" ->
             [plain EXCEPT !.username = Absent, !.password = Absent, !.type = "none"]
        [] login.way = "text"           -> plain
        [] login.way = "untyped"        -> [plain EXCEPT !.type = "none"]
        [] login.way = "digest"         -> digest
        [] login.way = "old digest"     -> old
        [] login.way = "altered digest" -> [digest EXCEPT !.created = <<"then">>]
        [] login.way = "bare digest"    -> [digest EXCEPT !.nonce = Absent]
        [] login.way = "bad nonce"      -> [digest EXCEPT !.nonce = <<"undecodable">>]

\* _validate_digest, validate_ws_security
ValidDigest(header) ==
  /\ header.nonce # Absent /\ header.created # Absent
  /\ header.nonce # <<"undecodable">>
  /\ header.password = <<Sha1(header.nonce[1], header.created[1], Password)>>

Authorized(header) ==
  \/ config.auth = "off"
  \/ /\ header.username = <<Username>> /\ header.password # Absent
     /\ IF header.type = "digest" THEN ValidDigest(header)
                                  ELSE header.password = <<Plain(Password)>>

-----------------------------------------------------------------------------
(* URIs.                                                                   *)

Uri(login, port, path) == [login |-> login, port |-> port, path |-> path]

Quote(text)     == <<text>>
Segments(text)  == [k \in DOMAIN text |-> <<text[k]>>]
\* The text of a path, or of a part of one, after unquoting.
Unquote(path)   == Ext!FlattenSeq(path)

ByIndex(i)        == Uri(Absent, config.start + i - 1, Segments(<<"onvif", "media_service">>))  \* faulty
ServiceUrl(i)     == Uri(Absent, Port(i), Segments(<<"onvif", "media_service">>))
DeviceUrl(i)      == Uri(Absent, Port(i), Segments(<<"onvif", "device_service">>))
SnapshotUri(i, j) == Uri(Absent, Port(i), Segments(<<"snapshot">>) \o Quote(Token(i, j)))

NoLogin   == Absent                                             \* faulty
RtspLogin == IF config.auth = "off" THEN Absent ELSE <<Username, Password>>
RtspUri(i, j) == Uri(RtspLogin, config.rtsp, Segments(Path(i, j)))

-----------------------------------------------------------------------------
(* handle_soap.                                                            *)

ServiceQueries == {"GetServices", "GetCapabilities"}
DeviceQueries  == {"GetDeviceInformation", "GetHostname", "GetSystemDateAndTime",
                   "GetNetworkInterfaces", "GetScopes"}
Lists          == {"GetProfiles", "GetVideoSources", "GetVideoEncoderConfigurations"}
UriQueries     == {"GetStreamUri", "GetSnapshotUri"}
NoopSetters    == [SetHostname |-> "tds", SetSystemDateAndTime |-> "tds",
                   SetSynchronizationPoint |-> "tr2"]
NoExemption    == {}                                             \* faulty
AuthExempt     == {"GetSystemDateAndTime"}

\* ns: of the response; of: the device it tells about, 0 for none; suffix: what
\* is appended to each of the tokens.
Fault(code) == [status |-> code, ns |-> "s", of |-> 0, tokens |-> <<>>, suffix |-> "",
                uri |-> Absent]
Ok(ns, i)   == [Fault("200") EXCEPT !.ns = ns, !.of = i]

\* The first element of that name, else the first profile.
FirstElement(i, m) == IF m.tokens = <<>> THEN Token(i, 1) ELSE m.tokens[1]   \* faulty
\* The first that is not empty, else the first profile.
RequestedToken(i, m) ==
  LET named == {k \in DOMAIN m.tokens : m.tokens[k] # EmptyText}
  IN  IF named = {} THEN Token(i, 1)
      ELSE m.tokens[CHOOSE k \in named : \A l \in named : k <= l]

OfAnyDevice(i, t)    == {q \in UNION {{k} \X Profiles(k) : k \in Devices} :
                           Token(q[1], q[2]) = t}                \* faulty
ProfileByToken(i, t) == {q \in {i} \X Profiles(i) : Token(i, q[2]) = t}
\* next(...) of the profiles in their order.
FirstOf(found) ==
  CHOOSE q \in found : \A r \in found : q[1] < r[1] \/ (q[1] = r[1] /\ q[2] <= r[2])

\* _get_stream_uri, _get_snapshot_uri
HandedOut(action, q) == IF action = "GetStreamUri" THEN RtspUri(q[1], q[2])
                                                   ELSE SnapshotUri(q[1], q[2])

UriReply(i, m) ==
  LET found == ProfileByToken(i, RequestedToken(i, m))
      uri   == [q \in found |-> HandedOut(m.action, q)]
  IN  IF found = {} THEN Fault("400")
      ELSE [Ok("trt", i) EXCEPT !.uri = <<uri[FirstOf(found)]>>]

\* Sources and encoders have tokens of their own, made from the profile's.
Suffix(action) == CASE action = "GetVideoSources"               -> "-source"
                    [] action = "GetVideoEncoderConfigurations" -> "-encoder"
                    [] OTHER                                    -> ""

\* The namespaces "trt" and "tr2" are those of Media and Media2.
ListReply(i, m) ==
  [Ok(IF m.ns = "tr2" THEN "tr2" ELSE "trt", i)
     EXCEPT !.tokens = [j \in Profiles(i) |-> Token(i, j)], !.suffix = Suffix(m.action)]

\* _get_services, _get_capabilities
ServicesReply(i) == [Ok("tds", i) EXCEPT !.uri = <<ServiceUrl(i)>>]

\* The time is the same for all devices.
DeviceReply(i, m) == Ok("tds", IF m.action = "GetSystemDateAndTime" THEN 0 ELSE i)

Dispatch(i, m) ==
  CASE m.action \in DOMAIN NoopSetters -> Ok(NoopSetters[m.action], 0)
    [] m.action \in UriQueries         -> UriReply(i, m)
    [] m.action \in Lists              -> ListReply(i, m)
    [] m.action \in ServiceQueries     -> ServicesReply(i)
    [] m.action \in DeviceQueries      -> DeviceReply(i, m)
    [] OTHER -> Fault("501")

\* _soap_action: the XML parses and has a Body with an action in it.
HasAction(m) == m.form = "action"

HandleSoap(i, m) ==
  IF ~HasAction(m) THEN Fault("400")
  ELSE IF m.action \notin AuthExempt /\ ~Authorized(Header(m.login)) THEN Fault("401")
  ELSE Dispatch(i, m)

\* do_POST: without a length nothing is read, an unreadable one ends the
\* handler without an answer.
Post(i, m) ==
  CASE m.length = "none"       -> HandleSoap(i, [m EXCEPT !.form = "garbled"])
    [] m.length = "unreadable" -> Fault("dropped")
    [] m.length = "given"      -> HandleSoap(i, m)

\* do_GET, as far as the profile; the picture of it is Snapshot's matter.
GetSnapshot(i, path) ==
  IF Len(path) > 1 /\ path[1] = <<"snapshot">>
  THEN ProfileByToken(i, Unquote(Tail(path)))
  ELSE {}

-----------------------------------------------------------------------------
(* MediaMTX as mediamtx_config sets it up, and its publishers.             *)

Paths == UNION {{Path(i, j) : j \in Profiles(i)} : i \in Devices}

\* ffmpeg publishes from this host and without a login.
Ffmpeg == [login |-> Absent, local |-> TRUE]

\* With auth, publishing is for this host and reading for who has the login.
WithLogin(client)  == config.auth = "off" \/ client.login = <<Username, Password>>  \* faulty
MayPublish(client) == config.auth = "off" \/ client.local
MayRead(login)     == config.auth = "off" \/ login = <<Username, Password>>

\* The ffmpeg of a profile has connected to rtsp_publish_uri.
Publish(i, j) ==
  /\ phase \in {"servers", "serving"}
  /\ MayPublish(Ffmpeg) /\ Path(i, j) \in Paths
  /\ <<Path(i, j), <<i, j>>>> \notin published
  /\ published' = {f \in published : f[1] # Path(i, j)} \cup {<<Path(i, j), <<i, j>>>>}
  /\ UNCHANGED <<allVars, session, exchange>>

Played(uri) == {f[2] : f \in {g \in published : g[1] = Unquote(uri.path)}}

-----------------------------------------------------------------------------
(* The client.                                                             *)

SessionInit ==
  /\ LaunchInit
  /\ published = {} /\ exchange = <<>>
  /\ session = [step |-> "start", login |-> Anonymous, ns |-> "trt", uuid |-> Absent,
                at |-> 0, token |-> Absent, uri |-> Absent, got |-> {}]

Launching == LaunchNext /\ UNCHANGED sessionVars

Says(action, tokens) ==
  [form |-> "action", length |-> "given", action |-> action, ns |-> session.ns,
   tokens |-> tokens, login |-> session.login]

\* Goes on with a reply, or gives up at a fault.
Continue(reply, next) ==
  /\ session' = IF reply.status = "200" THEN next ELSE [session EXCEPT !.step = "refused"]
  /\ UNCHANGED <<allVars, published, exchange>>

\* A TCP connection to a port reaches whoever listens there.
Connects(port, i) == phase = "serving" /\ <<port, i>> \in listening /\ i # MediaMTX

\* The discovery responder answers a probe for every device.
Discover(i) ==
  /\ phase = "serving" /\ session.step = "start" /\ exchange = <<>>
  /\ \E login \in ClientLogins, ns \in {"trt", "tr2"} :
       session' = [session EXCEPT !.step = "found", !.login = login, !.ns = ns,
                                  !.uuid = Uuid(i), !.at = DeviceUrl(i).port]
  /\ UNCHANGED <<allVars, published, exchange>>

FindMedia(i, action) ==
  /\ session.step = "found" /\ Connects(session.at, i)
  /\ LET reply == Post(i, Says(action, <<>>)) IN
       Continue(reply, [session EXCEPT !.step = "media", !.at = reply.uri[1].port])

\* Chooses a profile by its token, or leaves the choice to the device.
ListProfiles(i) ==
  /\ session.step = "media" /\ Connects(session.at, i)
  /\ LET reply == Post(i, Says("GetProfiles", <<>>)) IN
       \E j \in 0 .. Len(reply.tokens) :
         Continue(reply, [session EXCEPT !.step = "chosen",
                            !.token = IF j = 0 THEN Absent ELSE reply.tokens[j]])

AskUri(i, action) ==
  /\ session.step = "chosen" /\ Connects(session.at, i)
  /\ LET reply == Post(i, Says(action, IF session.token = Absent THEN <<>>
                                       ELSE <<session.token>>))
     IN Continue(reply, [session EXCEPT !.step = action, !.uri = reply.uri])

\* RTSP: waits for as long as nobody publishes there.
Play ==
  /\ session.step = "GetStreamUri"
  /\ LET uri == session.uri[1] IN
     /\ <<uri.port, MediaMTX>> \in listening
     /\ \/ /\ ~MayRead(uri.login)
           /\ session' = [session EXCEPT !.step = "refused"]
        \/ /\ MayRead(uri.login) /\ Played(uri) # {}
           /\ session' = [session EXCEPT !.step = "done", !.got = Played(uri)]
  /\ UNCHANGED <<allVars, published, exchange>>

Fetch(i) ==
  /\ session.step = "GetSnapshotUri" /\ Connects(session.uri[1].port, i)
  /\ session' = [session EXCEPT !.step = "done", !.got = GetSnapshot(i, session.uri[1].path)]
  /\ UNCHANGED <<allVars, published, exchange>>

Client ==
  \/ Play
  \/ \E i \in Devices :
       \/ Discover(i) \/ ListProfiles(i) \/ Fetch(i)
       \/ \E a \in ServiceQueries : FindMedia(i, a)
       \/ \E a \in UriQueries : AskUri(i, a)

\* A single request by anybody, instead of the session.
Exchange(i) ==
  /\ session.step = "start" /\ Connects(Port(i), i) /\ exchange = <<>>
  /\ \E m \in Messages(config) :
       exchange' = <<[device |-> i, message |-> m, reply |-> Post(i, m)]>>
  /\ UNCHANGED <<allVars, published, session>>

SessionNext ==
  \/ Launching \/ Client
  \/ \E i \in Devices : Exchange(i) \/ \E j \in Profiles(i) : Publish(i, j)

\* The client goes on and every ffmpeg reaches MediaMTX in the end.
SessionSpec ==
  /\ SessionInit /\ [][SessionNext]_world
  /\ WF_world(Launching) /\ WF_world(Client)
  /\ WF_world(\E i \in Devices : \E j \in Profiles(i) : Publish(i, j))

-----------------------------------------------------------------------------
(* Properties.                                                             *)

Steps == {"start", "found", "media", "chosen", "GetStreamUri", "GetSnapshotUri",
          "refused", "done"}

\* Type invariant.
SessionTypeOK ==
  /\ LaunchTypeOK
  /\ published \subseteq {<<Path(q[1], q[2]), q>> : q \in UNION {{i} \X Profiles(i) : i \in Devices}}
  /\ session.step \in Steps /\ session.at \in {0} \cup {Port(i) : i \in Devices}
  /\ session.token \in {Absent} \cup UNION {{Token(i, j) : j \in Profiles(i)} : i \in Devices}
  /\ session.got \subseteq UNION {{i} \X Profiles(i) : i \in Devices}
  /\ Len(exchange) <= 1

\* Who may use the services, by what he knows and how he says it: a digest
\* that was right for an earlier message will do.
Granted(login) ==
  \/ config.auth = "off"
  \/ /\ login.user = Username /\ login.secret = Password
     /\ login.way \in {"text", "untyped", "digest", "old digest"}

\* A session that went through ends at the stream or at a picture of the
\* profile it chose, or of the first one, on the device it discovered: the
\* tokens that devices share, the texts that are quoted in one URI and not in
\* the other, the ports and the paths given by default lead nobody astray.
GetsWhatItChose ==
  session.step = "done" =>
    \E i \in Devices : \E j \in Profiles(i) :
      /\ session.got = {<<i, j>>} /\ session.uuid = Uuid(i)
      /\ IF session.token = Absent THEN j = 1 ELSE session.token = Token(i, j)

\* Services and streams judge a login alike: whoever is let in at the first
\* request is not turned away later, neither by a list nor by MediaMTX; and
\* nobody else comes as far.
LoginDecides ==
  session.step \notin {"start", "found"} =>
    (session.step = "refused" <=> ~Granted(session.login))

\* What the sender of m means by it: to be read, by whom he says he is; a
\* profile of device i by one of the tokens, or the first one by none.
Readable(m)  == m.form = "action" /\ m.length = "given"
Admitted(m)  == Granted(m.login) \/ m.action = "GetSystemDateAndTime"
Supported(m) == m.action \in ServiceQueries \cup DeviceQueries \cup Lists
                               \cup UriQueries \cup DOMAIN NoopSetters
Asked(m)     == {m.tokens[k] : k \in DOMAIN m.tokens} \ {EmptyText}
Known(i)     == {Token(i, j) : j \in Profiles(i)}
Meant(i, m)  == {j \in Profiles(i) : IF Asked(m) = {} THEN j = 1 ELSE Token(i, j) \in Asked(m)}

\* Following the URI gets the stream, or a picture, of profile j of device i.
LeadsTo(uri, action, i, j) ==
  IF action = "GetStreamUri"
  THEN uri.port = config.rtsp /\ Unquote(uri.path) = Path(i, j) /\ MayRead(uri.login)
  ELSE uri.port = Port(i) /\ GetSnapshot(i, uri.path) = {<<i, j>>}

\* The status that m is due: whether it can be read comes before who sends
\* it, who sends it before whether it is supported; and then it succeeds,
\* unless it asks for the URI of a profile that there is not.
DueStatus(i, m, status) ==
  /\ status = "dropped" <=> m.length = "unreadable"
  /\ status = "401" <=> Readable(m) /\ ~Admitted(m)
  /\ status = "501" <=> Readable(m) /\ Admitted(m) /\ ~Supported(m)
  /\ ~Readable(m) /\ m.length # "unreadable" => status = "400"
  /\ Readable(m) /\ Admitted(m) /\ Supported(m) =>
       /\ m.action \notin UriQueries \/ Asked(m) \subseteq Known(i) => status = "200"
       /\ m.action \in UriQueries /\ Meant(i, m) = {} => status = "400"

\* What a reply to m tells: of nothing if it is a fault, and otherwise of the
\* device asked; lists are complete and in the namespace of the request, only
\* the tokens in that of the profiles are such as URIs are asked for with; and
\* a URI leads to the profile that was meant.
DueContents(i, m, r) ==
  IF r.status # "200" THEN r.of = 0 /\ r.tokens = <<>> /\ r.uri = Absent
  ELSE /\ r.of = IF m.action \in DOMAIN NoopSetters \cup {"GetSystemDateAndTime"} THEN 0 ELSE i
       /\ m.action \in Lists =>
            /\ r.ns = m.ns /\ {r.tokens[j] : j \in DOMAIN r.tokens} = Known(i)
            /\ r.suffix = "" <=> m.action = "GetProfiles"
       /\ m.action \in ServiceQueries => r.uri[1].port = Port(i)
       /\ m.action \in UriQueries => \E j \in Meant(i, m) : LeadsTo(r.uri[1], m.action, i, j)

AsMeant(i, m, r) == DueStatus(i, m, r.status) /\ DueContents(i, m, r)

\* Every request gets what it is due (server.py:54-60, soap.py:48-103), whoever
\* sends it, in whatever shape and with whatever tokens: the good ones succeed
\* with what was meant, the others get the fault that tells what is wrong.
AnsweredAsMeant ==
  exchange # <<>> =>
    AsMeant(exchange[1].device, exchange[1].message, exchange[1].reply)

\* With a good login a session that found a device ends well: the streams
\* that URIs promise are published under the paths that they name.
SessionSucceeds ==
  (session.step = "found" /\ Granted(session.login)) ~> (session.step = "done")

=============================================================================
