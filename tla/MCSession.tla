----------------------------- MODULE MCSession -----------------------------
(***************************************************************************)
(* Configurations and requests for TLC: the samples, with and without      *)
(* auth, and two devices that share tokens, one of them with a slash, with *)
(* ports, paths and uuids given or by default, some of which meet.         *)
(***************************************************************************)
EXTENDS Session

MCCameraName(i)  == <<"camera-1", "camera-2">>[i]
MCProfileName(i) == <<"profile-1", "profile-2">>[i]

Of(token, path) == [Stream("", "") EXCEPT !.token = token, !.path = path]
Numbered(port, id, profiles) ==
  [shape |-> "ok", id |-> id, number |-> "ok", port |-> port, uuid |-> Absent,
   rest |-> "ok", profiles |-> profiles]

Pairs ==
  {Sample(<<Numbered(Absent, <<"a">>, <<Of(<<"main">>, Absent), Of(<<"sub", "hd">>, v)>>),
            Numbered(n, y, <<Of(t, w)>>)>>) :
     y \in {Absent, <<"a", "sub">>}, n \in {Absent, <<8000>>, <<9000>>},
     t \in {<<"main">>, <<"hd">>},
     <<v, w>> \in {<<Absent, Absent>>, <<<<"", "main", "">>, Absent>>, <<<<"", "main", "">>, <<"main">>>>}}

WithAuth(S) == {[raw EXCEPT !.auth = a] : raw \in S, a \in {"off", "complete"}}

MCRawConfigs   == WithAuth({Single, Multi} \cup Pairs)
MCFewConfigs   == WithAuth({Multi, Sample(<<Numbered(Absent, Absent,
                              <<Of(<<"main">>, Absent), Of(<<"sub", "hd">>, Absent)>>)>>)})

Right == [user |-> Username, secret |-> Password, way |-> "text"]

MCLogins   == Logins \cup {Anonymous}
\* One of each kind; the requests have them all.
MCFewLogins ==
  {Anonymous, Right, [Right EXCEPT !.user = "guest"], [Right EXCEPT !.secret = "guess"]}
    \cup {[Right EXCEPT !.way = w] : w \in {"digest", "old digest", "altered digest"}}

MCMessages(raw) ==
  IF raw \notin MCFewConfigs THEN {} ELSE
  [form : {"garbled", "bodiless", "empty", "action"},
   length : {"none", "unreadable", "given"},
   action : {"GetStreamUri", "GetSystemDateAndTime", "Reboot"}, ns : {"trt"},
   tokens : {<<>>}, login : {Anonymous, Right}]
  \cup
  [form : {"action"}, length : {"given"}, ns : {"trt", "tr2"},
   action : ServiceQueries \cup DeviceQueries \cup Lists \cup DOMAIN NoopSetters
              \cup {"SystemReboot"},
   tokens : {<<>>, <<<<"main">>>>}, login : MCLogins]
  \cup
  [form : {"action"}, length : {"given"}, ns : {"trt", "tr2"}, action : UriQueries,
   tokens : {<<>>, <<EmptyText>>, <<<<"main">>>>, <<EmptyText, <<"sub", "hd">>>>,
             <<<<"hd">>>>, <<<<"main">>, <<"sub", "hd">>>>},
   login : MCLogins]

=============================================================================
