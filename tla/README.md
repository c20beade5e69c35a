# A verification project for the ONVIF camera mock

`camera-mock run` turns a YAML configuration into a set of fake IP cameras: it
starts MediaMTX (the RTSP server) and one ffmpeg publisher per profile, one ONVIF
HTTP endpoint per device and one WS-Discovery responder, watches the children and
stops everything again. This directory holds TLA+ models of that program, TLC
runs that check them and TLAPS proofs about most of them. Paths below are
relative to the package `src/camera_mock/` of the repository.

## 1. Inventory

| Component | State | Operations | Talks to |
|---|---|---|---|
| Runtime supervisor (`runtime.py`, `cli.py`) | `_tempdir`, `_mediamtx`, `_publishers`, `_publisher_started_at`, `_servers`, `_threads`, `_discovery` | `run_forever`, `start`, `stop`, `_stop_after_interrupts`, `_wait_for_port`, `_terminate` | owns everything below; children by poll, signal and wait |
| ONVIF server lifecycle (`server.py`, `socketserver`) | listening socket, serving thread, shutdown request and event | `make_server`, `serve_forever`, `shutdown`, `server_close` | started and stopped by the runtime |
| Discovery responder (`discovery.py`) | stop event, socket, thread | `start`, `stop`, `_run` | the network, other responders on it; started and stopped by the runtime |
| Snapshots (`server.py`) | none of its own; reads `_publisher_started_at` | `_send_snapshot`, `_snapshot_offset`, `_snapshot_jpeg`, `_run_snapshot_command` | one ffmpeg per request; the runtime's dictionary |
| Configuration (`config.py`, `models.py`) | the sets of used ports, uuids, paths, tokens while parsing | `load_config`, `parse_config` and helpers | ffprobe; everybody reads the result |
| SOAP dispatch and profiles (`soap.py`, `server.py`) | none | `do_POST`, `handle_soap`, `_dispatch`, URI and profile responses | clients; the configuration, authentication |
| WS-Security (`auth.py`) | none | `validate_ws_security` | SOAP dispatch |
| Media commands (`media.py`) | none | `mediamtx_config`, `ffmpeg_publish_command` | MediaMTX and ffmpeg, through the runtime |
| Samples (`samples.py`) | none | `sample_config` | the command line, and through it the parser |

What is hard here, and where the models look:

* **Interrupts.** A `KeyboardInterrupt` may be raised at any statement of the main
  thread. `stop()` is then run again from its first line over half-released state.
* **Children that die on their own**, between two polls, between a poll and a
  signal, while another one is awaited, or that ignore SIGINT, or even SIGKILL
  for longer than the runtime waits.
* **Threads with handshakes**: `server.shutdown()` blocks until `serve_forever` has
  been left, in a thread that may not have entered it; `DiscoveryResponder.stop()`
  closes a socket that its thread may not have created.
* **Responders that hear each other** and search for words that replies contain, too.
* **Shared state read late**: handler threads look start times up in a dictionary
  that the main thread fills and clears, keyed by tokens unique per device only.
* **Rounding, wrapping and NaN** in the position of a snapshot.
* **Defaults that meet explicit values** in a configuration parsed in one pass, and
  ports that the parser does not compare with those of MediaMTX.
* **Texts made in one module and used in another**: tokens, quoted and unquoted;
  paths, in a URI, a configuration file and a command line; logins, judged by the
  services and by MediaMTX.
* **Checks in a row** of a request, whose order decides what a client may learn.

What makes each part correct: after `stop()` nothing of the run is left, and until
then no live child is lost; children are stopped in an order that never breaks a
stream under an advertised endpoint; an endpoint exists only after its streams; the
responder answers every datagram in full and nothing after `stop()`, does not fall
silent, and does not answer answers; a healthy file always yields a snapshot, from where the
stream is; the parser accepts exactly the usable configurations, and what it accepts can
be started; a client that is let in reaches the stream or picture of the profile it chose;
every request gets what its sender is due. Where the code falls short of one of these,
a run shows it (section 5).

## 2. Modules

```
   Supervisor <-- refinement -- Runtime --EXTENDS--> OnvifServer
                                   ^
               RuntimeInvariant ---+     Discovery        Snapshot        Echo
                  ^        ^               ^    ^          ^    ^        ^    ^
           MCRuntime  Runtime_proof  MCDiscovery |  MCSnapshot |    MCEcho    |
                                       Discovery_proof  Snapshot_proof  Echo_proof

   Outcomes <-- Config <-- Samples <-- Launch <------ Session <-- MCSession
       ^                                 ^   ^           ^
   Metadata <-- MCMetadata        MCConfig  Launch_proof <-- Session_proof
       ^                                     |
   Metadata_proof ------> Outcomes_proof <---+
```

**`OnvifServer`** has four arrays over the devices (`socket`, `loop`, `request`,
`isShutDown`). The handshake between `shutdown()` and `serve_forever()` is the standard
library's, so it is external code, modelled because `stop()` blocks on it. Its
actions constrain only its own variables; `Runtime` conjoins them with a step of
the caller.

**`Runtime`** is one run of the process. `pc` is the next statement of the main thread
and `idx` the position in the loop it is in; the fields of `CameraMockRuntime` are
variables of the same names. The operating system is `child` (each child as `none`,
`running`, `interrupted`, `killed`, `exited`), `port` (who listens on the RTSP port)
and `responder`. There is one action per statement that can block, fail, change
state or be interrupted:

| Code | Actions |
|---|---|
| `main`, `_run`, `start` | `LoadConfig` ... `StartDiscovery` |
| `_wait_for_port` | `PortPoll`, `PortConnect` |
| `run_forever` | `Started`, `PollChild`, `Sleep`, `ShutdownRequested` |
| `_stop_after_interrupts` | `EnterStop`, `ContinueStop` |
| `stop` | `StopDiscovery` ... `Cleanup` |
| `_terminate` | `Terminate`, `AwaitInterrupted`, `AwaitKilled` |
| a way out of the process, also where a `Popen`, a bind, a thread's start or the removal of the directory fails | `Leave(status)` in the action that takes it |
| everybody else | `Interrupt`, `Kill`, `ServerThread`, `ResponderEnds`, `ChildExits`, `MediaMTXListens` |

`Interrupt` is where the exception structure of the code lives: in the polling loop it
goes to the handler, in `stop()` to `_stop_after_interrupts`, anywhere else, including
the two places of `_stop_after_interrupts` outside its `try`, it ends the process.
`DiscoveryResponder.stop()` and `join` appear as the two statements seen from the
runtime; the inside is `Discovery`'s matter.

**`Supervisor`** is the abstract specification: what the end of the process says
about the children. `Runtime` maps its program counter to a phase and its children to
the sets of spawned and living ones.

**`Discovery`** is the responder's thread against the thread that stops it and the
network. A datagram is what its sender means by it and what the code looks for instead: which
of the two words and which uuids occur in its text. `answers[i]` lists the devices that answered datagram `i`.

**`Echo`** is a network with several responders and their clients. A responder answers in
one step here; the question is who hears the answer. Replies go to the address a datagram
came from, which for one of the clients is a responder's: sockets share the discovery port
(`SO_REUSEADDR`). The network is a bag of datagrams, each of which carries the client it
goes back to (`origin`) and how many datagrams led to it (`hops`).

**`Snapshot`** follows GET requests in time. `stage` is the runtime as far as
snapshots see it. A tick is a fraction of a millisecond, so that the rounding of
the seek position (`f"{offset:.3f}"`) is part of the model. A duration may be unknown,
wrong, or NaN, which passes the check of the parser. One run of ffmpeg yields a
frame when the file is good and the position lies before its real end. `publishedAt`
is no state of the code: it remembers when each publisher was started, so that the position
can be compared with the profile's own stream and not with the entry in the dictionary.

**`Config`** is the parser as the loop it is, with the four `used_*` sets. Values the
checks compare (ids, tokens, paths, uuids, ports) are data, with their defaults and
normal forms; a check on something else is reduced to its outcome: fine, a `ConfigError`,
or another exception (**`Outcomes`**, with the rule that the first failed check decides).
**`Samples`** has the two sample configurations as such data.

**`Metadata`** is the part of the parser that `Config` reduces to the outcome `numbers`: the
width, frame rate, bit rate and duration of a profile, from what ffprobe prints and what
the configuration says, with Python's different ideas of missing, null, zero, fractional,
infinite and NaN. One fraction, `Half`, stands for all: `int()` truncates it to 0 in the
configuration, but refuses the same from the text that ffprobe writes.

**`Launch`** gives an accepted configuration to the machine: MediaMTX opens its ports, the
servers are bound one by one. It is `Runtime`'s `start()` again, with port numbers and
without faults: there the ports are all different, here they are what the parser let through.

**`Session`** is a client of what was launched: `Discover`, `FindMedia`, `ListProfiles`,
`AskUri`, then `Play` or `Fetch`. Each of its steps calls `Post`, which is `do_POST`,
`handle_soap`, `_dispatch` and `validate_ws_security` as one operator, and connects to whoever
listens on the port it was given, which is `Launch`'s state. `Play` meets what the publishers
published. Beside the session, `Exchange` is one single request of any form by anybody.
What the XML looks like is left out; a request is what the code looks up in it, a reply
what clients take from it. A login is a name, a password and a way to say it, each of which
`Header` turns into what `auth.py` looks up. A digest that was right for an earlier message
is one of the ways: `validate_ws_security` keeps no nonces and looks at no clock, so it is
accepted, and the properties count it among the good logins.

In every module an operator marked `\* faulty` is a plausible slip in the definition
after it. No action uses it; substituting it shows that a property can fail.

## 3. Runs

| Run | Instance | Shows |
|---|---|---|
| `runtime` | 2 devices, 2 profiles, 2 connection attempts, 3 interrupts, fair; 72 496 states | the inductive invariant `IInv`, `StopReleasesEverything`, `ChildrenTracked`, `NoCloseUnderServe`, `ServedAfterMedia`, `OrderlyShutdown`, the refinement `SupervisorSpec`, and `DeathEndsRun`, `InterruptEndsRun`, `ForeignPortEndsRun` |
| `runtime_shutdown` | 1, 1, 2 interrupts | violated: `ShutdownContinues` (section 5) |
| `discovery` | 2 devices, 2 datagrams of 9 kinds, 1 interrupted `stop()`, fair; 21 105 states | `AnsweredInFull`, `NoReplyAfterStop`, `ServesUntilStopped`, `StopEndsThread`, `EveryDatagramAnswered` |
| `discovery_host` | the interface is a host name | violated: `ServesUntilStopped` (section 5) |
| `echo` | 2 hosts with a device each, a client on a port of its own and one on a responder's, 2 requests, 1 duplicate, 4 hops, fair; 52 255 states | `RepliesUnanswered`, `EchoesBetweenTwo`, `FallsSilent` |
| `echo_ring` | the same, 1 request, no duplicate, 3 hops | violated: `OnlyClientsAnswered` (section 5) |
| `snapshot` | 4 profiles on 2 devices, two of one token, one of duration NaN, 4 ticks, fair; 487 360 states | `HealthyMediaServed`, `SnapshotFollowsStream`, `RequestEnds` |
| `snapshot_shared` | the same | violated: `EverySnapshotFollowsStream` (section 5) |
| `config` | 46 106 configurations; 361 445 states | `AcceptsExactly`, `SamplesAccepted`, `OnlyMediaMTXCollides` |
| `launch_valid` | those of three devices with ports | violated: `ValidConfigStarts` (section 5) |
| `metadata` | 258 880 states, two per input | `OddNumbersAreExplicit`, `ExplicitValuesWin` |
| `session` | 76 configurations, 7 logins for sessions, all for requests, fair; 106 310 states | `GetsWhatItChose`, `LoginDecides`, `AnsweredAsMeant`, `SessionSucceeds` |

Each run also checks the type invariant of its module.

*Bounds.* Two devices and two profiles are the least for which the loops of `start()`
and `stop()` have a middle that an interrupt can hit with one element done and one
not; three interrupts allow one in the loop and two in `stop()`, and a fourth
would meet a state that one of them has already produced, since `stop()` keeps no
memory of how often it ran. (For any number, see the proofs.) Two datagrams let
one wait while the other is being answered; their kinds are a `Probe`, a `Resolve` for
either device and for a stranger, the replies of other responders, something else, and
requests in whose text both words occur. In `Echo` four hops let an answer go round once (a
reply, the answer to it, and both again with the roles exchanged); a datagram of the last hop
can be heard or lost, but not answered, so `FallsSilent` is about what belongs to the client
with a port of its own, whose datagrams never get as far. Snapshot handlers share nothing
they write, so one request at every possible moment is enough. A file of two ticks at two
to a millisecond is the smallest whose last position rounds to its end; four ticks of
time let durations of two and of three wrap. The configurations of `config` are four
families, each of which varies one part completely, and the samples; they include every
default that can meet an explicit value, and ports that meet those of MediaMTX. The
configurations of `session` have two devices that share a token, a token and a path with a
slash, ports, uuids and paths given and by default, each with and without auth. The single
requests are made of four of these, with every login; a session has one login of each kind
(right, as text, as digest, and as the digest of an earlier message; an altered digest; a
wrong name; a wrong password; none), because it asks the same question of the same login
four times.

*What the less obvious properties say.*

* `SnapshotFollowsStream` compares the position that is sought with when the profile's own
  publisher was started (`publishedAt`), less whole durations. The start of the file
  is right only if the stream is there, or if `stop()` overtook the request. It is about
  profiles whose token no other device uses; for the others the code goes wrong, which
  `EverySnapshotFollowsStream` shows.
* `RepliesUnanswered`, `EchoesBetweenTwo` and `FallsSilent` say what is left of "answers are
  not answered", which is false: it takes a client that asks from a responder's address,
  then answers go back and forth between that address and one other, a `Resolve` only at the
  device's own responder, and all other clients' requests still die out.
* `AnsweredInFull` compares the devices that answered with those that the sender wants
  (`Wanted`), which is not what the code searches for: a text may contain both words. It
  counts per datagram, so it also says that no reply goes to the wrong request.
* `EveryDatagramAnswered` adds that none of them waits for ever.
* `ServesUntilStopped` and `EveryDatagramAnswered` excuse a failing call of the operating
  system (`fault`): the code gives up at the first one, and nothing says that it should not.
* `StopReleasesEverything` is about `pc = "stopped"`, reached only when a call of `stop()` has
  run to its end; what happens when one does not is `SupervisorSpec`'s `traceback` and
  `interrupted`. `Supervisor` asks nothing of a process that fails in `start()`.
* `RequestEnds` counts a dropped connection as an end. What makes it one is that a failed
  seek is repeated once.
* `OddNumbersAreExplicit` says who is to blame for a width, rate or duration that the
  endpoints and the snapshots cannot use. The type invariant of `Metadata` lets them
  pass, because the code does.
* `GetsWhatItChose` compares what was played or fetched with what the client chose by a token
  on the device it discovered; it would be false if a shared token, a default port or an
  unquoted path led to somebody else's profile.
* `AnsweredAsMeant` is made of what the sender meant (`Admitted`, `Readable`, `Supported`, the
  profiles `Meant`), not of the checks the code makes. It demands success of a good request
  and that the URI in the reply leads to the profile meant, and of every other request the
  status that tells what is wrong. One point is left open, a URI asked for with several
  tokens of which some are unknown: refusing it or taking one of the known ones is both right.

*Fairness.* The main thread is weakly fair as a whole: each of its waits is
bounded by a timeout (`join`, `wait`, `connect`, `sleep`), except `shutdown()`, whose
step is disabled until the serving thread sets the event. Serving threads
are fair, since `serve_forever` looks at the request every half second. MediaMTX is
assumed to give up when it cannot bind its port, which is what the code's own error
path (`MediaMTX exited with code`) relies on. The responder's thread is fair
because its socket has a timeout of one second; a snapshot handler because ffmpeg is given ten.
Children owe nobody an exit: the runtime's progress does not depend on one. User
interrupts are bounded by `MaxInterrupts`, without which `stop()` might start over for ever.
In `Echo` what was sent on behalf of each client arrives or is lost, however busy the
responders are with another client's; without that, an echo could starve a request. In `Session` the client goes on with what it
has, and every ffmpeg reaches MediaMTX in the end, because the runtime waits for its port
(`_wait_for_port`) before it starts the publishers.

## 4. Proofs

Eight modules hold theorems, for all values of the constants under the named assumptions of
the modules (bounds are numbers, raw configurations are of their type, and the like). Every
invariant and every action property that a passing run checks, and the refinement, is among
them.

| Module | Theorems | What they state |
|---|---|---|
| `Runtime_proof` | `Invariance`, `TypeCorrect`, `StopReleases`, `Tracked`, `CloseAfterServe`, `MediaFirst`, `Orderly`, `Refinement` | `Spec => []IInv`, the five safety properties, `OrderlyShutdown` and `SupervisorSpec` |
| `Discovery_proof` | `DiscoveryInvariance`, `DiscoveryTypeCorrect`, `Answered`, `SilentAfterStop`, `Serves` | `TypeOK`, `AnsweredInFull`, `NoReplyAfterStop`, `ServesUntilStopped` |
| `Echo_proof` | `EchoInvariance`, `EchoTypeCorrect`, `NoEcho`, `NoThirdParty` | `TypeOK`, `RepliesUnanswered`, `EchoesBetweenTwo` |
| `Launch_proof` | `LaunchInvariance`, `LaunchTypeCorrect`, `Accepts`, `SamplesPass`, `Collides` | `LaunchTypeOK`, `AcceptsExactly`, `SamplesAccepted`, `OnlyMediaMTXCollides` |
| `Snapshot_proof` | `SnapshotInvariance`, `SnapshotTypeCorrect`, `HealthyServed`, `FollowsStream` | `TypeOK`, `HealthyMediaServed`, `SnapshotFollowsStream` |
| `Session_proof` | `SessionInvariance`, `SessionTypeCorrect`, `GetsIt`, `LoginJudgedAlike`, `Due` | `SessionTypeOK`, `GetsWhatItChose`, `LoginDecides`, `AnsweredAsMeant` |
| `Metadata_proof` | `MetadataInvariance`, `MetadataTypeCorrect`, `OddNumbersTold`, `ExplicitWins` | `TypeOK`, `OddNumbersAreExplicit`, `ExplicitValuesWin` |
| `Outcomes_proof` | lemmas only: smallest and largest elements, the first failed check, short sequences | |

**Runtime.** None of the safety properties is inductive: that nothing is left when `stop()` has
returned says nothing about the statements before. `RuntimeInvariant` therefore
describes each statement of the main thread, in three parts that the proof treats one
by one. `ChildInv`: which children were started (`SpawnInv`), that
`_publishers` is complete or empty once it was filled (`ListInv`), and that
`_terminate` passes no living child (`TerminateInv`). `EndpointInv`: an endpoint has a socket
exactly when it has a thread, the event is set only when the loop was left,
and `stop()` has closed the endpoints it has passed. `ServiceInv`: a responder that
answers is one the runtime still refers to. The point of the last clauses
of each part is the interrupt: `stop()` starting over at a statement in the middle must find
every live thing still in its lists. That holds because each list is cleared
only after all its elements were dealt with, and the invariant says so.
The proof treats the many ways out of the process once (`LeaveKeepsIInv`); the
remaining steps are one case per action in `TypeStep`, `ChildStep`, `EndpointStep` and
`ResponderStep`. `Orderly` and `Refinement` need no new invariant: `SignalStep` and
`AbstractStep` derive them from `IInv` per step.

**Discovery.** The invariant says, for each statement of the thread, what has been answered
of the datagram it is at, and for each statement of `stop()` in which of its
states the socket is; that a reply needs an open socket then gives `SilentAfterStop`.

**Echo.** Nothing is assumed of the clients: they may ask from a responder's address or
not. The invariant says of each single datagram where it is on the way between the address
that was asked from and the responder that answers. A responder that gets an answer is then at
that address itself, which is `NoEcho`; and it answers the responder that answered, so no
third one comes in, which is `NoThirdParty`.

**Launch.** `AcceptsExactly` compares a program with loops and early exits with a
declarative definition, so its invariant ties the two: at each step `used_ports`,
`used_uuids` and `used_paths` are the ports, uuids and paths of the devices passed so far,
`used_tokens` the tokens of the profiles of the device at hand, and all of what was
passed is well formed. A rejection then exhibits the device or profile that is not.
The first failed check is found by the well-foundedness of the numbers. For `Collides` the
listening ports are those of MediaMTX and of the servers bound so far.

`LaunchTypeCorrect` is more than bookkeeping: that a port in `used_ports` lies within its
range and a path in `used_paths` is not empty holds because the checks before were passed,
so it needs `PassInv`. `NamesAssumption` says that the default names `camera-<n>` and
`profile-<n>` are strings; it also says so of two literals, since the translation to SMT does
not know it of literals by itself. `SamplesPass` shows the two samples well formed, check by check, and then applies
`Accepts`. It assumes `MaxPort >= 8554`, which the real 65535 satisfies; the samples use that
port, so without it they would be refused, and rightly.

**Snapshot.** The invariant follows the start time of a stream from its publisher through the
dictionary, in which only another publisher of the same token can replace it, into the handler.
`FollowsStream` then needs that a handler which found no entry was overtaken by `stop()`, and
the theorem of division, for the whole durations that are taken off.
`HealthyServed` needs that a second try at position 0 always follows a
first one past the end, also for a duration that compares false with everything.

**Session.** `Replies` goes through the decision table once for every request. Its hardest row
is the success of a request for a URI: that the URI leads to the profile meant (`Leads`) uses
the same facts about texts as `GetsIt`.
`SessionInvariance` keeps what the client knows: a token and a port that belong to one device,
a URI with the login of MediaMTX. It stands on `LaunchInvariance`: that an accepted
configuration has different ports is why a connection reaches the device meant.

`GetsIt` needs two clauses more. `Placed`: the URI in the client's hands is the one of
the profile it asked for, on the device it talks to. `PublishedInv`: whatever
is published was published by a stream of a device, at that stream's path. Then a path that is played is
a path that one stream has, since accepted paths differ over all devices, and a
token that is fetched is one that one profile of the device has. Between the two lies the
text: `QuotedText` proves that unquoting what was quoted gives the token back, slashes
included, and `SegmentedText` the same of a path in its segments. Unquoting flattens a
sequence of sequences by the recursive function of `FlattenSeq`. Induction over its length
is had by contradiction: the shortest prefix that is not flattened as it should be has
a shorter one that is (`Flattens`, `Smallest`).

**Metadata.** The two steps of a run are read and parsed, so `MetadataInv` is short; the work
is in the case distinctions over missing, null, zero, junk, NaN and infinite
values of the fields, for all integers: `OddNumbersTold` follows each odd number back to where
it came from. The rate is the first usable one of two, which
`RateTaken` reduces to "the average one, if that means anything".

Only model-checked are the properties of liveness, since they need fairness and `ENABLED`:
`DeathEndsRun`, `InterruptEndsRun`, `ForeignPortEndsRun`, `StopEndsThread`,
`EveryDatagramAnswered`, `FallsSilent`, `RequestEnds` and `SessionSucceeds`.

## 5. Findings

* **A second interrupt can abort the shutdown.** `_stop_after_interrupts` retries `stop()`
  on `KeyboardInterrupt`, but its handler, which logs `shutdown_interrupted_continuing`,
  is itself unprotected, as is the loop's head. An interrupt there
  ends the process with MediaMTX and the publishers alive (run `runtime_shutdown`).
* **A host name as interface silences discovery.** `--interface` is documented as
  `Advertised interface/IP/host.`, and a host name works for the URLs, but the
  responder passes it to `inet_aton` and its thread dies; the runtime
  goes on without discovery (run `discovery_host`).
* **A valid configuration that cannot be started.** `_parse_devices` compares the ONVIF ports
  with each other only (`config.py:90`). With a device on a port of MediaMTX, `validate`,
  `Validate config.` (`cli.py:37`), prints `valid: ...` (`cli.py:67`), and `run` fails
  at the bind, with children started, which it then stops (run `launch_valid`).

* **Answers are answered.** A responder takes every text with the word `Probe` for a request,
  and its own `ProbeMatches` has it (`discovery.py:53`). When a client asks from port 3702 of a
  host with a responder, two responders answer each other's answers until one is lost, and
  log each as `discovery_probe client=%s` (`discovery.py:54`; run `echo_ring`).
* **Two devices with one token share a start time.** `_publisher_started_at` is keyed by token
  (`runtime.py:126`, `server.py:88`), which is unique per device only; the sample for several
  devices uses `main` twice (`examples/multi-device.yaml:16`, `:29`). The first device's
  snapshots then follow the second one's stream, other than
  `test_snapshot_offset_wraps_by_duration` has it (run `snapshot_shared`).

Noticed on the way, and part of `Metadata`: an explicit width or bit rate need not be
positive (a width of 0.5 becomes 0), a duration or frame rate may be NaN, and an infinite
width or bit rate is an `OverflowError`, which nothing catches.

## 6. Not modelled

* The commands `validate`, `endpoints` and `sample-config`: a configuration is read and printed.
* Logging, formatting and the layout of XML; the encoding options of ffmpeg.
* A stream path with characters that a URI reserves: it is put into the RTSP URI unquoted, and
  what then happens is decided by the client and by MediaMTX.
* A request whose body is shorter than its `Content-Length`: its handler thread waits, and
  nobody waits for it, since the threads are daemons.
* Two runs after one another that share children leaked by a kill: the second one finds a foreign
  program on its ports, which `ForeignPortEndsRun` and the failed bind of `Launch` cover;
  what an old MediaMTX does with new publishers is not this program's.
* `multicast_interface_available`, which is never called.

## 7. Running

```
tlc -config MCRuntime.cfg MCRuntime.tla        # likewise for the other .cfg files
tlapm Runtime_proof.tla                        # likewise for the other *_proof modules
```

`MCRuntime.tla` also serves `MCRuntimeShutdown.cfg`, `MCDiscovery.tla` `MCDiscoveryHost.cfg`,
`MCEcho.tla` `MCEchoRing.cfg`, `MCSnapshot.tla` `MCSnapshotShared.cfg` and `MCConfig.tla`
`MCLaunchValid.cfg`. The longest run is `session`, with about a minute and a half. The proofs take a few minutes each from nothing.
