# A verification project for mrefd

mrefd is a reflector for M17 digital voice: repeaters, hot-spots and other reflectors link to
its modules over UDP, and what one of them sends on a module is sent to all the others.  This
directory holds TLA+ modules that model the program, TLC configurations that check them on small
instances, and proofs for TLAPS.  All line numbers refer to the sources in `src/`.

## The system

| Part | State it keeps | Operations | Runs on |
|---|---|---|---|
| Protocol (`protocol.cpp`) | one packet stream per module, parrot map, two timers, `publish` | `Task`: one packet, then stream and parrot timeouts, then every 3 s keepalives, then every 10 s the peer links | protocol thread |
| Streams (`packetstream.*`) | open, identifier, owner, time of the last frame | open, tickle, close, expire | protocol thread |
| Clients (`clients.*`, `client.*`) | list of shared pointers; each client: socket, type, module, keepalive timer, transmit mark | add, remove, find, alive | protocol thread; the dashboard reads (lock) |
| Peers (`peers.*`, `peer.*`) | sorted list of reflectors, each with one client object per shared module | add, remove, find by callsign or address | protocol thread; the dashboard iterates (no lock) |
| Parrot (`parrot.*`) | per client: atomic state, recorded frames, future of the playback thread | add, play, expire, quit | protocol thread and one or two playback threads |
| Interlink file (`interlinks.*`, `interlink.*`) | map of callsign to modules and address, modification time | load, reload, find, update from the DHT | gatekeeper and DHT threads write; protocol thread reads |
| Gatekeeper (`gatekeeper.*`, `bwset.*`) | white and black list, modification times | may link, may transmit, reload | gatekeeper thread writes; protocol thread reads |
| Reflector, main (`reflector.*`, `main.cpp`) | run flags, futures | start and its retry, signals, stop, DHT documents, dashboard report | main, dashboard and DHT threads |
| Users (`users.*`, `user.*`) | the 40 last heard | hearing, location | protocol thread; the dashboard reads (lock) |
| Codecs (`packet.*`, `frametype.*`, `callsign.*`, `refmods.*`, `crc.*`, `position.*`) | none | pure functions | the caller |
| Configuration, sockets, PHP dashboard | - | parsing, system calls, presentation | - |

Parts interact by calls under five kinds of mutex (clients, peers, users, interlinks, lists), by shared pointers that keep
removed clients alive in a stream or a parrot, by the atomic state of a parrot, by raw pointers
into the interlink map, and, between reflectors, by UDP packets.

What is hard here: the order of packets, timeouts and file changes in one endless loop whose
branches each keep part of the truth (client list, peer list, streams, transmit marks); the
playback threads, which the protocol thread sees through one late flag; packets between
reflectors that are lost or reordered while each side links by itself; files reloaded under a
reader; start and stop against signals.  `PROJECT.json` lists these hazards at their lines.

What makes each part correct:

- Streams, clients, peers: a module has one talker and a talker one module; mark, owner and
  lists agree; a talker is not removed; the silent are; streams end and end for a reason.
- Parrot: what is held when the playback is launched comes back; nothing is destroyed in use; the
  reflector goes on.
- Interlinking: a link is wanted by both files, comes back after a failure, does not stay
  one-sided; who knows the other as it is shares no module in two modes with it, and calls where it listens.
- Lists: whoever all versions of a list bar stays out, every question is answered, and an edit
  that leaves the clock a second counts.
- Fan-out: every client of the module gets the frame once, in the form its kind expects,
  whoever is served before; what a reflector sent is not passed on to another.
- Last heard: most recent first, nobody dropped but for want of room.
- Life cycle: no circle of mutexes, sockets for as long as they are used, nothing left of a failed
  start, and a signal in `pause()` ends all threads.
- Codecs: a frame type that is taken apart and put together keeps what was not changed.

## Modules

### Protocol, refining Floor

`Protocol.tla` is `CProtocol::Task` and all it calls that changes clients, peers and streams.
`pc` is the phase of a pass: receive, sweep (`CheckStreamsTimeout`), keepalive, links.  Each kind of
packet is one action with its whole handler; time (`Tick`) and the reload of the interlink file
(`ReloadInterlinks`) happen between any two phases.

| Program | Model |
|---|---|
| `CClients::m_Clients`, `CClient` | `clients`, records of socket, type, module and a generation; `quiet`; `tx` for `m_isTXing` |
| `CPeers::m_Peers`, `CPeer::m_ClientMap` | `peers`: a peer's client objects, `{}` when it is not linked; peers are numbers in alphabetical order |
| `m_streamMap` | `open`, `sid`, `owner`, `age` |
| `m_LastKeepaliveTime`, `m_LastPeersLinkTime` | `sinceKeepalive`, `sinceLinks` |
| `g_Interlinks` | `interlinks`, any of the contents in `InterlinkFiles` |
| `publish`, the DHT document | `publish`, `published` |
| a true `OnPacketIn`, then `SendToClients` | `relayed`, the sender of the frame of this pass |

A client is an object behind a shared pointer: a station that disconnects and links again gets a new
object with equal contents while the old one may still own a stream.  Generations (`gen`) tell them
apart.  A socket has one linked object at most and a stream owner besides, so the two generations
of the instances are never exhausted.

White and black lists, callsign and frame checks and encryption are the choice between an action and
`NothingToDo`: every refused or merely answered packet, a packet-mode packet and a pass without any
packet changes nothing that is modelled.  Legacy reflectors are reflectors here; they differ in the
bytes sent to them.  The order of the client list is not kept: `FindClient` yields the set of the
objects at a socket, and an action takes any of them.  `SameClient` leaves out the comparison of callsigns
(`client.cpp:63`): a socket has one callsign here, so more clients count as equal than in the code.  `FindPeer` (by address) is exact: the first
in the alphabet among the linked peers of that host, without a look at the port.

`Floor.tla` is what the users are promised: a free module goes to one talker, who keeps it until
it is released; nobody holds two, and no identifier is heard on two.  `ImplementsFloor` is the
refinement, with `Holder` computed from the streams.

### Parrot

`Parrot.tla` is the parrot branch of `OnPacketIn`, the parrot loop of `CheckStreamsTimeout` and
the playback threads.  `state` is the atomic `m_state`, written by the playback thread only.  A frame of a
parrot's client is two steps, the look at the state (`Record`) and the `Add`: in between a thread that the
timeout launched may set the state and take the size (`StartPlaying`).  `held` is what `m_data` holds, `size` what
the threads play of it, a member that both of two threads use, and `n` how far each has come; `due`, a history
variable, is what was held when the first was launched, and `echoed` what has been sent.  An `Add` to a recording that
a thread empties at the same time is a data race: it may hold any number of frames afterwards (`Grown`).
`fut` is the thread that the future refers to, and `joining` the assignment that blocks because that
thread has not ended.  At most two threads exist for one parrot: a third `Play` would have to
wait in the same assignment.  `SweepPlaying` is the `default: break;` that leaves the loop at the
same parrot; `spin` then keeps the protocol thread there until `SweepDone`.  Frames count, their
contents do not.  A second thread that plays what the first has cleared is undefined behaviour;
its frames are counted as sent; nor is there anything about an `Add` that moves the memory which a thread
reads.  The loop may take the parrots in any order, as the unordered map
does.  The parrots are separate from `Protocol` because they share with it only the thread and,
in `SendToClients`, the test for a client that is parroting.

### Interlink

`Interlink.tla` is several reflectors that run this program, each with its own file and its own
view of every link, and the packets between them.  `net` is a set per direction: packets are lost
(`Lose`), overtake each other, and equal ones merge.  Here `HandlePeerLinks` includes the CONN that
`Protocol` leaves out.  `Talk` stands for streams from a peer, which `Protocol` has in detail.  A NACK to a
reflector is not modelled: the program never sends one, since `GetInterlinkPacket` has dropped
every packet that `PeerMayLink` would refuse, unless the file changes between the two.  A DISC is
taken to be from the peer that sent it (one reflector per host).

### Directory

`Directory.tla` is where a reflector gets the addresses it calls: the gatekeeper's thread makes items of the
lines of the interlink file, the protocol thread asks the DHT for those without an address
and waits, and the DHT's thread completes the item.  Several reflectors do that with each other;
`Meet` says when the packets of `Interlink` can pass between two.

| Program | Model |
|---|---|
| `g_CFG`, and the document made of it (`SMrefdConfig1`) | `config`, `doc`; `published` when the document is that of this start |
| `mrefd.interlink`, its modification time | `file`, a sequence of lines; `changed` |
| the gatekeeper's thread has not been ended by an exception | `watching` |
| `m_Imap`: `m_UsingDHT`, `m_reqMods`, `m_IsNotLegacy`, `m_Ip` | `items`; `doc` in an item stands for `m_IPv4`, `m_IPv6`, `m_Port` and the modules that were compared |
| `GetDHTConfig`: whom it waits for, `cfg` | `asking`, `found` |

A lookup is several steps (`Ask`, `Hear`, `Update` or `NotFound`), so that files are loaded again, and
reflectors started again, in the middle of it.  A document of an earlier start stays in the DHT until
the next is there (`Publish`).  `HandlePeerLinks` asks whether or not the reflector's own document is there: `Start`
puts it ten seconds before the first pass, but does not wait for it, and a put that failed is
only logged.  `early` is a history variable: who asked, in this start, before its own was out.  Two reflectors of which
neither is in `early` share modules in the same mode only.  If one is, both may believe an old document of the
other and share a module that is encrypted at one of them: the promise at `src/README.md:153` is
not kept then (see "Other surprising behaviour").
`moved` is a history variable too.  Modification times are in `GateKeeper`; an edit is taken to be noticed here.
Documents with a wrong signature, kind or callsign are not found.

### GateKeeper, refining Access

`GateKeeper.tla` is the gatekeeper's thread, which looks at the white and at the black list in turn
and loads one again when its file has another modification time; the protocol thread, which asks both,
each under its own mutex (`IsNodeListed`); and whoever edits and deletes the files.

| Program | Model |
|---|---|
| `m_Callsigns`, `m_LastModTime`, `m_Filename` | `list`, `lastMod`, `named` |
| the mutex of a list, held by the gatekeeper's thread | `locked` |
| where the thread is in `ReloadFromFile` | `pc`, `at`, `opened` (the open file) |
| the file: existence, matching lines, `st_mtime` in seconds | `present`, `content`, `mtime` |
| how far `IsNodeListed` is | `asked`, `step` |

`lets` is a history variable: whom some version of a file has let through.  A list is modelled by what its
lines match; a line for somebody else still makes a white list non-empty.  A load is three steps
(open and empty, read, note the time), so an edit can fall between any two.  A file that is
missing at the start leaves `m_Filename` null, and is not looked for later: the properties are about
the named lists.  `BarredStaysOut` is the property that the mutex is for: an empty list lets
everybody through, and a list is empty while it is loaded.  `PatientEditsTakeEffect` says which edits do count:
those made after the second of the loaded version and not during a load.  The two lists
may be read at two moments; that they are of one moment is not promised and not true.

`Access.tla` is what whoever keeps the two files expects: each list is at any time the whole of some version of its
file and takes on another in one moment, and who asks is judged by what is in force.  It has no thread, no
lock and no list that is being filled.  `ImplementsAccess` is the refinement: `rule` is whom the list lets
through or, between the emptying and the filling of a list, whom the opened file would let through; `file` is whom the
file would let through as it is.  A load is then one `Adopt`, or two when the open file is edited, and a `Delete`,
a `Check` or a `Note` is nothing.

The program forgets some edits: one that is made within the second of the loaded version, or
while the list is being read.  That follows from `st_mtime` in whole seconds.  `src/README.md:151` says that the reflector updates
itself "whenever anything changes": for such edits it does not, and `PatientEditsTakeEffect` is about the others.

### Relay, with FrameType, refining Broadcast

`Relay.tla` follows one frame through the protocol thread: `GetClient` (size, kind of frame, module,
encryption), the branch of `OnPacketIn` for the parrot and its rewriting of DST, `UpdateDashData`, and
`SendToClients`, which is one action per client of the list.  `Protocol` decides whose frame gets
that far; `Relay` says what each other client receives.

| Program | Model |
|---|---|
| `m_Clients` in its order | `clients`; a reflector has one client per shared module, legacy reflectors too |
| the packet's buffer and size | `packet`: size, DST, the DST its checksum fits, last byte, TYPE |
| `dst` in `Task`, read before `OnPacketIn` | `came.dst` |
| `txclient`, the iterator of `SendToClients` | `from`, `next` |
| what leaves the sockets | `sent`, with the bytes behind the frame (`trailer`) |
| `parrotMap`, the frame type given to `CParrot`, that of what it plays | `parrots` |
| `CUsers::m_Users` | `users`, the source of each |

`CUser` objects, positions on the map and the text of messages are left out, and the packet that takes the place of
another in a parrot that was launched already (`Parrot` has that).  A packet whose two checksums are right is played with its
own TYPE, otherwise the parrot plays an SMS with a stripped one; a stream is always stripped (`PlayedTypes`).  While a frame is
sent around the thread does nothing else, so `Link`, `Unlink` and `EndParrot` happen between
frames only.  `FrameType.tla` has `SetFrameType`, `buildLegacy` and `buildV3` as functions on 16 bits, with
the masks and shifts of the code: the encryption field of version 3 is read with two bits of three,
and its signature at a bit beyond the sixteenth.

`Broadcast.tla` is what those who are linked are promised: frames are passed on one after the other, who is to
have a frame is settled when it comes in, and each of them is given it once, as it came.  It has no list,
no buffer and no order; whom a frame is for is a table of kinds (`Reached`, `Audience`).
`ImplementsBroadcast` is the refinement.

| `Broadcast` | computed from `Relay` |
|---|---|
| `members`, `busy` | the elements of `clients`; the domain of `parrots` |
| `frame` | what of `came` is passed on unaltered (`Passed`), with `from`, until the loop ends |
| `waiting` | who stands in the list at `next` or behind it and will not be passed over (`Concerned`, `ForOthers`) |
| `delivered` | `sent`, without the bytes that are made for each receiver: those are `RightForReceiver`'s |

A stream whose TYPE is of version 3 with an even channel access number looks like a packet to `GetClient`
and is not taken (`StreamBit`); no document promises that it is, so this is in the model and no finding.

### Lifecycle, with Config

`Lifecycle.tla` is main, `CReflector::Start` and `Stop`, and the threads they start.  `main` says what
main does next; every loop looks at its flag before each pass.  A pass is one operation of
`Operations(t)`: a sequence of steps that lock, unlock, send or receive, ask the DHT or wait for
it, in the order of the code.  A mutex under which nothing else is taken, sent or waited for
is one step (`Section`); what is done to the data is in the other modules.

| Program | Model |
|---|---|
| where `main`, `Start` and `Stop` are | `main`; `tries` |
| `g_CFG` after a reading | `data`, by `Config.tla` |
| `keep_running` of three classes | `keep` |
| the threads; `g_GateKeeper.m_Future` | `running`; `future` |
| the mutexes and who holds them | `holder` |
| the sockets that are open, the DHT node | `sockets`, `dht` |
| `GetDHTConfig`'s wait | `asking` |

`Config.tla` is `CConfigure::ReadData` by the form of each value (absent, bad, good), starting from
what an earlier reading left.  A Port that is bad is out of range; at one that is no number `std::stoul` throws
(`configure.cpp:267`), nobody catches it and the program ends, which is not in the model.  A second start runs `CGateKeeper::Init` a second time: its assignment to
the future waits for the thread of the first, which nobody stops (`AssignFuture`, run `retry`).

Three things the model has and no document denies: a signal outside `pause()` is handled and forgotten; the
SIGINT that a socket error raises is handled in the protocol thread, so main stays in `pause()`;
and the dashboard reads the peers without their mutex.

## Runs

| Run | Instance | Result |
|---|---|---|
| `safety` | 1 station, 2 peers at one address, 2 modules, 2 identifiers and zero, file with or without each peer; refinement of `Floor` | holds; 202,000 states |
| `life` | 1 station, 1 peer, 1 module, fairness | holds; 7,300 states |
| `changed` | 1 peer whose modules change in the file | `ChangedPeerDropped` fails |
| `parrot` | 2 clients, 2 frames, fairness | holds; 280,000 states |
| `interlink` | 2 reflectors, files that name each other or not, fairness | holds; 20,000 states |
| `meet` | 2 reflectors, each with 2 configurations (modes, with them one family or two for one), 2 files of one and a file of the other that is touched, fairness | holds; 49,000 states |
| `slip` | 2 reflectors, a word in the place of a port, fairness | `EditsLoaded` fails |
| `reload` | 1 callsign and a line for another, black list edited patiently, 3 seconds, fairness; refinement of `Access` | holds; 160,000 states |
| `relay` | a station, a listener, a reflector on 2 modules, a legacy one; 14 frames; refinement of `Broadcast` | holds; 372,000 states |
| `encrypted` | the same | `EncryptedStaysOut` fails |
| `lifecycle` | 5 threads, 5 mutexes, 3 files, 2 answers of the web page, 2 failed starts, fairness | holds; 27,000 states |
| `retry` | the same | `FailedStartTriedAgain` fails |

The runs that fail state what a comment or a document says; each counterexample is the program's
behaviour, described under "findings" in `PROJECT.json`.

Other surprising behaviour is in the models without a run of its own:

- A station that disconnects while it talks leaves its stream open until the timeout.  A frame with the
  identifier of a module's open stream is relayed, and keeps that stream open, whoever sends it: the test "to prevent
  loops" (`protocol.cpp:1201`) is not reached for the stream's own module.
- A peer that leaves by DISC or by timeout stays in the DHT document until some other change of the peers.
- A reflector that was started again with another address is not looked up again by those that have an
  address for it, until their file is edited; that is why `PeersMeet` excludes `moved`.  When a
  line gets an address during a lookup, the address of the document replaces it (`Update`).
- Not every meaning survives `buildLegacy` and `buildV3`, one of which a setter calls: AES of the
  legacy form is written as 3 and read as 2, META "aes" of version 3 is written as 15 and read as 4, and the signature of
  version 3 is never read.  The program sets none of these, it only takes them away; `RoundTrip` names the others.
- After a legacy reflector was served, clients later in the list receive the DST as it came, those before it
  `@ALL` (`protocol.cpp:621`, `Given`), which the comment at `protocol.cpp:822` means for all.
- A packet that fills the buffer of 860 bytes is accepted; for a reflector it gets one more byte, which is written
  behind `data[MAX_PACKET_SIZE]` (`protocol.cpp:660`), and 861 are sent.
- The protocol thread waits for a playback; a second playback thread of one parrot is possible.
- A frame that is added to a parrot after its thread has taken the size is never sent (`parrot.cpp:60`), although
  `src/README.md:25` has whatever was received sent back.
- A good packet that is signed or encrypted is parroted as it is (`parrot.cpp:102`): that no "inappropriate bits" are in its TYPE
  (`src/README.md:29`) is not looked at.  A stream of version 3 that is encrypted by AES is parroted, since it is taken for
  plain, with a TYPE that says so (`src/README.md:27` has it that parroting does not work for it).
- Two reflectors can have a module in common that is encrypted at one of them: both were started again with another
  configuration, and each has looked the other up while the DHT still had the document of the start before.  With
  `ModesAgree` for `early` reflectors too, TLC finds it in ten steps: r starts anew, asks before its put is
  through, and believes q's document; q starts anew and finds r's old document.
- Edits of a list within one second are lost.
- A port above 65535 in the interlink file is cut to 16 bits before its range is checked (`ReadPort`).

Bounds.  `safety`: two modules and two identifiers are enough for a stream to return on another module and
for a module to be taken; three talkers (a station and two peers with one client per module) for
one to be refused while another owns and a third sends the same identifier.  Timeouts are 0 to 2 ticks: the
program compares each with a constant only, and the order of any two of them is covered since ticks may come between
any phases.  Ages stop one above the largest value they are compared with.  A recording of two frames can be full,
half played and played.  `MaxParrots` is 1 in `relay`: parrots of different clients do not meet in `SendToClients`.
`MaxUsers` is 2 with three sources (the program has 40): a list can overflow, and
be reordered at either end.  `Shares` links the reflector on both modules and the others on one.  The 14 frames are streams and
packets of every size class, one that fills the buffer, each kind of DST, good and bad checksums, and types of both
versions with every kind of cipher.  `MaxTries` is 2 (the program has 10): a start fails, fails after a
failure, and fails for the last time.

Fairness.  `Protocol`: weak fairness of the thread (`Task`) and of time; no packet need ever
arrive.  `Parrot`: weak fairness of the protocol thread, of time, and of each playback thread,
which only sleeps 40 ms at a time.  `Interlink`: weak fairness of both periodic tasks and of time, and
strong fairness of the arrival of CONN and ACKN, which are repeated while a link is missing; PING
and DISC may all be lost.  `GateKeeper`: weak fairness of the gatekeeper's thread and strong fairness of
each `IsNodeListed`, since the thread leaves the mutexes free for 30 ms in every pass; nobody
need ever edit or ask.  `Directory`: weak fairness of the gatekeeper's thread and of
`Publish`; strong fairness of each step of a lookup, for every pass of the protocol thread asks again and
a document that stays in the DHT is found again and again.  Its liveness is for runs in which files and
configurations in the end stop changing (`Disturbed`).  `Lifecycle`: weak fairness of every thread, strong fairness of main and of taking a mutex, since
each thread sleeps 20 ms or more between two passes; the DHT library ends every `get`; no signal need come.
`Relay` has no liveness property: `SendToClients` is a loop over a finite list.

`SilentStationGone` has two premises: in the end nothing that the station sends has an effect (a step that may be
a refused frame of it is also one in which nothing comes), and it is not marked as transmitting.  The second is needed because of `GetStream`: while others send
frames with the identifier of its stream, the stream goes on.

## Proofs

| Module | Theorem | Shows |
|---|---|---|
| `Protocol_proofs` | `TypeCorrect` | `TypeOK` |
| | `StreamsCorrect` | `TxIffOwner`, `DistinctSids`, `ListenersSilent` |
| | `FloorControlled` | `ImplementsFloor` |
| | `StreamsEndWell` | `StreamsEndProperly` |
| | `LinksCorrect` | `PeersMatchClients`, `OneClientPerStation`, `PeerTalkerStays` |
| | `TalkersSpared` | `KeepaliveSparesTalkers` |
| `Parrot_proofs` | `TypeCorrect`, `NoUseAfterFree`, `RecordingPlayed` | `TypeOK`, `ThreadsHaveParrot`, `EchoComplete` |
| `Interlink_proofs` | `TypeCorrect`, `TalkersLinked`, `LinksAgreed` | `TypeOK`, `BusyIsLinked` (a transmitting peer is linked), `LinkAgreed` |
| `Directory_proofs` | `TypeCorrect`, `ModesAgreed`, `AddressesFitted` | `TypeOK`, `ModesAgree`, `AddressesFit` |
| `GateKeeper_proofs` | `TypeCorrect`, `BarredNeverIn` | `TypeOK`, `BarredStaysOut` |
| | `WholeListsJudge` | `ImplementsAccess` |
| `Relay_proofs` | `TypeCorrect`, `MadeForReceiver` | `TypeOK`, `RightForReceiver` |
| | `BroadcastKept` | `ImplementsBroadcast` |
| | `CleanPlayback` | `PlaybackClean` |
| | `LastHeardFirst` | `RecentFirst` |
| `FrameType_proofs` | `AesOutOfReach` | no TYPE of version 3 is read as AES or as signed |
| | `RoundTrip` | what is built of a readable meaning is read as this meaning |
| | `ParrotTypeClean` | the TYPE of a playback, for all 2^16 that it is made of |
| `Lifecycle_proofs` | `TypeCorrect`, `NoDeadlock` | `TypeOK`, `SomeHolderGoesOn` |
| | `SocketsKept`, `NothingLeftOpen` | `ThreadHasSockets`, `NothingLeft` |

They hold for all values of the constants, from the named
assumptions of the modules: stations and peers are different sockets, identifiers and
generations are numbers, the file names peers and modules of this reflector only, `NoClient` and
`None` are no client and no list, timeouts are numbers, a list file may be empty, a host has one
kind, frames have the form that `Frame` describes, a packet's buffer holds at least the 55 bytes of a stream's
frame with its trailer (`MAX_PACKET_SIZE` is 860), documents and lines those of `Document` and `Line`, configuration files that of `ConfigFile`.

- `Protocol`: `StreamInv` is inductive with `TypeOK`: besides `TxIffOwner` and `DistinctSids` it
  says that a closed stream has no owner and an open one an owner of its own module that is no
  listener (`OwnersFit`).  The lists need it: `LinkInv` (`PeersMatchClients`,
  `OneClientPerStation`, `PeerTalkerStays`) is inductive only together with `StreamInv`, for a peer is spared
  when one of its objects is marked, and only `TxIffOwner` makes this the owner of the stream; and the three
  need each other, for the owner of a peer's stream is among the peer's objects only
  because the two lists agree.
- `Parrot`: `ThreadsHaveParrot` is not inductive: `fut` remembers one thread, and a second one is
  known to have ended only because the assignment waited for it (`Joins`).  `EchoComplete` needs that a
  recording holds what is due until a thread starts (`Recorded`), and that from then on all of it has been sent or a
  thread plays with a size no smaller (`Echoing`), wherever a frame slips in and although a
  second thread sets the size anew; no thread is ahead of what was sent (`Positions`), and while the protocol thread
  is about to add a frame it waits for no playback (`Waits`).
- `Interlink`: a link is made of an ACKN, so the invariant speaks of packets on their way
  (`AcknAgreed`): while no file changes, an ACKN names what its sender's file has.
- `Directory`: `ModesAgree` speaks of configurations, items of documents that may be old.  `ItemsFit` says that an
  item was made from its document under this start's configuration; that is all for who knows the other as it is.  For
  the rest the invariant is that of two reflectors that hold a document of each other, in an item or in a get, at least
  one holds a true one unless one asked early (`OneIsTrue`): who holds any has put its own, or asked early
  (`AskersPublished`), so what the other finds after a put is true.
  `AddressesFitted` adds that the choice of a family is the same from both sides (`FamilySame`).
- `GateKeeper`: an emptied list would let everybody through, so the invariant needs that the lock is
  held exactly then (`LockHeld`), that all that can still get into a list is of some version
  (`VersionsOnly`), and what the white list has answered when the black one is asked (`AnswersFit`).  `WholeListsJudge` rests on `LockHeld`
  too: a list that is free to be asked is the one in force, so that the refinement needs no history.

- `Relay`: `RightForReceiver` is about frames that have left, but it needs what the buffer is like
  for the next client (`BufferFits`): its size is one that each branch sets or restores, and its
  checksum fits its DST again after a legacy reflector was served.  That the DST is what `Given` says is an
  invariant of its own (`DInv`), for which a legacy reflector that was served must stand before `next` in the list.  The other invariants (`TInv`) say that the list holds
  each client once (`Lists`), that the users are different (`UserList`), that parrots have types that were
  built of those they were given (`Playbacks`), and what stays of the frame in the buffer
  and of its sender while the loop runs (`InTransit`).
- `BroadcastKept`: who has been served would be an induction over the list; the refinement needs none.
  The step at `next` takes away from `Waiting` exactly the client at `next` if a branch sends to it and nobody if
  none does, because the list holds each client once and because for each client that is `Concerned` and not
  `ForOthers` one branch is enabled, and for the others only `Skip`.  That the set it starts with is `Audience`, which
  speaks of kinds and of no branch, is shown once, when the frame is accepted (`Relay`).  Linking and
  unlinking are steps of `Broadcast` by what they do to the elements of the list.
- `LastHeardFirst` is a lemma on `Hearing` for a list without duplicates and one on `Location`, each with the case that
  the user is known (`Move2Front`) and that it is new.
- `FrameType`: fields of a TYPE are quotients and remainders, which the provers handle one field at a time:
  each field of a sum of shifted fields is isolated by a lemma, and a reading is a case of at most sixteen values.  The proof is
  for all 65,536 types at once, not by enumeration.
- `Lifecycle`: a mutex that is held will be released before its holder wants it again (`HolderFits`),
  which is inductive because every operation has that form (`Nested`): shown once for each operation,
  from lemmas about joining, locking and unlocking, and for what is left of one (`NestedTail`).  Only the protocol
  thread ever holds a mutex over several steps, and none while it waits for the DHT
  (`AskingFits`), so the holder can go on.  For `NothingLeft` the invariant follows the gatekeeper's
  future (`GateKeepersFit`), which is not that of the running thread between `Init`'s start of a thread
  and its assignment.

The type invariants of `Protocol`, `Interlink`, `GateKeeper` and `Lifecycle` and `BusyIsLinked` are proved and need no run.

Only model-checked: all liveness properties (`life`, `parrot`, `interlink`, `meet`, `reload`,
`lifecycle`), which temporal logic over `ENABLED` keeps from the provers at hand, and all counterexamples.  Every safety and
action property of a passing run is proved.

## Not modelled

The text of messages and of the JSON report, the PHP dashboard, the patterns of callsigns and addresses
in the configuration, the coding of callsigns in base 40, the polynomial of the checksum, the position format,
system calls, random stream identifiers: no state of their own, or pure input and output.  The DHT
library is external; of it `Protocol` keeps which peers the published document names, `Directory` what a
lookup brings, and `Lifecycle` the wait for an answer.

Two parts are left out because the code's behaviour there is undefined or undocumented, so that any property
would be one of the model alone:

- The items of the interlink map: the protocol thread keeps a raw pointer that `Find` returned while the
  gatekeeper's thread may free the item, and the dashboard iterates over the peers without their mutex.
  Both are listed as hazards; what a freed item reads could be anything.
- The lines of the list files: a last line without a newline and lines over 255 characters end the
  reading.  `GateKeeper` takes the lines that the loop reaches.

Nor are these: what follows in the program when the gatekeeper's thread was ended by an exception (`slip` has the
edits; `Lifecycle`'s threads end only when they are told to); playbacks that go on when the program ends; the socket
buffers, in which a packet of 861 bytes is cut.

Left for later: callsigns as functions on their 48 bits; an abstract specification of the parrot.

## Running

    tlc -workers 2 -config MCProtocol_safety.cfg MCProtocol
    tlapm Protocol_proofs.tla
