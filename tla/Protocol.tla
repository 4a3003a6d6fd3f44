------------------------------ MODULE Protocol ------------------------------
(***************************************************************************)
(* The protocol thread of the reflector: CProtocol::Task and what it       *)
(* changes -- the clients linked to the reflector (CClients), the peers    *)
(* (CPeers), the one packet stream of each module (CPacketStream) and the  *)
(* transmit mark of each client.                                           *)
(*                                                                         *)
(* Task is an endless loop on one thread: take one packet (or none, after  *)
(* 20 ms), then close expired streams, then handle keepalives if they are  *)
(* due, then the peer links if they are due.  Time and the interlink file  *)
(* change between any two of these phases.                                 *)
(*                                                                         *)
(* A client is a C++ object behind a shared_ptr.  A client that was        *)
(* removed from the list lives on while a stream names it as its owner,    *)
(* and a station that links again gets a new object with equal contents,   *)
(* so an object carries a generation beside what the program keeps in it.  *)
(***************************************************************************)
EXTENDS Naturals

CONSTANTS
  Stations,         \* sockets (ip and port) of repeaters, hot-spots, listeners
  Peers,            \* other reflectors, as numbers in alphabetical order
  Modules,          \* the modules this reflector is configured with
  Sids,             \* stream identifiers a packet may carry; 0 is not valid
  Gens,             \* generations of client objects with equal contents
  HostOf,           \* the ip address of a peer, without its port
  InterlinkFiles,   \* what mrefd.interlink may hold: peer -> its modules
  StreamTimeout, KeepalivePeriod, KeepaliveTimeout, ReconnectPeriod,
  NoClient          \* the null SPClient

Local == {"simple", "listenonly"}
StationClient == [addr : Stations, type : Local, mod : Modules, gen : Gens]
PeerClient == [addr : Peers, type : {"reflector"}, mod : Modules, gen : Gens]
Client == StationClient \cup PeerClient

\* A socket is either a station's or a reflector's.
ASSUME SocketsAssumption == Stations \cap Peers = {}
ASSUME PeersAssumption == Peers \subseteq Nat
ASSUME SidsAssumption == Sids \subseteq Nat /\ Gens \subseteq Nat
ASSUME TimeAssumption ==
  /\ StreamTimeout \in Nat /\ KeepalivePeriod \in Nat
  /\ KeepaliveTimeout \in Nat /\ ReconnectPeriod \in Nat
ASSUME FilesAssumption == InterlinkFiles \subseteq [Peers -> SUBSET Modules]
ASSUME NoClientAssumption == NoClient \notin Client

VARIABLES
  pc,          \* the phase of Task that comes next
  clients,     \* CClients::m_Clients
  quiet,       \* a linked client's time since its last keepalive
  tx,          \* the client objects with m_isTXing set
  peers,       \* CPeers::m_Peers: a peer's client objects, {} if not linked
  open, sid, owner, age,   \* the packet stream of each module
  interlinks,  \* g_Interlinks: a peer's modules, {} if not in the file
  sinceKeepalive, sinceLinks,     \* m_LastKeepaliveTime, m_LastPeersLinkTime
  publish,     \* the peer list on the DHT is to be renewed
  published,   \* the peers named in the DHT document
  relayed      \* the client whose frame this pass of Task sent to the others

streamVars == <<open, sid, owner, age>>
linkVars == <<clients, quiet, peers, publish>>
fileVars == <<interlinks, published>>
timerVars == <<sinceKeepalive, sinceLinks>>
vars == <<pc, clients, quiet, tx, peers, open, sid, owner, age, interlinks,
          sinceKeepalive, sinceLinks, publish, published, relayed>>

----------------------------------------------------------------------------
(* Helpers.                                                                *)

Linked(p) == peers[p] # {}
PeerIsTransmitting(p) == peers[p] \cap tx # {}

\* CClients::FindClient: the client(s) at a socket.  A peer has one client per
\* module at the same socket; the program takes the first of the list.
FindClient(a) == {c \in clients : c.addr = a}

\* CPeers::FindPeer(ip): the first peer in alphabetical order at the same ip
\* address.  CIp's == does not look at the port.
FindPeer(p) ==
  {q \in Peers : /\ Linked(q) /\ HostOf[q] = HostOf[p]
                 /\ \A r \in Peers : Linked(r) /\ HostOf[r] = HostOf[p] => q <= r}

\* Mutant of SameClient: CClient's == without its comparison of ports.
HostOrStation(a) == IF a \in Peers THEN HostOf[a] ELSE a
SameClientAnyPort(c, d) == HostOrStation(c.addr) = HostOrStation(d.addr) /\ c.mod = d.mod

\* CClients::AddClient: an equal client that is already there is kept instead.  The
\* code compares callsigns too; here a socket has one callsign, so that more
\* clients are equal than in the code.
SameClient(c, d) == c.addr = d.addr /\ c.mod = d.mod

AddClients(new) ==
  LET added == {c \in new : \A d \in clients : ~SameClient(c, d)}
  IN  /\ clients' = clients \cup added
      /\ quiet' = [c \in clients' |-> IF c \in clients THEN quiet[c] ELSE 0]

\* An object no shared_ptr refers to, so that a client can be constructed as
\* it.  Generations only tell objects apart: the first free one is taken.
Fresh(c) == c \notin clients /\ c \notin tx
              /\ \A m \in Modules : owner[m] # c
              /\ \A p \in Peers : c \notin peers[p]

FirstFresh(new) == \A c \in new : /\ Fresh(c)
                                  /\ \A g \in Gens : g < c.gen => ~Fresh([c EXCEPT !.gen = g])

RemoveClients(gone) ==
  /\ clients' = clients \ gone
  /\ quiet' = [c \in clients' |-> quiet[c]]

Alive(C) == quiet' = [c \in clients |-> IF c \in C THEN 0 ELSE quiet[c]]

\* Mutant of RemovePeers: who transmits goes too.
RemovePeersAlways(P) ==
  /\ RemoveClients(UNION {peers[p] : p \in P})
  /\ peers' = [p \in Peers |-> IF p \in P THEN {} ELSE peers[p]]

\* CPeers::RemovePeer: a peer that is transmitting stays, and nobody is told.
RemovePeers(P) ==
  LET gone == {p \in P : ~PeerIsTransmitting(p)}
  IN  /\ RemoveClients(UNION {peers[p] : p \in gone})
      /\ peers' = [p \in Peers |-> IF p \in gone THEN {} ELSE peers[p]]

\* Mutant of CloseStreams: the owner is forgotten before its mark is cleared.
CloseStreamsKeepMark(M) ==
  /\ open' = [m \in Modules |-> open[m] /\ m \notin M]
  /\ sid' = [m \in Modules |-> IF m \in M THEN 0 ELSE sid[m]]
  /\ owner' = [m \in Modules |-> IF m \in M THEN NoClient ELSE owner[m]]
  /\ age' = [m \in Modules |-> IF m \in M THEN 0 ELSE age[m]]
  /\ UNCHANGED tx

\* CProtocol::CloseStream for every module of M.
CloseStreams(M) ==
  /\ tx' = tx \ {owner[m] : m \in M}
  /\ open' = [m \in Modules |-> open[m] /\ m \notin M]
  /\ sid' = [m \in Modules |-> IF m \in M THEN 0 ELSE sid[m]]
  /\ owner' = [m \in Modules |-> IF m \in M THEN NoClient ELSE owner[m]]
  /\ age' = [m \in Modules |-> IF m \in M THEN 0 ELSE age[m]]

----------------------------------------------------------------------------
Init ==
  /\ pc = "receive"
  /\ clients = {} /\ quiet = <<>> /\ tx = {}
  /\ peers = [p \in Peers |-> {}]
  /\ open = [m \in Modules |-> FALSE]
  /\ sid = [m \in Modules |-> 0]
  /\ owner = [m \in Modules |-> NoClient]
  /\ age = [m \in Modules |-> 0]
  /\ interlinks \in InterlinkFiles
  /\ sinceKeepalive = 0 /\ sinceLinks = 0
  /\ publish = TRUE /\ published = {}
  /\ relayed = NoClient

----------------------------------------------------------------------------
(* The packets, one action per kind.  Each one ends the phase "receive".   *)

Received == pc = "receive" /\ pc' = "sweep"
            /\ UNCHANGED <<interlinks, published, sinceKeepalive, sinceLinks>>

\* The 20 ms went by, or the packet is one the program drops or only answers:
\* bad framing, a callsign that fails its regex, a NACK, a CONN it refuses, a
\* peer's CONN, a stream frame that is encrypted or from a barred source, a
\* frame for #PARROT (a client of module Parrot), a packet-mode packet.
NothingToDo ==
  /\ Received
  /\ relayed' = NoClient
  /\ UNCHANGED <<linkVars, streamVars, tx>>

\* PING or PONG from a linked station, or from a peer's socket.
KeepaliveFromStation(a) ==
  /\ Received
  /\ FindClient(a) # {}
  /\ Alive(FindClient(a))
  /\ relayed' = NoClient
  /\ UNCHANGED <<clients, peers, publish, streamVars, tx>>

KeepaliveFromPeer(p) ==
  /\ Received
  /\ FindClient(p) # {}
  /\ Alive(UNION {peers[q] : q \in FindPeer(p)})
  /\ relayed' = NoClient
  /\ UNCHANGED <<clients, peers, publish, streamVars, tx>>

\* DISC: a station is removed whatever it is doing; a peer only when it is
\* not transmitting.
DisconnectStation(a) ==
  /\ Received
  /\ FindClient(a) # {}
  /\ RemoveClients(FindClient(a))
  /\ relayed' = NoClient
  /\ UNCHANGED <<peers, publish, streamVars, tx>>

DisconnectPeer(p) ==
  /\ Received
  /\ FindClient(p) # {}
  /\ RemovePeers(FindPeer(p))
  /\ relayed' = NoClient
  /\ UNCHANGED <<publish, streamVars, tx>>

\* Mutant of ConnectStation: nobody checks whether the socket is linked.
ConnectStationAgain(a, type, m) ==
  /\ Received
  /\ \E g \in Gens : LET new == [addr : {a}, type : {type}, mod : {m}, gen : {g}]
                     IN  FirstFresh(new) /\ AddClients(new)
  /\ relayed' = NoClient
  /\ UNCHANGED <<peers, publish, streamVars, tx>>

\* CONN or LSTN that the gatekeeper accepts: the socket is not linked yet and
\* the callsign is not barred (CGateKeeper::ClientMayLink), the module exists.
ConnectStation(a, type, m) ==
  /\ Received
  /\ FindClient(a) = {}
  /\ \E g \in Gens : LET new == [addr : {a}, type : {type}, mod : {m}, gen : {g}]
                     IN  FirstFresh(new) /\ AddClients(new)
  /\ relayed' = NoClient
  /\ UNCHANGED <<peers, publish, streamVars, tx>>

\* Mutant of AcknPeer: the peer list on the DHT is not marked as changed.
AcknPeerQuietly(p) ==
  /\ Received
  /\ interlinks[p] # {} /\ ~Linked(p)
  /\ \E g \in Gens :
       LET new == [addr : {p}, type : {"reflector"}, mod : interlinks[p], gen : {g}]
       IN  /\ FirstFresh(new)
           /\ peers' = [peers EXCEPT ![p] = new]
           /\ AddClients(new)
  /\ relayed' = NoClient
  /\ UNCHANGED <<publish, streamVars, tx>>

\* ACKN from a reflector of the interlink file that is not linked yet: it
\* becomes a peer, with one client object per shared module.
AcknPeer(p) ==
  /\ Received
  /\ interlinks[p] # {} /\ ~Linked(p)
  /\ \E g \in Gens :
       LET new == [addr : {p}, type : {"reflector"}, mod : interlinks[p], gen : {g}]
       IN  /\ FirstFresh(new)
           /\ peers' = [peers EXCEPT ![p] = new]
           /\ AddClients(new)
  /\ publish' = TRUE
  /\ relayed' = NoClient
  /\ UNCHANGED <<streamVars, tx>>

----------------------------------------------------------------------------
(* A stream frame.                                                         *)

\* CProtocol::GetClient: the client a frame is taken to be from.  A listen-only
\* station is nobody.  The module m that a peer's frame names counts only when
\* the peer has several modules.
StationTalker(a) == {c \in FindClient(a) : c.type # "listenonly"}
PeerTalker(p, m) ==
  LET several == {q \in FindPeer(p) : \E c, d \in peers[q] : c # d}
  IN  {c \in FindClient(p) : FindPeer(p) # {} /\ several = {}}
        \cup {c \in UNION {peers[q] : q \in several} : c.mod = m /\ FindClient(p) # {}}

\* CProtocol::GetStream: the module's open stream, if the identifiers agree.
GetStream(c, s) == open[c.mod] /\ sid[c.mod] = s

\* Mutants of MayOpenStream: no check for loops; no check for a busy module.
MayOpenStreamLooped(c, s) == s # 0 /\ c \notin tx /\ ~open[c.mod]
MayInterrupt(c, s) ==
  s # 0 /\ c \notin tx /\ \A m \in Modules : ~(open[m] /\ sid[m] = s)

\* CProtocol::OpenStream and CPacketStream::OpenPacketStream.
MayOpenStream(c, s) ==
  /\ s # 0
  /\ c \notin tx
  /\ \A m \in Modules : ~(open[m] /\ sid[m] = s)
  /\ ~open[c.mod]

OpenStream(c, s) ==
  /\ tx' = tx \cup {c}
  /\ open' = [open EXCEPT ![c.mod] = TRUE]
  /\ sid' = [sid EXCEPT ![c.mod] = s]
  /\ owner' = [owner EXCEPT ![c.mod] = c]
  /\ age' = [age EXCEPT ![c.mod] = 0]

Tickle(c) == age' = [age EXCEPT ![c.mod] = 0] /\ UNCHANGED <<tx, open, sid, owner>>

\* A frame of the stream that is open on the client's module.
FrameOfStream(c, s, last) ==
  /\ GetStream(c, s)
  /\ IF last THEN CloseStreams({c.mod}) ELSE Tickle(c)
  /\ relayed' = c

\* A frame that opens the module's stream.  If it is the last one too, the
\* stream is closed again once the frame has been sent.
FrameOpensStream(c, s, last) ==
  /\ ~GetStream(c, s) /\ MayOpenStream(c, s)
  /\ IF last THEN UNCHANGED <<streamVars, tx>> ELSE OpenStream(c, s)
  /\ relayed' = c

\* The module is taken, or the client or the stream is busy elsewhere.
FrameRefused(c, s) ==
  /\ ~GetStream(c, s) /\ ~MayOpenStream(c, s)
  /\ relayed' = NoClient
  /\ UNCHANGED <<streamVars, tx>>

StreamFrame(talker, s, last) ==
  /\ Received
  /\ \E c \in talker : \/ FrameOfStream(c, s, last)
                       \/ FrameOpensStream(c, s, last)
                       \/ FrameRefused(c, s)
  /\ UNCHANGED linkVars

----------------------------------------------------------------------------
(* The rest of a pass of Task.                                             *)

\* Mutants of IsExpired: one tick early; only for talkers that are still linked.
ExpiresEarly(m) == age[m] >= StreamTimeout
ExpiresIfLinked(m) == age[m] > StreamTimeout /\ owner[m] \in clients

IsExpired(m) == age[m] > StreamTimeout

\* The stream part of CheckStreamsTimeout (the parrots are in module Parrot).
CheckStreamsTimeout ==
  /\ pc = "sweep" /\ pc' = "keepalive"
  /\ CloseStreams({m \in Modules : IsExpired(m)})
  /\ relayed' = NoClient
  /\ UNCHANGED <<linkVars, fileVars, timerVars>>

IsAlive(c) == quiet[c] < KeepaliveTimeout

\* Mutants of SilentStations: who transmits goes too; listeners are forgotten.
SilentStationsBusyToo == {c \in clients : c.type \in Local /\ ~IsAlive(c)}
SilentSimpleStations == {c \in clients : c.type = "simple" /\ c \notin tx /\ ~IsAlive(c)}

\* Mutant of SilentPeers: only peers with several modules.
SilentLargePeers == {p \in Peers : /\ ~PeerIsTransmitting(p)
                                   /\ \E c, d \in peers[p] : c # d /\ ~IsAlive(c)}

\* Stations first, then peers.  Who transmits is tickled, who has been silent
\* too long is removed.
SilentStations == {c \in clients : c.type \in Local /\ c \notin tx /\ ~IsAlive(c)}
SilentPeers == {p \in Peers : /\ Linked(p) /\ ~PeerIsTransmitting(p)
                              /\ \E c \in peers[p] : ~IsAlive(c)}
HandleKeepalives ==
  /\ pc = "keepalive" /\ pc' = "links"
  /\ sinceKeepalive > KeepalivePeriod
  /\ LET busy == {c \in clients : c.type \in Local /\ c \in tx}
                   \cup UNION {peers[p] : p \in {q \in Peers : PeerIsTransmitting(q)}}
         gone == SilentStations \cup UNION {peers[p] : p \in SilentPeers}
     IN  /\ clients' = clients \ gone
         /\ quiet' = [c \in clients' |-> IF c \in busy THEN 0 ELSE quiet[c]]
  /\ peers' = [p \in Peers |-> IF p \in SilentPeers THEN {} ELSE peers[p]]
  /\ sinceKeepalive' = 0
  /\ UNCHANGED <<streamVars, fileVars, tx, publish, sinceLinks, relayed>>

KeepalivesNotDue ==
  /\ pc = "keepalive" /\ pc' = "links"
  /\ sinceKeepalive <= KeepalivePeriod
  /\ UNCHANGED <<linkVars, streamVars, fileVars, timerVars, tx, relayed>>

\* Mutant of Unlisted: the file is compared only after a change to the peers.
UnlistedIfChanged == {p \in Peers : publish /\ Linked(p) /\ interlinks[p] = {}}

\* A peer that is no longer in the interlink file is dropped, then the peer
\* list is put on the DHT if it is marked as changed.  (The CONN it sends to
\* every reflector of the file that is not linked is in module Interlink.)
Unlisted == {p \in Peers : Linked(p) /\ interlinks[p] = {}}
HandlePeerLinks ==
  /\ pc = "links" /\ pc' = "receive"
  /\ sinceLinks > ReconnectPeriod
  /\ RemovePeers(Unlisted)
  /\ publish' = FALSE
  /\ published' = IF publish \/ Unlisted # {}
                  THEN {p \in Peers : peers'[p] # {}} ELSE published
  /\ sinceLinks' = 0
  /\ UNCHANGED <<streamVars, tx, interlinks, sinceKeepalive, relayed>>

LinksNotDue ==
  /\ pc = "links" /\ pc' = "receive"
  /\ sinceLinks <= ReconnectPeriod
  /\ UNCHANGED <<linkVars, streamVars, fileVars, timerVars, tx, relayed>>

----------------------------------------------------------------------------
(* The environment: time, and the thread that reloads the interlink file.  *)

\* Ages stop one above the largest value they are compared with.
Older(n, bound) == IF n < bound THEN n + 1 ELSE n
Tick ==
  /\ quiet' = [c \in clients |-> Older(quiet[c], KeepaliveTimeout)]
  /\ age' = [m \in Modules |-> IF open[m] THEN Older(age[m], StreamTimeout + 1) ELSE 0]
  /\ sinceKeepalive' = Older(sinceKeepalive, KeepalivePeriod + 1)
  /\ sinceLinks' = Older(sinceLinks, ReconnectPeriod + 1)
  /\ UNCHANGED <<pc, clients, tx, peers, open, sid, owner, fileVars, publish, relayed>>

ReloadInterlinks ==
  /\ interlinks' \in InterlinkFiles
  /\ UNCHANGED <<pc, linkVars, streamVars, timerVars, tx, published, relayed>>

PacketFromStation(a) ==
  \/ KeepaliveFromStation(a)
  \/ DisconnectStation(a)
  \/ \E type \in Local, m \in Modules : ConnectStation(a, type, m)
  \/ \E s \in Sids, last \in BOOLEAN : StreamFrame(StationTalker(a), s, last)

PacketFromPeer(p) ==
  \/ KeepaliveFromPeer(p)
  \/ DisconnectPeer(p)
  \/ AcknPeer(p)
  \/ \E m \in Modules, s \in Sids, last \in BOOLEAN : StreamFrame(PeerTalker(p, m), s, last)

Task ==
  \/ \E a \in Stations : PacketFromStation(a)
  \/ \E p \in Peers : PacketFromPeer(p)
  \/ NothingToDo
  \/ CheckStreamsTimeout
  \/ HandleKeepalives \/ KeepalivesNotDue
  \/ HandlePeerLinks \/ LinksNotDue

Next == Task \/ Tick \/ ReloadInterlinks

Spec == Init /\ [][Next]_vars

----------------------------------------------------------------------------
(* Properties.                                                             *)

TypeOK ==
  /\ pc \in {"receive", "sweep", "keepalive", "links"}
  /\ clients \subseteq Client
  /\ quiet \in [clients -> 0..KeepaliveTimeout]
  /\ tx \subseteq Client
  /\ peers \in [Peers -> SUBSET PeerClient]
  /\ open \in [Modules -> BOOLEAN]
  /\ sid \in [Modules -> Nat]
  /\ owner \in [Modules -> Client \cup {NoClient}]
  /\ age \in [Modules -> 0..StreamTimeout + 1]
  /\ interlinks \in InterlinkFiles
  /\ sinceKeepalive \in 0..KeepalivePeriod + 1
  /\ sinceLinks \in 0..ReconnectPeriod + 1
  /\ publish \in BOOLEAN /\ published \subseteq Peers
  /\ relayed \in Client \cup {NoClient}

\* The transmit mark and the streams agree: a client is marked exactly while an
\* open stream of its own module names it as owner.  A mark left behind would
\* bar the client from talking and from ever timing out; a stream whose owner
\* lost the mark could have its peer removed under it.
TxIffOwner ==
  \A c \in Client : c \in tx <=> \E m \in Modules : open[m] /\ owner[m] = c

\* No two open streams carry the same identifier, and none carries zero: the
\* loop check of OpenStream holds whatever the order of frames and timeouts.
DistinctSids ==
  \A m, n \in Modules : /\ open[m] => sid[m] # 0
                        /\ open[m] /\ open[n] /\ sid[m] = sid[n] => m = n

\* The two lists agree: the reflector clients of CClients are the client
\* objects of the linked peers, one for each shared module, so that a packet
\* from a peer's socket finds both or neither.
PeersMatchClients ==
  /\ \A p \in Peers : \A c, d \in peers[p] :
       /\ c \in clients /\ c.addr = p
       /\ c.mod = d.mod => c = d
  /\ \A c \in clients : c.type = "reflector" => c \in peers[c.addr]

\* A station is linked once, on one module, as a talker or as a listener.
OneClientPerStation ==
  \A c, d \in clients : c.addr = d.addr /\ c.type \in Local => c = d

\* A reflector that is talking stays linked until its stream ends, whatever
\* DISC, keepalive timeout or edit of the interlink file comes in between.
PeerTalkerStays ==
  \A m \in Modules : open[m] /\ owner[m].type = "reflector" => owner[m] \in clients

\* Only talkers own streams: a listen-only client never has the transmit mark.
ListenersSilent == \A c \in tx : c.type # "listenonly"

\* The keepalive pass removes no client that owns an open stream, however long
\* its last PONG is ago: frames do not count as keepalives, so a long talk
\* outlasts the timeout.
KeepaliveSparesTalkers ==
  [][HandleKeepalives => \A m \in Modules : open[m] /\ owner[m] \in clients
                                              => owner[m] \in clients']_vars

\* A stream ends in two ways only: 1.6 s without a frame, or the last frame of
\* that module, which the program still sends to the other clients.
StreamsEndProperly ==
  [][\A m \in Modules : open[m] /\ ~open'[m] =>
       \/ age[m] > StreamTimeout
       \/ relayed' # NoClient /\ relayed'.mod = m]_vars

\* The reflector implements the abstract floor control of module Floor.
Holder == [m \in Modules |->
             IF open[m] THEN {[client |-> owner[m], sid |-> sid[m]]} ELSE {}]
FloorControl == INSTANCE Floor WITH holder <- Holder
ImplementsFloor == FloorControl!Spec

----------------------------------------------------------------------------
(* Liveness.  The protocol thread never stops while the reflector runs, and *)
(* time goes on.                                                           *)

FairSpec == Spec /\ WF_vars(Task) /\ WF_vars(Tick)

\* A station that falls silent, or whose packets all come to nothing, is unlinked
\* in the end, even if it was talking; the same of a peer: its clients go and so
\* does its entry in CPeers.  The second premise is needed: while others send
\* frames with the identifier of its stream (GetStream), its stream and its link
\* stay.
SilentStationGone ==
  \A a \in Stations :
    /\ <>[][PacketFromStation(a) => NothingToDo]_vars
    /\ <>[](\A c \in tx : c.addr # a)
    => <>[](FindClient(a) = {})

SilentPeerGone ==
  \A p \in Peers :
    /\ <>[][PacketFromPeer(p) => NothingToDo]_vars
    /\ <>[]~PeerIsTransmitting(p)
    => <>[]~Linked(p)

\* No stream stays open without frames: it is closed or gets another frame.
StreamsEnd == \A m \in Modules : []<>(~open[m] \/ age[m] = 0)

\* A peer taken out of the interlink file for good is dropped, provided it is
\* not found transmitting for ever.
UnlistedPeerGone ==
  \A p \in Peers : <>[](interlinks[p] = {} /\ ~PeerIsTransmitting(p)) => <>[]~Linked(p)

\* A peer that stays linked is named in the reflector's DHT document.
LinkedPeerPublished == \A p \in Peers : <>[]Linked(p) => <>[](p \in published)

----------------------------------------------------------------------------
(* What a document says that the program does not do.                      *)

\* "A reflector will send this [DISC] [...] if the connection parameters have been
\* changed" (Packet-Description 3.3): a peer whose modules the interlink file names
\* differently now is dropped at the next look at the file.
ChangedPeerDropped ==
  [][HandlePeerLinks => \A p \in Peers :
       Linked(p) /\ ~PeerIsTransmitting(p) /\ interlinks[p] # {c.mod : c \in peers[p]}
         => peers'[p] = {}]_vars
=============================================================================
