-------------------------------- MODULE Relay --------------------------------
(***************************************************************************)
(* What becomes of one frame: GetClient finds its sender and trims it,     *)
(* OnPacketIn writes its DST or hands it to a parrot, UpdateDashData notes *)
(* who was heard, and SendToClients goes through the client list and       *)
(* writes into the same buffer again and again, for each kind of client in *)
(* its own way.  Protocol says which client's frame comes that far; this   *)
(* module says what the others receive.                                    *)
(***************************************************************************)
EXTENDS FrameType, Sequences, SequencesExt, FiniteSets

CONSTANTS
  Hosts,      \* stations and other reflectors, one at each address
  KindOf,     \* what a host is linked as (EClientType)
  Modules,    \* module letters, as characters
  Shares,     \* the sets of modules that a host may be linked on; one for a station
  Encrypted,  \* the modules that are configured for encrypted streams
  Frames,     \* what may arrive
  Sources,    \* callsigns
  MaxUsers,   \* LASTHEARD_USERS_MAX_SIZE
  MaxSize,    \* MAX_PACKET_SIZE
  MaxParrots  \* bound: parrots at a time

Kinds == {"simple", "listenonly", "reflector", "legacy"}
Nobody == "nobody"

\* dst is "reflector" when the DST begins with M17-, "parrot" when it holds PARROT.
\* crc: the DST that the checksum was calculated with, or "bad".  heard: the
\* source, if the frame number is one that is reported.  mod: the module in the
\* last byte, or in the DST for a legacy reflector.
Addresses == {"all", "reflector", "parrot", "other"} \cup Hosts
Frame == [stream : BOOLEAN, size : 0..MaxSize, dst : Addresses, crc : Addresses \cup {"bad"},
          type : 0..2^16 - 1, last : BOOLEAN, mod : Modules, heard : Sources \cup {Nobody}]

ASSUME KindAssumption == KindOf \in [Hosts -> Kinds]
ASSUME ModulesAssumption == Modules \subseteq 65..90
ASSUME SharesAssumption == Shares \in [Hosts -> SUBSET SUBSET Modules]
ASSUME FramesAssumption == Frames \subseteq Frame
ASSUME SourcesAssumption == Nobody \notin Sources
ASSUME MaxUsersAssumption == MaxUsers \in Nat \ {0}
ASSUME MaxSizeAssumption == MaxSize \in Nat /\ MaxSize >= 55

\* A CClient; a reflector has one for each module that it shares.
Client == [host : Hosts, mod : Modules]
Kind(c) == KindOf[c.host]
Local(c) == Kind(c) \in {"simple", "listenonly"}

VARIABLES
  clients,   \* m_Clients, in its order
  parrots,   \* parrotMap: whether each is of a stream, the TYPE of what it was
             \* given, and the TYPE that its playback will have
  users,     \* m_Users: the sources, the last heard first
  packet,    \* the buffer, while it is sent around
  came,      \* the frame as OnPacketIn got it; came.dst is also dst in Task
  from,      \* txclient
  next,      \* how far SendToClients has come in the list; 0: it does not run
  sent       \* what has been sent of this frame

vars == <<clients, parrots, users, packet, came, from, next, sent>>
frameVars == <<packet, came, from, next, sent>>

Listed == ToSet(clients)
ClientsAt(h) == {c \in Listed : c.host = h}
Precedes(c, d) == \E i, j \in DOMAIN clients : i < j /\ clients[i] = c /\ clients[j] = d
Nothing == <<>>

----------------------------------------------------------------------------
(* CUsers.                                                                 *)

\* Mutant of Hearing: a known user stays where it is.
HearingInPlace(list, src) ==
  IF Contains(list, src) THEN list
  ELSE SubSeq(<<src>> \o list, 1, IF Len(list) < MaxUsers THEN Len(list) + 1 ELSE MaxUsers)

\* move2Front, of the user that findUser has found.
Move2Front(list, src) == <<src>> \o RemoveAt(list, CHOOSE i \in DOMAIN list : list[i] = src)

\* Hearing: a new user goes to the front and the list is cut to its size; a known
\* one is moved to the front.
Hearing(list, src) ==
  IF Contains(list, src) THEN Move2Front(list, src)
  ELSE SubSeq(<<src>> \o list, 1, IF Len(list) < MaxUsers THEN Len(list) + 1 ELSE MaxUsers)

\* Location, for a frame with a position: a known user moves to the front.
Location(list, src) == IF Contains(list, src) THEN Move2Front(list, src) ELSE list

UpdateDashData(list, f) ==
  LET heard == Hearing(list, f.heard)
  IN  IF f.heard = Nobody THEN list
      ELSE IF Meaning(f.type).meta = "gnss" THEN Location(heard, f.heard) ELSE heard

----------------------------------------------------------------------------
(* Links.                                                                  *)

Init ==
  /\ clients = <<>> /\ parrots = <<>> /\ users = <<>>
  /\ packet = Nothing /\ came = Nothing /\ from = Nothing /\ next = 0 /\ sent = {}

Idle == next = 0

\* Mutant of Link: nobody looks whether the host is linked.
LinkAgain(h) ==
  /\ Idle
  /\ \E mods \in Shares[h] : \E added \in SetToSeqs({[host |-> h, mod |-> m] : m \in mods}) :
       clients' = clients \o added
  /\ UNCHANGED <<parrots, users, frameVars>>

\* AddClient, or AddPeer with one client for each module in alphabetical order: at
\* the end of the list.
Link(h) ==
  /\ Idle /\ ClientsAt(h) = {}
  /\ \E mods \in Shares[h] : \E added \in SetToSeqs({[host |-> h, mod |-> m] : m \in mods}) :
       /\ \A i, j \in DOMAIN added : i < j => added[i].mod < added[j].mod
       /\ clients' = clients \o added
  /\ UNCHANGED <<parrots, users, frameVars>>

\* RemoveClient, or RemovePeer: the others stay in their order.  Who links again gets
\* a new object, which no parrot knows.
Unlink(h) ==
  /\ Idle /\ ClientsAt(h) # {}
  /\ \E rest \in SetToSeqs(Listed \ ClientsAt(h)) :
       /\ \A i, j \in DOMAIN rest : i < j => Precedes(rest[i], rest[j])
       /\ clients' = rest
  /\ parrots' = Restrict(parrots, {c \in DOMAIN parrots : c.host # h})
  /\ UNCHANGED <<users, frameVars>>

----------------------------------------------------------------------------
(* GetClient.                                                              *)

\* A reflector's packet loses its last byte.
Trimmed(h, f) == IF KindOf[h] = "simple" THEN f ELSE [f EXCEPT !.size = f.size - 1]

\* The bit that tells a stream from a packet is the lowest one of the TYPE.
StreamBit(f) == Bits(f.type, 0, 1) = 1
Viable(f) == IF f.stream THEN StreamBit(f) /\ f.size \in {54, 55}
                         ELSE ~StreamBit(f) /\ f.size \in 38..MaxSize

\* With more than one module shared, that of the packet counts, else the only one.
Sender(h, f) == IF Cardinality(ClientsAt(h)) > 1 THEN {c \in ClientsAt(h) : c.mod = f.mod}
                                                 ELSE ClientsAt(h)

IsEncrypted(f) == f.stream /\ Meaning(f.type).encrypt # "none"

\* GetClient yields c for f, and MayTransmit allows the source.
Accepted(h, f, c) ==
  /\ Idle /\ Viable(f)
  /\ KindOf[h] # "listenonly"
  /\ c \in Sender(h, f)
  /\ IsEncrypted(f) => c.mod \in Encrypted

----------------------------------------------------------------------------
(* OnPacketIn.                                                             *)

\* A DST that looks like a reflector becomes @ALL.
Readdressed(f) == IF f.dst = "reflector" THEN [f EXCEPT !.dst = "all", !.crc = "all"] ELSE f

\* playThread strips the TYPE of a stream.  returnPacket sends a packet whose two
\* checksums are right back with the TYPE it has, and otherwise an SMS with a TYPE
\* that is stripped; the checksum of the payload may be either.
PlayedTypes(f) == {ParrotType(f.type)} \cup IF ~f.stream /\ f.crc = f.dst THEN {f.type} ELSE {}

\* A new parrot: for a packet always, for a stream unless it is encrypted or at its
\* end already.  What happens to a parrot is in Parrot; the packet that takes the
\* place of another one there is left out here.
StartParrot(h) ==
  /\ \E f \in Frames, c \in Listed :
       /\ Accepted(h, f, c) /\ f.dst = "parrot"
       /\ c \notin DOMAIN parrots /\ Cardinality(DOMAIN parrots) < MaxParrots
       /\ f.stream => ~f.last /\ ~IsEncrypted(f)
       /\ \E t \in PlayedTypes(f) :
            parrots' = [d \in DOMAIN parrots \cup {c} |->
                          IF d = c THEN [stream |-> f.stream, of |-> f.type, type |-> t]
                                   ELSE parrots[d]]
  /\ UNCHANGED <<clients, users, frameVars>>

EndParrot(c) ==
  /\ Idle /\ c \in DOMAIN parrots
  /\ parrots' = Restrict(parrots, DOMAIN parrots \ {c})
  /\ UNCHANGED <<clients, users, frameVars>>

\* A stream that is open or can be opened, or a packet: it is sent around.
Relay(h) ==
  /\ \E f \in Frames, c \in Listed :
       /\ Accepted(h, f, c) /\ f.dst # "parrot"
       /\ came' = Trimmed(h, f)
       /\ packet' = Readdressed(came')
       /\ users' = UpdateDashData(users, f)
       /\ from' = c /\ next' = 1
  /\ UNCHANGED <<clients, parrots, sent>>

----------------------------------------------------------------------------
(* SendToClients, one client of the list after the other.                  *)

Sending == next \in 1..Len(clients)
This == clients[next]
FromStation == Kind(from) = "simple"
Advance == next' = next + 1 /\ UNCHANGED <<clients, parrots, users, came, from>>

\* What leaves the socket: the frame, and what follows its own bytes.
Send(f, trailer) ==
  sent' = sent \cup {[to |-> This, frame |-> f, trailer |-> trailer]}

\* Mutant of Concerned: a client that is parroting is sent the stream, too.
ConcernedAlways(c) == c.mod = from.mod /\ c # from

\* FindNextClient passes over other modules, and the originator is skipped; while a
\* client is parroting it is sent no stream.
Concerned(c) ==
  /\ c.mod = from.mod /\ c # from
  /\ packet.stream => c \notin DOMAIN parrots

\* A legacy reflector is addressed by its callsign, and byte 54 is 1; then the DST
\* is that of the frame as it came.
ToLegacy ==
  /\ Sending /\ Concerned(This) /\ packet.stream /\ Kind(This) = "legacy" /\ FromStation
  /\ LET addressed == [packet EXCEPT !.dst = This.host, !.crc = This.host, !.size = 55]
     IN  Send(addressed, <<1>>) /\ packet' = [addressed EXCEPT !.dst = came.dst, !.crc = came.dst]
  /\ Advance

\* A reflector gets the module in byte 54.
ToReflector ==
  /\ Sending /\ Concerned(This) /\ packet.stream /\ Kind(This) = "reflector" /\ FromStation
  /\ packet' = [packet EXCEPT !.size = 55]
  /\ Send(packet', <<from.mod>>)
  /\ Advance

\* Mutant of ToLocal: the size that the last receiver needed.
ToLocalAsIs ==
  /\ Sending /\ Concerned(This) /\ packet.stream /\ Local(This)
  /\ Send(packet, IF packet.size = 55 THEN <<0>> ELSE <<>>) /\ UNCHANGED packet
  /\ Advance

ToLocal ==
  /\ Sending /\ Concerned(This) /\ packet.stream /\ Local(This)
  /\ packet' = [packet EXCEPT !.size = 54]
  /\ Send(packet', <<>>)
  /\ Advance

\* A packet for a reflector is one byte longer, with the module at the end; for the
\* next client it has its old size again.  A packet that fills the buffer is
\* accepted, and its module is written one byte past data[MAX_PACKET_SIZE]; no other
\* member of CPacket comes after data.
PacketToReflector ==
  /\ Sending /\ Concerned(This) /\ ~packet.stream /\ Kind(This) = "reflector" /\ FromStation
  /\ LET longer == [packet EXCEPT !.size = packet.size + 1]
     IN  Send(longer, <<from.mod>>) /\ packet' = [longer EXCEPT !.size = packet.size]
  /\ Advance

\* A packet that a reflector has sent is for the local clients only; one that a
\* legacy reflector has sent is for nobody.
PacketToLocal ==
  /\ Sending /\ Concerned(This) /\ ~packet.stream /\ Local(This) /\ Kind(from) # "legacy"
  /\ Send(packet, <<>>) /\ UNCHANGED packet
  /\ Advance

\* Reflectors get no stream but a station's, and legacy ones no packets at all.
ForOthers(c) == \/ ~Local(c) /\ ~FromStation
                \/ ~packet.stream /\ (Kind(c) = "legacy" \/ Kind(from) = "legacy")

Skip ==
  /\ Sending
  /\ ~Concerned(This) \/ ForOthers(This)
  /\ UNCHANGED <<packet, sent>>
  /\ Advance

Done ==
  /\ next > Len(clients)
  /\ next' = 0 /\ packet' = Nothing /\ came' = Nothing /\ from' = Nothing /\ sent' = {}
  /\ UNCHANGED <<clients, parrots, users>>

SendToClients == \/ ToLegacy \/ ToReflector \/ ToLocal
                 \/ PacketToReflector \/ PacketToLocal \/ Skip \/ Done

Next ==
  \/ \E h \in Hosts : Link(h) \/ Unlink(h) \/ StartParrot(h) \/ Relay(h)
  \/ \E c \in Client : EndParrot(c)
  \/ SendToClients

Spec == Init /\ [][Next]_vars

----------------------------------------------------------------------------
(* Properties.                                                             *)

TypeOK ==
  /\ clients \in Seq(Client) /\ IsInjective(clients)
  /\ DOMAIN parrots \subseteq Listed /\ \A c \in DOMAIN parrots : parrots[c].type \in 0..2^16 - 1
  /\ users \in Seq(Sources)
  /\ next \in 0..Len(clients) + 1
  /\ Idle <=> packet = Nothing
  /\ ~Idle => packet.size <= MaxSize /\ came \in Frame /\ from \in Listed
  /\ \A s \in sent : s.frame.size <= MaxSize + 1

\* What SendToClients makes of the DST, for whom it does not address itself: @ALL
\* for a DST that began with M17-, as OnPacketIn wrote it, until it has served a
\* legacy reflector; whoever comes after that in the list gets the M17- again.
Given(c) == IF \E t \in sent : Kind(t.to) = "legacy" /\ Precedes(t.to, c)
            THEN came ELSE Readdressed(came)

\* What a client receives from the one buffer has the size that its kind expects,
\* the module for a reflector and the mark and its own callsign for a legacy one,
\* whoever was served before; a checksum that was right when the frame came is right
\* for the DST that it now has.  But which DST a local client or a reflector gets
\* does depend on the list: OnPacketIn means it to be @ALL, and it is exactly what
\* Given says.
RightForReceiver ==
  \A s \in sent :
    LET f == s.frame
        length == IF f.stream THEN 54 ELSE came.size
    IN  /\ Local(s.to) => f.size = length /\ s.trailer = <<>>
        /\ Kind(s.to) = "reflector" => f.size = length + 1 /\ s.trailer = <<from.mod>>
        /\ Kind(s.to) = "legacy" => f.size = 55 /\ s.trailer = <<1>> /\ f.dst = s.to.host
        /\ Kind(s.to) # "legacy" => f.dst = Given(s.to).dst
        /\ came.crc = came.dst => f.crc = f.dst

\* The relay implements module Broadcast.  A frame is what of it is passed on as it
\* came; who waits for it is whom the loop has yet to reach and will not pass over.
Passed(f) == [from |-> from, stream |-> f.stream, type |-> f.type, last |-> f.last, heard |-> f.heard]
UnderWay == IF Idle THEN {} ELSE {Passed(came)}
Waiting ==
  IF Idle THEN {}
  ELSE {c \in Listed : /\ Concerned(c) /\ ~ForOthers(c)
                       /\ \E i \in next..Len(clients) : clients[i] = c}
Delivered == {[to |-> s.to, of |-> Passed(s.frame)] : s \in sent}

Promise == INSTANCE Broadcast WITH members <- Listed, busy <- DOMAIN parrots, frame <- UnderWay,
                                   waiting <- Waiting, delivered <- Delivered

\* When the next frame comes, everybody for whom the last one was meant has had it,
\* once and unaltered, whatever the order of the list: no two branches of
\* SendToClients take the same client, and none that it should serve is left out.
ImplementsBroadcast == Promise!Spec

\* What a parrot will send is of the form and payload that it was given, on the same
\* channel access number, and it would be taken for the stream or the packet that it
\* is.  The TYPE of a stream's playback says neither encrypted nor signed, and so
\* does that of a packet's unless it is the TYPE of the packet itself, unaltered.
\* (It is the TYPE that is clean: a stream that was encrypted by AES is taken for
\* plain in version 3, and its playback is AES that announces no cipher.)
PlaybackClean ==
  \A c \in DOMAIN parrots :
    LET p == parrots[c]
        f == Meaning(p.type)
        given == Meaning(p.of)
    IN  /\ p.stream \/ p.type # p.of
             => f.encrypt = "none" /\ ~f.signed /\ f.meta \in {"none", "text"}
        /\ f.version = given.version /\ f.payload = given.payload /\ f.can = given.can
        /\ Bits(p.type, 0, 1) = Bits(p.of, 0, 1)

\* The dashboard shows who was heard last: a report puts its source first, leaves
\* the others in their order, and drops nobody but the one heard longest ago, for
\* want of room.
Reports == Idle /\ next' = 1 /\ came'.heard # Nobody
RecentFirst ==
  [][ /\ Reports => users' # <<>> /\ Head(users') = came'.heard
      /\ users' # users => Reports /\ IsInjective(users') /\ Len(users') <= MaxUsers
      /\ \A i \in DOMAIN users :
           Contains(users', users[i]) \/ (i = MaxUsers /\ Len(users) = MaxUsers)
      /\ \A i, j \in DOMAIN users : \A k, l \in 2..Len(users') :
           users'[k] = users[i] /\ users'[l] = users[j] => (i < j <=> k < l)
    ]_vars

----------------------------------------------------------------------------
(* What a document says that the program does not do.                      *)

\* "Encrypted voice streams will pass through an mrefd channel, but only if that
\* channel is configured for it": by the code that buildV3 gives each encryption.
EncryptedV3(t) == IsV3(t) /\ Bits(t, 9, 3) # 0
EncryptedStaysOut ==
  \A s \in sent : s.frame.stream /\ EncryptedV3(s.frame.type) => from.mod \in Encrypted
=============================================================================
