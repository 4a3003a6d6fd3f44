--------------------------- MODULE Protocol_proofs ---------------------------
(***************************************************************************)
(* Theorems about module Protocol, for every value of its constants.       *)
(***************************************************************************)
EXTENDS Protocol, TLAPS

USE PeersAssumption, SidsAssumption, TimeAssumption, FilesAssumption,
    NoClientAssumption

----------------------------------------------------------------------------
(* What the helpers return.                                                *)

\* What a client object holds.
LEMMA ClientFields ==
  /\ PeerClient \subseteq Client /\ StationClient \subseteq Client
  /\ \A c \in Client : /\ c.mod \in Modules /\ c.gen \in Gens
                       /\ c.type = "reflector" => c \in PeerClient
                       /\ c.type # "reflector" => c \in StationClient
  /\ \A c \in PeerClient : c.addr \in Peers /\ c.type = "reflector"
  /\ \A c \in StationClient : c.addr \in Stations /\ c.type \in Local
BY DEF Client, PeerClient, StationClient, Local

\* Removing clients keeps the list and the keepalive ages well formed.
LEMMA RemoveClientsType ==
  ASSUME TypeOK, NEW gone, RemoveClients(gone)
  PROVE  /\ clients' \subseteq Client
         /\ quiet' \in [clients' -> 0..KeepaliveTimeout]
BY DEF TypeOK, RemoveClients

\* Adding clients does too.
LEMMA AddClientsType ==
  ASSUME TypeOK, NEW new \in SUBSET Client, AddClients(new)
  PROVE  /\ clients' \subseteq Client
         /\ quiet' \in [clients' -> 0..KeepaliveTimeout]
BY DEF TypeOK, AddClients

\* Closing streams keeps the streams well formed.
LEMMA CloseStreamsType ==
  ASSUME TypeOK, NEW M, CloseStreams(M)
  PROVE  /\ tx' \subseteq Client
         /\ open' \in [Modules -> BOOLEAN]
         /\ sid' \in [Modules -> Nat]
         /\ owner' \in [Modules -> Client \cup {NoClient}]
         /\ age' \in [Modules -> 0..StreamTimeout + 1]
BY DEF TypeOK, CloseStreams

\* A frame is taken to be from a client object, and never from a listen-only one.
LEMMA TalkersAreClients ==
  ASSUME TypeOK
  PROVE  /\ \A a \in Stations : \A c \in StationTalker(a) :
                c \in Client /\ c.type # "listenonly"
         /\ \A p \in Peers, m \in Modules : \A c \in PeerTalker(p, m) :
                c \in Client /\ c.type # "listenonly"
<1>1. ASSUME NEW a \in Stations, NEW c \in StationTalker(a)
      PROVE  c \in Client /\ c.type # "listenonly"
  BY <1>1 DEF TypeOK, StationTalker, FindClient
<1>2. ASSUME NEW p \in Peers, NEW m \in Modules, NEW c \in PeerTalker(p, m)
      PROVE  c \in Client /\ c.type # "listenonly"
  <2>1. \/ c \in FindClient(p)
        \/ \E q \in Peers : c \in peers[q]
    BY DEF PeerTalker, FindPeer
  <2>2. CASE c \in FindClient(p)
    <3>1. c \in Client /\ c.addr = p
      BY <2>2 DEF TypeOK, FindClient
    <3>2. c \notin StationClient
      BY <3>1, ClientFields, SocketsAssumption
    <3> QED BY <3>1, <3>2, ClientFields
  <2>3. CASE \E q \in Peers : c \in peers[q]
    <3>1. c \in PeerClient
      BY <2>3 DEF TypeOK
    <3> QED BY <3>1, ClientFields
  <2> QED BY <2>1, <2>2, <2>3
<1> QED BY <1>1, <1>2

----------------------------------------------------------------------------
\* Every variable keeps its type: what TLC checks as TypeOK holds for any
\* number of stations, peers, modules and stream identifiers.
THEOREM TypeCorrect == Spec => []TypeOK
<1>1. Init => TypeOK
  BY DEF Init, TypeOK
<1>2. TypeOK /\ [Next]_vars => TypeOK'
  <2> SUFFICES ASSUME TypeOK, [Next]_vars PROVE TypeOK'
    OBVIOUS
  <2>1. ASSUME NEW a \in Stations, KeepaliveFromStation(a) PROVE TypeOK'
    BY <2>1 DEF KeepaliveFromStation, Received, Alive, TypeOK, streamVars
  <2>2. ASSUME NEW a \in Stations, DisconnectStation(a) PROVE TypeOK'
    BY <2>2, RemoveClientsType DEF DisconnectStation, Received, TypeOK, streamVars
  <2>3. ASSUME NEW a \in Stations, NEW type \in Local, NEW m \in Modules,
               ConnectStation(a, type, m)
        PROVE  TypeOK'
    <3>1. PICK g \in Gens :
            LET new == [addr : {a}, type : {type}, mod : {m}, gen : {g}]
            IN  AddClients(new)
      BY <2>3 DEF ConnectStation
    <3>2. [addr : {a}, type : {type}, mod : {m}, gen : {g}] \in SUBSET Client
      BY DEF Client, StationClient
    <3> QED BY <2>3, <3>1, <3>2, AddClientsType
            DEF ConnectStation, Received, TypeOK, streamVars
  <2>4. ASSUME NEW talker, \A c \in talker : c \in Client, NEW s \in Sids,
               NEW last \in BOOLEAN, StreamFrame(talker, s, last)
        PROVE  TypeOK'
    <3>1. PICK c \in Client : \/ FrameOfStream(c, s, last)
                              \/ FrameOpensStream(c, s, last)
                              \/ FrameRefused(c, s)
      BY <2>4 DEF StreamFrame
    <3>2. c.mod \in Modules /\ s \in Nat
      BY ClientFields
    <3>3. /\ tx' \subseteq Client
          /\ open' \in [Modules -> BOOLEAN]
          /\ sid' \in [Modules -> Nat]
          /\ owner' \in [Modules -> Client \cup {NoClient}]
          /\ age' \in [Modules -> 0..StreamTimeout + 1]
          /\ relayed' \in Client \cup {NoClient}
      <4>1. CASE FrameOfStream(c, s, last) /\ last
        BY <4>1, CloseStreamsType DEF FrameOfStream
      <4>2. CASE FrameOfStream(c, s, last) /\ ~last
        BY <4>2, <3>2 DEF FrameOfStream, Tickle, TypeOK
      <4>3. CASE FrameOpensStream(c, s, last) /\ last
        BY <4>3 DEF FrameOpensStream, TypeOK, streamVars
      <4>4. CASE FrameOpensStream(c, s, last) /\ ~last
        <5>1. OpenStream(c, s) /\ relayed' = c
          BY <4>4 DEF FrameOpensStream
        <5>2. tx' \subseteq Client /\ relayed' \in Client \cup {NoClient}
          BY <5>1 DEF OpenStream, TypeOK
        <5>3. open' \in [Modules -> BOOLEAN] /\ sid' \in [Modules -> Nat]
          BY <5>1, <3>2 DEF OpenStream, TypeOK
        <5>4. owner' \in [Modules -> Client \cup {NoClient}]
          BY <5>1, <3>2 DEF OpenStream, TypeOK
        <5>5. age' \in [Modules -> 0..StreamTimeout + 1]
          BY <5>1, <3>2 DEF OpenStream, TypeOK
        <5> QED BY <5>2, <5>3, <5>4, <5>5
      <4>5. CASE FrameRefused(c, s)
        BY <4>5 DEF FrameRefused, TypeOK, streamVars
      <4> QED BY <3>1, <4>1, <4>2, <4>3, <4>4, <4>5
    <3> QED BY <2>4, <3>3 DEF StreamFrame, Received, TypeOK, linkVars
  <2>5. ASSUME NEW p \in Peers, KeepaliveFromPeer(p) PROVE TypeOK'
    BY <2>5 DEF KeepaliveFromPeer, Received, Alive, TypeOK, streamVars
  <2>6. ASSUME NEW p \in Peers, DisconnectPeer(p) PROVE TypeOK'
    <3>1. peers' \in [Peers -> SUBSET PeerClient]
      BY <2>6 DEF DisconnectPeer, RemovePeers, TypeOK
    <3> QED BY <2>6, <3>1, RemoveClientsType
            DEF DisconnectPeer, RemovePeers, Received, TypeOK, streamVars
  <2>7. ASSUME NEW p \in Peers, AcknPeer(p) PROVE TypeOK'
    <3>1. PICK g \in Gens :
            LET new == [addr : {p}, type : {"reflector"}, mod : interlinks[p], gen : {g}]
            IN  peers' = [peers EXCEPT ![p] = new] /\ AddClients(new)
      BY <2>7 DEF AcknPeer
    <3> DEFINE new == [addr : {p}, type : {"reflector"}, mod : interlinks[p], gen : {g}]
    <3>2. new \in SUBSET PeerClient
      <4>1. interlinks[p] \subseteq Modules
        BY DEF TypeOK
      <4> QED BY <4>1 DEF PeerClient
    <3>3. peers' \in [Peers -> SUBSET PeerClient]
      BY <3>1, <3>2 DEF TypeOK
    <3>4. /\ clients' \subseteq Client
          /\ quiet' \in [clients' -> 0..KeepaliveTimeout]
      BY <3>1, <3>2, AddClientsType, ClientFields
    <3> QED BY <2>7, <3>3, <3>4 DEF AcknPeer, Received, TypeOK, streamVars
  <2>8. CASE NothingToDo
    BY <2>8 DEF NothingToDo, Received, TypeOK, linkVars, streamVars
  <2>9. CASE CheckStreamsTimeout
    BY <2>9, CloseStreamsType
    DEF CheckStreamsTimeout, TypeOK, linkVars, fileVars, timerVars
  <2>10. CASE HandleKeepalives
    <3>1. clients' \subseteq Client /\ clients' \subseteq clients
      BY <2>10 DEF HandleKeepalives, TypeOK
    <3>2. quiet' \in [clients' -> 0..KeepaliveTimeout]
      BY <2>10, <3>1 DEF HandleKeepalives, TypeOK
    <3>3. peers' \in [Peers -> SUBSET PeerClient]
      BY <2>10 DEF HandleKeepalives, TypeOK
    <3> QED BY <2>10, <3>1, <3>2, <3>3 DEF HandleKeepalives, TypeOK, streamVars, fileVars
  <2>11. CASE KeepalivesNotDue
    BY <2>11 DEF KeepalivesNotDue, TypeOK, linkVars, streamVars, fileVars, timerVars
  <2>12. CASE HandlePeerLinks
    <3>1. peers' \in [Peers -> SUBSET PeerClient]
      BY <2>12 DEF HandlePeerLinks, RemovePeers, TypeOK
    <3>2. published' \subseteq Peers
      BY <2>12 DEF HandlePeerLinks, TypeOK
    <3>3. /\ clients' \subseteq Client
          /\ quiet' \in [clients' -> 0..KeepaliveTimeout]
      BY <2>12, RemoveClientsType DEF HandlePeerLinks, RemovePeers
    <3>4. publish' \in BOOLEAN
      BY <2>12, Zenon DEF HandlePeerLinks
    <3>5. /\ pc' = "receive" /\ sinceLinks' = 0
          /\ UNCHANGED <<streamVars, tx, interlinks, sinceKeepalive, relayed>>
      BY <2>12 DEF HandlePeerLinks
    <3> QED BY <3>1, <3>2, <3>3, <3>4, <3>5 DEF TypeOK, streamVars
  <2>13. CASE LinksNotDue
    BY <2>13 DEF LinksNotDue, TypeOK, linkVars, streamVars, fileVars, timerVars
  <2>14. CASE Tick
    BY <2>14 DEF Tick, Older, TypeOK, fileVars
  <2>15. CASE ReloadInterlinks
    BY <2>15 DEF ReloadInterlinks, TypeOK, linkVars, streamVars, timerVars
  <2>16. CASE UNCHANGED vars
    BY <2>16 DEF vars, TypeOK
  <2> QED
    <3>1. ASSUME NEW a \in Stations, PacketFromStation(a) PROVE TypeOK'
      BY <3>1, <2>1, <2>2, <2>3, <2>4, TalkersAreClients DEF PacketFromStation
    <3>2. ASSUME NEW p \in Peers, PacketFromPeer(p) PROVE TypeOK'
      BY <3>2, <2>5, <2>6, <2>7, <2>4, TalkersAreClients DEF PacketFromPeer
    <3> QED BY <3>1, <3>2, <2>8, <2>9, <2>10, <2>11, <2>12, <2>13, <2>14, <2>15, <2>16
            DEF Next, Task
<1>3. QED
  BY <1>1, <1>2, PTL DEF Spec

----------------------------------------------------------------------------
(* The streams.  TxIffOwner and DistinctSids are not inductive alone: that *)
(* closing one stream clears one transmit mark only needs that a client    *)
(* owns at most the stream of its own module.                              *)

OwnersFit ==
  \A m \in Modules : /\ open[m] => /\ owner[m] \in Client /\ owner[m].mod = m
                                   /\ owner[m].type # "listenonly"
                     /\ ~open[m] => owner[m] = NoClient

StreamInv == OwnersFit /\ TxIffOwner /\ DistinctSids

\* The only steps that touch the streams: a frame and the timeout sweep.
LEMMA StreamSteps ==
  ASSUME TypeOK, [Next]_vars
  PROVE  \/ UNCHANGED <<streamVars, tx>>
         \/ Tick
         \/ CheckStreamsTimeout
         \/ \E c \in Client, s \in Sids, last \in BOOLEAN :
              /\ c.type # "listenonly"
              /\ FrameOfStream(c, s, last) \/ FrameOpensStream(c, s, last)
<1> DEFINE Goal == \/ UNCHANGED <<streamVars, tx>>
                   \/ Tick
                   \/ CheckStreamsTimeout
                   \/ \E c \in Client, s \in Sids, last \in BOOLEAN :
                        /\ c.type # "listenonly"
                        /\ FrameOfStream(c, s, last) \/ FrameOpensStream(c, s, last)
<1>1. ASSUME NEW talker, \A c \in talker : c \in Client /\ c.type # "listenonly",
             NEW s \in Sids, NEW last \in BOOLEAN, StreamFrame(talker, s, last)
      PROVE  Goal
  <2>1. PICK c \in talker : \/ FrameOfStream(c, s, last)
                            \/ FrameOpensStream(c, s, last)
                            \/ FrameRefused(c, s)
    BY <1>1 DEF StreamFrame
  <2>2. CASE FrameRefused(c, s)
    BY <2>2 DEF FrameRefused
  <2> QED BY <1>1, <2>1, <2>2
<1>2. ASSUME NEW a \in Stations, PacketFromStation(a) PROVE Goal
  BY <1>2, <1>1, TalkersAreClients
  DEF PacketFromStation, KeepaliveFromStation, DisconnectStation, ConnectStation
<1>3. ASSUME NEW q \in Peers, PacketFromPeer(q) PROVE Goal
  BY <1>3, <1>1, TalkersAreClients
  DEF PacketFromPeer, KeepaliveFromPeer, DisconnectPeer, AcknPeer
<1>4. NothingToDo \/ HandleKeepalives \/ KeepalivesNotDue \/ HandlePeerLinks
        \/ LinksNotDue \/ ReloadInterlinks \/ UNCHANGED vars => Goal
  BY DEF NothingToDo, HandleKeepalives, KeepalivesNotDue, HandlePeerLinks,
         LinksNotDue, ReloadInterlinks, vars, streamVars
<1> QED BY <1>2, <1>3, <1>4 DEF Next, Task

\* Closing open streams of any modules keeps the stream invariant.
LEMMA CloseStreamsInv ==
  ASSUME TypeOK, StreamInv, NEW M \in SUBSET Modules, CloseStreams(M)
  PROVE  StreamInv'
<1>1. OwnersFit'
  BY DEF StreamInv, OwnersFit, CloseStreams, TypeOK
<1>2. DistinctSids'
  BY DEF StreamInv, DistinctSids, CloseStreams, TypeOK
<1>3. ASSUME NEW c \in Client
      PROVE  c \in tx' <=> \E m \in Modules : open'[m] /\ owner'[m] = c
  <2>1. c \in tx' <=> c \in tx /\ \A m \in M : owner[m] # c
    BY DEF CloseStreams
  <2>2. c \in tx <=> \E m \in Modules : open[m] /\ owner[m] = c
    BY DEF StreamInv, TxIffOwner
  <2>3. \A m \in Modules : /\ open'[m] <=> open[m] /\ m \notin M
                           /\ m \notin M => owner'[m] = owner[m]
    BY DEF CloseStreams, TypeOK
  <2>4. \A m, n \in Modules : open[m] /\ owner[m] = c /\ owner[n] = c => m = n
    BY NoClientAssumption DEF StreamInv, OwnersFit
  <2> QED BY <2>1, <2>2, <2>3, <2>4
<1> QED BY <1>1, <1>2, <1>3 DEF StreamInv, TxIffOwner

\* Opening a stream that OpenStream allows keeps it too.
LEMMA OpenStreamInv ==
  ASSUME TypeOK, StreamInv, NEW c \in Client, c.type # "listenonly", NEW s \in Sids,
         MayOpenStream(c, s), OpenStream(c, s)
  PROVE  StreamInv'
<1>1. c.mod \in Modules
  BY ClientFields
<1>2. \A m \in Modules : /\ open'[m] = IF m = c.mod THEN TRUE ELSE open[m]
                         /\ sid'[m] = IF m = c.mod THEN s ELSE sid[m]
                         /\ owner'[m] = IF m = c.mod THEN c ELSE owner[m]
  BY <1>1 DEF OpenStream, TypeOK
<1>3. OwnersFit'
  BY <1>1, <1>2, ZenonT(30) DEF StreamInv, OwnersFit, TypeOK
<1>4. DistinctSids'
  BY <1>1, <1>2 DEF StreamInv, DistinctSids, MayOpenStream, TypeOK
<1>5. ASSUME NEW d \in Client
      PROVE  d \in tx' <=> \E m \in Modules : open'[m] /\ owner'[m] = d
  <2>1. d \in tx' <=> d \in tx \/ d = c
    BY DEF OpenStream
  <2>2. d \in tx <=> \E m \in Modules : open[m] /\ owner[m] = d
    BY DEF StreamInv, TxIffOwner
  <2>3. ~open[c.mod]
    BY DEF MayOpenStream
  <2> QED BY <1>1, <1>2, <2>1, <2>2, <2>3
<1> QED BY <1>3, <1>4, <1>5 DEF StreamInv, TxIffOwner

LEMMA StreamInvStep == TypeOK /\ StreamInv /\ [Next]_vars => StreamInv'
<1> SUFFICES ASSUME TypeOK, StreamInv, [Next]_vars PROVE StreamInv'
  OBVIOUS
<1>1. CASE UNCHANGED <<streamVars, tx>> \/ Tick
  BY <1>1 DEF streamVars, Tick, StreamInv, OwnersFit, TxIffOwner, DistinctSids
<1>2. CASE CheckStreamsTimeout
  BY <1>2, CloseStreamsInv DEF CheckStreamsTimeout
<1>3. ASSUME NEW c \in Client, NEW s \in Sids, NEW last \in BOOLEAN,
             c.type # "listenonly",
             FrameOfStream(c, s, last) \/ FrameOpensStream(c, s, last)
      PROVE  StreamInv'
  <2>1. c.mod \in Modules
    BY ClientFields
  <2>2. CASE FrameOfStream(c, s, last) /\ last
    BY <2>1, <2>2, CloseStreamsInv DEF FrameOfStream
  <2>3. CASE FrameOfStream(c, s, last) /\ ~last
    BY <2>3 DEF FrameOfStream, Tickle, StreamInv, OwnersFit, TxIffOwner, DistinctSids
  <2>4. CASE FrameOpensStream(c, s, last) /\ last
    BY <2>4 DEF FrameOpensStream, streamVars, StreamInv, OwnersFit, TxIffOwner, DistinctSids
  <2>5. CASE FrameOpensStream(c, s, last) /\ ~last
    BY <1>3, <2>5, OpenStreamInv DEF FrameOpensStream
  <2> QED BY <1>3, <2>2, <2>3, <2>4, <2>5
<1> QED BY StreamSteps, <1>1, <1>2, <1>3

\* At all times the transmit marks and the stream owners agree, open streams
\* have different identifiers that are not zero, and no listener owns one.
THEOREM StreamsCorrect == Spec => [](TxIffOwner /\ DistinctSids /\ ListenersSilent)
<1>1. Init => StreamInv
  BY DEF Init, StreamInv, OwnersFit, TxIffOwner, DistinctSids
<1>2. TypeOK /\ StreamInv => TxIffOwner /\ DistinctSids /\ ListenersSilent
  BY DEF TypeOK, StreamInv, OwnersFit, TxIffOwner, ListenersSilent
<1>3. QED
  BY <1>1, <1>2, TypeCorrect, StreamInvStep, PTL DEF Spec

----------------------------------------------------------------------------
(* Floor control: every step of the program grants a module, releases some *)
(* or leaves all of them as they are.                                      *)

LEMMA FloorStep ==
  ASSUME TypeOK, StreamInv, [Next]_vars
  PROVE  FloorControl!Next \/ UNCHANGED Holder
<1>1. CASE UNCHANGED <<streamVars, tx>> \/ Tick
  BY <1>1 DEF streamVars, Tick, Holder
<1>2. ASSUME NEW M \in SUBSET Modules, CloseStreams(M) PROVE FloorControl!Release(M)
  <2>1. \A m \in Modules : /\ open'[m] = (open[m] /\ m \notin M)
                           /\ m \notin M => owner'[m] = owner[m] /\ sid'[m] = sid[m]
    BY <1>2 DEF CloseStreams
  <2>2. Holder' = [m \in Modules |-> IF m \in M THEN {} ELSE Holder[m]]
    BY <2>1 DEF Holder
  <2> QED BY <2>2 DEF FloorControl!Release
<1>3. CASE CheckStreamsTimeout
  BY <1>2, <1>3 DEF CheckStreamsTimeout, FloorControl!Next
<1>4. ASSUME NEW c \in Client, NEW s \in Sids, NEW last \in BOOLEAN,
             c.type # "listenonly",
             FrameOfStream(c, s, last) \/ FrameOpensStream(c, s, last)
      PROVE  FloorControl!Next \/ UNCHANGED Holder
  <2>1. c.mod \in Modules
    BY ClientFields
  <2>2. CASE FrameOfStream(c, s, last) /\ last
    <3>1. CloseStreams({c.mod})
      BY <2>2 DEF FrameOfStream
    <3> QED BY <1>2, <2>1, <3>1 DEF FloorControl!Next
  <2>3. CASE FrameOfStream(c, s, last) /\ ~last
    BY <2>3 DEF FrameOfStream, Tickle, Holder
  <2>4. CASE FrameOpensStream(c, s, last) /\ last
    BY <2>4 DEF FrameOpensStream, streamVars, Holder
  <2>5. CASE FrameOpensStream(c, s, last) /\ ~last
    <3> DEFINE h == [client |-> c, sid |-> s]
    <3>1. MayOpenStream(c, s) /\ OpenStream(c, s)
      BY <2>5 DEF FrameOpensStream
    <3>2. \A m \in Modules : /\ open'[m] = IF m = c.mod THEN TRUE ELSE open[m]
                             /\ sid'[m] = IF m = c.mod THEN s ELSE sid[m]
                             /\ owner'[m] = IF m = c.mod THEN c ELSE owner[m]
      BY <2>1, <3>1 DEF OpenStream, TypeOK
    <3>3. Holder' = [Holder EXCEPT ![c.mod] = {h}]
      <4>1. \A m \in Modules : Holder'[m] = IF m = c.mod THEN {h} ELSE Holder[m]
        BY <3>2 DEF Holder
      <4>2. Holder' = [m \in Modules |-> Holder'[m]]
        BY DEF Holder
      <4>3. [Holder EXCEPT ![c.mod] = {h}]
              = [m \in Modules |-> IF m = c.mod THEN {h} ELSE Holder[m]]
        BY DEF Holder
      <4> QED BY <4>1, <4>2, <4>3
    <3>4. Holder[c.mod] = {}
      BY <2>1, <3>1 DEF MayOpenStream, Holder
    <3>5. \A n \in Modules : \A k \in Holder[n] : k.client # h.client /\ k.sid # h.sid
      <4> SUFFICES ASSUME NEW n \in Modules, NEW k \in Holder[n]
                   PROVE  k.client # c /\ k.sid # s
        OBVIOUS
      <4>1. open[n] /\ k.client = owner[n] /\ k.sid = sid[n]
        BY DEF Holder
      <4>2. sid[n] # s /\ c \notin tx
        BY <3>1, <4>1 DEF MayOpenStream
      <4>3. owner[n] # c
        BY <4>1, <4>2 DEF StreamInv, TxIffOwner
      <4> QED BY <4>1, <4>2, <4>3
    <3>6. h \in Holder'[c.mod]
      BY <2>1, <3>2 DEF Holder
    <3> QED BY <2>1, <3>3, <3>4, <3>5, <3>6 DEF FloorControl!Next, FloorControl!Grant
  <2> QED BY <1>4, <2>2, <2>3, <2>4, <2>5
<1> QED BY StreamSteps, <1>1, <1>3, <1>4

\* The protocol thread implements the floor control of module Floor: one talker
\* to a module and one module to a talker and to a stream identifier, nobody is
\* interrupted by another, for any number of modules and clients.
THEOREM FloorControlled == Spec => ImplementsFloor
<1>1. Init => FloorControl!Init
  BY DEF Init, FloorControl!Init, Holder
<1>2. Init => StreamInv
  BY DEF Init, StreamInv, OwnersFit, TxIffOwner, DistinctSids
<1>3. QED
  BY <1>1, <1>2, TypeCorrect, StreamInvStep, FloorStep, PTL
  DEF Spec, ImplementsFloor, FloorControl!Spec

\* A stream ends only after 1.6 s of silence or with a frame of its own module
\* that was sent to the others.
THEOREM StreamsEndWell == Spec => StreamsEndProperly
<1>1. ASSUME TypeOK, [Next]_vars, NEW m \in Modules, open[m], ~open'[m]
      PROVE  \/ age[m] > StreamTimeout
             \/ relayed' # NoClient /\ relayed'.mod = m
  <2>1. CASE CheckStreamsTimeout
    BY <1>1, <2>1 DEF CheckStreamsTimeout, CloseStreams, IsExpired
  <2>2. ASSUME NEW c \in Client, NEW s \in Sids, NEW last \in BOOLEAN,
               FrameOfStream(c, s, last) \/ FrameOpensStream(c, s, last)
        PROVE  relayed' # NoClient /\ relayed'.mod = m
    <3>1. relayed' = c /\ c.mod \in Modules /\ c # NoClient
      BY <2>2, ClientFields, NoClientAssumption DEF FrameOfStream, FrameOpensStream
    <3>2. c.mod = m
      BY <1>1, <2>2, <3>1
      DEF FrameOfStream, FrameOpensStream, CloseStreams, Tickle, OpenStream, streamVars, TypeOK
    <3> QED BY <3>1, <3>2
  <2>3. ~(UNCHANGED <<streamVars, tx>> \/ Tick)
    BY <1>1 DEF streamVars, Tick
  <2> QED BY <1>1, <2>1, <2>2, <2>3, StreamSteps
<1>2. TypeOK /\ [Next]_vars
        => [\A m \in Modules : open[m] /\ ~open'[m] =>
              \/ age[m] > StreamTimeout
              \/ relayed' # NoClient /\ relayed'.mod = m]_vars
  BY <1>1
<1>3. QED
  BY <1>2, TypeCorrect, PTL DEF Spec, StreamsEndProperly

----------------------------------------------------------------------------
(* The links.  The steps that remove clients all go through one of the two *)
(* lemmas below, which say what may go without harm.                       *)

LinkInv == PeersMatchClients /\ OneClientPerStation /\ PeerTalkerStays

\* A set of clients may go if it consists of stations and of all the clients
\* of peers that do not transmit.
LEMMA RemovalInv ==
  ASSUME TypeOK, StreamInv, LinkInv,
         NEW A, A \subseteq StationClient,
         NEW P \in SUBSET Peers, \A p \in P : ~PeerIsTransmitting(p),
         clients' = clients \ (A \cup UNION {peers[p] : p \in P}),
         peers' = [p \in Peers |-> IF p \in P THEN {} ELSE peers[p]],
         UNCHANGED <<open, owner>>
  PROVE  LinkInv'
<1>1. \A p \in Peers : peers[p] \subseteq PeerClient
  BY DEF TypeOK
<1>2. ASSUME NEW p \in Peers, NEW c \in peers[p]
      PROVE  c \in clients /\ c.addr = p /\ c.type = "reflector" /\ c \notin A
  <2>1. c.type = "reflector"
    BY <1>1, ClientFields
  <2> QED BY <2>1, ClientFields DEF LinkInv, PeersMatchClients, Local
<1>3. \A p \in Peers : \A c : c \in peers'[p] => p \notin P /\ c \in peers[p]
  OBVIOUS
<1>4. ASSUME NEW p \in Peers, NEW c \in peers'[p] PROVE c \in clients'
  BY <1>2, <1>3
<1>5. ASSUME NEW c \in clients', c.type = "reflector" PROVE c \in peers'[c.addr]
  <2>1. c \in clients /\ c.addr \in Peers /\ c \in peers[c.addr]
    BY <1>5, ClientFields DEF LinkInv, PeersMatchClients, TypeOK
  <2> QED BY <2>1
<1>6. PeersMatchClients'
  <2>1. \A p \in Peers : \A c, d \in peers'[p] :
          c \in clients' /\ c.addr = p /\ (c.mod = d.mod => c = d)
    BY <1>3, <1>4 DEF LinkInv, PeersMatchClients
  <2> QED BY <2>1, <1>5 DEF PeersMatchClients
<1>7. OneClientPerStation'
  BY DEF LinkInv, OneClientPerStation
<1>8. ASSUME NEW m \in Modules, open[m], owner[m].type = "reflector"
      PROVE  owner[m] \in clients'
  <2>1. owner[m] \in clients /\ owner[m] \in Client
    BY <1>8 DEF LinkInv, PeerTalkerStays, TypeOK
  <2>2. owner[m] \in tx
    BY <1>8, <2>1 DEF StreamInv, TxIffOwner
  <2>3. owner[m].addr \in Peers /\ owner[m] \in peers[owner[m].addr] /\ owner[m] \notin A
    BY <1>8, <2>1, ClientFields DEF LinkInv, PeersMatchClients, Local
  <2>4. ASSUME NEW p \in P, owner[m] \in peers[p] PROVE FALSE
    BY <2>2, <2>4 DEF PeerIsTransmitting
  <2> QED BY <2>1, <2>3, <2>4
<1> QED BY <1>6, <1>7, <1>8 DEF LinkInv, PeerTalkerStays

\* Under the link invariant whoever a frame is taken to be from is linked.
LEMMA TalkersAreLinked ==
  ASSUME LinkInv
  PROVE  /\ \A a \in Stations : StationTalker(a) \subseteq clients
         /\ \A p \in Peers, m \in Modules : PeerTalker(p, m) \subseteq clients
<1>1. \A p \in Peers : peers[p] \subseteq clients
  BY DEF LinkInv, PeersMatchClients
<1>2. \A a : FindClient(a) \subseteq clients
  BY DEF FindClient
<1>3. \A p \in Peers, m \in Modules : \A c \in PeerTalker(p, m) :
        c \in FindClient(p) \/ \E q \in Peers : c \in peers[q]
  BY DEF PeerTalker, FindPeer
<1> QED BY <1>1, <1>2, <1>3 DEF StationTalker

\* A step that leaves the two lists alone leaves them in agreement.
LEMMA ListsUnchanged ==
  ASSUME LinkInv, clients' = clients, peers' = peers
  PROVE  PeersMatchClients' /\ OneClientPerStation'
<1>1. PeersMatchClients /\ OneClientPerStation
  BY DEF LinkInv
<1>2. PeersMatchClients'
  <2>1. ASSUME NEW p \in Peers, NEW c \in peers'[p], NEW d \in peers'[p]
        PROVE  c \in clients' /\ c.addr = p /\ (c.mod = d.mod => c = d)
    BY <1>1 DEF PeersMatchClients
  <2>2. ASSUME NEW c \in clients', c.type = "reflector" PROVE c \in peers'[c.addr]
    BY <1>1, <2>2 DEF PeersMatchClients
  <2> QED BY <2>1, <2>2 DEF PeersMatchClients
<1>3. OneClientPerStation'
  BY <1>1 DEF OneClientPerStation
<1> QED BY <1>2, <1>3

\* Streams may change hands among linked clients, and end.
LEMMA StreamFrameLinkInv ==
  ASSUME TypeOK, StreamInv, LinkInv, NEW talker, talker \subseteq clients,
         NEW s \in Sids, NEW last \in BOOLEAN, StreamFrame(talker, s, last)
  PROVE  LinkInv'
<1>1. clients' = clients /\ peers' = peers
  BY DEF StreamFrame, linkVars
<1>2. PICK c \in talker : \/ FrameOfStream(c, s, last)
                          \/ FrameOpensStream(c, s, last)
                          \/ FrameRefused(c, s)
  BY DEF StreamFrame
<1>3. c \in clients /\ c \in Client /\ c.mod \in Modules
  BY ClientFields DEF TypeOK
<1>4. \A m \in Modules : open'[m] => \/ owner'[m] = c
                                     \/ open[m] /\ owner'[m] = owner[m]
  <2>1. CASE FrameOfStream(c, s, last) /\ last
    BY <2>1 DEF FrameOfStream, CloseStreams
  <2>2. CASE FrameOfStream(c, s, last) /\ ~last
    BY <2>2 DEF FrameOfStream, Tickle
  <2>3. CASE FrameOpensStream(c, s, last) /\ last
    BY <2>3 DEF FrameOpensStream, streamVars
  <2>4. CASE FrameOpensStream(c, s, last) /\ ~last
    BY <2>4, <1>3 DEF FrameOpensStream, OpenStream, TypeOK
  <2>5. CASE FrameRefused(c, s)
    BY <2>5 DEF FrameRefused, streamVars
  <2> QED BY <1>2, <2>1, <2>2, <2>3, <2>4, <2>5
<1>5. PeersMatchClients' /\ OneClientPerStation'
  BY <1>1, ListsUnchanged
<1>6. ASSUME NEW m \in Modules, open'[m], owner'[m].type = "reflector"
      PROVE  owner'[m] \in clients'
  BY <1>1, <1>3, <1>4, <1>6 DEF LinkInv, PeerTalkerStays
<1> QED BY <1>5, <1>6 DEF LinkInv, PeerTalkerStays

\* A station that links takes a socket nobody else has.
LEMMA ConnectLinkInv ==
  ASSUME TypeOK, LinkInv, NEW a \in Stations, NEW type \in Local, NEW m \in Modules,
         ConnectStation(a, type, m)
  PROVE  LinkInv'
<1>1. PICK g \in Gens :
        LET new == [addr : {a}, type : {type}, mod : {m}, gen : {g}] IN AddClients(new)
  BY DEF ConnectStation
<1> DEFINE new == [addr : {a}, type : {type}, mod : {m}, gen : {g}]
<1>2. \A c \in new : c.addr = a /\ c.type = type
  OBVIOUS
<1>3. ASSUME NEW c \in new, NEW d \in new PROVE c = d
  <2>1. /\ c \in [addr : {a}, type : {type}, mod : {m}, gen : {g}]
        /\ d \in [addr : {a}, type : {type}, mod : {m}, gen : {g}]
    OBVIOUS
  <2>2. c.addr = d.addr /\ c.type = d.type /\ c.mod = d.mod /\ c.gen = d.gen
    BY <2>1
  <2> QED BY <2>1, <2>2
<1>4. clients \subseteq clients' /\ clients' \subseteq clients \cup new
  BY <1>1 DEF AddClients
<1>5. UNCHANGED <<peers, open, owner>> /\ \A d \in clients : d.addr # a
  BY DEF ConnectStation, streamVars, FindClient
<1> HIDE DEF new
<1>6. PeersMatchClients'
  BY <1>2, <1>4, <1>5 DEF LinkInv, PeersMatchClients, Local
<1>7. OneClientPerStation'
  BY <1>2, <1>3, <1>4, <1>5 DEF LinkInv, OneClientPerStation
<1>8. PeerTalkerStays'
  BY <1>4, <1>5 DEF LinkInv, PeerTalkerStays
<1> QED BY <1>6, <1>7, <1>8 DEF LinkInv

\* A reflector that becomes a peer brings its clients to both lists: none of
\* them is taken for one that is already there.
LEMMA AcknLinkInv ==
  ASSUME TypeOK, LinkInv, NEW p \in Peers, AcknPeer(p)
  PROVE  LinkInv'
<1>1. PICK g \in Gens :
        LET new == [addr : {p}, type : {"reflector"}, mod : interlinks[p], gen : {g}]
        IN  peers' = [peers EXCEPT ![p] = new] /\ AddClients(new)
  BY DEF AcknPeer
<1> DEFINE new == [addr : {p}, type : {"reflector"}, mod : interlinks[p], gen : {g}]
<1>2. /\ \A c \in new : c.addr = p /\ c.type = "reflector"
      /\ \A c, d \in new : c.mod = d.mod => c = d
  <2>1. \A c \in new : c.addr = p /\ c.type = "reflector"
    OBVIOUS
  <2>2. ASSUME NEW c \in new, NEW d \in new, c.mod = d.mod PROVE c = d
    <3>1. /\ c \in [addr : {p}, type : {"reflector"}, mod : interlinks[p], gen : {g}]
          /\ d \in [addr : {p}, type : {"reflector"}, mod : interlinks[p], gen : {g}]
      OBVIOUS
    <3>2. c.addr = d.addr /\ c.type = d.type /\ c.gen = d.gen
      BY <3>1
    <3> QED BY <3>1, <3>2, <2>2
  <2> QED BY <2>1, <2>2
<1>3. peers' = [peers EXCEPT ![p] = new] /\ AddClients(new)
  BY <1>1
<1>4. peers[p] = {} /\ UNCHANGED <<open, owner>>
  BY DEF AcknPeer, Linked, streamVars
<1> HIDE DEF new
<1>5. \A d \in clients : d.addr # p
  <2> SUFFICES ASSUME NEW d \in clients, d.addr = p PROVE FALSE
    OBVIOUS
  <2>1. d \in Client /\ d \notin StationClient
    BY ClientFields, SocketsAssumption DEF TypeOK
  <2>2. d.type = "reflector"
    BY <2>1, ClientFields
  <2> QED BY <2>2, <1>4 DEF LinkInv, PeersMatchClients
<1>6. clients' = clients \cup new
  BY <1>2, <1>3, <1>5 DEF AddClients, SameClient
<1>7. \A q \in Peers : peers'[q] = IF q = p THEN new ELSE peers[q]
  BY <1>3 DEF TypeOK
<1>8. PeersMatchClients'
  <2>1. ASSUME NEW q \in Peers, NEW c \in peers'[q], NEW d \in peers'[q]
        PROVE  c \in clients' /\ c.addr = q /\ (c.mod = d.mod => c = d)
    BY <1>2, <1>6, <1>7 DEF LinkInv, PeersMatchClients
  <2>2. ASSUME NEW c \in clients', c.type = "reflector" PROVE c \in peers'[c.addr]
    <3>1. CASE c \in new
      BY <1>2, <1>7, <3>1
    <3>2. CASE c \in clients
      <4>1. c.addr \in Peers /\ c \in peers[c.addr]
        BY <2>2, <3>2, ClientFields DEF TypeOK, LinkInv, PeersMatchClients
      <4> QED BY <3>2, <4>1, <1>5, <1>7
    <3> QED BY <1>6, <3>1, <3>2
  <2> QED BY <2>1, <2>2 DEF PeersMatchClients
<1>9. OneClientPerStation'
  BY <1>2, <1>5, <1>6 DEF LinkInv, OneClientPerStation, Local
<1>10. PeerTalkerStays'
  BY <1>4, <1>6 DEF LinkInv, PeerTalkerStays
<1> QED BY <1>8, <1>9, <1>10 DEF LinkInv

\* DISC from a peer, an edit of the interlink file: what RemovePeer takes away.
LEMMA RemovePeersLinkInv ==
  ASSUME TypeOK, StreamInv, LinkInv, NEW P \in SUBSET Peers, RemovePeers(P),
         UNCHANGED <<open, owner>>
  PROVE  LinkInv'
<1> DEFINE gone == {p \in P : ~PeerIsTransmitting(p)}
<1>1. /\ clients' = clients \ ({} \cup UNION {peers[p] : p \in gone})
      /\ peers' = [p \in Peers |-> IF p \in gone THEN {} ELSE peers[p]]
  BY DEF RemovePeers, RemoveClients
<1>2. gone \in SUBSET Peers /\ \A p \in gone : ~PeerIsTransmitting(p)
  OBVIOUS
<1> HIDE DEF gone
<1> QED BY <1>1, <1>2, RemovalInv

LEMMA LinkInvStep == TypeOK /\ StreamInv /\ LinkInv /\ [Next]_vars => LinkInv'
<1> SUFFICES ASSUME TypeOK, StreamInv, LinkInv, [Next]_vars PROVE LinkInv'
  OBVIOUS
<1>1. ASSUME UNCHANGED <<clients, peers, open, owner>> PROVE LinkInv'
  BY <1>1, ListsUnchanged DEF LinkInv, PeerTalkerStays
<1>2. ASSUME NEW a \in Stations, DisconnectStation(a) PROVE LinkInv'
  <2>1. FindClient(a) \subseteq StationClient
    <3> SUFFICES ASSUME NEW c \in clients, c.addr = a PROVE c \in StationClient
      BY DEF FindClient
    <3>1. c \in Client /\ c \notin PeerClient
      BY ClientFields, SocketsAssumption DEF TypeOK
    <3> QED BY <3>1, ClientFields
  <2>2. /\ clients' = clients \ (FindClient(a) \cup UNION {peers[p] : p \in {}})
        /\ UNCHANGED <<peers, open, owner>>
    BY <1>2 DEF DisconnectStation, RemoveClients, streamVars
  <2>3. peers' = [p \in Peers |-> IF p \in {} THEN {} ELSE peers[p]]
    BY <2>2 DEF TypeOK
  <2> QED BY <2>1, <2>2, <2>3, RemovalInv
<1>3. ASSUME NEW a \in Stations, PacketFromStation(a) PROVE LinkInv'
  BY <1>1, <1>2, <1>3, ConnectLinkInv, StreamFrameLinkInv, TalkersAreLinked
  DEF PacketFromStation, KeepaliveFromStation, streamVars
<1>4. ASSUME NEW p \in Peers, DisconnectPeer(p) PROVE LinkInv'
  <2>1. FindPeer(p) \in SUBSET Peers
    BY DEF FindPeer
  <2> QED BY <1>4, <2>1, RemovePeersLinkInv DEF DisconnectPeer, streamVars
<1>5. ASSUME NEW p \in Peers, PacketFromPeer(p) PROVE LinkInv'
  BY <1>1, <1>4, <1>5, AcknLinkInv, StreamFrameLinkInv, TalkersAreLinked
  DEF PacketFromPeer, KeepaliveFromPeer, streamVars
<1>6. CASE NothingToDo \/ KeepalivesNotDue \/ LinksNotDue \/ Tick \/ ReloadInterlinks
             \/ UNCHANGED vars
  BY <1>1, <1>6 DEF NothingToDo, KeepalivesNotDue, LinksNotDue, Tick, ReloadInterlinks,
                    linkVars, streamVars, vars
<1>7. CASE CheckStreamsTimeout
  <2>1. clients' = clients /\ peers' = peers
    BY <1>7 DEF CheckStreamsTimeout, linkVars
  <2>2. \A m \in Modules : open'[m] => open[m] /\ owner'[m] = owner[m]
    BY <1>7 DEF CheckStreamsTimeout, CloseStreams
  <2>3. PeersMatchClients' /\ OneClientPerStation'
    BY <2>1, ListsUnchanged
  <2>4. PeerTalkerStays'
    BY <2>1, <2>2 DEF LinkInv, PeerTalkerStays
  <2> QED BY <2>3, <2>4 DEF LinkInv
<1>8. CASE HandleKeepalives
  <2>1. SilentStations \subseteq StationClient
    <3> SUFFICES ASSUME NEW c \in clients, c.type \in Local PROVE c \in StationClient
      BY DEF SilentStations
    <3>1. c \in Client /\ c.type # "reflector"
      BY DEF TypeOK, Local
    <3> QED BY <3>1, ClientFields
  <2>2. SilentPeers \in SUBSET Peers /\ \A p \in SilentPeers : ~PeerIsTransmitting(p)
    BY DEF SilentPeers
  <2>3. /\ clients' = clients \ (SilentStations \cup UNION {peers[p] : p \in SilentPeers})
        /\ peers' = [p \in Peers |-> IF p \in SilentPeers THEN {} ELSE peers[p]]
        /\ UNCHANGED <<open, owner>>
    BY <1>8 DEF HandleKeepalives, streamVars
  <2> QED BY <2>1, <2>2, <2>3, RemovalInv
<1>9. CASE HandlePeerLinks
  <2>1. Unlisted \in SUBSET Peers
    BY DEF Unlisted
  <2> QED BY <1>9, <2>1, RemovePeersLinkInv DEF HandlePeerLinks, streamVars
<1> QED BY <1>3, <1>5, <1>6, <1>7, <1>8, <1>9 DEF Next, Task

\* The strengthened invariant of the protocol thread.
IInv == TypeOK /\ StreamInv /\ LinkInv

LEMMA Invariant == Spec => []IInv
<1>1. Init => StreamInv /\ LinkInv
  BY DEF Init, StreamInv, OwnersFit, TxIffOwner, DistinctSids,
         LinkInv, PeersMatchClients, OneClientPerStation, PeerTalkerStays
<1>2. QED
  BY <1>1, TypeCorrect, StreamInvStep, LinkInvStep, PTL DEF Spec, IInv

\* The client list and the peer list agree, a station is linked once, and a
\* reflector that talks stays linked, for any number of peers on any hosts and
\* any edits of the interlink file.
THEOREM LinksCorrect == Spec => [](PeersMatchClients /\ OneClientPerStation /\ PeerTalkerStays)
<1>1. IInv => PeersMatchClients /\ OneClientPerStation /\ PeerTalkerStays
  BY DEF IInv, LinkInv
<1> QED BY <1>1, Invariant, PTL

\* The keepalive pass removes nobody who owns an open stream.
THEOREM TalkersSpared == Spec => KeepaliveSparesTalkers
<1>1. ASSUME IInv, HandleKeepalives, NEW m \in Modules, open[m], owner[m] \in clients
      PROVE  owner[m] \in clients'
  <2>1. owner[m] \in tx
    BY <1>1 DEF IInv, StreamInv, TxIffOwner, TypeOK
  <2>2. owner[m] \notin SilentStations
    BY <2>1 DEF SilentStations
  <2>3. \A p \in SilentPeers : owner[m] \notin peers[p]
    BY <2>1 DEF SilentPeers, PeerIsTransmitting
  <2> QED BY <1>1, <2>2, <2>3 DEF HandleKeepalives
<1>2. IInv /\ [Next]_vars
        => [HandleKeepalives => \A m \in Modules : open[m] /\ owner[m] \in clients
                                                    => owner[m] \in clients']_vars
  BY <1>1
<1> QED BY <1>2, Invariant, PTL DEF Spec, KeepaliveSparesTalkers
=============================================================================
