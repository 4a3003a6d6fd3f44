--------------------------- MODULE Interlink_proofs ---------------------------
(***************************************************************************)
(* Type correctness of module Interlink, and that links agree with the     *)
(* files of both sides, for any number of reflectors and module lists.     *)
(***************************************************************************)
EXTENDS Interlink, TLAPS

\* An ACKN on its way from p[1] names what the file of p[1] has for p[2]: it was
\* sent in answer to a CONN that fitted this file.
AcknAgreed ==
  ~edited => \A p \in Pairs, mods \in ModuleLists :
               Packet("ACKN", mods) \in net[p] => file[p] = mods

\* LinkAgreed alone is not inductive: a link is made of an ACKN.
IInv == TypeOK /\ BusyIsLinked /\ AcknAgreed /\ LinkAgreed

----------------------------------------------------------------------------
LEMMA PairsBack ==
  ASSUME NEW p \in Pairs
  PROVE  /\ Back(p) \in Pairs /\ p = <<p[1], p[2]>>
         /\ p[1] \in Reflectors /\ p[2] \in Reflectors /\ p[1] # p[2]
         /\ Back(p) = <<p[2], p[1]>>
BY DEF Pairs, Back

LEMMA PairOf ==
  ASSUME NEW r \in Reflectors, NEW q \in Reflectors, r # q
  PROVE  <<r, q>> \in Pairs /\ <<q, r>> \in Pairs /\ Back(<<r, q>>) = <<q, r>>
BY DEF Pairs, Back

LEMMA PacketIs ==
  ASSUME NEW type, NEW mods
  PROVE  /\ Packet(type, mods).type = type /\ Packet(type, mods).mods = mods
         /\ type \in {"CONN", "ACKN"} /\ mods \in ModuleLists => Packet(type, mods) \in Message
         /\ type \in {"PING", "DISC"} /\ mods = None => Packet(type, mods) \in Message
BY DEF Packet, Message

LEMMA InitInv == Init => IInv
<1> SUFFICES ASSUME Init PROVE IInv
  OBVIOUS
<1>1. TypeOK
  <2>1. \A p \in Pairs : 0 \in 0..KeepaliveTimeout
    BY TimeoutAssumption
  <2>2. quiet \in [Pairs -> 0..KeepaliveTimeout]
    BY <2>1 DEF Init
  <2>3. /\ file \in [Pairs -> ModuleLists \cup {None}] /\ edited \in BOOLEAN
        /\ link \in [Pairs -> ModuleLists \cup {None}]
    BY DEF Init
  <2>4. net \in [Pairs -> SUBSET Message] /\ busy \in [Pairs -> BOOLEAN]
    BY DEF Init
  <2> QED
    BY <2>2, <2>3, <2>4 DEF TypeOK
<1>2. BusyIsLinked
  BY DEF Init, BusyIsLinked
<1>3. AcknAgreed
  BY DEF Init, AcknAgreed
<1>4. LinkAgreed
  BY DEF Init, LinkAgreed
<1> QED
  BY <1>1, <1>2, <1>3, <1>4 DEF IInv

\* A reflector that takes a packet off the net puts at most one ACKN on it.
LEMMA TypeConsumed ==
  ASSUME TypeOK, NEW p \in Pairs, NEW m
  PROVE  [net EXCEPT ![p] = @ \ {m}] \in [Pairs -> SUBSET Message]
BY DEF TypeOK

LEMMA ConnInv ==
  ASSUME IInv, NEW r \in Reflectors, NEW q \in Reflectors, r # q, NEW mods \in ModuleLists,
         ReceiveConn(r, q, mods)
  PROVE  IInv'
<1> DEFINE m == Packet("CONN", mods)
           a == Packet("ACKN", mods)
<1>1. <<r, q>> \in Pairs /\ <<q, r>> \in Pairs /\ <<r, q>> # <<q, r>>
  BY PairOf
<1>2. m \in Message /\ a \in Message /\ m # a
  BY PacketIs
<1>3. net \in [Pairs -> SUBSET Message]
  BY DEF IInv, TypeOK
<1>4. net' = [net EXCEPT ![<<q, r>>] = @ \ {m},
                         ![<<r, q>>] = IF Accepts(r, q, mods) THEN @ \cup {a} ELSE @]
  BY DEF ReceiveConn
<1>5. UNCHANGED <<file, edited, link, busy, quiet>>
  BY DEF ReceiveConn, files
<1>6. net' \in [Pairs -> SUBSET Message]
  BY <1>1, <1>2, <1>3, <1>4
<1>7. TypeOK'
  BY <1>5, <1>6 DEF IInv, TypeOK
<1>8. BusyIsLinked' /\ LinkAgreed'
  BY <1>5 DEF IInv, BusyIsLinked, LinkAgreed
<1>9. AcknAgreed'
  <2> SUFFICES ASSUME ~edited, NEW p \in Pairs, NEW n \in ModuleLists,
                      Packet("ACKN", n) \in net'[p]
               PROVE  file[p] = n
    BY <1>5 DEF AcknAgreed
  <2>1. CASE Packet("ACKN", n) \in net[p]
    BY <2>1 DEF IInv, AcknAgreed
  <2>2. CASE Packet("ACKN", n) \notin net[p]
    <3>1. p = <<r, q>> /\ Accepts(r, q, mods) /\ Packet("ACKN", n) = a
      BY <1>1, <1>3, <1>4, <2>2
    <3>2. n = mods
      BY <3>1, PacketIs
    <3> QED
      BY <3>1, <3>2 DEF Accepts
  <2> QED
    BY <2>1, <2>2
<1> QED
  BY <1>7, <1>8, <1>9 DEF IInv

\* Taking packets off the net takes no agreement away.
LEMMA AcknStays ==
  ASSUME IInv, UNCHANGED files, \A p \in Pairs : net'[p] \subseteq net[p]
  PROVE  AcknAgreed'
BY DEF IInv, AcknAgreed, files

LEMMA ConsumedInv ==
  ASSUME IInv, NEW r \in Reflectors, NEW q \in Reflectors, r # q, NEW m, Consumed(r, q, m)
  PROVE  /\ net' \in [Pairs -> SUBSET Message]
         /\ \A p \in Pairs : net'[p] \subseteq net[p]
<1>1. net \in [Pairs -> SUBSET Message] /\ <<q, r>> \in Pairs
  BY PairOf DEF IInv, TypeOK
<1> QED
  BY <1>1 DEF Consumed

LEMMA AcknInv ==
  ASSUME IInv, NEW r \in Reflectors, NEW q \in Reflectors, r # q, NEW mods \in ModuleLists,
         ReceiveAckn(r, q, mods)
  PROVE  IInv'
<1>1. <<r, q>> \in Pairs /\ <<q, r>> \in Pairs /\ Back(<<r, q>>) = <<q, r>>
  BY PairOf
<1>2. UNCHANGED <<file, edited, busy>>
  BY DEF ReceiveAckn, files
<1>3. net' \in [Pairs -> SUBSET Message] /\ AcknAgreed'
  BY <1>2, ConsumedInv, AcknStays DEF ReceiveAckn, files
<1>4. CASE Accepts(r, q, mods) /\ ~Linked(r, q)
  <2>1. /\ link' = [link EXCEPT ![<<r, q>>] = mods]
        /\ quiet' = [quiet EXCEPT ![<<r, q>>] = 0]
    BY <1>4 DEF ReceiveAckn
  <2>2. TypeOK'
    BY <1>1, <1>2, <1>3, <2>1, TimeoutAssumption DEF IInv, TypeOK
  <2>3. BusyIsLinked'
    BY <1>2, <2>1, NoneAssumption DEF IInv, TypeOK, BusyIsLinked
  <2>4. ~edited => file[<<q, r>>] = mods
    BY <1>1 DEF IInv, AcknAgreed, ReceiveAckn, Arrives
  <2>5. LinkAgreed'
    BY <1>1, <1>2, <2>1, <2>4 DEF IInv, TypeOK, LinkAgreed
  <2> QED
    BY <1>3, <2>2, <2>3, <2>5 DEF IInv
<1>5. CASE ~(Accepts(r, q, mods) /\ ~Linked(r, q))
  <2>1. UNCHANGED <<link, quiet>>
    BY <1>5 DEF ReceiveAckn
  <2> QED
    BY <1>2, <1>3, <2>1 DEF IInv, TypeOK, BusyIsLinked, LinkAgreed
<1> QED
  BY <1>4, <1>5

\* Whoever is not transmitting may be dropped.
LEMMA DroppedInv ==
  ASSUME IInv, NEW gone \in SUBSET Pairs, \A p \in gone : ~busy[p],
         link' = [p \in Pairs |-> IF p \in gone THEN None ELSE link[p]],
         quiet' \in [Pairs -> 0..KeepaliveTimeout],
         UNCHANGED <<files, busy>>
  PROVE  /\ link' \in [Pairs -> ModuleLists \cup {None}]
         /\ BusyIsLinked' /\ LinkAgreed'
<1>1. link' \in [Pairs -> ModuleLists \cup {None}]
  BY DEF IInv, TypeOK
<1>2. BusyIsLinked'
  BY DEF IInv, BusyIsLinked
<1>3. LinkAgreed'
  BY DEF IInv, LinkAgreed, files
<1> QED
  BY <1>1, <1>2, <1>3

LEMMA RemoveInv ==
  ASSUME IInv, NEW r \in Reflectors, NEW Q \in SUBSET Others(r), RemovePeers(r, Q),
         UNCHANGED <<files, busy>>
  PROVE  /\ link' \in [Pairs -> ModuleLists \cup {None}]
         /\ quiet' \in [Pairs -> 0..KeepaliveTimeout]
         /\ BusyIsLinked' /\ LinkAgreed'
<1> DEFINE gone == {<<r, q>> : q \in {q \in Q : ~busy[<<r, q>>]}}
<1>1. gone \in SUBSET Pairs /\ \A p \in gone : ~busy[p]
  <2>1. \A q \in Q : <<r, q>> \in Pairs
    BY PairOf DEF Others
  <2>2. gone \in SUBSET Pairs
    BY <2>1
  <2>3. \A p \in gone : ~busy[p]
    BY Zenon
  <2> QED
    BY <2>2, <2>3
<1>2. /\ link' = [p \in Pairs |-> IF p \in gone THEN None ELSE link[p]]
      /\ quiet' = [p \in Pairs |-> IF p \in gone THEN 0 ELSE quiet[p]]
  BY DEF RemovePeers
<1>3. quiet' \in [Pairs -> 0..KeepaliveTimeout]
  <2> HIDE DEF gone
  <2> QED
    BY <1>2, TimeoutAssumption DEF IInv, TypeOK
<1> HIDE DEF gone
<1> QED
  BY <1>1, <1>2, <1>3, DroppedInv

\* What a reflector sends of its own accord is no ACKN.
LEMMA SendInv ==
  ASSUME IInv, NEW r \in Reflectors, NEW sent,
         \A q \in Others(r) : /\ sent[q] \in SUBSET Message
                              /\ \A mods \in ModuleLists : Packet("ACKN", mods) \notin sent[q],
         Send(r, sent), UNCHANGED files
  PROVE  net' \in [Pairs -> SUBSET Message] /\ AcknAgreed'
<1>1. \A p \in Pairs : p[1] = r => p[2] \in Others(r)
  BY DEF Pairs, Others
<1>2. net' = [p \in Pairs |-> IF p[1] = r THEN net[p] \cup sent[p[2]] ELSE net[p]]
  BY DEF Send
<1>3. \A p \in Pairs : net[p] \in SUBSET Message
  BY DEF IInv, TypeOK
<1>4. net' \in [Pairs -> SUBSET Message]
  BY <1>1, <1>2, <1>3
<1>5. \A p \in Pairs, mods \in ModuleLists :
        Packet("ACKN", mods) \in net'[p] => Packet("ACKN", mods) \in net[p]
  BY <1>1, <1>2
<1> QED
  BY <1>4, <1>5 DEF IInv, AcknAgreed, files

LEMMA KeepalivesInv ==
  ASSUME IInv, NEW r \in Reflectors, HandleKeepalives(r)
  PROVE  IInv'
<1> DEFINE sent == [q \in Others(r) |-> {m \in {Ping} : Linked(r, q)}
                                          \cup {m \in {Disc} : Silent(r, q)}]
           gone == {p \in Pairs : p[1] = r /\ Silent(r, p[2])}
<1>1. UNCHANGED <<files, busy>> /\ Send(r, sent)
  BY DEF HandleKeepalives
<1>2. Ping \in Message /\ Disc \in Message
      /\ \A mods \in ModuleLists : Packet("ACKN", mods) \notin {Ping, Disc}
  BY PacketIs DEF Ping, Disc
<1>3. \A q \in Others(r) : sent[q] \subseteq {Ping, Disc}
  OBVIOUS
<1>4. net' \in [Pairs -> SUBSET Message] /\ AcknAgreed'
  <2> HIDE DEF sent
  <2>1. \A q \in Others(r) : /\ sent[q] \in SUBSET Message
                             /\ \A mods \in ModuleLists : Packet("ACKN", mods) \notin sent[q]
    BY <1>2, <1>3
  <2> QED
    BY <1>1, <2>1, SendInv
<1>5. gone \in SUBSET Pairs /\ \A p \in gone : ~busy[p]
  BY PairsBack DEF Silent
<1>6. link' = [p \in Pairs |-> IF p \in gone THEN None ELSE link[p]]
  BY DEF HandleKeepalives
<1>7. quiet' \in [Pairs -> 0..KeepaliveTimeout]
  BY TimeoutAssumption DEF HandleKeepalives, IInv, TypeOK
<1>8. link' \in [Pairs -> ModuleLists \cup {None}] /\ BusyIsLinked' /\ LinkAgreed'
  <2> HIDE DEF gone
  <2> QED
    BY <1>1, <1>5, <1>6, <1>7, DroppedInv
<1> QED
  BY <1>1, <1>4, <1>7, <1>8 DEF IInv, TypeOK, files

LEMMA LinksInv ==
  ASSUME IInv, NEW r \in Reflectors, HandlePeerLinks(r)
  PROVE  IInv'
<1> DEFINE conns(q) == {m \in {Packet("CONN", file[<<r, q>>])} : Unlinked(r, q)}
           sent == [q \in Others(r) |-> {m \in {Disc} : Unlisted(r, q)} \cup conns(q)]
<1>1. UNCHANGED <<files, busy>> /\ Send(r, sent)
  BY DEF HandlePeerLinks
<1>2. RemovePeers(r, {q \in Others(r) : Unlisted(r, q)})
  BY DEF HandlePeerLinks
<1>3. Disc \in Message /\ \A mods \in ModuleLists : Packet("ACKN", mods) # Disc
  BY PacketIs DEF Disc
<1>4. ASSUME NEW q \in Others(r)
      PROVE  /\ conns(q) \in SUBSET Message
             /\ \A mods \in ModuleLists : Packet("ACKN", mods) \notin conns(q)
  <2>1. Unlinked(r, q) => file[<<r, q>>] \in ModuleLists
    BY PairOf DEF Others, Unlinked, IInv, TypeOK
  <2> QED
    BY <2>1, PacketIs
<1>5. \A q \in Others(r) : /\ sent[q] \in SUBSET Message
                           /\ \A mods \in ModuleLists : Packet("ACKN", mods) \notin sent[q]
  <2> HIDE DEF conns
  <2> QED
    BY <1>3, <1>4
<1>6. net' \in [Pairs -> SUBSET Message] /\ AcknAgreed'
  <2> HIDE DEF sent
  <2> QED
    BY <1>1, <1>5, SendInv
<1>7. /\ link' \in [Pairs -> ModuleLists \cup {None}]
      /\ quiet' \in [Pairs -> 0..KeepaliveTimeout]
      /\ BusyIsLinked' /\ LinkAgreed'
  BY <1>1, <1>2, RemoveInv
<1> QED
  BY <1>1, <1>6, <1>7 DEF IInv, TypeOK, files

LEMMA ReceiveInv ==
  ASSUME IInv, NEW r \in Reflectors, NEW q \in Reflectors, r # q, NEW m \in Message,
         Receive(r, q, m)
  PROVE  IInv'
<1>1. ASSUME m.type = "CONN", ReceiveConn(r, q, m.mods) PROVE IInv'
  BY <1>1, ConnInv DEF Message
<1>2. ASSUME m.type = "ACKN", ReceiveAckn(r, q, m.mods) PROVE IInv'
  BY <1>2, AcknInv DEF Message
<1>3. ASSUME ReceivePing(r, q) PROVE IInv'
  <2>1. UNCHANGED <<files, link, busy>> /\ Consumed(r, q, Ping)
    BY <1>3 DEF ReceivePing
  <2>2. net' \in [Pairs -> SUBSET Message] /\ AcknAgreed'
    BY <2>1, ConsumedInv, AcknStays
  <2>3. quiet' \in [Pairs -> 0..KeepaliveTimeout]
    <3>1. quiet \in [Pairs -> 0..KeepaliveTimeout] /\ 0 \in 0..KeepaliveTimeout
      BY TimeoutAssumption DEF IInv, TypeOK
    <3>2. quiet' = [quiet EXCEPT ![<<r, q>>] = 0] \/ quiet' = quiet
      BY <1>3 DEF ReceivePing
    <3> QED
      BY <3>1, <3>2
  <2> QED
    BY <2>1, <2>2, <2>3 DEF IInv, TypeOK, BusyIsLinked, LinkAgreed, files
<1>4. ASSUME ReceiveDisc(r, q) PROVE IInv'
  <2>1. UNCHANGED <<files, busy>> /\ Consumed(r, q, Disc) /\ RemovePeers(r, {q})
    BY <1>4 DEF ReceiveDisc
  <2>2. net' \in [Pairs -> SUBSET Message] /\ AcknAgreed'
    BY <2>1, ConsumedInv, AcknStays
  <2>3. {q} \in SUBSET Others(r)
    BY DEF Others
  <2>4. /\ link' \in [Pairs -> ModuleLists \cup {None}]
        /\ quiet' \in [Pairs -> 0..KeepaliveTimeout]
        /\ BusyIsLinked' /\ LinkAgreed'
    BY <2>1, <2>3, RemoveInv
  <2> QED
    BY <2>1, <2>2, <2>4 DEF IInv, TypeOK, files
<1> QED
  BY <1>1, <1>2, <1>3, <1>4 DEF Receive

LEMMA EnvironmentInv ==
  ASSUME IInv, NEW r \in Reflectors, NEW q \in Reflectors, r # q
  PROVE  /\ Talk(r, q) => IInv'
         /\ EditFile(r, q) => IInv'
         /\ \A m \in Message : Lose(r, q, m) => IInv'
<1>1. ASSUME Talk(r, q) PROVE IInv'
  <2>1. UNCHANGED <<files, link, quiet, net>> /\ Linked(r, q)
        /\ busy' = [busy EXCEPT ![<<r, q>>] = ~@]
    BY <1>1 DEF Talk
  <2>2. TypeOK'
    BY <2>1 DEF IInv, TypeOK, files
  <2>3. BusyIsLinked'
    BY <2>1 DEF IInv, TypeOK, BusyIsLinked, Linked
  <2>4. AcknAgreed' /\ LinkAgreed'
    BY <2>1 DEF IInv, AcknAgreed, LinkAgreed, files
  <2> QED
    BY <2>2, <2>3, <2>4 DEF IInv
<1>2. ASSUME EditFile(r, q) PROVE IInv'
  BY <1>2 DEF EditFile, IInv, TypeOK, BusyIsLinked, AcknAgreed, LinkAgreed
<1>3. ASSUME NEW m \in Message, Lose(r, q, m) PROVE IInv'
  <2>1. UNCHANGED <<files, link, busy, quiet>> /\ Consumed(r, q, m)
    BY <1>3 DEF Lose
  <2>2. net' \in [Pairs -> SUBSET Message] /\ AcknAgreed'
    BY <2>1, ConsumedInv, AcknStays
  <2> QED
    BY <2>1, <2>2 DEF IInv, TypeOK, BusyIsLinked, LinkAgreed, files
<1> QED
  BY <1>1, <1>2, <1>3

LEMMA RestartInv ==
  ASSUME IInv, NEW r \in Reflectors, Restart(r)
  PROVE  IInv'
<1>1. TypeOK'
  BY TimeoutAssumption DEF Restart, IInv, TypeOK, files
<1>2. BusyIsLinked'
  <2> SUFFICES ASSUME NEW p \in Pairs, busy'[p] PROVE link'[p] # None
    BY DEF BusyIsLinked
  <2>1. p[1] # r /\ busy[p]
    BY DEF Restart
  <2> QED
    BY <2>1 DEF Restart, IInv, BusyIsLinked
<1>3. AcknAgreed' /\ LinkAgreed'
  BY DEF Restart, IInv, AcknAgreed, LinkAgreed, files
<1> QED
  BY <1>1, <1>2, <1>3 DEF IInv

LEMMA TickInv ==
  ASSUME IInv, Tick
  PROVE  IInv'
<1>1. UNCHANGED <<files, link, busy, net>>
  BY DEF Tick
<1>2. quiet' \in [Pairs -> 0..KeepaliveTimeout]
  BY TimeoutAssumption DEF Tick, IInv, TypeOK
<1> QED
  BY <1>1, <1>2 DEF IInv, TypeOK, BusyIsLinked, AcknAgreed, LinkAgreed, files

LEMMA IInvStep == IInv /\ [Next]_vars => IInv'
<1> SUFFICES ASSUME IInv, [Next]_vars PROVE IInv'
  OBVIOUS
<1>1. ASSUME NEW p \in Pairs, Talk(p[1], p[2]) \/ EditFile(p[1], p[2]) PROVE IInv'
  BY <1>1, PairsBack, EnvironmentInv
<1>2. ASSUME NEW p \in Pairs, NEW m \in Message, Receive(p[1], p[2], m) PROVE IInv'
  BY <1>2, PairsBack, ReceiveInv
<1>3. ASSUME NEW p \in Pairs, NEW m \in Message, Lose(p[1], p[2], m) PROVE IInv'
  BY <1>3, PairsBack, EnvironmentInv
<1>4. ASSUME NEW r \in Reflectors, HandleKeepalives(r) PROVE IInv'
  BY <1>4, KeepalivesInv
<1>5. ASSUME NEW r \in Reflectors, HandlePeerLinks(r) PROVE IInv'
  BY <1>5, LinksInv
<1>6. ASSUME NEW r \in Reflectors, Restart(r) PROVE IInv'
  BY <1>6, RestartInv
<1>7. ASSUME Tick PROVE IInv'
  BY <1>7, TickInv
<1>8. ASSUME UNCHANGED vars PROVE IInv'
  BY <1>8 DEF vars, files, IInv, TypeOK, BusyIsLinked, AcknAgreed, LinkAgreed
<1> QED
  BY <1>1, <1>2, <1>3, <1>4, <1>5, <1>6, <1>7, <1>8 DEF Next

LEMMA Invariant == Spec => []IInv
<1> QED
  BY InitInv, IInvStep, PTL DEF Spec

\* The reflectors' lists, timers and packets keep their types.
THEOREM TypeCorrect == Spec => []TypeOK
<1>1. IInv => TypeOK
  BY DEF IInv
<1> QED
  BY <1>1, Invariant, PTL

\* Only a linked peer transmits: a stream's peer is never dropped under it.
THEOREM TalkersLinked == Spec => []BusyIsLinked
<1>1. IInv => BusyIsLinked
  BY DEF IInv
<1> QED
  BY <1>1, Invariant, PTL

\* While no file is changed, a link is one that the files of both sides want, with
\* the same modules, whatever is lost, reordered or restarted.
THEOREM LinksAgreed == Spec => []LinkAgreed
<1>1. IInv => LinkAgreed
  BY DEF IInv
<1> QED
  BY <1>1, Invariant, PTL
=============================================================================
