------------------------------ MODULE Interlink ------------------------------
(***************************************************************************)
(* Interlinking: what several reflectors that run this program make of     *)
(* each other's CONN, ACKN, PING and DISC packets (the interlink cases of  *)
(* CProtocol::Task, GetInterlinkPacket, HandleKeepalives and               *)
(* HandlePeerLinks), over UDP, which loses and reorders them.              *)
(*                                                                         *)
(* Each reflector keeps its own view of a link.  It links another one when *)
(* an ACKN from it arrives, and it answers a CONN without linking anybody: *)
(* the two sides of a link come and go separately.                         *)
(***************************************************************************)
EXTENDS Naturals

CONSTANTS
  Reflectors,
  ModuleLists,       \* the lists of shared modules an interlink file may hold
  None,              \* not in the file; not linked
  KeepaliveTimeout

ASSUME NoneAssumption == None \notin ModuleLists
ASSUME TimeoutAssumption == KeepaliveTimeout \in Nat

Pairs == {p \in Reflectors \X Reflectors : p[1] # p[2]}
Back(p) == <<p[2], p[1]>>
Message == [type : {"CONN", "ACKN"}, mods : ModuleLists]
             \cup [type : {"PING", "DISC"}, mods : {None}]

VARIABLES
  file,    \* g_Interlinks of <<r, q>>: the modules r's file wants to share with q
  link,    \* CPeers: the modules of r's peer q, None if r is not linked to q
  busy,    \* r's peer q is transmitting: it owns a stream of r
  quiet,   \* time since r last heard a keepalive from q
  net,     \* packets on their way from r to q
  edited   \* some file has been changed since the start

files == <<file, edited>>
vars == <<files, link, busy, quiet, net>>

Linked(r, q) == link[<<r, q>>] # None
Others(r) == Reflectors \ {r}

\* Mutant of Accepts: any reflector is welcome.
AcceptsAnyone(r, q, mods) == r # q /\ mods # None

\* CONN and ACKN count only if the sender is in the file, with the same modules
\* (GetInterlinkPacket).
Accepts(r, q, mods) == file[<<r, q>>] = mods

\* Packets r sends: sent[q] is the set of packets for q.
Send(r, sent) ==
  net' = [p \in Pairs |-> IF p[1] = r THEN net[p] \cup sent[p[2]] ELSE net[p]]

Packet(type, mods) == [type |-> type, mods |-> mods]
Ping == Packet("PING", None)
Disc == Packet("DISC", None)

Init ==
  /\ file \in [Pairs -> ModuleLists \cup {None}] /\ edited = FALSE
  /\ link = [p \in Pairs |-> None]
  /\ busy = [p \in Pairs |-> FALSE]
  /\ quiet = [p \in Pairs |-> 0]
  /\ net = [p \in Pairs |-> {}]

----------------------------------------------------------------------------
(* A packet from q arrives at r.                                           *)

Arrives(r, q, m) == m \in net[<<q, r>>]
Consumed(r, q, m) == net' = [net EXCEPT ![<<q, r>>] = @ \ {m}]

\* Mutant of ReceiveConn: only who is a peer already is answered.
ReceiveConnOfPeer(r, q, mods) ==
  /\ Arrives(r, q, Packet("CONN", mods))
  /\ net' = [net EXCEPT ![<<q, r>>] = @ \ {Packet("CONN", mods)},
                        ![<<r, q>>] = IF Accepts(r, q, mods) /\ Linked(r, q)
                                      THEN @ \cup {Packet("ACKN", mods)} ELSE @]
  /\ UNCHANGED <<files, link, busy, quiet>>

\* CONN is acknowledged or, if it does not fit the file, left unanswered.
ReceiveConn(r, q, mods) ==
  /\ Arrives(r, q, Packet("CONN", mods))
  /\ net' = [net EXCEPT ![<<q, r>>] = @ \ {Packet("CONN", mods)},
                        ![<<r, q>>] = IF Accepts(r, q, mods)
                                      THEN @ \cup {Packet("ACKN", mods)} ELSE @]
  /\ UNCHANGED <<files, link, busy, quiet>>

\* ACKN makes q a peer, whether r has asked or not.
ReceiveAckn(r, q, mods) ==
  /\ Arrives(r, q, Packet("ACKN", mods))
  /\ Consumed(r, q, Packet("ACKN", mods))
  /\ IF Accepts(r, q, mods) /\ ~Linked(r, q)
     THEN /\ link' = [link EXCEPT ![<<r, q>>] = mods]
          /\ quiet' = [quiet EXCEPT ![<<r, q>>] = 0]
     ELSE UNCHANGED <<link, quiet>>
  /\ UNCHANGED <<files, busy>>

ReceivePing(r, q) ==
  /\ Arrives(r, q, Ping)
  /\ Consumed(r, q, Ping)
  /\ quiet' = IF Linked(r, q) THEN [quiet EXCEPT ![<<r, q>>] = 0] ELSE quiet
  /\ UNCHANGED <<files, link, busy>>

\* CPeers::RemovePeer for every peer of Q: one that is transmitting stays.
RemovePeers(r, Q) ==
  LET gone == {<<r, q>> : q \in {q \in Q : ~busy[<<r, q>>]}}
  IN  /\ link' = [p \in Pairs |-> IF p \in gone THEN None ELSE link[p]]
      /\ quiet' = [p \in Pairs |-> IF p \in gone THEN 0 ELSE quiet[p]]

ReceiveDisc(r, q) ==
  /\ Arrives(r, q, Disc)
  /\ Consumed(r, q, Disc)
  /\ RemovePeers(r, {q})
  /\ UNCHANGED <<files, busy>>

Receive(r, q, m) ==
  \/ m.type = "CONN" /\ ReceiveConn(r, q, m.mods)
  \/ m.type = "ACKN" /\ ReceiveAckn(r, q, m.mods)
  \/ m = Ping /\ ReceivePing(r, q)
  \/ m = Disc /\ ReceiveDisc(r, q)

Lose(r, q, m) == Arrives(r, q, m) /\ Consumed(r, q, m) /\ UNCHANGED <<files, link, busy, quiet>>

----------------------------------------------------------------------------
(* What a reflector does every 3 seconds, and every 10.                    *)

\* Mutant of Silent: the test for transmitting is the wrong way round.
SilentTalker(r, q) == Linked(r, q) /\ busy[<<r, q>>] /\ quiet[<<r, q>>] >= KeepaliveTimeout

Silent(r, q) == Linked(r, q) /\ ~busy[<<r, q>>] /\ quiet[<<r, q>>] >= KeepaliveTimeout
HandleKeepalives(r) ==
  /\ Send(r, [q \in Others(r) |-> {m \in {Ping} : Linked(r, q)} \cup {m \in {Disc} : Silent(r, q)}])
  /\ link' = [p \in Pairs |-> IF p[1] = r /\ Silent(r, p[2]) THEN None ELSE link[p]]
  /\ quiet' = [p \in Pairs |-> IF p[1] = r /\ (busy[p] \/ Silent(r, p[2])) THEN 0 ELSE quiet[p]]
  /\ UNCHANGED <<files, busy>>

\* Mutant of Unlisted: a peer is looked up in its own list, not in the file.
UnlistedNever(r, q) == Linked(r, q) /\ link[<<r, q>>] = None

\* Peers that left the file are dropped, those of the file that are not linked
\* are sent a CONN.
Unlisted(r, q) == Linked(r, q) /\ file[<<r, q>>] = None
Unlinked(r, q) == file[<<r, q>>] # None /\ ~Linked(r, q)
HandlePeerLinks(r) ==
  /\ RemovePeers(r, {q \in Others(r) : Unlisted(r, q)})
  /\ Send(r, [q \in Others(r) |->
                {m \in {Disc} : Unlisted(r, q)}
                  \cup {m \in {Packet("CONN", file[<<r, q>>])} : Unlinked(r, q)}])
  /\ UNCHANGED <<files, busy>>

----------------------------------------------------------------------------
(* The environment.                                                        *)

\* Streams from a peer come and go (module Protocol).
Talk(r, q) == /\ Linked(r, q)
              /\ busy' = [busy EXCEPT ![<<r, q>>] = ~@]
              /\ UNCHANGED <<files, link, quiet, net>>

EditFile(r, q) == /\ \E f \in ModuleLists \cup {None} : file' = [file EXCEPT ![<<r, q>>] = f]
                  /\ edited' = TRUE
                  /\ UNCHANGED <<link, busy, quiet, net>>

\* The reflector stops, or dies, and is started again: nothing of it is saved.
Restart(r) ==
  /\ link' = [p \in Pairs |-> IF p[1] = r THEN None ELSE link[p]]
  /\ busy' = [p \in Pairs |-> p[1] # r /\ busy[p]]
  /\ quiet' = [p \in Pairs |-> IF p[1] = r THEN 0 ELSE quiet[p]]
  /\ UNCHANGED <<files, net>>

Tick == /\ quiet' = [p \in Pairs |-> IF link[p] # None /\ quiet[p] < KeepaliveTimeout
                                     THEN quiet[p] + 1 ELSE quiet[p]]
        /\ UNCHANGED <<files, link, busy, net>>

Next ==
  \/ \E p \in Pairs : \/ Talk(p[1], p[2]) \/ EditFile(p[1], p[2])
                      \/ \E m \in Message : Receive(p[1], p[2], m) \/ Lose(p[1], p[2], m)
  \/ \E r \in Reflectors : HandleKeepalives(r) \/ HandlePeerLinks(r) \/ Restart(r)
  \/ Tick

Spec == Init /\ [][Next]_vars

\* Both periodic tasks of a reflector go on, and so does time; a CONN or ACKN that
\* is sent again and again arrives again and again.  PING and DISC may all be lost.
FairSpec ==
  /\ Spec
  /\ \A r \in Reflectors : WF_vars(HandleKeepalives(r)) /\ WF_vars(HandlePeerLinks(r))
  /\ WF_vars(Tick)
  /\ \A p \in Pairs, mods \in ModuleLists :
       SF_vars(ReceiveConn(p[1], p[2], mods)) /\ SF_vars(ReceiveAckn(p[1], p[2], mods))

----------------------------------------------------------------------------
(* Properties.                                                             *)

TypeOK ==
  /\ file \in [Pairs -> ModuleLists \cup {None}]
  /\ link \in [Pairs -> ModuleLists \cup {None}]
  /\ busy \in [Pairs -> BOOLEAN]
  /\ quiet \in [Pairs -> 0..KeepaliveTimeout]
  /\ net \in [Pairs -> SUBSET Message]
  /\ edited \in BOOLEAN

\* A peer that is not linked has no stream: RemovePeer spares who transmits.
BusyIsLinked == \A p \in Pairs : busy[p] => link[p] # None

\* As long as no file changes, a reflector is linked only to one whose own file
\* has it with the same modules.
LinkAgreed ==
  ~edited => \A p \in Pairs : link[p] # None => file[Back(p)] = link[p]

\* Two reflectors whose files agree link again and again, each in its own view,
\* whatever was lost or restarted before.
LinkRecovers ==
  \A p \in Pairs :
    <>[](file[p] # None /\ file[Back(p)] = file[p]) => []<>(link[p] # None)

\* A link needs both files: when one side strikes the other from its file, the
\* link ends on both sides and does not come back.
LinkNeedsBoth ==
  \A p \in Pairs :
    <>[](file[p] = None /\ ~busy[p] /\ ~busy[Back(p)])
      => <>[](link[p] = None /\ link[Back(p)] = None)

\* Nobody stays linked to a reflector that is not linked to it.
OneSidedLinkEnds ==
  \A p \in Pairs :
    <>[](link[Back(p)] = None /\ ~busy[p]) => []<>(link[p] = None)

=============================================================================
