---------------------------- MODULE Relay_proofs ----------------------------
(***************************************************************************)
(* For any number of clients in any order of the list, any frames and any  *)
(* modules: what each client receives is made for it, everybody for whom   *)
(* it is meant receives it once, what a parrot will play is clean, and the *)
(* users are listed as they were heard.                                    *)
(***************************************************************************)
EXTENDS Relay, FrameType_proofs, SequenceTheorems, FiniteSetTheorems, TLAPS

\* f is a record with the fields of a frame; its values do not matter here.
IsFrame(f) == f = [stream |-> f.stream, size |-> f.size, dst |-> f.dst, crc |-> f.crc,
                   type |-> f.type, last |-> f.last, mod |-> f.mod, heard |-> f.heard]

\* What every branch of SendToClients may rely on, whoever was served before: the
\* kind of the frame, the size of a packet, and a checksum that fits the DST.  The
\* size of a stream's frame and its DST it may not.
BufferFits ==
  ~Idle => /\ IsFrame(packet) /\ packet.stream = came.stream
           /\ ~packet.stream => packet.size = came.size
           /\ came.crc = came.dst => packet.crc = packet.dst

\* Nothing is left over from the frame before.
NothingSent == Idle => sent = {}

\* RightForReceiver, but for the DST of those who are not addressed.
Right(s) ==
  LET f == s.frame
      length == IF f.stream THEN 54 ELSE came.size
  IN  /\ Local(s.to) => f.size = length /\ s.trailer = <<>>
      /\ Kind(s.to) = "reflector" => f.size = length + 1 /\ s.trailer = <<from.mod>>
      /\ Kind(s.to) = "legacy" => f.size = 55 /\ s.trailer = <<1>> /\ f.dst = s.to.host
      /\ came.crc = came.dst => f.crc = f.dst

Fits == \A s \in sent : Right(s)

IInv == BufferFits /\ NothingSent /\ Fits

----------------------------------------------------------------------------
LEMMA InitInv == Init => IInv
BY DEF Init, IInv, BufferFits, NothingSent, Fits, Right, Idle

\* While a frame goes around, the other actions wait.
LEMMA NotSending ==
  ASSUME IInv, Idle, UNCHANGED frameVars
  PROVE  IInv'
BY DEF IInv, BufferFits, NothingSent, Fits, Right, Idle, frameVars, Local, Kind

\* A frame is trimmed and addressed before it is sent around.
LEMMA RelayInv ==
  ASSUME IInv, NEW h \in Hosts, Relay(h)
  PROVE  IInv'
<1>1. PICK f \in Frames : /\ came' = Trimmed(h, f) /\ packet' = Readdressed(came')
                          /\ Idle /\ next' = 1 /\ sent' = sent
  BY DEF Relay, Accepted
<1>2. f \in Frame
  BY <1>1, FramesAssumption
<1>3. IsFrame(f)
  BY <1>2 DEF Frame, IsFrame
<1>4. IsFrame(came')
  BY <1>1, <1>3 DEF Trimmed, IsFrame
<1>5. /\ IsFrame(packet') /\ packet'.stream = came'.stream /\ packet'.size = came'.size
      /\ came'.crc = came'.dst => packet'.crc = packet'.dst
  BY <1>1, <1>4 DEF Readdressed, IsFrame
<1>6. sent' = {}
  BY <1>1 DEF IInv, NothingSent
<1>7. BufferFits' /\ NothingSent' /\ Fits'
  BY <1>1, <1>5, <1>6 DEF BufferFits, NothingSent, Fits, Right, Idle, IsFrame
<1> QED
  BY <1>7 DEF IInv

\* One step of SendToClients: the buffer still fits, and what is sent is right.
LEMMA SendInv ==
  ASSUME IInv, Sending, BufferFits', came' = came, from' = from, next' = next + 1,
         NEW m, Right(m), sent' = sent \cup {m}
  PROVE  IInv'
<1>1. ~Idle'
  BY DEF Idle, Sending
<1>2. \A s : Right(s)' <=> Right(s)
  BY DEF Right, Local, Kind
<1>3. \A s \in sent' : Right(s)
  BY DEF IInv, Fits
<1>4. Fits'
  BY <1>2, <1>3 DEF Fits
<1> QED
  BY <1>1, <1>4 DEF IInv, NothingSent

\* What a branch of SendToClients finds in the buffer.
LEMMA WhileSending ==
  ASSUME IInv, Sending
  PROVE  /\ ~Idle
         /\ IsFrame(packet) /\ packet.stream = came.stream
         /\ ~packet.stream => packet.size = came.size
         /\ came.crc = came.dst => packet.crc = packet.dst
<1>1. ~Idle
  BY DEF Sending, Idle
<1> QED
  BY <1>1 DEF IInv, BufferFits

\* The two ways in which SendToClients changes its buffer.
WithSize(f, n) == [f EXCEPT !.size = n]
WithDst(f, d) == [f EXCEPT !.dst = d, !.crc = d]

\* Of either it leaves what is passed on as it came.
Same(f, g) == f.stream = g.stream /\ f.type = g.type /\ f.last = g.last /\ f.heard = g.heard

LEMMA Resized ==
  ASSUME NEW f, IsFrame(f), NEW n
  PROVE  LET g == WithSize(f, n)
         IN  /\ IsFrame(g) /\ g.stream = f.stream /\ Same(g, f)
             /\ g.dst = f.dst /\ g.crc = f.crc /\ g.size = n
<1>1. WithSize(f, n) = [stream |-> f.stream, size |-> n, dst |-> f.dst, crc |-> f.crc,
           type |-> f.type, last |-> f.last, mod |-> f.mod, heard |-> f.heard]
  BY DEF IsFrame, WithSize
<1> QED
  BY <1>1 DEF IsFrame, Same

LEMMA Addressed ==
  ASSUME NEW f, IsFrame(f), NEW d
  PROVE  LET g == WithDst(f, d)
         IN  /\ IsFrame(g) /\ g.stream = f.stream /\ Same(g, f)
             /\ g.dst = d /\ g.crc = d /\ g.size = f.size
<1> DEFINE h == [f EXCEPT !.dst = d]
<1>1. h = [stream |-> f.stream, size |-> f.size, dst |-> d, crc |-> f.crc,
           type |-> f.type, last |-> f.last, mod |-> f.mod, heard |-> f.heard]
  BY DEF IsFrame
<1>2. WithDst(f, d) = [h EXCEPT !.crc = d]
  BY DEF WithDst
<1> HIDE DEF h
<1>3. WithDst(f, d) =
        [stream |-> f.stream, size |-> f.size, dst |-> d, crc |-> d,
         type |-> f.type, last |-> f.last, mod |-> f.mod, heard |-> f.heard]
  BY <1>1, <1>2
<1> QED
  BY <1>3 DEF IsFrame, Same

LEMMA ToLegacyInv ==
  ASSUME IInv, ToLegacy
  PROVE  IInv'
<1> DEFINE addressed == WithSize(WithDst(packet, This.host), 55)
           m == [to |-> This, frame |-> addressed, trailer |-> <<1>>]
<1>1. Sending /\ Kind(This) = "legacy"
  BY DEF ToLegacy
<1>2. packet.stream
  BY DEF ToLegacy
<1>3. IsFrame(packet) /\ packet.stream = came.stream
  BY <1>1, WhileSending
<1>4. packet' = WithDst(addressed, came.dst) /\ sent' = sent \cup {m}
  BY DEF ToLegacy, Send, WithSize, WithDst
<1>5. came' = came /\ from' = from /\ next' = next + 1
  BY DEF ToLegacy, Advance
<1>6. /\ IsFrame(addressed) /\ addressed.stream = packet.stream
      /\ addressed.dst = This.host /\ addressed.crc = This.host /\ addressed.size = 55
  <2>1. LET h == WithDst(packet, This.host)
        IN  IsFrame(h) /\ h.stream = packet.stream /\ h.dst = This.host /\ h.crc = This.host
    BY <1>3, Addressed
  <2> QED
    BY <2>1, Resized
<1>7. m.to = This /\ m.frame = addressed /\ m.trailer = <<1>>
  OBVIOUS
<1> HIDE DEF addressed, m
<1>8. Right(m)
  BY <1>1, <1>6, <1>7 DEF Right, Local
<1>9. /\ IsFrame(packet') /\ packet'.stream = addressed.stream
      /\ packet'.crc = packet'.dst
  BY <1>4, <1>6, Addressed
<1>10. BufferFits'
  BY <1>2, <1>3, <1>5, <1>6, <1>9 DEF BufferFits
<1> QED
  BY <1>1, <1>4, <1>5, <1>8, <1>10, SendInv

LEMMA ToReflectorInv ==
  ASSUME IInv, ToReflector
  PROVE  IInv'
<1> DEFINE m == [to |-> This, frame |-> packet', trailer |-> <<from.mod>>]
<1>1. Sending /\ Kind(This) = "reflector"
  BY DEF ToReflector
<1>2. packet.stream
  BY DEF ToReflector
<1>3. /\ IsFrame(packet) /\ packet.stream = came.stream
      /\ came.crc = came.dst => packet.crc = packet.dst
  BY <1>1, WhileSending
<1>4. packet' = WithSize(packet, 55) /\ sent' = sent \cup {m}
  BY DEF ToReflector, Send, WithSize
<1>5. came' = came /\ from' = from /\ next' = next + 1
  BY DEF ToReflector, Advance
<1>6. /\ IsFrame(packet') /\ packet'.stream = packet.stream
      /\ packet'.dst = packet.dst /\ packet'.crc = packet.crc /\ packet'.size = 55
  BY <1>3, <1>4, Resized
<1>7. m.to = This /\ m.frame = packet' /\ m.trailer = <<from.mod>>
  OBVIOUS
<1> HIDE DEF m
<1>8. Right(m)
  <2>1. m.frame.stream
    BY <1>2, <1>6, <1>7
  <2> QED
    BY <1>1, <1>3, <1>6, <1>7, <2>1 DEF Right, Local
<1>9. BufferFits'
  BY <1>2, <1>3, <1>5, <1>6 DEF BufferFits
<1> QED
  BY <1>1, <1>4, <1>5, <1>8, <1>9, SendInv

LEMMA ToLocalInv ==
  ASSUME IInv, ToLocal
  PROVE  IInv'
<1> DEFINE m == [to |-> This, frame |-> packet', trailer |-> <<>>]
<1>1. Sending /\ Local(This)
  BY DEF ToLocal
<1>2. packet.stream
  BY DEF ToLocal
<1>3. /\ IsFrame(packet) /\ packet.stream = came.stream
      /\ came.crc = came.dst => packet.crc = packet.dst
  BY <1>1, WhileSending
<1>4. packet' = WithSize(packet, 54) /\ sent' = sent \cup {m}
  BY DEF ToLocal, Send, WithSize
<1>5. came' = came /\ from' = from /\ next' = next + 1
  BY DEF ToLocal, Advance
<1>6. /\ IsFrame(packet') /\ packet'.stream = packet.stream
      /\ packet'.dst = packet.dst /\ packet'.crc = packet.crc /\ packet'.size = 54
  BY <1>3, <1>4, Resized
<1>7. m.to = This /\ m.frame = packet' /\ m.trailer = <<>>
  OBVIOUS
<1> HIDE DEF m
<1>8. Right(m)
  <2>1. m.frame.stream
    BY <1>2, <1>6, <1>7
  <2> QED
    BY <1>1, <1>3, <1>6, <1>7, <2>1 DEF Right, Local
<1>9. BufferFits'
  BY <1>2, <1>3, <1>5, <1>6 DEF BufferFits
<1> QED
  BY <1>1, <1>4, <1>5, <1>8, <1>9, SendInv

\* A packet is made longer for a reflector only: then the buffer is as it was.
LEMMA SizeRestored ==
  ASSUME NEW f, IsFrame(f), NEW n
  PROVE  [WithSize(f, n) EXCEPT !.size = f.size] = f
<1>1. WithSize(f, n) = [stream |-> f.stream, size |-> n, dst |-> f.dst, crc |-> f.crc,
           type |-> f.type, last |-> f.last, mod |-> f.mod, heard |-> f.heard]
  BY DEF IsFrame, WithSize
<1>2. [WithSize(f, n) EXCEPT !.size = f.size]
        = [stream |-> f.stream, size |-> f.size, dst |-> f.dst, crc |-> f.crc,
           type |-> f.type, last |-> f.last, mod |-> f.mod, heard |-> f.heard]
  BY <1>1
<1> QED
  BY <1>2 DEF IsFrame

LEMMA PacketToReflectorInv ==
  ASSUME IInv, PacketToReflector
  PROVE  IInv'
<1> DEFINE longer == WithSize(packet, packet.size + 1)
           m == [to |-> This, frame |-> longer, trailer |-> <<from.mod>>]
<1>1. Sending /\ Kind(This) = "reflector"
  BY DEF PacketToReflector
<1>2. ~packet.stream
  BY DEF PacketToReflector
<1>3. /\ IsFrame(packet) /\ packet.stream = came.stream
      /\ packet.size = came.size
      /\ came.crc = came.dst => packet.crc = packet.dst
  BY <1>1, <1>2, WhileSending
<1>4. packet' = packet /\ sent' = sent \cup {m}
  <2>1. packet' = [longer EXCEPT !.size = packet.size] /\ sent' = sent \cup {m}
    BY DEF PacketToReflector, Send, WithSize
  <2> HIDE DEF m
  <2> QED
    BY <1>3, <2>1, SizeRestored
<1>5. came' = came /\ from' = from /\ next' = next + 1
  BY DEF PacketToReflector, Advance
<1>6. /\ longer.stream = packet.stream /\ longer.size = packet.size + 1
      /\ longer.dst = packet.dst /\ longer.crc = packet.crc
  BY <1>3, Resized
<1>7. m.to = This /\ m.frame = longer /\ m.trailer = <<from.mod>>
  OBVIOUS
<1> HIDE DEF longer, m
<1>8. Right(m)
  BY <1>1, <1>2, <1>3, <1>6, <1>7 DEF Right, Local
<1>9. BufferFits'
  BY <1>3, <1>4, <1>5 DEF BufferFits
<1> QED
  BY <1>1, <1>4, <1>5, <1>8, <1>9, SendInv

LEMMA PacketToLocalInv ==
  ASSUME IInv, PacketToLocal
  PROVE  IInv'
<1> DEFINE m == [to |-> This, frame |-> packet, trailer |-> <<>>]
<1>1. Sending /\ Local(This)
  BY DEF PacketToLocal
<1>2. ~packet.stream
  BY DEF PacketToLocal
<1>3. /\ IsFrame(packet) /\ packet.stream = came.stream
      /\ packet.size = came.size
      /\ came.crc = came.dst => packet.crc = packet.dst
  BY <1>1, <1>2, WhileSending
<1>4. packet' = packet /\ sent' = sent \cup {m}
  BY DEF PacketToLocal, Send
<1>5. came' = came /\ from' = from /\ next' = next + 1
  BY DEF PacketToLocal, Advance
<1>6. m.to = This /\ m.frame = packet /\ m.trailer = <<>>
  OBVIOUS
<1> HIDE DEF m
<1>7. Right(m)
  BY <1>1, <1>2, <1>3, <1>6 DEF Right, Local
<1>8. BufferFits'
  BY <1>3, <1>4, <1>5 DEF BufferFits
<1> QED
  BY <1>1, <1>4, <1>5, <1>7, <1>8, SendInv

LEMMA SkipInv ==
  ASSUME IInv, Skip
  PROVE  IInv'
<1>1. ~Idle /\ ~Idle'
  BY DEF Skip, Sending, Advance, Idle
<1>2. packet' = packet /\ came' = came /\ from' = from /\ sent' = sent
  BY DEF Skip, Advance
<1> QED
  BY <1>1, <1>2 DEF IInv, BufferFits, NothingSent, Fits, Right, IsFrame, Local, Kind

----------------------------------------------------------------------------
LEMMA NextInv == IInv /\ [Next]_vars => IInv'
<1> SUFFICES ASSUME IInv, [Next]_vars PROVE IInv'
  OBVIOUS
<1>1. ASSUME NEW h \in Hosts, Link(h) \/ Unlink(h) \/ StartParrot(h) PROVE IInv'
  BY <1>1, NotSending DEF Link, Unlink, StartParrot, Accepted
<1>2. ASSUME NEW h \in Hosts, Relay(h) PROVE IInv'
  BY <1>2, RelayInv
<1>3. ASSUME NEW c \in Client, EndParrot(c) PROVE IInv'
  BY <1>3, NotSending DEF EndParrot
<1>4. CASE SendToClients
  <2>1. CASE Done
    BY <2>1 DEF Done, IInv, BufferFits, NothingSent, Fits, Right, Idle
  <2> QED
    BY <1>4, <2>1, ToLegacyInv, ToReflectorInv, ToLocalInv, PacketToReflectorInv,
       PacketToLocalInv, SkipInv DEF SendToClients
<1>5. CASE UNCHANGED vars
  BY <1>5 DEF vars, IInv, BufferFits, NothingSent, Fits, Right, IsFrame, Idle, Local, Kind
<1> QED
  BY <1>1, <1>2, <1>3, <1>4, <1>5 DEF Next

----------------------------------------------------------------------------
(* The list of CUsers.                                                     *)

UserList(list) == list \in Seq(Sources) /\ IsInjective(list) /\ Len(list) <= MaxUsers

\* new is old after a report of src.
Reported(new, old, src) ==
  /\ UserList(new) /\ new # <<>> /\ Head(new) = src
  /\ \A i \in DOMAIN old : Contains(new, old[i]) \/ (i = MaxUsers /\ Len(old) = MaxUsers)
  /\ \A i, j \in DOMAIN old : \A k, l \in 2..Len(new) :
       new[k] = old[i] /\ new[l] = old[j] => (i < j <=> k < l)

\* The lengths of what is before and after the place p in a list of n.
LEMMA Lengths ==
  ASSUME NEW n \in Nat, NEW p \in 1..n
  PROVE  /\ p - 1 - 1 + 1 = p - 1 /\ (IF 1 <= p - 1 THEN p - 1 - 1 + 1 ELSE 0) = p - 1
         /\ n - (p + 1) + 1 = n - p /\ (IF p + 1 <= n THEN n - (p + 1) + 1 ELSE 0) = n - p
         /\ \A i \in 1..n : 1 + i - 1 = i /\ p + 1 + i - 1 = p + i
         /\ 1..p - 1 \subseteq 1..n /\ 1..n - p \subseteq 1..n
<1>1. p - 1 - 1 + 1 = p - 1 /\ (IF 1 <= p - 1 THEN p - 1 - 1 + 1 ELSE 0) = p - 1
  OBVIOUS
<1>2. n - (p + 1) + 1 = n - p /\ (IF p + 1 <= n THEN n - (p + 1) + 1 ELSE 0) = n - p
  OBVIOUS
<1>3. \A i \in 1..n : 1 + i - 1 = i /\ p + 1 + i - 1 = p + i
  OBVIOUS
<1>4. 1..p - 1 \subseteq 1..n /\ 1..n - p \subseteq 1..n
  OBVIOUS
<1> QED
  BY <1>1, <1>2, <1>3, <1>4

\* Who is in the list leaves its place, and those before it move by one.
LEMMA MovedToFront ==
  ASSUME NEW list, UserList(list), NEW src, Contains(list, src)
  PROVE  LET new == Move2Front(list, src)
         IN  /\ new \in Seq(Sources) /\ Len(new) = Len(list)
             /\ \E p \in 1..Len(list) :
                  /\ list[p] = src
                  /\ \A k \in 1..Len(list) :
                       new[k] = IF k = 1 THEN src ELSE IF k <= p THEN list[k - 1] ELSE list[k]
<1> DEFINE p == CHOOSE i \in DOMAIN list : list[i] = src
           before == SubSeq(list, 1, p - 1)
           after == SubSeq(list, p + 1, Len(list))
           others == before \o after
           new == <<src>> \o others
<1>1. Len(list) \in Nat /\ DOMAIN list = 1..Len(list)
  BY LenProperties DEF UserList
<1>2. p \in 1..Len(list) /\ list[p] = src
  BY <1>1 DEF Contains
<1>3. \A i \in 1..Len(list) : list[i] \in Sources
  BY ElementOfSeq DEF UserList
<1> HIDE DEF p
<1>4. /\ before \in Seq(Sources) /\ Len(before) = p - 1
      /\ \A i \in 1..p - 1 : before[i] = list[i]
  <2>1. \A i \in 1..p - 1 : list[i] \in Sources
    BY <1>1, <1>2, <1>3
  <2>2. /\ before \in Seq(Sources) /\ Len(before) = IF 1 <= p - 1 THEN p - 1 - 1 + 1 ELSE 0
        /\ \A i \in 1..p - 1 - 1 + 1 : before[i] = list[1 + i - 1]
    BY <1>2, <2>1, SubSeqProperties
  <2> HIDE DEF before
  <2>3. /\ p - 1 - 1 + 1 = p - 1
        /\ (IF 1 <= p - 1 THEN p - 1 - 1 + 1 ELSE 0) = p - 1
        /\ \A i \in 1..p - 1 : 1 + i - 1 = i
    BY <1>1, <1>2, Lengths
  <2> QED
    BY <2>2, <2>3
<1>5. /\ after \in Seq(Sources) /\ Len(after) = Len(list) - p
      /\ \A i \in 1..Len(list) - p : after[i] = list[p + i]
  <2>1. \A i \in p + 1..Len(list) : list[i] \in Sources
    BY <1>1, <1>2, <1>3
  <2>2. /\ after \in Seq(Sources)
        /\ Len(after) = IF p + 1 <= Len(list) THEN Len(list) - (p + 1) + 1 ELSE 0
        /\ \A i \in 1..Len(list) - (p + 1) + 1 : after[i] = list[p + 1 + i - 1]
    BY <1>1, <1>2, <2>1, SubSeqProperties
  <2> HIDE DEF before, after
  <2>3. /\ Len(list) - (p + 1) + 1 = Len(list) - p
        /\ (IF p + 1 <= Len(list) THEN Len(list) - (p + 1) + 1 ELSE 0) = Len(list) - p
        /\ \A i \in 1..Len(list) - p : p + 1 + i - 1 = p + i
    BY <1>1, <1>2, Lengths, ZenonT(30)
  <2> QED
    BY <2>2, <2>3
<1> HIDE DEF before, after
<1>6. /\ others \in Seq(Sources) /\ Len(others) = Len(list) - 1
      /\ \A i \in 1..Len(list) - 1 : others[i] = IF i <= p - 1 THEN list[i] ELSE list[i + 1]
  <2>1. /\ others \in Seq(Sources) /\ Len(others) = Len(before) + Len(after)
        /\ \A i \in 1..Len(before) + Len(after) :
             others[i] = IF i <= Len(before) THEN before[i] ELSE after[i - Len(before)]
    BY <1>4, <1>5, ConcatProperties
  <2>2. Len(before) + Len(after) = Len(list) - 1
    BY <1>1, <1>2, <1>4, <1>5
  <2> HIDE DEF others
  <2>3. ASSUME NEW i \in 1..Len(list) - 1
        PROVE  others[i] = IF i <= p - 1 THEN list[i] ELSE list[i + 1]
    <3>1. CASE i <= p - 1
      <4>1. i \in 1..p - 1
        BY <1>1, <1>2, <3>1
      <4> QED
        BY <1>4, <2>1, <2>2, <3>1, <4>1
    <3>2. CASE ~(i <= p - 1)
      <4>1. i - (p - 1) \in 1..Len(list) - p /\ p + (i - (p - 1)) = i + 1
        BY <1>1, <1>2, <3>2
      <4>2. others[i] = after[i - (p - 1)]
        BY <1>4, <2>1, <2>2, <3>2
      <4>3. after[i - (p - 1)] = list[p + (i - (p - 1))]
        BY <1>5, <4>1
      <4> QED
        BY <3>2, <4>1, <4>2, <4>3
    <3> QED
      BY <3>1, <3>2
  <2> QED
    BY <2>1, <2>2, <2>3
<1>7. <<src>> \in Seq(Sources) /\ Len(<<src>>) = 1 /\ <<src>>[1] = src
  BY <1>2, <1>3
<1> HIDE DEF others
<1>8. /\ new \in Seq(Sources) /\ Len(new) = Len(list)
      /\ \A i \in 1..Len(list) : new[i] = IF i = 1 THEN src ELSE others[i - 1]
  <2>1. /\ new \in Seq(Sources) /\ Len(new) = 1 + Len(others)
        /\ \A i \in 1..1 + Len(others) :
             new[i] = IF i <= 1 THEN <<src>>[i] ELSE others[i - 1]
    BY <1>6, <1>7, ConcatProperties
  <2>2. 1 + Len(others) = Len(list)
    BY <1>1, <1>6
  <2>3. /\ new \in Seq(Sources) /\ Len(new) = Len(list)
        /\ \A i \in 1..Len(list) :
             new[i] = IF i <= 1 THEN <<src>>[i] ELSE others[i - 1]
    BY <2>1, <2>2
  <2>4. ASSUME NEW i \in 1..Len(list) PROVE new[i] = IF i = 1 THEN src ELSE others[i - 1]
    <3>1. CASE i = 1
      BY <1>7, <2>3, <3>1
    <3>2. CASE i # 1
      BY <1>1, <2>3, <3>2
    <3> QED
      BY <3>1, <3>2
  <2> QED
    BY <2>3, <2>4
<1>9. Move2Front(list, src) = new
  BY DEF Move2Front, RemoveAt, p, before, after, others
<1> HIDE DEF new
<1>10. \A k \in 1..Len(list) :
         new[k] = IF k = 1 THEN src ELSE IF k <= p THEN list[k - 1] ELSE list[k]
  BY <1>1, <1>2, <1>6, <1>8
<1> QED
  BY <1>2, <1>8, <1>9, <1>10

LEMMA KnownReported ==
  ASSUME NEW list, UserList(list), NEW src, Contains(list, src)
  PROVE  Reported(Move2Front(list, src), list, src)
<1> DEFINE new == Move2Front(list, src)
<1>1. PICK p \in 1..Len(list) :
        /\ list[p] = src
        /\ \A k \in 1..Len(list) :
             new[k] = IF k = 1 THEN src ELSE IF k <= p THEN list[k - 1] ELSE list[k]
  BY MovedToFront
<1>2. new \in Seq(Sources) /\ Len(new) = Len(list)
  BY MovedToFront
<1> HIDE DEF new
<1>3. /\ Len(list) \in Nat /\ DOMAIN list = 1..Len(list) /\ DOMAIN new = 1..Len(list)
      /\ Len(list) <= MaxUsers /\ \A i, j \in 1..Len(list) : list[i] = list[j] => i = j
  BY <1>2, LenProperties DEF UserList, IsInjective
<1>4. \A k \in 2..Len(list) :
        \E i \in 1..Len(list) : new[k] = list[i] /\ i # p /\ i = (IF k <= p THEN k - 1 ELSE k)
  BY <1>1, <1>3
<1>5. IsInjective(new)
  BY <1>1, <1>3 DEF IsInjective
<1>6. new # <<>> /\ Head(new) = src
  BY <1>1, <1>2, <1>3
<1>7. \A i \in DOMAIN list : Contains(new, list[i])
  <2> SUFFICES ASSUME NEW i \in 1..Len(list) PROVE \E k \in 1..Len(list) : new[k] = list[i]
    BY <1>2, <1>3 DEF Contains
  <2>1. CASE i = p
    BY <1>1, <1>3, <2>1
  <2>2. CASE i < p
    <3>1. i + 1 \in 1..Len(list) /\ new[i + 1] = list[i]
      BY <1>1, <1>3, <2>2
    <3> QED
      BY <3>1
  <2>3. CASE i > p
    BY <1>1, <1>3, <2>3
  <2> QED
    BY <1>1, <1>3, <2>1, <2>2, <2>3
<1>8. ASSUME NEW i \in 1..Len(list), NEW j \in 1..Len(list),
             NEW k \in 2..Len(list), NEW l \in 2..Len(list), new[k] = list[i], new[l] = list[j]
      PROVE  i < j <=> k < l
  <2>1. i = (IF k <= p THEN k - 1 ELSE k) /\ j = (IF l <= p THEN l - 1 ELSE l)
    BY <1>3, <1>4, <1>8
  <2>2. i # p /\ j # p
    BY <1>3, <1>4, <1>8
  <2> QED
    BY <1>3, <2>1, <2>2
<1> QED
  BY <1>2, <1>3, <1>5, <1>6, <1>7, <1>8 DEF Reported, UserList, new

\* Who is not in the list gets the first place; the last one makes room, if it must.
Added(list, src) ==
  SubSeq(<<src>> \o list, 1, IF Len(list) < MaxUsers THEN Len(list) + 1 ELSE MaxUsers)

LEMMA NewReported ==
  ASSUME NEW list, UserList(list), NEW src \in Sources, ~Contains(list, src)
  PROVE  Reported(Added(list, src), list, src)
<1> DEFINE longer == <<src>> \o list
           n == IF Len(list) < MaxUsers THEN Len(list) + 1 ELSE MaxUsers
           new == Added(list, src)
<1>1. /\ Len(list) \in Nat /\ DOMAIN list = 1..Len(list) /\ Len(list) <= MaxUsers
      /\ \A i, j \in 1..Len(list) : list[i] = list[j] => i = j
      /\ \A i \in 1..Len(list) : list[i] \in Sources /\ list[i] # src
  BY LenProperties, ElementOfSeq DEF UserList, IsInjective, Contains
<1>2. /\ n \in 1..Len(list) + 1 /\ n <= MaxUsers
      /\ n < Len(list) + 1 => Len(list) = MaxUsers /\ n = MaxUsers
  <2>1. Len(list) \in Nat /\ MaxUsers \in Nat \ {0} /\ Len(list) <= MaxUsers
    BY <1>1, MaxUsersAssumption
  <2>2. CASE Len(list) < MaxUsers
    BY <2>1, <2>2
  <2>3. CASE Len(list) = MaxUsers
    BY <2>1, <2>3
  <2> QED
    BY <2>1, <2>2, <2>3
<1>3. /\ longer \in Seq(Sources) /\ Len(longer) = Len(list) + 1
      /\ \A i \in 1..Len(list) + 1 : longer[i] = IF i = 1 THEN src ELSE list[i - 1]
  <2>1. <<src>> \in Seq(Sources) /\ Len(<<src>>) = 1 /\ <<src>>[1] = src
    OBVIOUS
  <2>2. /\ longer \in Seq(Sources) /\ Len(longer) = 1 + Len(list)
        /\ \A i \in 1..1 + Len(list) : longer[i] = IF i <= 1 THEN <<src>>[i] ELSE list[i - 1]
    BY <2>1, ConcatProperties DEF UserList
  <2> QED
    BY <1>1, <2>1, <2>2
<1> HIDE DEF longer, n
<1>4. new = SubSeq(longer, 1, n)
  BY DEF Added, longer, n
<1>5. /\ new \in Seq(Sources) /\ Len(new) = n
      /\ \A i \in 1..n : new[i] = IF i = 1 THEN src ELSE list[i - 1]
  <2>1. \A i \in 1..n : longer[i] \in Sources
    BY <1>1, <1>2, <1>3
  <2>2. /\ SubSeq(longer, 1, n) \in Seq(Sources)
        /\ Len(SubSeq(longer, 1, n)) = IF 1 <= n THEN n - 1 + 1 ELSE 0
        /\ \A i \in 1..n - 1 + 1 : SubSeq(longer, 1, n)[i] = longer[1 + i - 1]
    BY <1>1, <1>2, <2>1, SubSeqProperties
  <2>3. n \in Nat /\ 1 <= n /\ n - 1 + 1 = n /\ \A i \in 1..n : 1 + i - 1 = i /\ i \in 1..Len(list) + 1
    BY <1>1, <1>2
  <2>4. new \in Seq(Sources) /\ Len(new) = n
    BY <1>4, <2>2, <2>3
  <2>5. \A i \in 1..n : new[i] = longer[i]
    BY <1>4, <2>2, <2>3
  <2> QED
    BY <1>3, <2>3, <2>4, <2>5
<1> HIDE DEF new
<1>6. DOMAIN new = 1..n
  BY <1>5, LenProperties
<1>7. IsInjective(new)
  BY <1>1, <1>2, <1>5, <1>6 DEF IsInjective
<1>8. new # <<>> /\ Head(new) = src
  BY <1>2, <1>5
<1>9. ASSUME NEW i \in 1..Len(list)
      PROVE  Contains(new, list[i]) \/ (i = MaxUsers /\ Len(list) = MaxUsers)
  <2>1. CASE i + 1 <= n
    <3>1. i + 1 \in 1..Len(new) /\ new[i + 1] = list[i]
      BY <1>1, <1>2, <1>5, <2>1
    <3> QED
      BY <3>1 DEF Contains
  <2>2. CASE ~(i + 1 <= n)
    <3>1. i \in 1..Len(list) /\ Len(list) \in Nat /\ n \in 1..Len(list) + 1
      BY <1>1, <1>2
    <3>2. n < Len(list) + 1 /\ n <= i
      BY <2>2, <3>1
    <3>3. Len(list) = MaxUsers /\ n = MaxUsers
      BY <1>2, <3>2
    <3> QED
      BY <3>1, <3>2, <3>3
  <2> QED
    BY <2>1, <2>2
<1>10. ASSUME NEW i \in 1..Len(list), NEW j \in 1..Len(list),
              NEW k \in 2..n, NEW l \in 2..n, new[k] = list[i], new[l] = list[j]
       PROVE  i < j <=> k < l
  <2>1. new[k] = list[k - 1] /\ new[l] = list[l - 1] /\ k - 1 \in 1..Len(list) /\ l - 1 \in 1..Len(list)
    BY <1>1, <1>2, <1>5
  <2>2. i = k - 1 /\ j = l - 1
    BY <1>1, <1>10, <2>1
  <2> QED
    BY <1>1, <1>2, <2>2
<1> QED
  BY <1>1, <1>2, <1>5, <1>7, <1>8, <1>9, <1>10 DEF Reported, UserList, new

LEMMA HearingReported ==
  ASSUME NEW list, UserList(list), NEW src \in Sources
  PROVE  Reported(Hearing(list, src), list, src)
BY KnownReported, NewReported DEF Hearing, Added

\* A position in the same frame finds its user in front and changes nothing.
LEMMA LocationChangesNothing ==
  ASSUME NEW list, UserList(list), list # <<>>
  PROVE  Location(list, Head(list)) = list
<1> DEFINE new == Move2Front(list, Head(list))
<1>1. /\ Len(list) \in Nat \ {0} /\ DOMAIN list = 1..Len(list) /\ Head(list) = list[1]
      /\ \A i, j \in 1..Len(list) : list[i] = list[j] => i = j
  BY EmptySeq, LenProperties DEF UserList, IsInjective
<1>2. Contains(list, Head(list))
  BY <1>1 DEF Contains
<1>3. PICK p \in 1..Len(list) :
        /\ list[p] = Head(list)
        /\ \A k \in 1..Len(list) :
             new[k] = IF k = 1 THEN Head(list) ELSE IF k <= p THEN list[k - 1] ELSE list[k]
  BY <1>2, MovedToFront
<1>4. new \in Seq(Sources) /\ Len(new) = Len(list)
  BY <1>2, MovedToFront
<1> HIDE DEF new
<1>5. p = 1
  BY <1>1, <1>3
<1>6. \A k \in 1..Len(list) : new[k] = list[k]
  BY <1>1, <1>3, <1>5
<1>7. new = list
  BY <1>4, <1>6, SeqEqual DEF UserList
<1> QED
  BY <1>2, <1>7 DEF Location, new

LEMMA ReportedInDashData ==
  ASSUME NEW list, UserList(list), NEW f \in Frame, f.heard # Nobody
  PROVE  Reported(UpdateDashData(list, f), list, f.heard)
<1> DEFINE heard == Hearing(list, f.heard)
<1>1. f.heard \in Sources
  BY DEF Frame
<1>2. Reported(heard, list, f.heard)
  BY <1>1, HearingReported
<1> HIDE DEF heard
<1>3. Location(heard, f.heard) = heard
  BY <1>2, LocationChangesNothing DEF Reported
<1>4. UpdateDashData(list, f) = heard
  BY <1>3 DEF UpdateDashData, heard
<1> QED
  BY <1>2, <1>4

----------------------------------------------------------------------------
(* Lists of clients.                                                       *)

\* A finite set put into some order.
LEMMA Ordered ==
  ASSUME NEW S, IsFiniteSet(S), NEW list \in SetToSeqs(S)
  PROVE  list \in Seq(S) /\ IsInjective(list) /\ ToSet(list) = S
<1> DEFINE n == Cardinality(S)
<1>1. n \in Nat
  BY FS_CardinalityType
<1>2. list \in [1..n -> S] /\ \A i, j \in 1..n : i # j => list[i] # list[j]
  BY DEF SetToSeqs
<1>3. IsFiniteSet(1..n) /\ Cardinality(1..n) = n
  BY <1>1, FS_Interval
<1> HIDE DEF n
<1>4. IsInjective(list)
  BY <1>2 DEF IsInjective
<1>5. list \in Injection(1..n, S)
  BY <1>2, <1>4 DEF Injection
<1>6. list \in Surjection(1..n, S)
  BY <1>3, <1>5, FS_Injection DEF n
<1>7. ToSet(list) = S
  BY <1>2, <1>6 DEF Surjection, ToSet
<1>8. list \in Seq(S)
  BY <1>1, <1>2, SeqDef
<1> QED
  BY <1>4, <1>7, <1>8

LEMMA Appended ==
  ASSUME NEW S, NEW s \in Seq(S), NEW t \in Seq(S), IsInjective(s), IsInjective(t),
         ToSet(s) \cap ToSet(t) = {}
  PROVE  /\ s \o t \in Seq(S) /\ IsInjective(s \o t)
         /\ ToSet(s \o t) = ToSet(s) \cup ToSet(t)
<1> DEFINE u == s \o t
<1>1. /\ Len(s) \in Nat /\ DOMAIN s = 1..Len(s)
      /\ Len(t) \in Nat /\ DOMAIN t = 1..Len(t)
  BY LenProperties
<1>2. /\ u \in Seq(S) /\ Len(u) = Len(s) + Len(t)
      /\ \A i \in 1..Len(s) + Len(t) : u[i] = IF i <= Len(s) THEN s[i] ELSE t[i - Len(s)]
  BY ConcatProperties
<1>3. DOMAIN u = 1..Len(s) + Len(t)
  BY <1>2, LenProperties
<1> HIDE DEF u
<1>4. \A i \in 1..Len(s), j \in 1..Len(t) : s[i] # t[j]
  BY <1>1 DEF ToSet
<1>5. IsInjective(u)
  <2> SUFFICES ASSUME NEW i \in 1..Len(s) + Len(t), NEW j \in 1..Len(s) + Len(t), u[i] = u[j]
               PROVE  i = j
    BY <1>3 DEF IsInjective
  <2>1. CASE i <= Len(s) /\ j <= Len(s)
    BY <1>1, <1>2, <2>1 DEF IsInjective
  <2>2. CASE i > Len(s) /\ j > Len(s)
    <3>1. i - Len(s) \in 1..Len(t) /\ j - Len(s) \in 1..Len(t)
      BY <1>1, <2>2
    <3>2. t[i - Len(s)] = t[j - Len(s)]
      BY <1>1, <1>2, <2>2
    <3>3. i - Len(s) = j - Len(s)
      BY <1>1, <3>1, <3>2 DEF IsInjective
    <3> QED
      BY <1>1, <3>3
  <2>3. CASE i <= Len(s) /\ j > Len(s)
    <3>1. i \in 1..Len(s) /\ j - Len(s) \in 1..Len(t) /\ u[i] = s[i] /\ u[j] = t[j - Len(s)]
      BY <1>1, <1>2, <2>3
    <3> QED
      BY <1>4, <3>1
  <2>4. CASE i > Len(s) /\ j <= Len(s)
    <3>1. j \in 1..Len(s) /\ i - Len(s) \in 1..Len(t) /\ u[j] = s[j] /\ u[i] = t[i - Len(s)]
      BY <1>1, <1>2, <2>4
    <3> QED
      BY <1>4, <3>1
  <2>5. (i <= Len(s) \/ i > Len(s)) /\ (j <= Len(s) \/ j > Len(s))
    BY <1>1
  <2> QED
    BY <2>1, <2>2, <2>3, <2>4, <2>5
<1>6. ToSet(u) = ToSet(s) \cup ToSet(t)
  <2>1. ASSUME NEW i \in 1..Len(s) PROVE i \in DOMAIN u /\ u[i] = s[i]
    <3>1. i \in 1..Len(s) + Len(t) /\ i <= Len(s)
      BY <1>1
    <3> QED
      BY <1>2, <1>3, <3>1
  <2>2. ASSUME NEW j \in 1..Len(t) PROVE Len(s) + j \in DOMAIN u /\ u[Len(s) + j] = t[j]
    <3>1. Len(s) + j \in 1..Len(s) + Len(t) /\ ~(Len(s) + j <= Len(s)) /\ Len(s) + j - Len(s) = j
      BY <1>1
    <3> QED
      BY <1>2, <1>3, <3>1
  <2>3. ASSUME NEW i \in DOMAIN u PROVE u[i] \in ToSet(s) \cup ToSet(t)
    <3>1. CASE i <= Len(s)
      <4>1. i \in 1..Len(s)
        BY <1>1, <1>3, <3>1
      <4> QED
        BY <1>1, <2>1, <4>1 DEF ToSet
    <3>2. CASE ~(i <= Len(s))
      <4>1. i - Len(s) \in 1..Len(t) /\ i \in 1..Len(s) + Len(t)
        BY <1>1, <1>3, <3>2
      <4>2. u[i] = t[i - Len(s)]
        BY <1>2, <3>2, <4>1
      <4> QED
        BY <1>1, <4>1, <4>2 DEF ToSet
    <3> QED
      BY <3>1, <3>2
  <2>4. ToSet(s) \subseteq ToSet(u) /\ ToSet(t) \subseteq ToSet(u)
    BY <1>1, <2>1, <2>2 DEF ToSet
  <2>5. ToSet(u) \subseteq ToSet(s) \cup ToSet(t)
    BY <2>3 DEF ToSet
  <2> QED
    BY <2>4, <2>5
<1> QED
  BY <1>2, <1>5, <1>6 DEF u

----------------------------------------------------------------------------
(* Types.                                                                  *)

\* TypeOK, and what it rests on: where a playback's TYPE comes from, that users are
\* listed once, and that a listener sends nothing.
Lists == clients \in Seq(Client) /\ IsInjective(clients)
Playbacks ==
  /\ DOMAIN parrots \subseteq Listed
  /\ \A c \in DOMAIN parrots : /\ parrots[c].of \in Types
                               /\ \/ parrots[c].type = ParrotType(parrots[c].of)
                                  \/ ~parrots[c].stream /\ parrots[c].type = parrots[c].of
InTransit ==
  /\ next \in 0..Len(clients) + 1
  /\ Idle <=> packet = Nothing
  /\ ~Idle => /\ packet.size \in 0..MaxSize /\ came \in Frame
              /\ from \in Listed /\ Kind(from) # "listenonly"
              /\ Same(packet, came)
TInv == Lists /\ Playbacks /\ UserList(users) /\ InTransit

LEMMA ListIs ==
  ASSUME Lists
  PROVE  /\ Len(clients) \in Nat /\ DOMAIN clients = 1..Len(clients)
         /\ Listed = {clients[i] : i \in 1..Len(clients)} /\ Listed \subseteq Client
         /\ IsFiniteSet(Listed)
<1>1. Len(clients) \in Nat /\ DOMAIN clients = 1..Len(clients) /\ clients \in [1..Len(clients) -> Client]
  BY LenProperties DEF Lists
<1>2. Listed = {clients[i] : i \in 1..Len(clients)} /\ Listed \subseteq Client
  BY <1>1 DEF Listed, ToSet
<1>3. clients \in [1..Len(clients) -> Listed]
  BY <1>1, <1>2
<1>4. clients \in Surjection(1..Len(clients), Listed)
  BY <1>2, <1>3 DEF Surjection
<1>5. IsFiniteSet(1..Len(clients))
  BY <1>1, FS_Interval
<1> QED
  BY <1>1, <1>2, <1>4, <1>5, FS_Surjection

LEMMA InitType == Init => TInv
<1> SUFFICES ASSUME Init PROVE TInv
  OBVIOUS
<1>1. Lists
  BY EmptySeq DEF Init, Lists, IsInjective
<1>2. Playbacks
  BY DEF Init, Playbacks
<1>3. UserList(users)
  BY EmptySeq, MaxUsersAssumption DEF Init, UserList, IsInjective
<1>4. InTransit
  BY EmptySeq DEF Init, InTransit, Idle, Nothing
<1> QED
  BY <1>1, <1>2, <1>3, <1>4 DEF TInv

LEMMA LinkType ==
  ASSUME TInv, NEW h \in Hosts, Link(h)
  PROVE  TInv' /\ Listed \subseteq Listed' /\ \A c \in Listed' \ Listed : c.host = h
<1>1. PICK mods \in Shares[h] :
        \E added \in SetToSeqs({[host |-> h, mod |-> m] : m \in mods}) : clients' = clients \o added
  BY DEF Link
<1> DEFINE S == {[host |-> h, mod |-> m] : m \in mods}
<1>2. PICK added \in SetToSeqs(S) : clients' = clients \o added
  BY <1>1
<1>3. mods \subseteq Modules
  BY SharesAssumption
<1>4. IsFiniteSet(S) /\ S \subseteq Client
  <2> DEFINE made == [m \in mods |-> [host |-> h, mod |-> m]]
  <2>1. IsFiniteSet(65..90)
    <3>1. \A a, b \in Int : IsFiniteSet(a..b)
      BY FS_Interval
    <3>2. 65 \in Int /\ 90 \in Int
      OBVIOUS
    <3> QED
      BY <3>1, <3>2, Zenon
  <2>2. mods \in SUBSET (65..90)
    BY <1>3, ModulesAssumption
  <2>3. IsFiniteSet(mods)
    BY <2>1, <2>2, FS_Subset
  <2>4. made \in Surjection(mods, S)
    BY DEF Surjection
  <2>5. S \subseteq Client
    BY <1>3 DEF Client
  <2> HIDE DEF made, S
  <2> QED
    BY <2>3, <2>4, <2>5, FS_Surjection
<1>5. added \in Seq(S) /\ IsInjective(added) /\ ToSet(added) = S
  BY <1>4, Ordered
<1>6. added \in Seq(Client)
  BY <1>4, <1>5, SeqMonotonic
<1>7. ToSet(clients) \cap ToSet(added) = {}
  BY <1>5 DEF Link, ClientsAt, Listed
<1>8. Lists' /\ Listed' = Listed \cup S
  BY <1>2, <1>5, <1>6, <1>7, Appended DEF TInv, Lists, Listed
<1>9. UNCHANGED <<parrots, users, frameVars>> /\ next = 0
  BY DEF Link, Idle
<1>10. Playbacks'
  BY <1>8, <1>9 DEF TInv, Playbacks
<1>11. InTransit'
  <2>1. Len(clients') \in Nat
    BY <1>8, LenProperties DEF Lists
  <2> QED
    BY <1>9, <2>1 DEF TInv, InTransit, Idle, frameVars
<1> QED
  BY <1>8, <1>9, <1>10, <1>11 DEF TInv, UserList

LEMMA UnlinkType ==
  ASSUME TInv, NEW h \in Hosts, Unlink(h)
  PROVE  TInv' /\ Listed' = Listed \ ClientsAt(h)
<1> DEFINE S == Listed \ ClientsAt(h)
<1>1. PICK rest \in SetToSeqs(S) : clients' = rest
  BY DEF Unlink
<1>2. IsFiniteSet(Listed) /\ Listed \subseteq Client
  BY ListIs DEF TInv
<1>3. IsFiniteSet(S) /\ S \subseteq Client
  BY <1>2, FS_Subset
<1>4. rest \in Seq(S) /\ IsInjective(rest) /\ ToSet(rest) = S
  BY <1>3, Ordered
<1>5. Lists' /\ Listed' = S
  BY <1>1, <1>3, <1>4, SeqMonotonic DEF Lists, Listed
<1>6. /\ parrots' = Restrict(parrots, {c \in DOMAIN parrots : c.host # h})
      /\ UNCHANGED <<users, frameVars>> /\ next = 0
  BY DEF Unlink, Idle
<1>7. Playbacks'
  <2>1. /\ DOMAIN parrots' = {c \in DOMAIN parrots : c.host # h}
        /\ \A c \in DOMAIN parrots' : parrots'[c] = parrots[c]
    BY <1>6 DEF Restrict
  <2>2. DOMAIN parrots' \subseteq S
    BY <2>1 DEF TInv, Playbacks, ClientsAt
  <2> QED
    BY <1>5, <2>1, <2>2 DEF TInv, Playbacks
<1>8. InTransit'
  <2>1. Len(clients') \in Nat
    BY <1>5, LenProperties DEF Lists
  <2> QED
    BY <1>6, <2>1 DEF TInv, InTransit, Idle, frameVars
<1> QED
  BY <1>5, <1>6, <1>7, <1>8 DEF TInv, UserList

LEMMA ParrotsType ==
  ASSUME TInv, UNCHANGED <<clients, users, frameVars>>, Playbacks'
  PROVE  TInv'
BY DEF TInv, Lists, UserList, InTransit, Idle, frameVars, Listed, Kind

LEMMA StartParrotType ==
  ASSUME TInv, NEW h \in Hosts, StartParrot(h)
  PROVE  TInv'
<1>1. PICK f \in Frames, c \in Listed : \E t \in PlayedTypes(f) :
        parrots' = [d \in DOMAIN parrots \cup {c} |->
                      IF d = c THEN [stream |-> f.stream, of |-> f.type, type |-> t]
                               ELSE parrots[d]]
  BY DEF StartParrot
<1>2. UNCHANGED <<clients, users, frameVars>>
  BY DEF StartParrot
<1>3. f.type \in Types
  BY FramesAssumption DEF Frame, Types
<1>4. Playbacks'
  <2>1. PICK t \in PlayedTypes(f) :
          parrots' = [d \in DOMAIN parrots \cup {c} |->
                        IF d = c THEN [stream |-> f.stream, of |-> f.type, type |-> t]
                                 ELSE parrots[d]]
    BY <1>1
  <2>2. t = ParrotType(f.type) \/ (~f.stream /\ t = f.type)
    BY DEF PlayedTypes
  <2>3. DOMAIN parrots' = DOMAIN parrots \cup {c} /\ Listed' = Listed
    BY <1>2, <2>1 DEF Listed
  <2>4. /\ parrots'[c].stream = f.stream /\ parrots'[c].of = f.type /\ parrots'[c].type = t
        /\ \A d \in DOMAIN parrots : d # c => parrots'[d] = parrots[d]
    BY <2>1
  <2> QED
    BY <1>3, <2>2, <2>3, <2>4 DEF TInv, Playbacks
<1> QED
  BY <1>2, <1>4, ParrotsType

LEMMA EndParrotType ==
  ASSUME TInv, NEW c, EndParrot(c)
  PROVE  TInv'
<1>1. parrots' = Restrict(parrots, DOMAIN parrots \ {c}) /\ UNCHANGED <<clients, users, frameVars>>
  BY DEF EndParrot
<1>2. Playbacks'
  BY <1>1 DEF TInv, Playbacks, Listed, Restrict
<1> QED
  BY <1>1, <1>2, ParrotsType

LEMMA TrimmedType ==
  ASSUME NEW h \in Hosts, NEW f \in Frame, Viable(f)
  PROVE  LET g == Trimmed(h, f)
         IN  /\ g \in Frame /\ g.heard = f.heard
             /\ IsFrame(Readdressed(g)) /\ Readdressed(g).size = g.size
             /\ Same(Readdressed(g), g)
<1> DEFINE g == Trimmed(h, f)
<1>1. f.size \in 0..MaxSize /\ f.size - 1 \in 0..MaxSize
  <2>1. f.size \in {54, 55} \/ f.size \in 38..MaxSize
    BY DEF Viable
  <2>2. f.size \in 0..MaxSize
    BY DEF Frame
  <2> QED
    BY <2>1, <2>2, MaxSizeAssumption
<1>2. g \in Frame /\ g.heard = f.heard
  <2> DEFINE n == f.size - 1
  <2>1. n \in 0..MaxSize
    BY <1>1
  <2> HIDE DEF n
  <2>2. [f EXCEPT !.size = n] \in Frame /\ [f EXCEPT !.size = n].heard = f.heard
    BY <2>1 DEF Frame
  <2> QED
    BY <2>2 DEF Trimmed, n
<1> HIDE DEF g
<1>3. IsFrame(g)
  BY <1>2 DEF Frame, IsFrame
<1>4. Readdressed(g) = g \/ Readdressed(g) = WithDst(g, "all")
  BY DEF Readdressed, WithDst
<1>5. IsFrame(Readdressed(g)) /\ Readdressed(g).size = g.size /\ Same(Readdressed(g), g)
  BY <1>3, <1>4, Addressed DEF Same
<1> QED
  BY <1>2, <1>5 DEF g

LEMMA NotNothing == \A f : IsFrame(f) => f # Nothing
<1>1. \A f : IsFrame(f) => "size" \in DOMAIN f
  BY DEF IsFrame
<1>2. DOMAIN Nothing = {}
  BY DEF Nothing
<1> QED
  BY <1>1, <1>2

\* A frame comes from a client that is linked and no listener, whose report is new.
LEMMA RelayType ==
  ASSUME TInv, NEW h \in Hosts, Relay(h)
  PROVE  /\ TInv'
         /\ IF came'.heard = Nobody THEN users' = users
                                    ELSE Reported(users', users, came'.heard)
<1>1. PICK f \in Frames, c \in Listed :
        /\ Accepted(h, f, c)
        /\ came' = Trimmed(h, f) /\ packet' = Readdressed(came')
        /\ users' = UpdateDashData(users, f) /\ from' = c /\ next' = 1
  BY DEF Relay
<1>2. clients' = clients /\ parrots' = parrots
  BY DEF Relay
<1>3. f \in Frame /\ Viable(f)
  BY <1>1, FramesAssumption DEF Accepted
<1>4. /\ came' \in Frame /\ came'.heard = f.heard
      /\ IsFrame(packet') /\ packet'.size = came'.size /\ Same(packet', came')
  BY <1>1, <1>3, TrimmedType
<1>5. c.host = h /\ KindOf[h] # "listenonly"
  BY <1>1 DEF Accepted, Sender, ClientsAt
<1>6. InTransit'
  <2>1. next' \in 0..Len(clients') + 1 /\ ~Idle'
    BY <1>1, <1>2, ListIs DEF TInv, Idle
  <2>2. packet' # Nothing
    BY <1>4, NotNothing
  <2>3. packet'.size \in 0..MaxSize
    BY <1>4 DEF Frame
  <2>4. from' \in Listed' /\ Kind(from)' # "listenonly"
    BY <1>1, <1>2, <1>5 DEF Listed, Kind
  <2> QED
    BY <1>4, <2>1, <2>2, <2>3, <2>4 DEF InTransit, Nothing
<1>7. Lists' /\ Playbacks'
  BY <1>2 DEF TInv, Lists, Playbacks, Listed
<1>8. IF f.heard = Nobody THEN users' = users ELSE Reported(users', users, f.heard)
  <2>1. CASE f.heard = Nobody
    BY <1>1, <2>1 DEF UpdateDashData
  <2>2. CASE f.heard # Nobody
    BY <1>1, <1>3, <2>2, ReportedInDashData DEF TInv
  <2> QED
    BY <2>1, <2>2
<1>9. UserList(users')
  BY <1>8 DEF TInv, Reported
<1> QED
  BY <1>4, <1>6, <1>7, <1>8, <1>9 DEF TInv, UserList

\* SendToClients gives the buffer one of three sizes and changes nothing else.
OneStep == ToLegacy \/ ToReflector \/ ToLocal \/ PacketToReflector \/ PacketToLocal \/ Skip

LEMMA StepKeeps ==
  ASSUME IInv, OneStep
  PROVE  /\ Sending /\ next' = next + 1
         /\ UNCHANGED <<clients, parrots, users, came, from>>
         /\ packet'.size \in {packet.size, 54, 55}
         /\ Same(packet', packet)
<1>1. Sending /\ next' = next + 1 /\ UNCHANGED <<clients, parrots, users, came, from>>
  BY DEF OneStep, ToLegacy, ToReflector, ToLocal, PacketToReflector, PacketToLocal, Skip, Advance
<1>2. IsFrame(packet)
  BY <1>1, WhileSending
<1>3. CASE ToLegacy
  <2> DEFINE f == WithDst(packet, This.host)
             g == WithSize(f, 55)
  <2>1. packet' = WithDst(g, came.dst)
    BY <1>3 DEF ToLegacy, WithSize, WithDst
  <2>2. IsFrame(f) /\ Same(f, packet)
    BY <1>2, Addressed
  <2> HIDE DEF f
  <2>3. IsFrame(g) /\ Same(g, f) /\ g.size = 55
    BY <2>2, Resized
  <2> HIDE DEF g
  <2>4. Same(packet', g) /\ packet'.size = g.size
    BY <2>1, <2>3, Addressed
  <2> QED
    BY <1>1, <2>2, <2>3, <2>4 DEF Same
<1>4. CASE ToReflector
  <2>1. packet' = WithSize(packet, 55)
    BY <1>4 DEF ToReflector, WithSize
  <2> QED
    BY <1>1, <1>2, <2>1, Resized
<1>5. CASE ToLocal
  <2>1. packet' = WithSize(packet, 54)
    BY <1>5 DEF ToLocal, WithSize
  <2> QED
    BY <1>1, <1>2, <2>1, Resized
<1>6. CASE PacketToReflector \/ PacketToLocal \/ Skip
  <2>1. packet' = packet
    <3>1. CASE PacketToReflector
      BY <1>2, <3>1, SizeRestored DEF PacketToReflector, WithSize
    <3> QED
      BY <1>6, <3>1 DEF PacketToLocal, Skip
  <2> QED
    BY <1>1, <2>1 DEF Same
<1> QED
  BY <1>3, <1>4, <1>5, <1>6 DEF OneStep

LEMMA StepType ==
  ASSUME IInv, IInv', TInv, OneStep
  PROVE  TInv'
<1>1. /\ Sending /\ next' = next + 1
      /\ UNCHANGED <<clients, parrots, users, came, from>>
      /\ packet'.size \in {packet.size, 54, 55} /\ Same(packet', packet)
  BY StepKeeps
<1>2. Len(clients) \in Nat /\ next \in 1..Len(clients)
  BY <1>1, ListIs DEF TInv, Sending
<1>3. ~Idle /\ ~Idle' /\ next' \in 0..Len(clients') + 1
  BY <1>1, <1>2 DEF Idle
<1>4. packet' # Nothing
  BY <1>3, NotNothing DEF IInv, BufferFits
<1>5. packet'.size \in 0..MaxSize
  <2>1. packet.size \in 0..MaxSize
    BY <1>3 DEF TInv, InTransit
  <2> QED
    BY <1>1, <2>1, MaxSizeAssumption
<1>6. InTransit'
  BY <1>1, <1>3, <1>4, <1>5 DEF TInv, InTransit, Listed, Kind, Nothing, Same
<1>7. Lists' /\ Playbacks' /\ UserList(users')
  BY <1>1 DEF TInv, Lists, Playbacks, Listed
<1> QED
  BY <1>6, <1>7 DEF TInv, UserList

LEMMA DoneType ==
  ASSUME TInv, Done
  PROVE  TInv'
<1>1. /\ next' = 0 /\ packet' = Nothing /\ UNCHANGED <<clients, parrots, users>>
  BY DEF Done
<1>2. InTransit'
  BY <1>1, ListIs DEF TInv, InTransit, Idle, Nothing
<1>3. Lists' /\ Playbacks' /\ UserList(users')
  BY <1>1 DEF TInv, Lists, Playbacks, Listed
<1> QED
  BY <1>2, <1>3 DEF TInv, UserList

LEMMA NextType == IInv /\ TInv /\ [Next]_vars => TInv'
<1> SUFFICES ASSUME IInv, TInv, [Next]_vars PROVE TInv'
  OBVIOUS
<1>1. ASSUME NEW h \in Hosts, Link(h) \/ Unlink(h) \/ StartParrot(h) \/ Relay(h) PROVE TInv'
  BY <1>1, LinkType, UnlinkType, StartParrotType, RelayType
<1>2. ASSUME NEW c \in Client, EndParrot(c) PROVE TInv'
  BY <1>2, EndParrotType
<1>3. CASE OneStep
  BY <1>3, NextInv, StepType
<1>4. CASE Done
  BY <1>4, DoneType
<1>5. CASE UNCHANGED vars
  BY <1>5 DEF vars, TInv, Lists, Playbacks, InTransit, UserList, Listed, Idle, Kind
<1> QED
  BY <1>1, <1>2, <1>3, <1>4, <1>5 DEF Next, SendToClients, OneStep

----------------------------------------------------------------------------
(* The DST.  The list decides: SendToClients goes through it in its order, *)
(* so whom it has served is before whose turn it is.                       *)

LegacyServed == \E t \in sent : Kind(t.to) = "legacy"

DInv ==
  ~Idle => /\ \A s \in sent : \E i \in 1..Len(clients) : i < next /\ clients[i] = s.to
           /\ packet.dst = IF LegacyServed THEN came.dst ELSE Readdressed(came).dst
           /\ \A s \in sent : Kind(s.to) # "legacy" => s.frame.dst = Given(s.to).dst

\* What a branch of SendToClients writes for a legacy reflector it takes back, and
\* for others it leaves the DST of the buffer alone.
LEMMA SendsDst ==
  ASSUME IInv, OneStep, ~Skip
  PROVE  \E m : /\ m.to = This /\ sent' = sent \cup {m}
                /\ packet'.dst = IF Kind(This) = "legacy" THEN came.dst ELSE packet.dst
                /\ Kind(This) # "legacy" => m.frame.dst = packet.dst
<1>1. Sending /\ IsFrame(packet)
  BY StepKeeps, WhileSending
<1>2. CASE ToLegacy
  <2> DEFINE f == WithDst(packet, This.host)
             g == WithSize(f, 55)
             m == [to |-> This, frame |-> g, trailer |-> <<1>>]
  <2>1. sent' = sent \cup {m} /\ packet' = WithDst(g, came.dst) /\ Kind(This) = "legacy"
    BY <1>2 DEF ToLegacy, Send, WithSize, WithDst
  <2>2. IsFrame(f)
    BY <1>1, Addressed
  <2>3. m.to = This
    OBVIOUS
  <2> HIDE DEF f, m
  <2>4. IsFrame(g)
    BY <2>2, Resized
  <2> HIDE DEF g
  <2>5. packet'.dst = came.dst
    BY <2>1, <2>4, Addressed
  <2> QED
    BY <2>1, <2>3, <2>5
<1>3. CASE ToReflector \/ ToLocal
  <2>1. PICK t, n : /\ sent' = sent \cup {[to |-> This, frame |-> packet', trailer |-> t]}
                    /\ packet' = WithSize(packet, n)
    BY <1>3 DEF ToReflector, ToLocal, Send, WithSize
  <2> DEFINE m == [to |-> This, frame |-> packet', trailer |-> t]
  <2>2. m.to = This /\ m.frame = packet' /\ sent' = sent \cup {m}
    BY <2>1
  <2> HIDE DEF m
  <2>3. packet'.dst = packet.dst
    BY <1>1, <2>1, Resized
  <2>4. Kind(This) # "legacy"
    BY <1>3 DEF ToReflector, ToLocal, Local
  <2> QED
    BY <2>2, <2>3, <2>4
<1>4. CASE PacketToReflector
  <2> DEFINE g == WithSize(packet, packet.size + 1)
             m == [to |-> This, frame |-> g, trailer |-> <<from.mod>>]
  <2>1. sent' = sent \cup {m}
    BY <1>4 DEF PacketToReflector, Send, WithSize
  <2>2. packet' = packet
    BY <1>1, <1>4, SizeRestored DEF PacketToReflector, WithSize
  <2>3. g.dst = packet.dst
    BY <1>1, Resized
  <2>4. m.to = This /\ m.frame = g
    OBVIOUS
  <2> HIDE DEF g, m
  <2> QED
    BY <1>4, <2>1, <2>2, <2>3, <2>4 DEF PacketToReflector
<1>5. CASE PacketToLocal
  <2> DEFINE m == [to |-> This, frame |-> packet, trailer |-> <<>>]
  <2>1. sent' = sent \cup {m} /\ packet' = packet
    BY <1>5 DEF PacketToLocal, Send
  <2>2. m.to = This /\ m.frame = packet
    OBVIOUS
  <2> HIDE DEF m
  <2> QED
    BY <1>5, <2>1, <2>2 DEF PacketToLocal, Local
<1> QED
  BY <1>2, <1>3, <1>4, <1>5 DEF OneStep

LEMMA StepDst ==
  ASSUME IInv, TInv, DInv, OneStep
  PROVE  DInv'
<1>1. Sending /\ next' = next + 1 /\ UNCHANGED <<clients, parrots, users, came, from>>
  BY StepKeeps
<1>2. /\ Len(clients) \in Nat /\ next \in 1..Len(clients) /\ DOMAIN clients = 1..Len(clients)
      /\ This = clients[next] /\ ~Idle
  BY <1>1, ListIs DEF TInv, Sending, This, Idle
<1>3. \A c, d : Precedes(c, d)' <=> Precedes(c, d)
  BY <1>1 DEF Precedes
<1>4. \A c : (Readdressed(came)' = Readdressed(came)) /\ (Kind(c)' = Kind(c))
  BY <1>1 DEF Readdressed, Kind
<1>5. \A s \in sent : Precedes(s.to, This) /\ ~Precedes(This, s.to)
  <2> SUFFICES ASSUME NEW s \in sent PROVE Precedes(s.to, This) /\ ~Precedes(This, s.to)
    OBVIOUS
  <2>1. PICK i \in 1..Len(clients) : i < next /\ clients[i] = s.to
    BY <1>2 DEF DInv
  <2>2. \A k, l \in 1..Len(clients) : clients[k] = clients[l] => k = l
    BY <1>2 DEF TInv, Lists, IsInjective
  <2>3. ASSUME NEW k \in 1..Len(clients), NEW l \in 1..Len(clients), k < l,
               clients[k] = This, clients[l] = s.to
        PROVE  FALSE
    <3>1. k = next /\ l = i
      BY <1>2, <2>1, <2>2, <2>3
    <3> QED
      BY <1>2, <2>1, <2>3, <3>1
  <2> QED
    BY <1>2, <2>1, <2>3 DEF Precedes
<1>6. CASE Skip
  <2>1. packet' = packet /\ sent' = sent
    BY <1>6 DEF Skip
  <2>2. \A c : Given(c)' = Given(c)
    BY <1>1, <1>3, <1>4, <2>1 DEF Given
  <2>3. LegacyServed' <=> LegacyServed
    BY <1>4, <2>1 DEF LegacyServed
  <2>4. \A s \in sent' : \E i \in 1..Len(clients') : i < next' /\ clients'[i] = s.to
    <3> SUFFICES ASSUME NEW s \in sent
                 PROVE  \E i \in 1..Len(clients) : i < next + 1 /\ clients[i] = s.to
      BY <1>1, <2>1
    <3>1. PICK i \in 1..Len(clients) : i < next /\ clients[i] = s.to
      BY <1>2 DEF DInv
    <3> QED
      BY <1>2, <3>1
  <2> QED
    BY <1>1, <1>2, <1>4, <2>1, <2>2, <2>3, <2>4 DEF DInv
<1>7. CASE ~Skip
  <2>1. PICK m : /\ m.to = This /\ sent' = sent \cup {m}
                 /\ packet'.dst = IF Kind(This) = "legacy" THEN came.dst ELSE packet.dst
                 /\ Kind(This) # "legacy" => m.frame.dst = packet.dst
    BY <1>7, SendsDst
  <2>2. \A s \in sent' : \E i \in 1..Len(clients') : i < next' /\ clients'[i] = s.to
    <3> SUFFICES ASSUME NEW s \in sent'
                 PROVE  \E i \in 1..Len(clients) : i < next + 1 /\ clients[i] = s.to
      BY <1>1
    <3>1. CASE s \in sent
      <4>1. PICK i \in 1..Len(clients) : i < next /\ clients[i] = s.to
        BY <1>2, <3>1 DEF DInv
      <4> QED
        BY <1>2, <4>1
    <3>2. CASE s = m
      BY <1>2, <2>1, <3>2
    <3> QED
      BY <2>1, <3>1, <3>2
  <2>3. LegacyServed' <=> LegacyServed \/ Kind(This) = "legacy"
    BY <1>4, <2>1 DEF LegacyServed
  <2>4. packet'.dst = IF LegacyServed' THEN came.dst ELSE Readdressed(came).dst
    BY <1>2, <2>1, <2>3 DEF DInv
  <2>5. \A s \in sent : Given(s.to)' = Given(s.to)
    BY <1>1, <1>3, <1>4, <1>5, <2>1 DEF Given
  <2>6. Kind(m.to) # "legacy" =>
          Given(m.to)' = IF LegacyServed THEN came ELSE Readdressed(came)
    <3>1. \A s \in sent' : Kind(s.to) = "legacy" /\ Kind(m.to) # "legacy"
                            => s \in sent /\ Precedes(s.to, m.to)
      BY <1>5, <2>1
    <3> QED
      BY <1>1, <1>3, <1>4, <1>5, <2>1, <3>1 DEF Given, LegacyServed
  <2>7. ASSUME NEW s \in sent', Kind(s.to) # "legacy"
        PROVE  s.frame.dst = Given(s.to)'.dst
    <3>1. CASE s \in sent
      BY <1>2, <2>5, <2>7, <3>1 DEF DInv
    <3>2. CASE s = m
      BY <1>2, <2>1, <2>6, <2>7, <3>2 DEF DInv
    <3> QED
      BY <2>1, <3>1, <3>2
  <2> QED
    BY <1>1, <1>4, <2>2, <2>4, <2>7 DEF DInv
<1> QED
  BY <1>6, <1>7

LEMMA NextDst == IInv /\ TInv /\ DInv /\ [Next]_vars => DInv'
<1> SUFFICES ASSUME IInv, TInv, DInv, [Next]_vars PROVE DInv'
  OBVIOUS
<1>1. ASSUME NEW h \in Hosts, Link(h) \/ Unlink(h) \/ StartParrot(h) PROVE DInv'
  BY <1>1 DEF Link, Unlink, StartParrot, Accepted, frameVars, Idle, DInv
<1>2. ASSUME NEW h \in Hosts, Relay(h) PROVE DInv'
  <2>1. packet' = Readdressed(came') /\ sent' = {}
    BY <1>2 DEF Relay, Accepted, IInv, NothingSent
  <2> QED
    BY <2>1 DEF DInv, LegacyServed, Readdressed
<1>3. ASSUME NEW c \in Client, EndParrot(c) PROVE DInv'
  BY <1>3 DEF EndParrot, frameVars, Idle, DInv
<1>4. CASE OneStep
  BY <1>4, StepDst
<1>5. CASE Done
  BY <1>5 DEF Done, DInv, Idle
<1>6. CASE UNCHANGED vars
  BY <1>6 DEF vars, DInv, LegacyServed, Given, Readdressed, Precedes, Kind, Idle
<1> QED
  BY <1>1, <1>2, <1>3, <1>4, <1>5, <1>6 DEF Next, SendToClients, OneStep

LEMMA Invariants == Spec => [](IInv /\ TInv /\ DInv)
<1>1. Init => IInv /\ TInv /\ DInv
  BY InitInv, InitType DEF Init, DInv, Idle
<1> QED
  BY <1>1, NextInv, NextType, NextDst, PTL DEF Spec

LEMMA TypeFollows == IInv /\ TInv /\ DInv => TypeOK
<1> SUFFICES ASSUME IInv, TInv, DInv PROVE TypeOK
  OBVIOUS
<1>1. \A c \in DOMAIN parrots : parrots[c].type \in 0..2^16 - 1
  BY ParrotTypeClean DEF TInv, Playbacks, Types
<1>2. ~Idle => packet.size <= MaxSize /\ came \in Frame /\ from \in Listed
  BY MaxSizeAssumption DEF TInv, InTransit
<1>3. ASSUME NEW s \in sent PROVE s.frame.size <= MaxSize + 1
  <2>1. ~Idle
    BY DEF IInv, NothingSent
  <2>2. came.size \in 0..MaxSize
    BY <2>1 DEF TInv, InTransit, Frame
  <2>3. s.to \in Client
    BY <2>1, ListIs DEF DInv, TInv
  <2>4. Kind(s.to) \in {"simple", "listenonly", "reflector", "legacy"}
    BY <2>3, KindAssumption DEF Client, Kind, Kinds
  <2>5. s.frame.size \in {54, 55, came.size, came.size + 1}
    BY <2>4 DEF IInv, Fits, Right, Local
  <2> QED
    BY <2>2, <2>5, MaxSizeAssumption
<1> QED
  BY <1>1, <1>2, <1>3 DEF TypeOK, TInv, Lists, Playbacks, InTransit, UserList

\* A client is in the list once, a playback belongs to one that is in the list, and
\* what is sent is at most one byte longer than the buffer.
THEOREM TypeCorrect == Spec => []TypeOK
BY Invariants, TypeFollows, PTL

\* Whoever was served before it, a client receives the size that its kind expects,
\* a reflector the module, a legacy reflector its own callsign, and nobody a
\* checksum that SendToClients has spoilt; the others receive the DST as OnPacketIn
\* made it if no legacy reflector was served before them, and as it came otherwise.
THEOREM MadeForReceiver == Spec => []RightForReceiver
<1>1. IInv /\ TInv /\ DInv => RightForReceiver
  <2> SUFFICES ASSUME IInv, DInv, NEW s \in sent
               PROVE  Right(s) /\ (Kind(s.to) # "legacy" => s.frame.dst = Given(s.to).dst)
    BY DEF RightForReceiver, Right
  <2> QED
    BY DEF IInv, Fits, DInv, NothingSent
<1> QED
  BY <1>1, Invariants, PTL

\* What a parrot plays has the form, the payload, the channel access number and the
\* lowest bit of what it was given, and neither cipher nor signature in its TYPE,
\* unless it is a packet that goes back with the TYPE it came with.
THEOREM CleanPlayback == Spec => []PlaybackClean
<1>1. IInv /\ TInv /\ DInv => PlaybackClean
  BY ParrotTypeClean DEF TInv, Playbacks, PlaybackClean
<1> QED
  BY <1>1, Invariants, PTL
----------------------------------------------------------------------------
(* Module Broadcast.                                                       *)

\* The guards of SendToClients, taken together, choose the kinds that are promised
\* the frame, for a sender that is no listener.
LEMMA Branches ==
  ASSUME NEW sender \in Kinds \ {"listenonly"}, NEW kind \in Kinds, NEW stream
  PROVE  kind \in Promise!Reached(sender, stream) <=>
           ~ \/ kind \notin {"simple", "listenonly"} /\ sender # "simple"
             \/ ~stream /\ (kind = "legacy" \/ sender = "legacy")
BY DEF Kinds, Promise!Reached, Promise!Stations

\* What each branch sends, but Skip: to the client whose turn it is, whom no other
\* branch would serve, the frame as it came.
LEMMA Sends ==
  ASSUME IInv, OneStep, ~Skip
  PROVE  /\ Concerned(This) /\ ~ForOthers(This)
         /\ \E m : m.to = This /\ Same(m.frame, packet) /\ sent' = sent \cup {m}
<1>1. Sending /\ IsFrame(packet) /\ Same(packet', packet)
  BY StepKeeps, WhileSending
<1>2. CASE ToLegacy
  <2> DEFINE f == WithDst(packet, This.host)
             g == WithSize(f, 55)
             m == [to |-> This, frame |-> g, trailer |-> <<1>>]
  <2>1. sent' = sent \cup {m}
    BY <1>2 DEF ToLegacy, Send, WithSize, WithDst
  <2>2. IsFrame(f) /\ Same(f, packet)
    BY <1>1, Addressed
  <2>3. m.to = This /\ m.frame = g
    OBVIOUS
  <2> HIDE DEF f, m
  <2>4. Same(g, f)
    BY <2>2, Resized
  <2>5. Same(m.frame, packet)
    BY <2>2, <2>3, <2>4 DEF Same
  <2> QED
    BY <1>2, <2>1, <2>3, <2>5 DEF ToLegacy, ForOthers, FromStation
<1>3. CASE ToReflector \/ ToLocal
  <2>1. PICK t : sent' = sent \cup {[to |-> This, frame |-> packet', trailer |-> t]}
    BY <1>3 DEF ToReflector, ToLocal, Send
  <2> DEFINE m == [to |-> This, frame |-> packet', trailer |-> t]
  <2>2. m.to = This /\ m.frame = packet'
    OBVIOUS
  <2> HIDE DEF m
  <2> QED
    BY <1>1, <1>3, <2>1, <2>2 DEF ToReflector, ToLocal, ForOthers, FromStation, m
<1>4. CASE PacketToReflector
  <2> DEFINE g == WithSize(packet, packet.size + 1)
             m == [to |-> This, frame |-> g, trailer |-> <<from.mod>>]
  <2>1. sent' = sent \cup {m}
    BY <1>4 DEF PacketToReflector, Send, WithSize
  <2>2. Same(g, packet)
    BY <1>1, Resized
  <2>3. m.to = This /\ m.frame = g
    OBVIOUS
  <2> HIDE DEF g, m
  <2> QED
    BY <1>4, <2>1, <2>2, <2>3 DEF PacketToReflector, ForOthers, FromStation, Local
<1>5. CASE PacketToLocal
  <2> DEFINE m == [to |-> This, frame |-> packet, trailer |-> <<>>]
  <2>1. sent' = sent \cup {m}
    BY <1>5 DEF PacketToLocal, Send
  <2>2. m.to = This /\ m.frame = packet
    OBVIOUS
  <2> HIDE DEF m
  <2> QED
    BY <1>5, <2>1, <2>2 DEF PacketToLocal, ForOthers, Local, Same
<1> QED
  BY <1>2, <1>3, <1>4, <1>5 DEF OneStep

\* Who waits does so in the part of the list that the loop has yet to go through.
LEMMA StepWaiting ==
  ASSUME IInv, TInv, OneStep
  PROVE  /\ ~Idle /\ ~Idle'
         /\ Waiting' = Waiting \ {This}
         /\ This \in Waiting <=> Concerned(This) /\ ~ForOthers(This)
<1>1. /\ Sending /\ next' = next + 1
      /\ UNCHANGED <<clients, parrots, users, came, from>> /\ Same(packet', packet)
  BY StepKeeps
<1>2. /\ Len(clients) \in Nat /\ next \in 1..Len(clients)
      /\ DOMAIN clients = 1..Len(clients) /\ Listed = {clients[i] : i \in 1..Len(clients)}
  BY <1>1, ListIs DEF TInv, Sending
<1>3. ~Idle /\ ~Idle'
  BY <1>1, <1>2 DEF Idle
<1>4. \A i, j \in 1..Len(clients) : clients[i] = clients[j] => i = j
  BY <1>2 DEF TInv, Lists, IsInjective
<1>5. \A c : (Concerned(c) /\ ~ForOthers(c))' <=> Concerned(c) /\ ~ForOthers(c)
  BY <1>1 DEF Concerned, ForOthers, Local, FromStation, Kind, Same
<1>6. ASSUME NEW c
      PROVE  (\E i \in next + 1..Len(clients) : clients[i] = c) <=>
               c # This /\ \E i \in next..Len(clients) : clients[i] = c
  <2>1. \A i \in next..Len(clients) : i = next \/ i \in next + 1..Len(clients)
    BY <1>2
  <2>2. \A i \in next + 1..Len(clients) : /\ i \in next..Len(clients) /\ i # next
                                          /\ i \in 1..Len(clients)
    BY <1>2
  <2> QED
    BY <1>2, <1>4, <2>1, <2>2 DEF This
<1>7. Listed' = Listed /\ clients' = clients /\ next' = next + 1
  BY <1>1 DEF Listed
<1>8. This \in Listed /\ \E i \in next..Len(clients) : clients[i] = This
  BY <1>2 DEF This
<1> HIDE DEF Concerned, ForOthers
<1>9. Waiting' = Waiting \ {This}
  BY <1>3, <1>5, <1>6, <1>7 DEF Waiting
<1> QED
  BY <1>3, <1>8, <1>9 DEF Waiting

\* One turn of the loop delivers the frame to a client that waits for it, or leaves
\* all as it was.
LEMMA StepDelivers ==
  ASSUME IInv, TInv, OneStep
  PROVE  Promise!Next \/ UNCHANGED Promise!vars
<1>1. /\ Sending /\ UNCHANGED <<clients, parrots, users, came, from>>
  BY StepKeeps
<1>2. /\ ~Idle /\ ~Idle' /\ Waiting' = Waiting \ {This}
      /\ This \in Waiting <=> Concerned(This) /\ ~ForOthers(This)
  BY StepWaiting
<1>3. Listed' = Listed /\ (DOMAIN parrots)' = DOMAIN parrots /\ UnderWay' = UnderWay
  BY <1>1, <1>2 DEF Listed, UnderWay, Passed
<1>4. CASE Skip
  <2>1. sent' = sent /\ This \notin Waiting
    BY <1>2, <1>4 DEF Skip
  <2>2. Delivered' = Delivered
    BY <1>1, <2>1 DEF Delivered, Passed
  <2> QED
    BY <1>2, <1>3, <2>1, <2>2 DEF Promise!vars
<1>5. CASE ~Skip
  <2>1. PICK m : m.to = This /\ Same(m.frame, packet) /\ sent' = sent \cup {m}
    BY <1>5, Sends
  <2>2. This \in Waiting
    BY <1>2, <1>5, Sends
  <2>3. Same(packet, came)
    BY <1>2 DEF TInv, InTransit
  <2>4. Passed(m.frame) = Passed(came) /\ UnderWay = {Passed(came)}
    BY <1>2, <2>1, <2>3 DEF Passed, Same, UnderWay
  <2>5. \A f : Passed(f)' = Passed(f)
    BY <1>1 DEF Passed
  <2>6. Delivered' = Delivered \cup {[to |-> This, of |-> Passed(came)]}
    <3>1. Delivered' = {[to |-> s.to, of |-> Passed(s.frame)] : s \in sent'}
      BY <1>1 DEF Delivered, Passed
    <3> HIDE DEF Passed
    <3> QED
      BY <2>1, <2>4, <3>1 DEF Delivered
  <2>7. Delivered' = Delivered \cup {[to |-> This, of |-> f] : f \in UnderWay}
    BY <2>4, <2>6
  <2>8. Promise!Deliver(This)
    BY <1>2, <1>3, <2>2, <2>7 DEF Promise!Deliver
  <2>9. This \in Listed
    BY <2>2 DEF Waiting
  <2> QED
    BY <2>8, <2>9 DEF Promise!Next
<1> QED
  BY <1>4, <1>5

\* Those who will be sent the frame are those to whom it is promised.
LEMMA RelayAccepts ==
  ASSUME IInv, TInv, NEW h \in Hosts, Relay(h)
  PROVE  Promise!Next
<1>1. /\ next' = 1 /\ Idle /\ UNCHANGED <<clients, parrots, sent>>
  BY DEF Relay, Accepted
<1>2. TInv' /\ ~Idle'
  BY <1>1, RelayType DEF Idle
<1>3. sent = {}
  BY <1>1 DEF IInv, NothingSent
<1>4. Delivered' = Delivered
  BY <1>1, <1>3 DEF Delivered
<1> DEFINE f == Passed(came)'
<1>5. f.from = from' /\ f.stream = came'.stream
  BY DEF Passed
<1>6. UnderWay = {} /\ UnderWay' = {f}
  BY <1>1, <1>2 DEF UnderWay
<1> HIDE DEF f
<1>7. /\ Listed' = Listed /\ (DOMAIN parrots)' = DOMAIN parrots
      /\ Len(clients) \in Nat /\ Listed = {clients[i] : i \in 1..Len(clients)} /\ Listed \subseteq Client
  BY <1>1, ListIs DEF TInv, Listed
<1>8. from' \in Listed /\ Kind(from)' # "listenonly" /\ packet'.stream = came'.stream
  BY <1>2, <1>7 DEF TInv, InTransit, Same
<1>9. Kind(from') \in Kinds \ {"listenonly"}
  BY <1>7, <1>8, KindAssumption DEF Client, Kind
<1>10. ASSUME NEW c \in Listed
       PROVE  (Concerned(c) /\ ~ForOthers(c))' <=>
                /\ c # from' /\ c.mod = from'.mod
                /\ Kind(c) \in Promise!Reached(Kind(from'), came'.stream)
                /\ came'.stream => c \notin DOMAIN parrots
  <2>1. Kind(c) \in Kinds
    BY <1>7, KindAssumption DEF Client, Kind
  <2>2. ForOthers(c)' <=>
          \/ Kind(c) \notin {"simple", "listenonly"} /\ Kind(from') # "simple"
          \/ ~came'.stream /\ (Kind(c) = "legacy" \/ Kind(from') = "legacy")
    BY <1>8 DEF ForOthers, Local, FromStation, Kind
  <2>3. Concerned(c)' <=> /\ c.mod = from'.mod /\ c # from'
                          /\ came'.stream => c \notin DOMAIN parrots
    BY <1>1, <1>8 DEF Concerned
  <2> QED
    BY <1>9, <2>1, <2>2, <2>3, Branches
<1>11. Waiting' = Promise!Audience(f)
  <2>1. \A c \in Listed : \E i \in next'..Len(clients') : clients'[i] = c
    BY <1>1, <1>7
  <2>2. Waiting' = {c \in Listed : (Concerned(c) /\ ~ForOthers(c))'}
    BY <1>2, <1>7, <2>1 DEF Waiting
  <2>3. Promise!Audience(f) =
          {c \in Listed : /\ c # from' /\ c.mod = from'.mod
                          /\ Kind(c) \in Promise!Reached(Kind(from'), came'.stream)
                          /\ came'.stream => c \notin DOMAIN parrots}
    BY <1>5 DEF Promise!Audience, Kind
  <2> QED
    BY <1>10, <2>2, <2>3
<1>12. Promise!Accept(f)
  BY <1>4, <1>5, <1>6, <1>7, <1>8, <1>11 DEF Promise!Accept
<1> QED
  BY <1>6, <1>12 DEF Promise!Next

\* Who comes and goes finds nothing under way.
LEMMA QuietSteps ==
  ASSUME Idle, UNCHANGED frameVars
  PROVE  Promise!Quiet
<1>1. Idle'
  BY DEF Idle, frameVars
<1>2. UnderWay = {} /\ UnderWay' = {} /\ Waiting = {} /\ Waiting' = {}
  BY <1>1 DEF UnderWay, Waiting
<1>3. Delivered' = Delivered
  BY DEF Delivered, Passed, frameVars
<1> QED
  BY <1>2, <1>3 DEF Promise!Quiet

LEMMA NextPromised == IInv /\ TInv /\ [Next]_vars => Promise!Next \/ UNCHANGED Promise!vars
<1> SUFFICES ASSUME IInv, TInv, [Next]_vars PROVE Promise!Next \/ UNCHANGED Promise!vars
  OBVIOUS
<1>1. ASSUME NEW h \in Hosts, Link(h) PROVE Promise!Next
  <2>1. Promise!Quiet
    BY <1>1, QuietSteps DEF Link
  <2>2. Listed \subseteq Listed' /\ \A c \in Listed' \ Listed : c.host = h
    BY <1>1, LinkType
  <2>3. \A c \in Listed : c.host # h
    BY <1>1 DEF Link, ClientsAt
  <2>4. (DOMAIN parrots)' = DOMAIN parrots
    BY <1>1 DEF Link
  <2> QED
    BY <2>1, <2>2, <2>3, <2>4 DEF Promise!Next, Promise!Join
<1>2. ASSUME NEW h \in Hosts, Unlink(h) PROVE Promise!Next
  <2>1. Promise!Quiet
    BY <1>2, QuietSteps DEF Unlink
  <2>2. Listed' = {c \in Listed : c.host # h}
    BY <1>2, UnlinkType DEF ClientsAt
  <2>3. (DOMAIN parrots)' = {c \in DOMAIN parrots : c.host # h}
    BY <1>2 DEF Unlink, Restrict
  <2> QED
    BY <2>1, <2>2, <2>3 DEF Promise!Next, Promise!Leave
<1>3. ASSUME NEW h \in Hosts, StartParrot(h) PROVE Promise!Next
  <2>1. Promise!Quiet
    BY <1>3, QuietSteps DEF StartParrot, Accepted
  <2>2. PICK c \in Listed : c \notin DOMAIN parrots /\ (DOMAIN parrots)' = DOMAIN parrots \cup {c}
    BY <1>3 DEF StartParrot
  <2>3. Listed' = Listed
    BY <1>3 DEF StartParrot, Listed
  <2> QED
    BY <2>1, <2>2, <2>3 DEF Promise!Next, Promise!Occupy
<1>4. ASSUME NEW c \in Client, EndParrot(c) PROVE Promise!Next
  <2>1. Promise!Quiet
    BY <1>4, QuietSteps DEF EndParrot
  <2>2. c \in Listed /\ (DOMAIN parrots)' = DOMAIN parrots \ {c}
    BY <1>4 DEF EndParrot, Restrict, TInv, Playbacks
  <2>3. Listed' = Listed
    BY <1>4 DEF EndParrot, Listed
  <2> QED
    BY <2>1, <2>2, <2>3 DEF Promise!Next, Promise!Free
<1>5. ASSUME NEW h \in Hosts, Relay(h) PROVE Promise!Next
  BY <1>5, RelayAccepts
<1>6. CASE OneStep
  BY <1>6, StepDelivers
<1>7. CASE Done
  <2>1. Len(clients) \in Nat /\ next \in 0..Len(clients) + 1
    BY ListIs DEF TInv, InTransit
  <2>2. ~Idle /\ Idle' /\ \A i \in next..Len(clients) : FALSE
    BY <1>7, <2>1 DEF Done, Idle
  <2>3. UnderWay # {} /\ UnderWay' = {} /\ Waiting = {} /\ Waiting' = {}
    BY <2>2 DEF UnderWay, Waiting
  <2>4. Delivered' = {} /\ Listed' = Listed /\ (DOMAIN parrots)' = DOMAIN parrots
    BY <1>7 DEF Done, Delivered, Listed
  <2> QED
    BY <2>3, <2>4 DEF Promise!Next, Promise!Finish
<1>8. CASE UNCHANGED vars
  BY <1>8 DEF vars, Promise!vars, Listed, UnderWay, Waiting, Delivered, Passed, Idle,
              Concerned, ForOthers, Local, FromStation, Kind
<1> QED
  BY <1>1, <1>2, <1>3, <1>4, <1>5, <1>6, <1>7, <1>8 DEF Next, SendToClients, OneStep

\* The relay keeps the promise of module Broadcast: when the next frame comes, the
\* last one has been given once and unaltered to everybody for whom it was meant,
\* and to nobody else, whatever the order of the list and whoever shares the buffer.
THEOREM BroadcastKept == Spec => ImplementsBroadcast
<1>1. Init => Promise!Init
  BY DEF Init, Promise!Init, Listed, ToSet, UnderWay, Waiting, Delivered, Idle
<1>2. Init => IInv /\ TInv
  BY InitInv, InitType
<1>3. IInv /\ TInv /\ [Next]_vars => (IInv /\ TInv)'
  BY NextInv, NextType
<1> QED
  BY <1>1, <1>2, <1>3, NextPromised, PTL DEF Spec, ImplementsBroadcast, Promise!Spec

----------------------------------------------------------------------------
(* Who was heard.                                                          *)

RecentStep ==
  /\ Reports => users' # <<>> /\ Head(users') = came'.heard
  /\ users' # users => Reports /\ IsInjective(users') /\ Len(users') <= MaxUsers
  /\ \A i \in DOMAIN users :
       Contains(users', users[i]) \/ (i = MaxUsers /\ Len(users) = MaxUsers)
  /\ \A i, j \in DOMAIN users : \A k, l \in 2..Len(users') :
       users'[k] = users[i] /\ users'[l] = users[j] => (i < j <=> k < l)

LEMMA NoReport ==
  ASSUME UserList(users), users' = users, ~Reports
  PROVE  RecentStep
<1>1. Len(users) \in Nat /\ DOMAIN users = 1..Len(users)
  BY LenProperties DEF UserList
<1>2. \A i, k \in DOMAIN users : users[k] = users[i] => k = i
  BY DEF UserList, IsInjective
<1>3. \A k \in 2..Len(users) : k \in DOMAIN users
  BY <1>1
<1> QED
  BY <1>1, <1>2, <1>3 DEF RecentStep, Contains

LEMMA StepRecent == TInv /\ [Next]_vars => RecentStep
<1> SUFFICES ASSUME TInv, [Next]_vars PROVE RecentStep
  OBVIOUS
<1>1. UserList(users)
  BY DEF TInv
<1>2. ASSUME NEW h \in Hosts, Relay(h) PROVE RecentStep
  <2>1. IF came'.heard = Nobody THEN users' = users
                                ELSE Reported(users', users, came'.heard)
    BY <1>2, RelayType
  <2>2. Idle /\ next' = 1
    BY <1>2 DEF Relay, Accepted
  <2>3. CASE came'.heard = Nobody
    BY <1>1, <2>1, <2>3, NoReport DEF Reports
  <2>4. CASE came'.heard # Nobody
    BY <2>1, <2>2, <2>4 DEF Reported, UserList, RecentStep, Reports
  <2> QED
    BY <2>3, <2>4
<1>3. ASSUME NEW h \in Hosts, Link(h) \/ Unlink(h) \/ StartParrot(h) PROVE RecentStep
  <2>1. users' = users /\ ~Reports
    BY <1>3 DEF Link, Unlink, StartParrot, Reports, Idle, frameVars
  <2> QED
    BY <1>1, <2>1, NoReport
<1>4. ASSUME NEW c \in Client, EndParrot(c) PROVE RecentStep
  <2>1. users' = users /\ ~Reports
    BY <1>4 DEF EndParrot, Reports, Idle, frameVars
  <2> QED
    BY <1>1, <2>1, NoReport
<1>5. CASE SendToClients
  <2>1. users' = users
    BY <1>5 DEF SendToClients, ToLegacy, ToReflector, ToLocal, PacketToReflector,
                PacketToLocal, Skip, Advance, Done
  <2>2. ~Idle \/ next' = 0
    BY <1>5 DEF SendToClients, ToLegacy, ToReflector, ToLocal, PacketToReflector,
                PacketToLocal, Skip, Sending, Idle, Done
  <2> QED
    BY <1>1, <2>1, <2>2, NoReport DEF Reports
<1>6. CASE UNCHANGED vars
  BY <1>1, <1>6, NoReport DEF vars, Reports, Idle
<1> QED
  BY <1>2, <1>3, <1>4, <1>5, <1>6 DEF Next

\* A report puts its source in front of the list, keeps the order of the others and
\* drops nobody but the last one of a full list; nothing else changes the list.
THEOREM LastHeardFirst == Spec => RecentFirst
<1>1. Init => IInv /\ TInv
  BY InitInv, InitType
<1>2. IInv /\ TInv /\ [Next]_vars => (IInv /\ TInv)'
  BY NextInv, NextType
<1>3. Spec => [][RecentStep]_vars
  BY <1>1, <1>2, StepRecent, PTL DEF Spec
<1> QED
  BY <1>3 DEF RecentFirst, RecentStep
=============================================================================
