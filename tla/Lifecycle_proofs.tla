-------------------------- MODULE Lifecycle_proofs --------------------------
(***************************************************************************)
(* Types, sockets, threads and mutexes over the life of the program, for   *)
(* any configuration files, any answers of the web page and any number of  *)
(* tries.                                                                  *)
(***************************************************************************)
EXTENDS Lifecycle, SequenceTheorems, TLAPS

----------------------------------------------------------------------------
(* The order of mutexes in an operation.                                   *)

PlainStep == [do : {"lock", "unlock", "section"}, on : Locks] \cup [do : {"use"}, on : {Nobody}]
SectionStep == [do : {"section"}, on : Locks]
UnlockStep(l) == [do |-> "unlock", on |-> l]

\* s leaves the mutexes L taken and touches none but P: every other one that it
\* takes it releases, and until then it does not want it again.
Nested(s, L, P) ==
  /\ s \in Seq(PlainStep)
  /\ \A i \in 1..Len(s) : s[i].on \in P \cup {Nobody}
  /\ \A i \in 1..Len(s) : s[i].do = "lock" =>
       \/ s[i].on \in L /\ \A k \in i+1..Len(s) : s[k].on # s[i].on
       \/ \E j \in i+1..Len(s) : /\ s[j] = UnlockStep(s[i].on)
                                 /\ \A k \in i+1..j-1 : s[k].on # s[i].on

LEMMA NestedOne ==
  ASSUME NEW l \in Locks
  PROVE  /\ Nested(Lock(l), {l}, {l}) /\ Nested(Section(l), {}, {l})
         /\ Nested(UseSocket, {}, {})
BY DEF Nested, Lock, Section, UseSocket, PlainStep

LEMMA NestedJoin ==
  ASSUME NEW L \in SUBSET Locks, NEW P \in SUBSET Locks, NEW M \in SUBSET Locks,
         NEW Q \in SUBSET Locks, NEW a, Nested(a, L, P), NEW b, Nested(b, M, Q),
         L \cap Q = {}
  PROVE  Nested(a \o b, L \cup M, P \cup Q)
<1> DEFINE s == a \o b
<1>1. /\ a \in Seq(PlainStep) /\ b \in Seq(PlainStep) /\ s \in Seq(PlainStep)
      /\ Len(a) \in Nat /\ Len(b) \in Nat /\ Len(s) = Len(a) + Len(b)
  BY DEF Nested
<1>2. /\ \A i \in 1..Len(a) : s[i] = a[i]
      /\ \A i \in 1..Len(b) : s[Len(a) + i] = b[i]
      /\ \A i \in Len(a)+1..Len(s) : i - Len(a) \in 1..Len(b) /\ s[i] = b[i - Len(a)]
  BY <1>1
<1> HIDE DEF s
<1>3. \A i \in 1..Len(s) : s[i].on \in P \cup Q \cup {Nobody}
  BY <1>1, <1>2 DEF Nested
<1>4. ASSUME NEW i \in 1..Len(a), s[i].do = "lock"
      PROVE  \/ s[i].on \in L \cup M /\ \A k \in i+1..Len(s) : s[k].on # s[i].on
             \/ \E j \in i+1..Len(s) : /\ s[j] = UnlockStep(s[i].on)
                                       /\ \A k \in i+1..j-1 : s[k].on # s[i].on
  <2>1. s[i] = a[i] /\ a[i] \in PlainStep /\ a[i].on \in Locks
    BY <1>1, <1>2, <1>4 DEF PlainStep
  <2>2. CASE a[i].on \in L /\ \A k \in i+1..Len(a) : a[k].on # a[i].on
    <3>1. ASSUME NEW k \in i+1..Len(s) PROVE s[k].on # s[i].on
      <4>1. CASE k <= Len(a)
        BY <1>1, <1>2, <2>1, <2>2, <4>1
      <4>2. CASE k > Len(a)
        <5>1. s[k].on \in Q \cup {Nobody}
          <6>1. k \in Len(a)+1..Len(s)
            BY <1>1, <4>2
          <6>2. k - Len(a) \in 1..Len(b) /\ s[k] = b[k - Len(a)]
            BY <1>2, <6>1
          <6>3. b[k - Len(a)].on \in Q \cup {Nobody}
            BY <6>2 DEF Nested
          <6> QED
            BY <6>2, <6>3
        <5> QED
          BY <2>1, <2>2, <5>1 DEF Locks, Nobody
      <4> QED
        BY <1>1, <4>1, <4>2
    <3> QED
      BY <2>1, <2>2, <3>1
  <2>3. CASE \E j \in i+1..Len(a) : /\ a[j] = UnlockStep(a[i].on)
                                    /\ \A k \in i+1..j-1 : a[k].on # a[i].on
    <3>1. PICK j \in i+1..Len(a) : /\ a[j] = UnlockStep(a[i].on)
                                   /\ \A k \in i+1..j-1 : a[k].on # a[i].on
      BY <2>3
    <3>2. j \in i+1..Len(s) /\ s[j] = UnlockStep(s[i].on)
      BY <1>1, <1>2, <2>1, <3>1
    <3>3. ASSUME NEW k \in i+1..j-1 PROVE s[k].on # s[i].on
      <4>1. k \in 1..Len(a) /\ a[k].on # a[i].on
        BY <1>1, <3>1
      <4> QED
        BY <1>2, <2>1, <4>1
    <3> QED
      BY <3>2, <3>3
  <2> QED
    BY <1>4, <2>1, <2>2, <2>3 DEF Nested
<1>5. ASSUME NEW i \in Len(a)+1..Len(s), s[i].do = "lock"
      PROVE  \/ s[i].on \in L \cup M /\ \A k \in i+1..Len(s) : s[k].on # s[i].on
             \/ \E j \in i+1..Len(s) : /\ s[j] = UnlockStep(s[i].on)
                                       /\ \A k \in i+1..j-1 : s[k].on # s[i].on
  <2> DEFINE n == i - Len(a)
  <2>1. n \in 1..Len(b) /\ s[i] = b[n]
    BY <1>2
  <2>2. CASE b[n].on \in M /\ \A k \in n+1..Len(b) : b[k].on # b[n].on
    <3>1. ASSUME NEW k \in i+1..Len(s) PROVE s[k].on # s[i].on
      <4>1. k - Len(a) \in n+1..Len(b) /\ s[k] = b[k - Len(a)]
        BY <1>1, <1>2
      <4> QED
        BY <2>1, <2>2, <4>1
    <3> QED
      BY <2>1, <2>2, <3>1
  <2>3. CASE \E j \in n+1..Len(b) : /\ b[j] = UnlockStep(b[n].on)
                                    /\ \A k \in n+1..j-1 : b[k].on # b[n].on
    <3>1. PICK j \in n+1..Len(b) : /\ b[j] = UnlockStep(b[n].on)
                                   /\ \A k \in n+1..j-1 : b[k].on # b[n].on
      BY <2>3
    <3>2. Len(a) + j \in i+1..Len(s) /\ s[Len(a) + j] = UnlockStep(s[i].on)
      BY <1>1, <1>2, <2>1, <3>1
    <3>3. ASSUME NEW k \in i+1..Len(a)+j-1 PROVE s[k].on # s[i].on
      <4>1. k - Len(a) \in n+1..j-1 /\ k \in Len(a)+1..Len(s)
        BY <1>1, <2>1, <3>1
      <4>2. s[k] = b[k - Len(a)]
        BY <1>2, <4>1
      <4> QED
        BY <2>1, <3>1, <4>1, <4>2
    <3> QED
      BY <3>2, <3>3
  <2> QED
    BY <1>5, <2>1, <2>2, <2>3 DEF Nested
<1>6. \A i \in 1..Len(s) : i \in 1..Len(a) \/ i \in Len(a)+1..Len(s)
  BY <1>1
<1>7. s \in Seq(PlainStep)
  BY <1>1
<1> QED
  BY <1>3, <1>4, <1>5, <1>6, <1>7 DEF Nested, s

LEMMA NestedUnlock ==
  ASSUME NEW L \in SUBSET Locks, NEW P \in SUBSET Locks, NEW a, Nested(a, L, P), NEW l \in Locks
  PROVE  Nested(a \o Unlock(l), L \ {l}, P \cup {l})
<1> DEFINE s == a \o Unlock(l)
<1>1. /\ a \in Seq(PlainStep) /\ UnlockStep(l) \in PlainStep /\ Unlock(l) = <<UnlockStep(l)>>
      /\ Len(a) \in Nat
  BY DEF Nested, PlainStep, Unlock, UnlockStep
<1>2. /\ s \in Seq(PlainStep) /\ Len(s) = Len(a) + 1
      /\ \A i \in 1..Len(a) : s[i] = a[i]
      /\ s[Len(a) + 1] = UnlockStep(l)
  BY <1>1
<1> HIDE DEF s
<1>3. \A i \in 1..Len(s) : i \in 1..Len(a) \/ i = Len(a) + 1
  BY <1>1, <1>2
<1>4. UnlockStep(l).on = l /\ UnlockStep(l).do # "lock"
  BY DEF UnlockStep
<1>5. \A i \in 1..Len(s) : s[i].on \in P \cup {l} \cup {Nobody}
  BY <1>2, <1>3, <1>4 DEF Nested
<1>6. ASSUME NEW i \in 1..Len(a), s[i].do = "lock"
      PROVE  \/ s[i].on \in L \ {l} /\ \A k \in i+1..Len(s) : s[k].on # s[i].on
             \/ \E j \in i+1..Len(s) : /\ s[j] = UnlockStep(s[i].on)
                                       /\ \A k \in i+1..j-1 : s[k].on # s[i].on
  <2>1. s[i] = a[i]
    BY <1>2
  <2>2. CASE a[i].on \in L /\ \A k \in i+1..Len(a) : a[k].on # a[i].on
    <3>1. ASSUME a[i].on = l
          PROVE  \E j \in i+1..Len(s) : /\ s[j] = UnlockStep(s[i].on)
                                        /\ \A k \in i+1..j-1 : s[k].on # s[i].on
      <4>1. Len(a) + 1 \in i+1..Len(s) /\ s[Len(a) + 1] = UnlockStep(s[i].on)
        BY <1>1, <1>2, <2>1, <3>1
      <4>2. \A k \in i+1..Len(a)+1-1 : s[k].on # s[i].on
        BY <1>1, <1>2, <2>1, <2>2
      <4> QED
        BY <4>1, <4>2
    <3>2. ASSUME a[i].on # l
          PROVE  s[i].on \in L \ {l} /\ \A k \in i+1..Len(s) : s[k].on # s[i].on
      <4>1. ASSUME NEW k \in i+1..Len(s) PROVE s[k].on # s[i].on
        <5>1. (k \in i+1..Len(a) /\ s[k] = a[k]) \/ k = Len(a) + 1
          BY <1>1, <1>2
        <5> QED
          BY <1>2, <1>4, <2>1, <2>2, <3>2, <5>1
      <4> QED
        BY <2>1, <2>2, <3>2, <4>1
    <3> QED
      BY <3>1, <3>2
  <2>3. CASE \E j \in i+1..Len(a) : /\ a[j] = UnlockStep(a[i].on)
                                    /\ \A k \in i+1..j-1 : a[k].on # a[i].on
    <3>1. PICK j \in i+1..Len(a) : /\ a[j] = UnlockStep(a[i].on)
                                   /\ \A k \in i+1..j-1 : a[k].on # a[i].on
      BY <2>3
    <3>2. j \in i+1..Len(s) /\ s[j] = UnlockStep(s[i].on)
      BY <1>1, <1>2, <2>1, <3>1
    <3>3. ASSUME NEW k \in i+1..j-1 PROVE s[k].on # s[i].on
      <4>1. k \in 1..Len(a) /\ a[k].on # a[i].on
        BY <1>1, <3>1
      <4> QED
        BY <1>2, <2>1, <4>1
    <3> QED
      BY <3>2, <3>3
  <2> QED
    BY <1>6, <2>1, <2>2, <2>3 DEF Nested
<1>7. \A i \in 1..Len(s) : s[i].do = "lock" => i \in 1..Len(a)
  BY <1>2, <1>3, <1>4
<1>8. Nested(s, L \ {l}, P \cup {l})
  BY <1>2, <1>5, <1>6, <1>7 DEF Nested
<1> QED
  BY <1>8 DEF s

----------------------------------------------------------------------------
(* The operations take and release their mutexes in such an order.         *)

LEMMA NestedMore ==
  ASSUME NEW L, NEW P \in SUBSET Locks, NEW s, Nested(s, L, P)
  PROVE  Nested(s, L, Locks)
BY DEF Nested

LEMMA NestedRemovePeer == Nested(RemovePeer, {}, {"peers", "clients"})
<1> DEFINE a == Lock("peers") \o Lock("clients")
<1>1. Nested(a, {"peers"} \cup {"clients"}, {"peers"} \cup {"clients"})
  BY NestedOne, NestedJoin DEF Locks
<1> HIDE DEF a
<1>2. Nested(a \o Unlock("clients"), ({"peers"} \cup {"clients"}) \ {"clients"},
             {"peers"} \cup {"clients"} \cup {"clients"})
  BY <1>1, NestedUnlock DEF Locks
<1>3. /\ ({"peers"} \cup {"clients"}) \ {"clients"} = {"peers"}
      /\ {"peers"} \cup {"clients"} \cup {"clients"} = {"peers", "clients"}
  OBVIOUS
<1> DEFINE b == a \o Unlock("clients")
<1>4. Nested(b, {"peers"}, {"peers", "clients"})
  BY <1>2, <1>3
<1> HIDE DEF b
<1>5. Nested(b \o Unlock("peers"), {"peers"} \ {"peers"}, {"peers", "clients"} \cup {"peers"})
  BY <1>4, NestedUnlock DEF Locks
<1>6. {"peers"} \ {"peers"} = {} /\ {"peers", "clients"} \cup {"peers"} = {"peers", "clients"}
  OBVIOUS
<1> QED
  BY <1>5, <1>6 DEF RemovePeer, a, b

\* How an operation goes on: with something that takes nothing, or not for long; by
\* taking a mutex; by releasing the one that is taken.
LEMMA GoOn ==
  ASSUME NEW L \in SUBSET Locks, NEW Q \in SUBSET Locks, NEW a, Nested(a, L, Locks),
         NEW b, Nested(b, {}, Q), L \cap Q = {}
  PROVE  Nested(a \o b, L, Locks)
<1>1. Nested(a \o b, L \cup {}, Locks \cup Q)
  BY NestedJoin
<1>2. L \cup {} = L /\ Locks \cup Q = Locks
  OBVIOUS
<1> QED
  BY <1>1, <1>2

LEMMA Take ==
  ASSUME NEW a, Nested(a, {}, Locks), NEW l \in Locks
  PROVE  Nested(a \o Lock(l), {l}, Locks)
<1>1. Nested(a \o Lock(l), {} \cup {l}, Locks \cup {l})
  BY NestedOne, NestedJoin
<1>2. {} \cup {l} = {l} /\ Locks \cup {l} = Locks
  OBVIOUS
<1> QED
  BY <1>1, <1>2

LEMMA Release ==
  ASSUME NEW l \in Locks, NEW a, Nested(a, {l}, Locks)
  PROVE  Nested(a \o Unlock(l), {}, Locks)
<1>1. Nested(a \o Unlock(l), {l} \ {l}, Locks \cup {l})
  BY NestedUnlock
<1>2. {l} \ {l} = {} /\ Locks \cup {l} = Locks
  OBVIOUS
<1> QED
  BY <1>1, <1>2

LEMMA GoOnFree ==
  ASSUME NEW a, Nested(a, {}, Locks), NEW b, Nested(b, {}, Locks)
  PROVE  Nested(a \o b, {}, Locks)
BY GoOn

LEMMA NestedSimple ==
  /\ Nested(UseSocket, {}, Locks) /\ \A l \in Locks : Nested(Section(l), {}, Locks)
  /\ Nested(RemovePeer, {}, Locks)
<1>1. {"peers", "clients"} \in SUBSET Locks
  BY DEF Locks
<1> QED
  BY <1>1, NestedOne, NestedMore, NestedRemovePeer

LEMMA NestedParts ==
  /\ Nested(KeepAlive, {}, Locks) /\ Nested(MayTransmit, {}, Locks)
  /\ Nested(AddPeer, {}, Locks) /\ Nested(MayLink, {}, Locks)
<1> USE NestedSimple, GoOnFree
<1>1. Nested(KeepAlive, {}, Locks)
  BY DEF KeepAlive, Locks
<1>2. Nested(MayTransmit, {}, Locks)
  BY DEF MayTransmit, Locks
<1>3. Nested(AddPeer, {}, Locks)
  <2>1. Nested(Section("peers") \o Section("peers"), {}, Locks)
    BY DEF Locks
  <2> QED
    BY <2>1 DEF AddPeer, Locks
<1>4. Nested(MayLink, {}, Locks)
  <2>1. Nested(Lock("clients"), {"clients"}, Locks)
    BY NestedOne, NestedMore DEF Locks
  <2>2. Nested(Section("list"), {}, {"list"}) /\ {"clients"} \cap {"list"} = {}
    BY NestedOne DEF Locks
  <2>3. Nested(Lock("clients") \o Section("list"), {"clients"}, Locks)
    BY <2>1, <2>2, GoOn DEF Locks
  <2>4. Nested(Lock("clients") \o Section("list") \o Section("list"), {"clients"}, Locks)
    BY <2>2, <2>3, GoOn DEF Locks
  <2> QED
    BY <2>4, Release DEF MayLink, Locks
<1> QED
  BY <1>1, <1>2, <1>3, <1>4

LEMMA NestedPackets ==
  /\ Nested(DisconnectStation, {}, Locks) /\ Nested(DisconnectPeer, {}, Locks)
  /\ Nested(ConnectStation, {}, Locks) /\ Nested(PeerAckn, {}, Locks)
<1> USE NestedSimple, NestedParts, GoOnFree
<1>1. Nested(DisconnectStation, {}, Locks)
  <2>1. Nested(Section("clients") \o UseSocket, {}, Locks)
    BY DEF Locks
  <2> QED
    BY <2>1 DEF DisconnectStation, Locks
<1>2. Nested(DisconnectPeer, {}, Locks)
  BY DEF DisconnectPeer
<1>3. Nested(ConnectStation, {}, Locks)
  <2>1. Nested(MayLink \o Section("clients"), {}, Locks)
    BY DEF Locks
  <2> QED
    BY <2>1 DEF ConnectStation
<1>4. Nested(PeerAckn, {}, Locks)
  <2>1. Nested(Section("interlinks") \o MayTransmit, {}, Locks)
    BY DEF Locks
  <2>2. Nested(Section("interlinks") \o MayTransmit \o Section("peers"), {}, Locks)
    BY <2>1 DEF Locks
  <2>3. Nested(Section("interlinks") \o MayTransmit \o Section("peers") \o Section("interlinks"),
               {}, Locks)
    BY <2>2 DEF Locks
  <2> QED
    BY <2>3 DEF PeerAckn
<1> QED
  BY <1>1, <1>2, <1>3, <1>4

\* The list of the clients is locked while something is sent to each of them.
LEMMA NestedSend ==
  ASSUME NEW a, Nested(a, {}, Locks)
  PROVE  Nested(a \o Lock("clients") \o UseSocket \o Unlock("clients"), {}, Locks)
<1>1. Nested(a \o Lock("clients"), {"clients"}, Locks)
  BY Take DEF Locks
<1>2. Nested(a \o Lock("clients") \o UseSocket, {"clients"}, Locks)
  BY <1>1, NestedOne, GoOn DEF Locks
<1> QED
  BY <1>2, Release DEF Locks

LEMMA NestedPasses ==
  /\ Nested(Frame, {}, Locks) /\ Nested(HandleKeepalives, {}, Locks)
  /\ Nested(HandlePeerLinks, {}, Locks)
<1> USE NestedSimple, NestedParts
<1>1. Nested(Frame, {}, Locks)
  <2>1. Nested(KeepAlive \o MayTransmit, {}, Locks)
    BY GoOnFree
  <2>2. Nested(KeepAlive \o MayTransmit \o Section("users"), {}, Locks)
    BY <2>1, GoOnFree DEF Locks
  <2>3. Nested(KeepAlive \o MayTransmit \o Section("users") \o Lock("clients")
                 \o UseSocket \o Unlock("clients"), {}, Locks)
    BY <2>2, NestedSend
  <2> QED
    BY <2>3, GoOnFree DEF Frame, Locks
<1>2. Nested(HandleKeepalives, {}, Locks)
  <2>1. Nested(Lock("clients"), {"clients"}, Locks)
    BY NestedOne, NestedMore DEF Locks
  <2>2. Nested(Lock("clients") \o UseSocket, {"clients"}, Locks)
    BY <2>1, NestedOne, GoOn DEF Locks
  <2>3. Nested(Lock("clients") \o UseSocket \o Unlock("clients"), {}, Locks)
    BY <2>2, Release DEF Locks
  <2>4. Nested(Lock("clients") \o UseSocket \o Unlock("clients") \o UseSocket, {}, Locks)
    BY <2>3, GoOnFree
  <2> QED
    BY <2>4, GoOnFree DEF HandleKeepalives
<1>3. Nested(HandlePeerLinks, {}, Locks)
  <2>1. Nested(Section("interlinks") \o UseSocket, {}, Locks)
    BY GoOnFree DEF Locks
  <2>2. Nested(Section("interlinks") \o UseSocket \o RemovePeer, {}, Locks)
    BY <2>1, GoOnFree
  <2>3. Nested(Section("interlinks") \o UseSocket \o RemovePeer \o Section("peers"), {}, Locks)
    BY <2>2, GoOnFree DEF Locks
  <2> QED
    BY <2>3, GoOnFree DEF HandlePeerLinks
<1> QED
  BY <1>1, <1>2, <1>3

----------------------------------------------------------------------------
(* What is left of an operation.                                           *)

Use == [do |-> "use", on |-> Nobody]
Ask == [do |-> "ask", on |-> Nobody]
Await == [do |-> "await", on |-> Nobody]
Answered == [do |-> "answer", on |-> Nobody]
FindInterlink == [do |-> "section", on |-> "interlinks"]

AskRest == {<<Use, FindInterlink, Ask, Await>>, <<FindInterlink, Ask, Await>>,
            <<Ask, Await>>, <<Await>>}
AnswerRest == {<<FindInterlink, Answered>>, <<Answered>>, <<>>}
Shape(t, s) ==
  /\ t = "protocol" => Nested(s, {}, Locks) \/ s \in AskRest
  /\ t = "dht" => s \in AnswerRest
  /\ t \in Loops \ {"protocol"} => s \in Seq(SectionStep)

LEMMA NestedEmpty == Nested(<<>>, {}, Locks)
BY DEF Nested

LEMMA SeqTail ==
  ASSUME NEW S, NEW s \in Seq(S), s # <<>>
  PROVE  /\ Tail(s) \in Seq(S) /\ Len(s) \in Nat \ {0} /\ Len(Tail(s)) = Len(s) - 1
         /\ Head(s) = s[1] /\ s[1] \in S
         /\ \A i \in 1..Len(s)-1 : Tail(s)[i] = s[i + 1]
<1>1. Len(s) \in Nat \ {0}
  OBVIOUS
<1> QED
  BY <1>1

LEMMA NestedTail ==
  ASSUME NEW s, Nested(s, {}, Locks), s # <<>>
  PROVE  Nested(Tail(s), {}, Locks)
<1> DEFINE r == Tail(s)
<1>1. s \in Seq(PlainStep)
  BY DEF Nested
<1>2. /\ r \in Seq(PlainStep) /\ Len(s) \in Nat \ {0} /\ Len(r) = Len(s) - 1
      /\ \A i \in 1..Len(r) : r[i] = s[i + 1] /\ i + 1 \in 1..Len(s)
  BY <1>1, SeqTail
<1> HIDE DEF r
<1>3. \A i \in 1..Len(r) : r[i].on \in Locks \cup {Nobody}
  BY <1>2 DEF Nested
<1>4. ASSUME NEW i \in 1..Len(r), r[i].do = "lock"
      PROVE  \E j \in i+1..Len(r) : /\ r[j] = UnlockStep(r[i].on)
                                    /\ \A k \in i+1..j-1 : r[k].on # r[i].on
  <2>1. PICK j \in i+1+1..Len(s) : /\ s[j] = UnlockStep(s[i + 1].on)
                                   /\ \A k \in i+1+1..j-1 : s[k].on # s[i + 1].on
    BY <1>2, <1>4 DEF Nested
  <2>2. j - 1 \in i+1..Len(r) /\ r[j - 1] = UnlockStep(r[i].on)
    BY <1>2, <2>1
  <2>3. ASSUME NEW k \in i+1..j-1-1 PROVE r[k].on # r[i].on
    <3>1. k \in 1..Len(r) /\ k + 1 \in i+1+1..j-1
      BY <1>2, <2>1
    <3> QED
      BY <1>2, <2>1, <3>1
  <2> QED
    BY <2>2, <2>3
<1>5. Nested(r, {}, Locks)
  BY <1>2, <1>3, <1>4 DEF Nested
<1> QED
  BY <1>5 DEF r

\* What is done with the short sequences of steps.
LEMMA ShortSeqs ==
  ASSUME NEW S, NEW a \in S, NEW b \in S, NEW c \in S, NEW d \in S
  PROVE  /\ <<>> \in Seq(S) /\ <<a>> \in Seq(S) /\ <<a, b>> \in Seq(S)
         /\ <<a, b, c>> \in Seq(S) /\ <<a, b, c, d>> \in Seq(S)
<1>1. <<>> \in Seq(S) /\ <<a>> \in Seq(S)
  OBVIOUS
<1>2. <<a, b>> \in Seq(S)
  OBVIOUS
<1>3. <<a, b, c>> \in Seq(S)
  OBVIOUS
<1>4. <<a, b, c, d>> \in Seq(S)
  OBVIOUS
<1> QED
  BY <1>1, <1>2, <1>3, <1>4

LEMMA TailIs ==
  ASSUME NEW S, NEW s \in Seq(S), NEW r \in Seq(S), Len(s) = Len(r) + 1,
         \A i \in 1..Len(r) : r[i] = s[i + 1]
  PROVE  Tail(s) = r
<1>1. s # <<>>
  BY LenProperties, EmptySeq
<1>2. /\ Tail(s) \in Seq(S) /\ Len(Tail(s)) = Len(s) - 1 /\ Len(r) \in Nat
      /\ \A i \in 1..Len(Tail(s)) : Tail(s)[i] = s[i + 1]
  BY <1>1, HeadTailProperties
<1>3. Len(Tail(s)) = Len(r)
  BY <1>2
<1>4. \A i \in 1..Len(Tail(s)) : Tail(s)[i] = r[i]
  BY <1>2, <1>3
<1> QED
  BY <1>2, <1>3, <1>4, SeqEqual

LEMMA ShortTails ==
  ASSUME NEW a, NEW b, NEW c, NEW d
  PROVE  /\ Tail(<<a>>) = <<>> /\ Tail(<<a, b>>) = <<b>>
         /\ Tail(<<a, b, c>>) = <<b, c>> /\ Tail(<<a, b, c, d>>) = <<b, c, d>>
<1> DEFINE S == {a, b, c, d}
<1>1. /\ <<>> \in Seq(S) /\ <<a>> \in Seq(S) /\ <<b>> \in Seq(S) /\ <<a, b>> \in Seq(S)
      /\ <<b, c>> \in Seq(S) /\ <<a, b, c>> \in Seq(S)
      /\ <<b, c, d>> \in Seq(S) /\ <<a, b, c, d>> \in Seq(S)
  <2>1. a \in S /\ b \in S /\ c \in S /\ d \in S
    OBVIOUS
  <2> HIDE DEF S
  <2> QED
    BY <2>1, ShortSeqs
<1> HIDE DEF S
<1>2. Tail(<<a>>) = <<>>
  <2>1. Len(<<a>>) = Len(<<>>) + 1 /\ \A i \in 1..Len(<<>>) : <<>>[i] = <<a>>[i + 1]
    OBVIOUS
  <2> QED
    BY <1>1, <2>1, TailIs
<1>3. Tail(<<a, b>>) = <<b>>
  <2>1. Len(<<a, b>>) = Len(<<b>>) + 1 /\ \A i \in 1..Len(<<b>>) : <<b>>[i] = <<a, b>>[i + 1]
    OBVIOUS
  <2> QED
    BY <1>1, <2>1, TailIs
<1>4. Tail(<<a, b, c>>) = <<b, c>>
  <2>1. /\ Len(<<a, b, c>>) = Len(<<b, c>>) + 1
        /\ \A i \in 1..Len(<<b, c>>) : <<b, c>>[i] = <<a, b, c>>[i + 1]
    OBVIOUS
  <2> QED
    BY <1>1, <2>1, TailIs
<1>5. Tail(<<a, b, c, d>>) = <<b, c, d>>
  <2>1. /\ Len(<<a, b, c, d>>) = Len(<<b, c, d>>) + 1
        /\ \A i \in 1..Len(<<b, c, d>>) : <<b, c, d>>[i] = <<a, b, c, d>>[i + 1]
    OBVIOUS
  <2> QED
    BY <1>1, <2>1, TailIs
<1> QED
  BY <1>2, <1>3, <1>4, <1>5

LEMMA JoinIs ==
  ASSUME NEW S, NEW h \in Seq(S), Len(h) = 1, NEW s \in Seq(S), NEW r \in Seq(S),
         Len(r) = Len(s) + 1, r[1] = h[1], \A i \in 1..Len(s) : r[i + 1] = s[i]
  PROVE  h \o s = r
<1>1. /\ h \o s \in Seq(S) /\ Len(h \o s) = Len(h) + Len(s)
      /\ \A i \in 1..Len(h) + Len(s) : (h \o s)[i] = IF i <= Len(h) THEN h[i] ELSE s[i - Len(h)]
  BY ConcatProperties
<1>2. Len(s) \in Nat
  BY LenProperties
<1>3. \A i \in 1..Len(r) : (h \o s)[i] = r[i]
  <2> TAKE i \in 1..Len(r)
  <2>1. CASE i = 1
    BY <1>1, <1>2, <2>1
  <2>2. CASE i # 1
    <3>1. i - 1 \in 1..Len(s) /\ r[i - 1 + 1] = s[i - 1] /\ i - 1 + 1 = i
      BY <1>2, <2>2
    <3> QED
      BY <1>1, <1>2, <2>2, <3>1
  <2> QED
    BY <2>1, <2>2
<1> QED
  BY <1>1, <1>2, <1>3, SeqEqual

LEMMA ShortJoins ==
  ASSUME NEW a, NEW b, NEW c, NEW d
  PROVE  <<a>> \o <<b>> = <<a, b>> /\ <<a>> \o (<<b>> \o <<c, d>>) = <<a, b, c, d>>
<1> DEFINE S == {a, b, c, d}
<1>1. /\ <<a>> \in Seq(S) /\ <<b>> \in Seq(S) /\ <<a, b>> \in Seq(S) /\ <<c, d>> \in Seq(S)
      /\ <<b, c, d>> \in Seq(S) /\ <<a, b, c, d>> \in Seq(S)
  <2>1. a \in S /\ b \in S /\ c \in S /\ d \in S
    OBVIOUS
  <2> HIDE DEF S
  <2> QED
    BY <2>1, ShortSeqs
<1> HIDE DEF S
<1>2. <<a>> \o <<b>> = <<a, b>>
  <2> DEFINE u == <<a>>
  <2> DEFINE v == <<b>>
  <2> DEFINE w == <<a, b>>
  <2>1. /\ u \in Seq(S) /\ v \in Seq(S) /\ w \in Seq(S)
        /\ Len(u) = 1 /\ Len(w) = Len(v) + 1 /\ w[1] = u[1]
        /\ \A i \in 1..Len(v) : w[i + 1] = v[i]
    BY <1>1
  <2> HIDE DEF u, v, w
  <2>2. u \o v = w
    BY <2>1, JoinIs
  <2> QED
    BY <2>2 DEF u, v, w
<1>3. <<b>> \o <<c, d>> = <<b, c, d>>
  <2> DEFINE u == <<b>>
  <2> DEFINE v == <<c, d>>
  <2> DEFINE w == <<b, c, d>>
  <2>1. /\ u \in Seq(S) /\ v \in Seq(S) /\ w \in Seq(S)
        /\ Len(u) = 1 /\ Len(w) = Len(v) + 1 /\ w[1] = u[1]
        /\ \A i \in 1..Len(v) : w[i + 1] = v[i]
    BY <1>1
  <2> HIDE DEF u, v, w
  <2>2. u \o v = w
    BY <2>1, JoinIs
  <2> QED
    BY <2>2 DEF u, v, w
<1>4. <<a>> \o <<b, c, d>> = <<a, b, c, d>>
  <2> DEFINE u == <<a>>
  <2> DEFINE v == <<b, c, d>>
  <2> DEFINE w == <<a, b, c, d>>
  <2>1. /\ u \in Seq(S) /\ v \in Seq(S) /\ w \in Seq(S)
        /\ Len(u) = 1 /\ Len(w) = Len(v) + 1 /\ w[1] = u[1]
        /\ \A i \in 1..Len(v) : w[i + 1] = v[i]
    BY <1>1
  <2> HIDE DEF u, v, w
  <2>2. u \o v = w
    BY <2>1, JoinIs
  <2> QED
    BY <2>2 DEF u, v, w
<1> QED
  BY <1>2, <1>3, <1>4

LEMMA ShapeTail ==
  ASSUME NEW t \in Threads, NEW s, Shape(t, s), s # <<>>
  PROVE  Shape(t, Tail(s))
<1>1. ASSUME t = "protocol" PROVE Nested(Tail(s), {}, Locks) \/ Tail(s) \in AskRest
  <2>1. CASE Nested(s, {}, Locks)
    BY <2>1, NestedTail
  <2>2. CASE s \in AskRest
    <3>1. Tail(s) = <<>> \/ Tail(s) \in AskRest
      <4>1. CASE s = <<Use, FindInterlink, Ask, Await>>
        BY <4>1, ShortTails DEF AskRest
      <4>2. CASE s = <<FindInterlink, Ask, Await>>
        BY <4>2, ShortTails DEF AskRest
      <4>3. CASE s = <<Ask, Await>>
        BY <4>3, ShortTails DEF AskRest
      <4>4. CASE s = <<Await>>
        BY <4>4, ShortTails
      <4> QED
        BY <2>2, <4>1, <4>2, <4>3, <4>4 DEF AskRest
    <3>2. CASE Tail(s) = <<>>
      BY <3>2, NestedEmpty
    <3> QED
      BY <3>1, <3>2
  <2>3. Nested(s, {}, Locks) \/ s \in AskRest
    BY <1>1 DEF Shape
  <2> QED
    BY <2>1, <2>2, <2>3
<1>2. ASSUME t = "dht" PROVE Tail(s) \in AnswerRest
  <2>1. s = <<FindInterlink, Answered>> \/ s = <<Answered>>
    BY <1>2 DEF Shape, AnswerRest
  <2>2. Tail(<<FindInterlink, Answered>>) = <<Answered>> /\ Tail(<<Answered>>) = <<>>
    BY ShortTails
  <2> QED
    BY <2>1, <2>2, Zenon DEF AnswerRest
<1>3. ASSUME t \in Loops \ {"protocol"} PROVE Tail(s) \in Seq(SectionStep)
  BY <1>3, SeqTail DEF Shape
<1> QED
  BY <1>1, <1>2, <1>3 DEF Shape

\* Every operation has such a shape when it is begun.
LEMMA ShapeOfOperations ==
  ASSUME NEW t \in Threads, NEW s \in Operations(t)
  PROVE  Shape(t, s)
<1>1. ASSUME t = "protocol" PROVE Nested(s, {}, Locks) \/ s \in AskRest
  <2>1. PICK r \in {KeepAlive, DisconnectStation, DisconnectPeer, ConnectStation, PeerAckn,
                    Frame, HandleKeepalives, HandlePeerLinks, GetDHTConfig} : s = UseSocket \o r
    <3> DEFINE P == {UseSocket \o r : r \in {KeepAlive, DisconnectStation, DisconnectPeer,
               ConnectStation, PeerAckn, Frame, HandleKeepalives, HandlePeerLinks, GetDHTConfig}}
    <3>1. Operations("protocol") = P
      BY DEF Operations, GateKeepers
    <3> QED
      BY <1>1, <3>1
  <2>2. CASE r = GetDHTConfig
    <3>1. UseSocket = <<Use>> /\ GetDHTConfig = <<FindInterlink>> \o <<Ask, Await>>
      BY DEF UseSocket, GetDHTConfig, Section, Use, FindInterlink, Ask, Await
    <3>2. s = <<Use>> \o (<<FindInterlink>> \o <<Ask, Await>>)
      BY <2>1, <2>2, <3>1
    <3>3. <<Use>> \o (<<FindInterlink>> \o <<Ask, Await>>) = <<Use, FindInterlink, Ask, Await>>
      BY ShortJoins
    <3> QED
      BY <3>2, <3>3 DEF AskRest
  <2>3. CASE r # GetDHTConfig
    <3>1. Nested(r, {}, Locks)
      BY <2>1, <2>3, NestedParts, NestedPackets, NestedPasses
    <3> QED
      BY <2>1, <3>1, NestedSimple, GoOnFree
  <2> QED
    BY <2>2, <2>3
<1>2. ASSUME t = "dht" PROVE s \in AnswerRest
  <2>1. s \in {Section("interlinks") \o Answer, Answer}
    <3>1. "dht" \notin GateKeepers
      BY DEF GateKeepers
    <3>2. Operations("dht") = {Section("interlinks") \o Answer, Answer}
      BY <3>1 DEF Operations
    <3> QED
      BY <1>2, <3>2
  <2>2. Section("interlinks") = <<FindInterlink>> /\ Answer = <<Answered>>
    BY DEF Section, Answer, FindInterlink, Answered
  <2> QED
    BY <2>1, <2>2, ShortJoins, Zenon DEF AnswerRest
<1>3. ASSUME t \in Loops \ {"protocol"} PROVE s \in Seq(SectionStep)
  <2>1. \A l \in Locks : Section(l) \in Seq(SectionStep)
    BY DEF Section, SectionStep
  <2>2. {"clients", "users", "list", "interlinks"} \subseteq Locks
    BY DEF Locks
  <2>3. CASE t = "dashboard"
    <3>1. s = Section("clients") \o Section("users")
      BY <2>3 DEF Operations, WriteDashboardData, GateKeepers
    <3> QED
      BY <2>1, <2>2, <3>1
  <2>4. CASE t \in GateKeepers
    <3>1. \/ s = Section("list") \/ s = Section("interlinks")
          \/ s = Section("list") \o Section("list") \o Section("interlinks")
      BY <2>4 DEF Operations, GateKeepers, ReloadLists
    <3>2. Section("list") \in Seq(SectionStep) /\ Section("interlinks") \in Seq(SectionStep)
      BY <2>1, <2>2
    <3>3. Section("list") \o Section("list") \in Seq(SectionStep)
      BY <3>2
    <3>4. Section("list") \o Section("list") \o Section("interlinks") \in Seq(SectionStep)
      BY <3>2, <3>3
    <3> QED
      BY <3>1, <3>2, <3>4, Zenon
  <2> QED
    BY <1>3, <2>3, <2>4 DEF Loops
<1> QED
  BY <1>1, <1>2, <1>3 DEF Shape

LEMMA ShapeIsSeq ==
  ASSUME NEW t \in Threads, NEW s, Shape(t, s)
  PROVE  s \in Seq(Step)
<1>1. PlainStep \subseteq Step /\ SectionStep \subseteq Step
  BY DEF PlainStep, SectionStep, Step
<1>2. CASE t = "protocol"
  <2>1. CASE Nested(s, {}, Locks)
    BY <1>1, <2>1 DEF Nested
  <2>2. CASE s \in AskRest
    <3>1. {Use, FindInterlink, Ask, Await} \subseteq Step
      BY DEF Use, FindInterlink, Ask, Await, Step, Locks
    <3> QED
      BY <2>2, <3>1, ShortSeqs DEF AskRest
  <2> QED
    BY <1>2, <2>1, <2>2 DEF Shape
<1>3. CASE t = "dht"
  <2>1. {FindInterlink, Answered} \subseteq Step
    BY DEF FindInterlink, Answered, Step, Locks
  <2> QED
    BY <1>3, <2>1, ShortSeqs DEF Shape, AnswerRest
<1>4. CASE t \in Loops \ {"protocol"}
  BY <1>1, <1>4 DEF Shape
<1> QED
  BY <1>2, <1>3, <1>4 DEF Threads

----------------------------------------------------------------------------
(* The invariant: main with its data and flags, and the other threads.     *)

\* The protocol thread runs only in these states of main, and with these sockets.
Started == {"dashboard", "pid", "pause", "woken", "joinDashboard", "joinProtocol"}
Watched == {"pid", "pause", "woken", "joinDashboard"}

TriesFit == main \notin {"joinGateKeeper", "exited"} => tries <= MaxTries
AddressesPaired == \A f \in Bound(data) : data.ext[f] = "good"
SocketsFit ==
  /\ sockets = IF main \in Started THEN Bound(data) ELSE {}
  /\ main \in Started \cup {"load", "assign", "open"} => Bound(data) # {}
  /\ main \in Started \cup {"open"} => dht
  /\ main = "exited" => ~dht
ThreadsFit ==
  /\ "protocol" \in running => main \in Started
  /\ "dashboard" \in running => main \in Watched

\* The future refers to the gatekeeper's thread, except between its start and the
\* assignment; a second thread waits there, and main with it, for ever.
GateKeepersFit ==
  /\ main \notin {"joinGateKeeper", "exited"} => keep["gatekeeper"]
  /\ main # "assign" => /\ "gatekeeper2" \notin running
                        /\ "gatekeeper" \in running => future = "gatekeeper"
  /\ main = "assign" /\ "gatekeeper2" \in running => /\ future = "gatekeeper"
                                                     /\ "gatekeeper" \in running
  /\ main = "exited" => running = {}

Shapes == \A t \in Threads : Shape(t, todo[t])
IdleUnlessRunning == \A t \in Loops : todo[t] # <<>> => t \in running
AskingFits ==
  /\ asking => todo["protocol"] = <<Await>>
  /\ todo["dht"] # <<>> => asking

\* The first thing that s does with l is to release it.
Until(s, l) == \E j \in 1..Len(s) : /\ s[j] = UnlockStep(l)
                                    /\ \A k \in 1..j-1 : s[k].on # l
HolderFits == \A l \in Locks : holder[l] # Nobody =>
                holder[l] = "protocol" /\ Until(todo["protocol"], l)

MainTypes ==
  /\ main \in {"read", "load", "assign", "open", "dashboard", "pid", "pause", "failed",
               "woken", "joinDashboard", "joinProtocol", "joinGateKeeper", "exited"}
  /\ tries \in 0..MaxTries + 1 /\ data \in Data
  /\ running \subseteq Loops /\ keep \in [Flags -> BOOLEAN]
  /\ future \in GateKeepers \cup {Nobody} /\ sockets \subseteq Families /\ dht \in BOOLEAN
ThreadTypes ==
  todo \in [Threads -> Seq(Step)] /\ holder \in [Locks -> Threads \cup {Nobody}] /\ asking \in BOOLEAN

MainInv == MainTypes /\ TriesFit /\ AddressesPaired /\ SocketsFit /\ ThreadsFit /\ GateKeepersFit
ThreadInv == ThreadTypes /\ Shapes /\ IdleUnlessRunning /\ AskingFits /\ HolderFits
IInv == MainInv /\ ThreadInv

LEMMA Types == TypeOK <=> MainTypes /\ ThreadTypes
BY DEF TypeOK, MainTypes, ThreadTypes

----------------------------------------------------------------------------
(* Init, and what a reading of the file leaves.                            *)

LEMMA DataRecord ==
  ASSUME NEW c \in Form, NEW n \in SUBSET Letters, NEW e \in SUBSET Letters,
         NEW b \in [Families -> Form], NEW x \in [Families -> Form], NEW p \in Form, NEW r \in Form
  PROVE  [callsign |-> c, normal |-> n, encrypted |-> e, bind |-> b, ext |-> x,
          port |-> p, required |-> r] \in Data
BY DEF Data

LEMMA ReadFits ==
  ASSUME NEW d \in Data, NEW file \in ConfigFile, NEW curl \in Curl
  PROVE  /\ ReadData(d, file, curl) \in Data
         /\ \A f \in Bound(ReadData(d, file, curl)) : ReadData(d, file, curl).ext[f] = "good"
<1> DEFINE form == [f \in Families |-> IF BindOK(d, file, curl, f) THEN "good" ELSE "absent"]
<1>1. form \in [Families -> Form]
  BY DEF Form
<1> HIDE DEF form
<1>2. CheckAddresses(d, file, curl) = [bind |-> form, ext |-> form]
  BY DEF CheckAddresses, form
<1>3. ReadData(d, file, curl) =
        [callsign |-> Assign(d.callsign, file.callsign),
         normal |-> Normal(file), encrypted |-> Encrypted(file),
         bind |-> form, ext |-> form, port |-> Assign("good", file.port),
         required |-> Assign(d.required, file.required)]
  BY <1>2 DEF ReadData
<1>4. /\ Assign(d.callsign, file.callsign) \in Form /\ Assign("good", file.port) \in Form
      /\ Assign(d.required, file.required) \in Form
      /\ Normal(file) \in SUBSET Letters /\ Encrypted(file) \in SUBSET Letters
  BY DEF Assign, Data, ConfigFile, Form, Normal, Encrypted
<1>5. ReadData(d, file, curl) \in Data
  BY <1>1, <1>3, <1>4, DataRecord
<1>6. \A f \in Bound(ReadData(d, file, curl)) : ReadData(d, file, curl).ext[f] = "good"
  BY <1>3 DEF Bound
<1> QED
  BY <1>5, <1>6

LEMMA NoDataFits == NoData \in Data /\ Bound(NoData) = {}
<1>1. "absent" \in Form /\ [f \in Families |-> "absent"] \in [Families -> Form]
  BY DEF Form
<1>2. NoData \in Data
  BY <1>1, DataRecord DEF NoData
<1>3. Bound(NoData) = {}
  BY DEF NoData, Bound
<1> QED
  BY <1>2, <1>3

LEMMA InitFits == Init => IInv
<1> SUFFICES ASSUME Init PROVE IInv
  OBVIOUS
<1> USE DEF Init
<1>1. MainTypes
  <2>1. keep \in [Flags -> BOOLEAN]
    OBVIOUS
  <2>2. main = "read" /\ tries \in 0..MaxTries + 1 /\ data \in Data
    BY NoDataFits, MaxTriesAssumption
  <2>3. running = {} /\ future = Nobody /\ sockets = {} /\ dht \in BOOLEAN
    OBVIOUS
  <2> QED
    BY <2>1, <2>2, <2>3 DEF MainTypes
<1>2. TriesFit /\ AddressesPaired
  BY NoDataFits, MaxTriesAssumption DEF TriesFit, AddressesPaired
<1>3. SocketsFit
  BY DEF SocketsFit, Started
<1>4. ThreadsFit /\ GateKeepersFit
  BY DEF ThreadsFit, GateKeepersFit, Flags
<1>5. ThreadTypes
  <2>1. <<>> \in Seq(Step)
    OBVIOUS
  <2>2. todo \in [Threads -> Seq(Step)]
    BY <2>1
  <2>3. holder \in [Locks -> Threads \cup {Nobody}]
    OBVIOUS
  <2>4. asking \in BOOLEAN
    OBVIOUS
  <2> QED
    BY <2>2, <2>3, <2>4 DEF ThreadTypes
<1>6. Shapes
  <2>1. \A t \in Threads : todo[t] = <<>>
    OBVIOUS
  <2>2. <<>> \in AnswerRest /\ <<>> \in Seq(SectionStep)
    BY DEF AnswerRest
  <2>3. \A t \in Threads : Shape(t, <<>>)
    BY <2>2, NestedEmpty DEF Shape
  <2> QED
    BY <2>1, <2>3 DEF Shapes
<1>7. IdleUnlessRunning /\ AskingFits
  BY DEF IdleUnlessRunning, AskingFits, Threads
<1>8. HolderFits
  BY DEF HolderFits
<1> QED
  BY <1>1, <1>2, <1>3, <1>4, <1>5, <1>6, <1>7, <1>8 DEF IInv, MainInv, ThreadInv

\* main leaves the operations of the threads alone.
LEMMA ThreadInvKept ==
  ASSUME ThreadInv, UNCHANGED <<todo, holder, asking>>, running \subseteq running'
  PROVE  ThreadInv'
BY DEF ThreadInv, ThreadTypes, Shapes, IdleUnlessRunning, AskingFits, HolderFits
----------------------------------------------------------------------------
(* The steps of main.                                                      *)

LEMMA ReadConfigKeeps ==
  ASSUME MainInv, ReadConfig
  PROVE  MainInv'
<1> USE DEF MainInv, ReadConfig
<1>1. CASE data' = [data EXCEPT !.port = "good"] /\ main' = "failed" /\ UNCHANGED keep
  <2>1. data \in Data
    BY DEF MainTypes
  <2>2. data' \in Data
    BY <1>1, <2>1 DEF Data, Form
  <2>3. data'.bind = data.bind /\ data'.ext = data.ext
    BY <1>1, <2>1 DEF Data
  <2>4. Bound(data') = Bound(data)
    BY <2>3 DEF Bound
  <2>5. MainTypes'
    BY <1>1, <2>2 DEF MainTypes
  <2>6. TriesFit' /\ AddressesPaired'
    BY <1>1, <2>3, <2>4 DEF TriesFit, AddressesPaired
  <2>7. SocketsFit'
    BY <1>1 DEF SocketsFit, Started
  <2>8. ThreadsFit' /\ GateKeepersFit'
    BY <1>1 DEF ThreadsFit, GateKeepersFit, Started, Watched
  <2> QED
    BY <2>5, <2>6, <2>7, <2>8
<1>2. CASE \E file \in Files, curl \in WebPages :
             /\ data' = ReadData(data, file, curl)
             /\ IF Usable(data') THEN main' = "load" /\ keep' = [keep EXCEPT !["dashboard"] = TRUE]
                                 ELSE main' = "failed" /\ UNCHANGED keep
  <2>1. PICK file \in Files, curl \in WebPages :
             /\ data' = ReadData(data, file, curl)
             /\ IF Usable(data') THEN main' = "load" /\ keep' = [keep EXCEPT !["dashboard"] = TRUE]
                                 ELSE main' = "failed" /\ UNCHANGED keep
    BY <1>2
  <2>2. data \in Data /\ file \in ConfigFile /\ curl \in Curl
    BY FilesAssumption, WebPagesAssumption DEF MainTypes
  <2>3. data' \in Data /\ \A f \in Bound(data') : data'.ext[f] = "good"
    BY <2>1, <2>2, ReadFits
  <2>4. /\ main' = "failed" \/ (main' = "load" /\ Bound(data') # {})
        /\ keep' \in [Flags -> BOOLEAN] /\ keep'["gatekeeper"] = keep["gatekeeper"]
    BY <2>1 DEF Usable, MainTypes, Flags
  <2>5. MainTypes'
    BY <2>3, <2>4 DEF MainTypes
  <2>6. TriesFit' /\ AddressesPaired'
    BY <2>3, <2>4 DEF TriesFit, AddressesPaired
  <2>7. SocketsFit'
    BY <2>4 DEF SocketsFit, Started
  <2>8. ThreadsFit' /\ GateKeepersFit'
    BY <2>4 DEF ThreadsFit, GateKeepersFit, Started, Watched
  <2> QED
    BY <2>5, <2>6, <2>7, <2>8
<1> QED
  BY <1>1, <1>2

LEMMA StartGateKeeperKeeps ==
  ASSUME MainInv, StartGateKeeper
  PROVE  MainInv'
<1> USE DEF MainInv, Goto, StartGateKeeper
<1>1. MainTypes'
  BY DEF MainTypes, Flags, Loops, GateKeepers
<1>2. TriesFit' /\ AddressesPaired'
  BY DEF TriesFit, AddressesPaired, MainTypes
<1>3. SocketsFit'
  BY DEF SocketsFit, Started
<1>4. ThreadsFit'
  BY DEF ThreadsFit, Started, Watched
<1>5. GateKeepersFit'
  BY DEF GateKeepersFit, MainTypes, Flags
<1> QED
  BY <1>1, <1>2, <1>3, <1>4, <1>5

LEMMA AssignFutureKeeps ==
  ASSUME MainInv, AssignFuture
  PROVE  MainInv'
<1> USE DEF MainInv, Goto, AssignFuture, threadVars
<1>1. MainTypes'
  BY DEF MainTypes, Flags, Loops, GateKeepers
<1>2. TriesFit' /\ AddressesPaired'
  BY DEF TriesFit, AddressesPaired, MainTypes
<1>3. SocketsFit'
  BY DEF SocketsFit, Started
<1>4. ThreadsFit'
  BY DEF ThreadsFit, Started, Watched
<1>5. GateKeepersFit'
  BY DEF GateKeepersFit, MainTypes, Flags
<1> QED
  BY <1>1, <1>2, <1>3, <1>4, <1>5

LEMMA OpenSocketsKeeps ==
  ASSUME MainInv, OpenSockets
  PROVE  MainInv'
<1> USE DEF MainInv, Goto, OpenSockets
<1>1. MainTypes'
  <2>1. Bound(data) \subseteq Families /\ {"protocol"} \subseteq Loops
    BY DEF Bound, Loops
  <2>2. running' \subseteq Loops /\ sockets' \subseteq Families
    BY <2>1 DEF MainTypes
  <2>3. keep' \in [Flags -> BOOLEAN]
    BY DEF MainTypes, Flags
  <2> QED
    BY <2>2, <2>3 DEF MainTypes
<1>2. TriesFit' /\ AddressesPaired'
  BY DEF TriesFit, AddressesPaired, MainTypes
<1>3. SocketsFit'
  BY DEF SocketsFit, Started
<1>4. ThreadsFit'
  BY DEF ThreadsFit, Started, Watched
<1>5. GateKeepersFit'
  BY DEF GateKeepersFit, MainTypes, Flags
<1> QED
  BY <1>1, <1>2, <1>3, <1>4, <1>5

LEMMA OpenFailsKeeps ==
  ASSUME MainInv, OpenFails
  PROVE  MainInv'
<1> USE DEF MainInv, Goto, OpenFails
<1>1. MainTypes'
  BY DEF MainTypes, Flags, Loops, GateKeepers
<1>2. TriesFit' /\ AddressesPaired'
  BY DEF TriesFit, AddressesPaired, MainTypes
<1>3. SocketsFit'
  BY DEF SocketsFit, Started
<1>4. ThreadsFit'
  BY DEF ThreadsFit, Started, Watched
<1>5. GateKeepersFit'
  BY DEF GateKeepersFit, MainTypes, Flags
<1> QED
  BY <1>1, <1>2, <1>3, <1>4, <1>5

LEMMA StartDashboardKeeps ==
  ASSUME MainInv, StartDashboard
  PROVE  MainInv'
<1> USE DEF MainInv, Goto, StartDashboard
<1>1. MainTypes'
  BY DEF MainTypes, Flags, Loops, GateKeepers
<1>2. TriesFit' /\ AddressesPaired'
  BY DEF TriesFit, AddressesPaired, MainTypes
<1>3. SocketsFit'
  BY DEF SocketsFit, Started
<1>4. ThreadsFit'
  BY DEF ThreadsFit, Started, Watched
<1>5. GateKeepersFit'
  BY DEF GateKeepersFit, MainTypes, Flags
<1> QED
  BY <1>1, <1>2, <1>3, <1>4, <1>5

LEMMA WritePidKeeps ==
  ASSUME MainInv, WritePid
  PROVE  MainInv'
<1> USE DEF MainInv, Goto, WritePid, threadVars
<1>1. MainTypes'
  BY DEF MainTypes, Flags, Loops, GateKeepers
<1>2. TriesFit' /\ AddressesPaired'
  BY DEF TriesFit, AddressesPaired, MainTypes
<1>3. SocketsFit'
  BY DEF SocketsFit, Started
<1>4. ThreadsFit'
  BY DEF ThreadsFit, Started, Watched
<1>5. GateKeepersFit'
  BY DEF GateKeepersFit, MainTypes, Flags
<1> QED
  BY <1>1, <1>2, <1>3, <1>4, <1>5

LEMMA TryAgainKeeps ==
  ASSUME MainInv, TryAgain
  PROVE  MainInv'
<1> USE DEF MainInv, TryAgain
<1>1. MainTypes'
  <2>1. tries <= MaxTries /\ tries \in Nat /\ MaxTries \in Nat
    BY MaxTriesAssumption DEF TriesFit, MainTypes
  <2>2. tries' \in 0..MaxTries + 1
    BY <2>1
  <2>3. keep' \in [Flags -> BOOLEAN]
    BY DEF MainTypes, Flags
  <2>4. main' \in {"read", "joinGateKeeper"}
    OBVIOUS
  <2> QED
    BY <2>2, <2>3, <2>4 DEF MainTypes
<1>2. TriesFit' /\ AddressesPaired'
  <2>1. tries \in Nat /\ MaxTries \in Nat
    BY MaxTriesAssumption DEF MainTypes
  <2>2. tries < MaxTries \/ main' = "joinGateKeeper"
    OBVIOUS
  <2>3. TriesFit'
    BY <2>1, <2>2 DEF TriesFit
  <2>4. AddressesPaired'
    BY DEF AddressesPaired
  <2> QED
    BY <2>3, <2>4
<1>3. SocketsFit'
  BY DEF SocketsFit, Started
<1>4. ThreadsFit'
  BY DEF ThreadsFit, Started, Watched
<1>5. GateKeepersFit'
  BY DEF GateKeepersFit, MainTypes, Flags
<1> QED
  BY <1>1, <1>2, <1>3, <1>4, <1>5

LEMMA StopKeeps ==
  ASSUME MainInv, Stop
  PROVE  MainInv'
<1> USE DEF MainInv, Goto, Stop
<1>1. MainTypes'
  BY DEF MainTypes, Flags, Loops, GateKeepers
<1>2. TriesFit' /\ AddressesPaired'
  BY DEF TriesFit, AddressesPaired, MainTypes
<1>3. SocketsFit'
  BY DEF SocketsFit, Started
<1>4. ThreadsFit'
  BY DEF ThreadsFit, Started, Watched
<1>5. GateKeepersFit'
  BY DEF GateKeepersFit, MainTypes, Flags
<1> QED
  BY <1>1, <1>2, <1>3, <1>4, <1>5

LEMMA StopDashboardKeeps ==
  ASSUME MainInv, StopDashboard
  PROVE  MainInv'
<1> USE DEF MainInv, Goto, StopDashboard
<1>1. MainTypes'
  BY DEF MainTypes, Flags, Loops, GateKeepers
<1>2. TriesFit' /\ AddressesPaired'
  BY DEF TriesFit, AddressesPaired, MainTypes
<1>3. SocketsFit'
  BY DEF SocketsFit, Started
<1>4. ThreadsFit'
  BY DEF ThreadsFit, Started, Watched
<1>5. GateKeepersFit'
  BY DEF GateKeepersFit, MainTypes, Flags
<1> QED
  BY <1>1, <1>2, <1>3, <1>4, <1>5

LEMMA StopProtocolKeeps ==
  ASSUME MainInv, StopProtocol
  PROVE  MainInv'
<1> USE DEF MainInv, Goto, StopProtocol
<1>1. MainTypes'
  BY DEF MainTypes, Flags, Loops, GateKeepers
<1>2. TriesFit' /\ AddressesPaired'
  BY DEF TriesFit, AddressesPaired, MainTypes
<1>3. SocketsFit'
  BY DEF SocketsFit, Started
<1>4. ThreadsFit'
  BY DEF ThreadsFit, Started, Watched
<1>5. GateKeepersFit'
  BY DEF GateKeepersFit, MainTypes, Flags
<1> QED
  BY <1>1, <1>2, <1>3, <1>4, <1>5

LEMMA StopGateKeeperKeeps ==
  ASSUME MainInv, StopGateKeeper
  PROVE  MainInv'
<1> USE DEF MainInv, Goto, StopGateKeeper, threadVars
<1>1. MainTypes'
  BY DEF MainTypes, Flags, Loops, GateKeepers
<1>2. TriesFit' /\ AddressesPaired'
  BY DEF TriesFit, AddressesPaired, MainTypes
<1>3. SocketsFit'
  BY DEF SocketsFit, Started
<1>4. ThreadsFit'
  BY DEF ThreadsFit, Started, Watched
<1>5. GateKeepersFit'
  <2>1. "gatekeeper" \notin running /\ "gatekeeper2" \notin running
    BY DEF GateKeepersFit
  <2>2. "protocol" \notin running /\ "dashboard" \notin running
    BY DEF ThreadsFit, Started, Watched
  <2>3. running = {}
    BY <2>1, <2>2 DEF MainTypes, Loops, GateKeepers
  <2> QED
    BY <2>3 DEF GateKeepersFit
<1> QED
  BY <1>1, <1>2, <1>3, <1>4, <1>5

LEMMA SignalKeeps ==
  ASSUME MainInv, Signal
  PROVE  MainInv'
<1> USE DEF MainInv, Goto, Signal, threadVars
<1>1. MainTypes'
  BY DEF MainTypes, Flags, Loops, GateKeepers
<1>2. TriesFit' /\ AddressesPaired'
  BY DEF TriesFit, AddressesPaired, MainTypes
<1>3. SocketsFit'
  BY DEF SocketsFit, Started
<1>4. ThreadsFit'
  BY DEF ThreadsFit, Started, Watched
<1>5. GateKeepersFit'
  BY DEF GateKeepersFit, MainTypes, Flags
<1> QED
  BY <1>1, <1>2, <1>3, <1>4, <1>5

LEMMA MainKeeps ==
  ASSUME IInv, Main \/ Signal
  PROVE  IInv'
<1>1. MainInv'
  BY ReadConfigKeeps, StartGateKeeperKeeps, AssignFutureKeeps, OpenSocketsKeeps, OpenFailsKeeps,
     StartDashboardKeeps, WritePidKeeps, TryAgainKeeps, StopKeeps, StopDashboardKeeps,
     StopProtocolKeeps, StopGateKeeperKeeps, SignalKeeps DEF Main, IInv
<1>2. UNCHANGED <<todo, holder, asking>> /\ running \subseteq running'
  BY DEF Main, ReadConfig, StartGateKeeper, AssignFuture, OpenSockets, OpenFails, StartDashboard,
         WritePid, TryAgain, Stop, StopDashboard, StopProtocol, StopGateKeeper, Signal, threadVars
<1> QED
  BY <1>1, <1>2, ThreadInvKept DEF IInv

----------------------------------------------------------------------------
(* The steps of the other threads.                                         *)

\* They leave to main what is main's; a gatekeeper ends only after main has
\* cleared its flag.
LEMMA MainInvKept ==
  ASSUME MainInv, UNCHANGED <<mainVars, keep>>,
         \/ running' = running
         \/ \E t \in Loops : ~keep[FlagOf(t)] /\ running' = running \ {t}
  PROVE  MainInv'
<1> USE DEF MainInv, mainVars
<1>1. running' \subseteq running
  OBVIOUS
<1>2. MainTypes'
  BY <1>1 DEF MainTypes
<1>3. TriesFit' /\ AddressesPaired'
  BY DEF TriesFit, AddressesPaired
<1>4. SocketsFit'
  BY DEF SocketsFit
<1>5. ThreadsFit'
  BY <1>1 DEF ThreadsFit
<1>6. ("gatekeeper" \in running /\ keep["gatekeeper"]) => "gatekeeper" \in running'
  BY DEF FlagOf, GateKeepers
<1>7. GateKeepersFit'
  BY <1>1, <1>6 DEF GateKeepersFit
<1> QED
  BY <1>2, <1>3, <1>4, <1>5, <1>7

\* What the next step of a thread may be.
LEMMA NextOfLoop ==
  ASSUME NEW t \in Loops \ {"protocol"}, NEW s, Shape(t, s), s # <<>>
  PROVE  Head(s).do = "section"
<1>1. s \in Seq(SectionStep)
  BY DEF Shape
<1>2. Head(s) \in SectionStep
  BY <1>1, SeqTail
<1> QED
  BY <1>2 DEF SectionStep

LEMMA NextOfDHT ==
  ASSUME NEW s, Shape("dht", s), s # <<>>
  PROVE  /\ Head(s).do \in {"section", "answer"}
         /\ Head(s).do = "answer" => Tail(s) = <<>>
<1>1. s = <<FindInterlink, Answered>> \/ s = <<Answered>>
  BY DEF Shape, AnswerRest
<1>2. Head(<<FindInterlink, Answered>>) = FindInterlink /\ Head(<<Answered>>) = Answered
  OBVIOUS
<1>3. FindInterlink.do = "section" /\ Answered.do = "answer"
  BY DEF FindInterlink, Answered
<1>4. Tail(<<Answered>>) = <<>>
  BY ShortTails
<1> QED
  BY <1>1, <1>2, <1>3, <1>4

LEMMA NextOfProtocol ==
  ASSUME NEW s, Shape("protocol", s), s # <<>>
  PROVE  /\ Head(s).do # "answer"
         /\ Head(s).do = "ask" => Tail(s) = <<Await>>
         /\ Head(s).do = "lock" => Nested(s, {}, Locks)
<1>1. Nested(s, {}, Locks) \/ s \in AskRest
  BY DEF Shape
<1>2. CASE Nested(s, {}, Locks)
  <2>1. Head(s) \in PlainStep
    BY <1>2, SeqTail DEF Nested
  <2>2. Head(s).do \in {"lock", "unlock", "section", "use"}
    BY <2>1 DEF PlainStep
  <2> QED
    BY <1>2, <2>2
<1>3. CASE s \in AskRest
  <2>1. /\ Head(<<Use, FindInterlink, Ask, Await>>) = Use /\ Head(<<Ask, Await>>) = Ask
        /\ Head(<<FindInterlink, Ask, Await>>) = FindInterlink /\ Head(<<Await>>) = Await
    OBVIOUS
  <2>2. Use.do = "use" /\ FindInterlink.do = "section" /\ Ask.do = "ask" /\ Await.do = "await"
    BY DEF Use, FindInterlink, Ask, Await
  <2>3. Tail(<<Ask, Await>>) = <<Await>>
    BY ShortTails
  <2> QED
    BY <1>3, <2>1, <2>2, <2>3 DEF AskRest
<1> QED
  BY <1>1, <1>2, <1>3

\* A mutex that is to be released before it is wanted again stays so.
LEMMA UntilTail ==
  ASSUME NEW s \in Seq(Step), s # <<>>, NEW l, Until(s, l), Head(s) # UnlockStep(l)
  PROVE  Until(Tail(s), l)
<1> DEFINE r == Tail(s)
<1>1. /\ Len(s) \in Nat \ {0} /\ Len(r) = Len(s) - 1 /\ Head(s) = s[1]
      /\ \A i \in 1..Len(r) : r[i] = s[i + 1]
  BY SeqTail
<1> HIDE DEF r
<1>2. PICK j \in 1..Len(s) : s[j] = UnlockStep(l) /\ \A k \in 1..j-1 : s[k].on # l
  BY DEF Until
<1>3. j # 1
  BY <1>1, <1>2
<1>4. j - 1 \in 1..Len(r) /\ r[j - 1] = UnlockStep(l)
  BY <1>1, <1>2, <1>3
<1>5. ASSUME NEW k \in 1..j-1-1 PROVE r[k].on # l
  <2>1. k \in 1..Len(r) /\ k + 1 \in 1..j-1
    BY <1>1, <1>2, <1>3
  <2> QED
    BY <1>1, <1>2, <2>1
<1>6. Until(r, l)
  BY <1>4, <1>5 DEF Until
<1> QED
  BY <1>6 DEF r

\* So does the one that is taken now.
LEMMA UntilTaken ==
  ASSUME NEW s, Nested(s, {}, Locks), s # <<>>, Head(s).do = "lock"
  PROVE  Until(Tail(s), Head(s).on)
<1> DEFINE r == Tail(s)
<1>1. s \in Seq(PlainStep)
  BY DEF Nested
<1>2. /\ Len(s) \in Nat \ {0} /\ Len(r) = Len(s) - 1 /\ Head(s) = s[1]
      /\ \A i \in 1..Len(r) : r[i] = s[i + 1]
  BY <1>1, SeqTail
<1> HIDE DEF r
<1>3. PICK j \in 2..Len(s) : /\ s[j] = UnlockStep(s[1].on)
                             /\ \A k \in 2..j-1 : s[k].on # s[1].on
  <2>1. 1 \in 1..Len(s) /\ s[1].do = "lock"
    BY <1>2
  <2> QED
    BY <2>1 DEF Nested
<1>4. j - 1 \in 1..Len(r) /\ r[j - 1] = UnlockStep(s[1].on)
  BY <1>2, <1>3
<1>5. ASSUME NEW k \in 1..j-1-1 PROVE r[k].on # s[1].on
  <2>1. k \in 1..Len(r) /\ k + 1 \in 2..j-1
    BY <1>2, <1>3
  <2> QED
    BY <1>2, <1>3, <2>1
<1>6. Until(r, s[1].on)
  BY <1>4, <1>5 DEF Until
<1> QED
  BY <1>2, <1>6 DEF r

\* What every step of an operation keeps.
LEMMA GoesOn ==
  ASSUME IInv, NEW t \in Threads, ~Idle(t), Done(t), running' = running
  PROVE  /\ todo' \in [Threads -> Seq(Step)] /\ Shapes' /\ IdleUnlessRunning'
         /\ \A u \in Threads \ {t} : todo'[u] = todo[u]
         /\ todo'[t] = Tail(todo[t]) /\ todo[t] # <<>> /\ Shape(t, todo[t])
<1>1. todo \in [Threads -> Seq(Step)] /\ todo[t] # <<>> /\ Shape(t, todo[t])
  BY DEF IInv, ThreadInv, ThreadTypes, Shapes, Idle
<1>2. todo' = [todo EXCEPT ![t] = Tail(todo[t])]
  BY DEF Done
<1>3. Tail(todo[t]) \in Seq(Step)
  BY <1>1, SeqTail
<1>4. /\ todo' \in [Threads -> Seq(Step)] /\ todo'[t] = Tail(todo[t])
      /\ \A u \in Threads \ {t} : todo'[u] = todo[u]
  BY <1>1, <1>2, <1>3
<1>5. Shape(t, todo'[t])
  BY <1>1, <1>4, ShapeTail
<1>6. Shapes'
  BY <1>4, <1>5 DEF IInv, ThreadInv, Shapes
<1>7. IdleUnlessRunning'
  BY <1>1, <1>4 DEF IInv, ThreadInv, IdleUnlessRunning, Threads
<1> QED
  BY <1>1, <1>4, <1>6, <1>7

\* Who holds a mutex is on the way to its release, unless this step is the release.
LEMMA HoldersGoOn ==
  ASSUME IInv, NEW t \in Threads, ~Idle(t), Done(t), running' = running,
         NEW l \in Locks, holder[l] # Nobody, t = "protocol" => Next1(t) # UnlockStep(l)
  PROVE  holder[l] = "protocol" /\ Until(todo'["protocol"], l)
<1>1. holder[l] = "protocol" /\ Until(todo["protocol"], l)
  BY DEF IInv, ThreadInv, HolderFits
<1>2. CASE t = "protocol"
  <2>1. todo["protocol"] \in Seq(Step) /\ "protocol" \in Threads
    BY <1>2 DEF IInv, ThreadInv, ThreadTypes
  <2>2. todo'["protocol"] = Tail(todo["protocol"]) /\ todo["protocol"] # <<>>
    BY <1>2, GoesOn
  <2> QED
    BY <1>1, <1>2, <2>1, <2>2, UntilTail DEF Next1
<1>3. CASE t # "protocol"
  <2>1. todo'["protocol"] = todo["protocol"]
    BY <1>3, GoesOn DEF Threads, Loops
  <2> QED
    BY <1>1, <2>1
<1> QED
  BY <1>2, <1>3

\* While the DHT is asked, the protocol thread does nothing but wait.
LEMMA AskingWaits ==
  ASSUME IInv, asking
  PROVE  /\ ~Idle("protocol") /\ Next1("protocol").do = "await"
         /\ todo["protocol"] = <<Await>>
<1>1. todo["protocol"] = <<Await>>
  BY DEF IInv, ThreadInv, AskingFits
<1>2. Head(<<Await>>) = Await /\ Await.do = "await" /\ <<Await>> # <<>>
  BY DEF Await
<1> QED
  BY <1>1, <1>2 DEF Idle, Next1

LEMMA BeginKeeps ==
  ASSUME IInv, NEW t \in Loops, Begin(t)
  PROVE  ThreadInv'
<1> USE DEF IInv, ThreadInv, Begin, mainVars
<1>1. PICK s \in Operations(t) : todo' = [todo EXCEPT ![t] = s]
  OBVIOUS
<1>2. t \in Threads /\ Shape(t, s)
  BY ShapeOfOperations DEF Threads
<1>3. s \in Seq(Step)
  BY <1>2, ShapeIsSeq
<1>4. /\ todo' \in [Threads -> Seq(Step)] /\ todo'[t] = s
      /\ \A u \in Threads \ {t} : todo'[u] = todo[u]
  BY <1>1, <1>2, <1>3 DEF ThreadTypes
<1>5. ThreadTypes'
  BY <1>4 DEF ThreadTypes
<1>6. Shapes'
  BY <1>2, <1>4 DEF Shapes
<1>7. IdleUnlessRunning'
  BY <1>4 DEF IdleUnlessRunning, Threads
<1>8. AskingFits'
  <2>1. ASSUME asking PROVE t # "protocol"
    BY <2>1, AskingWaits
  <2>2. t # "dht" /\ "dht" \in Threads /\ "protocol" \in Threads
    BY DEF Threads, Loops, GateKeepers
  <2>3. asking => todo'["protocol"] = <<Await>>
    BY <1>4, <2>1, <2>2 DEF AskingFits
  <2>4. todo'["dht"] # <<>> => asking
    BY <1>4, <2>2 DEF AskingFits
  <2> QED
    BY <2>3, <2>4 DEF AskingFits
<1>9. HolderFits'
  <2>1. ASSUME NEW l \in Locks, holder[l] # Nobody
        PROVE  holder[l] = "protocol" /\ Until(todo'["protocol"], l)
    <3>1. holder[l] = "protocol" /\ Until(todo["protocol"], l)
      BY <2>1 DEF HolderFits
    <3>2. todo["protocol"] # <<>>
      BY <3>1 DEF Until
    <3>3. t # "protocol"
      BY <3>2 DEF Idle
    <3>4. todo'["protocol"] = todo["protocol"]
      BY <1>4, <3>3 DEF Threads, Loops
    <3> QED
      BY <3>1, <3>4
  <2> QED
    BY <2>1 DEF HolderFits
<1> QED
  BY <1>5, <1>6, <1>7, <1>8, <1>9

LEMMA EndKeeps ==
  ASSUME IInv, NEW t \in Loops, End(t)
  PROVE  ThreadInv'
<1> USE DEF IInv, ThreadInv, End, mainVars
<1>1. IdleUnlessRunning'
  BY DEF IdleUnlessRunning, Idle
<1> QED
  BY <1>1 DEF ThreadTypes, Shapes, AskingFits, HolderFits

LEMMA TakeLockKeeps ==
  ASSUME IInv, NEW t \in Loops, TakeLock(t)
  PROVE  ThreadInv'
<1>1. t \in Threads /\ ~Idle(t) /\ Done(t) /\ running' = running /\ asking' = asking
  BY DEF TakeLock, Does, Threads
<1>2. /\ todo' \in [Threads -> Seq(Step)] /\ Shapes' /\ IdleUnlessRunning'
      /\ \A u \in Threads \ {t} : todo'[u] = todo[u]
      /\ todo'[t] = Tail(todo[t]) /\ todo[t] # <<>> /\ Shape(t, todo[t])
  BY <1>1, GoesOn
<1>3. Head(todo[t]).do = "lock"
  BY DEF TakeLock, Does, Next1
<1>4. t = "protocol"
  BY <1>2, <1>3, NextOfLoop
<1>5. Nested(todo[t], {}, Locks)
  BY <1>2, <1>3, <1>4, NextOfProtocol
<1> DEFINE l == Head(todo[t]).on
<1>6. l \in Locks
  <2>1. Head(todo[t]) \in PlainStep
    BY <1>2, <1>5, SeqTail DEF Nested
  <2> QED
    BY <1>3, <2>1 DEF PlainStep
<1>7. holder' = [holder EXCEPT ![l] = t] /\ holder[l] = Nobody
  BY DEF TakeLock, Next1
<1>8. Until(todo'["protocol"], l)
  BY <1>2, <1>3, <1>4, <1>5, UntilTaken
<1>9. Next1(t).do = "lock"
  BY <1>3 DEF Next1
<1> HIDE DEF l
<1>10. HolderFits'
  <2>1. ASSUME NEW m \in Locks, holder'[m] # Nobody
        PROVE  holder'[m] = "protocol" /\ Until(todo'["protocol"], m)
    <3>1. CASE m = l
      BY <1>4, <1>6, <1>7, <1>8, <3>1 DEF IInv, ThreadInv, ThreadTypes
    <3>2. CASE m # l
      <4>1. holder'[m] = holder[m]
        BY <1>6, <1>7, <3>2 DEF IInv, ThreadInv, ThreadTypes
      <4>2. Next1(t) # UnlockStep(m)
        BY <1>9 DEF UnlockStep
      <4>3. holder[m] = "protocol" /\ Until(todo'["protocol"], m)
        BY <1>1, <2>1, <4>1, <4>2, HoldersGoOn
      <4> QED
        BY <4>1, <4>3
    <3> QED
      BY <3>1, <3>2
  <2> QED
    BY <2>1 DEF HolderFits
<1>11. ThreadTypes'
  <2>1. holder' \in [Locks -> Threads \cup {Nobody}]
    BY <1>1, <1>6, <1>7 DEF IInv, ThreadInv, ThreadTypes
  <2> QED
    BY <1>1, <1>2, <2>1 DEF IInv, ThreadInv, ThreadTypes
<1>12. AskingFits'
  <2>1. ~asking
    BY <1>4, <1>9, AskingWaits
  <2>2. todo'["dht"] = todo["dht"]
    BY <1>2, <1>4 DEF Threads
  <2> QED
    BY <1>1, <2>1, <2>2 DEF IInv, ThreadInv, AskingFits
<1> QED
  BY <1>2, <1>10, <1>11, <1>12 DEF ThreadInv

\* Steps that neither take nor release a mutex.
LEMMA PlainStepKeeps ==
  ASSUME IInv, NEW t \in Threads, ~Idle(t), Done(t), running' = running, holder' = holder,
         asking' \in BOOLEAN, Next1(t).do # "unlock", AskingFits'
  PROVE  ThreadInv'
<1>1. todo' \in [Threads -> Seq(Step)] /\ Shapes' /\ IdleUnlessRunning'
  BY GoesOn
<1>2. ThreadTypes'
  BY <1>1 DEF IInv, ThreadInv, ThreadTypes
<1>3. HolderFits'
  <2>1. \A l \in Locks : Next1(t) # UnlockStep(l)
    BY DEF UnlockStep
  <2>2. ASSUME NEW l \in Locks, holder[l] # Nobody
        PROVE  holder[l] = "protocol" /\ Until(todo'["protocol"], l)
    BY <2>1, <2>2, HoldersGoOn
  <2> QED
    BY <2>2 DEF HolderFits
<1> QED
  BY <1>1, <1>2, <1>3 DEF ThreadInv

LEMMA PassSectionKeeps ==
  ASSUME IInv, NEW t \in Threads, PassSection(t)
  PROVE  ThreadInv'
<1>1. /\ ~Idle(t) /\ Done(t) /\ running' = running /\ holder' = holder /\ asking' = asking
      /\ Next1(t).do = "section"
  BY DEF PassSection, Does
<1>2. /\ \A u \in Threads \ {t} : todo'[u] = todo[u]
      /\ todo[t] # <<>>
  BY <1>1, GoesOn
<1>3. AskingFits'
  <2>1. "dht" \in Threads /\ "protocol" \in Threads
    BY DEF Threads, Loops
  <2>2. CASE asking
    <3>1. t # "protocol"
      BY <1>1, <2>2, AskingWaits
    <3>2. todo'["protocol"] = <<Await>>
      BY <1>2, <2>1, <2>2, <3>1 DEF IInv, ThreadInv, AskingFits
    <3> QED
      BY <1>1, <2>2, <3>2 DEF AskingFits
  <2>3. CASE ~asking
    <3>1. todo["dht"] = <<>>
      BY <2>3 DEF IInv, ThreadInv, AskingFits
    <3>2. todo'["dht"] = <<>>
      BY <1>2, <2>1, <3>1
    <3> QED
      BY <1>1, <2>3, <3>2 DEF AskingFits
  <2> QED
    BY <2>2, <2>3
<1>4. asking' \in BOOLEAN
  BY <1>1 DEF IInv, ThreadInv, ThreadTypes
<1> QED
  BY <1>1, <1>3, <1>4, PlainStepKeeps

\* A loop that asks nothing of the DHT while nobody else does.
LEMMA AskingFitsKept ==
  ASSUME IInv, Done("protocol"), ~Idle("protocol"), running' = running, ~asking, ~asking'
  PROVE  AskingFits'
<1>1. "dht" \in Threads \ {"protocol"} /\ "protocol" \in Threads
  BY DEF Threads, Loops
<1>2. todo'["dht"] = todo["dht"]
  BY <1>1, GoesOn
<1>3. todo["dht"] = <<>>
  BY DEF IInv, ThreadInv, AskingFits
<1> QED
  BY <1>2, <1>3 DEF AskingFits

\* Only the protocol thread does more than pass sections.
LEMMA OnlyProtocol ==
  ASSUME IInv, NEW t \in Loops, ~Idle(t), Next1(t).do # "section"
  PROVE  t = "protocol"
<1>1. Shape(t, todo[t]) /\ todo[t] # <<>>
  BY DEF IInv, ThreadInv, Shapes, Threads, Idle
<1> QED
  BY <1>1, NextOfLoop DEF Next1

LEMMA ReleaseLockKeeps ==
  ASSUME IInv, NEW t \in Loops, ReleaseLock(t)
  PROVE  ThreadInv'
<1>1. /\ t \in Threads /\ ~Idle(t) /\ Done(t) /\ running' = running /\ asking' = asking
      /\ Next1(t).do = "unlock" /\ holder' = [holder EXCEPT ![Next1(t).on] = Nobody]
  BY DEF ReleaseLock, Does, Threads
<1>2. t = "protocol"
  BY <1>1, OnlyProtocol
<1>3. todo' \in [Threads -> Seq(Step)] /\ Shapes' /\ IdleUnlessRunning'
  BY <1>1, GoesOn
<1>4. ~asking
  BY <1>1, <1>2, AskingWaits
<1>5. AskingFits'
  BY <1>1, <1>2, <1>4, AskingFitsKept
<1>6. ThreadTypes'
  <2>1. holder' \in [Locks -> Threads \cup {Nobody}]
    BY <1>1 DEF IInv, ThreadInv, ThreadTypes
  <2> QED
    BY <1>1, <1>3, <2>1 DEF IInv, ThreadInv, ThreadTypes
<1>7. HolderFits'
  <2>1. ASSUME NEW l \in Locks, holder'[l] # Nobody
        PROVE  holder'[l] = "protocol" /\ Until(todo'["protocol"], l)
    <3>1. l # Next1(t).on /\ holder'[l] = holder[l]
      BY <1>1, <2>1 DEF IInv, ThreadInv, ThreadTypes
    <3>2. Next1(t) # UnlockStep(l)
      BY <3>1 DEF UnlockStep
    <3>3. holder[l] = "protocol" /\ Until(todo'["protocol"], l)
      BY <1>1, <2>1, <3>1, <3>2, HoldersGoOn
    <3> QED
      BY <3>1, <3>3
  <2> QED
    BY <2>1 DEF HolderFits
<1> QED
  BY <1>3, <1>5, <1>6, <1>7 DEF ThreadInv

LEMMA UseSocketsKeeps ==
  ASSUME IInv, NEW t \in Loops, UseSockets(t)
  PROVE  ThreadInv'
<1>1. /\ t \in Threads /\ ~Idle(t) /\ Done(t) /\ running' = running /\ holder' = holder
      /\ asking' = asking /\ Next1(t).do = "use"
  BY DEF UseSockets, Does, Threads
<1>2. t = "protocol"
  BY <1>1, OnlyProtocol
<1>3. ~asking
  BY <1>1, <1>2, AskingWaits
<1>4. AskingFits'
  BY <1>1, <1>2, <1>3, AskingFitsKept
<1>5. asking' \in BOOLEAN
  BY <1>1 DEF IInv, ThreadInv, ThreadTypes
<1> QED
  BY <1>1, <1>4, <1>5, PlainStepKeeps

LEMMA AskDHTKeeps ==
  ASSUME IInv, NEW t \in Loops, AskDHT(t)
  PROVE  ThreadInv'
<1>1. /\ t \in Threads /\ ~Idle(t) /\ Done(t) /\ running' = running /\ holder' = holder
      /\ asking' = TRUE /\ Next1(t).do = "ask"
  BY DEF AskDHT, Does, Threads
<1>2. t = "protocol"
  BY <1>1, OnlyProtocol
<1>3. Shape("protocol", todo["protocol"]) /\ todo["protocol"] # <<>>
  BY <1>1, <1>2, GoesOn
<1>4. todo'["protocol"] = <<Await>>
  BY <1>1, <1>2, <1>3, GoesOn, NextOfProtocol DEF Next1
<1>5. AskingFits' /\ asking' \in BOOLEAN
  BY <1>1, <1>4 DEF AskingFits
<1> QED
  BY <1>1, <1>5, PlainStepKeeps

LEMMA AwaitDHTKeeps ==
  ASSUME IInv, NEW t \in Loops, AwaitDHT(t)
  PROVE  ThreadInv'
<1>1. /\ t \in Threads /\ ~Idle(t) /\ Done(t) /\ running' = running /\ holder' = holder
      /\ asking' = asking /\ ~asking /\ Next1(t).do = "await"
  BY DEF AwaitDHT, Does, Threads
<1>2. t = "protocol"
  BY <1>1, OnlyProtocol
<1>3. AskingFits'
  BY <1>1, <1>2, AskingFitsKept
<1>4. asking' \in BOOLEAN
  BY <1>1 DEF IInv, ThreadInv, ThreadTypes
<1> QED
  BY <1>1, <1>3, <1>4, PlainStepKeeps

LEMMA AnswerDHTKeeps ==
  ASSUME IInv, NEW t \in Threads, AnswerDHT(t)
  PROVE  ThreadInv'
<1>1. /\ ~Idle(t) /\ Done(t) /\ running' = running /\ holder' = holder
      /\ asking' = FALSE /\ Next1(t).do = "answer"
  BY DEF AnswerDHT, Does
<1>2. Shape(t, todo[t]) /\ todo[t] # <<>> /\ todo'[t] = Tail(todo[t])
  BY <1>1, GoesOn
<1>3. t = "dht"
  <2>1. t # "protocol"
    BY <1>1, <1>2, NextOfProtocol DEF Next1
  <2>2. t \notin Loops
    BY <1>1, <2>1, OnlyProtocol
  <2> QED
    BY <2>2 DEF Threads
<1>4. todo'["dht"] = <<>>
  BY <1>1, <1>2, <1>3, NextOfDHT DEF Next1
<1>5. AskingFits' /\ asking' \in BOOLEAN
  BY <1>1, <1>4 DEF AskingFits
<1> QED
  BY <1>1, <1>5, PlainStepKeeps

LEMMA BeginAnswerKeeps ==
  ASSUME IInv, BeginAnswer
  PROVE  ThreadInv'
<1> USE DEF IInv, ThreadInv, BeginAnswer, mainVars
<1>1. PICK s \in Operations("dht") : todo' = [todo EXCEPT !["dht"] = s]
  OBVIOUS
<1>2. /\ "dht" \in Threads /\ "protocol" \in Threads \ {"dht"} /\ Loops \subseteq Threads \ {"dht"}
      /\ asking' = asking /\ asking /\ holder' = holder /\ running' = running
  BY DEF Threads, Loops, GateKeepers
<1>3. Shape("dht", s)
  BY <1>2, ShapeOfOperations
<1>4. s \in Seq(Step)
  BY <1>2, <1>3, ShapeIsSeq
<1>5. /\ todo' \in [Threads -> Seq(Step)] /\ todo'["dht"] = s
      /\ \A u \in Threads \ {"dht"} : todo'[u] = todo[u]
  BY <1>1, <1>2, <1>4 DEF ThreadTypes
<1>6. ThreadTypes'
  BY <1>2, <1>5 DEF ThreadTypes
<1>7. Shapes'
  BY <1>3, <1>5 DEF Shapes
<1>8. IdleUnlessRunning'
  BY <1>2, <1>5 DEF IdleUnlessRunning
<1>9. AskingFits'
  BY <1>2, <1>5 DEF AskingFits
<1>10. HolderFits'
  BY <1>2, <1>5 DEF HolderFits
<1> QED
  BY <1>6, <1>7, <1>8, <1>9, <1>10

LEMMA ThreadKeeps ==
  ASSUME IInv, NEW t \in Loops, Thread(t)
  PROVE  IInv'
<1>1. ThreadInv'
  BY BeginKeeps, EndKeeps, TakeLockKeeps, PassSectionKeeps, ReleaseLockKeeps, UseSocketsKeeps,
     AskDHTKeeps, AwaitDHTKeeps, AnswerDHTKeeps DEF Thread, Threads
<1>2. /\ UNCHANGED <<mainVars, keep>>
      /\ running' = running \/ (~keep[FlagOf(t)] /\ running' = running \ {t})
  BY DEF Thread, Begin, End, TakeLock, PassSection, ReleaseLock, UseSockets, AskDHT, AwaitDHT,
         AnswerDHT
<1>3. MainInv'
  BY <1>2, MainInvKept DEF IInv
<1> QED
  BY <1>1, <1>3 DEF IInv

LEMMA DHTKeeps ==
  ASSUME IInv, BeginAnswer \/ PassSection("dht") \/ AnswerDHT("dht")
  PROVE  IInv'
<1>1. ThreadInv'
  BY BeginAnswerKeeps, PassSectionKeeps, AnswerDHTKeeps DEF Threads
<1>2. UNCHANGED <<mainVars, keep>> /\ running' = running
  BY DEF BeginAnswer, PassSection, AnswerDHT
<1>3. MainInv'
  BY <1>2, MainInvKept DEF IInv
<1> QED
  BY <1>1, <1>3 DEF IInv

LEMMA Inductive ==
  ASSUME IInv, [Next]_vars
  PROVE  IInv'
<1>1. CASE Next
  BY <1>1, MainKeeps, ThreadKeeps, DHTKeeps DEF Next
<1>2. CASE UNCHANGED vars
  BY <1>2 DEF vars, IInv, MainInv, MainTypes, TriesFit, AddressesPaired, SocketsFit, ThreadsFit,
              GateKeepersFit, ThreadInv, ThreadTypes, Shapes, IdleUnlessRunning, AskingFits, HolderFits
<1> QED
  BY <1>1, <1>2

----------------------------------------------------------------------------
(* What follows from it.                                                   *)

LEMMA HolderIsFree == IInv => SomeHolderGoesOn
<1> SUFFICES ASSUME IInv, NEW l \in Locks, holder[l] # Nobody
             PROVE  ~Stuck(holder[l])
  BY DEF SomeHolderGoesOn
<1>1. holder[l] = "protocol" /\ Until(todo["protocol"], l)
  BY DEF IInv, ThreadInv, HolderFits
<1>2. ASSUME Does("protocol", "lock") \/ Does("protocol", "section"),
             holder[Next1("protocol").on] # Nobody
      PROVE  FALSE
  <2> DEFINE s == todo["protocol"]
  <2> DEFINE m == Head(s).on
  <2>1. s \in Seq(Step) /\ s # <<>> /\ Head(s).do \in {"lock", "section"}
    BY <1>2 DEF IInv, ThreadInv, ThreadTypes, Does, Idle, Next1, Threads, Loops
  <2>2. Head(s) = s[1] /\ s[1] \in Step /\ Len(s) \in Nat \ {0}
    BY <2>1, SeqTail
  <2>3. m \in Locks /\ holder[m] # Nobody
    BY <1>2, <2>1, <2>2 DEF Step, Next1
  <2>4. PICK j \in 1..Len(s) : s[j] = UnlockStep(m) /\ \A k \in 1..j-1 : s[k].on # m
    BY <2>3 DEF IInv, ThreadInv, HolderFits, Until
  <2>5. j = 1
    BY <2>2, <2>4
  <2> QED
    BY <2>1, <2>2, <2>4, <2>5 DEF UnlockStep
<1>3. ASSUME asking PROVE FALSE
  <2>1. Until(<<Await>>, l)
    BY <1>1, <1>3, AskingWaits
  <2>2. PICK j \in 1..Len(<<Await>>) : <<Await>>[j] = UnlockStep(l)
    BY <2>1 DEF Until
  <2>3. j = 1 /\ <<Await>>[1] = Await
    BY <2>2
  <2> QED
    BY <2>2, <2>3 DEF Await, UnlockStep
<1> QED
  BY <1>1, <1>2, <1>3 DEF Stuck

LEMMA SocketsThere == IInv => ThreadHasSockets
<1> SUFFICES ASSUME IInv PROVE ThreadHasSockets
  OBVIOUS
<1>1. "protocol" \in running => main \in Started /\ sockets = Bound(data) /\ sockets # {}
  BY DEF IInv, MainInv, ThreadsFit, SocketsFit
<1>2. "protocol" \in running => \A f \in sockets : data.ext[f] = "good"
  BY <1>1 DEF IInv, MainInv, AddressesPaired
<1>3. asking => dht
  <2> SUFFICES ASSUME asking PROVE dht
    OBVIOUS
  <2>1. "protocol" \in running
    BY AskingWaits DEF IInv, ThreadInv, IdleUnlessRunning, Idle, Loops
  <2> QED
    BY <1>1, <2>1 DEF IInv, MainInv, SocketsFit
<1> QED
  BY <1>1, <1>2, <1>3 DEF ThreadHasSockets

LEMMA NothingOpen == IInv => NothingLeft
<1> SUFFICES ASSUME IInv PROVE NothingLeft
  OBVIOUS
<1>1. ASSUME main \in {"read", "failed"}
      PROVE  sockets = {} /\ running \cap {"protocol", "dashboard"} = {}
  BY <1>1 DEF IInv, MainInv, SocketsFit, ThreadsFit, Started, Watched
<1>2. ASSUME main = "exited" PROVE running = {} /\ sockets = {} /\ ~dht
  BY <1>2 DEF IInv, MainInv, SocketsFit, GateKeepersFit, Started
<1>3. ASSUME main = "exited", NEW l \in Locks PROVE holder[l] = Nobody
  <2>1. todo["protocol"] = <<>>
    BY <1>2, <1>3 DEF IInv, ThreadInv, IdleUnlessRunning, Loops
  <2>2. ~Until(<<>>, l)
    BY DEF Until
  <2> QED
    BY <2>1, <2>2 DEF IInv, ThreadInv, HolderFits
<1> QED
  BY <1>1, <1>2, <1>3 DEF NothingLeft

LEMMA Invariance == Spec => []IInv
<1>1. IInv /\ [Next]_vars => IInv'
  BY Inductive
<1> QED
  BY <1>1, InitFits, PTL DEF Spec

\* Types, in particular that the failed starts are counted up to MaxTries + 1.
THEOREM TypeCorrect == Spec => []TypeOK
<1>1. IInv => TypeOK
  BY Types DEF IInv, MainInv, ThreadInv
<1> QED
  BY <1>1, Invariance, PTL

\* The threads never wait for each other in a circle of mutexes and the DHT
\* (RemovePeer, ClientMayLink, GetDHTConfig).
THEOREM NoDeadlock == Spec => []SomeHolderGoesOn
<1> QED
  BY HolderIsFree, Invariance, PTL

\* The protocol thread finds its sockets open as long as it runs, and the DHT node
\* running as long as it waits for it (CReflector::Start and Stop).
THEOREM SocketsKept == Spec => []ThreadHasSockets
<1> QED
  BY SocketsThere, Invariance, PTL

\* A failed start leaves nothing that the next one could meet, and the end leaves
\* no thread, socket or mutex (main, CReflector::Stop).
THEOREM NothingLeftOpen == Spec => []NothingLeft
<1> QED
  BY NothingOpen, Invariance, PTL
=============================================================================
