---------------------------- MODULE Parrot_proofs ----------------------------
(***************************************************************************)
(* Theorems about module Parrot, for any number of clients and frames.     *)
(***************************************************************************)
EXTENDS Parrot, Integers, TLAPS

USE MaxFramesAssumption, StreamTimeoutAssumption, NoClientAssumption

\* A recording is played by the thread m_fut does not refer to yet.
LEMMA PlayType ==
  ASSUME NEW c \in Clients, Play(c),
         fut \in [Clients -> {0} \cup Threads],
         thread \in [Clients -> [Threads -> {"launched", "playing", "returning", "ended"}]]
  PROVE  /\ fut' \in [Clients -> {0} \cup Threads]
         /\ fut'[c] \in Threads /\ fut'[c] # fut[c]
         /\ \A d \in Clients : d # c => fut'[d] = fut[d]
         /\ thread' \in [Clients -> [Threads -> {"launched", "playing", "returning", "ended"}]]
         /\ \A d \in Clients, j \in Threads :
              thread'[d][j] = IF d = c /\ j = fut'[c] THEN "launched" ELSE thread[d][j]
         /\ joining' \in {c, NoClient}
         /\ joining' = c <=> fut[c] # 0 /\ thread[c][fut[c]] # "ended"
         /\ due' = IF fut[c] = 0 THEN [due EXCEPT ![c] = held'[c]] ELSE due
<1> DEFINE i == CHOOSE j \in Threads : j # fut[c]
<1>1. i \in Threads /\ i # fut[c]
  <2>1. \E j \in Threads : j # fut[c]
    BY DEF Threads
  <2> QED BY <2>1
<1>2. /\ thread' = [thread EXCEPT ![c][i] = "launched"]
      /\ joining' = IF fut[c] # 0 /\ thread[c][fut[c]] # "ended" THEN c ELSE NoClient
      /\ fut' = [fut EXCEPT ![c] = i]
      /\ due' = IF fut[c] = 0 THEN [due EXCEPT ![c] = held'[c]] ELSE due
  BY DEF Play
<1> HIDE DEF i
<1> QED BY <1>1, <1>2

----------------------------------------------------------------------------
(* The invariant.  TypeOK and ThreadsHaveParrot are not inductive alone.   *)

\* While a parrot records, no thread has started to play it, and nothing that was to
\* be played has got lost.
Recorded ==
  \A c \in Clients : c \in parrots /\ state[c] = "record" =>
    /\ echoed[c] = 0
    /\ fut[c] # 0 => held[c] >= due[c]
    /\ \A i \in Threads : thread[c][i] \in {"launched", "ended"}

\* From then on all that was due has been sent, or a thread is sending it: a frame
\* that is added, or a second thread that sets the size anew, takes nothing away
\* before that.
Echoing ==
  \A c \in Clients : c \in parrots /\ state[c] # "record" =>
    /\ fut[c] # 0
    /\ \/ echoed[c] >= due[c]
       \/ /\ state[c] = "play" /\ size[c] >= due[c] /\ held[c] >= due[c]
          /\ \E i \in Threads : thread[c][i] = "playing"

\* No thread is ahead of what has been sent, and each starts at the first frame.
Positions ==
  \A c \in Clients, i \in Threads : /\ n[c][i] <= echoed[c]
                                    /\ thread[c][i] # "playing" => n[c][i] = 0

\* A thread that m_fut does not refer to is one that the protocol thread waits for.
Joins ==
  \A c \in Clients : \A i \in Threads : thread[c][i] # "ended" =>
    c \in parrots /\ fut[c] # 0 /\ (i = fut[c] \/ joining = c)

\* A new parrot has not been played.
Unplayed == \A c \in Clients \ parrots : fut[c] = 0

\* The loop stands still at a parrot that plays or is done, and the protocol thread
\* does not wait for a playback while it is about to add a frame.
Waits == /\ spin # NoClient => state[spin] # "record"
         /\ joining # NoClient => pc = "sweep"

IInv == TypeOK /\ Recorded /\ Echoing /\ Positions /\ Joins /\ Unplayed /\ Waits

Phases == {"launched", "playing", "returning", "ended"}

\* Launching a playback at a recording whose other threads the protocol thread does
\* not wait for keeps the bookkeeping of threads.
LEMMA PlayJoins ==
  ASSUME TypeOK, Joins, Unplayed, joining = NoClient, NEW c \in Clients,
         parrots' = parrots \cup {c}, held' \in [Clients -> 0..MaxFrames],
         Play(c) \/ NoPlay
  PROVE  /\ Joins' /\ Unplayed'
         /\ joining' \in {c, NoClient}
         /\ fut' \in [Clients -> {0} \cup Threads] /\ due' \in [Clients -> 0..MaxFrames]
         /\ thread' \in [Clients -> [Threads -> Phases]]
         /\ \A d \in Clients : d # c => fut'[d] = fut[d] /\ due'[d] = due[d]
         /\ fut[c] # 0 => fut'[c] # 0 /\ due'[c] = due[c]
         /\ fut[c] = 0 /\ fut'[c] # 0 => due'[c] = held'[c]
         /\ \A d \in Clients, i \in Threads :
              \/ thread'[d][i] = thread[d][i]
              \/ d = c /\ thread[d][i] # "playing" /\ thread'[d][i] = "launched"
<1>1. CASE NoPlay
  BY <1>1 DEF NoPlay, Joins, Unplayed, TypeOK, Phases
<1>2. CASE Play(c)
  <2>1. PICK i \in Threads :
          /\ i # fut[c] /\ fut'[c] = i
          /\ \A d \in Clients : d # c => fut'[d] = fut[d]
          /\ \A d \in Clients, j \in Threads :
               thread'[d][j] = IF d = c /\ j = i THEN "launched" ELSE thread[d][j]
          /\ joining' \in {c, NoClient}
          /\ joining' = c <=> fut[c] # 0 /\ thread[c][fut[c]] # "ended"
          /\ due' = IF fut[c] = 0 THEN [due EXCEPT ![c] = held'[c]] ELSE due
    <3>1. fut \in [Clients -> {0} \cup Threads]
      BY DEF TypeOK
    <3>2. thread \in [Clients -> [Threads -> {"launched", "playing", "returning", "ended"}]]
      BY DEF TypeOK
    <3> QED BY <1>2, <3>1, <3>2, PlayType
  <2>2. /\ fut' \in [Clients -> {0} \cup Threads]
        /\ thread' \in [Clients -> [Threads -> Phases]]
    BY <1>2, PlayType DEF TypeOK, Phases
  <2>3. 0 \notin Threads
    BY DEF Threads
  <2>4. ASSUME NEW d \in Clients, NEW j \in Threads, thread'[d][j] # "ended"
        PROVE  d \in parrots' /\ fut'[d] # 0 /\ (j = fut'[d] \/ joining' = d)
    <3>1. CASE d = c /\ j = i
      BY <2>1, <2>3, <3>1
    <3>2. CASE ~(d = c /\ j = i)
      <4>1. thread[d][j] # "ended" /\ d \in parrots /\ fut[d] # 0 /\ j = fut[d]
        BY <2>1, <2>4, <3>2 DEF Joins
      <4> QED BY <2>1, <2>3, <3>2, <4>1
    <3> QED BY <3>1, <3>2
  <2>5. thread[c][i] = "ended"
    BY <2>1 DEF Joins
  <2>6. due' \in [Clients -> 0..MaxFrames]
    BY <2>1 DEF TypeOK
  <2>7. /\ \A d \in Clients : d # c => due'[d] = due[d]
        /\ fut[c] # 0 => due'[c] = due[c]
        /\ fut[c] = 0 => due'[c] = held'[c]
    BY <2>1 DEF TypeOK
  <2>8. Unplayed'
    BY <2>1 DEF Unplayed
  <2> QED BY <2>1, <2>2, <2>3, <2>4, <2>5, <2>6, <2>7, <2>8 DEF Joins
<1> QED BY <1>1, <1>2

----------------------------------------------------------------------------
(* Frames.                                                                 *)

\* A frame leaves the parrots of others alone, and of its own it takes nothing that
\* was due.
TakesFrame(c) == StartRecording(c) \/ EchoPacket(c) \/ \E last \in BOOLEAN : Add(c, last)

LEMMA Recording ==
  ASSUME IInv, NEW c \in Clients, TakesFrame(c)
  PROVE  /\ joining = NoClient /\ parrots' = parrots \cup {c} /\ (Play(c) \/ NoPlay)
         /\ adding' = NoClient /\ pc' = "sweep" /\ todo' = parrots' /\ spin' = spin /\ n' = n
         /\ kind' \in [Clients -> {"stream", "packet"}]
         /\ state' \in [Clients -> {"record", "play", "done"}]
         /\ held' \in [Clients -> 0..MaxFrames] /\ size' \in [Clients -> 0..MaxFrames]
         /\ idle' \in [Clients -> 0..StreamTimeout + 1]
         /\ echoed' \in [Clients -> 0..MaxFrames]
         /\ \A d \in Clients : d # c => /\ state'[d] = state[d] /\ held'[d] = held[d]
                                        /\ size'[d] = size[d] /\ echoed'[d] = echoed[d]
         /\ \/ c \notin parrots /\ state'[c] = "record" /\ echoed'[c] = 0
            \/ /\ c \in parrots /\ state'[c] = state[c] /\ echoed'[c] = echoed[c]
               /\ size'[c] = size[c]
               /\ state[c] # "done" => held'[c] >= held[c]
<1> USE DEF IInv
<1>1. ASSUME NEW k \in {"stream", "packet"}, NewParrot(c, k)
      PROVE  /\ joining = NoClient /\ parrots' = parrots \cup {c}
             /\ adding' = NoClient /\ pc' = "sweep" /\ todo' = parrots' /\ spin' = spin /\ n' = n
             /\ kind' \in [Clients -> {"stream", "packet"}]
             /\ state' \in [Clients -> {"record", "play", "done"}]
             /\ held' \in [Clients -> 0..MaxFrames] /\ size' \in [Clients -> 0..MaxFrames]
             /\ idle' \in [Clients -> 0..StreamTimeout + 1]
             /\ echoed' \in [Clients -> 0..MaxFrames]
             /\ \A d \in Clients : d # c => /\ state'[d] = state[d] /\ held'[d] = held[d]
                                            /\ size'[d] = size[d] /\ echoed'[d] = echoed[d]
             /\ c \notin parrots /\ state'[c] = "record" /\ echoed'[c] = 0
  BY <1>1 DEF NewParrot, AtSocket, Received, TypeOK
<1>2. CASE StartRecording(c)
  BY <1>1, <1>2 DEF StartRecording
<1>3. CASE EchoPacket(c)
  BY <1>1, <1>3 DEF EchoPacket
<1>4. ASSUME NEW last \in BOOLEAN, Add(c, last)
      PROVE  /\ joining = NoClient /\ c \in parrots /\ parrots' = parrots /\ (Play(c) \/ NoPlay)
             /\ Received /\ UNCHANGED <<kind, state, size, echoed>>
             /\ idle' \in [Clients -> 0..StreamTimeout + 1]
             /\ held' \in [Clients -> 0..MaxFrames]
             /\ \A d \in Clients : d # c => held'[d] = held[d]
             /\ state[c] # "done" => held'[c] >= held[c]
  <2>1. /\ pc = "add" /\ adding = c /\ parrots' = parrots /\ (Play(c) \/ NoPlay)
        /\ Received /\ UNCHANGED <<kind, state, size, echoed>>
        /\ idle' = [idle EXCEPT ![c] = 0]
    BY <1>4 DEF Add
  <2>2. PICK h \in Grown(c) : held' = [held EXCEPT ![c] = h]
    BY <1>4 DEF Add
  <2>3. held[c] \in 0..MaxFrames
    BY DEF TypeOK
  <2>4. h \in 0..MaxFrames /\ (state[c] # "done" => h >= held[c])
    <3>1. CASE ~Room(c)
      BY <2>3, <3>1 DEF Grown
    <3>2. CASE Room(c) /\ state[c] = "done"
      BY <3>2 DEF Grown
    <3>3. CASE Room(c) /\ state[c] # "done"
      <4>1. h = held[c] + 1 /\ held[c] < MaxFrames
        BY <3>3 DEF Grown, Room
      <4> QED BY <2>3, <4>1
    <3> QED BY <3>1, <3>2, <3>3
  <2>5. /\ held' \in [Clients -> 0..MaxFrames] /\ held'[c] = h
        /\ \A d \in Clients : d # c => held'[d] = held[d]
    BY <2>2, <2>4 DEF TypeOK
  <2>6. joining = NoClient /\ c \in parrots
    BY <2>1, NoClientAssumption DEF TypeOK, Waits
  <2>7. idle' \in [Clients -> 0..StreamTimeout + 1]
    BY <2>1 DEF TypeOK
  <2> QED BY <2>1, <2>4, <2>5, <2>6, <2>7
<1>5. CASE \E last \in BOOLEAN : Add(c, last)
  BY <1>4, <1>5 DEF Received, TypeOK
<1> QED BY <1>2, <1>3, <1>5 DEF TakesFrame

\* So it keeps the invariant.
LEMMA FrameInv ==
  ASSUME IInv, NEW c \in Clients, TakesFrame(c)
  PROVE  IInv'
<1> USE DEF IInv
<1>1. /\ joining = NoClient /\ parrots' = parrots \cup {c} /\ (Play(c) \/ NoPlay)
      /\ adding' = NoClient /\ pc' = "sweep" /\ todo' = parrots' /\ spin' = spin /\ n' = n
      /\ kind' \in [Clients -> {"stream", "packet"}]
      /\ state' \in [Clients -> {"record", "play", "done"}]
      /\ held' \in [Clients -> 0..MaxFrames] /\ size' \in [Clients -> 0..MaxFrames]
      /\ idle' \in [Clients -> 0..StreamTimeout + 1]
      /\ echoed' \in [Clients -> 0..MaxFrames]
  BY Recording
<1>2. /\ \A d \in Clients : d # c => /\ state'[d] = state[d] /\ held'[d] = held[d]
                                     /\ size'[d] = size[d] /\ echoed'[d] = echoed[d]
      /\ \/ c \notin parrots /\ state'[c] = "record" /\ echoed'[c] = 0
         \/ /\ c \in parrots /\ state'[c] = state[c] /\ echoed'[c] = echoed[c]
            /\ size'[c] = size[c]
            /\ state[c] # "done" => held'[c] >= held[c]
  BY Recording
<1>3. /\ Joins' /\ Unplayed' /\ joining' \in {c, NoClient}
      /\ fut' \in [Clients -> {0} \cup Threads] /\ due' \in [Clients -> 0..MaxFrames]
      /\ thread' \in [Clients -> [Threads -> Phases]]
      /\ \A d \in Clients : d # c => fut'[d] = fut[d] /\ due'[d] = due[d]
      /\ fut[c] # 0 => fut'[c] # 0 /\ due'[c] = due[c]
      /\ fut[c] = 0 /\ fut'[c] # 0 => due'[c] = held'[c]
      /\ \A d \in Clients, i \in Threads :
           \/ thread'[d][i] = thread[d][i]
           \/ d = c /\ thread[d][i] # "playing" /\ thread'[d][i] = "launched"
  BY <1>1, PlayJoins
<1>4. TypeOK'
  <2>1. spin' \in todo' \cup {NoClient} /\ joining' \in parrots' \cup {NoClient}
    BY <1>1, <1>3 DEF TypeOK
  <2> QED BY <1>1, <1>3, <2>1 DEF TypeOK, Phases
<1>5. \A d \in Clients : held[d] \in Int /\ held'[d] \in Int /\ due[d] \in Int /\ due'[d] \in Int
  BY <1>4 DEF TypeOK
<1>6. ASSUME NEW d \in Clients, d \in parrots', state'[d] = "record"
      PROVE  /\ echoed'[d] = 0
             /\ fut'[d] # 0 => held'[d] >= due'[d]
             /\ \A i \in Threads : thread'[d][i] \in {"launched", "ended"}
  <2>1. CASE d # c
    <3>1. /\ d \in parrots /\ state[d] = "record" /\ echoed'[d] = echoed[d]
          /\ held'[d] = held[d] /\ fut'[d] = fut[d] /\ due'[d] = due[d]
      BY <1>1, <1>2, <1>3, <1>6, <2>1
    <3>2. \A i \in Threads : thread'[d][i] = thread[d][i]
      BY <1>3, <2>1
    <3> QED BY <3>1, <3>2 DEF Recorded
  <2>2. CASE d = c /\ c \in parrots
    <3>1. state[c] = "record" /\ echoed'[c] = echoed[c] /\ held'[c] >= held[c]
      BY <1>2, <1>6, <2>2
    <3>2. fut[c] # 0 => held'[c] >= due'[c]
      BY <1>3, <1>5, <2>2, <3>1 DEF Recorded
    <3>3. fut'[c] # 0 => held'[c] >= due'[c]
      BY <1>3, <1>5, <3>2
    <3> QED BY <1>3, <2>2, <3>1, <3>3 DEF Recorded
  <2>3. CASE d = c /\ c \notin parrots
    <3>1. \A i \in Threads : thread[c][i] = "ended"
      BY <2>3 DEF Joins
    <3>2. fut[c] = 0
      BY <2>3 DEF Unplayed
    <3> QED BY <1>2, <1>3, <1>5, <2>3, <3>1, <3>2
  <2> QED BY <2>1, <2>2, <2>3
<1>7. ASSUME NEW d \in Clients, d \in parrots', state'[d] # "record"
      PROVE  /\ fut'[d] # 0
             /\ \/ echoed'[d] >= due'[d]
                \/ /\ state'[d] = "play" /\ size'[d] >= due'[d] /\ held'[d] >= due'[d]
                   /\ \E i \in Threads : thread'[d][i] = "playing"
  <2>1. /\ d \in parrots /\ state'[d] = state[d] /\ state[d] # "record"
        /\ echoed'[d] = echoed[d] /\ size'[d] = size[d]
        /\ state[d] # "done" => held'[d] >= held[d]
    BY <1>1, <1>2, <1>5, <1>7
  <2>2. fut[d] # 0
    BY <2>1 DEF Echoing
  <2>3. fut'[d] # 0 /\ due'[d] = due[d]
    BY <1>3, <2>2
  <2>4. \A i \in Threads : thread[d][i] = "playing" => thread'[d][i] = "playing"
    BY <1>3
  <2>5. CASE echoed[d] >= due[d]
    BY <2>1, <2>3, <2>5
  <2>6. CASE /\ state[d] = "play" /\ size[d] >= due[d] /\ held[d] >= due[d]
             /\ \E i \in Threads : thread[d][i] = "playing"
    <3>1. held'[d] >= due'[d]
      BY <1>5, <2>1, <2>3, <2>6
    <3> QED BY <2>1, <2>3, <2>4, <2>6, <3>1
  <2> QED BY <2>1, <2>5, <2>6 DEF Echoing
<1>8. Positions'
  <2> SUFFICES ASSUME NEW d \in Clients, NEW i \in Threads
               PROVE  n'[d][i] <= echoed'[d] /\ (thread'[d][i] # "playing" => n'[d][i] = 0)
    BY DEF Positions
  <2>1. thread'[d][i] # "playing" => n[d][i] = 0
    BY <1>3 DEF Positions
  <2>2. n[d][i] <= echoed'[d]
    <3>1. CASE d = c /\ c \notin parrots
      BY <1>2, <3>1 DEF Joins, Positions
    <3>2. CASE ~(d = c /\ c \notin parrots)
      BY <1>2, <3>2 DEF Positions
    <3> QED BY <3>1, <3>2
  <2> QED BY <1>1, <2>1, <2>2
<1>9. Waits'
  <2> SUFFICES ASSUME spin # NoClient PROVE state'[spin] # "record"
    BY <1>1 DEF Waits
  <2>1. spin \in parrots /\ spin \in Clients /\ state[spin] # "record"
    BY DEF Waits, TypeOK
  <2> QED BY <1>2, <2>1
<1> QED BY <1>3, <1>4, <1>6, <1>7, <1>8, <1>9 DEF Recorded, Echoing

----------------------------------------------------------------------------
(* The loop over the parrots, and playback.                                *)

LEMMA SweepInv ==
  ASSUME IInv, NEW c \in Clients, Sweep(c)
  PROVE  IInv'
<1> USE DEF IInv
<1>1. /\ Sweeping(c) /\ c \in parrots /\ pc = "sweep" /\ adding = NoClient
      /\ UNCHANGED <<pc, adding, kind, state, held, size, idle, n, echoed>>
  BY DEF Sweep, SweepRecording, SweepPlaying, SweepDone, Sweeping, TypeOK
<1>2. CASE SweepRecording(c)
  <2>1. /\ parrots' = parrots /\ parrots' = parrots \cup {c}
        /\ todo' = todo \ {c} /\ spin' = spin /\ state[c] = "record"
        /\ (Play(c) \/ NoPlay) /\ held' \in [Clients -> 0..MaxFrames]
    BY <1>1, <1>2 DEF SweepRecording, TypeOK
  <2>2. spin = NoClient
    BY <1>1, <2>1 DEF Sweeping, Waits
  <2>3. /\ Joins' /\ Unplayed' /\ joining' \in {c, NoClient}
        /\ fut' \in [Clients -> {0} \cup Threads] /\ due' \in [Clients -> 0..MaxFrames]
        /\ thread' \in [Clients -> [Threads -> Phases]]
        /\ \A d \in Clients : d # c => fut'[d] = fut[d] /\ due'[d] = due[d]
        /\ fut[c] # 0 => fut'[c] # 0 /\ due'[c] = due[c]
        /\ fut[c] = 0 /\ fut'[c] # 0 => due'[c] = held'[c]
        /\ \A d \in Clients, i \in Threads :
             \/ thread'[d][i] = thread[d][i]
             \/ d = c /\ thread[d][i] # "playing" /\ thread'[d][i] = "launched"
    BY <1>1, <2>1, PlayJoins DEF Sweeping
  <2>4. TypeOK'
    BY <1>1, <2>1, <2>2, <2>3 DEF TypeOK, Phases
  <2>5. Recorded'
    <3> SUFFICES ASSUME NEW d \in Clients, d \in parrots, state[d] = "record"
                 PROVE  /\ echoed[d] = 0
                        /\ fut'[d] # 0 => held[d] >= due'[d]
                        /\ \A i \in Threads : thread'[d][i] \in {"launched", "ended"}
      BY <1>1, <2>1 DEF Recorded
    <3>1. held[d] \in Int
      BY DEF TypeOK
    <3>2. fut'[d] # 0 => held[d] >= due'[d]
      BY <1>1, <2>3, <3>1 DEF Recorded
    <3> QED BY <2>3, <3>2 DEF Recorded
  <2>6. ASSUME NEW d \in Clients, d \in parrots', state'[d] # "record"
        PROVE  /\ fut'[d] # 0
               /\ \/ echoed'[d] >= due'[d]
                  \/ /\ state'[d] = "play" /\ size'[d] >= due'[d] /\ held'[d] >= due'[d]
                     /\ \E i \in Threads : thread'[d][i] = "playing"
    <3>1. d # c /\ d \in parrots /\ state[d] # "record"
      BY <1>1, <2>1, <2>6
    <3>2. \A i \in Threads : thread'[d][i] = thread[d][i]
      BY <2>3, <3>1
    <3> QED BY <1>1, <2>3, <3>1, <3>2 DEF Echoing
  <2>7. Positions'
    BY <1>1, <2>3 DEF Positions
  <2> QED BY <1>1, <2>2, <2>1, <2>3, <2>4, <2>5, <2>6, <2>7 DEF Echoing, Waits
<1>3. CASE SweepPlaying(c)
  <2>1. /\ parrots' = parrots /\ todo' = todo /\ spin' = c /\ state[c] = "play"
        /\ UNCHANGED <<thread, joining, fut, due>>
    BY <1>3 DEF SweepPlaying, NoPlay
  <2>2. TypeOK'
    BY <1>1, <2>1 DEF TypeOK, Sweeping
  <2> QED BY <1>1, <2>1, <2>2 DEF Recorded, Echoing, Positions, Joins, Unplayed, Waits
<1>4. CASE SweepDone(c)
  <2>1. /\ parrots' = parrots \ {c} /\ todo' = todo \ {c} /\ spin' = NoClient
        /\ fut' = [fut EXCEPT ![c] = 0] /\ thread[c][fut[c]] = "ended"
        /\ UNCHANGED <<thread, joining, due>> /\ joining = NoClient
    BY <1>4 DEF SweepDone, Sweeping
  <2>2. \A i \in Threads : thread[c][i] = "ended"
    BY <2>1 DEF Joins
  <2>3. TypeOK'
    BY <1>1, <2>1 DEF TypeOK
  <2>4. fut'[c] = 0 /\ \A d \in Clients : d # c => fut'[d] = fut[d]
    BY <2>1 DEF TypeOK
  <2> QED BY <1>1, <2>1, <2>2, <2>3, <2>4
          DEF Recorded, Echoing, Positions, Joins, Unplayed, Waits
<1> QED BY <1>2, <1>3, <1>4 DEF Sweep

LEMMA PlaybackInv ==
  ASSUME IInv, NEW c \in Clients, NEW i \in Threads, PlaybackStep(c, i)
  PROVE  IInv'
<1> USE DEF IInv
<1>1. /\ UNCHANGED <<pc, adding, todo, spin, joining, parrots, kind, due, idle, fut>>
      /\ thread[c][i] # "ended" /\ c \in parrots /\ fut[c] # 0
      /\ due[c] \in 0..MaxFrames /\ held[c] \in 0..MaxFrames /\ size[c] \in 0..MaxFrames
      /\ n[c][i] \in 0..MaxFrames /\ echoed[c] \in 0..MaxFrames
      /\ n[c][i] <= echoed[c]
  BY DEF PlaybackStep, StartPlaying, SendPacket, FinishPlaying, Return, Running, Joins,
         Positions, TypeOK
<1>2. CASE StartPlaying(c, i)
  <2>1. /\ thread[c][i] = "launched" /\ thread' = [thread EXCEPT ![c][i] = "playing"]
        /\ size' = [size EXCEPT ![c] = held[c]]
        /\ state' = [state EXCEPT ![c] = "play"]
        /\ UNCHANGED <<held, n, echoed>>
    BY <1>2 DEF StartPlaying
  <2>2. TypeOK'
    BY <1>1, <2>1 DEF TypeOK
  <2>3. Recorded' /\ Positions' /\ Joins' /\ Unplayed' /\ Waits'
    BY <1>1, <2>1 DEF Recorded, Positions, Joins, Unplayed, Waits, TypeOK
  <2>4. ASSUME NEW d \in Clients, d \in parrots', state'[d] # "record"
        PROVE  /\ fut'[d] # 0
               /\ \/ echoed'[d] >= due'[d]
                  \/ /\ state'[d] = "play" /\ size'[d] >= due'[d] /\ held'[d] >= due'[d]
                     /\ \E j \in Threads : thread'[d][j] = "playing"
    <3>1. CASE d # c
      BY <1>1, <2>1, <2>4, <3>1 DEF Echoing, TypeOK
    <3>2. CASE d = c
      <4>1. /\ state'[c] = "play" /\ size'[c] = held[c] /\ thread'[c][i] = "playing"
        BY <2>1 DEF TypeOK
      <4>2. held[c] >= due[c] \/ echoed[c] >= due[c]
        BY <1>1 DEF Recorded, Echoing
      <4> QED BY <1>1, <2>1, <3>2, <4>1, <4>2
    <3> QED BY <3>1, <3>2
  <2> QED BY <2>2, <2>3, <2>4 DEF Echoing
<1>3. CASE SendPacket(c, i)
  <2>1. /\ thread[c][i] = "playing" /\ n[c][i] < size[c]
        /\ n' = [n EXCEPT ![c][i] = n[c][i] + 1]
        /\ echoed' = [echoed EXCEPT ![c] = IF echoed[c] = n[c][i] THEN echoed[c] + 1 ELSE echoed[c]]
        /\ UNCHANGED <<thread, state, held, size>>
    BY <1>3 DEF SendPacket
  <2>2. state[c] # "record"
    BY <1>1, <2>1 DEF Recorded
  <2>3. n[c][i] + 1 \in 0..MaxFrames
    BY <1>1, <2>1
  <2>4. echoed'[c] \in 0..MaxFrames /\ echoed'[c] >= echoed[c] /\ n[c][i] + 1 <= echoed'[c]
    <3>1. echoed'[c] = IF echoed[c] = n[c][i] THEN echoed[c] + 1 ELSE echoed[c]
      BY <2>1 DEF TypeOK
    <3> QED BY <1>1, <2>3, <3>1
  <2>5. /\ n' \in [Clients -> [Threads -> 0..MaxFrames]]
        /\ echoed' \in [Clients -> 0..MaxFrames]
        /\ \A d \in Clients : d # c => echoed'[d] = echoed[d] /\ n'[d] = n[d]
        /\ \A j \in Threads : n'[c][j] = IF j = i THEN n[c][i] + 1 ELSE n[c][j]
    BY <2>1, <2>3, <2>4 DEF TypeOK
  <2>6. TypeOK'
    BY <1>1, <2>1, <2>5 DEF TypeOK
  <2>7. Recorded' /\ Joins' /\ Unplayed' /\ Waits'
    BY <1>1, <2>1, <2>2, <2>5 DEF Recorded, Joins, Unplayed, Waits
  <2>8. Positions'
    <3> SUFFICES ASSUME NEW d \in Clients, NEW j \in Threads
                 PROVE  n'[d][j] <= echoed'[d] /\ (thread'[d][j] # "playing" => n'[d][j] = 0)
      BY DEF Positions
    <3>1. CASE d = c /\ j = i
      BY <2>1, <2>4, <2>5, <3>1
    <3>2. CASE d = c /\ j # i
      <4>1. n'[c][j] = n[c][j] /\ n[c][j] <= echoed[c] /\ n[c][j] \in Int
        BY <2>5, <3>2 DEF Positions, TypeOK
      <4>2. n'[c][j] <= echoed'[c]
        BY <1>1, <2>4, <4>1
      <4> QED BY <2>1, <3>2, <4>1, <4>2 DEF Positions
    <3>3. CASE d # c
      BY <2>1, <2>5, <3>3 DEF Positions
    <3> QED BY <3>1, <3>2, <3>3
  <2>9. ASSUME NEW d \in Clients, d \in parrots', state'[d] # "record"
        PROVE  /\ fut'[d] # 0
               /\ \/ echoed'[d] >= due'[d]
                  \/ /\ state'[d] = "play" /\ size'[d] >= due'[d] /\ held'[d] >= due'[d]
                     /\ \E j \in Threads : thread'[d][j] = "playing"
    <3>1. CASE d # c
      BY <1>1, <2>1, <2>5, <2>9, <3>1 DEF Echoing
    <3>2. CASE d = c /\ echoed[c] >= due[c]
      BY <1>1, <2>4, <3>2
    <3>3. CASE d = c /\ ~(echoed[c] >= due[c])
      BY <1>1, <2>1, <2>2, <3>3 DEF Echoing
    <3> QED BY <3>1, <3>2, <3>3
  <2> QED BY <2>6, <2>7, <2>8, <2>9 DEF Echoing
<1>4. CASE FinishPlaying(c, i)
  <2>1. /\ thread[c][i] = "playing" /\ n[c][i] >= size[c]
        /\ thread' = [thread EXCEPT ![c][i] = "returning"]
        /\ n' = [n EXCEPT ![c][i] = 0]
        /\ state' = [state EXCEPT ![c] = "done"]
        /\ held' = [held EXCEPT ![c] = IF kind[c] = "stream" THEN 0 ELSE held[c]]
        /\ UNCHANGED <<size, echoed>>
    BY <1>4 DEF FinishPlaying
  <2>2. state[c] # "record"
    BY <1>1, <2>1 DEF Recorded
  <2>3. TypeOK'
    BY <1>1, <2>1 DEF TypeOK
  <2>4. Recorded' /\ Joins' /\ Unplayed' /\ Waits'
    BY <1>1, <2>1 DEF Recorded, Joins, Unplayed, Waits, TypeOK
  <2>5. Positions'
    <3> SUFFICES ASSUME NEW d \in Clients, NEW j \in Threads
                 PROVE  n'[d][j] <= echoed[d] /\ (thread'[d][j] # "playing" => n'[d][j] = 0)
      BY <2>1 DEF Positions
    <3>1. CASE d = c /\ j = i
      BY <1>1, <2>1, <3>1 DEF TypeOK
    <3>2. CASE ~(d = c /\ j = i)
      <4>1. n'[d][j] = n[d][j] /\ thread'[d][j] = thread[d][j]
        BY <2>1, <3>2 DEF TypeOK
      <4> QED BY <4>1 DEF Positions
    <3> QED BY <3>1, <3>2
  <2>6. echoed[c] >= due[c]
    BY <1>1, <2>1, <2>2 DEF Echoing
  <2>7. Echoing'
    BY <1>1, <2>1, <2>6 DEF Echoing, TypeOK
  <2> QED BY <2>3, <2>4, <2>5, <2>7
<1>5. CASE Return(c, i)
  <2>1. /\ thread[c][i] = "returning" /\ thread' = [thread EXCEPT ![c][i] = "ended"]
        /\ UNCHANGED <<state, held, size, n, echoed>>
    BY <1>5 DEF Return
  <2>2. TypeOK'
    BY <1>1, <2>1 DEF TypeOK
  <2>3. \A d \in Clients, j \in Threads :
          thread'[d][j] = IF d = c /\ j = i THEN "ended" ELSE thread[d][j]
    BY <2>1 DEF TypeOK
  <2>4. Recorded' /\ Positions' /\ Joins' /\ Unplayed' /\ Waits'
    BY <1>1, <2>1, <2>3 DEF Recorded, Positions, Joins, Unplayed, Waits
  <2>5. Echoing'
    BY <1>1, <2>1, <2>3 DEF Echoing
  <2> QED BY <2>2, <2>4, <2>5
<1> QED BY <1>2, <1>3, <1>4, <1>5 DEF PlaybackStep

LEMMA IInvStep == IInv /\ [Next]_vars => IInv'
<1> SUFFICES ASSUME IInv, [Next]_vars PROVE IInv'
  OBVIOUS
<1> USE DEF IInv
<1>1. CASE OtherPacket
  BY <1>1 DEF OtherPacket, AtSocket, Received, NoPlay, TypeOK, Recorded, Echoing, Positions,
              Joins, Unplayed, Waits
<1>2. CASE EndOfPass
  BY <1>2 DEF EndOfPass, parrotVars, threadVars, TypeOK, Recorded, Echoing, Positions, Joins,
              Unplayed, Waits
<1>3. CASE Joined
  <2>1. /\ joining # NoClient /\ joining \in Clients /\ joining' = NoClient
        /\ UNCHANGED <<pc, adding, todo, spin, state, parrotVars, threadVars>>
    BY <1>3 DEF Joined, TypeOK
  <2>2. ASSUME NEW i \in Threads, thread[joining][i] # "ended"
        PROVE  i = fut[joining]
    BY <1>3, <2>1, <2>2 DEF Joined, Joins, TypeOK, Threads
  <2>3. Joins'
    BY <2>1, <2>2 DEF Joins, parrotVars, threadVars
  <2>4. TypeOK' /\ Recorded' /\ Echoing' /\ Positions' /\ Unplayed' /\ Waits'
    BY <2>1 DEF TypeOK, Recorded, Echoing, Positions, Unplayed, Waits, parrotVars, threadVars
  <2> QED BY <2>3, <2>4
<1>4. CASE Tick
  <2>1. idle' \in [Clients -> 0..StreamTimeout + 1]
    BY <1>4 DEF Tick, TypeOK
  <2>2. TypeOK'
    BY <1>4, <2>1 DEF Tick, threadVars, TypeOK
  <2> QED BY <1>4, <2>2 DEF Tick, threadVars, Recorded, Echoing, Positions, Joins, Unplayed, Waits
<1>5. ASSUME NEW c \in Clients, Record(c) PROVE IInv'
  BY <1>5 DEF Record, AtSocket, parrotVars, threadVars, TypeOK, Recorded, Echoing, Positions,
              Joins, Unplayed, Waits
<1>6. CASE UNCHANGED vars
  BY <1>6 DEF vars, parrotVars, threadVars, TypeOK, Recorded, Echoing, Positions, Joins,
              Unplayed, Waits
<1> HIDE DEF IInv
<1>7. ASSUME NEW c \in Clients, FrameFrom(c) PROVE IInv'
  BY <1>5, <1>7, FrameInv DEF FrameFrom, TakesFrame
<1> QED BY <1>1, <1>2, <1>3, <1>4, <1>6, <1>7, SweepInv, PlaybackInv
        DEF Next, ProtocolStep

LEMMA Invariant == Spec => []IInv
<1>1. Init => IInv
  BY DEF Init, IInv, TypeOK, Recorded, Echoing, Positions, Joins, Unplayed, Waits, Threads
<1> QED BY <1>1, IInvStep, PTL DEF Spec

\* Every variable keeps its type; in particular no recording outgrows its limit.
THEOREM TypeCorrect == Spec => []TypeOK
<1>1. IInv => TypeOK
  BY DEF IInv
<1> QED BY <1>1, Invariant, PTL

\* No parrot is destroyed while a thread still plays it, in whatever order the
\* two threads that may have been launched for it run.
THEOREM NoUseAfterFree == Spec => []ThreadsHaveParrot
<1>1. IInv => ThreadsHaveParrot
  BY DEF IInv, Joins, ThreadsHaveParrot
<1> QED BY <1>1, Invariant, PTL

\* A parrot is destroyed only after all that it held when its playback was launched
\* has been sent back, whatever is added to it or launched for it meanwhile.
THEOREM RecordingPlayed == Spec => EchoComplete
<1>1. ASSUME IInv, [Next]_vars, NEW c \in parrots, c \notin parrots'
      PROVE  echoed[c] >= due[c]
  <2>1. c \in Clients
    BY <1>1 DEF IInv, TypeOK
  <2>2. SweepDone(c)
    <3>1. ASSUME NEW d \in Clients, FrameFrom(d) PROVE FALSE
      BY <1>1, <3>1 DEF FrameFrom, StartRecording, EchoPacket, NewParrot, Record, Add, parrotVars
    <3>2. ASSUME NEW d \in Clients, Sweep(d) PROVE d = c /\ SweepDone(c)
      BY <1>1, <3>2 DEF Sweep, SweepRecording, SweepPlaying, SweepDone
    <3> QED BY <1>1, <3>1, <3>2
            DEF Next, ProtocolStep, OtherPacket, EndOfPass, Joined, Tick, PlaybackStep,
                StartPlaying, SendPacket, FinishPlaying, Return, Running, vars, parrotVars
  <2>3. /\ state[c] = "done" /\ thread[c][fut[c]] = "ended" /\ joining = NoClient
    BY <2>2 DEF SweepDone, Sweeping
  <2>4. \A i \in Threads : thread[c][i] = "ended"
    BY <1>1, <2>1, <2>3 DEF IInv, Joins
  <2> QED BY <1>1, <2>1, <2>3, <2>4 DEF IInv, Echoing
<1>2. IInv /\ [Next]_vars
        => [\A c \in parrots : c \notin parrots' => echoed[c] >= due[c]]_vars
  BY <1>1
<1> QED BY <1>2, Invariant, PTL DEF Spec, EchoComplete
=============================================================================
