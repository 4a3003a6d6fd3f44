------------------------------- MODULE Parrot -------------------------------
(***************************************************************************)
(* Parroting: the protocol thread records what a client sends to #PARROT   *)
(* and a thread of its own plays it back (CStreamParrot, CPacketParrot,    *)
(* the parrot branch of CProtocol::OnPacketIn and the parrot loop of       *)
(* CProtocol::CheckStreamsTimeout).                                        *)
(*                                                                         *)
(* The protocol thread learns of the playback only from the atomic m_state *)
(* of the parrot, which the playback thread writes once it runs: between   *)
(* Play, which launches the thread, and its first step the parrot still    *)
(* looks as if it were recording.  And what the protocol thread has read   *)
(* there may no longer be so when it adds the frame: the check and the Add *)
(* are steps of their own.                                                 *)
(***************************************************************************)
EXTENDS Naturals

CONSTANTS
  Clients,         \* client objects that may talk to #PARROT
  MaxFrames,       \* frames a recording holds at most (500)
  StreamTimeout,
  NoClient         \* nobody

ASSUME MaxFramesAssumption == MaxFrames \in Nat \ {0}
ASSUME StreamTimeoutAssumption == StreamTimeout \in Nat
ASSUME NoClientAssumption == NoClient \notin Clients

\* Two threads at most play one parrot; 0 is no thread.
Threads == {1, 2}

VARIABLES
  pc,        \* the protocol thread: at the socket, about to add a frame, or in
             \* the loop over parrots
  adding,    \* whose frame it is about to add
  todo,      \* the parrots this pass has not dealt with yet
  spin,      \* the parrot the loop found playing and does not get past
  joining,   \* the parrot for whose first thread a second Play waits
  parrots,   \* CProtocol::parrotMap: the clients that have a parrot
  kind, state,      \* of a client's parrot: stream or packet; m_state
  held, size,       \* frames in m_data; how many of them are to be played
  due,              \* frames held when a playback was launched first
  idle,             \* time since m_lastHeard
  fut,              \* the thread m_fut refers to
  thread, n,        \* of each thread: its phase, and the frame it has come to
  echoed            \* frames, counted from the first, sent back to the client

parrotVars == <<parrots, kind, held, due, idle, fut>>
threadVars == <<size, thread, n, echoed>>
vars == <<pc, adding, todo, spin, joining, state, parrotVars, threadVars>>

----------------------------------------------------------------------------
Init ==
  /\ pc = "receive" /\ adding = NoClient
  /\ todo = {} /\ spin = NoClient /\ joining = NoClient
  /\ parrots = {}
  /\ kind = [c \in Clients |-> "stream"]
  /\ state = [c \in Clients |-> "record"]
  /\ held = [c \in Clients |-> 0] /\ size = [c \in Clients |-> 0]
  /\ due = [c \in Clients |-> 0]
  /\ idle = [c \in Clients |-> 0] /\ fut = [c \in Clients |-> 0]
  /\ thread = [c \in Clients |-> [i \in Threads |-> "ended"]]
  /\ n = [c \in Clients |-> [i \in Threads |-> 0]]
  /\ echoed = [c \in Clients |-> 0]

\* std::async launches a thread.  When m_fut already refers to one, assigning
\* to it waits until that one has ended.  (What the other thread does between
\* the check that led here and the launch it may as well do after it.)
Play(c) ==
  LET i == CHOOSE j \in Threads : j # fut[c]
  IN  /\ thread' = [thread EXCEPT ![c][i] = "launched"]
      /\ joining' = IF fut[c] # 0 /\ thread[c][fut[c]] # "ended" THEN c ELSE NoClient
      /\ fut' = [fut EXCEPT ![c] = i]
      /\ due' = IF fut[c] = 0 THEN [due EXCEPT ![c] = held'[c]] ELSE due

NoPlay == UNCHANGED <<thread, joining, fut, due>>

----------------------------------------------------------------------------
(* OnPacketIn, for a destination that names the parrot.  The pass goes on  *)
(* to the parrots of the map; those a frame added are among them.          *)

AtSocket == pc = "receive" /\ joining = NoClient
Received == adding' = NoClient /\ pc' = "sweep" /\ todo' = parrots' /\ UNCHANGED <<spin, n>>

\* A packet or no packet at all that has nothing to do with parrots: a refused
\* recording (encrypted, or a last frame first), a frame while one plays.
OtherPacket ==
  /\ AtSocket
  /\ NoPlay /\ UNCHANGED <<parrots, kind, held, size, idle, state, echoed>>
  /\ Received

\* The constructor, and Add for the first frame.
NewParrot(c, k) ==
  /\ AtSocket
  /\ c \notin parrots
  /\ parrots' = parrots \cup {c}
  /\ kind' = [kind EXCEPT ![c] = k]
  /\ state' = [state EXCEPT ![c] = "record"]
  /\ held' = [held EXCEPT ![c] = 1] /\ size' = [size EXCEPT ![c] = 0]
  /\ idle' = [idle EXCEPT ![c] = 0]
  /\ echoed' = [echoed EXCEPT ![c] = 0]
  /\ Received

StartRecording(c) == NewParrot(c, "stream") /\ NoPlay

\* A packet-mode packet is played back at once.
EchoPacket(c) == NewParrot(c, "packet") /\ Play(c)

\* The parrot of this client records, or so it seems: a thread that was launched
\* for it may take its first steps before the frame is added.
Record(c) ==
  /\ AtSocket
  /\ c \in parrots /\ state[c] = "record"
  /\ pc' = "add" /\ adding' = c
  /\ UNCHANGED <<todo, spin, joining, state, parrotVars, threadVars>>

\* Mutant of Room: one frame too many.
RoomForOneMore(c) == kind[c] = "stream" /\ held[c] <= MaxFrames

\* CStreamParrot::Add drops frames when it is full; CPacketParrot::Add
\* replaces the packet it holds.
Room(c) == kind[c] = "stream" /\ held[c] < MaxFrames

\* How many frames m_data may hold after Add.  When a thread empties it at the
\* same time, nothing says how many.
Grown(c) == IF ~Room(c) THEN {held[c]}
            ELSE IF state[c] = "done" THEN 1..MaxFrames ELSE {held[c] + 1}

Add(c, last) ==
  /\ pc = "add" /\ adding = c
  /\ \E h \in Grown(c) : held' = [held EXCEPT ![c] = h]
  /\ idle' = [idle EXCEPT ![c] = 0]
  /\ IF last THEN Play(c) ELSE NoPlay
  /\ UNCHANGED <<parrots, kind, state, size, echoed>>
  /\ Received

----------------------------------------------------------------------------
(* The parrot loop of CheckStreamsTimeout.  An unordered map: any order.   *)

Sweeping(c) ==
  /\ pc = "sweep" /\ joining = NoClient /\ c \in todo /\ spin \in {c, NoClient}
  /\ UNCHANGED <<pc, adding, kind, state, held, idle, size, n, echoed>>

\* Mutant of IsExpired: the stream parrot inherits the answer of the packet one.
NeverExpires(c) == c \notin Clients

IsExpired(c) == kind[c] = "stream" /\ idle[c] > StreamTimeout

SweepRecording(c) ==
  /\ Sweeping(c)
  /\ state[c] = "record"
  /\ IF IsExpired(c) THEN Play(c) ELSE NoPlay
  /\ todo' = todo \ {c}
  /\ UNCHANGED <<parrots, spin>>

\* "default: break;" leaves the iterator where it is: the loop comes back to
\* this parrot until it is done.
SweepPlaying(c) ==
  /\ Sweeping(c)
  /\ state[c] = "play" /\ spin = NoClient
  /\ spin' = c
  /\ NoPlay /\ UNCHANGED <<parrots, todo>>

\* Mutant of SweepDone: the parrot is destroyed without waiting for m_fut.
SweepUnjoined(c) ==
  /\ Sweeping(c)
  /\ state[c] = "done"
  /\ parrots' = parrots \ {c} /\ fut' = [fut EXCEPT ![c] = 0]
  /\ todo' = todo \ {c} /\ spin' = NoClient
  /\ UNCHANGED <<thread, joining, due>>

\* Quit waits for the thread m_fut refers to, then the parrot is destroyed.
SweepDone(c) ==
  /\ Sweeping(c)
  /\ state[c] = "done" /\ thread[c][fut[c]] = "ended"
  /\ parrots' = parrots \ {c} /\ fut' = [fut EXCEPT ![c] = 0]
  /\ todo' = todo \ {c} /\ spin' = NoClient
  /\ UNCHANGED <<thread, joining, due>>

EndOfPass ==
  /\ pc = "sweep" /\ todo = {} /\ joining = NoClient
  /\ pc' = "receive"
  /\ UNCHANGED <<adding, todo, spin, joining, state, parrotVars, threadVars>>

\* The assignment to m_fut returns: the thread it referred to before has ended.
Joined ==
  /\ joining # NoClient
  /\ \E i \in Threads : i # fut[joining] /\ thread[joining][i] = "ended"
  /\ joining' = NoClient
  /\ UNCHANGED <<pc, adding, todo, spin, state, parrotVars, threadVars>>

----------------------------------------------------------------------------
(* A playback thread: playThread, returnPacket.                            *)

Running == UNCHANGED <<pc, adding, todo, spin, joining, parrots, kind, due, idle, fut>>

\* Mutant of StartPlaying: one frame too few is played.
StartPlayingShort(c, i) ==
  /\ Running
  /\ thread[c][i] = "launched"
  /\ thread' = [thread EXCEPT ![c][i] = "playing"]
  /\ size' = [size EXCEPT ![c] = IF held[c] > 0 THEN held[c] - 1 ELSE 0]
  /\ state' = [state EXCEPT ![c] = "play"]
  /\ UNCHANGED <<held, n, echoed>>

\* m_state and size; a frame that is added between the two is played as one that
\* was added before.  size belongs to the parrot: a second thread changes it for
\* the first one too.
StartPlaying(c, i) ==
  /\ Running
  /\ thread[c][i] = "launched"
  /\ thread' = [thread EXCEPT ![c][i] = "playing"]
  /\ size' = [size EXCEPT ![c] = held[c]]
  /\ state' = [state EXCEPT ![c] = "play"]
  /\ UNCHANGED <<held, n, echoed>>

\* One frame, 40 ms after the one before.  A second thread may have emptied
\* m_data meanwhile: what is sent then is whatever the memory holds.
SendPacket(c, i) ==
  /\ Running
  /\ thread[c][i] = "playing" /\ n[c][i] < size[c]
  /\ n' = [n EXCEPT ![c][i] = @ + 1]
  /\ echoed' = [echoed EXCEPT ![c] = IF @ = n[c][i] THEN @ + 1 ELSE @]
  /\ UNCHANGED <<thread, state, held, size>>

\* Mutant of FinishPlaying: only playThread says that it is done.
FinishStreamOnly(c, i) ==
  /\ Running
  /\ thread[c][i] = "playing" /\ n[c][i] >= size[c]
  /\ thread' = [thread EXCEPT ![c][i] = "returning"]
  /\ n' = [n EXCEPT ![c][i] = 0]
  /\ state' = IF kind[c] = "stream" THEN [state EXCEPT ![c] = "done"] ELSE state
  /\ held' = [held EXCEPT ![c] = 0]
  /\ UNCHANGED <<size, echoed>>

FinishPlaying(c, i) ==
  /\ Running
  /\ thread[c][i] = "playing" /\ n[c][i] >= size[c]
  /\ thread' = [thread EXCEPT ![c][i] = "returning"]
  /\ n' = [n EXCEPT ![c][i] = 0]
  /\ state' = [state EXCEPT ![c] = "done"]
  /\ held' = [held EXCEPT ![c] = IF kind[c] = "stream" THEN 0 ELSE @]
  /\ UNCHANGED <<size, echoed>>

Return(c, i) ==
  /\ Running
  /\ thread[c][i] = "returning"
  /\ thread' = [thread EXCEPT ![c][i] = "ended"]
  /\ UNCHANGED <<state, held, size, n, echoed>>

----------------------------------------------------------------------------
\* Ages stop one above the timeout.
Tick ==
  /\ idle' = [c \in Clients |-> IF c \in parrots /\ idle[c] <= StreamTimeout
                                THEN idle[c] + 1 ELSE idle[c]]
  /\ UNCHANGED <<pc, adding, todo, spin, joining, parrots, kind, state, held, due, fut, threadVars>>

FrameFrom(c) == \/ StartRecording(c) \/ EchoPacket(c)
                \/ Record(c) \/ \E last \in BOOLEAN : Add(c, last)
Sweep(c) == SweepRecording(c) \/ SweepPlaying(c) \/ SweepDone(c)
PlaybackStep(c, i) == StartPlaying(c, i) \/ SendPacket(c, i) \/ FinishPlaying(c, i) \/ Return(c, i)

ProtocolStep == \/ \E c \in Clients : FrameFrom(c) \/ Sweep(c)
                \/ OtherPacket \/ EndOfPass \/ Joined
Next == \/ ProtocolStep
        \/ \E c \in Clients, i \in Threads : PlaybackStep(c, i)
        \/ Tick

Spec == Init /\ [][Next]_vars

\* The protocol thread runs as long as the reflector does, a launched thread is
\* scheduled and sleeps 40 ms at a time, time goes on.  The loop takes up each
\* parrot of the map in turn.
FairSpec ==
  /\ Spec
  /\ WF_vars(ProtocolStep) /\ WF_vars(Tick)
  /\ \A c \in Clients, i \in Threads : WF_vars(PlaybackStep(c, i))

----------------------------------------------------------------------------
(* Properties.                                                             *)

TypeOK ==
  /\ pc \in {"receive", "add", "sweep"}
  /\ adding \in parrots \cup {NoClient} /\ (pc = "add" <=> adding # NoClient)
  /\ parrots \subseteq Clients /\ todo \subseteq parrots
  /\ spin \in todo \cup {NoClient} /\ joining \in parrots \cup {NoClient}
  /\ kind \in [Clients -> {"stream", "packet"}]
  /\ state \in [Clients -> {"record", "play", "done"}]
  /\ held \in [Clients -> 0..MaxFrames] /\ size \in [Clients -> 0..MaxFrames]
  /\ due \in [Clients -> 0..MaxFrames]
  /\ idle \in [Clients -> 0..StreamTimeout + 1]
  /\ fut \in [Clients -> {0} \cup Threads]
  /\ thread \in [Clients -> [Threads -> {"launched", "playing", "returning", "ended"}]]
  /\ n \in [Clients -> [Threads -> 0..MaxFrames]]
  /\ echoed \in [Clients -> 0..MaxFrames]

\* A parrot is never destroyed under a thread that plays it, although m_fut
\* remembers one thread only and two may have been launched.
ThreadsHaveParrot ==
  \A c \in Clients : (\E i \in Threads : thread[c][i] # "ended") => c \in parrots

\* Every frame that was held when the playback was launched has been sent back
\* before the parrot is destroyed, although a frame may slip in while the thread
\* starts, and a second thread may be launched, which sets the size of both and
\* empties m_data under the other.  (A frame that slips in after the size was
\* taken is never sent.)
EchoComplete ==
  [][\A c \in parrots : c \notin parrots' => echoed[c] >= due[c]]_vars

\* The protocol thread always gets back to its socket: no parrot holds it for ever.
BackToSocket == []<>(pc = "receive")

\* A parrot ends once its client stops talking to it, so that the client hears
\* the module's traffic again.
ParrotFreed ==
  \A c \in Clients : <>[][~FrameFrom(c)]_vars => <>[](c \notin parrots)
=============================================================================
