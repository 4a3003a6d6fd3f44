------------------------------ MODULE Lifecycle ------------------------------
(***************************************************************************)
(* The life of the program: main starts the reflector, tries again when    *)
(* that fails, waits for a signal and stops it; and the threads that run   *)
(* in between, with the mutexes they share.                                *)
(*                                                                         *)
(* A thread runs one operation after the other; of an operation only the   *)
(* order matters in which it takes and releases mutexes, uses the sockets  *)
(* and waits for the DHT.  What it does to the data is in the modules      *)
(* Protocol, Parrot, GateKeeper and Relay.                                 *)
(***************************************************************************)
EXTENDS Config, Naturals, Sequences

CONSTANTS
  Files,      \* what the configuration file may hold
  WebPages,   \* what the web page may say the external addresses are
  MaxTries    \* how many failed starts main follows by another try

ASSUME FilesAssumption == Files \subseteq ConfigFile
ASSUME WebPagesAssumption == WebPages \subseteq Curl
ASSUME MaxTriesAssumption == MaxTries \in Nat

Locks == {"peers", "clients", "users", "interlinks", "list"}
GateKeepers == {"gatekeeper", "gatekeeper2"}
Loops == {"protocol", "dashboard"} \cup GateKeepers
Threads == Loops \cup {"dht"}
Flags == {"protocol", "dashboard", "gatekeeper"}
Nobody == "nobody"

\* The run flag that a thread looks at: the two gatekeeper threads share one.
FlagOf(t) == IF t \in GateKeepers THEN "gatekeeper" ELSE t

VARIABLES
  main,      \* what main does next
  tries,     \* failed starts
  data,      \* g_CFG
  running,   \* the threads that have not ended
  keep,      \* keep_running of the protocol, the reflector and the gatekeeper
  future,    \* the thread that g_GateKeeper.m_Future refers to
  todo,      \* the rest of a thread's operation
  holder,    \* who holds a mutex
  sockets,   \* the families whose socket is open
  asking,    \* GetDHTConfig waits for the DHT
  dht        \* the DHT node runs

threadVars == <<running, keep, todo, holder, asking>>
mainVars == <<main, tries, data, future, sockets, dht>>
vars == <<main, tries, data, running, keep, future, todo, holder, sockets,
          asking, dht>>

----------------------------------------------------------------------------
(* The operations, as sequences of steps.                                  *)

Step == [do : {"lock", "unlock", "section"}, on : Locks]
          \cup [do : {"use", "ask", "await", "answer"}, on : {Nobody}]
Lock(l) == <<[do |-> "lock", on |-> l]>>
Unlock(l) == <<[do |-> "unlock", on |-> l]>>
\* A mutex under which nothing else is taken, sent or waited for is held for one step.
Section(l) == <<[do |-> "section", on |-> l]>>
\* Receive, or Send.
UseSocket == <<[do |-> "use", on |-> Nobody]>>

\* CPeers::RemovePeer: "it is double lock safe to lock Clients list after Peers list".
RemovePeer == Lock("peers") \o Lock("clients") \o Unlock("clients") \o Unlock("peers")
AddPeer == Section("peers") \o Section("peers") \o Section("clients")

\* CGateKeeper::ClientMayLink and MayTransmit.  "list" is the mutex of the white
\* list and then that of the black list: each is taken and released by itself.
MayLink == Lock("clients") \o Section("list") \o Section("list") \o Unlock("clients")
MayTransmit == Section("list") \o Section("list")

\* The packets that CProtocol::Task handles.
KeepAlive == Section("clients") \o Section("peers")
DisconnectStation == Section("clients") \o UseSocket \o Section("clients")
DisconnectPeer == KeepAlive \o RemovePeer
ConnectStation == MayLink \o Section("clients") \o UseSocket
PeerAckn == Section("interlinks") \o MayTransmit \o Section("peers")
              \o Section("interlinks") \o AddPeer
\* FindClient and FindPeer, MayTransmit, UpdateDashData, SendToClients, CloseStream.
Frame == KeepAlive \o MayTransmit \o Section("users")
           \o Lock("clients") \o UseSocket \o Unlock("clients") \o Section("clients")

\* The rest of a pass: HandleKeepalives and HandlePeerLinks.
HandleKeepalives == Lock("clients") \o UseSocket \o Unlock("clients") \o UseSocket \o RemovePeer
HandlePeerLinks == Section("interlinks") \o UseSocket \o RemovePeer \o Section("peers") \o UseSocket

\* Mutant of GetDHTConfig: the interlink map stays locked while the DHT is asked.
GetDHTConfigLocked == Lock("interlinks") \o <<[do |-> "ask", on |-> Nobody],
                      [do |-> "await", on |-> Nobody]>> \o Unlock("interlinks")

\* CReflector::GetDHTConfig: Find, node.get, and the wait for its end.
GetDHTConfig == Section("interlinks") \o <<[do |-> "ask", on |-> Nobody],
                                           [do |-> "await", on |-> Nobody]>>

\* The end of node.get: CInterlinks::Update if it has found something.
Answer == <<[do |-> "answer", on |-> Nobody]>>

\* Mutant of WriteDashboardData: a return on the way that leaves the mutex taken.
WriteDashboardDataHalf == Lock("clients") \o Section("users")

\* CReflector::WriteDashboardData (the peers are read without their mutex).
WriteDashboardData == Section("clients") \o Section("users")

\* A pass of the gatekeeper's thread: the lists whose files have changed.
ReloadLists == Section("list") \o Section("list") \o Section("interlinks")

Operations(t) ==
  CASE t = "protocol" ->
         {UseSocket \o s : s \in {KeepAlive, DisconnectStation, DisconnectPeer, ConnectStation,
                                  PeerAckn, Frame, HandleKeepalives, HandlePeerLinks, GetDHTConfig}}
    [] t = "dashboard" -> {WriteDashboardData}
    [] t \in GateKeepers -> {Section("list"), Section("interlinks"), ReloadLists}
    [] t = "dht" -> {Section("interlinks") \o Answer, Answer}

----------------------------------------------------------------------------
Init ==
  /\ main = "read" /\ tries = 0 /\ data = NoData
  /\ running = {} /\ keep = [f \in Flags |-> TRUE] /\ future = Nobody
  /\ todo = [t \in Threads |-> <<>>] /\ holder = [l \in Locks |-> Nobody]
  /\ sockets = {} /\ asking = FALSE /\ dht = FALSE

----------------------------------------------------------------------------
(* The main thread: CReflector::Start, ...                                 *)

Goto(from, to) == main = from /\ main' = to

\* The file cannot be opened, or it can.  Then CGateKeeper::Init comes.
ReadConfig ==
  /\ main = "read"
  /\ \/ data' = [data EXCEPT !.port = "good"] /\ main' = "failed" /\ UNCHANGED keep
     \/ \E file \in Files, curl \in WebPages :
          /\ data' = ReadData(data, file, curl)
          /\ IF Usable(data') THEN main' = "load" /\ keep' = [keep EXCEPT !["dashboard"] = TRUE]
                              ELSE main' = "failed" /\ UNCHANGED keep
  /\ UNCHANGED <<tries, running, future, todo, holder, sockets, asking, dht>>

\* CGateKeeper::Init loads the lists and starts a thread.  Of an earlier start
\* another one may be there.
StartGateKeeper ==
  /\ Goto("load", "assign")
  /\ holder["interlinks"] = Nobody
  /\ keep' = [keep EXCEPT !["gatekeeper"] = TRUE]
  /\ running' = running \cup {IF "gatekeeper" \in running THEN "gatekeeper2" ELSE "gatekeeper"}
  /\ UNCHANGED <<tries, data, future, todo, holder, sockets, asking, dht>>

\* m_Future = std::async(...): what the future referred to must have ended.  Then
\* the DHT node runs.
AssignFuture ==
  /\ Goto("assign", "open")
  /\ future \notin running
  /\ future' = IF "gatekeeper2" \in running THEN "gatekeeper2" ELSE "gatekeeper"
  /\ dht' = TRUE
  /\ UNCHANGED <<tries, data, sockets, threadVars>>

\* CProtocol::Initialize: the sockets of the families that have an address are
\* opened, and the thread is started.  Any of that may fail, and then none is open.
OpenSockets ==
  /\ Goto("open", "dashboard")
  /\ keep' = [keep EXCEPT !["protocol"] = TRUE]
  /\ sockets' = Bound(data)
  /\ running' = running \cup {"protocol"}
  /\ UNCHANGED <<tries, data, future, todo, holder, asking, dht>>

\* Mutant of OpenFails: the first socket stays open when the second cannot be opened.
OpenFailsHalfway ==
  /\ Goto("open", "failed")
  /\ keep' = [keep EXCEPT !["protocol"] = FALSE]
  /\ sockets' = Bound(data) \cap {"IPv4"}
  /\ UNCHANGED <<tries, data, running, future, todo, holder, asking, dht>>

OpenFails ==
  /\ Goto("open", "failed")
  /\ keep' = [keep EXCEPT !["protocol"] = FALSE]
  /\ sockets' = {}
  /\ UNCHANGED <<tries, data, running, future, todo, holder, asking, dht>>

StartDashboard ==
  /\ Goto("dashboard", "pid")
  /\ running' = running \cup {"dashboard"}
  /\ UNCHANGED <<tries, data, keep, future, todo, holder, sockets, asking, dht>>

\* main writes the pid file and pauses.
WritePid == Goto("pid", "pause") /\ UNCHANGED <<tries, data, future, sockets, dht, threadVars>>

\* "if (tries++ > 10) return EXIT_FAILURE", else ten seconds of sleep and another
\* try.  At its exit the program destroys the gatekeeper, which ends its thread.
TryAgain ==
  /\ main = "failed" /\ tries' = tries + 1
  /\ IF tries < MaxTries THEN main' = "read" /\ UNCHANGED keep
                         ELSE main' = "joinGateKeeper" /\ keep' = [keep EXCEPT !["gatekeeper"] = FALSE]
  /\ UNCHANGED <<data, running, future, todo, holder, sockets, asking, dht>>

(* ... and CReflector::Stop.                                               *)
Stop ==
  /\ Goto("woken", "joinDashboard")
  /\ keep' = [keep EXCEPT !["dashboard"] = FALSE]
  /\ UNCHANGED <<tries, data, running, future, todo, holder, sockets, asking, dht>>

StopDashboard ==
  /\ Goto("joinDashboard", "joinProtocol")
  /\ "dashboard" \notin running
  /\ keep' = [keep EXCEPT !["protocol"] = FALSE]
  /\ UNCHANGED <<tries, data, running, future, todo, holder, sockets, asking, dht>>

\* Mutant of StopProtocol: the gatekeeper's flag stays set.
StopProtocolOnly ==
  /\ Goto("joinProtocol", "joinGateKeeper")
  /\ "protocol" \notin running
  /\ sockets' = {}
  /\ UNCHANGED <<tries, data, running, keep, future, todo, holder, asking, dht>>

\* CProtocol::Close: the sockets are closed when the thread has ended.
StopProtocol ==
  /\ Goto("joinProtocol", "joinGateKeeper")
  /\ "protocol" \notin running
  /\ sockets' = {}
  /\ keep' = [keep EXCEPT !["gatekeeper"] = FALSE]
  /\ UNCHANGED <<tries, data, running, future, todo, holder, asking, dht>>

\* CGateKeeper::Close, and the end of the DHT node.
StopGateKeeper ==
  /\ Goto("joinGateKeeper", "exited")
  /\ future \notin running
  /\ dht' = FALSE
  /\ UNCHANGED <<tries, data, future, sockets, threadVars>>

Main == \/ ReadConfig \/ StartGateKeeper \/ AssignFuture \/ OpenSockets \/ OpenFails
        \/ StartDashboard \/ WritePid \/ TryAgain
        \/ Stop \/ StopDashboard \/ StopProtocol \/ StopGateKeeper

----------------------------------------------------------------------------
(* The other threads.                                                      *)

Idle(t) == todo[t] = <<>>
Next1(t) == Head(todo[t])
Does(t, what) == ~Idle(t) /\ Next1(t).do = what

\* The loop of a thread looks at its flag before each pass.
Begin(t) ==
  /\ t \in running /\ Idle(t) /\ keep[FlagOf(t)]
  /\ \E s \in Operations(t) : todo' = [todo EXCEPT ![t] = s]
  /\ UNCHANGED <<mainVars, running, keep, holder, asking>>

End(t) ==
  /\ t \in running /\ Idle(t) /\ ~keep[FlagOf(t)]
  /\ running' = running \ {t}
  /\ UNCHANGED <<mainVars, keep, todo, holder, asking>>

Done(t) == todo' = [todo EXCEPT ![t] = Tail(todo[t])]

TakeLock(t) ==
  /\ Does(t, "lock") /\ Done(t)
  /\ holder[Next1(t).on] = Nobody
  /\ holder' = [holder EXCEPT ![Next1(t).on] = t]
  /\ UNCHANGED <<mainVars, running, keep, asking>>

PassSection(t) ==
  /\ Does(t, "section") /\ Done(t)
  /\ holder[Next1(t).on] = Nobody
  /\ UNCHANGED <<mainVars, running, keep, holder, asking>>

ReleaseLock(t) ==
  /\ Does(t, "unlock") /\ Done(t)
  /\ holder' = [holder EXCEPT ![Next1(t).on] = Nobody]
  /\ UNCHANGED <<mainVars, running, keep, asking>>

\* A send or a receive that fails raises SIGINT: the handler runs in the thread
\* that raised it and main, in pause() or not, does not notice.
UseSockets(t) ==
  /\ Does(t, "use") /\ Done(t)
  /\ UNCHANGED <<mainVars, running, keep, holder, asking>>

AskDHT(t) ==
  /\ Does(t, "ask") /\ Done(t)
  /\ asking' = TRUE
  /\ UNCHANGED <<mainVars, running, keep, holder>>

\* "wait until the get() returns".
AwaitDHT(t) ==
  /\ Does(t, "await") /\ Done(t)
  /\ ~asking
  /\ UNCHANGED <<mainVars, running, keep, holder, asking>>

\* The DHT node's own thread: every get ends, with or without a result.
BeginAnswer ==
  /\ asking /\ dht /\ Idle("dht")
  /\ \E s \in Operations("dht") : todo' = [todo EXCEPT !["dht"] = s]
  /\ UNCHANGED <<mainVars, running, keep, holder, asking>>

AnswerDHT(t) ==
  /\ Does(t, "answer") /\ Done(t)
  /\ asking' = FALSE
  /\ UNCHANGED <<mainVars, running, keep, holder>>

Thread(t) ==
  \/ Begin(t) \/ End(t) \/ TakeLock(t) \/ PassSection(t) \/ ReleaseLock(t) \/ UseSockets(t)
  \/ AskDHT(t) \/ AwaitDHT(t) \/ AnswerDHT(t)

----------------------------------------------------------------------------
\* A signal from outside: SigHandler runs on main's thread.  Only in pause() does
\* main notice; before and after, a signal is handled and forgotten.
Signal == Goto("pause", "woken") /\ UNCHANGED <<tries, data, future, sockets, dht, threadVars>>

Next == Main \/ Signal \/ BeginAnswer
          \/ (\E t \in Loops : Thread(t))
          \/ PassSection("dht") \/ AnswerDHT("dht")

Spec == Init /\ [][Next]_vars

\* No thread stops while it can go on, and who waits for a mutex that is free again
\* and again gets it: the threads sleep, 20 ms or more, between two passes.  The
\* DHT library ends every get.  Signals need not come.
FairSpec ==
  /\ Spec
  /\ SF_vars(Main) /\ WF_vars(BeginAnswer) /\ WF_vars(AnswerDHT("dht"))
  /\ \A t \in Threads : SF_vars(TakeLock(t) \/ PassSection(t)) /\ WF_vars(ReleaseLock(t))
  /\ \A t \in Loops : WF_vars(Begin(t) \/ End(t) \/ UseSockets(t) \/ AskDHT(t) \/ AwaitDHT(t))

----------------------------------------------------------------------------
(* Properties.                                                             *)

TypeOK ==
  /\ main \in {"read", "load", "assign", "open", "dashboard", "pid", "pause", "failed",
               "woken", "joinDashboard", "joinProtocol", "joinGateKeeper", "exited"}
  /\ tries \in 0..MaxTries + 1
  /\ data \in Data
  /\ running \subseteq Loops
  /\ keep \in [Flags -> BOOLEAN]
  /\ future \in GateKeepers \cup {Nobody}
  /\ todo \in [Threads -> Seq(Step)]
  /\ holder \in [Locks -> Threads \cup {Nobody}]
  /\ sockets \subseteq Families
  /\ asking \in BOOLEAN /\ dht \in BOOLEAN

\* Two mutexes are never wanted crosswise, by however many threads: while some are
\* held, at least one holder can go on.  RemovePeer takes the clients' mutex
\* under that of the peers, the gatekeeper asks its lists under the clients' one,
\* and the DHT's thread wants the interlinks while the protocol thread waits for it.
Stuck(t) == \/ (Does(t, "lock") \/ Does(t, "section")) /\ holder[Next1(t).on] # Nobody
            \/ Does(t, "await") /\ asking
SomeHolderGoesOn ==
  (\E l \in Locks : holder[l] # Nobody) => \E l \in Locks : holder[l] # Nobody /\ ~Stuck(holder[l])

\* The protocol thread has the sockets it was configured with, each bound to an
\* address that is also published, as long as it runs: they are opened before it
\* starts and closed after it has ended, whenever the signal comes; and the DHT
\* node outlives everybody who asks it.
ThreadHasSockets ==
  /\ "protocol" \in running => /\ sockets = Bound(data) /\ sockets # {}
                               /\ \A f \in sockets : data.ext[f] = "good"
  /\ asking => dht

\* Nothing of a failed start that the next one could meet is left open, and at
\* the end no thread runs and no mutex is held, whether the reflector was stopped
\* or could not be started.
NothingLeft ==
  /\ main \in {"read", "failed"} => /\ sockets = {}
                                    /\ running \cap {"protocol", "dashboard"} = {}
  /\ main = "exited" => /\ running = {} /\ sockets = {} /\ ~dht
                        /\ \A l \in Locks : holder[l] = Nobody

\* A signal that finds main in pause() ends the program, whatever the threads are
\* doing: Stop waits for each of them, and each of them comes to its flag.
StopEnds == main = "woken" ~> main = "exited"

\* Every operation that is begun ends: nobody waits for a mutex for ever, nor for
\* the DHT.  So the dashboard's report is written again and again, and the
\* protocol thread comes back to its sockets.
OperationsEnd == \A t \in Threads : ~Idle(t) ~> Idle(t)

----------------------------------------------------------------------------
(* What comments say that the program does not do.                         *)

\* "Sleep for 10 (sec), then try it again..." (main): a start that failed is
\* followed by another that comes to an end, or by the end of the program.
FailedStartTriedAgain == main = "failed" ~> main \in {"pid", "exited"}
=============================================================================
