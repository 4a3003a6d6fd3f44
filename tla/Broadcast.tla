------------------------------ MODULE Broadcast ------------------------------
(***************************************************************************)
(* What the reflector promises to those who are linked: frames are passed  *)
(* on one after the other; who is to have a frame is settled when it comes *)
(* in; each of them is given it once, as it came, and nobody else is.      *)
(* There is no list here, no buffer and no order.  Module Relay implements *)
(* this.                                                                   *)
(***************************************************************************)
CONSTANTS Hosts, KindOf   \* who may be linked, and what each is linked as

VARIABLES
  members,    \* who is linked: a host and a module
  busy,       \* those of them who listen to a parrot
  frame,      \* {}, or the one frame that is passed on, with its sender
  waiting,    \* who is yet to have it
  delivered   \* who has it, and what each was given

vars == <<members, busy, frame, waiting, delivered>>

Init == members = {} /\ busy = {} /\ frame = {} /\ waiting = {} /\ delivered = {}

----------------------------------------------------------------------------
\* Who comes and goes does so between two frames.
Quiet == frame = {} /\ UNCHANGED <<frame, waiting, delivered>>

\* A host is linked once, with all its modules.
Join(h) ==
  /\ Quiet /\ UNCHANGED busy
  /\ \A c \in members : c.host # h
  /\ members \subseteq members' /\ \A c \in members' \ members : c.host = h

Leave(h) ==
  /\ Quiet
  /\ members' = {c \in members : c.host # h} /\ busy' = {c \in busy : c.host # h}

Occupy(c) == Quiet /\ c \in members \ busy /\ busy' = busy \cup {c} /\ UNCHANGED members
Free(c) == Quiet /\ busy' = busy \ {c} /\ UNCHANGED members

----------------------------------------------------------------------------
Stations == {"simple", "listenonly"}

\* What a client of this kind sends is for clients of these kinds: a reflector is
\* sent only what comes from a station here, and a legacy one understands no packets.
Reached(kind, stream) ==
  CASE kind = "simple"    -> Stations \cup (IF stream THEN {"reflector", "legacy"} ELSE {"reflector"})
    [] kind = "reflector" -> Stations
    [] kind = "legacy"    -> IF stream THEN Stations ELSE {}
    [] OTHER -> {}

\* All on its module but the sender and, if it is a stream, those with a parrot.
Audience(f) ==
  {c \in members : /\ c # f.from /\ c.mod = f.from.mod
                   /\ KindOf[c.host] \in Reached(KindOf[f.from.host], f.stream)
                   /\ f.stream => c \notin busy}

Accept(f) ==
  /\ frame = {} /\ f.from \in members
  /\ frame' = {f} /\ waiting' = Audience(f)
  /\ UNCHANGED <<members, busy, delivered>>

Deliver(c) ==
  /\ c \in waiting /\ waiting' = waiting \ {c}
  /\ delivered' = delivered \cup {[to |-> c, of |-> f] : f \in frame}
  /\ UNCHANGED <<members, busy, frame>>

Finish ==
  /\ frame # {} /\ waiting = {}
  /\ frame' = {} /\ delivered' = {}
  /\ UNCHANGED <<members, busy, waiting>>

\* Which frame it is that a step accepts is read off the step.
Next ==
  \/ \E h \in Hosts : Join(h) \/ Leave(h)
  \/ \E c \in members : Occupy(c) \/ Free(c) \/ Deliver(c)
  \/ \E f \in frame' : Accept(f)
  \/ Finish

Spec == Init /\ [][Next]_vars
=============================================================================
