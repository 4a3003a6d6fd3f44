-------------------------------- MODULE Access --------------------------------
(***************************************************************************)
(* What whoever keeps a white and a black list expects of them: each list  *)
(* is at any time the whole of some version of its file, and takes on      *)
(* another one in a single moment; who asks is judged by both, one after   *)
(* the other, by what is in force when each is asked.  There is no thread  *)
(* here, no lock and no list that is being filled.  Module GateKeeper      *)
(* implements this.                                                        *)
(***************************************************************************)
CONSTANTS Callsigns, Nobody

Lists == {"white", "black"}

VARIABLES
  file,    \* whom each file would let through as it is
  rule,    \* whom each list lets through
  asked,   \* who is judged
  step     \* which list judges next, or the answer

vars == <<file, rule, asked, step>>

Init ==
  /\ file \in [Lists -> SUBSET Callsigns] /\ rule = file
  /\ asked = Nobody /\ step = "idle"

\* A file is edited; nothing comes of it yet.
Edit(l) ==
  /\ \E C \in SUBSET Callsigns : file' = [file EXCEPT ![l] = C]
  /\ UNCHANGED <<rule, asked, step>>

\* A list takes on its file as it is.
Adopt(l) == rule' = [rule EXCEPT ![l] = file[l]] /\ UNCHANGED <<file, asked, step>>

Ask(c) ==
  /\ step \in {"idle", "refused", "allowed"}
  /\ asked' = c /\ step' = "white"
  /\ UNCHANGED <<file, rule>>

Refuse(l) == step = l /\ asked \notin rule[l] /\ step' = "refused" /\ UNCHANGED <<file, rule, asked>>
Pass(l) ==
  /\ step = l /\ asked \in rule[l]
  /\ step' = IF l = "white" THEN "black" ELSE "allowed"
  /\ UNCHANGED <<file, rule, asked>>

Next ==
  \/ \E l \in Lists : Edit(l) \/ Adopt(l) \/ Refuse(l) \/ Pass(l)
  \/ \E c \in Callsigns : Ask(c)

Spec == Init /\ [][Next]_vars
=============================================================================
