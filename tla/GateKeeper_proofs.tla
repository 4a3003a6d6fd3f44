-------------------------- MODULE GateKeeper_proofs --------------------------
(***************************************************************************)
(* Type correctness of module GateKeeper, and that nobody barred by all    *)
(* versions of a list is let in, for any callsigns and contents of files.  *)
(***************************************************************************)
EXTENDS GateKeeper, TLAPS

\* The lock is held exactly while the list is incomplete or not yet dated.
LockHeld == locked = IF pc \in {"read", "note"} THEN {at} ELSE {}

\* Whatever can still get into a list is let through by some version.
VersionsOnly ==
  /\ \A l \in Lists : LetThrough(l, content[l]) \subseteq lets[l]
  /\ \A l \in Lists : (pc = "read" => l # at) => LetThrough(l, list[l]) \subseteq lets[l]
  /\ pc = "read" => LetThrough(at, opened) \subseteq lets[at]

\* The white list has answered before the black list is asked.
AnswersFit ==
  /\ step \in {"black", "allowed"} => asked \in lets["white"]
  /\ step = "allowed" => asked \in lets["black"]

\* BarredStaysOut alone is not inductive: a list is emptied while it is loaded,
\* and an empty list lets everybody through; only its lock hides it.
IInv == TypeOK /\ LockHeld /\ VersionsOnly /\ AnswersFit

----------------------------------------------------------------------------
LEMMA LetThroughIn ==
  ASSUME NEW l \in Lists, NEW C
  PROVE  LetThrough(l, C) \in SUBSET Callsigns
BY DEF LetThrough

LEMMA InitInv == Init => IInv
<1> SUFFICES ASSUME Init PROVE IInv
  OBVIOUS
<1>1. TypeOK
  <2>1. \A l \in Lists : content[l] \in Contents[l]
    BY ContentsAssumption DEF Init
  <2>2. /\ content = [l \in Lists |-> content[l]] /\ list = [l \in Lists |-> list[l]]
        /\ \A l \in Lists : list[l] \in Contents[l]
    BY <2>1 DEF Init
  <2>3. opened \in IF pc = "read" THEN Contents[at] ELSE {{}}
    BY DEF Init
  <2>4. 0 \in 0..MaxTime
    BY MaxTimeAssumption
  <2>5. now \in 0..MaxTime /\ mtime \in [Lists -> 0..MaxTime] /\ lastMod \in [Lists -> 0..MaxTime]
    BY <2>4 DEF Init
  <2>6. present \in [Lists -> BOOLEAN] /\ lets \in [Lists -> SUBSET Callsigns]
    BY LetThroughIn DEF Init
  <2>7. /\ named \subseteq Lists /\ locked \subseteq Lists /\ at \in Lists
        /\ pc \in {"check", "open", "read", "note"}
        /\ asked \in Callsigns \cup {Nobody}
        /\ step \in Lists \cup {"idle", "refused", "allowed"}
    BY DEF Init, Lists
  <2> QED
    BY <2>1, <2>2, <2>3, <2>5, <2>6, <2>7 DEF TypeOK
<1>2. LockHeld
  BY DEF Init, LockHeld
<1>3. VersionsOnly
  BY DEF Init, VersionsOnly
<1>4. AnswersFit
  BY DEF Init, AnswersFit
<1> QED
  BY <1>1, <1>2, <1>3, <1>4 DEF IInv

\* What the gatekeeper's thread leaves alone.
LEMMA ThreadFrame ==
  ASSUME NEW l \in Lists, Thread(l)
  PROVE  at = l /\ UNCHANGED <<now, present, content, mtime, lets, named, asked, step>>
BY DEF Thread, fileVars, askVars

\* The steps of the gatekeeper's thread.
LEMMA ThreadInv ==
  ASSUME IInv, NEW l \in Lists, Check(l) \/ Open(l) \/ Read(l) \/ Note(l)
  PROVE  IInv'
<1>1. at = l /\ UNCHANGED <<now, present, content, mtime, lets, named, asked, step>>
  BY ThreadFrame DEF Check, Open, Read, Note
<1>2. AnswersFit'
  BY <1>1 DEF IInv, AnswersFit
<1>3. Other(l) \in Lists /\ {} \in Contents[l] /\ content[l] \in Contents[l]
  BY ContentsAssumption DEF Other, Lists, IInv, TypeOK
<1>4. CASE Check(l)
  <2>1. pc' \in {"check", "open"} /\ at' \in Lists /\ pc = "check"
    BY <1>3, <1>4 DEF Check
  <2>2. UNCHANGED <<list, lastMod, locked, opened>>
    BY <1>4 DEF Check
  <2>3. TypeOK'
    BY <1>1, <2>1, <2>2 DEF IInv, TypeOK
  <2>4. LockHeld' /\ VersionsOnly'
    BY <1>1, <2>1, <2>2 DEF IInv, LockHeld, VersionsOnly
  <2> QED
    BY <1>2, <2>3, <2>4 DEF IInv
<1>5. CASE Open(l)
  <2>1. pc = "open" /\ lastMod' = lastMod /\ opened = {} /\ locked = {}
    BY <1>5 DEF Open, IInv, TypeOK, LockHeld
  <2>2. CASE present[l]
    <3>1. /\ list' = [list EXCEPT ![l] = {}] /\ opened' = content[l]
          /\ pc' = "read" /\ locked' = {l} /\ at' = l
      BY <1>5, <2>1, <2>2 DEF Open
    <3>2. list' = [k \in Lists |-> list'[k]] /\ \A k \in Lists : list'[k] \in Contents[k]
      BY <1>3, <3>1 DEF IInv, TypeOK
    <3>3. TypeOK'
      BY <1>1, <1>3, <2>1, <3>1, <3>2 DEF IInv, TypeOK
    <3>4. VersionsOnly'
      BY <1>1, <2>1, <3>1 DEF IInv, TypeOK, VersionsOnly
    <3>5. LockHeld'
      BY <3>1 DEF LockHeld
    <3> QED
      BY <1>2, <3>3, <3>4, <3>5 DEF IInv
  <2>3. CASE ~present[l]
    <3>1. UNCHANGED <<list, locked, opened>> /\ pc' = "check" /\ at' = Other(l)
      BY <1>5, <2>3 DEF Open
    <3>2. TypeOK'
      BY <1>1, <1>3, <2>1, <3>1 DEF IInv, TypeOK
    <3>3. LockHeld' /\ VersionsOnly'
      BY <1>1, <2>1, <3>1 DEF IInv, LockHeld, VersionsOnly
    <3> QED
      BY <1>2, <3>2, <3>3 DEF IInv
  <2> QED
    BY <2>2, <2>3
<1>6. CASE Read(l)
  <2>1. PICK C \in {opened, content[l]} : list' = [list EXCEPT ![l] = C]
    BY <1>6 DEF Read
  <2>2. /\ pc = "read" /\ pc' = "note" /\ opened' = {}
        /\ UNCHANGED <<lastMod, locked, at>>
    BY <1>6 DEF Read
  <2>3. C \in Contents[l] /\ LetThrough(l, C) \subseteq lets[l]
    BY <1>1, <1>3, <2>2 DEF IInv, TypeOK, VersionsOnly
  <2>4. list' = [k \in Lists |-> list'[k]] /\ \A k \in Lists : list'[k] \in Contents[k]
    BY <2>1, <2>3 DEF IInv, TypeOK
  <2>5. TypeOK'
    BY <1>1, <2>2, <2>4 DEF IInv, TypeOK
  <2>6. LockHeld'
    BY <2>2 DEF IInv, LockHeld
  <2>7. VersionsOnly'
    BY <1>1, <2>1, <2>2, <2>3 DEF IInv, TypeOK, VersionsOnly
  <2> QED
    BY <1>2, <2>5, <2>6, <2>7 DEF IInv
<1>7. CASE Note(l)
  <2>1. /\ pc = "note" /\ pc' = "check" /\ at' = Other(l) /\ locked' = locked \ {l}
        /\ UNCHANGED <<list, opened>>
    BY <1>7 DEF Note
  <2>2. lastMod' \in [Lists -> 0..MaxTime]
    BY <1>7 DEF Note, IInv, TypeOK
  <2>3. TypeOK'
    BY <1>1, <1>3, <2>1, <2>2 DEF IInv, TypeOK
  <2>4. LockHeld'
    BY <1>1, <2>1 DEF IInv, LockHeld
  <2>5. VersionsOnly'
    BY <1>1, <2>1 DEF IInv, VersionsOnly
  <2> QED
    BY <1>2, <2>3, <2>4, <2>5 DEF IInv
<1> QED
  BY <1>4, <1>5, <1>6, <1>7

LEMMA AskInv ==
  ASSUME IInv, NEW c \in Callsigns, Ask(c)
  PROVE  IInv'
<1>1. UNCHANGED <<now, present, content, mtime, lets, list, lastMod, named, locked, pc, at, opened>>
  BY DEF Ask, Asking, fileVars, loadVars
<1>2. asked' = c /\ step' = "white"
  BY DEF Ask
<1>3. TypeOK'
  BY <1>1, <1>2 DEF IInv, TypeOK, Lists
<1>4. LockHeld' /\ VersionsOnly' /\ AnswersFit'
  BY <1>1, <1>2 DEF IInv, LockHeld, VersionsOnly, AnswersFit
<1> QED
  BY <1>3, <1>4 DEF IInv

LEMMA AnswerInv ==
  ASSUME IInv, NEW l \in Lists, IsNodeListed(l)
  PROVE  IInv'
<1>1. UNCHANGED <<now, present, content, mtime, lets, list, lastMod, named, locked, pc, at, opened>>
  BY DEF IsNodeListed, Asking, fileVars, loadVars
<1>2. /\ step = l /\ l \notin locked /\ asked' = asked
      /\ step' = IF asked \notin LetThrough(l, list[l]) THEN "refused"
                 ELSE IF l = "white" THEN "black" ELSE "allowed"
  BY DEF IsNodeListed, Free
<1>3. LetThrough(l, list[l]) \subseteq lets[l]
  BY <1>2 DEF IInv, LockHeld, VersionsOnly
<1>4. TypeOK'
  BY <1>1, <1>2 DEF IInv, TypeOK, Lists
<1>5. AnswersFit'
  BY <1>1, <1>2, <1>3 DEF IInv, AnswersFit, Lists
<1>6. LockHeld' /\ VersionsOnly'
  BY <1>1 DEF IInv, LockHeld, VersionsOnly
<1> QED
  BY <1>4, <1>5, <1>6 DEF IInv

LEMMA EditInv ==
  ASSUME IInv, NEW l \in Lists, Edit(l)
  PROVE  IInv'
<1>1. PICK C \in Contents[l] : /\ content' = [content EXCEPT ![l] = C]
                               /\ lets' = [lets EXCEPT ![l] = @ \cup LetThrough(l, C)]
  BY DEF Edit
<1>2. /\ present' = [present EXCEPT ![l] = TRUE] /\ mtime' = [mtime EXCEPT ![l] = now]
      /\ UNCHANGED <<now, list, lastMod, named, locked, pc, at, opened, asked, step>>
  BY DEF Edit, loadVars, askVars
<1>3. content' = [k \in Lists |-> content'[k]] /\ \A k \in Lists : content'[k] \in Contents[k]
  BY <1>1 DEF IInv, TypeOK
<1>4. lets' \in [Lists -> SUBSET Callsigns] /\ mtime' \in [Lists -> 0..MaxTime]
  BY <1>1, <1>2, LetThroughIn DEF IInv, TypeOK
<1>5. present' \in [Lists -> BOOLEAN]
  BY <1>2 DEF IInv, TypeOK
<1>6. TypeOK'
  BY <1>2, <1>3, <1>4, <1>5 DEF IInv, TypeOK
<1>7. /\ \A k \in Lists : lets[k] \subseteq lets'[k]
      /\ LetThrough(l, C) \subseteq lets'[l]
      /\ content'[l] = C /\ \A k \in Lists \ {l} : content'[k] = content[k]
  BY <1>1 DEF IInv, TypeOK
<1>8. VersionsOnly'
  <2>1. \A k \in Lists : LetThrough(k, content'[k]) \subseteq lets'[k]
    BY <1>7 DEF IInv, VersionsOnly
  <2>2. \A k \in Lists : (pc' = "read" => k # at') => LetThrough(k, list'[k]) \subseteq lets'[k]
    BY <1>2, <1>7 DEF IInv, VersionsOnly
  <2>3. pc' = "read" => LetThrough(at', opened') \subseteq lets'[at']
    BY <1>2, <1>7 DEF IInv, VersionsOnly, TypeOK
  <2> QED
    BY <2>1, <2>2, <2>3 DEF VersionsOnly
<1>9. LockHeld' /\ AnswersFit'
  BY <1>2, <1>7 DEF IInv, LockHeld, AnswersFit, Lists
<1> QED
  BY <1>6, <1>8, <1>9 DEF IInv

LEMMA DeleteInv ==
  ASSUME IInv, NEW l \in Lists, Delete(l)
  PROVE  IInv'
<1>1. /\ present' = [present EXCEPT ![l] = FALSE]
      /\ UNCHANGED <<now, content, mtime, lets, list, lastMod, named, locked, pc, at, opened, asked, step>>
  BY DEF Delete, loadVars, askVars
<1>2. TypeOK'
  BY <1>1 DEF IInv, TypeOK
<1>3. LockHeld' /\ VersionsOnly' /\ AnswersFit'
  BY <1>1 DEF IInv, LockHeld, VersionsOnly, AnswersFit
<1> QED
  BY <1>2, <1>3 DEF IInv

LEMMA TickInv == ASSUME IInv, Tick PROVE IInv'
<1>1. /\ now' \in 0..MaxTime
      /\ UNCHANGED <<present, content, mtime, lets, list, lastMod, named, locked, pc, at, opened, asked, step>>
  BY MaxTimeAssumption DEF Tick, fileVars, loadVars, askVars, IInv, TypeOK
<1>2. TypeOK'
  BY <1>1 DEF IInv, TypeOK
<1>3. LockHeld' /\ VersionsOnly' /\ AnswersFit'
  BY <1>1 DEF IInv, LockHeld, VersionsOnly, AnswersFit
<1> QED
  BY <1>2, <1>3 DEF IInv

LEMMA IInvStep == IInv /\ [Next]_vars => IInv'
<1> SUFFICES ASSUME IInv, [Next]_vars PROVE IInv'
  OBVIOUS
<1>1. CASE GateKeeperThread
  BY <1>1, ThreadInv DEF GateKeeperThread
<1>2. ASSUME NEW l \in Lists, IsNodeListed(l) PROVE IInv'
  BY <1>2, AnswerInv
<1>3. ASSUME NEW l \in Lists, Edit(l) PROVE IInv'
  BY <1>3, EditInv
<1>4. ASSUME NEW l \in Lists, Delete(l) PROVE IInv'
  BY <1>4, DeleteInv
<1>5. ASSUME NEW c \in Callsigns, Ask(c) PROVE IInv'
  BY <1>5, AskInv
<1>6. CASE Tick
  BY <1>6, TickInv
<1>7. CASE UNCHANGED vars
  BY <1>7 DEF vars, fileVars, loadVars, askVars, IInv, TypeOK, LockHeld, VersionsOnly, AnswersFit
<1> QED
  BY <1>1, <1>2, <1>3, <1>4, <1>5, <1>6, <1>7 DEF Next

LEMMA Invariant == Spec => []IInv
<1> QED
  BY InitInv, IInvStep, PTL DEF Spec

\* The lists hold what files have held, and their locks and times keep their types.
THEOREM TypeCorrect == Spec => []TypeOK
<1>1. IInv => TypeOK
  BY DEF IInv
<1> QED
  BY <1>1, Invariant, PTL

\* Who is barred by all versions of a list is never let in, whatever is edited or
\* deleted while a list is loaded or between the questions to the two lists.
THEOREM BarredNeverIn == Spec => []BarredStaysOut
<1>1. IInv => BarredStaysOut
  BY DEF IInv, AnswersFit, BarredStaysOut, Lists
<1> QED
  BY <1>1, Invariant, PTL
----------------------------------------------------------------------------
(* The refinement of Access.                                               *)

\* A step that touches neither files nor lists leaves the mapping alone.
LEMMA SameRules ==
  ASSUME UNCHANGED <<content, list, pc, at, opened>>
  PROVE  UNCHANGED <<Filed, Ruling>>
BY DEF Filed, Ruling, InForce

LEMMA RulesIs ==
  /\ Filed = [l \in Lists |-> Filed[l]] /\ Ruling = [l \in Lists |-> Ruling[l]]
  /\ \A l \in Lists : Filed[l] = LetThrough(l, content[l]) /\ Ruling[l] = InForce(l)
BY DEF Filed, Ruling

LEMMA InitRules == Init => Rules!Init
<1> SUFFICES ASSUME Init PROVE Rules!Init
  OBVIOUS
<1>1. Filed \in [Lists -> SUBSET Callsigns]
  BY LetThroughIn DEF Filed
<1>2. Ruling = Filed
  BY DEF Init, Ruling, Filed, InForce
<1> QED
  BY <1>1, <1>2 DEF Init, Rules!Init, Rules!Lists, Lists

\* The mapping changes with one list only, and that list takes on its file.
LEMMA AdoptsIts ==
  ASSUME NEW l \in Lists, UNCHANGED <<content, asked, step>>,
         InForce(l)' = LetThrough(l, content[l]),
         \A k \in Lists \ {l} : InForce(k)' = InForce(k)
  PROVE  Rules!Adopt(l)
<1>1. Filed' = Filed
  BY DEF Filed
<1>2. Ruling' = [k \in Lists |-> InForce(k)']
  BY DEF Ruling
<1>3. [Ruling EXCEPT ![l] = Filed[l]] = [k \in Lists |-> IF k = l THEN Filed[l] ELSE Ruling[k]]
  BY RulesIs
<1>4. \A k \in Lists : InForce(k)' = IF k = l THEN Filed[l] ELSE Ruling[k]
  BY RulesIs
<1>5. Ruling' = [Ruling EXCEPT ![l] = Filed[l]]
  BY <1>2, <1>3, <1>4
<1> QED
  BY <1>1, <1>5 DEF Rules!Adopt

\* A list is emptied when its file is opened, and filled under the same lock: it
\* takes on the file at the first of the two steps, and again at the second if
\* somebody has edited the open file.
LEMMA ThreadRules ==
  ASSUME IInv, NEW l \in Lists, Check(l) \/ Open(l) \/ Read(l) \/ Note(l)
  PROVE  Rules!Next \/ UNCHANGED Rules!vars
<1>1. at = l /\ UNCHANGED <<now, present, content, mtime, lets, named, asked, step>>
  BY ThreadFrame DEF Check, Open, Read, Note
<1>2. ASSUME Rules!Adopt(l) PROVE Rules!Next
  BY <1>2 DEF Rules!Next, Rules!Lists, Lists
<1>3. ASSUME UNCHANGED list, pc # "read", pc' # "read" PROVE UNCHANGED Rules!vars
  <2>1. Filed' = Filed /\ Ruling' = Ruling
    BY <1>1, <1>3 DEF Filed, Ruling, InForce
  <2> QED
    BY <1>1, <2>1 DEF Rules!vars
<1>4. CASE Check(l) \/ Note(l) \/ (Open(l) /\ ~present[l])
  BY <1>3, <1>4 DEF Check, Note, Open
<1>5. CASE Open(l) /\ present[l]
  <2>1. /\ pc = "open" /\ pc' = "read" /\ at' = l /\ opened' = content[l]
        /\ list' = [list EXCEPT ![l] = {}]
    BY <1>5 DEF Open
  <2>2. InForce(l)' = LetThrough(l, content[l])
    BY <2>1 DEF InForce
  <2>3. ASSUME NEW k \in Lists \ {l} PROVE InForce(k)' = InForce(k)
    BY <1>1, <2>1, <2>3 DEF InForce, IInv, TypeOK
  <2> QED
    BY <1>1, <1>2, <2>2, <2>3, AdoptsIts
<1>6. CASE Read(l)
  <2>1. PICK C \in {opened, content[l]} : list' = [list EXCEPT ![l] = C]
    BY <1>6 DEF Read
  <2>2. pc = "read" /\ pc' = "note" /\ at' = at /\ list[l] = list[l] /\ DOMAIN list = Lists
    BY <1>6 DEF Read, IInv, TypeOK
  <2>3. InForce(l)' = LetThrough(l, C) /\ InForce(l) = LetThrough(l, opened)
    BY <1>1, <2>1, <2>2 DEF InForce
  <2>4. ASSUME NEW k \in Lists \ {l} PROVE InForce(k)' = InForce(k)
    BY <1>1, <2>1, <2>2, <2>4 DEF InForce
  <2>5. CASE C = content[l]
    BY <1>1, <1>2, <2>3, <2>4, <2>5, AdoptsIts
  <2>6. CASE C = opened
    <3>1. \A k \in Lists : InForce(k)' = InForce(k)
      BY <2>3, <2>4, <2>6
    <3>2. Filed' = Filed /\ Ruling' = Ruling
      BY <1>1, <3>1 DEF Filed, Ruling
    <3> QED
      BY <1>1, <3>2 DEF Rules!vars
  <2> QED
    BY <2>5, <2>6
<1> QED
  BY <1>4, <1>5, <1>6

\* A free list is the one in force.
LEMMA AnswerRules ==
  ASSUME IInv, NEW l \in Lists, IsNodeListed(l)
  PROVE  Rules!Next
<1>1. UNCHANGED <<content, list, pc, at, opened>> /\ asked' = asked
  BY DEF IsNodeListed, Asking, fileVars, loadVars
<1>2. /\ step = l /\ l \notin locked
      /\ step' = IF asked \notin LetThrough(l, list[l]) THEN "refused"
                 ELSE IF l = "white" THEN "black" ELSE "allowed"
  BY DEF IsNodeListed, Free
<1>3. Ruling[l] = LetThrough(l, list[l])
  BY <1>2, RulesIs DEF InForce, IInv, LockHeld
<1>4. Rules!Refuse(l) \/ Rules!Pass(l)
  BY <1>1, <1>2, <1>3, SameRules DEF Rules!Refuse, Rules!Pass
<1> QED
  BY <1>4 DEF Rules!Next, Rules!Lists, Lists

LEMMA EditRules ==
  ASSUME IInv, NEW l \in Lists, Edit(l)
  PROVE  Rules!Next
<1>1. PICK C \in Contents[l] : content' = [content EXCEPT ![l] = C]
  BY DEF Edit
<1>2. UNCHANGED <<list, pc, at, opened, asked, step>>
  BY DEF Edit, loadVars, askVars
<1>3. Ruling' = Ruling
  BY <1>2 DEF Ruling, InForce
<1>4. LetThrough(l, C) \in SUBSET Callsigns
  BY LetThroughIn
<1>5. Filed' = [Filed EXCEPT ![l] = LetThrough(l, C)]
  <2>1. \A k \in Lists : content'[k] = IF k = l THEN C ELSE content[k]
    BY <1>1 DEF IInv, TypeOK
  <2>2. Filed' = [k \in Lists |-> LetThrough(k, content'[k])]
    BY DEF Filed, LetThrough
  <2>3. [Filed EXCEPT ![l] = LetThrough(l, C)]
          = [k \in Lists |-> IF k = l THEN LetThrough(l, C) ELSE LetThrough(k, content[k])]
    BY DEF Filed
  <2> QED
    BY <2>1, <2>2, <2>3
<1>6. Rules!Edit(l)
  BY <1>2, <1>3, <1>4, <1>5 DEF Rules!Edit
<1> QED
  BY <1>6 DEF Rules!Next, Rules!Lists, Lists

LEMMA NextRules == IInv /\ [Next]_vars => [Rules!Next]_(Rules!vars)
<1> SUFFICES ASSUME IInv, [Next]_vars PROVE Rules!Next \/ UNCHANGED Rules!vars
  OBVIOUS
<1>1. CASE GateKeeperThread
  BY <1>1, ThreadRules DEF GateKeeperThread
<1>2. ASSUME NEW l \in Lists, IsNodeListed(l) PROVE Rules!Next
  BY <1>2, AnswerRules
<1>3. ASSUME NEW l \in Lists, Edit(l) PROVE Rules!Next
  BY <1>3, EditRules
<1>4. ASSUME NEW c \in Callsigns, Ask(c) PROVE Rules!Next
  <2>1. Rules!Ask(c)
    BY <1>4, SameRules DEF Ask, Asking, fileVars, loadVars, Rules!Ask
  <2> QED
    BY <2>1 DEF Rules!Next
<1>5. CASE (\E l \in Lists : Delete(l)) \/ Tick \/ UNCHANGED vars
  <2>1. UNCHANGED <<content, list, pc, at, opened, asked, step>>
    BY <1>5 DEF Delete, Tick, vars, fileVars, loadVars, askVars
  <2> QED
    BY <2>1, SameRules DEF Rules!vars
<1> QED
  BY <1>1, <1>2, <1>3, <1>4, <1>5 DEF Next

\* Whoever asks is judged by lists that are each the whole of a version of their file,
\* whatever is edited or deleted while a list is emptied and filled.
THEOREM WholeListsJudge == Spec => ImplementsAccess
<1> QED
  BY InitRules, NextRules, Invariant, PTL DEF Spec, ImplementsAccess, Rules!Spec
=============================================================================
