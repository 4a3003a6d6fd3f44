------------------------------ MODULE GateKeeper ------------------------------
(***************************************************************************)
(* The white list and the black list: CGateKeeper's thread, which loads a  *)
(* list again when its file has another modification time than the one it  *)
(* noted (CBWSet), and the protocol thread, which asks both lists, one     *)
(* after the other, whether a callsign may link or transmit                *)
(* (ClientMayLink and MayTransmit, by IsNodeListed).                       *)
(*                                                                         *)
(* A file's modification time is in seconds, and it is noted after the     *)
(* file was read: an edit in between, or in the same second, changes       *)
(* nothing the thread can see.                                             *)
(***************************************************************************)
EXTENDS Naturals

CONSTANTS
  Callsigns,   \* who asks
  Contents,    \* what each file may hold: sets of the callsigns that its lines match
  Patient,     \* lists whose editor leaves a second to the load before
  MayMiss,     \* lists whose file may be missing when the program starts
  MaxTime,     \* bound of the clock
  Nobody       \* no callsign

Lists == {"white", "black"}

ASSUME ContentsAssumption == \A l \in Lists : {} \in Contents[l]
ASSUME ListsAssumption == Patient \subseteq Lists /\ MayMiss \subseteq Lists
ASSUME MaxTimeAssumption == MaxTime \in Nat
ASSUME NobodyAssumption == Nobody \notin Callsigns

VARIABLES
  now,                       \* the clock, in seconds
  present, content, mtime,   \* the files: content is what its lines match
  list, lastMod,             \* m_Callsigns, m_LastModTime
  named,                     \* lists with an m_Filename
  locked,                    \* lists whose mutex the gatekeeper's thread holds
  pc, at,                    \* what the thread does next, and with which list
  opened,                    \* the content of the file it has open
  asked, step,               \* the callsign asked for, and how far the answer is
  lets                       \* callsigns that some version of a file has let through

fileVars == <<present, content, mtime, lets>>
loadVars == <<list, lastMod, named, locked, pc, at, opened>>
askVars == <<asked, step>>
vars == <<now, fileVars, loadVars, askVars>>

\* IsEmptyOrMatched for the white list; for the black list, not IsMatched.
LetThrough(l, C) == IF l = "black" THEN Callsigns \ C
                    ELSE IF C = {} THEN Callsigns ELSE Callsigns \cap C

\* CGateKeeper::Init has loaded the lists before the protocol starts.  The name of
\* a file that was not there is not kept.
Init ==
  /\ now = 0
  /\ named \in {N \in SUBSET Lists : Lists \ MayMiss \subseteq N}
  /\ present = [l \in Lists |-> l \in named]
  /\ content \in [Lists -> UNION {Contents[l] : l \in Lists}]
  /\ \A l \in Lists : content[l] \in IF present[l] THEN Contents[l] ELSE {{}}
  /\ mtime = [l \in Lists |-> 0]
  /\ lets = [l \in Lists |-> LetThrough(l, content[l])]
  /\ list = content /\ lastMod = mtime
  /\ locked = {} /\ pc = "check" /\ at = "white" /\ opened = {}
  /\ asked = Nobody /\ step = "idle"

----------------------------------------------------------------------------
(* The gatekeeper's thread, one list after the other.                      *)

Other(l) == IF l = "white" THEN "black" ELSE "white"
Thread(l) == at = l /\ UNCHANGED <<now, fileVars, named, askVars>>

\* CBWSet::NeedReload: a file that cannot be found need not be loaded, and one
\* that has never been found is not looked for.
NeedReload(l) == l \in named /\ present[l] /\ mtime[l] # lastMod[l]
Check(l) ==
  /\ Thread(l) /\ pc = "check"
  /\ IF NeedReload(l) THEN pc' = "open" /\ at' = l ELSE pc' = "check" /\ at' = Other(l)
  /\ UNCHANGED <<list, lastMod, locked, opened>>

\* Mutant of Open: the list is emptied whether or not there is a file.
OpenEmptied(l) ==
  /\ Thread(l) /\ pc = "open"
  /\ list' = [list EXCEPT ![l] = {}]
  /\ IF present[l] THEN pc' = "read" /\ locked' = locked \cup {l} /\ opened' = content[l] /\ at' = l
                   ELSE pc' = "check" /\ at' = Other(l) /\ UNCHANGED <<locked, opened>>
  /\ UNCHANGED lastMod

\* Mutant of Open: an early return that leaves the mutex locked.
OpenKeepsLock(l) ==
  /\ Thread(l) /\ pc = "open"
  /\ locked' = locked \cup {l}
  /\ IF present[l]
     THEN /\ list' = [list EXCEPT ![l] = {}]
          /\ pc' = "read" /\ opened' = content[l] /\ at' = l
     ELSE pc' = "check" /\ at' = Other(l) /\ UNCHANGED <<list, opened>>
  /\ UNCHANGED lastMod

\* CBWSet::ReloadFromFile takes the mutex; LoadFromFile opens the file and empties
\* the list.  If the file is gone the list stays as it is.
Open(l) ==
  /\ Thread(l) /\ pc = "open"
  /\ IF present[l]
     THEN /\ list' = [list EXCEPT ![l] = {}]
          /\ pc' = "read" /\ locked' = locked \cup {l} /\ opened' = content[l] /\ at' = l
     ELSE pc' = "check" /\ at' = Other(l) /\ UNCHANGED <<list, locked, opened>>
  /\ UNCHANGED lastMod

\* The lines go into the list: those of the file that was opened, or those an
\* editor has meanwhile put in the same file.  The stream reads a short file at once.
Read(l) ==
  /\ Thread(l) /\ pc = "read"
  /\ \E C \in {opened, content[l]} : list' = [list EXCEPT ![l] = C]
  /\ pc' = "note" /\ opened' = {}
  /\ UNCHANGED <<lastMod, locked, at>>

\* Mutant of Note: the time of the load is noted instead of that of the file.
NoteClock(l) ==
  /\ Thread(l) /\ pc = "note"
  /\ lastMod' = [lastMod EXCEPT ![l] = now]
  /\ locked' = locked \ {l}
  /\ pc' = "check" /\ at' = Other(l)
  /\ UNCHANGED <<list, opened>>

\* GetLastModTime: the time of the file as it is now, if it is still there.
Note(l) ==
  /\ Thread(l) /\ pc = "note"
  /\ lastMod' = IF present[l] THEN [lastMod EXCEPT ![l] = mtime[l]] ELSE lastMod
  /\ locked' = locked \ {l}
  /\ pc' = "check" /\ at' = Other(l)
  /\ UNCHANGED <<list, opened>>

GateKeeperThread == \E l \in Lists : Check(l) \/ Open(l) \/ Read(l) \/ Note(l)

----------------------------------------------------------------------------
(* The protocol thread: ClientMayLink, MayTransmit.                        *)

Asking == UNCHANGED <<now, fileVars, loadVars>>

Ask(c) == Asking /\ step \in {"idle", "refused", "allowed"} /\ asked' = c /\ step' = "white"

\* Mutant of Free: the lists are read without their mutex.
FreeAlways(l) == l \in Lists

\* The mutex of a list is free: what happens under it is one step here.
Free(l) == l \notin locked
IsNodeListed(l) ==
  /\ Asking
  /\ step = l /\ Free(l)
  /\ step' = IF asked \notin LetThrough(l, list[l]) THEN "refused"
             ELSE IF l = "white" THEN "black" ELSE "allowed"
  /\ UNCHANGED asked

----------------------------------------------------------------------------
(* The environment: whoever edits the files, and the clock.                *)

\* A patient editor does not edit while the list is loaded, nor in the second of
\* the version that was loaded last.  A file that is written in place is empty
\* for a moment: that is an edit of its own.
MayEdit(l) == l \in Patient => /\ now > lastMod[l]
                               /\ ~(at = l /\ pc \in {"read", "note"})
Edit(l) ==
  /\ MayEdit(l)
  /\ \E C \in Contents[l] :
       /\ content' = [content EXCEPT ![l] = C]
       /\ lets' = [lets EXCEPT ![l] = @ \cup LetThrough(l, C)]
  /\ present' = [present EXCEPT ![l] = TRUE]
  /\ mtime' = [mtime EXCEPT ![l] = now]
  /\ UNCHANGED <<now, loadVars, askVars>>

Delete(l) ==
  /\ present' = [present EXCEPT ![l] = FALSE]
  /\ UNCHANGED <<now, content, mtime, lets, loadVars, askVars>>

Tick == now < MaxTime /\ now' = now + 1 /\ UNCHANGED <<fileVars, loadVars, askVars>>

Next == \/ GateKeeperThread
        \/ \E l \in Lists : IsNodeListed(l) \/ Edit(l) \/ Delete(l)
        \/ \E c \in Callsigns : Ask(c)
        \/ Tick

Spec == Init /\ [][Next]_vars

\* Neither thread stops while the reflector runs.  The thread leaves the mutexes
\* free for 30 ms in every pass: whoever waits for one gets it.
FairSpec == Spec /\ WF_vars(GateKeeperThread) /\ \A l \in Lists : SF_vars(IsNodeListed(l))

----------------------------------------------------------------------------
(* Properties.                                                             *)

TypeOK ==
  /\ now \in 0..MaxTime
  /\ present \in [Lists -> BOOLEAN] /\ mtime \in [Lists -> 0..MaxTime]
  /\ content = [l \in Lists |-> content[l]] /\ list = [l \in Lists |-> list[l]]
  /\ \A l \in Lists : content[l] \in Contents[l] /\ list[l] \in Contents[l]
  /\ opened \in IF pc = "read" THEN Contents[at] ELSE {{}}
  /\ lastMod \in [Lists -> 0..MaxTime]
  /\ lets \in [Lists -> SUBSET Callsigns]
  /\ named \subseteq Lists /\ locked \subseteq Lists /\ at \in Lists
  /\ pc \in {"check", "open", "read", "note"}
  /\ asked \in Callsigns \cup {Nobody}
  /\ step \in Lists \cup {"idle", "refused", "allowed"}

\* Who is barred by every version of the black list, or by every version of the
\* white list, is never allowed to link or to transmit, also while the lists
\* are loaded and when their files disappear.
BarredStaysOut ==
  step = "allowed" => \A l \in Lists : asked \in lets[l]

\* The gatekeeper implements module Access.  While a list is empty under its lock the
\* one in force is that of the file that was opened.
InForce(l) == LetThrough(l, IF pc = "read" /\ at = l THEN opened ELSE list[l])

Filed == [l \in Lists |-> LetThrough(l, content[l])]
Ruling == [l \in Lists |-> InForce(l)]

Rules == INSTANCE Access WITH file <- Filed, rule <- Ruling

\* Whoever asks is judged by a white list and a black list that are each the whole of
\* some version of the file, although they are emptied and filled again while files
\* are edited and disappear: nobody is judged by a list that is half loaded.
ImplementsAccess == Rules!Spec

\* A question is answered however often the lists are loaded meanwhile.
AnswerComes == step \in Lists ~> step \notin Lists

\* The last edit of a file that was there when the program started takes effect.
EditTakesEffect(l) ==
  l \in named /\ <>[]present[l] /\ <>[][~Edit(l)]_vars => <>[](list[l] = content[l])

\* It does if the editor is patient, however the lists are used meanwhile.
PatientEditsTakeEffect == \A l \in Patient : EditTakesEffect(l)
=============================================================================
