-------------------------------- MODULE Floor --------------------------------
(***************************************************************************)
(* What the reflector promises the users of its modules: a module is held  *)
(* by one talker at a time, who gets it only when it is free and keeps it  *)
(* until it is given back; nobody holds two modules, and no stream         *)
(* identifier is heard on two modules.  Module Protocol implements this.   *)
(***************************************************************************)
CONSTANT Modules

VARIABLE holder   \* {} for a free module, else {[client |-> c, sid |-> s]}

Init == holder = [m \in Modules |-> {}]

\* A free module goes to a talker who holds none, with an identifier no module
\* is busy with.
Grant(m, h) ==
  /\ holder[m] = {}
  /\ \A n \in Modules : \A k \in holder[n] : k.client # h.client /\ k.sid # h.sid
  /\ holder' = [holder EXCEPT ![m] = {h}]

\* Several streams may time out in one pass.
Release(M) == holder' = [m \in Modules |-> IF m \in M THEN {} ELSE holder[m]]

\* The talker a step brings to a module is read off the step.
Next == \/ \E m \in Modules : \E h \in holder'[m] : Grant(m, h)
        \/ \E M \in SUBSET Modules : Release(M)

Spec == Init /\ [][Next]_holder
=============================================================================
