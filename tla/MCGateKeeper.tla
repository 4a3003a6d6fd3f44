----------------------------- MODULE MCGateKeeper -----------------------------
(* Instances of GateKeeper for TLC.                                         *)
EXTENDS GateKeeper

CONSTANTS c1, c2

OneCallsign == {c1}
\* c2 stands for everybody else.
SmallFiles == [l \in Lists |-> {{}, {c1}} \cup IF l = "white" THEN {{c2}} ELSE {}]
Black == {"black"}
White == {"white"}
=============================================================================
