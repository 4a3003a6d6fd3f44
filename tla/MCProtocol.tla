----------------------------- MODULE MCProtocol -----------------------------
(* Instances of Protocol for TLC.  Peers are the numbers 1 and 2.           *)
EXTENDS Protocol, TLC

CONSTANT s1

OneStation == {s1}
OnePeer == {1}
TwoPeers == {1, 2}
ZeroToTwo == {0, 1, 2}
ZeroToOne == {0, 1}

OwnHosts == [p \in Peers |-> p]     \* every reflector has a host of its own
OneHost == [p \in Peers |-> 0]      \* the reflectors share one ip address

\* The versions of mrefd.interlink: every peer shares all modules, or is left out.
AllOrNothing == [Peers -> {{}, Modules}]
Shared == [Peers -> SUBSET Modules \ {{}}]   \* always in the file, with any modules

\* Nothing orders stations, modules or generations.
Symmetry == Permutations(Stations) \cup Permutations(Modules)
=============================================================================
