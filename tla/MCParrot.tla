------------------------------ MODULE MCParrot ------------------------------
(* Instances of Parrot for TLC.                                             *)
EXTENDS Parrot, TLC

CONSTANTS c1, c2

TwoClients == {c1, c2}
Symmetry == Permutations(Clients)
=============================================================================
