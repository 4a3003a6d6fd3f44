----------------------------- MODULE MCInterlink -----------------------------
(* Instances of Interlink for TLC.                                          *)
EXTENDS Interlink

CONSTANTS r1, r2, ABC

TwoReflectors == {r1, r2}
OneList == {ABC}
=============================================================================
