------------------------------- MODULE MCSynch -------------------------------
(* Instances of Synch for TLC. *)
EXTENDS Synch

CONSTANTS p1, p2, p3, s1

ThreeProcs == {p1, p2, p3}
OneSem     == {s1}
=============================================================================
