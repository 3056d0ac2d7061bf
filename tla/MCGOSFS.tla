------------------------------ MODULE MCGOSFS ------------------------------
(* Instances of GOSFS for TLC. *)
EXTENDS GOSFS

CONSTANTS p1, p2, n1, n2

TwoProcesses == {p1, p2}
FirstProcess == {p1}
TwoNames     == {n1, n2}

(* Names are interchangeable.                                                 *)
Interchangeable == Permutations({n1, n2})

(* Format finds a free entry and one with other flags on its stack, so the root   *)
(* directory has room for one entry and every other directory for two.          *)
MCInit == Init /\ dir[Root][2] = Free /\ dir[Root][3] = Junk
MCSpec == MCInit /\ [][Next]_vars
=============================================================================
