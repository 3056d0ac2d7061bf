------------------------------- MODULE MCMemory -------------------------------
(* An instance of Memory for TLC.                                                 *)
EXTENDS Memory, TLC

CONSTANTS sh, k1, k2, o1, o2, o3

ThreeProcesses == {sh, k1, k2}

(* Two bytes of bits, six of them spare, and who takes some.                      *)
ThreeOwners == {o1, o2, o3}
TwoOrFour   == {2, 4}

(* The processes the shell spawns are interchangeable.                            *)
Children == Permutations({k1, k2})

(* The smallest block; one whose size is not a multiple of the quantum; one       *)
(* that is several of the others.                                                *)
SmallAndLarge == {1, 11, 30}
=============================================================================
