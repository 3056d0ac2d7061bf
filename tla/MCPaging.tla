------------------------------ MODULE MCPaging ------------------------------
(* Instances of Paging for TLC. *)
EXTENDS Paging

CONSTANTS sh, k1, k2, k3

FourProcesses == {sh, k1, k2, k3}

(* The processes the shell spawns, or its children, are interchangeable.     *)
Children == Permutations({k1, k2, k3})
=============================================================================
