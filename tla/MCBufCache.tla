----------------------------- MODULE MCBufCache -----------------------------
(* Instances of BufCache for TLC. *)
EXTENDS BufCache

CONSTANTS t1, t2, t3, b1, b2, zero, one

TwoThreads   == {t1, t2}
ThreeThreads == {t1, t2, t3}
TwoBlocks    == {b1, b2}
TwoValues    == {zero, one}
WriteFailure == {"write"}
AnyFailure   == {"read", "write", "memory"}
=============================================================================
