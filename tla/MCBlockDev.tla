----------------------------- MODULE MCBlockDev -----------------------------
(* An instance of BlockDev for TLC. *)
EXTENDS BlockDev

CONSTANTS c1, c2, ide0, ide1, fd0, b1, past, zero, one

TwoClients   == {c1, c2}
BothIDE      == {ide0, ide1}
OneFloppy    == {fd0}
OneBlock     == {b1}
PastEnd      == {past}
TwoValues    == {zero, one}

(* The second client leaves the second IDE drive alone.                         *)
MCNext == Next /\ (req'[c2] # NoRequest => req'[c2].dev # ide1)

(* The fairness of FairSpec: neither it nor the drivers choose what is asked.   *)
MCSpec ==
  /\ Init /\ [][MCNext]_vars
  /\ \A c \in Clients : WF_vars(AwaitCompletion(c))
  /\ \A k \in Drivers : WF_vars(Driver(k))
  /\ WF_vars(FloppyInterrupt)
=============================================================================
