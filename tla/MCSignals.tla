----------------------------- MODULE MCSignals -----------------------------
(* An instance of Signals for TLC. *)
EXTENDS Signals

CONSTANTS p1, p2, usr, alrm

TwoProcesses == {p1, p2}
TwoSignals   == {usr, alrm}

(* The second process registers handlers for all signals or for none.           *)
MCNext == Next /\ handler'[p2] \in {{}, Sigs}

MCSpec == /\ Init /\ [][MCNext]_vars
          /\ \A p \in Procs : WF_vars(Step(p))
          /\ WF_vars(\E cur \in Procs \cup {NoProc} : Timer_Interrupt_Handler(cur))
=============================================================================
