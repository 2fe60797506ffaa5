---------------------------- MODULE MCProcesses ----------------------------
(* Constants of the TLC runs of Processes. *)
EXTENDS ProcessStacks

\* RAM that reads as zero at power-on.
ZeroedRam == [p \in Slot |-> 0]
=============================================================================
