------------------------------ MODULE MCShell -------------------------------
(* Constants of the TLC run of Shell. *)
EXTENDS Shell

MCExit == <<"x", "x">>

\* Success, failure, the largest status, and results that do not fit a byte.
MCResults == {0, 3, 255, -1, 256}
=============================================================================
