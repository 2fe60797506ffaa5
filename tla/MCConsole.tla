------------------------------ MODULE MCConsole -----------------------------
(* Constants of the TLC run of Console. *)
EXTENDS Console

\* Keys that type, finish and clear a line and leave the reader's terminal for
\* the other one.
LineKeys == {"l", "enter", "ctrl", "alt", "F2"}

\* Reads of a whole row.
WholeRows == [t \in Tty |-> {TERMINAL_BUFFER_MAX_SIZE}]
=============================================================================
