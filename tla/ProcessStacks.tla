---------------------------- MODULE ProcessStacks ---------------------------
(***************************************************************************)
(* The process table implements a stack of programs per terminal: which    *)
(* program is on top, which one waits for which and whose turn it is are   *)
(* read off the bit mask, the PCBs and the current process number.         *)
(***************************************************************************)
EXTENDS Processes

BelowOf == [p \in running_processes \ {0} |-> parent_process_number[p]]

TopOf == [t \in Tty |-> CHOOSE p \in Schedulable : tty_number[p] = t]

TurnOf == tty_number[current_process_number]

Stacks == INSTANCE TtyStacks WITH
  Terminals <- Tty,
  Programs <- Proc,
  Bottom <- [t \in Tty |-> t + 1],
  First <- 0,
  Nobody <- 0,
  below <- BelowOf,
  top <- TopOf,
  turn <- TurnOf

\* execute() is a push, halt() a pop and a timer interrupt a change of turn:
\* although they write the mask, the PCBs of two processes and three records of
\* who runs, no interleaving makes a program run below another one, return to a
\* program that did not start it or move to another terminal.
ImplementsTtyStacks == Stacks!StacksSpec
=============================================================================
