----------------------------- MODULE TtyStacks ------------------------------
(***************************************************************************)
(* What the process code promises its users: every terminal has a stack of *)
(* programs.  The one on top runs whenever the terminal has the CPU; it    *)
(* can put a program on top of itself and wait for it, or end and let the  *)
(* one below go on.  The bottom of a stack never ends.                     *)
(***************************************************************************)
CONSTANTS
  Terminals,
  Programs,      \* everything that can be on a stack
  Bottom,        \* the program at the bottom of each terminal's stack
  First,         \* the terminal that has the CPU first
  Nobody         \* below the bottom of a stack

VARIABLES
  below,         \* for each program on a stack, the one that waits for it
  top,           \* the program on top of each terminal's stack
  turn           \* the terminal that has the CPU

StacksInit ==
  /\ below = [p \in {Bottom[t] : t \in Terminals} |-> Nobody]
  /\ top = Bottom
  /\ turn = First

Push(p) ==
  /\ p \in Programs \ DOMAIN below
  /\ below' = [q \in DOMAIN below \cup {p} |-> IF q = p THEN top[turn] ELSE below[q]]
  /\ top' = [top EXCEPT ![turn] = p]
  /\ UNCHANGED turn

Pop ==
  /\ below[top[turn]] # Nobody
  /\ below' = [q \in DOMAIN below \ {top[turn]} |-> below[q]]
  /\ top' = [top EXCEPT ![turn] = below[top[turn]]]
  /\ UNCHANGED turn

Switch ==
  /\ turn' \in Terminals
  /\ UNCHANGED <<below, top>>

StacksNext == (\E p \in Programs : Push(p)) \/ Pop \/ Switch

StacksSpec == StacksInit /\ [][StacksNext]_<<below, top, turn>>
=============================================================================
