----------------------------- MODULE MCTerminal -----------------------------
(* Constants of the TLC runs of Terminal. *)
EXTENDS TerminalLines

\* Editing, entering and switching: the keys that race with readers.
RaceKeys == {"a", "enter", "bksp", "left", "alt", "F1", "F2"}

\* Every editing key on one terminal; with caps lock they make two characters.
EditKeys == {"l", "enter", "bksp", "delete", "left", "right", "ctrl", "caps"}

\* The keys of one terminal that race with its reader.
RaceKeysAlone == RaceKeys \ {"alt", "F1", "F2"}

\* Reads of a whole row.
WholeRows == [t \in Tty |-> {TERMINAL_BUFFER_MAX_SIZE}]

\* Terminal 0 asks for nothing or for more than a row, the others for a row.
OddSizes == [WholeRows EXCEPT ![0] = {0, TERMINAL_BUFFER_MAX_SIZE + 1}]

\* Reads of nothing, a part of a row, a row and more than a row.
AllSizes == [t \in Tty |-> {0, 1, TERMINAL_BUFFER_MAX_SIZE, TERMINAL_BUFFER_MAX_SIZE + 1}]
=============================================================================
