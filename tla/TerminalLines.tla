---------------------------- MODULE TerminalLines ---------------------------
(***************************************************************************)
(* The terminal driver implements the line editor as long as no key        *)
(* disturbs a read: rows of one C array, shifted in place, with lengths    *)
(* and cursors reset by separate statements, behave as sequences.          *)
(***************************************************************************)
EXTENDS Terminal, Sequences

\* A line that a reader has begun to take counts as taken; so does one whose
\* read was disturbed, from then on.
Taken(t) == BeingRead(t) \/ tears > 0

EditedText ==
  [t \in Tty |-> IF Taken(t) THEN << >>
                 ELSE [i \in 1 .. command_length[t] |-> command_buffer[At(t, i - 1)]]]

EditedPoint == [t \in Tty |-> IF Taken(t) THEN 0 ELSE cursor_x[t]]

Editor == INSTANCE LineEditor WITH
  Terminals <- Tty,
  Symbols <- Datum \ {NUL},
  Capacity <- TERMINAL_BUFFER_MAX_SIZE - 1,
  text <- EditedText,
  point <- EditedPoint

\* place_character_at_index(), the BKSP, DELETE, arrow and Ctrl+L branches of
\* process_keyboard_input() and the loop of terminal_read() have on the line of
\* a terminal the effect of one editing operation on a sequence each, whatever
\* the interleaving with the readers and switches of the other terminals.
ImplementsLineEditor == Editor!EditorSpec
=============================================================================
