------------------------------- MODULE Screen -------------------------------
(***************************************************************************)
(* Where lib.c draws.  A terminal's place on the screen is a record: the   *)
(* position (x, y) of the next character and the position (cx, cy) where   *)
(* the command being typed starts (screen_x, screen_y, command_x and       *)
(* command_y of lib.c).  The characters themselves are not modelled.       *)
(***************************************************************************)
EXTENDS Integers

CONSTANTS
  NUM_COLS,    \* 80 in the code
  NUM_ROWS     \* 25 in the code

ASSUME ScreenAssumption ==
  /\ NUM_COLS \in Nat \ {0}
  /\ NUM_ROWS \in Nat \ {0}

Column == 0 .. NUM_COLS - 1
BottomRow == NUM_ROWS - 1
Place == [x : Column, y : Int, cx : Column, cy : Int]

carriage_return(s) == [s EXCEPT !.x = s.cx, !.y = s.cy]

set_command_x(s) == [s EXCEPT !.cx = s.x]
set_command_y(s) == [s EXCEPT !.cy = s.y]
set_command_location(s) == set_command_y(set_command_x(s))

clear_the_screen(s) == [x |-> 0, y |-> 0, cx |-> 0, cy |-> 0]

ScrollForgetsCommand(s) == s

\* The rows move up; so does the start of the command when the bottom row was
\* just entered at its first column.
scrolling(s) ==
  IF s.x = 0 /\ s.y = BottomRow THEN [s EXCEPT !.cy = @ - 1] ELSE s

BelowBottomRow(s) == [s EXCEPT !.y = @ + 1]

next_row(s) == IF s.y < BottomRow THEN [s EXCEPT !.y = @ + 1] ELSE scrolling(s)

\* putc() of '\n' or '\r': the row first, then the column.
putc_newline(s) == [next_row(s) EXCEPT !.x = 0]

\* putc() of any other character but NUL, which does not move.
putc_char(s) ==
  IF s.x + 1 > NUM_COLS - 1 THEN next_row([s EXCEPT !.x = 0])
                            ELSE [s EXCEPT !.x = @ + 1]

\* printthebuffer() of a line with n characters.
printthebuffer(s, n) ==
  LET printed[i \in 0 .. n] ==
        IF i = 0 THEN carriage_return(s) ELSE putc_char(printed[i - 1])
  IN  printed[n]

CursorFromOutput(s, offset) == (s.y * NUM_COLS + s.x + offset) % 65536

\* The position update_cursor() sends to the VGA registers, 16 bits wide.
update_cursor(s, offset) == (s.cy * NUM_COLS + s.cx + offset) % 65536
=============================================================================
