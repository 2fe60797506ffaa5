------------------------------ MODULE Console -------------------------------
(***************************************************************************)
(* The terminal driver on its screen: Terminal with the drawing that       *)
(* keyboard.c does through lib.c.  Every keyboard interrupt redraws the    *)
(* line of the active terminal; terminal_read() marks where the command    *)
(* starts and ends it with new_line(), with interrupts on, one step per    *)
(* statement; programs write with interrupts off.                          *)
(***************************************************************************)
EXTENDS Terminal, Screen, FiniteSets

CONSTANTS
  Readers,     \* the terminals whose programs call read()
  RowsLost,    \* a bound: how far above the screen a command may be pushed
  MaxRaces     \* a bound: how many races inside new_line() a run explores

ASSUME ConsoleAssumption ==
  /\ Readers \subseteq Tty
  /\ RowsLost \in Nat
  /\ MaxRaces \in Nat

VARIABLES
  place,       \* each terminal's place on the screen
  cursor,      \* the position of the hardware cursor
  spc,         \* what a reader is drawing: "no", "x", "y" of the command's
               \* start, "column", "test", "down" or "scroll" of new_line()
  races        \* history: how often the place moved, or another terminal
               \* became active, between new_line()'s test and its act

screen == <<place, cursor, spc, races>>

ConsoleInit ==
  /\ Init
  /\ \E row \in 0 .. BottomRow :       \* the boot messages went to terminal 0
       place = [t \in Tty |-> LET y == IF t = 0 THEN row ELSE 0
                              IN  [x |-> 0, y |-> y, cx |-> 0, cy |-> y]]
  /\ cursor = 0
  /\ spc = [t \in Tty |-> "no"]
  /\ races = 0

-----------------------------------------------------------------------------
\* The characters that printthebuffer() prints; a NUL does not move.
Printable == Cardinality({i \in 0 .. command_length'[active_terminal'] :
                            /\ At(active_terminal', i) \in Cell
                            /\ command_buffer'[At(active_terminal', i)] # NUL})

\* Counts a move while a reader among them has tested the row and not acted.
MovesUnder(readers) ==
  /\ races' = IF /\ <<place, active_terminal>>' # <<place, active_terminal>>
                 /\ \E t \in readers : spc[t] \in {"down", "scroll"}
              THEN races + 1 ELSE races
  /\ races' <= MaxRaces
  /\ \A t \in Tty : place'[t].cy >= - RowsLost

\* The end of process_keyboard_input(), then printthebuffer().
redraw(before) ==
  /\ cursor' = update_cursor(before[active_terminal'], cursor_x'[active_terminal'])
  /\ place' = [before EXCEPT ![active_terminal'] =
                 IF lost' THEN @ ELSE printthebuffer(@, Printable)]
  /\ MovesUnder(Tty)
  /\ UNCHANGED spc

\* Break codes and unknown codes: nothing changes, but the line is redrawn.
ignored_code ==
  UNCHANGED <<active_terminal, line, keyboardflag, allow_terminal_read, held>>

key ==
  \/ /\ EditingKey \/ keyboard_interruption(ignored_code)
     /\ redraw(place)
  \/ /\ keyboard_interruption(clear_key)
     /\ redraw([place EXCEPT ![a] = clear_the_screen(@)])

-----------------------------------------------------------------------------
(* terminal_read() of terminal t *)

console_read_start(t) ==
  /\ read_start(t)
  /\ spc' = [spc EXCEPT ![t] = "x"]
  /\ UNCHANGED <<place, cursor, races>>

\* set_command_location(get_tty_number())
mark_x(t) ==
  /\ ~ lost
  /\ spc[t] = "x"
  /\ place' = [place EXCEPT ![t] = set_command_x(@)]
  /\ spc' = [spc EXCEPT ![t] = "y"]
  /\ UNCHANGED <<vars, cursor, races>>

mark_y(t) ==
  /\ ~ lost
  /\ spc[t] = "y"
  /\ place' = [place EXCEPT ![t] = set_command_y(@)]
  /\ spc' = [spc EXCEPT ![t] = "no"]
  /\ UNCHANGED <<vars, cursor, races>>

console_read_unlocked(t) ==
  /\ spc[t] = "no"
  /\ read_unlocked(t)
  /\ spc' = [spc EXCEPT ![t] = "column"]
  /\ UNCHANGED <<place, cursor, races>>

\* new_line(), on the terminal that is active at each statement
new_line_column(t) ==
  /\ ~ lost
  /\ spc[t] = "column"
  /\ place' = [place EXCEPT ![a].x = 0]
  /\ spc' = [spc EXCEPT ![t] = "test"]
  /\ UNCHANGED <<vars, cursor>>
  /\ MovesUnder(Tty \ {t})

new_line_test(t) ==
  /\ ~ lost
  /\ spc[t] = "test"
  /\ spc' = [spc EXCEPT ![t] = IF place[a].y < BottomRow THEN "down" ELSE "scroll"]
  /\ UNCHANGED <<vars, place, cursor, races>>

new_line_down(t) ==
  /\ ~ lost
  /\ spc[t] = "down"
  /\ place' = [place EXCEPT ![a].y = @ + 1]
  /\ spc' = [spc EXCEPT ![t] = "no"]
  /\ UNCHANGED <<vars, cursor>>
  /\ MovesUnder(Tty \ {t})

new_line_scroll(t) ==
  /\ ~ lost
  /\ spc[t] = "scroll"
  /\ place' = [place EXCEPT ![a] = scrolling(@)]
  /\ spc' = [spc EXCEPT ![t] = "no"]
  /\ UNCHANGED <<vars, cursor>>
  /\ MovesUnder(Tty \ {t})

console_read_rest(t) ==
  /\ spc[t] = "no"
  /\ \/ read_copy(t)
     \/ read_clear(t)
     \/ read_outside(t)
     \/ read_reset_length(t)
     \/ read_reset_cursor(t)
     \/ read_lock(t)
  /\ UNCHANGED screen

-----------------------------------------------------------------------------
(* A program that is not reading writes, with interrupts off *)

Writes(t, s) ==
  /\ ~ lost
  /\ place' = [place EXCEPT ![t] = s]
  /\ UNCHANGED <<vars, cursor, spc>>
  /\ MovesUnder(Tty)

\* terminal_write(), one character at a time.
terminal_write(t) ==
  /\ pc[t] = "out"
  /\ \E s \in {putc_char(place[t]), putc_newline(place[t])} : Writes(t, s)

\* printf() of the kernel, in halt() and open(): to the active terminal,
\* whoever called.
kernel_printf(t) ==
  /\ pc[t] = "out"
  /\ Writes(a, putc_newline(putc_char(place[a])))

ConsoleNext ==
  \/ key
  \/ \E t \in Readers : console_read_start(t)
  \/ \E t \in Tty : mark_x(t)
  \/ \E t \in Tty : mark_y(t)
  \/ \E t \in Tty : console_read_unlocked(t)
  \/ \E t \in Tty : new_line_column(t)
  \/ \E t \in Tty : new_line_test(t)
  \/ \E t \in Tty : new_line_down(t)
  \/ \E t \in Tty : new_line_scroll(t)
  \/ \E t \in Tty : console_read_rest(t)
  \/ \E t \in Tty : terminal_write(t)
  \/ \E t \in Tty : kernel_printf(t)

ConsoleSpec == ConsoleInit /\ [][ConsoleNext]_<<vars, screen>>

-----------------------------------------------------------------------------
\* Nothing is drawn below the last row, but for one row each time the place
\* moved or the terminal was switched between new_line()'s test of the row and
\* what it does after it.
NothingBelowScreen ==
  \A t \in Tty : place[t].y <= BottomRow + races /\ place[t].cy <= BottomRow + races

\* Where a line starts and how long it is decide where the output goes on:
\* after a redraw the next character goes right behind the line, also when the
\* redraw scrolled and the line's start moved up with the text, so that the
\* next redraw finds it there.
OutputFollowsLine ==
  races = 0 => \A t \in Tty : \A n \in 0 .. 2 * NUM_COLS :
    LET s == printthebuffer(place[t], n)
    IN  s.y * NUM_COLS + s.x = s.cy * NUM_COLS + s.cx + n

\* After a key the hardware cursor stands where the next character will be
\* drawn, if it is at the end of the line, on whichever terminal the key left
\* active.  process_keyboard_input() sets it before the line is redrawn, so a
\* redraw that scrolls is an exception; a line that a reader is taking, that a key
\* has torn while one was taking it, or that has no NUL behind it since a read of no
\* bytes is another.
CursorAtOutput ==
  [][LET b == active_terminal'
     IN  \/ cursor' = (place'[b].y * NUM_COLS + place'[b].x) % 65536
         \/ cursor_x'[b] # command_length'[b]
         \/ command_length'[b] > 0 /\ place'[b].cy # place[b].cy
         \/ \E t \in Tty : InCriticalSection(t)
         \/ races' > 0
         \/ tears' > 0
         \/ lost'
         \/ unread' /\ command_buffer'[At(b, command_length'[b])] # NUL
         \/ ~ key]_<<vars, screen>>
=============================================================================
