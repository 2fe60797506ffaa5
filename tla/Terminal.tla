----------------------------- MODULE Terminal ------------------------------
(***************************************************************************)
(* The terminal driver, student-distrib/keyboard.c: the keyboard interrupt *)
(* that edits the command line of the active terminal, and terminal_read() *)
(* that hands finished lines to programs.                                  *)
(*                                                                         *)
(* The interrupt handler runs with interrupts off: one atomic action per   *)
(* key.  terminal_read() runs inside read(), which turned interrupts on:   *)
(* one action per statement that touches shared state, so that keys,       *)
(* terminal switches and the readers of other terminals come in between.   *)
(* There is one reader per terminal because each terminal has one process  *)
(* that can be scheduled (OneLeafPerTty of Processes).                     *)
(*                                                                         *)
(* Where the driver draws (lib.c) is not part of this module; nothing here *)
(* depends on it.                                                          *)
(***************************************************************************)
EXTENDS Integers

CONSTANTS
  NumTty,                     \* 3 in the code
  TERMINAL_BUFFER_MAX_SIZE,   \* 1024 in the code
  WORD,                       \* 2^32: where uint32_t counters wrap
  Keys,                       \* the keys the user of a run presses
  ReadSizes,                  \* the nbytes that programs on each terminal ask for,
                              \* which nobody checks
  MaxTears                    \* how many disturbed reads a run explores

Tty  == 0 .. NumTty - 1
Char == {"a", "l", "1"}       \* letters shift with caps lock, digits do not
Modifier == {"shift", "ctrl", "alt"}
FunctionKey == {"F1", "F2", "F3"}
Key == Char \cup Modifier \cup FunctionKey
         \cup {"enter", "bksp", "delete", "caps", "left", "right"}

\* (scancode & 7) - 3
TerminalOf(key) == CASE key = "F1" -> 0 [] key = "F2" -> 1 [] key = "F3" -> 2

ASSUME TerminalAssumption ==
  /\ NumTty \in Nat \ {0}
  /\ TERMINAL_BUFFER_MAX_SIZE \in Nat \ {0, 1}
  /\ WORD \in Nat /\ WORD > NumTty * TERMINAL_BUFFER_MAX_SIZE
  /\ Keys \subseteq Key
  /\ \A key \in Keys \cap FunctionKey : TerminalOf(key) \in Tty
  /\ ReadSizes \in [Tty -> SUBSET Int]
  /\ MaxTears \in Nat

Datum == (Char \cup {"nul"}) \X BOOLEAN
NUL == <<"nul", FALSE>>

\* command_buffer[t][i] of the C array of rows, as one block of memory.
Cell == 0 .. NumTty * TERMINAL_BUFFER_MAX_SIZE - 1
At(t, i) == t * TERMINAL_BUFFER_MAX_SIZE + i

VARIABLES
  active_terminal,
  command_buffer, command_length, cursor_x,
  keyboardflag, allow_terminal_read,
  held,          \* the modifier keys that are physically down
  pc,            \* each terminal's reader
  index,         \* its loop counter i
  nbytes,        \* its argument
  buf,           \* the buffer of the program
  tears,         \* history: keys that changed a line in the middle of a read, and
                 \* the first read that went on behind the end of a row
  mixed,         \* history: two readers were taking a line at the same time
  unread,        \* history: a read of no bytes dropped a line and left it in its row
  taken,         \* history: the row as each reader found it
  lost           \* nothing more is modelled: printthebuffer() loops for ever with
                 \* interrupts off, or a reader has left command_buffer

line    == <<command_buffer, command_length, cursor_x>>
reader  == <<pc, index, nbytes, buf>>
history == <<tears, mixed, unread, taken, lost>>
vars    == <<active_terminal, line, keyboardflag, allow_terminal_read, held, reader, history>>

RowIndex == 0 .. TERMINAL_BUFFER_MAX_SIZE - 1
NoBytes == [i \in Cell |-> NUL]
NoRow   == [i \in RowIndex |-> NUL]

Init ==
  /\ active_terminal = 0
  /\ command_buffer = [c \in Cell |-> NUL]
  /\ command_length = [t \in Tty |-> 0]
  /\ cursor_x = [t \in Tty |-> 0]
  /\ keyboardflag = [t \in Tty |-> {}]
  /\ allow_terminal_read = [t \in Tty |-> 0]
  /\ held = {}
  /\ pc = [t \in Tty |-> "out"]
  /\ index = [t \in Tty |-> 0]
  /\ nbytes = [t \in Tty |-> 0]
  /\ buf = [t \in Tty |-> NoBytes]
  /\ tears = 0
  /\ mixed = FALSE
  /\ unread = FALSE
  /\ taken = [t \in Tty |-> NoRow]
  /\ lost = FALSE

-----------------------------------------------------------------------------
(* keyboard_interruption() *)

\* A reader has started to take the line and has not yet reset its cursor.
InCriticalSection(t) ==
  \/ pc[t] \in {"clear", "length", "cursor"}
  \/ pc[t] = "copy" /\ index[t] > 0

\* What surrounds process_keyboard_input().  printthebuffer() loops while
\* i <= command_length: when the length has wrapped to 2^32 - 1 it never returns
\* (it runs on, or faults into an exception handler that loops).
keyboard_interruption(process_keyboard_input) ==
  /\ ~ lost
  /\ process_keyboard_input
  /\ lost' = (command_length'[active_terminal'] = WORD - 1)
  /\ tears' = IF /\ \E t \in Tty : InCriticalSection(t)
                 /\ <<active_terminal, line>>' # <<active_terminal, line>>
              THEN tears + 1 ELSE tears
  /\ tears' <= MaxTears
  /\ UNCHANGED <<reader, mixed, unread, taken>>

a == active_terminal
Flag(f) == f \in keyboardflag[a]
UnchangedByEdit == UNCHANGED <<active_terminal, keyboardflag, allow_terminal_read, held>>

\* kbd_chars[flags][scancode]: shift and caps lock cancel out for letters.
kbd_chars(key) ==
  <<key, IF key = "1" THEN Flag("shift") ELSE Flag("shift") # Flag("caps")>>

ShiftRightOneShort(i, datum) ==
  [c \in Cell |-> IF c = At(a, i) THEN datum
                  ELSE IF c > At(a, i) /\ c < At(a, command_length[a])
                       THEN command_buffer[c - 1] ELSE command_buffer[c]]

\* Cells i .. command_length move up by one, the terminating NUL included.
ShiftRight(i, datum) ==
  [c \in Cell |-> IF c = At(a, i) THEN datum
                  ELSE IF c > At(a, i) /\ c <= At(a, command_length[a] + 1)
                       THEN command_buffer[c - 1] ELSE command_buffer[c]]

place_character_at_index(key) ==
  /\ command_buffer' = ShiftRight(cursor_x[a], kbd_chars(key))
  /\ command_length' = [command_length EXCEPT ![a] = (@ + 1) % WORD]
  /\ cursor_x' = [cursor_x EXCEPT ![a] = (@ + 1) % WORD]

FullLineOffByOne == (command_length[a] + 1) % WORD <= TERMINAL_BUFFER_MAX_SIZE

RoomForCharacter == (command_length[a] + 1) % WORD < TERMINAL_BUFFER_MAX_SIZE

character_key ==
  \E key \in Char \cap Keys :
    /\ ~ Flag("ctrl")
    /\ RoomForCharacter
    /\ place_character_at_index(key)
    /\ UnchangedByEdit

enter_key ==
  /\ "enter" \in Keys
  /\ allow_terminal_read' = [allow_terminal_read EXCEPT ![a] = 1]
  /\ UNCHANGED <<active_terminal, line, keyboardflag, held>>

\* Cells from .. command_length - 1 take the value of their right neighbour.
ShiftLeft(from) ==
  [c \in Cell |-> IF c >= At(a, from) /\ c < At(a, command_length[a])
                  THEN command_buffer[c + 1] ELSE command_buffer[c]]

backspace_key ==
  /\ "bksp" \in Keys
  /\ cursor_x[a] > 0
  /\ command_buffer' = ShiftLeft(cursor_x[a] - 1)
  /\ command_length' = [command_length EXCEPT ![a] = (@ - 1) % WORD]
  /\ cursor_x' = [cursor_x EXCEPT ![a] = (@ - 1) % WORD]
  /\ UnchangedByEdit

delete_key ==
  /\ "delete" \in Keys
  /\ cursor_x[a] < command_length[a]
  /\ command_buffer' = ShiftLeft(cursor_x[a])
  /\ command_length' = [command_length EXCEPT ![a] = (@ - 1) % WORD]
  /\ UNCHANGED cursor_x
  /\ UnchangedByEdit

left_arrow ==
  /\ "left" \in Keys
  /\ cursor_x[a] > 0
  /\ cursor_x' = [cursor_x EXCEPT ![a] = @ - 1]
  /\ UNCHANGED <<command_buffer, command_length>>
  /\ UnchangedByEdit

right_arrow ==
  /\ "right" \in Keys
  /\ cursor_x[a] < command_length[a]
  /\ cursor_x' = [cursor_x EXCEPT ![a] = @ + 1]
  /\ UNCHANGED <<command_buffer, command_length>>
  /\ UnchangedByEdit

\* Ctrl+L drops the line, opens the read lock and forgets that Ctrl is down.
clear_key ==
  /\ "l" \in Keys
  /\ Flag("ctrl")
  /\ command_buffer' = [c \in Cell |-> IF c >= At(a, 0) /\ c < At(a, command_length[a])
                                       THEN NUL ELSE command_buffer[c]]
  /\ command_length' = [command_length EXCEPT ![a] = 0]
  /\ cursor_x' = [cursor_x EXCEPT ![a] = 0]
  /\ allow_terminal_read' = [allow_terminal_read EXCEPT ![a] = 1]
  /\ keyboardflag' = [keyboardflag EXCEPT ![a] = @ \ {"ctrl"}]
  /\ UNCHANGED <<active_terminal, held>>

caps_key ==
  /\ "caps" \in Keys
  /\ keyboardflag' = [keyboardflag EXCEPT ![a] = IF "caps" \in @ THEN @ \ {"caps"}
                                                 ELSE @ \cup {"caps"}]
  /\ UNCHANGED <<active_terminal, line, allow_terminal_read, held>>

\* Make and break codes set and clear the flag of the terminal active then.
modifier_down ==
  \E m \in Modifier \cap Keys :
    /\ keyboardflag' = [keyboardflag EXCEPT ![a] = @ \cup {m}]
    /\ held' = held \cup {m}
    /\ UNCHANGED <<active_terminal, line, allow_terminal_read>>

ReleaseForgotten(m) == keyboardflag

FlagsWithout(m) == [keyboardflag EXCEPT ![a] = @ \ {m}]

modifier_up ==
  \E m \in held :
    /\ keyboardflag' = FlagsWithout(m)
    /\ held' = held \ {m}
    /\ UNCHANGED <<active_terminal, line, allow_terminal_read>>

function_key ==
  \E key \in FunctionKey \cap Keys :
    /\ Flag("alt")
    /\ active_terminal' = TerminalOf(key)
    /\ UNCHANGED <<line, keyboardflag, allow_terminal_read, held>>

-----------------------------------------------------------------------------
(* terminal_read(), by the process on terminal t *)

\* set_command_location() and the start of the spin loop.
read_start(t) ==
  /\ ~ lost
  /\ pc[t] = "out"
  /\ \E n \in ReadSizes[t] : nbytes' = [nbytes EXCEPT ![t] = n]
  /\ pc' = [pc EXCEPT ![t] = "spin"]
  /\ UNCHANGED <<active_terminal, line, keyboardflag, allow_terminal_read, held,
                 index, buf, history>>

UnlockedWithText(t) == allow_terminal_read[t] = 1 /\ command_length[a] > 0

Unlocked(t) == allow_terminal_read[t] = 1

\* Another reader is taking a line.
Another(t) == \E u \in Tty \ {t} : InCriticalSection(u)

\* The spin loop finds allow_terminal_read[get_tty_number()] set.  A loop over no
\* bytes, or over a negative number of them, is skipped.
read_unlocked(t) ==
  /\ ~ lost
  /\ pc[t] = "spin"
  /\ Unlocked(t)
  /\ index' = [index EXCEPT ![t] = 0]
  /\ pc' = [pc EXCEPT ![t] = IF nbytes[t] > 0 THEN "copy" ELSE "length"]
  /\ mixed' = (mixed \/ (nbytes[t] <= 0 /\ Another(t)))
  /\ UNCHANGED <<active_terminal, line, keyboardflag, allow_terminal_read, held,
                 nbytes, buf, tears, unread, taken, lost>>

\* Rows are adjacent: behind the end of one comes the next, and behind the last
\* one whatever the linker put there.
InBuffer(t) == At(a, index[t]) \in Cell

\* buf[i] = command_buffer[active_terminal][i]
read_copy(t) ==
  /\ ~ lost
  /\ pc[t] = "copy"
  /\ InBuffer(t)
  /\ buf' = [buf EXCEPT ![t][index[t]] = command_buffer[At(a, index[t])]]
  /\ pc' = [pc EXCEPT ![t] = "clear"]
  /\ mixed' = (mixed \/ Another(t))
  /\ tears' = IF index[t] \in RowIndex \/ tears > 0 THEN tears ELSE 1
  /\ taken' = IF index[t] > 0 THEN taken
              ELSE [taken EXCEPT ![t] = [i \in RowIndex |-> command_buffer[At(a, i)]]]
  /\ UNCHANGED <<active_terminal, line, keyboardflag, allow_terminal_read, held,
                 index, nbytes, unread, lost>>

KeepCell(t) == UNCHANGED command_buffer

ClearOwnCell(t) == command_buffer' = [command_buffer EXCEPT ![At(t, index[t])] = NUL]

ClearCell(t) == command_buffer' = [command_buffer EXCEPT ![At(a, index[t])] = NUL]

\* command_buffer[active_terminal][i] = NULL, then the loop test.
read_clear(t) ==
  /\ ~ lost
  /\ pc[t] = "clear"
  /\ InBuffer(t)
  /\ ClearCell(t)
  /\ index' = [index EXCEPT ![t] = @ + 1]
  /\ pc' = [pc EXCEPT ![t] = IF index[t] + 1 < nbytes[t] THEN "copy" ELSE "length"]
  /\ UNCHANGED <<active_terminal, command_length, cursor_x, keyboardflag,
                 allow_terminal_read, held, nbytes, buf, history>>

\* The loop goes on behind the last row.
read_outside(t) ==
  /\ ~ lost
  /\ pc[t] \in {"copy", "clear"}
  /\ ~ InBuffer(t)
  /\ lost' = TRUE
  /\ UNCHANGED <<active_terminal, line, keyboardflag, allow_terminal_read, held, reader,
                 tears, mixed, unread, taken>>

read_reset_length(t) ==
  /\ ~ lost
  /\ pc[t] = "length"
  /\ command_length' = [command_length EXCEPT ![a] = 0]
  /\ pc' = [pc EXCEPT ![t] = "cursor"]
  /\ unread' = (unread \/ nbytes[t] <= 0)
  /\ UNCHANGED <<active_terminal, command_buffer, cursor_x, keyboardflag,
                 allow_terminal_read, held, index, nbytes, buf, tears, mixed, taken, lost>>

read_reset_cursor(t) ==
  /\ ~ lost
  /\ pc[t] = "cursor"
  /\ cursor_x' = [cursor_x EXCEPT ![a] = 0]
  /\ pc' = [pc EXCEPT ![t] = "lock"]
  /\ UNCHANGED <<active_terminal, command_buffer, command_length, keyboardflag,
                 allow_terminal_read, held, index, nbytes, buf, history>>

\* allow_terminal_read[active_terminal] = 0 and return; the program takes buf.
read_lock(t) ==
  /\ ~ lost
  /\ pc[t] = "lock"
  /\ allow_terminal_read' = [allow_terminal_read EXCEPT ![a] = 0]
  /\ pc' = [pc EXCEPT ![t] = "out"]
  /\ index' = [index EXCEPT ![t] = 0]
  /\ nbytes' = [nbytes EXCEPT ![t] = 0]
  /\ buf' = [buf EXCEPT ![t] = NoBytes]
  /\ taken' = [taken EXCEPT ![t] = NoRow]
  /\ UNCHANGED <<active_terminal, line, keyboardflag, held, tears, mixed, unread, lost>>

-----------------------------------------------------------------------------
EditingKey ==
  \/ keyboard_interruption(character_key)
  \/ keyboard_interruption(enter_key)
  \/ keyboard_interruption(backspace_key)
  \/ keyboard_interruption(delete_key)
  \/ keyboard_interruption(left_arrow)
  \/ keyboard_interruption(right_arrow)
  \/ keyboard_interruption(caps_key)
  \/ keyboard_interruption(modifier_down)
  \/ keyboard_interruption(modifier_up)
  \/ keyboard_interruption(function_key)

terminal_read(t) ==
  \/ read_unlocked(t)
  \/ read_copy(t)
  \/ read_clear(t)
  \/ read_outside(t)
  \/ read_reset_length(t)
  \/ read_reset_cursor(t)
  \/ read_lock(t)

Next ==
  \/ EditingKey
  \/ keyboard_interruption(clear_key)
  \/ \E t \in Tty : read_start(t) \/ terminal_read(t)

Spec == Init /\ [][Next]_vars

\* The scheduler gives every terminal's process the CPU again and again
\* (EveryTtyRuns of Processes); nobody has to press a key or call read().
FairSpec == Spec /\ \A t \in Tty : WF_vars(terminal_read(t))

-----------------------------------------------------------------------------
(* Safety *)

\* A reader is working on the line of terminal t: readers always work on the
\* terminal that is active at that moment.
BeingRead(t) == t = active_terminal /\ \E u \in Tty : InCriticalSection(u)
BeingReset(t) == t = active_terminal /\ \E u \in Tty : pc[u] = "cursor"

\* As long as no key lands between the first character a terminal_read() takes
\* and its reset of cursor_x, and no program asks for more than a row, every
\* command line stays well formed under any interleaving of keys, switches and
\* readers: it fits its row, the cursor is inside it, exactly its first
\* command_length cells hold characters and a NUL follows them, which is what
\* printthebuffer() and the programs rely on.  A read of no bytes resets the
\* length and clears nothing: from then on there may be no such NUL.
LinesWellFormed ==
  tears = 0 => \A t \in Tty :
    /\ command_length[t] < TERMINAL_BUFFER_MAX_SIZE
    /\ BeingReset(t) \/ cursor_x[t] <= command_length[t]
    /\ unread \/ command_buffer[At(t, command_length[t])] = NUL
    /\ \/ BeingRead(t)
       \/ \A i \in 0 .. command_length[t] - 1 : command_buffer[At(t, i)] # NUL

\* Under the same condition, and when no other terminal's reader takes the line
\* at the same time, the program gets the bytes it asked for as they were in the
\* line when the first of them was taken, all of them characters up to the end
\* of the line and a NUL right after it.
WholeLineRead ==
  tears = 0 /\ ~ mixed => \A t \in Tty : pc[t] = "length" =>
    \A i \in 0 .. nbytes[t] - 1 :
      /\ buf[t][i] = taken[t][i]
      /\ i < command_length[a] => buf[t][i] # NUL
      /\ i = command_length[a] => unread \/ buf[t][i] = NUL

\* A function key alone never switches terminals: the Alt flag the driver
\* consults is set only while Alt is down, although every switch leaves the
\* flag of the terminal it came from set.
NoPhantomAlt == "alt" \in keyboardflag[active_terminal] => "alt" \in held

\* No key and no reader changes the line of a terminal that is not active, until
\* a read goes on behind a row or a key tears one: rows are adjacent in memory, so
\* this needs every other index to stay in its row.
OnlyActiveLineChanges ==
  [][tears' = 0 => \A t \in Tty \ {active_terminal} :
       /\ command_length'[t] = command_length[t]
       /\ cursor_x'[t] = cursor_x[t]
       /\ \A i \in RowIndex : command_buffer'[At(t, i)] = command_buffer[At(t, i)]]_vars

\* With a single terminal, a reader whose line was finished returns, however
\* many keys keep coming and whatever its size, unless the driver hangs after a
\* torn read or the read leaves command_buffer.
ReadCompletes ==
  \A t \in Tty : pc[t] = "spin" /\ allow_terminal_read[t] = 1 ~> pc[t] = "out" \/ lost

-----------------------------------------------------------------------------
(* Statements of the code's comments that the code does not keep *)

\* keyboard.c, terminal_read(): "We can only get here if we are the active
\* terminal and the user presses ENTER."
ReaderIsActive ==
  [][\A t \in Tty : pc[t] = "spin" /\ pc'[t] = "copy" => t = active_terminal]_vars

\* keyboard.c, command_length: "Length of the current command (buffer)."  A key
\* between the two resets at the end of terminal_read() makes it wrap.
LengthFitsBuffer == \A t \in Tty : command_length[t] < TERMINAL_BUFFER_MAX_SIZE
=============================================================================
