--------------------------- MODULE ConsoleProofs ----------------------------
(***************************************************************************)
(* Proofs about the terminal driver on its screen, for any size of the     *)
(* screen, any number of terminals and readers and any keys.               *)
(***************************************************************************)
EXTENDS Console, TerminalProofs, WellFoundedInduction, FiniteSetTheorems

\* Every leaf is tried with the SMT solver, then with Zenon, then with more time.
USE SMTT(10), ZenonT(20), SMTT(60)

-----------------------------------------------------------------------------
(* The console is the terminal driver *)

\* The counters stay words, and a length that has wrapped hangs the driver at
\* once, also after disturbed reads.
Words ==
  /\ command_length \in [Tty -> 0 .. WORD - 1]
  /\ cursor_x \in [Tty -> Nat]
  /\ lost \in BOOLEAN
  /\ ~ lost => \A t \in Tty : command_length[t] # WORD - 1

\* Counters modulo WORD.
LEMMA WordMod == \A x \in Int : x % WORD \in 0 .. WORD - 1
BY Sizes

\* The driver starts with empty lines.
LEMMA InitWords == Init => Words
<1> SUFFICES ASSUME Init PROVE Words
  OBVIOUS
<1>1. /\ command_length = [t \in Tty |-> 0] /\ cursor_x = [t \in Tty |-> 0] /\ lost = FALSE
  BY DEF Init
<1>2. 0 \in 0 .. WORD - 1 /\ 0 # WORD - 1
  BY Sizes
<1> QED
  BY <1>1, <1>2 DEF Words

\* A key changes the length of the active line only, and by a wrapping step.
LEMMA KeyWords ==
  ASSUME IInv, Words, keyboard_interruption(AnyKey)
  PROVE  Words'
<1>1. /\ ~ lost /\ AnyKey /\ lost' = (command_length'[active_terminal'] = WORD - 1)
  BY DEF keyboard_interruption
<1>2. /\ active_terminal \in Tty /\ lost' \in BOOLEAN
      /\ command_length \in [Tty -> 0 .. WORD - 1] /\ cursor_x \in [Tty -> Nat]
      /\ \A t \in Tty : command_length[t] # WORD - 1
  BY <1>1 DEF IInv, TypeOK, Words
<1>3. CASE character_key \/ backspace_key
  <2>1. /\ UNCHANGED active_terminal
        /\ \E n \in Int : command_length' = [command_length EXCEPT ![active_terminal] = n % WORD]
        /\ \E n \in Int : cursor_x' = [cursor_x EXCEPT ![active_terminal] = n % WORD]
    <3>1. command_length[active_terminal] \in Int /\ cursor_x[active_terminal] \in Int
      BY <1>2
    <3> QED
      BY <1>3, <3>1 DEF character_key, backspace_key, place_character_at_index, UnchangedByEdit, a
  <2>2. PICK n \in Int : command_length' = [command_length EXCEPT ![active_terminal] = n % WORD]
    BY <2>1
  <2>3. PICK m \in Int : cursor_x' = [cursor_x EXCEPT ![active_terminal] = m % WORD]
    BY <2>1
  <2>4. n % WORD \in 0 .. WORD - 1 /\ m % WORD \in Nat
    BY WordMod
  <2> QED
    BY <1>1, <1>2, <2>1, <2>2, <2>3, <2>4 DEF Words
<1>4. CASE delete_key
  <2>1. (command_length[active_terminal] - 1) % WORD \in 0 .. WORD - 1
    BY <1>2, WordMod
  <2> QED
    BY <1>1, <1>2, <1>4, <2>1 DEF delete_key, UnchangedByEdit, Words, a
<1>5. CASE left_arrow \/ right_arrow
  BY <1>1, <1>2, <1>5 DEF left_arrow, right_arrow, UnchangedByEdit, Words, a
<1>6. CASE clear_key
  BY <1>1, <1>2, <1>6, Sizes DEF clear_key, Words, a
<1>7. CASE UNCHANGED <<command_length, cursor_x>>
  BY <1>1, <1>2, <1>7 DEF Words
<1> QED
  BY <1>1, <1>3, <1>4, <1>5, <1>6, <1>7, WhatKeysChange

\* Every step of the driver keeps the counters words; readers only reset them.
LEMMA NextWords ==
  ASSUME IInv, Words, [Next]_vars
  PROVE  Words'
<1>1. CASE UNCHANGED <<command_length, cursor_x, lost>>
  BY <1>1 DEF Words
<1>2. CASE keyboard_interruption(AnyKey)
  BY <1>2, KeyWords
<1>3. ASSUME NEW t \in Tty, read_reset_length(t) \/ read_reset_cursor(t)
      PROVE  Words'
  BY <1>3, Sizes DEF read_reset_length, read_reset_cursor, history, Words, a
<1>4. ASSUME NEW t \in Tty,
             read_start(t) \/ read_unlocked(t) \/ read_copy(t) \/ read_clear(t) \/ read_lock(t)
      PROVE  UNCHANGED <<command_length, cursor_x, lost>>
  BY <1>4 DEF read_start, read_unlocked, read_copy, read_clear, read_lock, history, line
<1>o. ASSUME NEW t \in Tty, read_outside(t) PROVE Words'
  BY <1>o DEF read_outside, line, Words
<1>5. CASE UNCHANGED vars
  BY <1>1, <1>5 DEF vars, line, history
<1> QED
  BY <1>1, <1>2, <1>3, <1>4, <1>o, <1>5, Steps

\* Each step of the console is a step of the terminal driver, or changes only
\* the screen: the drawing between the statements of terminal_read() and the
\* codes that the driver ignores included.
LEMMA ConsoleSteps ==
  ASSUME IInv, Words, [ConsoleNext]_<<vars, screen>>
  PROVE  [Next]_vars
<1>1. CASE UNCHANGED <<vars, screen>>
  BY <1>1
<1>2. CASE key
  <2>1. CASE EditingKey \/ keyboard_interruption(clear_key)
    BY <2>1 DEF Next
  <2>2. CASE keyboard_interruption(ignored_code)
    <3>1. /\ UNCHANGED <<active_terminal, line, keyboardflag, allow_terminal_read, held>>
          /\ UNCHANGED <<reader, mixed, unread, taken>>
          /\ ~ lost
          /\ lost' = (command_length'[active_terminal'] = WORD - 1)
          /\ tears' = IF /\ \E t \in Tty : InCriticalSection(t)
                         /\ <<active_terminal, line>>' # <<active_terminal, line>>
                      THEN tears + 1 ELSE tears
      BY <2>2 DEF keyboard_interruption, ignored_code
    <3>2. UNCHANGED tears
      BY <3>1
    <3>3. UNCHANGED lost
      BY <3>1 DEF Words, IInv, TypeOK, line
    <3> QED
      BY <3>1, <3>2, <3>3 DEF vars, history
  <2> QED
    BY <1>2, <2>1, <2>2 DEF key
<1>3. ASSUME NEW t \in Tty,
             \/ console_read_start(t) \/ console_read_unlocked(t) \/ console_read_rest(t)
      PROVE  Next
  BY <1>3 DEF console_read_start, console_read_unlocked, console_read_rest, Next, terminal_read
<1>4. ASSUME NEW t \in Tty,
             \/ mark_x(t) \/ mark_y(t) \/ new_line_column(t) \/ new_line_test(t)
             \/ new_line_down(t) \/ new_line_scroll(t) \/ terminal_write(t) \/ kernel_printf(t)
      PROVE  UNCHANGED vars
  BY <1>4 DEF mark_x, mark_y, new_line_column, new_line_test, new_line_down, new_line_scroll,
              terminal_write, kernel_printf, Writes
<1> QED
  BY <1>1, <1>2, <1>3, <1>4, ConsoleAssumption DEF ConsoleNext

\* What is proved about the terminal driver holds with its drawing.
LEMMA ConsoleKeepsIInv == ConsoleSpec => [](IInv /\ Words)
<1>1. ConsoleInit => IInv /\ Words
  BY InitIInv, InitWords DEF ConsoleInit
<1>2. IInv /\ Words /\ [ConsoleNext]_<<vars, screen>> => IInv' /\ Words'
  BY ConsoleSteps, NextIInv, NextWords
<1> QED
  BY <1>1, <1>2, PTL DEF ConsoleSpec

\* The console is the terminal driver: with its drawing, every behaviour of
\* keyboard.c is one of Terminal, so that each property of the lines holds here.
THEOREM ConsoleRefinesTerminal == ConsoleSpec => Spec
<1>1. ConsoleInit => Init
  BY DEF ConsoleInit
<1>2. IInv /\ Words /\ [ConsoleNext]_<<vars, screen>> => [Next]_vars
  BY ConsoleSteps
<1> QED
  BY <1>1, <1>2, ConsoleKeepsIInv, PTL DEF ConsoleSpec, Spec

-----------------------------------------------------------------------------
(* printthebuffer() *)

\* A set of natural numbers that is not empty has a least element: induction over
\* the characters of a line, for the predicates below.
LEMMA LeastNumber ==
  ASSUME NEW T \in SUBSET Nat, T # {}
  PROVE  \E x \in T : \A y \in T : x <= y
<1> DEFINE R == OpToRel(<, Nat)
<1>1. \E x \in T : \A y \in T : ~ (<<y, x>> \in R)
  <2>1. IsWellFoundedOn(R, Nat)
    BY NatLessThanWellFounded
  <2> HIDE DEF R
  <2> QED
    BY <2>1, WFMin
<1>2. \A x, y \in T : y < x => <<y, x>> \in R
  BY DEF OpToRel
<1> HIDE DEF R
<1>3. PICK x \in T : \A y \in T : ~ (<<y, x>> \in R)
  BY <1>1
<1>4. \A y \in T : ~ (y < x)
  BY <1>2, <1>3
<1> QED
  BY <1>3, <1>4

\* The positions printthebuffer() goes through: g[i] after i characters.
Drawn(s, n, g) ==
  g = [i \in 0 .. n |-> IF i = 0 THEN carriage_return(s) ELSE putc_char(g[i - 1])]

\* They exist for a line of any length.
LEMMA DrawnExists == \A s : \A n \in Nat : \E g : Drawn(s, n, g)
<1> SUFFICES ASSUME NEW s, NEW b \in Nat, ~ \E g : Drawn(s, b, g) PROVE FALSE
  OBVIOUS
<1> DEFINE T == {n \in Nat : ~ \E g : Drawn(s, n, g)}
<1>1. PICK m \in T : \A n \in T : m <= n
  <2>1. T \in SUBSET Nat /\ T # {}
    OBVIOUS
  <2> HIDE DEF T
  <2> QED
    BY <2>1, LeastNumber
<1>2. CASE m = 0
  <2>1. Drawn(s, 0, [i \in 0 .. 0 |-> carriage_return(s)])
    BY DEF Drawn
  <2> QED
    BY <1>2, <2>1
<1>3. CASE m > 0
  <2>1. m - 1 \in Nat /\ m - 1 \notin T
    BY <1>1, <1>3
  <2>2. PICK g : Drawn(s, m - 1, g)
    BY <2>1
  <2> DEFINE h == [i \in 0 .. m |-> IF i = m THEN putc_char(g[m - 1]) ELSE g[i]]
  <2>3. \A i \in 0 .. m - 1 : g[i] = IF i = 0 THEN carriage_return(s) ELSE putc_char(g[i - 1])
    BY <2>1, <2>2 DEF Drawn
  <2>4. \A i \in 0 .. m : h[i] = IF i = 0 THEN carriage_return(s) ELSE putc_char(h[i - 1])
    BY <1>3, <2>1, <2>3
  <2>5. Drawn(s, m, h)
    BY <2>4 DEF Drawn
  <2> QED
    BY <2>5
<1> QED
  BY <1>2, <1>3

\* The recursive function of printthebuffer() goes through such positions.
LEMMA printthebufferDraws ==
  ASSUME NEW s, NEW n \in Nat
  PROVE  \E g : Drawn(s, n, g) /\ printthebuffer(s, n) = g[n]
<1>1. printthebuffer(s, n) = (CHOOSE g : Drawn(s, n, g))[n]
  BY Zenon DEF printthebuffer, Drawn
<1> QED
  BY <1>1, DrawnExists

\* How far the output is behind the start of the command.
Distance(s) == (s.y - s.cy) * NUM_COLS + (s.x - s.cx)

\* One character stays on the screen, or no further below it than it was; a place
\* on the screen keeps its distance from the start of the command, plus one.
LEMMA OneCharacter ==
  ASSUME NEW s \in Place, NEW bottom \in Int, BottomRow <= bottom, s.y <= bottom, s.cy <= bottom
  PROVE  /\ putc_char(s) \in Place
         /\ putc_char(s).y <= bottom /\ putc_char(s).cy <= bottom
         /\ putc_char(s).cx = s.cx
         /\ s.y <= BottomRow => /\ putc_char(s).y <= BottomRow
                                /\ Distance(putc_char(s)) = Distance(s) + 1
<1> USE ScreenAssumption DEF Column, BottomRow
<1>1. s = [x |-> s.x, y |-> s.y, cx |-> s.cx, cy |-> s.cy]
      /\ s.x \in Column /\ s.cx \in Column /\ s.y \in Int /\ s.cy \in Int
  BY DEF Place
<1>2. CASE s.x + 1 <= NUM_COLS - 1
  <2>1. putc_char(s) = [x |-> s.x + 1, y |-> s.y, cx |-> s.cx, cy |-> s.cy]
    BY <1>1, <1>2 DEF putc_char
  <2>2. s.x + 1 \in Column
    BY <1>1, <1>2
  <2>3. Distance(putc_char(s)) = Distance(s) + 1
    BY <1>1, <2>1 DEF Distance
  <2> QED
    BY <1>1, <2>1, <2>2, <2>3 DEF Place
<1>3. CASE s.x + 1 > NUM_COLS - 1 /\ s.y < BottomRow
  <2>1. putc_char(s) = [x |-> 0, y |-> s.y + 1, cx |-> s.cx, cy |-> s.cy]
    BY <1>1, <1>3 DEF putc_char, next_row
  <2>2. Distance(putc_char(s)) = Distance(s) + 1
    BY <1>1, <1>3, <2>1 DEF Distance
  <2> QED
    BY <1>1, <1>3, <2>1, <2>2 DEF Place
<1>4. CASE s.x + 1 > NUM_COLS - 1 /\ s.y = BottomRow
  <2> DEFINE r == [x |-> 0, y |-> s.y, cx |-> s.cx, cy |-> s.cy]
  <2>0. putc_char(s) = scrolling(r)
    BY <1>1, <1>4 DEF putc_char, next_row
  <2>1. putc_char(s) = [x |-> 0, y |-> s.y, cx |-> s.cx, cy |-> s.cy - 1]
    BY <1>4, <2>0 DEF scrolling
  <2>2. Distance(putc_char(s)) = Distance(s) + 1
    BY <1>1, <1>4, <2>1 DEF Distance
  <2> QED
    BY <1>1, <1>4, <2>1, <2>2 DEF Place
<1>5. CASE s.x + 1 > NUM_COLS - 1 /\ s.y > BottomRow
  <2>1. putc_char(s) = [x |-> 0, y |-> s.y, cx |-> s.cx, cy |-> s.cy]
    BY <1>1, <1>5 DEF putc_char, next_row, scrolling
  <2> QED
    BY <1>1, <1>5, <2>1 DEF Place
<1> QED
  BY <1>1, <1>2, <1>3, <1>4, <1>5

\* So does a whole line, from its start: its end is n characters behind it.
LEMMA WholeLine ==
  ASSUME NEW s \in Place, NEW bottom \in Int, BottomRow <= bottom, s.cy <= bottom, NEW n \in Nat
  PROVE  /\ printthebuffer(s, n) \in Place
         /\ printthebuffer(s, n).y <= bottom /\ printthebuffer(s, n).cy <= bottom
         /\ printthebuffer(s, n).cx = s.cx
         /\ s.cy <= BottomRow => Distance(printthebuffer(s, n)) = n
         /\ n = 0 => printthebuffer(s, n).cy = s.cy
<1>1. PICK g : Drawn(s, n, g) /\ printthebuffer(s, n) = g[n]
  BY printthebufferDraws
<1> DEFINE Good(i) == /\ g[i] \in Place
                      /\ g[i].y <= bottom /\ g[i].cy <= bottom /\ g[i].cx = s.cx
                      /\ s.cy <= BottomRow => g[i].y <= BottomRow /\ Distance(g[i]) = i
<1> DEFINE T == {i \in 0 .. n : ~ Good(i)}
<1>2. \A i \in 0 .. n : g[i] = IF i = 0 THEN carriage_return(s) ELSE putc_char(g[i - 1])
  BY <1>1 DEF Drawn
<1>3. g[0] = [x |-> s.cx, y |-> s.cy, cx |-> s.cx, cy |-> s.cy]
  <2>1. g[0] = carriage_return(s)
    BY <1>2
  <2> QED
    BY <2>1 DEF carriage_return, Place
<1>4. Good(0)
  <2>1. s.cx \in Column /\ s.cy \in Int
    BY DEF Place
  <2>2. Distance(g[0]) = 0
    BY <1>3, <2>1, ScreenAssumption DEF Distance, Column
  <2> QED
    BY <1>3, <2>1, <2>2 DEF Place
<1>5. ASSUME NEW i \in 0 .. n, i > 0, Good(i - 1) PROVE Good(i)
  <2>1. g[i] = putc_char(g[i - 1])
    BY <1>2, <1>5
  <2>2. /\ g[i - 1] \in Place /\ g[i - 1].y <= bottom /\ g[i - 1].cy <= bottom
        /\ g[i - 1].cx = s.cx
        /\ s.cy <= BottomRow => g[i - 1].y <= BottomRow /\ Distance(g[i - 1]) = i - 1
    BY <1>5
  <2> HIDE DEF Good
  <2>3. /\ g[i] \in Place /\ g[i].y <= bottom /\ g[i].cy <= bottom /\ g[i].cx = s.cx
        /\ g[i - 1].y <= BottomRow =>
             g[i].y <= BottomRow /\ Distance(g[i]) = Distance(g[i - 1]) + 1
    BY <2>1, <2>2, OneCharacter
  <2> QED
    BY <2>2, <2>3 DEF Good
<1>6. Good(n)
  <2> SUFFICES ASSUME ~ Good(n) PROVE FALSE
    OBVIOUS
  <2>1. T \in SUBSET Nat /\ n \in T
    OBVIOUS
  <2>2. PICK m \in T : \A i \in T : m <= i
    <3> HIDE DEF T
    <3> QED
      BY <2>1, LeastNumber
  <2>3. m \in 0 .. n /\ ~ Good(m)
    OBVIOUS
  <2> HIDE DEF Good
  <2>4. m # 0
    BY <1>4, <2>3
  <2>5. m - 1 \in 0 .. n /\ Good(m - 1)
    BY <2>2, <2>3, <2>4
  <2> QED
    BY <1>5, <2>3, <2>4, <2>5
<1>7. n = 0 => printthebuffer(s, n).cy = s.cy
  BY <1>1, <1>3
<1> QED
  BY <1>1, <1>6, <1>7

\* scrolling() and '\n' go no further below the screen either.
LEMMA NewLine ==
  ASSUME NEW s \in Place, NEW bottom \in Int, BottomRow <= bottom, s.y <= bottom, s.cy <= bottom
  PROVE  /\ scrolling(s) \in Place /\ scrolling(s).y = s.y /\ scrolling(s).cy <= bottom
         /\ putc_newline(s) \in Place
         /\ putc_newline(s).y <= bottom /\ putc_newline(s).cy <= bottom
<1> USE ScreenAssumption DEF Column, BottomRow
<1>1. s = [x |-> s.x, y |-> s.y, cx |-> s.cx, cy |-> s.cy]
      /\ s.x \in Column /\ s.cx \in Column /\ s.y \in Int /\ s.cy \in Int
  BY DEF Place
<1>2. \/ scrolling(s) = s
      \/ scrolling(s) = [x |-> s.x, y |-> s.y, cx |-> s.cx, cy |-> s.cy - 1]
  BY <1>1 DEF scrolling
<1>3. /\ scrolling(s) \in Place /\ scrolling(s).y = s.y /\ scrolling(s).cy <= bottom
  BY <1>1, <1>2 DEF Place
<1>4. CASE s.y < BottomRow
  <2> DEFINE r == [x |-> s.x, y |-> s.y + 1, cx |-> s.cx, cy |-> s.cy]
  <2>0. next_row(s) = r
    BY <1>1, <1>4 DEF next_row
  <2>1. putc_newline(s) = [x |-> 0, y |-> s.y + 1, cx |-> s.cx, cy |-> s.cy]
    BY <2>0 DEF putc_newline
  <2> QED
    BY <1>1, <1>3, <1>4, <2>1 DEF Place
<1>5. CASE ~ (s.y < BottomRow)
  <2>1. next_row(s) = scrolling(s)
    BY <1>5 DEF next_row
  <2>2. PICK c \in Int : c <= bottom /\ next_row(s) = [x |-> s.x, y |-> s.y, cx |-> s.cx, cy |-> c]
    BY <1>1, <1>2, <2>1
  <2>3. putc_newline(s) = [x |-> 0, y |-> s.y, cx |-> s.cx, cy |-> c]
    BY <2>2 DEF putc_newline
  <2> QED
    BY <1>1, <1>3, <2>2, <2>3 DEF Place
<1> QED
  BY <1>4, <1>5

-----------------------------------------------------------------------------
(* The place on the screen *)

Drawing == {"no", "x", "y", "column", "test", "down", "scroll"}

ScreenTypes ==
  /\ place \in [Tty -> Place]
  /\ spc \in [Tty -> Drawing]
  /\ races \in Nat

\* A reader that found room for another row below still has it, unless a race
\* was counted since its test.
RoomBelow == \A t \in Tty : spc[t] = "down" => place[a].y < BottomRow + races

ScreenInv == ScreenTypes /\ NothingBelowScreen /\ RoomBelow

\* Everything but new_line() itself: who moves the place of a terminal, or
\* makes another one active, while a reader is between its test and its act,
\* counts as a race.
LEMMA CountedMove ==
  ASSUME ScreenInv, active_terminal' \in Tty, place' \in [Tty -> Place],
         \A t \in Tty : place'[t].y <= BottomRow + races /\ place'[t].cy <= BottomRow + races,
         UNCHANGED spc, MovesUnder(Tty)
  PROVE  ScreenInv'
<1>1. /\ races \in Nat /\ BottomRow \in Int
      /\ \A t \in Tty : place'[t].y \in Int /\ place'[t].cy \in Int
  BY ScreenAssumption DEF ScreenInv, ScreenTypes, BottomRow, Place
<1>2. races' \in Nat /\ races' >= races
  BY <1>1 DEF MovesUnder
<1>3. ScreenTypes'
  BY <1>2 DEF ScreenInv, ScreenTypes
<1>4. NothingBelowScreen'
  <2>1. \A t \in Tty : place'[t].y <= BottomRow + races' /\ place'[t].cy <= BottomRow + races'
    BY <1>1, <1>2
  <2> QED
    BY <2>1 DEF NothingBelowScreen, BottomRow
<1>5. ASSUME NEW t \in Tty, spc'[t] = "down"
      PROVE  place'[active_terminal'].y < BottomRow + races'
  <2>1. CASE <<place, active_terminal>>' = <<place, active_terminal>>
    BY <1>1, <1>2, <1>5, <2>1 DEF ScreenInv, RoomBelow, a
  <2>2. CASE <<place, active_terminal>>' # <<place, active_terminal>>
    <3>1. races' = races + 1
      BY <1>5, <2>2 DEF MovesUnder
    <3> QED
      BY <1>1, <3>1
  <2> QED
    BY <2>1, <2>2
<1>6. RoomBelow'
  BY <1>5 DEF RoomBelow, a, BottomRow
<1> QED
  BY <1>3, <1>4, <1>6 DEF ScreenInv

\* The characters that printthebuffer() finds in a row.
Characters(memory, t, n) ==
  {i \in 0 .. n : At(t, i) \in Cell /\ memory[At(t, i)] # NUL}

\* printthebuffer() of any memory prints a number of characters.
LEMMA CountCharacters ==
  ASSUME NEW memory, NEW t, NEW n \in Nat
  PROVE  Cardinality(Characters(memory, t, n)) \in Nat
<1>1. IsFiniteSet(0 .. n)
  BY FS_Interval
<1>2. Characters(memory, t, n) \in SUBSET (0 .. n)
  BY DEF Characters
<1>3. IsFiniteSet(Characters(memory, t, n))
  BY <1>1, <1>2, FS_Subset
<1> QED
  BY <1>3, FS_CardinalityType

\* Of a well formed line it prints all characters.
LEMMA CountLine ==
  ASSUME NEW memory, NEW t \in Tty, NEW n \in RowIndex, memory[At(t, n)] = NUL,
         \A i \in 0 .. n - 1 : memory[At(t, i)] # NUL
  PROVE  Cardinality(Characters(memory, t, n)) = n
<1>1. n \in Nat /\ \A i \in 0 .. n : At(t, i) \in Cell
  BY InRow, Sizes DEF RowIndex
<1>2. \A i \in 0 .. n : memory[At(t, i)] # NUL <=> i \in 0 .. n - 1
  BY <1>1
<1>3. Characters(memory, t, n) = 0 .. n - 1
  BY <1>1, <1>2 DEF Characters
<1>4. Cardinality(0 .. n - 1) = n
  <2>1. Cardinality(0 .. n - 1) = IF 0 > n - 1 THEN 0 ELSE (n - 1) - 0 + 1
    BY <1>1, FS_Interval
  <2> QED
    BY <1>1, <2>1
<1> QED
  BY <1>3, <1>4

\* A redraw keeps the invariant.
LEMMA RedrawStep ==
  ASSUME ScreenInv, Words', active_terminal' \in Tty,
         NEW before \in [Tty -> Place],
         \A t \in Tty : before[t].y <= BottomRow + races /\ before[t].cy <= BottomRow + races,
         redraw(before)
  PROVE  ScreenInv'
<1> DEFINE b == active_terminal'
           drawn == IF lost' THEN before[b] ELSE printthebuffer(before[b], Printable)
<1>1. BottomRow + races \in Int /\ BottomRow <= BottomRow + races
  BY ScreenAssumption DEF ScreenInv, ScreenTypes, BottomRow
<1>2. Printable \in Nat
  <2>1. command_length'[b] \in Nat
    BY Sizes DEF Words
  <2> QED
    BY <2>1, CountCharacters DEF Printable, Characters
<1>3. drawn \in Place /\ drawn.y <= BottomRow + races /\ drawn.cy <= BottomRow + races
  <2>1. before[b] \in Place
    OBVIOUS
  <2> QED
    BY <1>1, <1>2, <2>1, WholeLine
<1>4. place' = [before EXCEPT ![b] = drawn] /\ UNCHANGED spc /\ MovesUnder(Tty)
  BY DEF redraw
<1> HIDE DEF drawn
<1>5. /\ place' \in [Tty -> Place]
      /\ \A t \in Tty : place'[t].y <= BottomRow + races /\ place'[t].cy <= BottomRow + races
  BY <1>3, <1>4
<1> QED
  BY <1>4, <1>5, CountedMove

\* So does every key, and Ctrl+L, which clears the screen first.
LEMMA KeyKeepsScreen ==
  ASSUME ScreenInv, IInv, IInv', Words', key
  PROVE  ScreenInv'
<1>1. /\ place \in [Tty -> Place] /\ active_terminal \in Tty /\ active_terminal' \in Tty
      /\ races \in Nat /\ BottomRow \in Int /\ 0 <= BottomRow
      /\ \A t \in Tty : place[t].y <= BottomRow + races /\ place[t].cy <= BottomRow + races
  BY ScreenAssumption DEF ScreenInv, ScreenTypes, NothingBelowScreen, BottomRow, IInv, TypeOK
<1>2. CASE redraw(place)
  BY <1>1, <1>2, RedrawStep
<1>3. CASE redraw([place EXCEPT ![a] = clear_the_screen(@)])
  <2> DEFINE before == [place EXCEPT ![a] = clear_the_screen(@)]
             top == [x |-> 0, y |-> 0, cx |-> 0, cy |-> 0]
  <2>1. before = [place EXCEPT ![active_terminal] = top]
    BY DEF clear_the_screen, a
  <2>2. top \in Place
    BY ScreenAssumption DEF Place, Column
  <2>3. before \in [Tty -> Place]
    BY <1>1, <2>1, <2>2
  <2>4. top.y = 0 /\ top.cy = 0
    OBVIOUS
  <2> HIDE DEF top
  <2>5. \A t \in Tty : before[t].y <= BottomRow + races /\ before[t].cy <= BottomRow + races
    BY <1>1, <2>1, <2>4
  <2> HIDE DEF before
  <2> QED
    BY <1>1, <1>3, <2>3, <2>5, RedrawStep DEF before
<1> QED
  BY <1>2, <1>3 DEF key

\* Output of programs and of the kernel keeps the invariant.
LEMMA WriteKeepsScreen ==
  ASSUME ScreenInv, IInv, NEW t \in Tty, terminal_write(t) \/ kernel_printf(t)
  PROVE  ScreenInv'
<1> DEFINE bottom == BottomRow + races
<1>1. /\ place \in [Tty -> Place] /\ active_terminal \in Tty
      /\ bottom \in Int /\ BottomRow <= bottom
      /\ \A u \in Tty : place[u].y <= bottom /\ place[u].cy <= bottom
  BY ScreenAssumption DEF ScreenInv, ScreenTypes, NothingBelowScreen, BottomRow, IInv, TypeOK
<1> HIDE DEF bottom
<1>2. \A u \in Tty : LET s == putc_char(place[u])
                         r == putc_newline(place[u])
                         q == putc_newline(s)
                     IN  /\ s \in Place /\ s.y <= bottom /\ s.cy <= bottom
                         /\ r \in Place /\ r.y <= bottom /\ r.cy <= bottom
                         /\ q \in Place /\ q.y <= bottom /\ q.cy <= bottom
  <2> TAKE u \in Tty
  <2>1. place[u] \in Place /\ place[u].y <= bottom /\ place[u].cy <= bottom
    BY <1>1
  <2>2. /\ putc_char(place[u]) \in Place
        /\ putc_char(place[u]).y <= bottom /\ putc_char(place[u]).cy <= bottom
    BY <1>1, <2>1, OneCharacter
  <2>3. /\ putc_newline(place[u]) \in Place
        /\ putc_newline(place[u]).y <= bottom /\ putc_newline(place[u]).cy <= bottom
    BY <1>1, <2>1, NewLine
  <2>4. /\ putc_newline(putc_char(place[u])) \in Place
        /\ putc_newline(putc_char(place[u])).y <= bottom
        /\ putc_newline(putc_char(place[u])).cy <= bottom
    BY <1>1, <2>2, NewLine
  <2> QED
    BY <2>2, <2>3, <2>4
<1>3. \E u \in Tty : \E s \in Place : Writes(u, s) /\ s.y <= bottom /\ s.cy <= bottom
  <2>1. CASE terminal_write(t)
    BY <1>2, <2>1 DEF terminal_write
  <2>2. CASE kernel_printf(t)
    BY <1>1, <1>2, <2>2 DEF kernel_printf, a
  <2> QED
    BY <2>1, <2>2
<1>4. PICK u \in Tty, s \in Place : Writes(u, s) /\ s.y <= bottom /\ s.cy <= bottom
  BY <1>3
<1>5. /\ place' = [place EXCEPT ![u] = s] /\ UNCHANGED spc /\ MovesUnder(Tty)
      /\ UNCHANGED active_terminal
  BY <1>4 DEF Writes, vars
<1>6. place' \in [Tty -> Place] /\ \A v \in Tty : place'[v].y <= bottom /\ place'[v].cy <= bottom
  BY <1>1, <1>4, <1>5
<1> QED
  BY <1>1, <1>5, <1>6, CountedMove DEF bottom

\* set_command_location() moves the start of a command to where the output is.
LEMMA MarkKeepsScreen ==
  ASSUME ScreenInv, IInv, NEW t \in Tty, mark_x(t) \/ mark_y(t)
  PROVE  ScreenInv'
<1>1. /\ place \in [Tty -> Place] /\ active_terminal \in Tty /\ spc \in [Tty -> Drawing]
      /\ races \in Nat /\ UNCHANGED <<races, active_terminal>>
      /\ \A u \in Tty : place[u].y <= BottomRow + races /\ place[u].cy <= BottomRow + races
  BY DEF ScreenInv, ScreenTypes, NothingBelowScreen, IInv, TypeOK, mark_x, mark_y, vars
<1>2. \E s \in Place : /\ place' = [place EXCEPT ![t] = s]
                       /\ s.y = place[t].y /\ s.cy \in {place[t].y, place[t].cy}
  <2>1. place[t] \in Place
    BY <1>1
  <2>2. \A p \in Place : /\ [p EXCEPT !.cx = p.x] \in Place /\ [p EXCEPT !.cy = p.y] \in Place
                         /\ [p EXCEPT !.cx = p.x].y = p.y /\ [p EXCEPT !.cx = p.x].cy = p.cy
                         /\ [p EXCEPT !.cy = p.y].y = p.y /\ [p EXCEPT !.cy = p.y].cy = p.y
    BY DEF Place
  <2>3. CASE mark_x(t)
    <3>1. place' = [place EXCEPT ![t] = [place[t] EXCEPT !.cx = place[t].x]]
      BY <1>1, <2>3 DEF mark_x, set_command_x
    <3> QED
      BY <2>1, <2>2, <3>1
  <2>4. CASE mark_y(t)
    <3>1. place' = [place EXCEPT ![t] = [place[t] EXCEPT !.cy = place[t].y]]
      BY <1>1, <2>4 DEF mark_y, set_command_y
    <3> QED
      BY <2>1, <2>2, <3>1
  <2> QED
    BY <2>3, <2>4
<1>3. PICK s \in Place : /\ place' = [place EXCEPT ![t] = s]
                         /\ s.y = place[t].y /\ s.cy \in {place[t].y, place[t].cy}
  BY <1>2
<1>4. /\ place' \in [Tty -> Place]
      /\ \A u \in Tty : /\ place'[u].y = place[u].y
                        /\ place'[u].cy <= BottomRow + races
  BY <1>1, <1>3
<1>5. spc' \in [Tty -> Drawing] /\ \A u \in Tty : spc'[u] = "down" => spc[u] = "down"
  BY <1>1 DEF mark_x, mark_y, Drawing
<1>6. ScreenTypes'
  BY <1>1, <1>4, <1>5 DEF ScreenTypes
<1>7. NothingBelowScreen'
  BY <1>1, <1>4 DEF NothingBelowScreen, BottomRow
<1>8. RoomBelow'
  BY <1>1, <1>4, <1>5 DEF ScreenInv, RoomBelow, a, BottomRow
<1> QED
  BY <1>6, <1>7, <1>8 DEF ScreenInv

\* The three acts of new_line() on the place of the active terminal.
LEMMA NewLineActs ==
  ASSUME ScreenInv, IInv, NEW t \in Tty,
         new_line_column(t) \/ new_line_down(t) \/ new_line_scroll(t)
  PROVE  ScreenInv'
<1> DEFINE p == place[active_terminal]
<1>1. /\ place \in [Tty -> Place] /\ active_terminal \in Tty /\ spc \in [Tty -> Drawing]
      /\ races \in Nat /\ BottomRow \in Int /\ UNCHANGED active_terminal
      /\ \A u \in Tty : place[u].y <= BottomRow + races /\ place[u].cy <= BottomRow + races
  BY ScreenAssumption DEF ScreenInv, ScreenTypes, NothingBelowScreen, IInv, TypeOK, BottomRow,
     new_line_column, new_line_down, new_line_scroll, vars
<1>2. p \in Place /\ p.y <= BottomRow + races /\ p.cy <= BottomRow + races
  BY <1>1
<1>3. \E s \in Place : /\ place' = [place EXCEPT ![active_terminal] = s]
                       /\ s.y <= BottomRow + races /\ s.cy <= BottomRow + races
                       /\ spc[t] # "down" => s.y = p.y
  <2>1. CASE new_line_column(t)
    <3>1. place' = [place EXCEPT ![active_terminal] = [p EXCEPT !.x = 0]]
      BY <1>1, <2>1 DEF new_line_column, a
    <3>2. [p EXCEPT !.x = 0] \in Place /\ [p EXCEPT !.x = 0].y = p.y /\ [p EXCEPT !.x = 0].cy = p.cy
      BY <1>2, ScreenAssumption DEF Place, Column
    <3> QED
      BY <1>2, <3>1, <3>2
  <2>2. CASE new_line_down(t)
    <3>1. place' = [place EXCEPT ![active_terminal] = [p EXCEPT !.y = p.y + 1]] /\ spc[t] = "down"
      BY <1>1, <2>2 DEF new_line_down, a
    <3>2. /\ [p EXCEPT !.y = p.y + 1] \in Place /\ [p EXCEPT !.y = p.y + 1].y = p.y + 1
          /\ [p EXCEPT !.y = p.y + 1].cy = p.cy /\ p.y \in Int
      BY <1>2 DEF Place
    <3>3. p.y < BottomRow + races
      BY <3>1 DEF ScreenInv, RoomBelow, a
    <3>4. p.y + 1 <= BottomRow + races
      BY <1>1, <3>2, <3>3
    <3> QED
      BY <1>2, <3>1, <3>2, <3>4
  <2>3. CASE new_line_scroll(t)
    <3>1. place' = [place EXCEPT ![active_terminal] = scrolling(p)]
      BY <1>1, <2>3 DEF new_line_scroll, a
    <3>2. BottomRow + races \in Int /\ BottomRow <= BottomRow + races
      BY <1>1
    <3>3. scrolling(p) \in Place /\ scrolling(p).y = p.y /\ scrolling(p).cy <= BottomRow + races
      BY <1>2, <3>2, NewLine
    <3> QED
      BY <1>2, <3>1, <3>3
  <2> QED
    BY <2>1, <2>2, <2>3
<1>4. PICK s \in Place : /\ place' = [place EXCEPT ![active_terminal] = s]
                         /\ s.y <= BottomRow + races /\ s.cy <= BottomRow + races
                         /\ spc[t] # "down" => s.y = p.y
  BY <1>3
<1>5. /\ MovesUnder(Tty \ {t})
      /\ spc' \in [Tty -> Drawing]
      /\ spc'[t] # "down" /\ \A u \in Tty \ {t} : spc'[u] = spc[u]
  BY <1>1 DEF new_line_column, new_line_down, new_line_scroll, Drawing
<1>6. /\ races' \in Nat /\ races' >= races
      /\ <<place, active_terminal>>' # <<place, active_terminal>>
           /\ (\E u \in Tty \ {t} : spc[u] = "down") => races' = races + 1
  BY <1>1, <1>5 DEF MovesUnder
<1>7. /\ place' \in [Tty -> Place] /\ s.y \in Int /\ s.cy \in Int
      /\ \A u \in Tty : place'[u] = IF u = active_terminal THEN s ELSE place[u]
  BY <1>1, <1>4 DEF Place
<1>8. ScreenTypes'
  BY <1>5, <1>6, <1>7 DEF ScreenTypes
<1>9. NothingBelowScreen'
  <2> SUFFICES ASSUME NEW u \in Tty
               PROVE  place'[u].y <= BottomRow + races' /\ place'[u].cy <= BottomRow + races'
    BY DEF NothingBelowScreen, BottomRow
  <2>1. place'[u].y <= BottomRow + races /\ place'[u].cy <= BottomRow + races
    BY <1>1, <1>4, <1>7
  <2>2. place'[u].y \in Int /\ place'[u].cy \in Int
    BY <1>7 DEF Place
  <2> QED
    BY <1>1, <1>6, <2>1, <2>2
<1>10. RoomBelow'
  <2> SUFFICES ASSUME NEW u \in Tty, spc'[u] = "down"
               PROVE  place'[active_terminal].y < BottomRow + races'
    BY <1>1 DEF RoomBelow, a, BottomRow
  <2>1. u # t /\ spc[u] = "down"
    BY <1>5
  <2>2. p.y < BottomRow + races /\ p.y \in Int
    BY <1>2, <2>1 DEF ScreenInv, RoomBelow, a, Place
  <2>3. CASE place' = place
    BY <1>1, <1>6, <2>2, <2>3
  <2>4. CASE place' # place
    <3>1. races' = races + 1
      BY <1>6, <2>1, <2>4
    <3> QED
      BY <1>1, <1>4, <1>7, <3>1
  <2> QED
    BY <2>3, <2>4
<1> QED
  BY <1>8, <1>9, <1>10 DEF ScreenInv

\* The test of new_line() finds room below, or not.
LEMMA TestKeepsScreen ==
  ASSUME ScreenInv, IInv, NEW t \in Tty, new_line_test(t)
  PROVE  ScreenInv'
<1>1. UNCHANGED <<place, races, active_terminal>>
      /\ spc' = [spc EXCEPT ![t] = IF place[a].y < BottomRow THEN "down" ELSE "scroll"]
  BY DEF new_line_test, vars
<1>2. /\ spc \in [Tty -> Drawing] /\ races \in Nat /\ BottomRow \in Int
      /\ place[active_terminal].y \in Int
  <2>1. spc \in [Tty -> Drawing] /\ races \in Nat /\ place \in [Tty -> Place]
    BY DEF ScreenInv, ScreenTypes
  <2>2. active_terminal \in Tty
    BY ReaderTypes
  <2>3. BottomRow \in Int
    BY ScreenAssumption DEF BottomRow
  <2>4. place[active_terminal] \in Place
    BY <2>1, <2>2
  <2>5. place[active_terminal].y \in Int
    BY <2>4 DEF Place
  <2> QED
    BY <2>1, <2>3, <2>5
<1>3. ScreenTypes'
  BY <1>1, <1>2 DEF ScreenInv, ScreenTypes, Drawing
<1>4. NothingBelowScreen'
  BY <1>1 DEF ScreenInv, NothingBelowScreen, BottomRow
<1>5. ASSUME NEW u \in Tty, spc'[u] = "down" PROVE place[active_terminal].y < BottomRow + races
  BY <1>1, <1>2, <1>5 DEF ScreenInv, RoomBelow, a
<1>6. RoomBelow'
  BY <1>1, <1>5 DEF RoomBelow, a, BottomRow
<1> QED
  BY <1>3, <1>4, <1>6 DEF ScreenInv

\* The other statements of terminal_read() draw nothing.
LEMMA RestKeepsScreen ==
  ASSUME ScreenInv, UNCHANGED <<place, races, active_terminal>>,
         \/ UNCHANGED spc
         \/ \E t \in Tty : \E d \in {"x", "column"} : spc' = [spc EXCEPT ![t] = d]
  PROVE  ScreenInv'
<1>1. spc' \in [Tty -> Drawing] /\ \A u \in Tty : spc'[u] = "down" => spc[u] = "down"
  BY DEF ScreenInv, ScreenTypes, Drawing
<1>2. ScreenTypes'
  BY <1>1 DEF ScreenInv, ScreenTypes
<1>3. NothingBelowScreen'
  BY DEF ScreenInv, NothingBelowScreen, BottomRow
<1>4. RoomBelow'
  BY <1>1 DEF ScreenInv, RoomBelow, a, BottomRow
<1> QED
  BY <1>2, <1>3, <1>4 DEF ScreenInv

\* Every step keeps the invariant.
LEMMA NextKeepsScreen ==
  ASSUME ScreenInv, IInv, IInv', Words', [ConsoleNext]_<<vars, screen>>
  PROVE  ScreenInv'
<1>1. CASE UNCHANGED <<vars, screen>>
  BY <1>1, RestKeepsScreen DEF vars, screen
<1>2. CASE key
  BY <1>2, KeyKeepsScreen
<1>3. ASSUME NEW t \in Tty,
             console_read_start(t) \/ console_read_unlocked(t) \/ console_read_rest(t)
      PROVE  ScreenInv'
  <2>1. UNCHANGED <<place, races, active_terminal>>
    BY <1>3 DEF console_read_start, console_read_unlocked, console_read_rest, screen, read_start,
       read_unlocked, read_copy, read_clear, read_reset_length, read_reset_cursor, read_lock,
       read_outside
  <2>2. \/ UNCHANGED spc
        \/ \E d \in {"x", "column"} : spc' = [spc EXCEPT ![t] = d]
    BY <1>3 DEF console_read_start, console_read_unlocked, console_read_rest, screen
  <2> QED
    BY <2>1, <2>2, RestKeepsScreen
<1> QED
  BY <1>1, <1>2, <1>3, MarkKeepsScreen, NewLineActs, TestKeepsScreen, WriteKeepsScreen,
     ConsoleAssumption DEF ConsoleNext

\* The boot messages left terminal 0 in some row, the others are empty.
LEMMA InitScreen == ConsoleInit => ScreenInv
<1> SUFFICES ASSUME ConsoleInit PROVE ScreenInv
  OBVIOUS
<1>1. PICK row \in 0 .. BottomRow :
        place = [t \in Tty |-> LET y == IF t = 0 THEN row ELSE 0
                               IN  [x |-> 0, y |-> y, cx |-> 0, cy |-> y]]
  BY DEF ConsoleInit
<1>2. row \in Int /\ 0 <= row /\ row <= BottomRow /\ BottomRow \in Int /\ 0 \in Column
  BY ScreenAssumption DEF BottomRow, Column
<1>3. spc = [t \in Tty |-> "no"] /\ races = 0
  BY DEF ConsoleInit
<1> DEFINE Start(y) == [x |-> 0, y |-> y, cx |-> 0, cy |-> y]
<1>4. \A t \in Tty : place[t] = Start(IF t = 0 THEN row ELSE 0)
  BY <1>1
<1>5. \A y \in Int : Start(y) \in Place /\ Start(y).y = y /\ Start(y).cy = y
  BY <1>2 DEF Place
<1> HIDE DEF Start
<1>6. \A t \in Tty : place[t] \in Place /\ place[t].y <= BottomRow /\ place[t].cy <= BottomRow
  <2> TAKE t \in Tty
  <2>1. PICK y \in Int : y = IF t = 0 THEN row ELSE 0
    BY <1>2
  <2>2. y <= BottomRow /\ place[t] = Start(y)
    BY <1>2, <1>4, <2>1
  <2> QED
    BY <1>5, <2>2
<1>7. ScreenTypes
  <2>1. place \in [Tty -> Place]
    BY <1>1, <1>6
  <2> QED
    BY <1>3, <2>1 DEF ScreenTypes, Drawing
<1>8. NothingBelowScreen
  BY <1>2, <1>3, <1>6 DEF NothingBelowScreen
<1>9. RoomBelow
  BY <1>3 DEF RoomBelow
<1> QED
  BY <1>7, <1>8, <1>9 DEF ScreenInv

\* The invariant of the screen, on top of that of the lines.
LEMMA ScreenInvariant == ConsoleSpec => []ScreenInv
<1>1. ConsoleInit => ScreenInv
  BY InitScreen
<1>2. ScreenInv /\ (IInv /\ Words) /\ (IInv /\ Words)' /\ [ConsoleNext]_<<vars, screen>> => ScreenInv'
  BY NextKeepsScreen
<1> QED
  BY <1>1, <1>2, ConsoleKeepsIInv, PTL DEF ConsoleSpec

\* putc(), scrolling() and new_line() never draw below the last row, but for one
\* row for each time that the place moved, or another terminal became active,
\* between new_line()'s test of the row and its act.
THEOREM AlwaysNothingBelowScreen == ConsoleSpec => []NothingBelowScreen
<1>1. ScreenInv => NothingBelowScreen
  BY DEF ScreenInv
<1> QED
  BY <1>1, ScreenInvariant, PTL

\* The same distance, as screen addresses.
LEMMA SameAddress ==
  ASSUME NEW s \in Place, NEW n \in Nat, Distance(s) = n
  PROVE  s.y * NUM_COLS + s.x = s.cy * NUM_COLS + s.cx + n
<1>1. NUM_COLS \in Nat /\ s.x \in Int /\ s.cx \in Int /\ s.y \in Int /\ s.cy \in Int
  BY ScreenAssumption DEF Place, Column
<1>2. \A y, c, m \in Int : (y - c) * m = y * m - c * m /\ y * m \in Int /\ c * m \in Int
  OBVIOUS
<1> QED
  BY <1>1, <1>2 DEF Distance

\* As long as there was no such race, a line of up to two rows that printthebuffer()
\* draws ends its length behind its start on the screen, over row ends and
\* scrolling.  WholeLine says the same of a line of any length.
THEOREM AlwaysOutputFollowsLine == ConsoleSpec => []OutputFollowsLine
<1>1. ScreenInv => OutputFollowsLine
  <2> SUFFICES ASSUME ScreenInv, races = 0, NEW t \in Tty, NEW n \in 0 .. 2 * NUM_COLS
               PROVE  LET s == printthebuffer(place[t], n)
                      IN  s.y * NUM_COLS + s.x = s.cy * NUM_COLS + s.cx + n
    BY DEF OutputFollowsLine
  <2>1. /\ place[t] \in Place /\ place[t].cy <= BottomRow /\ BottomRow \in Int /\ n \in Nat
    BY ScreenAssumption DEF ScreenInv, ScreenTypes, NothingBelowScreen, BottomRow
  <2>2. printthebuffer(place[t], n) \in Place /\ Distance(printthebuffer(place[t], n)) = n
    BY <2>1, WholeLine
  <2> QED
    BY <2>1, <2>2, SameAddress
<1> QED
  BY <1>1, ScreenInvariant, PTL

\* A redraw of a well formed line puts the output where the cursor was sent,
\* unless it scrolled.
LEMMA CursorAfterRedraw ==
  ASSUME NEW s \in Place, s.cy <= BottomRow, NEW n \in Nat,
         n > 0 => printthebuffer(s, n).cy = s.cy
  PROVE  LET r == printthebuffer(s, n)
         IN  update_cursor(s, n) = (r.y * NUM_COLS + r.x) % 65536
<1> DEFINE r == printthebuffer(s, n)
<1>1. BottomRow \in Int
  BY ScreenAssumption DEF BottomRow
<1>2. r \in Place /\ r.cx = s.cx /\ Distance(r) = n /\ r.cy = s.cy
  BY <1>1, WholeLine
<1> HIDE DEF r
<1>3. r.y * NUM_COLS + r.x = s.cy * NUM_COLS + s.cx + n
  BY <1>2, SameAddress
<1> QED
  BY <1>3 DEF update_cursor, r

\* A key outside a read, on a line whose cursor is at its end.
LEMMA KeyPlacesCursor ==
  ASSUME IInv, IInv', ScreenInv, key, ~ lost', races' = 0, tears' = 0, Quiet,
         ~ unread' \/ command_buffer'[At(active_terminal', command_length'[active_terminal'])] = NUL,
         cursor_x'[active_terminal'] = command_length'[active_terminal'],
         command_length'[active_terminal'] > 0 =>
           place'[active_terminal'].cy = place[active_terminal'].cy
  PROVE  cursor' = (place'[active_terminal'].y * NUM_COLS + place'[active_terminal'].x) % 65536
<1> DEFINE b == active_terminal'
           n == command_length'[b]
<1>1. /\ UNCHANGED reader /\ b \in Tty /\ active_terminal \in Tty
      /\ \/ redraw(place)
         \/ /\ clear_key
            /\ redraw([place EXCEPT ![a] = clear_the_screen(@)])
  <2>1. active_terminal \in Tty
    BY ReaderTypes
  <2>2. b \in Tty
    BY DEF IInv, TypeOK
  <2>3. UNCHANGED reader
    BY DEF key, EditingKey, keyboard_interruption
  <2>4. redraw(place) \/ (clear_key /\ redraw([place EXCEPT ![a] = clear_the_screen(@)]))
    BY DEF key, keyboard_interruption
  <2> QED
    BY <2>1, <2>2, <2>3, <2>4
<1>2. Quiet'
  BY <1>1 DEF Quiet, InCriticalSection, reader
<1>3. n \in RowIndex /\ n \in Nat /\ Printable = n
  <2>1. \A t \in Tty : ~ BeingRead(t)'
    BY <1>2 DEF Quiet, BeingRead
  <2>2. /\ n \in RowIndex /\ command_buffer'[At(b, n)] = NUL
        /\ \A i \in 0 .. n - 1 : command_buffer'[At(b, i)] # NUL
    <3>1. Lines' /\ LinesWellFormed'
      BY DEF IInv
    <3>2. n \in RowIndex
      BY <1>1, <3>1 DEF Lines, RowIndex
    <3>3. /\ command_buffer'[At(b, n)] = NUL
          /\ \A i \in 0 .. n - 1 : command_buffer'[At(b, i)] # NUL
      <4>1. \A t \in Tty :
              /\ unread' \/ command_buffer'[At(t, command_length'[t])] = NUL
              /\ \A i \in 0 .. command_length'[t] - 1 : command_buffer'[At(t, i)] # NUL
        BY <2>1, <3>1 DEF LinesWellFormed
      <4> QED
        BY <1>1, <4>1
    <3> QED
      BY <3>2, <3>3
  <2>3. Cardinality(Characters(command_buffer', b, n)) = n
    BY <1>1, <2>2, CountLine
  <2> QED
    BY <2>2, <2>3 DEF Printable, Characters, RowIndex
<1>4. /\ races = 0 /\ place \in [Tty -> Place] /\ BottomRow \in Int /\ 0 <= BottomRow
      /\ \A t \in Tty : place[t].cy <= BottomRow
  <2>1. races \in Nat /\ BottomRow \in Int /\ 0 <= BottomRow
    BY ScreenAssumption DEF ScreenInv, ScreenTypes, BottomRow
  <2>2. races = 0
    BY <1>1, <2>1 DEF redraw, MovesUnder
  <2>3. place \in [Tty -> Place] /\ \A t \in Tty : place[t].cy <= BottomRow + races
    BY DEF ScreenInv, ScreenTypes, NothingBelowScreen
  <2>4. BottomRow + races = BottomRow
    BY <2>1, <2>2
  <2> QED
    BY <2>1, <2>2, <2>3, <2>4
<1>5. ASSUME NEW before \in [Tty -> Place], before[b].cy <= BottomRow, redraw(before),
             n > 0 => before[b] = place[b]
      PROVE  cursor' = (place'[b].y * NUM_COLS + place'[b].x) % 65536
  <2>1. /\ cursor' = update_cursor(before[b], n)
        /\ place'[b] = printthebuffer(before[b], n)
    BY <1>1, <1>3, <1>5 DEF redraw
  <2>2. n > 0 => printthebuffer(before[b], n).cy = before[b].cy
    BY <1>5, <2>1
  <2>3. before[b] \in Place
    BY <1>1, <1>5
  <2> DEFINE s == before[b]
             r == printthebuffer(s, n)
  <2>4. s \in Place /\ s.cy <= BottomRow /\ n \in Nat /\ (n > 0 => r.cy = s.cy)
    BY <1>3, <1>5, <2>2, <2>3
  <2>5. cursor' = update_cursor(s, n) /\ place'[b] = r
    BY <2>1
  <2>6. update_cursor(s, n) = (r.y * NUM_COLS + r.x) % 65536
    <3> HIDE DEF b, n, s
    <3> QED
      BY <2>4, CursorAfterRedraw
  <2> HIDE DEF b, n, s, r
  <2> QED
    BY <2>5, <2>6
<1>6. CASE redraw(place)
  BY <1>1, <1>4, <1>5, <1>6
<1>7. CASE clear_key /\ redraw([place EXCEPT ![a] = clear_the_screen(@)])
  <2> DEFINE before == [place EXCEPT ![a] = clear_the_screen(@)]
             top == [x |-> 0, y |-> 0, cx |-> 0, cy |-> 0]
  <2>1. before = [place EXCEPT ![active_terminal] = top]
    BY DEF clear_the_screen, a
  <2>2. top \in Place /\ top.cy = 0
    BY ScreenAssumption DEF Place, Column
  <2> HIDE DEF top
  <2>3. before \in [Tty -> Place] /\ before[active_terminal].cy = 0
    BY <1>1, <1>4, <2>1, <2>2
  <2>4. b = active_terminal /\ n = 0
    <3>1. /\ UNCHANGED active_terminal
          /\ command_length' = [command_length EXCEPT ![active_terminal] = 0]
      BY <1>7 DEF clear_key, a
    <3>2. command_length \in [Tty -> RowIndex]
      <4>1. tears = 0
        <5>1. tears \in Nat
          BY DEF IInv, TypeOK
        <5>2. tears' \in {tears, tears + 1}
          BY DEF key, EditingKey, keyboard_interruption
        <5> QED
          BY <5>1, <5>2
      <4> QED
        BY <4>1 DEF IInv, Lines, RowIndex
    <3> QED
      BY <1>1, <3>1, <3>2
  <2>5. redraw(before)
    BY <1>7
  <2> HIDE DEF before, n
  <2> QED
    BY <1>4, <1>5, <2>3, <2>4, <2>5
<1> QED
  BY <1>1, <1>6, <1>7

\* process_keyboard_input() sends the hardware cursor to where the next character
\* will be drawn, although it does so before printthebuffer() redraws the line:
\* the exceptions are a redraw that scrolls, a line that is being read or was
\* disturbed, one with no NUL behind it since a read of no bytes, and a race in
\* new_line().
THEOREM AlwaysCursorAtOutput == ConsoleSpec => CursorAtOutput
<1>1. /\ IInv /\ IInv' /\ ScreenInv /\ ScreenInv' /\ ConsoleNext
      => LET b == active_terminal'
         IN  \/ cursor' = (place'[b].y * NUM_COLS + place'[b].x) % 65536
             \/ cursor_x'[b] # command_length'[b]
             \/ command_length'[b] > 0 /\ place'[b].cy # place[b].cy
             \/ \E t \in Tty : InCriticalSection(t)
             \/ races' > 0
             \/ tears' > 0
             \/ lost'
             \/ unread' /\ command_buffer'[At(b, command_length'[b])] # NUL
             \/ ~ key
  <2>1. IInv' /\ ScreenInv' => tears' \in Nat /\ races' \in Nat
    BY DEF IInv, TypeOK, ScreenInv, ScreenTypes
  <2> QED
    BY <2>1, KeyPlacesCursor DEF Quiet
<1> QED
  BY <1>1, ConsoleKeepsIInv, ScreenInvariant, PTL DEF ConsoleSpec, CursorAtOutput
=============================================================================
