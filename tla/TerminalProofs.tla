--------------------------- MODULE TerminalProofs ---------------------------
(***************************************************************************)
(* Proofs about the terminal driver, for any number of terminals, any      *)
(* buffer size, any keys and any number of readers, in every interleaving. *)
(***************************************************************************)
EXTENDS TerminalLines, TLAPS

\* Every leaf is tried with the SMT solver, then with Zenon, then with more time.
USE SMTT(10), ZenonT(20), SMTT(60)

-----------------------------------------------------------------------------
(* The inductive invariant *)

ReaderAt == {"out", "spin", "copy", "clear", "length", "cursor", "lock"}
Flags == Modifier \cup {"caps"}

\* The types that hold whatever keys disturb.
TypeOK ==
  /\ active_terminal \in Tty
  /\ keyboardflag \in [Tty -> SUBSET Flags]
  /\ held \in SUBSET Modifier
  /\ pc \in [Tty -> ReaderAt]
  /\ index \in [Tty -> Nat]
  /\ nbytes \in [Tty -> Int]
  /\ DOMAIN buf = Tty
  /\ \A t \in Tty : DOMAIN buf[t] = Cell
  /\ tears \in Nat
  /\ mixed \in BOOLEAN
  /\ unread \in BOOLEAN
  /\ DOMAIN taken = Tty

\* The loop counter of a reader stays below the number of bytes it wants, and
\* inside the row as long as no read has left its row.
IndexInRow ==
  \A t \in Tty :
    /\ pc[t] \in {"copy", "clear"} => index[t] < nbytes[t]
    /\ pc[t] = "length" => index[t] = IF nbytes[t] > 0 THEN nbytes[t] ELSE 0
    /\ tears = 0 => /\ pc[t] = "clear" => index[t] \in RowIndex
                    /\ pc[t] \in {"copy", "length"} => index[t] <= TERMINAL_BUFFER_MAX_SIZE

\* A reader has cleared the first character of the line and not yet reset the
\* cursor.
Cleared(t) ==
  /\ nbytes[t] > 0
  /\ \/ pc[t] \in {"length", "cursor"}
     \/ pc[t] \in {"copy", "clear"} /\ index[t] > 0

\* The lines, while no key has disturbed a read: LinesWellFormed, the types of
\* the lines, and how far the readers of the active line are.
Lines ==
  tears = 0 =>
    /\ command_buffer \in [Cell -> Datum]
    /\ command_length \in [Tty -> 0 .. TERMINAL_BUFFER_MAX_SIZE - 1]
    /\ cursor_x \in [Tty -> 0 .. TERMINAL_BUFFER_MAX_SIZE - 1]
    /\ \A t \in Tty : Cleared(t) => command_buffer[At(a, 0)] = NUL
    /\ \A t \in Tty : pc[t] = "cursor" => command_length[a] = 0

\* How many characters a reader has copied, and how many it has cleared.
Copied(t) == IF pc[t] = "clear" THEN index[t] + 1 ELSE index[t]

StartCopied(t) == \A i \in 0 .. Copied(t) - 1 : buf[t][i] = taken[t][i]
RestThere(t) == \A i \in RowIndex : i >= index[t] => command_buffer[At(a, i)] = taken[t][i]
LineTaken(t) ==
  /\ \A i \in 0 .. command_length[a] - 1 : taken[t][i] # NUL
  /\ unread \/ taken[t][command_length[a]] = NUL

\* What a reader that is alone has copied is the start of the row it found, the
\* rest of that row is still there, and it began with the line.
Reads ==
  tears = 0 /\ ~ mixed => \A t \in Tty : InCriticalSection(t) =>
    /\ \A u \in Tty \ {t} : ~ InCriticalSection(u)
    /\ nbytes[t] > 0 /\ pc[t] # "cursor" => StartCopied(t) /\ RestThere(t) /\ LineTaken(t)

IInv == TypeOK /\ IndexInRow /\ NoPhantomAlt /\ Lines /\ LinesWellFormed /\ Reads

-----------------------------------------------------------------------------
(* Rows of the C array *)

\* The sizes the model assumes; a length that fits its row cannot wrap.
LEMMA Sizes ==
  /\ NumTty \in Nat /\ NumTty > 0
  /\ TERMINAL_BUFFER_MAX_SIZE \in Nat /\ TERMINAL_BUFFER_MAX_SIZE > 1
  /\ WORD \in Nat /\ WORD > TERMINAL_BUFFER_MAX_SIZE
<1>1. /\ NumTty \in Nat /\ NumTty > 0
      /\ TERMINAL_BUFFER_MAX_SIZE \in Nat /\ TERMINAL_BUFFER_MAX_SIZE > 1
      /\ WORD \in Nat /\ WORD > NumTty * TERMINAL_BUFFER_MAX_SIZE
  BY TerminalAssumption
<1>2. \A n \in Nat, m \in Nat : n > 0 => n * m >= m
  OBVIOUS
<1>3. NumTty * TERMINAL_BUFFER_MAX_SIZE >= TERMINAL_BUFFER_MAX_SIZE
      /\ NumTty * TERMINAL_BUFFER_MAX_SIZE \in Nat
  BY <1>1, <1>2
<1> QED
  BY <1>1, <1>3

\* Counters below WORD do not wrap.
LEMMA SmallMod ==
  ASSUME NEW m \in Nat, m > 0, NEW x \in 0 .. m - 1
  PROVE  x % m = x
OBVIOUS

\* A cell of an earlier row lies before every cell of a later row.
LEMMA RowOrder ==
  ASSUME NEW t \in Tty, NEW u \in Tty, NEW i \in RowIndex, NEW j \in RowIndex, t < u
  PROVE  At(t, i) < At(u, j)
<1>1. \A m \in Nat, x \in Nat, y \in Nat : x < y => x * m + m <= y * m
  OBVIOUS
<1>2. /\ TERMINAL_BUFFER_MAX_SIZE \in Nat /\ t \in Nat /\ u \in Nat
      /\ i \in Nat /\ i < TERMINAL_BUFFER_MAX_SIZE /\ j \in Nat
  BY Sizes DEF Tty, RowIndex
<1>3. t * TERMINAL_BUFFER_MAX_SIZE + TERMINAL_BUFFER_MAX_SIZE <= u * TERMINAL_BUFFER_MAX_SIZE
  BY <1>1, <1>2
<1>4. t * TERMINAL_BUFFER_MAX_SIZE \in Nat /\ u * TERMINAL_BUFFER_MAX_SIZE \in Nat
  BY <1>2
<1> QED
  BY <1>2, <1>3, <1>4 DEF At

\* Inside a row cells are numbered one by one.
LEMMA InRow ==
  ASSUME NEW t \in Tty, NEW i \in RowIndex
  PROVE  /\ At(t, i) \in Cell /\ At(t, i) = At(t, 0) + i /\ At(t, 0) \in Nat
<1>1. \A m \in Nat, n \in Nat : \A x \in 0 .. n - 1 : x * m + m <= n * m
  OBVIOUS
<1>2. /\ TERMINAL_BUFFER_MAX_SIZE \in Nat /\ NumTty \in Nat /\ t \in 0 .. NumTty - 1
      /\ i \in Nat /\ i < TERMINAL_BUFFER_MAX_SIZE
  BY Sizes DEF Tty, RowIndex
<1>3. t * TERMINAL_BUFFER_MAX_SIZE + TERMINAL_BUFFER_MAX_SIZE <= NumTty * TERMINAL_BUFFER_MAX_SIZE
  BY <1>1, <1>2
<1>4. t * TERMINAL_BUFFER_MAX_SIZE \in Nat /\ NumTty * TERMINAL_BUFFER_MAX_SIZE \in Nat
  BY <1>2
<1> QED
  BY <1>2, <1>3, <1>4 DEF At, Cell

\* Distinct cells of rows are distinct cells of memory, and those between two
\* cells of a row belong to it.
LEMMA Between ==
  ASSUME NEW t \in Tty, NEW u \in Tty,
         NEW i \in RowIndex, NEW j \in RowIndex, NEW k \in RowIndex
  PROVE  /\ At(t, i) = At(u, j) <=> t = u /\ i = j
         /\ (At(t, i) > At(u, j) /\ At(t, i) <= At(u, k)) <=> (t = u /\ i > j /\ i <= k)
         /\ (At(t, i) >= At(u, j) /\ At(t, i) < At(u, k)) <=> (t = u /\ i >= j /\ i < k)
<1>1. t \in Int /\ u \in Int /\ i \in Int /\ j \in Int /\ k \in Int
  BY Sizes DEF Tty, RowIndex
<1>2. /\ At(t, i) \in Int /\ At(u, j) \in Int /\ At(u, k) \in Int
  BY InRow DEF Cell
<1>3. CASE t < u
  <2>1. At(t, i) < At(u, j) /\ At(t, i) < At(u, k)
    BY <1>3, RowOrder
  <2> QED
    BY <1>1, <1>2, <1>3, <2>1
<1>4. CASE u < t
  <2>1. At(u, j) < At(t, i) /\ At(u, k) < At(t, i)
    BY <1>4, RowOrder
  <2> QED
    BY <1>1, <1>2, <1>4, <2>1
<1>5. CASE t = u
  <2>1. /\ At(t, i) = At(t, 0) + i /\ At(u, j) = At(t, 0) + j /\ At(u, k) = At(t, 0) + k
        /\ At(t, 0) \in Nat
    BY <1>5, InRow
  <2> QED
    BY <1>1, <1>5, <2>1
<1> QED
  BY <1>1, <1>3, <1>4, <1>5

-----------------------------------------------------------------------------
(* The keyboard interrupt *)

\* No reader has begun to take the line.
Quiet == \A t \in Tty : ~ InCriticalSection(t)

LineTypes ==
  /\ command_buffer \in [Cell -> Datum]
  /\ command_length \in [Tty -> RowIndex]
  /\ cursor_x \in [Tty -> RowIndex]

WellFormed(t) ==
  /\ cursor_x[t] <= command_length[t]
  /\ unread \/ command_buffer[At(t, command_length[t])] = NUL
  /\ \A i \in 0 .. command_length[t] - 1 : command_buffer[At(t, i)] # NUL

\* The types of the readers, and of the lines while no read was disturbed.
LEMMA ReaderTypes ==
  ASSUME IInv
  PROVE  /\ active_terminal \in Tty /\ tears \in Nat
         /\ pc \in [Tty -> ReaderAt] /\ index \in [Tty -> Nat]
         /\ nbytes \in [Tty -> Int]
BY DEF IInv, TypeOK

LEMMA TypesOfLines ==
  ASSUME IInv, tears = 0
  PROVE  LineTypes
BY DEF IInv, Lines, LineTypes, RowIndex

\* The loop counter of a reader that copies or clears.
LEMMA IndexFits ==
  ASSUME IInv, NEW t \in Tty, pc[t] \in {"copy", "clear"}
  PROVE  /\ index[t] \in Nat /\ nbytes[t] \in Int /\ index[t] < nbytes[t] /\ nbytes[t] > 0
         /\ tears = 0 /\ pc[t] = "clear" => index[t] \in RowIndex
<1>1. index[t] \in Nat /\ nbytes[t] \in Int
  BY ReaderTypes
<1>2. index[t] < nbytes[t] /\ (tears = 0 /\ pc[t] = "clear" => index[t] \in RowIndex)
  BY DEF IInv, IndexInRow
<1> QED
  BY <1>1, <1>2

\* While no reader is at work every line is well formed.
LEMMA QuietLines ==
  ASSUME IInv, tears = 0, Quiet
  PROVE  LineTypes /\ \A t \in Tty : WellFormed(t)
<1>1. \A t \in Tty : ~ BeingRead(t) /\ ~ BeingReset(t)
  BY DEF Quiet, BeingRead, BeingReset, InCriticalSection
<1> QED
  BY <1>1 DEF IInv, Lines, LinesWellFormed, LineTypes, WellFormed, RowIndex

\* A key changes no reader.  When it changes a line or the active terminal, and
\* no read is disturbed, no reader is at work; so it is enough that it leaves
\* every line well formed then.
LEMMA KeyStep ==
  ASSUME IInv, UNCHANGED <<reader, mixed, unread, taken>>, active_terminal' \in Tty,
         tears' = IF /\ \E t \in Tty : InCriticalSection(t)
                     /\ <<active_terminal, line>>' # <<active_terminal, line>>
                  THEN tears + 1 ELSE tears,
         tears = 0 /\ Quiet => LineTypes' /\ \A t \in Tty : WellFormed(t)'
  PROVE  Lines' /\ LinesWellFormed' /\ Reads'
<1>1. UNCHANGED <<pc, index, nbytes, buf, mixed, unread, taken>> /\ tears \in Nat
  BY DEF reader, IInv, TypeOK
<1>2. \A t \in Tty : /\ InCriticalSection(t)' = InCriticalSection(t)
                     /\ Cleared(t)' = Cleared(t) /\ Copied(t)' = Copied(t)
  BY <1>1 DEF InCriticalSection, Cleared, Copied
<1>3. CASE tears' # 0
  BY <1>3 DEF Lines, LinesWellFormed, Reads
<1>4. CASE tears' = 0 /\ Quiet
  <2>1. tears = 0
    BY <1>1, <1>4
  <2>2. LineTypes' /\ \A t \in Tty : WellFormed(t)'
    BY <1>4, <2>1
  <2>3. \A t \in Tty : ~ InCriticalSection(t)' /\ ~ Cleared(t)' /\ pc'[t] # "cursor"
    BY <1>1, <1>2, <1>4 DEF Quiet, InCriticalSection, Cleared
  <2>4. Lines'
    BY <2>2, <2>3 DEF Lines, LineTypes, RowIndex
  <2>5. LinesWellFormed'
    BY <2>2, Sizes DEF LinesWellFormed, LineTypes, WellFormed, RowIndex
  <2>6. Reads'
    BY <2>3 DEF Reads
  <2> QED
    BY <2>4, <2>5, <2>6
<1>5. CASE tears' = 0 /\ ~ Quiet
  <2>1. tears = 0 /\ <<active_terminal, line>>' = <<active_terminal, line>>
    BY <1>1, <1>5 DEF Quiet
  <2>2. UNCHANGED <<active_terminal, command_buffer, command_length, cursor_x>>
    BY <2>1 DEF line
  <2>3. Lines'
    BY <1>1, <1>2, <2>1, <2>2 DEF IInv, Lines, a
  <2>4. LinesWellFormed'
    BY <1>1, <1>2, <2>1, <2>2 DEF IInv, LinesWellFormed, BeingRead, BeingReset
  <2>5. Reads'
    BY <1>1, <1>2, <2>1, <2>2 DEF IInv, Reads, StartCopied, RestThere, LineTaken, a
  <2> QED
    BY <2>3, <2>4, <2>5
<1> QED
  BY <1>3, <1>4, <1>5

\* Shifting right from column p changes the row of the active terminal only.
LEMMA ShiftRightRow ==
  ASSUME active_terminal \in Tty, LineTypes, NEW p \in 0 .. command_length[a],
         command_length[a] + 1 \in RowIndex, NEW d \in Datum
  PROVE  /\ ShiftRight(p, d) \in [Cell -> Datum]
         /\ \A t \in Tty, i \in RowIndex :
              ShiftRight(p, d)[At(t, i)] =
                IF t = a /\ i = p THEN d
                ELSE IF t = a /\ i > p /\ i <= command_length[a] + 1
                     THEN command_buffer[At(a, i - 1)] ELSE command_buffer[At(t, i)]
<1> DEFINE n == command_length[a]
<1>1. a \in Tty /\ n \in RowIndex /\ n \in Nat /\ p \in RowIndex /\ p \in Nat /\ n + 1 \in RowIndex
  BY Sizes DEF a, LineTypes, RowIndex
<1>2. command_buffer \in [Cell -> Datum]
  BY DEF LineTypes
<1>3. ShiftRight(p, d) =
        [c \in Cell |-> IF c = At(a, p) THEN d
                        ELSE IF c > At(a, p) /\ c <= At(a, n + 1)
                             THEN command_buffer[c - 1] ELSE command_buffer[c]]
  BY DEF ShiftRight
<1> HIDE DEF n
<1>4. ASSUME NEW c \in Cell, c > At(a, p) PROVE c - 1 \in Cell
  BY <1>1, <1>4, InRow, Sizes DEF Cell
<1>5. ShiftRight(p, d) \in [Cell -> Datum]
  BY <1>2, <1>3, <1>4
<1>6. ASSUME NEW t \in Tty, NEW i \in RowIndex
      PROVE  ShiftRight(p, d)[At(t, i)] =
               IF t = a /\ i = p THEN d
               ELSE IF t = a /\ i > p /\ i <= n + 1
                    THEN command_buffer[At(a, i - 1)] ELSE command_buffer[At(t, i)]
  <2>1. At(t, i) \in Cell
    BY InRow
  <2>2. At(t, i) = At(a, p) <=> t = a /\ i = p
    BY <1>1, Between
  <2>3. (At(t, i) > At(a, p) /\ At(t, i) <= At(a, n + 1)) <=> (t = a /\ i > p /\ i <= n + 1)
    BY <1>1, Between
  <2>4. ASSUME t = a, i > p PROVE At(t, i) - 1 = At(a, i - 1)
    <3>1. i - 1 \in RowIndex /\ i \in Int
      BY <1>1, <2>4, Sizes DEF RowIndex
    <3>2. At(t, i) = At(t, 0) + i /\ At(t, i - 1) = At(t, 0) + (i - 1) /\ At(t, 0) \in Nat
      BY <3>1, InRow
    <3> QED
      BY <2>4, <3>1, <3>2
  <2> QED
    BY <1>3, <2>1, <2>2, <2>3, <2>4
<1> QED
  BY <1>5, <1>6 DEF n

\* So does shifting left onto column p.
LEMMA ShiftLeftRow ==
  ASSUME active_terminal \in Tty, LineTypes, NEW p \in 0 .. command_length[a] - 1
  PROVE  /\ ShiftLeft(p) \in [Cell -> Datum]
         /\ \A t \in Tty, i \in RowIndex :
              ShiftLeft(p)[At(t, i)] =
                IF t = a /\ i >= p /\ i < command_length[a]
                THEN command_buffer[At(a, i + 1)] ELSE command_buffer[At(t, i)]
<1> DEFINE n == command_length[a]
<1>1. a \in Tty /\ n \in RowIndex /\ n \in Nat /\ p \in RowIndex /\ p \in Nat
  BY Sizes DEF a, LineTypes, RowIndex
<1>2. command_buffer \in [Cell -> Datum]
  BY DEF LineTypes
<1>3. ShiftLeft(p) =
        [c \in Cell |-> IF c >= At(a, p) /\ c < At(a, n)
                        THEN command_buffer[c + 1] ELSE command_buffer[c]]
  BY DEF ShiftLeft
<1> HIDE DEF n
<1>4. ASSUME NEW c \in Cell, c < At(a, n) PROVE c + 1 \in Cell
  <2>1. At(a, n) \in Cell
    BY <1>1, InRow
  <2>2. NumTty * TERMINAL_BUFFER_MAX_SIZE \in Nat
    BY Sizes
  <2> QED
    BY <1>4, <2>1, <2>2 DEF Cell
<1>5. ShiftLeft(p) \in [Cell -> Datum]
  BY <1>2, <1>3, <1>4
<1>6. ASSUME NEW t \in Tty, NEW i \in RowIndex
      PROVE  ShiftLeft(p)[At(t, i)] =
               IF t = a /\ i >= p /\ i < n
               THEN command_buffer[At(a, i + 1)] ELSE command_buffer[At(t, i)]
  <2>1. At(t, i) \in Cell
    BY InRow
  <2>2. (At(t, i) >= At(a, p) /\ At(t, i) < At(a, n)) <=> (t = a /\ i >= p /\ i < n)
    BY <1>1, Between
  <2>3. ASSUME t = a, i < n PROVE At(t, i) + 1 = At(a, i + 1)
    <3>1. i + 1 \in RowIndex /\ i \in Int
      BY <1>1, <2>3, Sizes DEF RowIndex
    <3>2. At(t, i) = At(t, 0) + i /\ At(t, i + 1) = At(t, 0) + (i + 1) /\ At(t, 0) \in Nat
      BY <3>1, InRow
    <3> QED
      BY <2>3, <3>1, <3>2
  <2> QED
    BY <1>3, <2>1, <2>2, <2>3
<1> QED
  BY <1>5, <1>6 DEF n

\* And so does clearing the line.
LEMMA ClearRow ==
  ASSUME active_terminal \in Tty, LineTypes, clear_key
  PROVE  /\ command_buffer' \in [Cell -> Datum]
         /\ \A t \in Tty, i \in RowIndex :
              command_buffer'[At(t, i)] =
                IF t = a /\ i < command_length[a] THEN NUL ELSE command_buffer[At(t, i)]
<1> DEFINE n == command_length[a]
<1>1. a \in Tty /\ n \in RowIndex /\ 0 \in RowIndex
  BY Sizes DEF a, LineTypes, RowIndex
<1>2. command_buffer \in [Cell -> Datum] /\ NUL \in Datum
  BY DEF LineTypes, Datum, NUL
<1>3. command_buffer' = [c \in Cell |-> IF c >= At(a, 0) /\ c < At(a, n)
                                        THEN NUL ELSE command_buffer[c]]
  BY DEF clear_key
<1> HIDE DEF n
<1>4. command_buffer' \in [Cell -> Datum]
  BY <1>2, <1>3
<1>5. ASSUME NEW t \in Tty, NEW i \in RowIndex
      PROVE  command_buffer'[At(t, i)] = IF t = a /\ i < n THEN NUL ELSE command_buffer[At(t, i)]
  <2>1. At(t, i) \in Cell /\ i >= 0
    BY InRow, Sizes DEF RowIndex
  <2>2. (At(t, i) >= At(a, 0) /\ At(t, i) < At(a, n)) <=> (t = a /\ i >= 0 /\ i < n)
    BY <1>1, Between
  <2> QED
    BY <1>3, <2>1, <2>2
<1> QED
  BY <1>4, <1>5 DEF n

\* The lines of the other terminals stay as they are.
OthersKept ==
  \A t \in Tty \ {active_terminal} :
    /\ command_length'[t] = command_length[t]
    /\ cursor_x'[t] = cursor_x[t]
    /\ \A i \in RowIndex : command_buffer'[At(t, i)] = command_buffer[At(t, i)]

\* What an editing key leaves behind: a well formed line of the active terminal.
Edited ==
  /\ LineTypes'
  /\ OthersKept
  /\ \A t \in Tty : t = active_terminal => WellFormed(t)'

\* Then every line is well formed.
LEMMA EditedLines ==
  ASSUME LineTypes, \A t \in Tty : WellFormed(t), Edited, UNCHANGED unread
  PROVE  LineTypes' /\ \A t \in Tty : WellFormed(t)'
<1>1. ASSUME NEW t \in Tty \ {active_terminal} PROVE WellFormed(t)'
  <2>1. /\ command_length[t] \in RowIndex
        /\ command_length'[t] = command_length[t] /\ cursor_x'[t] = cursor_x[t]
        /\ \A i \in RowIndex : command_buffer'[At(t, i)] = command_buffer[At(t, i)]
    BY DEF Edited, OthersKept, LineTypes
  <2>2. \A i \in 0 .. command_length[t] - 1 : i \in RowIndex
    BY <2>1, Sizes DEF RowIndex
  <2> QED
    BY <2>1, <2>2 DEF WellFormed
<1> QED
  BY <1>1 DEF Edited

\* What a key finds when no reader is at work.
LEMMA KeyFinds ==
  ASSUME IInv, tears = 0, Quiet
  PROVE  /\ active_terminal \in Tty /\ LineTypes /\ \A t \in Tty : WellFormed(t)
         /\ command_length[a] \in RowIndex /\ command_length[a] \in Nat
         /\ cursor_x[a] \in RowIndex /\ cursor_x[a] \in Nat /\ cursor_x[a] <= command_length[a]
         /\ unread \/ command_buffer[At(a, command_length[a])] = NUL
         /\ \A i \in 0 .. command_length[a] - 1 : command_buffer[At(a, i)] # NUL
<1>1. active_terminal \in Tty /\ LineTypes /\ \A t \in Tty : WellFormed(t)
  BY QuietLines DEF IInv, TypeOK
<1>2. RowIndex \subseteq Nat
  BY Sizes DEF RowIndex
<1> QED
  BY <1>1, <1>2 DEF a, LineTypes, WellFormed

\* A character key gives a character, whatever Shift and Caps Lock are.
LEMMA CharacterIsNotNul ==
  ASSUME NEW k \in Char
  PROVE  kbd_chars(k) \in Datum \ {NUL}
<1> DEFINE b == IF k = "1" THEN Flag("shift") ELSE Flag("shift") # Flag("caps")
<1>1. b \in BOOLEAN
  <2>1. Flag("shift") \in BOOLEAN /\ (Flag("shift") # Flag("caps")) \in BOOLEAN
    BY DEF Flag
  <2> HIDE DEF Flag
  <2>2. CASE k = "1"
    BY <2>1, <2>2
  <2>3. CASE k # "1"
    BY <2>1, <2>3
  <2> QED
    BY <2>2, <2>3
<1>2. kbd_chars(k) = <<k, b>>
  BY DEF kbd_chars
<1> HIDE DEF b
<1>3. k # "nul"
  BY DEF Char
<1>4. <<k, b>> \in Datum
  BY <1>1 DEF Datum
<1>5. <<k, b>> # NUL
  BY <1>3 DEF NUL
<1> QED
  BY <1>2, <1>4, <1>5

\* place_character_at_index()
LEMMA CharacterKey ==
  ASSUME IInv, tears = 0, Quiet, UNCHANGED unread, character_key
  PROVE  Edited
<1> DEFINE n == command_length[a]
<1> DEFINE p == cursor_x[a]
<1>1. /\ active_terminal \in Tty /\ LineTypes /\ n \in Nat /\ n \in RowIndex /\ p \in 0 .. n
      /\ unread \/ command_buffer[At(a, n)] = NUL
      /\ \A i \in 0 .. n - 1 : command_buffer[At(a, i)] # NUL
  BY KeyFinds
<1>2. (n + 1) % WORD = n + 1 /\ (p + 1) % WORD = p + 1
  <2>1. n + 1 \in 0 .. WORD - 1 /\ p + 1 \in 0 .. WORD - 1 /\ WORD \in Nat /\ WORD > 0
    BY <1>1, Sizes DEF RowIndex
  <2> QED
    BY <2>1, SmallMod
<1>3. n + 1 \in RowIndex
  BY <1>1, <1>2, Sizes DEF character_key, RoomForCharacter, RowIndex
<1>4. PICK k \in Char \cap Keys : place_character_at_index(k)
  BY DEF character_key
<1>5. kbd_chars(k) \in Datum /\ kbd_chars(k) # NUL
  BY <1>4, CharacterIsNotNul
<1>6. /\ command_buffer' = ShiftRight(p, kbd_chars(k))
      /\ command_length' = [command_length EXCEPT ![a] = n + 1]
      /\ cursor_x' = [cursor_x EXCEPT ![a] = p + 1]
  BY <1>2, <1>4 DEF place_character_at_index
<1>7. /\ command_buffer' \in [Cell -> Datum]
      /\ \A t \in Tty, i \in RowIndex :
           command_buffer'[At(t, i)] =
             IF t = a /\ i = p THEN kbd_chars(k)
             ELSE IF t = a /\ i > p /\ i <= n + 1
                  THEN command_buffer[At(a, i - 1)] ELSE command_buffer[At(t, i)]
  BY <1>1, <1>3, <1>5, <1>6, ShiftRightRow
<1>8. p + 1 \in RowIndex /\ a \in Tty /\ a = active_terminal
  BY <1>1, <1>3, Sizes DEF RowIndex, a
<1>9. /\ command_length'[a] = n + 1 /\ cursor_x'[a] = p + 1
      /\ \A t \in Tty \ {a} : command_length'[t] = command_length[t] /\ cursor_x'[t] = cursor_x[t]
  BY <1>1, <1>6, <1>8 DEF LineTypes
<1>10. LineTypes'
  BY <1>1, <1>3, <1>6, <1>7, <1>8 DEF LineTypes
<1> HIDE DEF n, p
<1>11. OthersKept
  BY <1>7, <1>8, <1>9 DEF OthersKept
<1>12. unread \/ command_buffer'[At(a, n + 1)] = NUL
  <2>1. n + 1 # p /\ n + 1 > p /\ n + 1 <= n + 1 /\ (n + 1) - 1 = n
    BY <1>1
  <2> QED
    BY <1>1, <1>3, <1>7, <1>8, <2>1
<1>13. ASSUME NEW i \in 0 .. n PROVE command_buffer'[At(a, i)] # NUL
  <2>1. i \in RowIndex
    BY <1>1, Sizes DEF RowIndex
  <2>2. CASE i < p
    <3>1. i \in 0 .. n - 1 /\ ~ (i > p) /\ i # p
      BY <1>1, <2>2
    <3> QED
      BY <1>1, <1>7, <1>8, <2>1, <3>1
  <2>3. CASE i = p
    BY <1>5, <1>7, <1>8, <2>1, <2>3
  <2>4. CASE i > p
    <3>1. i - 1 \in 0 .. n - 1 /\ i <= n + 1 /\ i # p
      BY <1>1, <2>4
    <3> QED
      BY <1>1, <1>7, <1>8, <2>1, <2>4, <3>1
  <2> QED
    BY <1>1, <2>2, <2>3, <2>4
<1>14. \A t \in Tty : t = active_terminal => WellFormed(t)'
  BY <1>1, <1>8, <1>9, <1>12, <1>13 DEF WellFormed
<1> QED
  BY <1>10, <1>11, <1>14 DEF Edited

\* Removing the character at column q of the line.
LEMMA Removed ==
  ASSUME IInv, tears = 0, Quiet, UNCHANGED unread, NEW q \in 0 .. command_length[a] - 1,
         NEW p \in 0 .. command_length[a] - 1,
         command_buffer' = ShiftLeft(q),
         command_length' = [command_length EXCEPT ![a] = (@ - 1) % WORD],
         cursor_x' = [cursor_x EXCEPT ![a] = p]
  PROVE  Edited /\ command_length' = [command_length EXCEPT ![a] = @ - 1]
<1> DEFINE n == command_length[a]
<1>1. /\ active_terminal \in Tty /\ LineTypes /\ n \in Nat /\ n \in RowIndex
      /\ unread \/ command_buffer[At(a, n)] = NUL
      /\ \A i \in 0 .. n - 1 : command_buffer[At(a, i)] # NUL
  BY KeyFinds
<1>2. (n - 1) % WORD = n - 1
  <2>1. n - 1 \in 0 .. WORD - 1 /\ WORD \in Nat /\ WORD > 0
    BY <1>1, Sizes DEF RowIndex
  <2> QED
    BY <2>1, SmallMod
<1>3. command_length' = [command_length EXCEPT ![a] = n - 1]
  BY <1>2
<1>4. n - 1 \in RowIndex /\ p \in RowIndex /\ a \in Tty /\ a = active_terminal
  BY <1>1, Sizes DEF RowIndex, a
<1>5. /\ command_buffer' \in [Cell -> Datum]
      /\ \A t \in Tty, i \in RowIndex :
           command_buffer'[At(t, i)] = IF t = a /\ i >= q /\ i < n
                                       THEN command_buffer[At(a, i + 1)] ELSE command_buffer[At(t, i)]
  BY <1>1, ShiftLeftRow
<1>6. /\ command_length'[a] = n - 1 /\ cursor_x'[a] = p
      /\ \A t \in Tty \ {a} : command_length'[t] = command_length[t] /\ cursor_x'[t] = cursor_x[t]
  BY <1>1, <1>3, <1>4 DEF LineTypes
<1>7. LineTypes'
  BY <1>1, <1>3, <1>4, <1>5 DEF LineTypes
<1>q. q \in 0 .. n - 1 /\ p \in 0 .. n - 1
  OBVIOUS
<1> HIDE DEF n
<1>8. OthersKept
  BY <1>4, <1>5, <1>6 DEF OthersKept
<1>9. unread \/ command_buffer'[At(a, n - 1)] = NUL
  <2>1. n - 1 >= q /\ n - 1 < n /\ (n - 1) + 1 = n
    BY <1>1, <1>q
  <2> QED
    BY <1>1, <1>4, <1>5, <2>1
<1>10. ASSUME NEW i \in 0 .. (n - 1) - 1 PROVE command_buffer'[At(a, i)] # NUL
  <2>1. i \in RowIndex /\ i \in 0 .. n - 1 /\ i + 1 \in 0 .. n - 1
    BY <1>1, Sizes DEF RowIndex
  <2> QED
    BY <1>1, <1>4, <1>5, <2>1
<1>11. \A t \in Tty : t = active_terminal => WellFormed(t)'
  BY <1>1, <1>q, <1>4, <1>6, <1>9, <1>10 DEF WellFormed
<1> QED
  BY <1>3, <1>7, <1>8, <1>11 DEF Edited, n

\* BKSP removes the character before the cursor.
LEMMA BackspaceKey ==
  ASSUME IInv, tears = 0, Quiet, UNCHANGED unread, backspace_key
  PROVE  /\ Edited
         /\ command_length' = [command_length EXCEPT ![a] = @ - 1]
         /\ cursor_x' = [cursor_x EXCEPT ![a] = @ - 1]
<1>1. /\ command_length[a] \in RowIndex /\ command_length[a] \in Nat
      /\ cursor_x[a] \in Nat /\ cursor_x[a] <= command_length[a]
  BY KeyFinds
<1>2. /\ cursor_x[a] > 0 /\ command_buffer' = ShiftLeft(cursor_x[a] - 1)
      /\ command_length' = [command_length EXCEPT ![a] = (@ - 1) % WORD]
      /\ cursor_x' = [cursor_x EXCEPT ![a] = (@ - 1) % WORD]
  BY DEF backspace_key
<1>3. cursor_x[a] - 1 \in 0 .. command_length[a] - 1
  BY <1>1, <1>2
<1>4. (cursor_x[a] - 1) % WORD = cursor_x[a] - 1
  <2>1. cursor_x[a] - 1 \in 0 .. WORD - 1 /\ WORD \in Nat /\ WORD > 0
    BY <1>1, <1>2, Sizes DEF RowIndex
  <2> QED
    BY <2>1, SmallMod
<1>5. cursor_x' = [cursor_x EXCEPT ![a] = cursor_x[a] - 1]
  BY <1>2, <1>4
<1> QED
  BY <1>2, <1>3, <1>5, Removed

\* DELETE removes the one under it.
LEMMA DeleteKey ==
  ASSUME IInv, tears = 0, Quiet, UNCHANGED unread, delete_key
  PROVE  Edited /\ command_length' = [command_length EXCEPT ![a] = @ - 1]
<1>1. command_length[a] \in Nat /\ cursor_x[a] \in Nat /\ active_terminal \in Tty /\ LineTypes
  BY KeyFinds
<1>2. /\ cursor_x[a] < command_length[a] /\ command_buffer' = ShiftLeft(cursor_x[a])
      /\ command_length' = [command_length EXCEPT ![a] = (@ - 1) % WORD]
      /\ cursor_x' = cursor_x
  BY DEF delete_key
<1>3. cursor_x[a] \in 0 .. command_length[a] - 1
  BY <1>1, <1>2
<1>4. cursor_x' = [cursor_x EXCEPT ![a] = cursor_x[a]]
  BY <1>1, <1>2 DEF LineTypes
<1> QED
  BY <1>2, <1>3, <1>4, Removed

\* The arrow keys move the cursor inside the line.
LEMMA ArrowKeys ==
  ASSUME IInv, tears = 0, Quiet, UNCHANGED unread, left_arrow \/ right_arrow
  PROVE  Edited
<1>1. /\ active_terminal \in Tty /\ LineTypes /\ \A t \in Tty : WellFormed(t)
      /\ command_length[a] \in RowIndex /\ command_length[a] \in Nat /\ cursor_x[a] \in Nat
      /\ cursor_x[a] <= command_length[a]
  BY KeyFinds
<1>2. PICK p \in 0 .. command_length[a] : cursor_x' = [cursor_x EXCEPT ![a] = p]
  <2>1. CASE left_arrow
    <3>1. cursor_x[a] - 1 \in 0 .. command_length[a]
          /\ cursor_x' = [cursor_x EXCEPT ![a] = cursor_x[a] - 1]
      BY <1>1, <2>1 DEF left_arrow
    <3> QED
      BY <3>1
  <2>2. CASE right_arrow
    <3>1. cursor_x[a] + 1 \in 0 .. command_length[a]
          /\ cursor_x' = [cursor_x EXCEPT ![a] = cursor_x[a] + 1]
      BY <1>1, <2>2 DEF right_arrow
    <3> QED
      BY <3>1
  <2> QED
    BY <2>1, <2>2
<1>3. UNCHANGED <<command_buffer, command_length>>
  BY DEF left_arrow, right_arrow
<1>4. p \in RowIndex /\ a \in Tty /\ a = active_terminal
  BY <1>1, Sizes DEF RowIndex, a
<1>5. LineTypes'
  BY <1>1, <1>2, <1>3, <1>4 DEF LineTypes
<1>6. OthersKept
  BY <1>1, <1>2, <1>3, <1>4 DEF OthersKept, LineTypes
<1>7. cursor_x'[a] = p /\ p <= command_length[a]
  BY <1>1, <1>2, <1>4 DEF LineTypes
<1>8. \A t \in Tty : t = active_terminal => WellFormed(t)'
  BY <1>1, <1>3, <1>4, <1>7 DEF WellFormed
<1> QED
  BY <1>5, <1>6, <1>8 DEF Edited

\* Ctrl+L leaves an empty line.
LEMMA ClearKey ==
  ASSUME IInv, tears = 0, Quiet, UNCHANGED unread, clear_key
  PROVE  Edited /\ command_length'[a] = 0 /\ cursor_x'[a] = 0
<1>1. /\ active_terminal \in Tty /\ LineTypes /\ command_length[a] \in RowIndex
      /\ command_length[a] \in Nat
      /\ unread \/ command_buffer[At(a, command_length[a])] = NUL
  BY KeyFinds
<1>2. /\ command_length' = [command_length EXCEPT ![a] = 0]
      /\ cursor_x' = [cursor_x EXCEPT ![a] = 0]
  BY DEF clear_key
<1>3. 0 \in RowIndex /\ a \in Tty /\ a = active_terminal
  BY <1>1, Sizes DEF RowIndex, a
<1>4. /\ command_buffer' \in [Cell -> Datum]
      /\ \A t \in Tty, i \in RowIndex :
           command_buffer'[At(t, i)] =
             IF t = a /\ i < command_length[a] THEN NUL ELSE command_buffer[At(t, i)]
  BY <1>1, ClearRow
<1>5. LineTypes'
  BY <1>1, <1>2, <1>3, <1>4 DEF LineTypes
<1>6. OthersKept
  BY <1>1, <1>2, <1>3, <1>4 DEF OthersKept, LineTypes
<1>7. command_length'[a] = 0 /\ cursor_x'[a] = 0
  BY <1>1, <1>2, <1>3 DEF LineTypes
<1>8. unread \/ command_buffer'[At(a, 0)] = NUL
  <2>1. CASE command_length[a] = 0
    BY <1>1, <1>3, <1>4, <2>1
  <2>2. CASE command_length[a] > 0
    BY <1>3, <1>4, <2>2
  <2> QED
    BY <1>1, <2>1, <2>2
<1>9. \A t \in Tty : t = active_terminal => WellFormed(t)'
  BY <1>3, <1>7, <1>8 DEF WellFormed
<1> QED
  BY <1>5, <1>6, <1>7, <1>9 DEF Edited

\* What process_keyboard_input() does, in any of its branches.
AnyKey ==
  \/ character_key \/ enter_key \/ backspace_key \/ delete_key \/ left_arrow \/ right_arrow
  \/ caps_key \/ modifier_down \/ modifier_up \/ function_key \/ clear_key

\* The keys that edit the line leave the terminal and the flags alone.
LEMMA WhatKeysChange ==
  ASSUME AnyKey
  PROVE  \/ /\ character_key \/ backspace_key \/ delete_key \/ left_arrow \/ right_arrow
            /\ UNCHANGED <<active_terminal, keyboardflag, allow_terminal_read, held>>
         \/ clear_key /\ UNCHANGED <<active_terminal, held>>
         \/ /\ enter_key \/ caps_key \/ modifier_down \/ modifier_up \/ function_key
            /\ UNCHANGED <<command_buffer, command_length, cursor_x>>
BY DEF AnyKey, character_key, backspace_key, delete_key, left_arrow, right_arrow, clear_key,
       enter_key, caps_key, modifier_down, modifier_up, function_key, UnchangedByEdit, line

\* Every branch leaves the lines well formed when no reader is at work, and
\* those of the other terminals untouched.
LEMMA KeyEdits ==
  ASSUME IInv, tears = 0, Quiet, UNCHANGED unread, AnyKey
  PROVE  LineTypes' /\ (\A t \in Tty : WellFormed(t)') /\ OthersKept
<1>1. LineTypes /\ \A t \in Tty : WellFormed(t)
  BY KeyFinds
<1>2. CASE character_key \/ backspace_key \/ delete_key \/ left_arrow \/ right_arrow \/ clear_key
  <2>1. Edited
    BY <1>2, CharacterKey, BackspaceKey, DeleteKey, ArrowKeys, ClearKey
  <2> QED
    BY <1>1, <2>1, EditedLines DEF Edited
<1>3. CASE UNCHANGED <<command_buffer, command_length, cursor_x>>
  BY <1>1, <1>3 DEF LineTypes, WellFormed, OthersKept
<1> QED
  BY <1>2, <1>3, WhatKeysChange

\* A switch only happens while Alt is down, so the flag it finds on the terminal
\* it switches to, perhaps left there by an earlier switch, is right again.
LEMMA KeyFlags ==
  ASSUME IInv, AnyKey
  PROVE  /\ active_terminal' \in Tty /\ keyboardflag' \in [Tty -> SUBSET Flags]
         /\ held' \in SUBSET Modifier /\ NoPhantomAlt'
<1>1. /\ active_terminal \in Tty /\ keyboardflag \in [Tty -> SUBSET Flags]
      /\ held \in SUBSET Modifier /\ ("alt" \in keyboardflag[active_terminal] => "alt" \in held)
  BY DEF IInv, TypeOK, NoPhantomAlt
<1>2. CASE UNCHANGED <<active_terminal, keyboardflag, held>>
  BY <1>1, <1>2 DEF NoPhantomAlt
<1>3. CASE clear_key
  <2>1. /\ keyboardflag' = [keyboardflag EXCEPT ![active_terminal] = @ \ {"ctrl"}]
        /\ UNCHANGED <<active_terminal, held>>
    BY <1>3 DEF clear_key, a
  <2> QED
    BY <1>1, <2>1 DEF NoPhantomAlt
<1>4. CASE caps_key
  <2>1. /\ keyboardflag' = [keyboardflag EXCEPT ![active_terminal] =
                              IF "caps" \in @ THEN @ \ {"caps"} ELSE @ \cup {"caps"}]
        /\ UNCHANGED <<active_terminal, held>>
    BY <1>4 DEF caps_key, a
  <2> QED
    BY <1>1, <2>1 DEF NoPhantomAlt, Flags
<1>5. CASE modifier_down
  <2>1. PICK m \in Modifier : /\ keyboardflag' = [keyboardflag EXCEPT ![active_terminal] = @ \cup {m}]
                              /\ held' = held \cup {m} /\ active_terminal' = active_terminal
    BY <1>5 DEF modifier_down, a
  <2> QED
    BY <1>1, <2>1 DEF NoPhantomAlt, Flags
<1>6. CASE modifier_up
  <2>1. PICK m \in held : /\ keyboardflag' = [keyboardflag EXCEPT ![active_terminal] = @ \ {m}]
                          /\ held' = held \ {m} /\ active_terminal' = active_terminal
    BY <1>6 DEF modifier_up, FlagsWithout, a
  <2> QED
    BY <1>1, <2>1 DEF NoPhantomAlt
<1>7. CASE function_key
  <2>1. /\ \E k \in FunctionKey \cap Keys : active_terminal' = TerminalOf(k)
        /\ "alt" \in keyboardflag[active_terminal] /\ UNCHANGED <<keyboardflag, held>>
    BY <1>7 DEF function_key, Flag, a
  <2>2. active_terminal' \in Tty
    BY <2>1, TerminalAssumption
  <2> QED
    BY <1>1, <2>1, <2>2 DEF NoPhantomAlt
<1>8. CASE enter_key
  <2>1. UNCHANGED <<active_terminal, keyboardflag, held>>
    BY <1>8 DEF enter_key
  <2> QED
    BY <1>2, <2>1
<1> QED
  BY <1>2, <1>3, <1>4, <1>5, <1>6, <1>7, <1>8, WhatKeysChange

\* A keyboard interrupt preserves the invariant.
LEMMA InterruptStep ==
  ASSUME IInv, keyboard_interruption(AnyKey)
  PROVE  IInv'
<1>1. /\ AnyKey
      /\ tears' = IF /\ \E t \in Tty : InCriticalSection(t)
                     /\ <<active_terminal, line>>' # <<active_terminal, line>>
                  THEN tears + 1 ELSE tears
      /\ UNCHANGED <<reader, mixed, unread, taken>>
  BY DEF keyboard_interruption
<1>2. UNCHANGED <<pc, index, nbytes, buf, mixed, unread, taken>> /\ tears \in Nat
  BY <1>1 DEF reader, IInv, TypeOK
<1>3. /\ active_terminal' \in Tty /\ keyboardflag' \in [Tty -> SUBSET Flags]
      /\ held' \in SUBSET Modifier /\ NoPhantomAlt'
  BY <1>1, KeyFlags
<1>4. TypeOK'
  <2>1. tears' \in Nat
    BY <1>1, <1>2
  <2> QED
    BY <1>2, <1>3, <2>1 DEF IInv, TypeOK
<1>5. IndexInRow'
  <2>1. tears' = 0 => tears = 0
    BY <1>1, <1>2
  <2> QED
    BY <1>2, <2>1 DEF IInv, IndexInRow
<1>6. tears = 0 /\ Quiet => LineTypes' /\ \A t \in Tty : WellFormed(t)'
  BY <1>1, KeyEdits
<1>7. Lines' /\ LinesWellFormed' /\ Reads'
  BY <1>1, <1>3, <1>6, KeyStep
<1> QED
  BY <1>3, <1>4, <1>5, <1>7 DEF IInv

-----------------------------------------------------------------------------
(* terminal_read() *)

\* The statements of terminal_read() that do not touch the line.
LEMMA SilentStep ==
  ASSUME IInv, UNCHANGED <<active_terminal, command_buffer, command_length, cursor_x, tears,
                           mixed, unread>>,
         \A u \in Tty : /\ (InCriticalSection(u)' <=> InCriticalSection(u))
                        /\ InCriticalSection(u) => /\ pc'[u] = pc[u] /\ index'[u] = index[u]
                                                   /\ buf'[u] = buf[u] /\ nbytes'[u] = nbytes[u]
                                                   /\ taken'[u] = taken[u],
         \A u \in Tty : Cleared(u)' => Cleared(u),
         \A u \in Tty : (pc'[u] = "cursor") <=> (pc[u] = "cursor")
  PROVE  Lines' /\ LinesWellFormed' /\ Reads'
<1>1. Lines'
  BY DEF IInv, Lines, a
<1>2. LinesWellFormed'
  BY DEF IInv, LinesWellFormed, BeingRead, BeingReset
<1>3. \A u \in Tty : InCriticalSection(u) => Copied(u)' = Copied(u)
  BY DEF Copied
<1>4. Reads'
  <2> SUFFICES ASSUME tears' = 0, ~ mixed', NEW t \in Tty, InCriticalSection(t)'
               PROVE  /\ \A u \in Tty \ {t} : ~ InCriticalSection(u)'
                      /\ nbytes'[t] > 0 /\ pc'[t] # "cursor"
                           => StartCopied(t)' /\ RestThere(t)' /\ LineTaken(t)'
    BY DEF Reads
  <2>1. /\ InCriticalSection(t) /\ \A u \in Tty \ {t} : ~ InCriticalSection(u)
        /\ nbytes[t] > 0 /\ pc[t] # "cursor" => StartCopied(t) /\ RestThere(t) /\ LineTaken(t)
    BY DEF IInv, Reads
  <2>2. /\ pc'[t] = pc[t] /\ index'[t] = index[t] /\ buf'[t] = buf[t] /\ Copied(t)' = Copied(t)
        /\ nbytes'[t] = nbytes[t] /\ taken'[t] = taken[t]
    BY <1>3, <2>1
  <2>3. /\ StartCopied(t) => StartCopied(t)'
        /\ RestThere(t) => RestThere(t)'
        /\ LineTaken(t) => LineTaken(t)'
    BY <2>2 DEF StartCopied, RestThere, LineTaken, a
  <2> QED
    BY <2>1, <2>2, <2>3
<1> QED
  BY <1>1, <1>2, <1>4

\* A reader's step leaves the other readers where they are.
LEMMA OtherReaders ==
  ASSUME IInv, NEW t \in Tty, NEW v,
         pc' = [pc EXCEPT ![t] = v],
         \A u \in Tty \ {t} : index'[u] = index[u] /\ nbytes'[u] = nbytes[u]
  PROVE  /\ pc'[t] = v
         /\ \A u \in Tty \ {t} : /\ pc'[u] = pc[u]
                                 /\ (InCriticalSection(u)' <=> InCriticalSection(u))
                                 /\ (Cleared(u)' <=> Cleared(u)) /\ Copied(u)' = Copied(u)
<1>1. pc'[t] = v /\ \A u \in Tty \ {t} : pc'[u] = pc[u]
  BY DEF IInv, TypeOK
<1> QED
  BY <1>1 DEF InCriticalSection, Cleared, Copied

\* The invariant says nothing about the locks and about what is lost.
LEMMA SameInvariant ==
  ASSUME IInv, UNCHANGED <<active_terminal, command_buffer, command_length, cursor_x, keyboardflag,
                           held, pc, index, nbytes, buf, tears, mixed, unread, taken>>
  PROVE  IInv'
<1>1. TypeOK' /\ IndexInRow' /\ NoPhantomAlt'
  BY DEF IInv, TypeOK, IndexInRow, NoPhantomAlt
<1>2. \A u \in Tty : /\ (InCriticalSection(u)' <=> InCriticalSection(u))
                     /\ (Cleared(u)' <=> Cleared(u))
  BY DEF InCriticalSection, Cleared
<1>3. Lines' /\ LinesWellFormed' /\ Reads'
  BY <1>2, SilentStep
<1> QED
  BY <1>1, <1>3 DEF IInv

\* A program calls read().
LEMMA StartStep ==
  ASSUME IInv, NEW t \in Tty, read_start(t)
  PROVE  IInv'
<1>1. /\ pc[t] = "out" /\ pc' = [pc EXCEPT ![t] = "spin"]
      /\ UNCHANGED <<active_terminal, command_buffer, command_length, cursor_x, keyboardflag,
                     held, index, buf, tears, mixed, unread, taken>>
  BY DEF read_start, line, history
<1>2. nbytes' \in [Tty -> Int] /\ \A u \in Tty \ {t} : nbytes'[u] = nbytes[u]
  <2>1. PICK n \in Int : nbytes' = [nbytes EXCEPT ![t] = n]
    BY TerminalAssumption DEF read_start
  <2> QED
    BY <2>1, ReaderTypes
<1>3. /\ pc'[t] = "spin"
      /\ \A u \in Tty \ {t} : /\ pc'[u] = pc[u]
                              /\ (InCriticalSection(u)' <=> InCriticalSection(u))
                              /\ (Cleared(u)' <=> Cleared(u)) /\ Copied(u)' = Copied(u)
  BY <1>1, <1>2, OtherReaders
<1>4. TypeOK'
  BY <1>1, <1>2 DEF IInv, TypeOK, ReaderAt
<1>5. IndexInRow'
  BY <1>1, <1>2, <1>3 DEF IInv, IndexInRow
<1>6. NoPhantomAlt'
  BY <1>1 DEF IInv, NoPhantomAlt
<1>7. ~ InCriticalSection(t) /\ ~ InCriticalSection(t)' /\ ~ Cleared(t)'
  BY <1>1, <1>3 DEF InCriticalSection, Cleared
<1>8. Lines' /\ LinesWellFormed' /\ Reads'
  <2>1. \A u \in Tty : /\ (InCriticalSection(u)' <=> InCriticalSection(u))
                       /\ InCriticalSection(u) => /\ pc'[u] = pc[u] /\ index'[u] = index[u]
                                                  /\ buf'[u] = buf[u] /\ nbytes'[u] = nbytes[u]
                                                  /\ taken'[u] = taken[u]
    BY <1>1, <1>2, <1>3, <1>7
  <2>2. \A u \in Tty : Cleared(u)' => Cleared(u)
    BY <1>1, <1>3, <1>7
  <2>3. \A u \in Tty : (pc'[u] = "cursor") <=> (pc[u] = "cursor")
    BY <1>1, <1>3, <1>7
  <2> QED
    BY <1>1, <2>1, <2>2, <2>3, SilentStep
<1> QED
  BY <1>4, <1>5, <1>6, <1>8 DEF IInv

\* The spin loop ends; a read of no bytes goes straight to the resets.
LEMMA UnlockedStep ==
  ASSUME IInv, NEW t \in Tty, read_unlocked(t)
  PROVE  IInv'
<1> DEFINE v == IF nbytes[t] > 0 THEN "copy" ELSE "length"
<1>1. /\ pc[t] = "spin" /\ pc' = [pc EXCEPT ![t] = v]
      /\ index' = [index EXCEPT ![t] = 0]
      /\ mixed' = (mixed \/ (nbytes[t] <= 0 /\ Another(t)))
      /\ UNCHANGED <<active_terminal, command_buffer, command_length, cursor_x, keyboardflag,
                     held, nbytes, buf, tears, unread, taken>>
  BY DEF read_unlocked, line
<1>2. index'[t] = 0 /\ \A u \in Tty \ {t} : index'[u] = index[u] /\ nbytes'[u] = nbytes[u]
  BY <1>1 DEF IInv, TypeOK
<1>3. /\ pc'[t] = v
      /\ \A u \in Tty \ {t} : /\ pc'[u] = pc[u]
                              /\ (InCriticalSection(u)' <=> InCriticalSection(u))
                              /\ (Cleared(u)' <=> Cleared(u)) /\ Copied(u)' = Copied(u)
  <2> HIDE DEF v
  <2> QED
    BY <1>1, <1>2, OtherReaders
<1>4. TypeOK'
  <2>1. v \in ReaderAt /\ mixed' \in BOOLEAN
    BY <1>1 DEF ReaderAt
  <2> HIDE DEF v
  <2> QED
    BY <1>1, <2>1 DEF IInv, TypeOK
<1>5. IndexInRow'
  <2> SUFFICES ASSUME NEW u \in Tty
               PROVE  (/\ pc[u] \in {"copy", "clear"} => index[u] < nbytes[u]
                       /\ pc[u] = "length" => index[u] = IF nbytes[u] > 0 THEN nbytes[u] ELSE 0
                       /\ tears = 0 => /\ pc[u] = "clear" => index[u] \in RowIndex
                                       /\ pc[u] \in {"copy", "length"}
                                            => index[u] <= TERMINAL_BUFFER_MAX_SIZE)'
    BY DEF IndexInRow
  <2>1. CASE u = t
    <3>1. nbytes'[t] = nbytes[t] /\ nbytes[t] \in Int /\ 0 <= TERMINAL_BUFFER_MAX_SIZE
      BY <1>1, ReaderTypes, Sizes
    <3> QED
      BY <1>2, <1>3, <2>1, <3>1
  <2>2. CASE u # t
    BY <1>1, <1>2, <1>3, <2>2 DEF IInv, IndexInRow
  <2> QED
    BY <2>1, <2>2
<1>6. NoPhantomAlt'
  BY <1>1 DEF IInv, NoPhantomAlt
<1>7. /\ ~ InCriticalSection(t) /\ ~ Cleared(t)'
      /\ nbytes[t] > 0 => ~ InCriticalSection(t)'
  <2>1. nbytes'[t] = nbytes[t]
    BY <1>1
  <2> QED
    BY <1>1, <1>2, <1>3, <2>1 DEF InCriticalSection, Cleared
<1>8. \A u \in Tty : (pc'[u] = "cursor") <=> (pc[u] = "cursor")
  BY <1>1, <1>3
<1>9. Lines'
  BY <1>1, <1>3, <1>7, <1>8 DEF IInv, Lines, a
<1>10. LinesWellFormed'
  <2>1. \A u \in Tty : /\ BeingRead(u) => BeingRead(u)'
                       /\ BeingReset(u) => BeingReset(u)'
    BY <1>1, <1>3, <1>7, <1>8 DEF BeingRead, BeingReset
  <2> QED
    BY <1>1, <2>1 DEF IInv, LinesWellFormed
<1>11. Reads'
  <2>1. CASE nbytes[t] > 0
    <3>1. mixed' = mixed
      <4>1. ~ (nbytes[t] <= 0)
        BY <2>1, ReaderTypes
      <4>2. mixed \in BOOLEAN /\ mixed' = (mixed \/ (nbytes[t] <= 0 /\ Another(t)))
        BY <1>1 DEF IInv, TypeOK
      <4> QED
        BY <4>1, <4>2
    <3>2. \A u \in Tty : /\ (InCriticalSection(u)' <=> InCriticalSection(u))
                         /\ InCriticalSection(u) => /\ pc'[u] = pc[u] /\ index'[u] = index[u]
                                                    /\ buf'[u] = buf[u] /\ nbytes'[u] = nbytes[u]
                                                    /\ taken'[u] = taken[u]
      BY <1>1, <1>2, <1>3, <1>7, <2>1
    <3>3. \A u \in Tty : Cleared(u)' => Cleared(u)
      BY <1>3, <1>7
    <3> QED
      BY <1>1, <1>8, <3>1, <3>2, <3>3, SilentStep
  <2>2. CASE ~ (nbytes[t] > 0)
    <3> SUFFICES ASSUME ~ mixed' PROVE Reads'
      BY DEF Reads
    <3>1. \A u \in Tty \ {t} : ~ InCriticalSection(u)'
      <4>1. nbytes[t] <= 0
        BY <2>2, ReaderTypes
      <4>2. ~ Another(t)
        BY <1>1, <4>1
      <4> QED
        BY <1>3, <4>2 DEF Another
    <3>2. ~ (nbytes'[t] > 0)
      BY <1>1, <2>2
    <3> QED
      BY <3>1, <3>2 DEF Reads
  <2> QED
    BY <2>1, <2>2
<1> QED
  BY <1>4, <1>5, <1>6, <1>9, <1>10, <1>11 DEF IInv

\* The program gets its buffer.
LEMMA LockStep ==
  ASSUME IInv, NEW t \in Tty, read_lock(t)
  PROVE  IInv'
<1>1. /\ pc[t] = "lock" /\ pc' = [pc EXCEPT ![t] = "out"]
      /\ index' = [index EXCEPT ![t] = 0] /\ nbytes' = [nbytes EXCEPT ![t] = 0]
      /\ buf' = [buf EXCEPT ![t] = NoBytes] /\ taken' = [taken EXCEPT ![t] = NoRow]
      /\ UNCHANGED <<active_terminal, command_buffer, command_length, cursor_x, keyboardflag,
                     held, tears, mixed, unread>>
  BY DEF read_lock, line
<1>2. /\ index'[t] = 0
      /\ \A u \in Tty \ {t} : /\ index'[u] = index[u] /\ nbytes'[u] = nbytes[u] /\ buf'[u] = buf[u]
                              /\ taken'[u] = taken[u]
  BY <1>1 DEF IInv, TypeOK
<1>3. /\ pc'[t] = "out"
      /\ \A u \in Tty \ {t} : /\ pc'[u] = pc[u]
                              /\ (InCriticalSection(u)' <=> InCriticalSection(u))
                              /\ (Cleared(u)' <=> Cleared(u)) /\ Copied(u)' = Copied(u)
  BY <1>1, <1>2, OtherReaders
<1>4. TypeOK'
  <2>1. DOMAIN buf' = Tty /\ buf'[t] = NoBytes /\ DOMAIN taken' = Tty
    BY <1>1 DEF IInv, TypeOK
  <2>2. \A u \in Tty : DOMAIN buf'[u] = Cell
    BY <1>2, <2>1 DEF IInv, TypeOK, NoBytes
  <2> QED
    BY <1>1, <2>1, <2>2 DEF IInv, TypeOK, ReaderAt
<1>5. IndexInRow'
  BY <1>1, <1>2, <1>3 DEF IInv, IndexInRow
<1>6. NoPhantomAlt'
  BY <1>1 DEF IInv, NoPhantomAlt
<1>7. ~ InCriticalSection(t) /\ ~ InCriticalSection(t)' /\ ~ Cleared(t)'
  BY <1>1, <1>3 DEF InCriticalSection, Cleared
<1>8. Lines' /\ LinesWellFormed' /\ Reads'
  <2>1. \A u \in Tty : /\ (InCriticalSection(u)' <=> InCriticalSection(u))
                       /\ InCriticalSection(u) => /\ pc'[u] = pc[u] /\ index'[u] = index[u]
                                                  /\ buf'[u] = buf[u] /\ nbytes'[u] = nbytes[u]
                                                  /\ taken'[u] = taken[u]
    BY <1>1, <1>2, <1>3, <1>7
  <2>2. \A u \in Tty : Cleared(u)' => Cleared(u)
    BY <1>1, <1>2, <1>3, <1>7
  <2>3. \A u \in Tty : (pc'[u] = "cursor") <=> (pc[u] = "cursor")
    BY <1>1, <1>2, <1>3, <1>7
  <2> QED
    BY <1>1, <2>1, <2>2, <2>3, SilentStep
<1> QED
  BY <1>4, <1>5, <1>6, <1>8 DEF IInv

\* A character is copied.
LEMMA CopyStep ==
  ASSUME IInv, NEW t \in Tty, read_copy(t)
  PROVE  IInv'
<1>1. /\ pc[t] = "copy" /\ pc' = [pc EXCEPT ![t] = "clear"]
      /\ buf' = [buf EXCEPT ![t][index[t]] = command_buffer[At(a, index[t])]]
      /\ mixed' = (mixed \/ Another(t))
      /\ tears' = IF index[t] \in RowIndex \/ tears > 0 THEN tears ELSE 1
      /\ UNCHANGED <<active_terminal, command_buffer, command_length, cursor_x, keyboardflag,
                     held, index, nbytes, unread>>
  BY DEF read_copy, line
<1>t. taken' = IF index[t] > 0 THEN taken
               ELSE [taken EXCEPT ![t] = [i \in RowIndex |-> command_buffer[At(a, i)]]]
  BY DEF read_copy
<1>2. /\ pc'[t] = "clear"
      /\ \A u \in Tty \ {t} : /\ pc'[u] = pc[u]
                              /\ (InCriticalSection(u)' <=> InCriticalSection(u))
                              /\ (Cleared(u)' <=> Cleared(u)) /\ Copied(u)' = Copied(u)
  BY <1>1, OtherReaders
<1>3. /\ index[t] \in Nat /\ index[t] < nbytes[t] /\ nbytes[t] \in Int /\ nbytes[t] > 0
      /\ tears \in Nat
  BY <1>1, IndexFits, ReaderTypes
<1>z. tears' \in Nat /\ (tears' = 0 => tears = 0 /\ index[t] \in RowIndex)
  BY <1>1, <1>3
<1>4. /\ DOMAIN buf' = Tty /\ buf'[t] = [buf[t] EXCEPT ![index[t]] = command_buffer[At(a, index[t])]]
      /\ \A u \in Tty \ {t} : buf'[u] = buf[u]
  BY <1>1 DEF IInv, TypeOK
<1>5. TypeOK'
  <2>1. \A u \in Tty : DOMAIN buf'[u] = Cell
    BY <1>4 DEF IInv, TypeOK
  <2>2. mixed' \in BOOLEAN
    BY <1>1
  <2>3. DOMAIN taken' = Tty
    BY <1>t DEF IInv, TypeOK
  <2> QED
    BY <1>1, <1>4, <1>z, <2>1, <2>2, <2>3 DEF IInv, TypeOK, ReaderAt
<1>6. IndexInRow' /\ NoPhantomAlt'
  <2>1. IndexInRow'
    <3> SUFFICES ASSUME NEW u \in Tty
                 PROVE  (/\ pc[u] \in {"copy", "clear"} => index[u] < nbytes[u]
                         /\ pc[u] = "length" => index[u] = IF nbytes[u] > 0 THEN nbytes[u] ELSE 0
                         /\ tears = 0 => /\ pc[u] = "clear" => index[u] \in RowIndex
                                         /\ pc[u] \in {"copy", "length"}
                                              => index[u] <= TERMINAL_BUFFER_MAX_SIZE)'
      BY DEF IndexInRow
    <3>1. CASE u = t
      BY <1>1, <1>2, <1>3, <1>z, <3>1
    <3>2. CASE u # t
      BY <1>1, <1>2, <1>z, <3>2 DEF IInv, IndexInRow
    <3> QED
      BY <3>1, <3>2
  <2>2. NoPhantomAlt'
    BY <1>1 DEF IInv, NoPhantomAlt
  <2> QED
    BY <2>1, <2>2
<1>7. Cleared(t)' => Cleared(t)
  BY <1>1, <1>2 DEF Cleared
<1>8. InCriticalSection(t)'
  BY <1>2 DEF InCriticalSection
<1>9. Lines'
  BY <1>1, <1>2, <1>7, <1>z DEF IInv, Lines, a
<1>10. LinesWellFormed'
  BY <1>1, <1>2, <1>8, <1>z DEF IInv, LinesWellFormed, BeingRead, BeingReset
<1>11. Reads'
  <2> SUFFICES ASSUME tears' = 0, ~ mixed' PROVE Reads'
    BY DEF Reads
  <2>1. /\ ~ mixed /\ tears = 0 /\ index[t] \in RowIndex
        /\ \A u \in Tty \ {t} : ~ InCriticalSection(u) /\ ~ InCriticalSection(u)'
    BY <1>1, <1>2, <1>z DEF Another
  <2>2. /\ command_length[a] \in RowIndex /\ active_terminal \in Tty /\ RowIndex \subseteq Nat
        /\ command_length'[a'] = command_length[a] /\ index'[t] = index[t] /\ a' = a
    BY <1>1, <2>1, TypesOfLines, ReaderTypes, Sizes DEF LineTypes, a, RowIndex
  <2>3. /\ \A i \in 0 .. index[t] - 1 : buf[t][i] = taken'[t][i]
        /\ RestThere(t)' /\ LineTaken(t)'
    <3>1. CASE index[t] > 0
      <4>1. InCriticalSection(t) /\ Copied(t) = index[t]
        BY <1>1, <3>1 DEF InCriticalSection, Copied
      <4>2. StartCopied(t) /\ RestThere(t) /\ LineTaken(t)
        BY <1>1, <1>3, <2>1, <4>1 DEF IInv, Reads
      <4>3. taken' = taken
        BY <1>t, <3>1
      <4> QED
        BY <1>1, <2>2, <4>1, <4>2, <4>3 DEF StartCopied, RestThere, LineTaken
    <3>2. CASE ~ (index[t] > 0)
      <4>1. index[t] = 0 /\ ~ InCriticalSection(t)
        BY <1>1, <1>3, <3>2 DEF InCriticalSection
      <4>2. Quiet
        BY <2>1, <4>1 DEF Quiet
      <4>3. /\ \A i \in 0 .. command_length[a] - 1 : command_buffer[At(a, i)] # NUL
            /\ unread \/ command_buffer[At(a, command_length[a])] = NUL
        BY <2>1, <4>2, KeyFinds
      <4>4. \A i \in RowIndex : taken'[t][i] = command_buffer[At(a, i)]
        <5>1. taken'[t] = [i \in RowIndex |-> command_buffer[At(a, i)]]
          BY <1>t, <3>2 DEF IInv, TypeOK
        <5> QED
          BY <5>1
      <4>5. \A i \in 0 .. command_length[a] - 1 : i \in RowIndex
        <5>1. \A n \in RowIndex : \A i \in 0 .. n - 1 : i \in RowIndex
          BY Sizes DEF RowIndex
        <5> QED
          BY <2>2, <5>1
      <4>6. RestThere(t)'
        BY <1>1, <2>2, <4>4 DEF RestThere
      <4>7. LineTaken(t)'
        BY <1>1, <2>2, <4>3, <4>4, <4>5 DEF LineTaken
      <4> QED
        BY <4>1, <4>6, <4>7
    <3> QED
      BY <3>1, <3>2
  <2>4. index[t] \in Cell
    <3>1. RowIndex \subseteq Cell
      <4>1. 0 \in Tty
        BY Sizes DEF Tty
      <4>2. \A i \in RowIndex : At(0, i) \in Cell /\ i \in Int
        BY <4>1, InRow, Sizes DEF RowIndex
      <4>3. \A i \in RowIndex : At(0, i) = i
        BY <4>2, Sizes DEF At
      <4> QED
        BY <4>2, <4>3
    <3> QED
      BY <2>1, <3>1
  <2>5. /\ buf'[t][index[t]] = command_buffer[At(a, index[t])]
        /\ \A i \in 0 .. index[t] - 1 : buf'[t][i] = buf[t][i]
    <3>1. DOMAIN buf[t] = Cell
      BY DEF IInv, TypeOK
    <3>2. buf'[t][index[t]] = command_buffer[At(a, index[t])]
      BY <1>4, <2>4, <3>1
    <3>3. ASSUME NEW i \in 0 .. index[t] - 1 PROVE buf'[t][i] = buf[t][i]
      <4>1. i # index[t] /\ i \in Cell
        BY <1>3, <2>4, Sizes DEF Cell
      <4> QED
        BY <1>4, <3>1, <4>1
    <3> QED
      BY <3>2, <3>3
  <2>6. command_buffer[At(a, index[t])] = taken'[t][index[t]]
    BY <1>1, <1>3, <2>1, <2>2, <2>3 DEF RestThere
  <2>7. Copied(t)' = index[t] + 1 /\ (index[t] + 1) - 1 = index[t]
    BY <1>1, <1>2, <1>3 DEF Copied
  <2>8. StartCopied(t)'
    <3>1. ASSUME NEW i \in 0 .. index[t] PROVE buf'[t][i] = taken'[t][i]
      <4>1. i = index[t] \/ i \in 0 .. index[t] - 1
        BY <1>3
      <4> QED
        BY <2>3, <2>5, <2>6, <4>1
    <3> QED
      BY <2>7, <3>1 DEF StartCopied
  <2> QED
    BY <2>1, <2>3, <2>8 DEF Reads
<1> QED
  BY <1>5, <1>6, <1>9, <1>10, <1>11 DEF IInv

\* The character is cleared; the loop goes on, or the line is done.
LEMMA ClearStep ==
  ASSUME IInv, NEW t \in Tty, read_clear(t)
  PROVE  IInv'
<1> DEFINE v == IF index[t] + 1 < nbytes[t] THEN "copy" ELSE "length"
<1>1. /\ pc[t] = "clear" /\ pc' = [pc EXCEPT ![t] = v]
      /\ index' = [index EXCEPT ![t] = index[t] + 1]
      /\ command_buffer' = [command_buffer EXCEPT ![At(a, index[t])] = NUL]
      /\ UNCHANGED <<active_terminal, command_length, cursor_x, keyboardflag,
                     held, nbytes, buf, tears, mixed, unread, taken>>
  BY DEF read_clear, ClearCell, history
<1>2. index'[t] = index[t] + 1 /\ \A u \in Tty \ {t} : index'[u] = index[u] /\ nbytes'[u] = nbytes[u]
  BY <1>1 DEF IInv, TypeOK
<1>3. /\ pc'[t] = v
      /\ \A u \in Tty \ {t} : /\ pc'[u] = pc[u]
                              /\ (InCriticalSection(u)' <=> InCriticalSection(u))
                              /\ (Cleared(u)' <=> Cleared(u)) /\ Copied(u)' = Copied(u)
  <2>1. pc' = [pc EXCEPT ![t] = v] /\ \A u \in Tty \ {t} : index'[u] = index[u] /\ nbytes'[u] = nbytes[u]
    BY <1>1, <1>2
  <2> HIDE DEF v
  <2> QED
    BY <2>1, OtherReaders
<1>4. /\ index[t] \in Nat /\ index[t] < nbytes[t] /\ nbytes[t] \in Int /\ nbytes[t] > 0
      /\ (tears = 0 => index[t] \in RowIndex) /\ a \in Tty /\ a = active_terminal /\ a' = a
  <2>1. pc[t] \in {"copy", "clear"} /\ pc[t] = "clear" /\ a = active_terminal /\ a' = a
    BY <1>1 DEF a
  <2> QED
    BY <2>1, IndexFits, ReaderTypes
<1>5. TypeOK'
  <2>1. v \in ReaderAt /\ index[t] + 1 \in Nat
    BY <1>4 DEF ReaderAt
  <2>2. pc \in [Tty -> ReaderAt] /\ index \in [Tty -> Nat]
    BY ReaderTypes
  <2> HIDE DEF v
  <2>3. pc' \in [Tty -> ReaderAt] /\ index' \in [Tty -> Nat]
    BY <1>1, <2>1, <2>2
  <2> QED
    BY <1>1, <2>3 DEF IInv, TypeOK
<1>6. IndexInRow' /\ NoPhantomAlt'
  <2>1. IndexInRow'
    <3> SUFFICES ASSUME NEW u \in Tty
                 PROVE  (/\ pc[u] \in {"copy", "clear"} => index[u] < nbytes[u]
                         /\ pc[u] = "length" => index[u] = IF nbytes[u] > 0 THEN nbytes[u] ELSE 0
                         /\ tears = 0 => /\ pc[u] = "clear" => index[u] \in RowIndex
                                         /\ pc[u] \in {"copy", "length"}
                                              => index[u] <= TERMINAL_BUFFER_MAX_SIZE)'
      BY DEF IndexInRow
    <3>1. nbytes' = nbytes /\ tears' = tears
      BY <1>1
    <3>2. CASE u = t
      <4>1. pc'[t] = v /\ index'[t] = index[t] + 1
        BY <1>2, <1>3
      <4>2. tears = 0 => index[t] + 1 <= TERMINAL_BUFFER_MAX_SIZE
        BY <1>4, Sizes DEF RowIndex
      <4> QED
        BY <1>4, <3>1, <3>2, <4>1, <4>2
    <3>3. CASE u # t
      <4>1. pc'[u] = pc[u] /\ index'[u] = index[u]
        BY <1>2, <1>3, <3>3
      <4> QED
        BY <3>1, <4>1 DEF IInv, IndexInRow
    <3> QED
      BY <3>2, <3>3
  <2>2. NoPhantomAlt'
    BY <1>1 DEF IInv, NoPhantomAlt
  <2> QED
    BY <2>1, <2>2
<1>7. InCriticalSection(t) /\ InCriticalSection(t)' /\ pc'[t] # "cursor"
  BY <1>1, <1>2, <1>3, <1>4 DEF InCriticalSection
<1>8. CASE tears # 0
  BY <1>1, <1>5, <1>6, <1>8 DEF IInv, Lines, LinesWellFormed, Reads
<1>9. CASE tears = 0
  <2>1. /\ command_buffer \in [Cell -> Datum] /\ NUL \in Datum
        /\ command_length \in [Tty -> RowIndex] /\ cursor_x \in [Tty -> RowIndex]
    BY <1>9 DEF IInv, Lines, RowIndex, Datum, NUL
  <2>2. /\ command_buffer' \in [Cell -> Datum]
        /\ \A u \in Tty, i \in RowIndex :
             command_buffer'[At(u, i)] =
               IF u = a /\ i = index[t] THEN NUL ELSE command_buffer[At(u, i)]
    <3>1. \A u \in Tty, i \in RowIndex :
            At(u, i) \in Cell /\ (At(u, i) = At(a, index[t]) <=> u = a /\ i = index[t])
      <4> SUFFICES ASSUME NEW u \in Tty, NEW i \in RowIndex
                   PROVE  /\ At(u, i) \in Cell
                          /\ At(u, i) = At(a, index[t]) <=> u = a /\ i = index[t]
        OBVIOUS
      <4>1. At(u, i) \in Cell
        BY InRow
      <4>2. a \in Tty /\ index[t] \in RowIndex
        BY <1>4, <1>9
      <4>3. At(u, i) = At(a, index[t]) <=> u = a /\ i = index[t]
        BY <4>2, Between
      <4> QED
        BY <4>1, <4>3
    <3> QED
      BY <1>1, <2>1, <3>1
  <2>3. \A u \in Tty : command_length[u] \in RowIndex
                       /\ \A i \in 0 .. command_length[u] - 1 : i \in RowIndex
    BY <2>1, Sizes DEF RowIndex
  <2>4. 0 \in RowIndex
    BY Sizes DEF RowIndex
  <2>5. Lines'
    <3>1. command_buffer'[At(a, 0)] = NUL
      <4>1. CASE index[t] = 0
        BY <1>4, <2>2, <2>4, <4>1
      <4>2. CASE index[t] > 0
        <5>1. Cleared(t)
          BY <1>1, <1>4, <4>2 DEF Cleared
        <5>2. command_buffer[At(a, 0)] = NUL
          BY <1>9, <5>1 DEF IInv, Lines
        <5> QED
          BY <1>4, <2>2, <2>4, <5>2
      <4>3. index[t] = 0 \/ index[t] > 0
        BY <1>4
      <4> QED
        BY <4>1, <4>2, <4>3
    <3>2. \A u \in Tty : pc'[u] = "cursor" => pc[u] = "cursor"
      BY <1>3, <1>7
    <3>3. \A u \in Tty : pc'[u] = "cursor" => command_length'[a] = 0
      BY <1>1, <1>9, <3>2 DEF IInv, Lines
    <3> QED
      BY <1>1, <1>4, <2>1, <2>2, <3>1, <3>3 DEF Lines, RowIndex
  <2>6. LinesWellFormed'
    <3>1. ASSUME NEW u \in Tty
          PROVE  (/\ command_length[u] < TERMINAL_BUFFER_MAX_SIZE
                  /\ BeingReset(u) \/ cursor_x[u] <= command_length[u]
                  /\ unread \/ command_buffer[At(u, command_length[u])] = NUL
                  /\ \/ BeingRead(u)
                     \/ \A i \in 0 .. command_length[u] - 1 : command_buffer[At(u, i)] # NUL)'
      <4>1. /\ command_length[u] < TERMINAL_BUFFER_MAX_SIZE
            /\ BeingReset(u) \/ cursor_x[u] <= command_length[u]
            /\ unread \/ command_buffer[At(u, command_length[u])] = NUL
            /\ \/ BeingRead(u)
               \/ \A i \in 0 .. command_length[u] - 1 : command_buffer[At(u, i)] # NUL
        BY <1>9 DEF IInv, LinesWellFormed
      <4>2. BeingReset(u) => BeingReset(u)'
        BY <1>1, <1>3 DEF BeingReset
      <4>3. unread \/ command_buffer'[At(u, command_length[u])] = NUL
        BY <2>2, <2>3, <4>1
      <4>4. CASE u = a
        <5>1. BeingRead(u)'
          BY <1>4, <1>7, <4>4 DEF BeingRead, a
        <5> QED
          BY <1>1, <4>1, <4>2, <4>3, <5>1
      <4>5. CASE u # a
        <5>1. ~ BeingRead(u)
          BY <1>4, <4>5 DEF BeingRead
        <5>2. \A i \in 0 .. command_length[u] - 1 : command_buffer'[At(u, i)] # NUL
          BY <2>2, <2>3, <4>1, <4>5, <5>1
        <5> QED
          BY <1>1, <4>1, <4>2, <4>3, <5>2
      <4> QED
        BY <4>4, <4>5
    <3> QED
      BY <3>1 DEF LinesWellFormed
  <2>7. Reads'
    <3> SUFFICES ASSUME ~ mixed PROVE Reads'
      BY <1>1 DEF Reads
    <3>1. /\ StartCopied(t) /\ RestThere(t) /\ LineTaken(t)
          /\ \A u \in Tty \ {t} : ~ InCriticalSection(u) /\ ~ InCriticalSection(u)'
      BY <1>1, <1>3, <1>4, <1>7, <1>9 DEF IInv, Reads
    <3>2. Copied(t)' = Copied(t)
      BY <1>1, <1>2, <1>3, <1>7 DEF Copied
    <3>3. StartCopied(t)'
      BY <1>1, <1>4, <3>1, <3>2 DEF StartCopied
    <3>4. RestThere(t)' /\ LineTaken(t)'
      <4>1. ASSUME NEW i \in RowIndex, i >= index[t] + 1
            PROVE  command_buffer'[At(a, i)] = taken[t][i]
        <5>1. i >= index[t] /\ i # index[t]
          BY <1>4, <4>1, Sizes DEF RowIndex
        <5> QED
          BY <1>4, <2>2, <3>1, <5>1 DEF RestThere
      <4>2. RestThere(t)'
        BY <1>1, <1>2, <1>4, <4>1 DEF RestThere
      <4>3. LineTaken(t)'
        BY <1>1, <1>4, <3>1 DEF LineTaken
      <4> QED
        BY <4>2, <4>3
    <3> QED
      BY <3>1, <3>3, <3>4 DEF Reads
  <2> QED
    BY <1>5, <1>6, <2>5, <2>6, <2>7 DEF IInv
<1> QED
  BY <1>8, <1>9

\* The length of the active line is reset.
LEMMA LengthStep ==
  ASSUME IInv, NEW t \in Tty, read_reset_length(t)
  PROVE  IInv'
<1>1. /\ pc[t] = "length" /\ pc' = [pc EXCEPT ![t] = "cursor"]
      /\ command_length' = [command_length EXCEPT ![a] = 0]
      /\ UNCHANGED <<active_terminal, command_buffer, cursor_x, keyboardflag,
                     held, index, nbytes, buf, tears, mixed, taken>>
      /\ unread' = (unread \/ nbytes[t] <= 0)
  BY DEF read_reset_length
<1>2. /\ pc'[t] = "cursor"
      /\ \A u \in Tty \ {t} : /\ pc'[u] = pc[u]
                              /\ (InCriticalSection(u)' <=> InCriticalSection(u))
                              /\ (Cleared(u)' <=> Cleared(u)) /\ Copied(u)' = Copied(u)
  BY <1>1, OtherReaders
<1>3. TypeOK'
  <2>1. unread' \in BOOLEAN
    BY <1>1
  <2> QED
    BY <1>1, <2>1 DEF IInv, TypeOK, ReaderAt
<1>4. IndexInRow' /\ NoPhantomAlt'
  BY <1>1, <1>2 DEF IInv, IndexInRow, NoPhantomAlt
<1>5. InCriticalSection(t) /\ InCriticalSection(t)'
  BY <1>1, <1>2 DEF InCriticalSection
<1>6. CASE tears # 0
  BY <1>1, <1>3, <1>4, <1>6 DEF IInv, Lines, LinesWellFormed, Reads
<1>7. CASE tears = 0
  <2>1. /\ command_length \in [Tty -> RowIndex] /\ a \in Tty /\ a = active_terminal /\ a' = a
        /\ 0 \in RowIndex
    <3>1. LineTypes /\ 0 \in RowIndex
      BY <1>7, TypesOfLines, Sizes DEF RowIndex
    <3> QED
      BY <1>1, <3>1, ReaderTypes DEF LineTypes, a
  <2>2. /\ command_length' \in [Tty -> RowIndex] /\ command_length'[a] = 0
        /\ \A u \in Tty \ {a} : command_length'[u] = command_length[u]
    BY <1>1, <2>1
  <2>3. unread' \/ command_buffer'[At(a, 0)] = NUL
    <3>1. CASE nbytes[t] <= 0
      BY <1>1, <3>1
    <3>2. CASE nbytes[t] > 0
      <4>1. Cleared(t)
        BY <1>1, <3>2 DEF Cleared
      <4> QED
        BY <1>1, <1>7, <4>1 DEF IInv, Lines
    <3> QED
      BY <3>1, <3>2, ReaderTypes
  <2>c. \A u \in Tty : Cleared(u)' => Cleared(u)
    <3>1. Cleared(t)' => Cleared(t)
      BY <1>1, <1>2 DEF Cleared
    <3> QED
      BY <1>2, <3>1
  <2>4. Lines'
    BY <1>1, <1>7, <2>1, <2>2, <2>c DEF IInv, Lines, RowIndex
  <2>5. BeingReset(a)'
    BY <1>2 DEF BeingReset, a
  <2>6. LinesWellFormed'
    <3>1. \A u \in Tty \ {a} : ~ BeingRead(u) /\ ~ BeingReset(u)
      BY <2>1 DEF BeingRead, BeingReset
    <3>2. ASSUME NEW u \in Tty \ {a}
          PROVE  (/\ command_length[u] < TERMINAL_BUFFER_MAX_SIZE
                  /\ BeingReset(u) \/ cursor_x[u] <= command_length[u]
                  /\ unread \/ command_buffer[At(u, command_length[u])] = NUL
                  /\ \/ BeingRead(u)
                     \/ \A i \in 0 .. command_length[u] - 1 : command_buffer[At(u, i)] # NUL)'
      BY <1>1, <1>7, <2>2, <3>1 DEF IInv, LinesWellFormed
    <3>3. (/\ command_length[a] < TERMINAL_BUFFER_MAX_SIZE
           /\ BeingReset(a) \/ cursor_x[a] <= command_length[a]
           /\ unread \/ command_buffer[At(a, command_length[a])] = NUL
           /\ \/ BeingRead(a)
              \/ \A i \in 0 .. command_length[a] - 1 : command_buffer[At(a, i)] # NUL)'
      BY <2>1, <2>2, <2>3, <2>5, Sizes
    <3> QED
      BY <2>1, <3>2, <3>3 DEF LinesWellFormed
  <2>7. Reads'
    BY <1>1, <1>2, <1>5, <1>7 DEF IInv, Reads
  <2> QED
    BY <1>3, <1>4, <2>4, <2>6, <2>7 DEF IInv
<1> QED
  BY <1>6, <1>7

\* The cursor of the active line, which is empty now, is reset.
LEMMA CursorStep ==
  ASSUME IInv, NEW t \in Tty, read_reset_cursor(t)
  PROVE  IInv'
<1>1. /\ pc[t] = "cursor" /\ pc' = [pc EXCEPT ![t] = "lock"]
      /\ cursor_x' = [cursor_x EXCEPT ![a] = 0]
      /\ UNCHANGED <<active_terminal, command_buffer, command_length, keyboardflag,
                     held, index, nbytes, buf, tears, mixed, unread, taken>>
  BY DEF read_reset_cursor, history
<1>2. /\ pc'[t] = "lock"
      /\ \A u \in Tty \ {t} : /\ pc'[u] = pc[u]
                              /\ (InCriticalSection(u)' <=> InCriticalSection(u))
                              /\ (Cleared(u)' <=> Cleared(u)) /\ Copied(u)' = Copied(u)
  BY <1>1, OtherReaders
<1>3. TypeOK'
  BY <1>1 DEF IInv, TypeOK, ReaderAt
<1>4. IndexInRow' /\ NoPhantomAlt'
  BY <1>1, <1>2 DEF IInv, IndexInRow, NoPhantomAlt
<1>5. InCriticalSection(t) /\ ~ InCriticalSection(t)' /\ ~ Cleared(t)'
  BY <1>1, <1>2 DEF InCriticalSection, Cleared
<1>6. CASE tears # 0
  BY <1>1, <1>3, <1>4, <1>6 DEF IInv, Lines, LinesWellFormed, Reads
<1>7. CASE tears = 0
  <2>1. /\ cursor_x \in [Tty -> RowIndex] /\ a \in Tty /\ a = active_terminal /\ a' = a
        /\ 0 \in RowIndex /\ command_length[a] = 0
    <3>1. LineTypes /\ 0 \in RowIndex
      BY <1>7, TypesOfLines, Sizes DEF RowIndex
    <3>2. command_length[a] = 0
      BY <1>1, <1>7 DEF IInv, Lines
    <3> QED
      BY <1>1, <3>1, <3>2, ReaderTypes DEF LineTypes, a
  <2>2. /\ cursor_x' \in [Tty -> RowIndex] /\ cursor_x'[a] = 0
        /\ \A u \in Tty \ {a} : cursor_x'[u] = cursor_x[u]
    BY <1>1, <2>1
  <2>3. Lines'
    BY <1>1, <1>2, <1>5, <1>7, <2>1, <2>2 DEF IInv, Lines, RowIndex
  <2>4. LinesWellFormed'
    <3>1. \A u \in Tty \ {a} : ~ BeingRead(u) /\ ~ BeingReset(u)
      BY <2>1 DEF BeingRead, BeingReset
    <3>2. ASSUME NEW u \in Tty \ {a}
          PROVE  (/\ command_length[u] < TERMINAL_BUFFER_MAX_SIZE
                  /\ BeingReset(u) \/ cursor_x[u] <= command_length[u]
                  /\ unread \/ command_buffer[At(u, command_length[u])] = NUL
                  /\ \/ BeingRead(u)
                     \/ \A i \in 0 .. command_length[u] - 1 : command_buffer[At(u, i)] # NUL)'
      BY <1>1, <1>7, <2>2, <3>1 DEF IInv, LinesWellFormed
    <3>3. command_length'[a] = 0 /\ (unread' \/ command_buffer'[At(a, 0)] = NUL)
      BY <1>1, <1>7, <2>1 DEF IInv, LinesWellFormed
    <3>4. ASSUME NEW u \in Tty, u = a
          PROVE  (/\ command_length[u] < TERMINAL_BUFFER_MAX_SIZE
                  /\ BeingReset(u) \/ cursor_x[u] <= command_length[u]
                  /\ unread \/ command_buffer[At(u, command_length[u])] = NUL
                  /\ \/ BeingRead(u)
                     \/ \A i \in 0 .. command_length[u] - 1 : command_buffer[At(u, i)] # NUL)'
      <4>1. command_length'[u] = 0 /\ cursor_x'[u] = 0 /\ (unread' \/ command_buffer'[At(u, 0)] = NUL)
        BY <2>2, <3>3, <3>4
      <4>2. 0 < TERMINAL_BUFFER_MAX_SIZE /\ 0 .. 0 - 1 = {}
        BY Sizes
      <4> QED
        BY <4>1, <4>2
    <3> QED
      BY <3>2, <3>4 DEF LinesWellFormed
  <2>5. Reads'
    BY <1>1, <1>2, <1>5, <1>7 DEF IInv, Reads
  <2> QED
    BY <1>3, <1>4, <2>3, <2>4, <2>5 DEF IInv
<1> QED
  BY <1>6, <1>7

\* A reader leaves the buffer: nothing changes any more.
LEMMA OutsideStep ==
  ASSUME IInv, NEW t \in Tty, read_outside(t)
  PROVE  IInv'
<1>1. UNCHANGED <<active_terminal, command_buffer, command_length, cursor_x, keyboardflag,
                  held, pc, index, nbytes, buf, tears, mixed, unread, taken>>
  BY DEF read_outside, line, reader
<1> QED
  BY <1>1, SameInvariant

-----------------------------------------------------------------------------
(* All steps together *)

\* At boot every line is empty.
LEMMA InitIInv == Init => IInv
<1> SUFFICES ASSUME Init PROVE IInv
  OBVIOUS
<1>1. /\ 0 \in Tty /\ 0 \in RowIndex /\ NUL \in Datum
      /\ \A t \in Tty : At(t, 0) \in Cell
  <2>1. 0 \in Tty /\ 0 \in RowIndex
    BY Sizes DEF Tty, RowIndex
  <2>2. NUL \in Datum
    BY DEF NUL, Datum
  <2> QED
    BY <2>1, <2>2, InRow
<1>2. \A t \in Tty : pc[t] = "out" /\ command_length[t] = 0 /\ cursor_x[t] = 0
                     /\ command_buffer[At(t, 0)] = NUL /\ keyboardflag[t] = {}
  BY <1>1 DEF Init
<1>3. \A t \in Tty : ~ InCriticalSection(t) /\ ~ Cleared(t)
  BY <1>2 DEF InCriticalSection, Cleared
<1>4. TypeOK
  <2>1. mixed \in BOOLEAN /\ unread \in BOOLEAN /\ DOMAIN taken = Tty
    BY DEF Init
  <2>2. DOMAIN buf = Tty /\ \A t \in Tty : DOMAIN buf[t] = Cell
    BY DEF Init, NoBytes
  <2>3. /\ active_terminal \in Tty /\ keyboardflag \in [Tty -> SUBSET Flags]
        /\ held \in SUBSET Modifier /\ tears \in Nat
    BY <1>1 DEF Init
  <2>4. /\ pc \in [Tty -> ReaderAt] /\ index \in [Tty -> Nat]
        /\ nbytes \in [Tty -> Int]
    BY Sizes DEF Init, ReaderAt
  <2> QED
    BY <2>1, <2>2, <2>3, <2>4 DEF TypeOK
<1>5. IndexInRow /\ NoPhantomAlt
  BY <1>1, <1>2 DEF Init, IndexInRow, NoPhantomAlt
<1>6. Lines
  BY <1>1, <1>2, <1>3 DEF Init, Lines, RowIndex
<1>7. LinesWellFormed
  <2> SUFFICES ASSUME NEW t \in Tty
               PROVE  /\ command_length[t] < TERMINAL_BUFFER_MAX_SIZE
                      /\ cursor_x[t] <= command_length[t]
                      /\ command_buffer[At(t, command_length[t])] = NUL
                      /\ \A i \in 0 .. command_length[t] - 1 : command_buffer[At(t, i)] # NUL
    BY DEF LinesWellFormed
  <2>1. command_length[t] = 0 /\ cursor_x[t] = 0 /\ command_buffer[At(t, 0)] = NUL
    BY <1>2
  <2>2. 0 < TERMINAL_BUFFER_MAX_SIZE /\ 0 .. 0 - 1 = {}
    BY Sizes
  <2> QED
    BY <2>1, <2>2
<1>8. Reads
  BY <1>3 DEF Reads
<1> QED
  BY <1>4, <1>5, <1>6, <1>7, <1>8 DEF IInv

\* The kinds of steps.
LEMMA Steps ==
  ASSUME Next
  PROVE  \/ keyboard_interruption(AnyKey)
         \/ \E t \in Tty : \/ read_start(t) \/ read_unlocked(t) \/ read_copy(t) \/ read_clear(t)
                           \/ read_reset_length(t) \/ read_reset_cursor(t) \/ read_lock(t)
                           \/ read_outside(t)
<1>1. CASE EditingKey \/ keyboard_interruption(clear_key)
  BY <1>1 DEF EditingKey, keyboard_interruption, AnyKey
<1> QED
  BY <1>1 DEF Next, terminal_read

\* Every step preserves the invariant.
LEMMA NextIInv == IInv /\ [Next]_vars => IInv'
<1> SUFFICES ASSUME IInv, [Next]_vars PROVE IInv'
  OBVIOUS
<1>1. CASE UNCHANGED vars
  <2>1. UNCHANGED <<active_terminal, command_buffer, command_length, cursor_x, keyboardflag,
                    held, pc, index, nbytes, buf, tears, mixed, unread, taken>>
    BY <1>1 DEF vars, line, reader, history
  <2> QED
    BY <2>1, SameInvariant
<1>2. CASE Next
  BY <1>2, Steps, InterruptStep, StartStep, UnlockedStep, CopyStep, ClearStep, LengthStep,
     CursorStep, LockStep, OutsideStep
<1> QED
  BY <1>1, <1>2

\* The invariant holds in every reachable state.
LEMMA TerminalInvariant == Spec => []IInv
BY InitIInv, NextIInv, PTL DEF Spec

\* While no key lands inside a read and no read leaves its row, every command
\* line fits its row, its cursor is inside it and its characters come first; until
\* a read of no bytes drops a line, a NUL follows them.  This is so whatever the
\* interleaving of keys, switches and readers, for any buffer size and whatever
\* sizes programs pass to read().
THEOREM AlwaysLinesWellFormed == Spec => []LinesWellFormed
<1>1. IInv => LinesWellFormed
  BY DEF IInv
<1> QED
  BY <1>1, TerminalInvariant, PTL

\* A reader that is neither disturbed by a key nor mixed with another reader, and
\* does not leave its row, hands its program the bytes of the line, in their
\* order, whatever size it passes to read().
THEOREM AlwaysWholeLineRead == Spec => []WholeLineRead
<1>1. IInv => WholeLineRead
  <2> SUFFICES ASSUME IInv, tears = 0, ~ mixed, NEW t \in Tty, pc[t] = "length",
                      NEW i \in 0 .. nbytes[t] - 1
               PROVE  /\ buf[t][i] = taken[t][i]
                      /\ i < command_length[a] => buf[t][i] # NUL
                      /\ i = command_length[a] => unread \/ buf[t][i] = NUL
    BY DEF WholeLineRead
  <2>1. nbytes[t] \in Int /\ nbytes[t] > 0 /\ i \in Nat
    BY ReaderTypes
  <2>2. Copied(t) = nbytes[t] /\ InCriticalSection(t)
    BY <2>1 DEF IInv, IndexInRow, Copied, InCriticalSection
  <2>3. StartCopied(t) /\ LineTaken(t)
    BY <2>1, <2>2 DEF IInv, Reads
  <2>4. buf[t][i] = taken[t][i]
    BY <2>2, <2>3 DEF StartCopied
  <2>5. command_length[a] \in Nat
    BY TypesOfLines, ReaderTypes, Sizes DEF LineTypes, a, RowIndex
  <2>6. i < command_length[a] => i \in 0 .. command_length[a] - 1
    BY <2>1, <2>5
  <2> QED
    BY <2>3, <2>4, <2>6 DEF LineTaken
<1> QED
  BY <1>1, TerminalInvariant, PTL

\* The Alt flag the driver consults is never left over from an earlier switch.
THEOREM AlwaysNoPhantomAlt == Spec => []NoPhantomAlt
<1>1. IInv => NoPhantomAlt
  BY DEF IInv
<1> QED
  BY <1>1, TerminalInvariant, PTL

\* No step writes outside the row of the active terminal.
LEMMA StepsKeepOthers ==
  ASSUME IInv, Next, tears' = 0
  PROVE  OthersKept
<1>1. CASE UNCHANGED <<command_buffer, command_length, cursor_x>>
  BY <1>1 DEF OthersKept
<1>2. CASE keyboard_interruption(AnyKey)
  <2>1. /\ AnyKey
        /\ tears' = IF /\ \E t \in Tty : InCriticalSection(t)
                       /\ <<active_terminal, line>>' # <<active_terminal, line>>
                    THEN tears + 1 ELSE tears
    BY <1>2 DEF keyboard_interruption
  <2>u. UNCHANGED unread
    BY <1>2 DEF keyboard_interruption
  <2>2. tears = 0
    BY <2>1, ReaderTypes
  <2>3. CASE Quiet
    BY <2>1, <2>u, <2>2, <2>3, KeyEdits
  <2>4. CASE ~ Quiet
    <3>1. <<active_terminal, line>>' = <<active_terminal, line>>
      BY <2>1, <2>2, <2>4 DEF Quiet
    <3> QED
      BY <1>1, <3>1 DEF line
  <2> QED
    BY <2>3, <2>4
<1>3. ASSUME NEW t \in Tty, read_clear(t) PROVE OthersKept
  <2>1. /\ pc[t] = "clear" /\ command_buffer' = [command_buffer EXCEPT ![At(a, index[t])] = NUL]
        /\ UNCHANGED <<command_length, cursor_x, tears>>
    BY <1>3 DEF read_clear, ClearCell, history
  <2>2. tears = 0 /\ index[t] \in RowIndex /\ a \in Tty /\ a = active_terminal
    BY <2>1, IndexFits, ReaderTypes DEF a
  <2>3. \A u \in Tty \ {a}, i \in RowIndex : At(u, i) \in Cell /\ At(u, i) # At(a, index[t])
    BY <2>2, InRow, Between
  <2>4. command_buffer \in [Cell -> Datum]
    BY <2>1 DEF IInv, Lines
  <2> QED
    BY <2>1, <2>2, <2>3, <2>4 DEF OthersKept
<1>4. ASSUME NEW t \in Tty, read_reset_length(t) \/ read_reset_cursor(t) PROVE OthersKept
  <2>1. /\ command_buffer' = command_buffer /\ tears' = tears
        /\ \/ command_length' = [command_length EXCEPT ![a] = 0] /\ cursor_x' = cursor_x
           \/ cursor_x' = [cursor_x EXCEPT ![a] = 0] /\ command_length' = command_length
    BY <1>4 DEF read_reset_length, read_reset_cursor, history
  <2>2. /\ DOMAIN command_length = Tty /\ DOMAIN cursor_x = Tty
    BY <2>1 DEF IInv, Lines
  <2> QED
    BY <2>1, <2>2 DEF OthersKept, a
<1>5. ASSUME NEW t \in Tty, read_start(t) \/ read_unlocked(t) \/ read_copy(t) \/ read_lock(t)
                          \/ read_outside(t)
      PROVE  UNCHANGED <<command_buffer, command_length, cursor_x>>
  BY <1>5 DEF read_start, read_unlocked, read_copy, read_lock, read_outside,
                line
<1> QED
  BY <1>1, <1>2, <1>3, <1>4, <1>5, Steps

\* No key and no reader writes outside the row of the active terminal until a key
\* tears a read or a read goes on behind its row, whatever sizes programs pass to
\* read().
THEOREM AlwaysOnlyActiveLineChanges == Spec => OnlyActiveLineChanges
<1> DEFINE Kept == tears' = 0 => \A t \in Tty \ {active_terminal} :
                     /\ command_length'[t] = command_length[t]
                     /\ cursor_x'[t] = cursor_x[t]
                     /\ \A i \in RowIndex :
                          command_buffer'[At(t, i)] = command_buffer[At(t, i)]
<1>1. IInv /\ [Next]_vars => [Kept]_vars
  <2> SUFFICES ASSUME IInv, Next, tears' = 0 PROVE OthersKept
    BY DEF OthersKept
  <2> QED
    BY StepsKeepOthers
<1>2. [][Kept]_vars => OnlyActiveLineChanges
  BY DEF OnlyActiveLineChanges
<1> QED
  BY <1>1, <1>2, TerminalInvariant, PTL DEF Spec

-----------------------------------------------------------------------------
(* The lines as sequences: the line editor *)

\* Sequences with the same elements are the same.
LEMMA SameSequence ==
  ASSUME NEW S, NEW x \in Seq(S), NEW y \in Seq(S), Len(x) = Len(y),
         \A i \in 1 .. Len(x) : x[i] = y[i]
  PROVE  x = y
OBVIOUS

\* A sequence with s inserted behind its first p elements.
LEMMA InsertSeq ==
  ASSUME NEW S, NEW x \in Seq(S), NEW y \in Seq(S), NEW s \in S, NEW p \in 0 .. Len(x),
         Len(y) = Len(x) + 1,
         \A i \in 1 .. Len(x) + 1 : y[i] = IF i <= p THEN x[i] ELSE IF i = p + 1 THEN s ELSE x[i - 1]
  PROVE  y = Append(SubSeq(x, 1, p), s) \o SubSeq(x, p + 1, Len(x))
<1> DEFINE l == SubSeq(x, 1, p)
<1> DEFINE r == SubSeq(x, p + 1, Len(x))
<1>1. l \in Seq(S) /\ Len(l) = p /\ \A i \in 1 .. p : l[i] = x[i]
  OBVIOUS
<1>2. r \in Seq(S) /\ Len(r) = Len(x) - p /\ \A i \in 1 .. Len(x) - p : r[i] = x[p + i]
  OBVIOUS
<1> HIDE DEF l, r
<1>3. Append(l, s) \in Seq(S) /\ Len(Append(l, s)) = p + 1
      /\ \A i \in 1 .. p + 1 : Append(l, s)[i] = IF i = p + 1 THEN s ELSE x[i]
  BY <1>1
<1> DEFINE z == Append(l, s) \o r
<1>4. z \in Seq(S) /\ Len(z) = Len(x) + 1
  BY <1>2, <1>3
<1>5. ASSUME NEW i \in 1 .. Len(x) + 1
      PROVE  z[i] = IF i <= p THEN x[i] ELSE IF i = p + 1 THEN s ELSE x[i - 1]
  <2>1. CASE i <= p + 1
    BY <1>2, <1>3, <2>1
  <2>2. CASE i > p + 1
    <3>1. i - (p + 1) \in 1 .. Len(x) - p /\ p + (i - (p + 1)) = i - 1
      BY <2>2
    <3>2. z[i] = r[i - (p + 1)]
      BY <1>2, <1>3, <2>2
    <3>3. r[i - (p + 1)] = x[i - 1]
      BY <1>2, <3>1
    <3> QED
      BY <2>2, <3>2, <3>3
  <2>3. i <= p + 1 \/ i > p + 1
    OBVIOUS
  <2> HIDE DEF z
  <2> QED
    BY <2>1, <2>2, <2>3
<1> HIDE DEF z
<1>6. y = z
  BY <1>4, <1>5, SameSequence
<1> QED
  BY <1>6 DEF z, l, r

\* A sequence without its element q.
LEMMA DeleteSeq ==
  ASSUME NEW S, NEW x \in Seq(S), NEW y \in Seq(S), NEW q \in 1 .. Len(x),
         Len(y) = Len(x) - 1,
         \A i \in 1 .. Len(x) - 1 : y[i] = IF i < q THEN x[i] ELSE x[i + 1]
  PROVE  /\ y = SubSeq(x, 1, q - 1) \o SubSeq(x, q + 1, Len(x))
         /\ y = SubSeq(x, 1, q - 1) \o Tail(SubSeq(x, q, Len(x)))
<1> DEFINE l == SubSeq(x, 1, q - 1)
<1> DEFINE r == SubSeq(x, q + 1, Len(x))
<1>1. l \in Seq(S) /\ Len(l) = q - 1 /\ \A i \in 1 .. q - 1 : l[i] = x[i]
  OBVIOUS
<1>2. r \in Seq(S) /\ Len(r) = Len(x) - q /\ \A i \in 1 .. Len(x) - q : r[i] = x[q + i]
  OBVIOUS
<1> HIDE DEF l, r
<1> DEFINE z == l \o r
<1>3. z \in Seq(S) /\ Len(z) = Len(x) - 1
  BY <1>1, <1>2
<1>4. ASSUME NEW i \in 1 .. Len(x) - 1
      PROVE  z[i] = IF i < q THEN x[i] ELSE x[i + 1]
  <2>1. CASE i < q
    BY <1>1, <1>2, <2>1
  <2>2. CASE i >= q
    <3>1. i - (q - 1) \in 1 .. Len(x) - q /\ q + (i - (q - 1)) = i + 1
      BY <2>2
    <3>2. z[i] = r[i - (q - 1)]
      BY <1>1, <1>2, <2>2
    <3>3. r[i - (q - 1)] = x[i + 1]
      BY <1>2, <3>1
    <3> QED
      BY <2>2, <3>2, <3>3
  <2>3. i \in Int
    OBVIOUS
  <2> HIDE DEF z
  <2> QED
    BY <2>1, <2>2, <2>3
<1> HIDE DEF z
<1>5. y = z
  BY <1>3, <1>4, SameSequence
<1>6. Tail(SubSeq(x, q, Len(x))) = r
  <2> DEFINE w == SubSeq(x, q, Len(x))
  <2>1. w \in Seq(S) /\ Len(w) = Len(x) - q + 1
        /\ \A i \in 1 .. Len(x) - q + 1 : w[i] = x[q - 1 + i]
    OBVIOUS
  <2> HIDE DEF w
  <2>2. w # << >>
    <3>1. Len(w) # 0
      BY <2>1
    <3> QED
      BY <3>1
  <2>3. Tail(w) \in Seq(S) /\ Len(Tail(w)) = Len(w) - 1
    BY <2>1, <2>2
  <2>4. \A i \in 1 .. Len(w) - 1 : Tail(w)[i] = w[i + 1]
    BY <2>1, <2>2
  <2>5. ASSUME NEW i \in 1 .. Len(x) - q PROVE Tail(w)[i] = r[i]
    <3>1. i + 1 \in 1 .. Len(x) - q + 1 /\ q - 1 + (i + 1) = q + i /\ i \in 1 .. Len(w) - 1
      BY <2>1
    <3> QED
      BY <1>2, <2>1, <2>4, <3>1
  <2>6. Tail(w) = r
    <3> DEFINE v == Tail(w)
    <3>1. v \in Seq(S) /\ Len(v) = Len(x) - q /\ \A i \in 1 .. Len(x) - q : v[i] = r[i]
      BY <2>1, <2>3, <2>5
    <3> HIDE DEF v
    <3>2. v = r
      BY <1>2, <3>1, SameSequence
    <3> QED
      BY <3>2 DEF v
  <2> QED
    BY <2>6 DEF w
<1> QED
  BY <1>5, <1>6 DEF z, l, r

Row(t) == [i \in 1 .. command_length[t] |-> command_buffer[At(t, i - 1)]]
Symbol == Datum \ {NUL}

\* A well formed line is a sequence of characters.
LEMMA RowIsSequence ==
  ASSUME LineTypes, NEW t \in Tty, WellFormed(t)
  PROVE  /\ Row(t) \in Seq(Symbol) /\ Len(Row(t)) = command_length[t]
         /\ \A i \in 1 .. command_length[t] : Row(t)[i] = command_buffer[At(t, i - 1)]
<1> DEFINE n == command_length[t]
<1>1. n \in Nat /\ \A i \in 1 .. n : i - 1 \in 0 .. n - 1 /\ i - 1 \in RowIndex
  BY Sizes DEF LineTypes, RowIndex
<1>2. \A i \in 1 .. n : command_buffer[At(t, i - 1)] \in Symbol
  BY <1>1, InRow DEF LineTypes, WellFormed, Symbol
<1> HIDE DEF n
<1>3. Row(t) = [i \in 1 .. n |-> command_buffer[At(t, i - 1)]]
  BY DEF Row, n
<1> QED
  BY <1>1, <1>2, <1>3 DEF n

\* While no reader is at work the abstract lines are the rows.
LEMMA QuietText ==
  ASSUME tears = 0, Quiet
  PROVE  EditedText = [t \in Tty |-> Row(t)] /\ EditedPoint = [t \in Tty |-> cursor_x[t]]
<1>1. \A t \in Tty : ~ Taken(t)
  BY DEF Taken, BeingRead, Quiet
<1> QED
  BY <1>1 DEF EditedText, EditedPoint, Row

\* An edit changes the abstract line of the active terminal only.
LEMMA EditFrame ==
  ASSUME IInv, tears = 0, tears' = 0, Quiet, Edited, UNCHANGED <<reader, unread>>,
         NEW b \in Tty, b = active_terminal
  PROVE  /\ EditedText \in [Tty -> Seq(Symbol)] /\ EditedText[b] = Row(b)
         /\ EditedPoint \in [Tty -> Nat] /\ EditedPoint[b] = cursor_x[b]
         /\ EditedText' = [EditedText EXCEPT ![b] = Row(b)']
         /\ EditedPoint' = [EditedPoint EXCEPT ![b] = cursor_x'[b]]
         /\ Row(b) \in Seq(Symbol) /\ Len(Row(b)) = command_length[b]
         /\ \A i \in 1 .. command_length[b] : Row(b)[i] = command_buffer[At(b, i - 1)]
         /\ Row(b)' \in Seq(Symbol) /\ Len(Row(b)') = command_length'[b]
         /\ \A i \in 1 .. command_length'[b] : Row(b)'[i] = command_buffer'[At(b, i - 1)]
<1>1. LineTypes /\ \A t \in Tty : WellFormed(t)
  BY KeyFinds
<1>2. EditedText = [t \in Tty |-> Row(t)] /\ EditedPoint = [t \in Tty |-> cursor_x[t]]
  BY QuietText
<1>3. \A t \in Tty : /\ Row(t) \in Seq(Symbol) /\ Len(Row(t)) = command_length[t]
                     /\ \A i \in 1 .. command_length[t] : Row(t)[i] = command_buffer[At(t, i - 1)]
  BY <1>1, RowIsSequence
<1>4. \A t \in Tty : ~ Taken(t)'
  BY DEF Taken, BeingRead, Quiet, InCriticalSection, reader
<1>5. EditedText' = [t \in Tty |-> Row(t)'] /\ EditedPoint' = [t \in Tty |-> cursor_x'[t]]
  BY <1>4 DEF EditedText, EditedPoint, Row
<1>6. ASSUME NEW t \in Tty, t # b PROVE Row(t)' = Row(t) /\ cursor_x'[t] = cursor_x[t]
  <2>1. /\ command_length'[t] = command_length[t] /\ cursor_x'[t] = cursor_x[t]
        /\ \A i \in RowIndex : command_buffer'[At(t, i)] = command_buffer[At(t, i)]
    BY <1>6 DEF Edited, OthersKept
  <2>2. \A i \in 1 .. command_length[t] : i - 1 \in RowIndex
    BY <1>1, Sizes DEF LineTypes, RowIndex
  <2> QED
    BY <2>1, <2>2 DEF Row
<1>7. /\ EditedText' = [EditedText EXCEPT ![b] = Row(b)']
      /\ EditedPoint' = [EditedPoint EXCEPT ![b] = cursor_x'[b]]
  BY <1>2, <1>5, <1>6
<1>8. LineTypes' /\ WellFormed(b)'
  BY DEF Edited
<1>9. /\ Row(b)' \in Seq(Symbol) /\ Len(Row(b)') = command_length'[b]
      /\ \A i \in 1 .. command_length'[b] : Row(b)'[i] = command_buffer'[At(b, i - 1)]
  <2> DEFINE n == command_length'[b]
  <2>1. n \in Nat /\ \A i \in 1 .. n : i - 1 \in 0 .. n - 1 /\ i - 1 \in RowIndex
    BY <1>8, Sizes DEF LineTypes, RowIndex
  <2>2. \A i \in 1 .. n : command_buffer'[At(b, i - 1)] \in Symbol
    BY <1>8, <2>1, InRow DEF LineTypes, WellFormed, Symbol
  <2> HIDE DEF n
  <2>3. Row(b)' = [i \in 1 .. n |-> command_buffer'[At(b, i - 1)]]
    BY DEF Row, n
  <2> QED
    BY <2>1, <2>2, <2>3 DEF n
<1>10. EditedPoint \in [Tty -> Nat]
  BY <1>1, <1>2, Sizes DEF LineTypes, RowIndex
<1> QED
  BY <1>2, <1>3, <1>7, <1>9, <1>10

\* place_character_at_index() inserts.
LEMMA CharacterInserts ==
  ASSUME IInv, tears = 0, tears' = 0, Quiet, character_key, UNCHANGED <<reader, unread>>,
         NEW b \in Tty, b = active_terminal
  PROVE  Editor!Insert(b)
<1> DEFINE n == command_length[b]
<1> DEFINE p == cursor_x[b]
<1>1. /\ LineTypes /\ n \in Nat /\ n \in RowIndex /\ p \in 0 .. n /\ b = a
  <2>1. b = a
    BY DEF a
  <2>2. LineTypes /\ n \in Nat /\ n \in RowIndex /\ p \in Nat /\ p <= n
    BY <2>1, KeyFinds
  <2> QED
    BY <2>1, <2>2
<1>2. (n + 1) % WORD = n + 1 /\ (p + 1) % WORD = p + 1
  <2>1. n + 1 \in 0 .. WORD - 1 /\ p + 1 \in 0 .. WORD - 1 /\ WORD \in Nat /\ WORD > 0
    BY <1>1, Sizes DEF RowIndex
  <2> QED
    BY <2>1, SmallMod
<1>3. n + 1 \in RowIndex
  BY <1>1, <1>2, Sizes DEF character_key, RoomForCharacter, RowIndex, a
<1>4. PICK k \in Char \cap Keys : place_character_at_index(k)
  BY DEF character_key
<1> DEFINE d == kbd_chars(k)
<1>5. d \in Symbol /\ d \in Datum
  BY <1>4, CharacterIsNotNul DEF Symbol
<1>6. /\ command_buffer' = ShiftRight(p, d)
      /\ command_length' = [command_length EXCEPT ![b] = n + 1]
      /\ cursor_x' = [cursor_x EXCEPT ![b] = p + 1]
  BY <1>1, <1>2, <1>4 DEF place_character_at_index
<1> HIDE DEF d
<1>7. \A i \in RowIndex : command_buffer'[At(b, i)] =
        IF i = p THEN d ELSE IF i > p /\ i <= n + 1
                             THEN command_buffer[At(b, i - 1)] ELSE command_buffer[At(b, i)]
  BY <1>1, <1>3, <1>5, <1>6, ShiftRightRow
<1>8. command_length'[b] = n + 1 /\ cursor_x'[b] = p + 1
  BY <1>1, <1>6 DEF LineTypes
<1>9. Edited
  BY CharacterKey
<1>10. /\ EditedText \in [Tty -> Seq(Symbol)] /\ EditedText[b] = Row(b)
       /\ EditedPoint \in [Tty -> Nat] /\ EditedPoint[b] = p
       /\ EditedText' = [EditedText EXCEPT ![b] = Row(b)']
       /\ EditedPoint' = [EditedPoint EXCEPT ![b] = p + 1]
       /\ Row(b) \in Seq(Symbol) /\ Len(Row(b)) = n
       /\ \A i \in 1 .. n : Row(b)[i] = command_buffer[At(b, i - 1)]
       /\ Row(b)' \in Seq(Symbol) /\ Len(Row(b)') = n + 1
       /\ \A i \in 1 .. n + 1 : Row(b)'[i] = command_buffer'[At(b, i - 1)]
  BY <1>8, <1>9, EditFrame
<1> HIDE DEF n, p
<1>11. ASSUME NEW i \in 1 .. n + 1
       PROVE  Row(b)'[i] = IF i <= p THEN Row(b)[i] ELSE IF i = p + 1 THEN d ELSE Row(b)[i - 1]
  <2>1. i - 1 \in RowIndex /\ i \in Int /\ p \in Nat /\ Row(b)'[i] = command_buffer'[At(b, i - 1)]
    <3>1. Row(b)'[i] = command_buffer'[At(b, i - 1)]
      BY <1>10
    <3>2. n \in Nat /\ p \in Nat /\ n \in RowIndex
      BY <1>1
    <3>3. i \in Int /\ i - 1 \in 0 .. n
      BY <3>2
    <3>4. \A j \in 0 .. n : j \in RowIndex
      BY <3>2, Sizes DEF RowIndex
    <3> QED
      BY <3>1, <3>2, <3>3, <3>4
  <2>2. CASE i <= p
    <3>1. i \in 1 .. n /\ ~ (i - 1 > p) /\ i - 1 # p
      BY <1>1, <2>1, <2>2
    <3> QED
      BY <1>7, <1>10, <2>1, <2>2, <3>1
  <2>3. CASE i = p + 1
    <3>1. i - 1 = p /\ ~ (i <= p)
      BY <2>1, <2>3
    <3> QED
      BY <1>7, <2>1, <2>3, <3>1
  <2>4. CASE i > p + 1
    <3>1. i - 1 > p /\ i - 1 <= n + 1 /\ i - 1 \in 1 .. n /\ i - 1 # p /\ ~ (i <= p) /\ i # p + 1
      BY <1>1, <2>1, <2>4
    <3>2. Row(b)[i - 1] = command_buffer[At(b, (i - 1) - 1)]
      BY <1>10, <3>1
    <3>3. command_buffer'[At(b, i - 1)] = command_buffer[At(b, (i - 1) - 1)]
      BY <1>7, <2>1, <3>1
    <3> QED
      BY <2>1, <3>1, <3>2, <3>3
  <2>5. i <= p \/ i = p + 1 \/ i > p + 1
    BY <2>1
  <2> QED
    BY <2>2, <2>3, <2>4, <2>5
<1>12. Row(b)' = Append(SubSeq(Row(b), 1, p), d) \o SubSeq(Row(b), p + 1, Len(Row(b)))
  <2> DEFINE x == Row(b)
  <2> DEFINE y == Row(b)'
  <2>1. /\ x \in Seq(Symbol) /\ y \in Seq(Symbol) /\ p \in 0 .. Len(x) /\ Len(y) = Len(x) + 1
        /\ \A i \in 1 .. Len(x) + 1 :
             y[i] = IF i <= p THEN x[i] ELSE IF i = p + 1 THEN d ELSE x[i - 1]
    BY <1>1, <1>10, <1>11
  <2> HIDE DEF x, y
  <2>2. y = Append(SubSeq(x, 1, p), d) \o SubSeq(x, p + 1, Len(x))
    BY <1>5, <2>1, InsertSeq
  <2> QED
    BY <2>2 DEF x, y
<1>13. Len(EditedText[b]) < TERMINAL_BUFFER_MAX_SIZE - 1
  <2>1. Len(EditedText[b]) = n
    BY <1>10
  <2> QED
    BY <1>1, <1>3, <2>1, Sizes DEF RowIndex
<1>14. Append(Editor!LeftOf(b), d) \o Editor!RightOf(b) = Row(b)'
  BY <1>10, <1>12 DEF Editor!LeftOf, Editor!RightOf
<1> QED
  BY <1>5, <1>10, <1>13, <1>14 DEF Editor!Insert, Symbol

\* Shifting left onto column q removes a character of the sequence.
LEMMA RowRemoved ==
  ASSUME IInv, tears = 0, tears' = 0, Quiet, UNCHANGED <<reader, unread>>, Edited,
         NEW b \in Tty, b = active_terminal, NEW q \in 0 .. command_length[b] - 1,
         command_buffer' = ShiftLeft(q), command_length'[b] = command_length[b] - 1
  PROVE  /\ Row(b)' = SubSeq(Row(b), 1, q) \o SubSeq(Row(b), q + 2, Len(Row(b)))
         /\ Row(b)' = SubSeq(Row(b), 1, q) \o Tail(SubSeq(Row(b), q + 1, Len(Row(b))))
<1> DEFINE n == command_length[b]
<1>1. /\ LineTypes /\ n \in Nat /\ n \in RowIndex /\ q \in 0 .. n - 1 /\ b = a
  BY KeyFinds DEF a
<1>2. \A i \in RowIndex : command_buffer'[At(b, i)] =
        IF i >= q /\ i < n THEN command_buffer[At(b, i + 1)] ELSE command_buffer[At(b, i)]
  BY <1>1, ShiftLeftRow
<1>3. /\ Row(b) \in Seq(Symbol) /\ Len(Row(b)) = n
      /\ \A i \in 1 .. n : Row(b)[i] = command_buffer[At(b, i - 1)]
      /\ Row(b)' \in Seq(Symbol) /\ Len(Row(b)') = n - 1
      /\ \A i \in 1 .. n - 1 : Row(b)'[i] = command_buffer'[At(b, i - 1)]
  BY EditFrame
<1> HIDE DEF n
<1>4. ASSUME NEW i \in 1 .. n - 1
      PROVE  Row(b)'[i] = IF i < q + 1 THEN Row(b)[i] ELSE Row(b)[i + 1]
  <2>1. /\ i - 1 \in RowIndex /\ i \in Int /\ q \in Nat /\ i \in 1 .. n /\ i + 1 \in 1 .. n
        /\ Row(b)'[i] = command_buffer'[At(b, i - 1)] /\ (i + 1) - 1 = (i - 1) + 1
    <3>1. Row(b)'[i] = command_buffer'[At(b, i - 1)]
      BY <1>3
    <3> QED
      <4>1. n \in Nat /\ q \in 0 .. n - 1
        BY <1>1
      <4>2. /\ i \in Int /\ q \in Nat /\ i \in 1 .. n /\ i + 1 \in 1 .. n /\ i - 1 \in 0 .. n
            /\ (i + 1) - 1 = (i - 1) + 1
        BY <4>1
      <4>3. \A j \in 0 .. n : j \in RowIndex
        BY <1>1, Sizes DEF RowIndex
      <4> QED
        BY <3>1, <4>2, <4>3
  <2>2. CASE i < q + 1
    <3>1. ~ (i - 1 >= q)
      BY <2>1, <2>2
    <3> QED
      BY <1>2, <1>3, <2>1, <2>2, <3>1
  <2>3. CASE ~ (i < q + 1)
    <3>1. i - 1 >= q /\ i - 1 < n
      <4>1. n \in Int /\ q \in Int /\ i \in Int /\ i \in 1 .. n
        BY <1>1, <2>1
      <4> QED
        BY <2>3, <4>1
    <3>2. Row(b)[i + 1] = command_buffer[At(b, (i + 1) - 1)]
      BY <1>3, <2>1
    <3> QED
      BY <1>2, <2>1, <2>3, <3>1, <3>2
  <2> QED
    BY <2>2, <2>3
<1> DEFINE x == Row(b)
<1> DEFINE y == Row(b)'
<1>5. /\ x \in Seq(Symbol) /\ y \in Seq(Symbol) /\ q + 1 \in 1 .. Len(x) /\ Len(y) = Len(x) - 1
      /\ \A i \in 1 .. Len(x) - 1 : y[i] = IF i < q + 1 THEN x[i] ELSE x[i + 1]
      /\ (q + 1) - 1 = q /\ (q + 1) + 1 = q + 2
  <2>1. n \in Nat /\ q \in 0 .. n - 1
    BY <1>1
  <2>2. Len(x) = n /\ Len(y) = n - 1 /\ x \in Seq(Symbol) /\ y \in Seq(Symbol)
    BY <1>3
  <2>3. \A i \in 1 .. n - 1 : y[i] = IF i < q + 1 THEN x[i] ELSE x[i + 1]
    BY <1>4
  <2> HIDE DEF x, y
  <2>4. q + 1 \in 1 .. n /\ (q + 1) - 1 = q /\ (q + 1) + 1 = q + 2
    BY <2>1
  <2>5. q + 1 \in 1 .. Len(x) /\ Len(y) = Len(x) - 1
    BY <2>2, <2>4
  <2>6. \A i \in 1 .. Len(x) - 1 : y[i] = IF i < q + 1 THEN x[i] ELSE x[i + 1]
    BY <2>2, <2>3
  <2> QED
    BY <2>2, <2>4, <2>5, <2>6
<1> HIDE DEF x, y
<1>6. /\ y = SubSeq(x, 1, (q + 1) - 1) \o SubSeq(x, (q + 1) + 1, Len(x))
      /\ y = SubSeq(x, 1, (q + 1) - 1) \o Tail(SubSeq(x, q + 1, Len(x)))
  BY <1>5, DeleteSeq
<1>7. /\ y = SubSeq(x, 1, q) \o SubSeq(x, q + 2, Len(x))
      /\ y = SubSeq(x, 1, q) \o Tail(SubSeq(x, q + 1, Len(x)))
  BY <1>5, <1>6
<1> QED
  BY <1>7 DEF x, y

\* BKSP erases the character left of the cursor.
LEMMA BackspaceErases ==
  ASSUME IInv, tears = 0, tears' = 0, Quiet, backspace_key, UNCHANGED <<reader, unread>>,
         NEW b \in Tty, b = active_terminal
  PROVE  Editor!Erase(b)
<1> DEFINE n == command_length[b]
<1> DEFINE p == cursor_x[b]
<1>1. LineTypes /\ n \in Nat /\ p \in Nat /\ p <= n /\ b = a
  BY KeyFinds DEF a
<1>2. p > 0 /\ command_buffer' = ShiftLeft(p - 1)
  BY <1>1 DEF backspace_key
<1>3. Edited /\ command_length'[b] = n - 1 /\ cursor_x'[b] = p - 1
  BY <1>1, BackspaceKey DEF LineTypes
<1>4. p - 1 \in 0 .. n - 1
  <2>1. n \in Nat /\ p \in Nat /\ p <= n /\ p > 0
    BY <1>1, <1>2
  <2> HIDE DEF n, p
  <2> QED
    BY <2>1
<1>5. /\ EditedText \in [Tty -> Seq(Symbol)] /\ EditedText[b] = Row(b)
      /\ EditedPoint \in [Tty -> Nat] /\ EditedPoint[b] = p
      /\ EditedText' = [EditedText EXCEPT ![b] = Row(b)']
      /\ EditedPoint' = [EditedPoint EXCEPT ![b] = p - 1]
  BY <1>3, EditFrame
<1>6. Row(b)' = SubSeq(Row(b), 1, p - 1) \o SubSeq(Row(b), (p - 1) + 2, Len(Row(b)))
  BY <1>2, <1>3, <1>4, RowRemoved
<1>7. (p - 1) + 2 = p + 1
  BY <1>1
<1>8. SubSeq(EditedText[b], 1, EditedPoint[b] - 1) \o Editor!RightOf(b) = Row(b)'
  BY <1>5, <1>6, <1>7 DEF Editor!RightOf
<1> QED
  BY <1>2, <1>5, <1>8 DEF Editor!Erase

\* DELETE deletes the character under it.
LEMMA DeleteDeletes ==
  ASSUME IInv, tears = 0, tears' = 0, Quiet, delete_key, UNCHANGED <<reader, unread>>,
         NEW b \in Tty, b = active_terminal
  PROVE  Editor!Delete(b)
<1> DEFINE n == command_length[b]
<1> DEFINE p == cursor_x[b]
<1>1. LineTypes /\ n \in Nat /\ p \in Nat /\ b = a
  BY KeyFinds DEF a
<1>2. p < n /\ command_buffer' = ShiftLeft(p) /\ cursor_x' = cursor_x
  BY <1>1 DEF delete_key
<1>3. Edited /\ command_length'[b] = n - 1
  BY <1>1, DeleteKey DEF LineTypes
<1>4. p \in 0 .. n - 1
  BY <1>1, <1>2
<1>5. /\ EditedText \in [Tty -> Seq(Symbol)] /\ EditedText[b] = Row(b) /\ Len(Row(b)) = n
      /\ EditedPoint \in [Tty -> Nat] /\ EditedPoint[b] = p
      /\ EditedText' = [EditedText EXCEPT ![b] = Row(b)']
      /\ EditedPoint' = [EditedPoint EXCEPT ![b] = p]
  BY <1>2, <1>3, EditFrame
<1>6. Row(b)' = SubSeq(Row(b), 1, p) \o Tail(SubSeq(Row(b), p + 1, Len(Row(b))))
  BY <1>2, <1>3, <1>4, RowRemoved
<1>7. Editor!LeftOf(b) \o Tail(Editor!RightOf(b)) = Row(b)'
  BY <1>5, <1>6 DEF Editor!LeftOf, Editor!RightOf
<1> QED
  BY <1>2, <1>5, <1>7 DEF Editor!Delete

\* The arrows move the cursor.
LEMMA ArrowsMove ==
  ASSUME IInv, tears = 0, tears' = 0, Quiet, left_arrow \/ right_arrow, UNCHANGED <<reader, unread>>,
         NEW b \in Tty, b = active_terminal
  PROVE  Editor!Move(b)
<1> DEFINE n == command_length[b]
<1> DEFINE p == cursor_x[b]
<1>1. LineTypes /\ n \in Nat /\ p \in Nat /\ p <= n /\ b = a
  BY KeyFinds DEF a
<1>2. UNCHANGED <<command_buffer, command_length>> /\ Edited
  BY ArrowKeys DEF left_arrow, right_arrow
<1>3. PICK m \in {p - 1, p + 1} \cap (0 .. n) : cursor_x'[b] = m
  BY <1>1 DEF left_arrow, right_arrow, LineTypes
<1>4. /\ EditedText \in [Tty -> Seq(Symbol)] /\ EditedText[b] = Row(b) /\ Len(Row(b)) = n
      /\ EditedPoint \in [Tty -> Nat] /\ EditedPoint[b] = p
      /\ EditedText' = [EditedText EXCEPT ![b] = Row(b)']
      /\ EditedPoint' = [EditedPoint EXCEPT ![b] = m]
  BY <1>2, <1>3, EditFrame
<1>5. Row(b)' = Row(b)
  BY <1>2 DEF Row
<1>6. EditedText' = EditedText
  BY <1>4, <1>5
<1> QED
  BY <1>3, <1>4, <1>6 DEF Editor!Move

\* Ctrl+L takes the line away.
LEMMA ClearTakes ==
  ASSUME IInv, tears = 0, tears' = 0, Quiet, clear_key, UNCHANGED <<reader, unread>>,
         NEW b \in Tty, b = active_terminal
  PROVE  Editor!Take(b)
<1>1. Edited /\ command_length'[b] = 0 /\ cursor_x'[b] = 0
  BY ClearKey DEF a
<1>2. /\ EditedText' = [EditedText EXCEPT ![b] = Row(b)']
      /\ EditedPoint' = [EditedPoint EXCEPT ![b] = 0]
      /\ Row(b)' \in Seq(Symbol) /\ Len(Row(b)') = 0
  BY <1>1, EditFrame
<1>3. Row(b)' = << >>
  BY <1>2
<1> QED
  BY <1>2, <1>3 DEF Editor!Take

Stutter == EditedText' = EditedText /\ EditedPoint' = EditedPoint

\* Nothing changes in the abstract when the same lines are taken and the others
\* keep their rows and cursors.
LEMMA SameLines ==
  ASSUME \A t \in Tty : Taken(t)' <=> Taken(t),
         \A t \in Tty : ~ Taken(t) => Row(t)' = Row(t) /\ cursor_x'[t] = cursor_x[t]
  PROVE  Stutter
BY DEF Stutter, EditedText, EditedPoint, Row

\* A key is one operation of the editor, or none.
LEMMA KeyRefines ==
  ASSUME IInv, tears = 0, tears' = 0, keyboard_interruption(AnyKey)
  PROVE  Editor!EditorNext \/ Stutter
<1>1. /\ AnyKey /\ UNCHANGED <<reader, unread>>
      /\ tears' = IF /\ \E t \in Tty : InCriticalSection(t)
                     /\ <<active_terminal, line>>' # <<active_terminal, line>>
                  THEN tears + 1 ELSE tears
  BY DEF keyboard_interruption
<1>2. \A t \in Tty : InCriticalSection(t)' <=> InCriticalSection(t)
  BY <1>1 DEF InCriticalSection, reader
<1>3. active_terminal \in Tty
  BY DEF IInv, TypeOK
<1>4. CASE ~ Quiet
  <2>1. <<active_terminal, line>>' = <<active_terminal, line>>
    BY <1>1, <1>4 DEF Quiet
  <2>2. UNCHANGED <<active_terminal, command_buffer, command_length, cursor_x>>
    BY <2>1 DEF line
  <2>3. \A t \in Tty : Taken(t)' <=> Taken(t)
    BY <1>2, <2>2 DEF Taken, BeingRead
  <2>4. \A t \in Tty : Row(t)' = Row(t)
    BY <2>2 DEF Row
  <2> QED
    BY <2>2, <2>3, <2>4, SameLines
<1>5. CASE Quiet /\ UNCHANGED <<command_buffer, command_length, cursor_x>>
  <2>1. \A t \in Tty : ~ Taken(t) /\ ~ Taken(t)'
    BY <1>2, <1>5 DEF Taken, BeingRead, Quiet
  <2>2. \A t \in Tty : Row(t)' = Row(t)
    BY <1>5 DEF Row
  <2> QED
    BY <1>5, <2>1, <2>2, SameLines
<1>6. CASE Quiet /\ (character_key \/ backspace_key \/ delete_key \/ left_arrow \/ right_arrow
                      \/ clear_key)
  <2> DEFINE EditsLine(b) == \/ Editor!Insert(b) \/ Editor!Erase(b) \/ Editor!Delete(b)
                             \/ Editor!Move(b) \/ Editor!Take(b)
  <2>1. ASSUME NEW b \in Tty, b = active_terminal PROVE EditsLine(b)
    BY <1>1, <1>6, <2>1, CharacterInserts, BackspaceErases, DeleteDeletes, ArrowsMove, ClearTakes
  <2>2. \E b \in Tty : EditsLine(b)
    BY <1>3, <2>1
  <2> QED
    BY <2>2 DEF Editor!EditorNext
<1> QED
  BY <1>1, <1>4, <1>5, <1>6, WhatKeysChange

\* When a reader begins to take the line the editor's line is taken.
LEMMA ReaderTakes ==
  ASSUME IInv, tears = 0, tears' = 0, NEW t \in Tty, InCriticalSection(t)',
         UNCHANGED <<active_terminal, command_buffer, command_length, cursor_x>>
  PROVE  Editor!EditorNext \/ Stutter
<1>3. \A u \in Tty : Row(u)' = Row(u)
  BY DEF Row
<1>4. \A u \in Tty : Taken(u)' <=> u = active_terminal
  BY DEF Taken, BeingRead
<1>5. CASE ~ Quiet
  <2>1. \A u \in Tty : Taken(u) <=> u = active_terminal
    BY <1>5 DEF Taken, BeingRead, Quiet
  <2> QED
    BY <1>3, <1>4, <2>1, SameLines
<1>6. CASE Quiet
  <2>1. EditedText = [u \in Tty |-> Row(u)] /\ EditedPoint = [u \in Tty |-> cursor_x[u]]
    BY <1>6, QuietText
  <2>2. PICK b \in Tty : b = active_terminal
    BY DEF IInv, TypeOK
  <2>3. /\ EditedText' = [u \in Tty |-> IF u = b THEN << >> ELSE Row(u)]
        /\ EditedPoint' = [u \in Tty |-> IF u = b THEN 0 ELSE cursor_x[u]]
    BY <1>3, <1>4, <2>2 DEF EditedText, EditedPoint, Row
  <2>4. Editor!Take(b)
    BY <2>1, <2>3 DEF Editor!Take
  <2> QED
    BY <2>4 DEF Editor!EditorNext
<1> QED
  BY <1>5, <1>6

\* The first character a reader takes takes the line.
LEMMA CopyRefines ==
  ASSUME IInv, tears = 0, tears' = 0, NEW t \in Tty, read_copy(t)
  PROVE  Editor!EditorNext \/ Stutter
<1>1. /\ pc[t] = "copy" /\ pc' = [pc EXCEPT ![t] = "clear"]
      /\ UNCHANGED <<active_terminal, command_buffer, command_length, cursor_x, index, nbytes>>
  BY DEF read_copy, line
<1>2. InCriticalSection(t)' /\ \A u \in Tty \ {t} : InCriticalSection(u)' <=> InCriticalSection(u)
  <2>1. /\ pc'[t] = "clear"
        /\ \A u \in Tty \ {t} : InCriticalSection(u)' <=> InCriticalSection(u)
    BY <1>1, OtherReaders
  <2> QED
    BY <2>1 DEF InCriticalSection
<1> QED
  BY <1>1, <1>2, ReaderTakes

\* What follows concerns a line that is already taken.
LEMMA RestStutters ==
  ASSUME IInv, tears = 0, tears' = 0, NEW t \in Tty,
         read_clear(t) \/ read_reset_length(t) \/ read_reset_cursor(t)
  PROVE  Stutter
<1>1. /\ pc[t] \in {"clear", "length", "cursor"} /\ UNCHANGED active_terminal
      /\ \E v : pc' = [pc EXCEPT ![t] = v]
      /\ \A u \in Tty \ {t} : index'[u] = index[u] /\ nbytes'[u] = nbytes[u]
  <2>1. CASE read_clear(t)
    BY <2>1, ReaderTypes DEF read_clear
  <2>2. CASE read_reset_length(t) \/ read_reset_cursor(t)
    BY <2>2 DEF read_reset_length, read_reset_cursor
  <2> QED
    BY <2>1, <2>2
<1>2. \A u \in Tty \ {t} : InCriticalSection(u)' <=> InCriticalSection(u)
  <2>1. PICK v : pc' = [pc EXCEPT ![t] = v]
    BY <1>1
  <2> QED
    BY <1>1, <2>1, OtherReaders
<1>3. \A u \in Tty : Taken(u) <=> u = active_terminal
  BY <1>1 DEF Taken, BeingRead, InCriticalSection
<1>4. \A u \in Tty \ {active_terminal} : ~ Taken(u)'
  BY <1>1 DEF Taken, BeingRead
<1>5. \A u \in Tty \ {active_terminal} : Row(u)' = Row(u) /\ cursor_x'[u] = cursor_x[u]
  <2>1. Next
    BY DEF Next, terminal_read
  <2>2. OthersKept
    BY <2>1, StepsKeepOthers
  <2>3. ASSUME NEW u \in Tty \ {active_terminal}, NEW i \in 1 .. command_length[u]
        PROVE  i - 1 \in RowIndex
    BY Sizes DEF IInv, Lines, RowIndex
  <2> QED
    BY <2>2, <2>3 DEF OthersKept, Row
<1>6. CASE Taken(active_terminal)'
  <2>1. \A u \in Tty : Taken(u)' <=> Taken(u)
    BY <1>1, <1>3, <1>4, <1>6
  <2> QED
    BY <1>3, <1>5, <2>1, SameLines
<1>7. CASE ~ Taken(active_terminal)'
  <2>1. pc[t] = "cursor" /\ read_reset_cursor(t)
    <3>1. ~ InCriticalSection(t)'
      BY <1>1, <1>7 DEF Taken, BeingRead
    <3>2. read_clear(t) \/ read_reset_length(t) => InCriticalSection(t)'
      <4>1. CASE read_reset_length(t)
        <5>1. pc'[t] = "cursor"
          BY <4>1, ReaderTypes DEF read_reset_length
        <5> QED
          BY <5>1 DEF InCriticalSection
      <4>2. CASE read_clear(t)
        <5>1. index'[t] = index[t] + 1 /\ index[t] \in Nat
          BY <4>2, ReaderTypes DEF read_clear
        <5>2. index'[t] > 0
          BY <5>1
        <5>3. pc'[t] = "copy" \/ pc'[t] = "length"
          BY <4>2, ReaderTypes DEF read_clear
        <5> QED
          BY <5>2, <5>3 DEF InCriticalSection
      <4> QED
        BY <4>1, <4>2
    <3>3. read_reset_cursor(t)
      BY <3>1, <3>2
    <3> QED
      BY <3>3 DEF read_reset_cursor
  <2>2. PICK b \in Tty : b = active_terminal
    BY DEF IInv, TypeOK
  <2>3. command_length'[b] = 0 /\ cursor_x'[b] = 0
    BY <2>1, <2>2 DEF read_reset_cursor, IInv, Lines, a
  <2>4. Row(b)' = << >>
    <3>1. Row(b)' = [i \in 1 .. 0 |-> command_buffer'[At(b, i - 1)]]
      BY <2>3 DEF Row
    <3>2. 1 .. 0 = {}
      OBVIOUS
    <3> QED
      BY <3>1, <3>2
  <2>5. /\ EditedText = [u \in Tty |-> IF u = b THEN << >> ELSE Row(u)]
        /\ EditedPoint = [u \in Tty |-> IF u = b THEN 0 ELSE cursor_x[u]]
    BY <1>3, <2>2 DEF EditedText, EditedPoint, Row
  <2>6. \A u \in Tty : ~ Taken(u)'
    BY <1>1, <1>4, <1>7
  <2>7. EditedText' = [u \in Tty |-> Row(u)'] /\ EditedPoint' = [u \in Tty |-> cursor_x'[u]]
    BY <2>6 DEF EditedText, EditedPoint, Row
  <2> QED
    BY <1>5, <2>2, <2>3, <2>4, <2>5, <2>7 DEF Stutter
<1> QED
  BY <1>6, <1>7

\* A read of no bytes takes the line as well.
LEMMA UnlockedRefines ==
  ASSUME IInv, tears = 0, tears' = 0, NEW t \in Tty, read_unlocked(t), ~ (nbytes[t] > 0)
  PROVE  Editor!EditorNext \/ Stutter
<1>1. pc'[t] = "length" /\ UNCHANGED <<active_terminal, command_buffer, command_length, cursor_x>>
  BY ReaderTypes DEF read_unlocked, line
<1>2. InCriticalSection(t)'
  BY <1>1 DEF InCriticalSection
<1> QED
  BY <1>1, <1>2, ReaderTakes

\* The remaining statements of terminal_read() do not touch a line.
LEMMA SilentStutters ==
  ASSUME IInv, tears = 0, tears' = 0, NEW t \in Tty,
         read_start(t) \/ (read_unlocked(t) /\ nbytes[t] > 0) \/ read_lock(t)
  PROVE  Stutter
<1>1. /\ UNCHANGED <<active_terminal, command_buffer, command_length, cursor_x>>
      /\ \A u \in Tty \ {t} : index'[u] = index[u] /\ nbytes'[u] = nbytes[u]
      /\ \E v : pc' = [pc EXCEPT ![t] = v]
  <2>1. CASE read_start(t)
    BY <2>1, ReaderTypes DEF read_start, line
  <2>2. CASE read_unlocked(t) \/ read_lock(t)
    BY <2>2, ReaderTypes DEF read_unlocked, read_lock, line
  <2> QED
    BY <2>1, <2>2
<1>2. \A u \in Tty \ {t} : InCriticalSection(u)' <=> InCriticalSection(u)
  BY <1>1, OtherReaders
<1>3. ~ InCriticalSection(t) /\ ~ InCriticalSection(t)'
  <2>1. CASE read_start(t) \/ read_lock(t)
    BY <2>1, ReaderTypes DEF read_start, read_lock, InCriticalSection
  <2>2. CASE read_unlocked(t) /\ nbytes[t] > 0
    <3>1. pc[t] = "spin" /\ pc'[t] = "copy" /\ index'[t] = 0
      BY <2>2, ReaderTypes DEF read_unlocked
    <3>2. pc[t] \notin {"clear", "length", "cursor"} /\ pc[t] # "copy"
      BY <3>1
    <3>3. pc'[t] \notin {"clear", "length", "cursor"}
      BY <3>1
    <3>4. ~ (index'[t] > 0)
      BY <3>1
    <3> QED
      BY <3>2, <3>3, <3>4 DEF InCriticalSection
  <2> QED
    BY <2>1, <2>2
<1>4. \A u \in Tty : Taken(u)' <=> Taken(u)
  BY <1>1, <1>2, <1>3 DEF Taken, BeingRead
<1>5. \A u \in Tty : Row(u)' = Row(u)
  BY <1>1 DEF Row
<1> QED
  BY <1>1, <1>4, <1>5, SameLines

\* While no key lands inside a read and no read leaves its row, the rows of the C
\* array, shifted in place and reset by separate statements, behave as the lines
\* of the editor, for any number of terminals, any buffer size, any interleaving
\* and whatever sizes programs pass to read().
THEOREM LineEditorImplemented == Spec /\ [](tears = 0) => ImplementsLineEditor
<1>1. Init => Editor!EditorInit
  <2> SUFFICES ASSUME Init PROVE Editor!EditorInit
    OBVIOUS
  <2>1. tears = 0 /\ Quiet
    BY DEF Init, Quiet, InCriticalSection
  <2>2. EditedText = [t \in Tty |-> Row(t)] /\ EditedPoint = [t \in Tty |-> cursor_x[t]]
    BY <2>1, QuietText
  <2>3. \A t \in Tty : Row(t) = << >> /\ cursor_x[t] = 0
    BY DEF Init, Row
  <2> QED
    BY <2>2, <2>3 DEF Editor!EditorInit
<1>2. IInv /\ tears = 0 /\ (tears = 0)' /\ [Next]_vars
        => [Editor!EditorNext]_<<EditedText, EditedPoint>>
  <2> SUFFICES ASSUME IInv, tears = 0, tears' = 0, [Next]_vars
               PROVE  Editor!EditorNext \/ Stutter
    BY DEF Stutter
  <2>1. ASSUME UNCHANGED <<active_terminal, command_buffer, command_length, cursor_x, pc, index,
                           tears>>
        PROVE  Stutter
    <3>2. \A t \in Tty : Taken(t)' <=> Taken(t)
      BY <2>1 DEF Taken, BeingRead, InCriticalSection
    <3>3. \A t \in Tty : Row(t)' = Row(t)
      BY <2>1 DEF Row
    <3> QED
      BY <2>1, <3>2, <3>3, SameLines
  <2>2. CASE UNCHANGED vars
    BY <2>1, <2>2 DEF vars, line, reader, history
  <2>3. ASSUME NEW t \in Tty, read_outside(t) PROVE Stutter
    BY <2>1, <2>3 DEF read_outside, line, reader
  <2>4. CASE Next
    BY <2>3, <2>4, Steps, KeyRefines, CopyRefines, RestStutters, SilentStutters, UnlockedRefines
  <2> QED
    BY <2>2, <2>4
<1> QED
  BY <1>1, <1>2, TerminalInvariant, PTL DEF Spec, ImplementsLineEditor, Editor!EditorSpec
=============================================================================
