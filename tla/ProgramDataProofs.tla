-------------------------- MODULE ProgramDataProofs -------------------------
(***************************************************************************)
(* Proofs about what the user programs work on: the file descriptors, for  *)
(* any directory, any files, any number of descriptors and any wrap-around *)
(* POS; and the list of blinking characters of fish, for a screen of any   *)
(* size.                                                                   *)
(***************************************************************************)
EXTENDS Descriptors, Blink, FiniteSetTheorems, SequenceTheorems, WellFoundedInduction, TLAPS

\* Every leaf is tried with the SMT solver, then with Zenon, then with more time.
USE SMTT(10), ZenonT(20), SMTT(60)

Tables == {"NULL", "stdin", "stdout", "rtc", "dir", "file"}

TypeOK ==
  /\ disk \in Disks
  /\ flags \subseteq FD
  /\ jumptable \in [FD -> Tables]
  /\ fileposition \in [FD -> 0 .. POS - 1]
  /\ filenames \in [FD -> Files \cup {NoName}]
  /\ got \in [FD -> 0 .. POS - 1]
  /\ failed \in [FD -> 0 .. POS - 1]

\* A descriptor that open() can give out starts at 0: close(), execute() and
\* bootup() leave it so, and open() itself does not set the position.
FreeAtStart == \A fd \in FD \ flags : fileposition[fd] = 0

\* Descriptors in use bear the names of files that exist.
NamesExist == \A fd \in flags : fd >= 2 => filenames[fd] \in Files

IInv == TypeOK /\ FreeAtStart /\ NamesExist /\ OwnOperations /\ ReadsAreSequential

-----------------------------------------------------------------------------
(* Numbers *)

\* Min of two numbers, as file_read() uses it.
LEMMA MinOfTwo ==
  ASSUME NEW x \in Int, NEW y \in Int
  PROVE  Min({x, y}) = IF x <= y THEN x ELSE y
BY DEF Min

\* The values of fileposition that can occur, and where they wrap.
LEMMA SmallMod ==
  ASSUME NEW m \in Nat, m > 0, NEW x \in Int
  PROVE  /\ x % m \in 0 .. m - 1
         /\ x \in 0 .. m - 1 => x % m = x
         /\ x \in -m .. -1 => x % m = x + m
         /\ x \in m .. 2 * m - 1 => x % m = x - m
OBVIOUS

\* A position that is the difference of two counters stays so when one counter
\* and the position move by the same amount, although all three wrap.
LEMMA PositionMoves ==
  ASSUME NEW m \in Nat, m > 0, NEW g \in 0 .. m - 1, NEW f \in 0 .. m - 1
  PROVE  /\ \A b \in 1 .. m - 1 : (((g - f) % m) + b) % m = (((g + b) % m) - f) % m
         /\ (((g - f) % m) - 1) % m = (g - ((f + 1) % m)) % m
<1>1. \A x \in Int : /\ x \in 0 .. m - 1 => x % m = x
                     /\ x \in -m .. -1 => x % m = x + m
                     /\ x \in m .. 2 * m - 1 => x % m = x - m
  BY SmallMod
<1>2. (g - f) % m = IF g >= f THEN g - f ELSE g - f + m
  BY <1>1
<1>3. (g - f) % m \in 0 .. m - 1
  BY <1>2
<1>4. ASSUME NEW b \in 1 .. m - 1
      PROVE  (((g - f) % m) + b) % m = (((g + b) % m) - f) % m
  <2>1. (g + b) % m = IF g + b < m THEN g + b ELSE g + b - m
    BY <1>1
  <2>2. CASE g >= f /\ g + b < m
    BY <1>2, <2>1, <2>2
  <2>3. CASE g >= f /\ g + b >= m
    <3>1. (g - f + b) % m = IF g - f + b < m THEN g - f + b ELSE g - f + b - m
      BY <1>1, <2>3
    <3>2. (g + b - m - f) % m = IF g + b - m - f < 0 THEN g + b - f ELSE g + b - m - f
      BY <1>1, <2>3
    <3> QED
      BY <1>2, <2>1, <2>3, <3>1, <3>2
  <2>4. CASE g < f /\ g + b < m
    <3>1. (g - f + m + b) % m = IF g - f + b < 0 THEN g - f + m + b ELSE g - f + b
      BY <1>1, <2>4
    <3>2. (g + b - f) % m = IF g + b - f < 0 THEN g + b - f + m ELSE g + b - f
      BY <1>1, <2>4
    <3> QED
      BY <1>2, <2>1, <2>4, <3>1, <3>2
  <2>5. CASE g < f /\ g + b >= m
    <3>1. (g - f + m + b) % m = g - f + b
      BY <1>1, <2>5
    <3>2. (g + b - m - f) % m = g + b - f
      BY <1>1, <2>5
    <3> QED
      BY <1>2, <2>1, <2>5, <3>1, <3>2
  <2> QED
    BY <2>2, <2>3, <2>4, <2>5
<1>5. (((g - f) % m) - 1) % m = (g - ((f + 1) % m)) % m
  <2>1. (f + 1) % m = IF f + 1 < m THEN f + 1 ELSE 0
    BY <1>1
  <2> QED
    BY <1>1, <1>2, <2>1
<1> QED
  BY <1>4, <1>5

-----------------------------------------------------------------------------
(* The inductive invariant *)

\* What lookup by name gives for a name the directory has.
LEMMA EntryExists ==
  ASSUME disk \in Disks, NEW name \in Files
  PROVE  /\ Entry(name).type \in {"rtc", "dir", "file"}
         /\ Len(Entry(name).text) \in 0 .. POS - 2
         /\ Entry(name).good \in Nat
         /\ Entry(name).text \in Seq(Range(Entry(name).text))
         /\ Entry(name) \in Dentries /\ Entry(name).name = name
<1>1. \E entry \in Dentries : entry.name = name
  BY DEF Files
<1>2. Entry(name) \in Dentries /\ Entry(name).name = name
  BY <1>1 DEF Entry
<1>3. CASE Entry(name) \in {disk[i] : i \in DOMAIN disk}
  BY <1>2, <1>3, DescriptorsAssumption
<1>4. CASE Entry(name) = UnusedDentry
  <2>1. UnusedDentry.text = << >> /\ UnusedDentry.type = "rtc" /\ UnusedDentry.good = 1
    BY DEF UnusedDentry
  <2>2. << >> \in Seq(Range(<< >>)) /\ Len(<< >>) = 0 /\ 0 \in 0 .. POS - 2
    BY DescriptorsAssumption
  <2> QED
    BY <1>2, <1>4, <2>1, <2>2
<1> QED
  BY <1>2, <1>3, <1>4 DEF Dentries

\* The descriptors are numbers, and 0 and 1 are among them.
LEMMA FDs == FD \subseteq Nat /\ 0 \in FD /\ 1 \in FD /\ 0 \in 0 .. POS - 1
BY DescriptorsAssumption DEF FD

\* The tables of 0 and 1.
LEMMA StandardTables == \A fd \in FD : fd < 2 => StandardTable[fd] \in {"stdin", "stdout"}
<1> SUFFICES ASSUME NEW fd \in FD, fd < 2 PROVE StandardTable[fd] \in {"stdin", "stdout"}
  OBVIOUS
<1>1. fd \in {0, 1}
  BY FDs
<1> QED
  BY <1>1 DEF StandardTable

\* bootup() establishes it.
LEMMA InitIInv == Init => IInv
<1> SUFFICES ASSUME Init PROVE IInv
  OBVIOUS
<1>1. TypeOK
  BY FDs DEF Init, TypeOK, Tables, StandardTable
<1>2. FreeAtStart /\ NamesExist
  BY FDs DEF Init, FreeAtStart, NamesExist
<1>3. OwnOperations
  BY FDs DEF Init, OwnOperations, StandardTable
<1>4. ReadsAreSequential
  BY FDs DEF Init, ReadsAreSequential, StandardTable
<1> QED
  BY <1>1, <1>2, <1>3, <1>4 DEF IInv

\* Calls that fail, and write(), leave the table alone.
LEMMA TableUnchanged == IInv /\ UNCHANGED <<disk, table>> => IInv'
<1> SUFFICES ASSUME IInv, UNCHANGED <<disk, table>> PROVE IInv'
  OBVIOUS
<1>1. UNCHANGED <<disk, flags, jumptable, fileposition, filenames, got, failed>>
  BY DEF table
<1>0. Files' = Files /\ \A n : Entry(n)' = Entry(n)
  BY <1>1 DEF Files, Entry, Dentries
<1>2. TypeOK' /\ FreeAtStart'
  BY <1>0, <1>1 DEF IInv, TypeOK, FreeAtStart
<1>3. NamesExist' /\ OwnOperations'
  BY <1>0, <1>1 DEF IInv, NamesExist, OwnOperations
<1>4. ReadsAreSequential'
  BY <1>0, <1>1 DEF IInv, ReadsAreSequential
<1> QED
  BY <1>2, <1>3, <1>4 DEF IInv

\* execute() resets the positions and gives 0 and 1 their tables; the tables and
\* names that an earlier program left belong to descriptors that are not in use.
LEMMA ExecuteStep == IInv /\ execute => IInv'
<1> SUFFICES ASSUME IInv, execute PROVE IInv'
  OBVIOUS
<1>1. jumptable' = [fd \in FD |-> IF fd \in {0, 1} THEN StandardTable[fd] ELSE jumptable[fd]]
  BY DEF execute
<1>2. TypeOK'
  BY <1>1, FDs DEF IInv, TypeOK, execute, Tables, StandardTable, Files, Dentries
<1>3. FreeAtStart' /\ NamesExist'
  BY FDs DEF execute, FreeAtStart, NamesExist
<1>4. OwnOperations'
  BY <1>1, FDs DEF execute, OwnOperations, StandardTable
<1>5. ReadsAreSequential'
  BY <1>1, FDs DEF execute, ReadsAreSequential, StandardTable
<1> QED
  BY <1>2, <1>3, <1>4, <1>5 DEF IInv

\* open("stdin") and open("stdout") change nothing of a program that runs.
LEMMA OpenStdKeeps ==
  ASSUME IInv, NEW name, open_std(name)
  PROVE  UNCHANGED <<disk, dir_reads, table>> /\ retval' = 0 /\ name \in StandardNames
<1>1. PICK fd \in {0, 1} :
        /\ name \in StandardNames
        /\ jumptable' = [jumptable EXCEPT ![fd] = StandardTable[fd]]
        /\ flags' = flags \cup {fd}
        /\ retval' = 0
        /\ UNCHANGED <<disk, dir_reads, fileposition, filenames, got, failed>>
  BY DEF open_std, StandardNames
<1>2. flags' = flags /\ jumptable[fd] = StandardTable[fd]
  BY <1>1 DEF IInv, OwnOperations
<1>3. jumptable' = jumptable
  BY <1>1, <1>2, FDs DEF IInv, TypeOK
<1> QED
  BY <1>1, <1>2, <1>3 DEF table

\* So they preserve the invariant.
LEMMA OpenStdStep ==
  ASSUME IInv, NEW name, open_std(name)
  PROVE  IInv'
BY OpenStdKeeps, TableUnchanged

\* open() gives out a free descriptor, with its own table and from the start.
LEMMA OpenStep ==
  ASSUME IInv, NEW name, open(name)
  PROVE  IInv'
<1>1. PICK fd \in Free :
        /\ name \in Files
        /\ jumptable' = [jumptable EXCEPT ![fd] = Entry(name).type]
        /\ flags' = flags \cup {fd}
        /\ filenames' = [filenames EXCEPT ![fd] = name]
        /\ got' = [got EXCEPT ![fd] = 0]
        /\ failed' = [failed EXCEPT ![fd] = 0]
        /\ disk' = disk /\ fileposition' = fileposition
  BY DEF open
<1>2. fd \in FD /\ fd \notin flags /\ fd >= 2
  BY DescriptorsAssumption DEF Free, FD
<1>3. /\ Entry(name).type \in {"rtc", "dir", "file"}
      /\ Len(Entry(name).text) \in 0 .. POS - 2
  BY <1>1, EntryExists DEF IInv, TypeOK
<1>4. Files' = Files /\ \A n : Entry(n)' = Entry(n)
  BY <1>1 DEF Files, Entry, Dentries
<1>5. TypeOK'
  BY <1>1, <1>2, <1>3, <1>4, FDs DEF IInv, TypeOK, Tables
<1>6. FreeAtStart' /\ NamesExist'
  BY <1>1, <1>2, <1>4 DEF IInv, TypeOK, FreeAtStart, NamesExist
<1>7. OwnOperations'
  BY <1>1, <1>2, <1>4, FDs DEF IInv, TypeOK, OwnOperations
<1>8. ReadsAreSequential'
  <2> SUFFICES ASSUME NEW d \in flags', jumptable'[d] = "file"
               PROVE  LET entry == Entry(filenames'[d])
                      IN  /\ fileposition'[d] = (got'[d] - failed'[d]) % POS
                          /\ entry.good > Len(entry.text) =>
                               failed'[d] = 0 /\ fileposition'[d] <= Len(entry.text)
    BY <1>4 DEF ReadsAreSequential
  <2>1. CASE d = fd
    <3>1. got'[d] = 0 /\ failed'[d] = 0 /\ fileposition'[d] = 0 /\ filenames'[d] = name
      BY <1>1, <1>2, <2>1 DEF IInv, TypeOK, FreeAtStart
    <3>2. (0 - 0) % POS = 0
      BY DescriptorsAssumption, SmallMod
    <3> QED
      BY <1>3, <3>1, <3>2
  <2>2. CASE d # fd
    <3>1. /\ d \in flags /\ jumptable[d] = "file" /\ filenames'[d] = filenames[d]
          /\ got'[d] = got[d] /\ failed'[d] = failed[d] /\ fileposition'[d] = fileposition[d]
      BY <1>1, <1>2, <2>2 DEF IInv, TypeOK
    <3> QED
      BY <3>1 DEF IInv, ReadsAreSequential
  <2> QED
    BY <2>1, <2>2
<1> QED
  BY <1>5, <1>6, <1>7, <1>8 DEF IInv

\* close() makes a descriptor free and puts it back to the start.
LEMMA CloseStep ==
  ASSUME IInv, NEW fd \in FD, close(fd)
  PROVE  IInv'
<1>1. /\ fd >= 2 /\ flags' = flags \ {fd}
      /\ jumptable' = [jumptable EXCEPT ![fd] = "NULL"]
      /\ fileposition' = [fileposition EXCEPT ![fd] = 0]
      /\ UNCHANGED <<disk, filenames, got, failed>>
  BY DEF close, Closable, NotInUse, ResetPosition
<1>2. Files' = Files /\ \A n : Entry(n)' = Entry(n)
  BY <1>1 DEF Files, Entry, Dentries
<1>3. TypeOK'
  BY <1>1, <1>2, FDs DEF IInv, TypeOK, Tables
<1>4. FreeAtStart' /\ NamesExist'
  BY <1>1, <1>2 DEF IInv, TypeOK, FreeAtStart, NamesExist
<1>5. OwnOperations'
  BY <1>1, <1>2, FDs DEF IInv, TypeOK, OwnOperations
<1>6. ReadsAreSequential'
  <2> SUFFICES ASSUME NEW d \in flags', jumptable'[d] = "file"
               PROVE  LET entry == Entry(filenames'[d])
                      IN  /\ fileposition'[d] = (got'[d] - failed'[d]) % POS
                          /\ entry.good > Len(entry.text) =>
                               failed'[d] = 0 /\ fileposition'[d] <= Len(entry.text)
    BY <1>2 DEF ReadsAreSequential
  <2>1. d \in flags /\ jumptable[d] = "file" /\ fileposition'[d] = fileposition[d]
    BY <1>1 DEF IInv, TypeOK
  <2> QED
    BY <1>1, <2>1 DEF IInv, ReadsAreSequential
<1> QED
  BY <1>3, <1>4, <1>5, <1>6 DEF IInv

\* What file_read() returns: -1, or no more than the rest of the file; in a file
\* of good blocks never -1.
LEMMA FileRead ==
  ASSUME IInv, NEW fd \in flags, jumptable[fd] = "file", NEW n \in Nat
  PROVE  LET entry == Entry(filenames[fd])
             size  == Len(entry.text)
             b     == file_read(fd, n)
         IN  /\ size \in 0 .. POS - 2
             /\ b \in -1 .. POS - 1
             /\ b > 0 => fileposition[fd] + b <= size
             /\ entry.good > size => b # -1
<1> DEFINE entry == Entry(filenames[fd])
<1> DEFINE size == Len(entry.text)
<1> DEFINE pos == fileposition[fd]
<1>1. fd \in FD /\ fd >= 2
  <2>1. fd \in FD /\ fd \in Nat
    BY FDs DEF IInv, TypeOK
  <2>2. fd < 2 => jumptable[fd] = StandardTable[fd]
    BY DEF IInv, OwnOperations
  <2>3. ~ (fd < 2)
    BY <2>1, <2>2, StandardTables
  <2> QED
    BY <2>1, <2>3
<1>2. size \in 0 .. POS - 2 /\ entry.good \in Nat /\ pos \in 0 .. POS - 1 /\ POS \in Nat
  BY <1>1, EntryExists, DescriptorsAssumption DEF IInv, TypeOK, NamesExist
<1>3. Min({n, size - pos}) = IF n <= size - pos THEN n ELSE size - pos
  BY <1>2, MinOfTwo
<1>4. file_read(fd, n) =
        IF pos >= size THEN 0
        ELSE IF entry.good <= size /\ (pos >= entry.good \/ pos + n > entry.good) THEN -1
        ELSE IF n <= size - pos THEN n ELSE size - pos
  BY <1>3 DEF file_read
<1> HIDE DEF entry, size, pos
<1>5. /\ file_read(fd, n) \in -1 .. POS - 1
      /\ file_read(fd, n) > 0 => pos + file_read(fd, n) <= size
      /\ entry.good > size => file_read(fd, n) # -1
  BY <1>2, <1>4
<1> QED
  BY <1>2, <1>5 DEF entry, size, pos

\* read() moves the position by what it delivered, or back by one.
LEMMA ReadStep ==
  ASSUME IInv, NEW fd \in FD, NEW n \in Nat, read(fd, n)
  PROVE  IInv'
<1> DEFINE b == BytesRead(fd, n)
<1>0. n \in Nat /\ POS \in Nat /\ POS > 0
  BY DescriptorsAssumption
<1>1. /\ fd \in flags
      /\ fileposition' = [fileposition EXCEPT ![fd] = (fileposition[fd] + b) % POS]
      /\ got' = [got EXCEPT ![fd] = IF b > 0 THEN (got[fd] + b) % POS ELSE got[fd]]
      /\ failed' = [failed EXCEPT ![fd] = IF b = -1 THEN (failed[fd] + 1) % POS ELSE failed[fd]]
      /\ UNCHANGED <<disk, flags, jumptable, filenames>>
  BY DEF read, Advance
<1>2. Files' = Files /\ \A m : Entry(m)' = Entry(m)
  BY <1>1 DEF Files, Entry, Dentries
<1>3. jumptable[fd] \in {"stdin", "stdout", "rtc", "dir", "file"}
  <2>1. CASE fd < 2
    <3>1. jumptable[fd] = StandardTable[fd]
      BY <1>1, <2>1 DEF IInv, OwnOperations
    <3> QED
      BY <2>1, <3>1, StandardTables
  <2>2. CASE fd >= 2
    <3>1. filenames[fd] \in Files /\ disk \in Disks
      BY <1>1, <2>2 DEF IInv, TypeOK, NamesExist
    <3>2. ~ (fd < 2)
      BY <2>2, FDs
    <3>3. jumptable[fd] = Entry(filenames[fd]).type
      BY <1>1, <3>2 DEF IInv, OwnOperations
    <3> QED
      BY <3>1, <3>3, EntryExists
  <2> QED
    BY <2>1, <2>2, FDs
<1>4. b \in Int /\ (jumptable[fd] = "file" => b = file_read(fd, n))
  <2>1. CASE jumptable[fd] = "file"
    BY <1>0, <1>1, <2>1, FileRead, DescriptorsAssumption DEF BytesRead
  <2>2. CASE jumptable[fd] # "file"
    BY <1>0, <1>3, <2>2, DescriptorsAssumption DEF BytesRead
  <2> QED
    BY <2>1, <2>2
<1> HIDE DEF b
<1>5. TypeOK'
  <2>1. fileposition[fd] \in 0 .. POS - 1 /\ got[fd] \in 0 .. POS - 1 /\ failed[fd] \in 0 .. POS - 1
    BY DEF IInv, TypeOK
  <2>2. /\ (fileposition[fd] + b) % POS \in 0 .. POS - 1
        /\ (got[fd] + b) % POS \in 0 .. POS - 1
        /\ (failed[fd] + 1) % POS \in 0 .. POS - 1
    BY <1>0, <1>4, <2>1, SmallMod
  <2> QED
    BY <1>1, <1>2, <2>1, <2>2 DEF IInv, TypeOK
<1>6. FreeAtStart' /\ NamesExist' /\ OwnOperations'
  BY <1>1, <1>2 DEF IInv, TypeOK, FreeAtStart, NamesExist, OwnOperations
<1>7. ReadsAreSequential'
  <2> SUFFICES ASSUME NEW d \in flags', jumptable'[d] = "file"
               PROVE  LET entry == Entry(filenames'[d])
                      IN  /\ fileposition'[d] = (got'[d] - failed'[d]) % POS
                          /\ entry.good > Len(entry.text) =>
                               failed'[d] = 0 /\ fileposition'[d] <= Len(entry.text)
    BY <1>2 DEF ReadsAreSequential
  <2>0. d \in flags /\ d \in FD /\ jumptable[d] = "file" /\ filenames'[d] = filenames[d]
    BY <1>1 DEF IInv, TypeOK
  <2> DEFINE entry == Entry(filenames[d])
  <2> DEFINE size == Len(entry.text)
  <2>1. /\ fileposition[d] = (got[d] - failed[d]) % POS
        /\ entry.good > size => failed[d] = 0 /\ fileposition[d] <= size
    BY <2>0 DEF IInv, ReadsAreSequential
  <2>2. CASE d # fd
    <3>1. fileposition'[d] = fileposition[d] /\ got'[d] = got[d] /\ failed'[d] = failed[d]
      BY <1>1, <2>0, <2>2 DEF IInv, TypeOK
    <3> QED
      BY <2>0, <2>1, <3>1
  <2>3. CASE d = fd
    <3>1. /\ size \in 0 .. POS - 2 /\ b \in -1 .. POS - 1
          /\ b > 0 => fileposition[fd] + b <= size
          /\ entry.good > size => b # -1
      BY <1>0, <1>4, <2>0, <2>3, FileRead
    <3>2. /\ got[fd] \in 0 .. POS - 1 /\ failed[fd] \in 0 .. POS - 1
          /\ fileposition[fd] \in 0 .. POS - 1
      BY DEF IInv, TypeOK
    <3>3. /\ fileposition'[fd] = (fileposition[fd] + b) % POS
          /\ got'[fd] = IF b > 0 THEN (got[fd] + b) % POS ELSE got[fd]
          /\ failed'[fd] = IF b = -1 THEN (failed[fd] + 1) % POS ELSE failed[fd]
      BY <1>1 DEF IInv, TypeOK
    <3> HIDE DEF entry, size
    <3>4. fileposition'[fd] = (got'[fd] - failed'[fd]) % POS
      <4>1. CASE b = -1
        <5>1. (((got[fd] - failed[fd]) % POS) - 1) % POS
                = (got[fd] - ((failed[fd] + 1) % POS)) % POS
          BY <1>0, <3>2, PositionMoves
        <5>2. fileposition[fd] + b = fileposition[fd] - 1
          BY <3>2, <4>1
        <5> QED
          BY <2>1, <2>3, <3>3, <4>1, <5>1, <5>2
      <4>2. CASE b = 0
        <5>1. (fileposition[fd] + 0) % POS = fileposition[fd]
          BY <1>0, <3>2, SmallMod
        <5> QED
          BY <2>1, <2>3, <3>3, <4>2, <5>1
      <4>3. CASE b > 0
        <5>1. b \in 1 .. POS - 1
          BY <3>1, <4>3
        <5>2. (((got[fd] - failed[fd]) % POS) + b) % POS
                = (((got[fd] + b) % POS) - failed[fd]) % POS
          BY <1>0, <3>2, <5>1, PositionMoves
        <5> QED
          BY <2>1, <2>3, <3>3, <4>3, <5>1, <5>2
      <4> QED
        BY <3>1, <4>1, <4>2, <4>3
    <3>5. ASSUME entry.good > size PROVE failed'[fd] = 0 /\ fileposition'[fd] <= size
      <4>1. b >= 0 /\ failed'[fd] = 0
        BY <2>1, <2>3, <3>1, <3>3, <3>5
      <4>2. fileposition[fd] + b <= size
        BY <2>1, <2>3, <3>1, <3>2, <3>5, <4>1
      <4>3. (fileposition[fd] + b) % POS = fileposition[fd] + b
        BY <1>0, <3>1, <3>2, <4>1, <4>2, SmallMod
      <4> QED
        BY <3>3, <4>1, <4>2, <4>3
    <3> QED
      BY <2>0, <2>3, <3>4, <3>5 DEF entry, size
  <2> QED
    BY <2>2, <2>3
<1> QED
  BY <1>5, <1>6, <1>7 DEF IInv

\* What a program may ask of the kernel.
SystemCall ==
  \/ execute
  \/ \E name : open_std(name) \/ open(name) \/ open_fails(name)
  \/ \E fd : close(fd) \/ close_fails(fd)
  \/ \E fd : \E n \in Nat : read(fd, n)
  \/ \E fd, n : write(fd, n)
  \/ transfer_fails
  \/ UNCHANGED vars

\* Every system call preserves the invariant, whatever its arguments.
LEMMA CallIInv == IInv /\ SystemCall => IInv'
<1> SUFFICES ASSUME IInv, SystemCall PROVE IInv'
  OBVIOUS
<1>1. ASSUME NEW name, open_fails(name) PROVE IInv'
  BY <1>1, TableUnchanged DEF open_fails
<1>2. ASSUME NEW fd, close_fails(fd) PROVE IInv'
  BY <1>2, TableUnchanged DEF close_fails
<1>3. ASSUME NEW fd, NEW n, write(fd, n) PROVE IInv'
  BY <1>3, TableUnchanged DEF write
<1>4. CASE transfer_fails
  BY <1>4, TableUnchanged DEF transfer_fails
<1>5. CASE UNCHANGED vars
  BY <1>5, TableUnchanged DEF vars
<1>6. ASSUME NEW fd, NEW n \in Nat, read(fd, n) PROVE IInv'
  <2>1. fd \in FD
    BY <1>6 DEF read, IInv, TypeOK
  <2> QED
    BY <1>6, <2>1, ReadStep
<1>7. ASSUME NEW fd, close(fd) PROVE IInv'
  <2>1. fd \in FD
    BY <1>7 DEF close, Closable, IInv, TypeOK
  <2> QED
    BY <1>7, <2>1, CloseStep
<1>8. ASSUME NEW name, open(name) PROVE IInv'
  BY <1>8, OpenStep
<1>9. ASSUME NEW name, open_std(name) PROVE IInv'
  BY <1>9, OpenStdStep
<1> QED
  BY <1>1, <1>2, <1>3, <1>4, <1>5, <1>6, <1>7, <1>8, <1>9, ExecuteStep DEF SystemCall

\* Programs of any kind make such calls.
LEMMA AnyCall == [Next]_vars => SystemCall
<1>1. Sizes \subseteq Nat
  BY DescriptorsAssumption
<1> QED
  BY <1>1 DEF Next, SystemCall

\* Every call of a program preserves the invariant.
LEMMA NextIInv == IInv /\ [Next]_vars => IInv'
BY AnyCall, CallIInv

\* The invariant holds in every reachable state.
LEMMA DescriptorInvariant == Spec => []IInv
BY InitIInv, NextIInv, PTL DEF Spec

-----------------------------------------------------------------------------
\* Files are read without a gap or a repetition from their start, whatever a
\* descriptor, or the PCB, was used for before.
THEOREM AlwaysReadsAreSequential == Spec => []ReadsAreSequential
<1>1. IInv => ReadsAreSequential
  BY DEF IInv
<1> QED
  BY <1>1, DescriptorInvariant, PTL

\* read(), write() and close() go through the table of what was opened, never
\* through NULL or one that an earlier program left, and 0 and 1 stay open.
THEOREM AlwaysOwnOperations == Spec => []OwnOperations
<1>1. IInv => OwnOperations
  BY DEF IInv
<1> QED
  BY <1>1, DescriptorInvariant, PTL

-----------------------------------------------------------------------------
(* The list of blinking characters *)

\* A set of natural numbers that is not empty has a least element: induction over
\* the passes of a loop, for the predicates below.
LEMMA LeastNumber ==
  ASSUME NEW T \in SUBSET Nat, T # {}
  PROVE  \E x \in T : \A y \in T : x <= y
<1> DEFINE R == OpToRel(<, Nat)
<1>1. \E x \in T : \A y \in T : ~ (<<y, x>> \in R)
  <2>1. IsWellFoundedOn(R, Nat)
    BY NatLessThanWellFounded
  <2> HIDE DEF R
  <2> QED
    BY <2>1, WFMin
<1>2. \A x, y \in T : y < x => <<y, x>> \in R
  BY DEF OpToRel
<1> HIDE DEF R
<1>3. PICK x \in T : \A y \in T : ~ (<<y, x>> \in R)
  BY <1>1
<1>4. \A y \in T : ~ (y < x)
  BY <1>2, <1>3
<1> QED
  BY <1>3, <1>4

\* L is what the next pointers lead through from h: no structure twice, the last
\* one without a successor, and all that have a location.
IsList(L, h, a) ==
  /\ L \in Seq(Cells)
  /\ \A i, j \in 1 .. Len(L) : L[i] = L[j] => i = j
  /\ h = IF Len(L) = 0 THEN Null ELSE L[1]
  /\ \A i \in 1 .. Len(L) : /\ L[i] \in DOMAIN a
                            /\ a[L[i]].next = IF i = Len(L) THEN Null ELSE L[i + 1]
  /\ \A s \in DOMAIN a : a[s].location # 0 <=> \E i \in 1 .. Len(L) : L[i] = s

\* The first n structures of a list.
Part(L, n) == [i \in 1 .. n |-> L[i]]

\* One step of the walk of Listed.
WalkOn(h, a, seen) ==
  LET s == IF seen = << >> THEN h ELSE a[seen[Len(seen)]].next
  IN  IF s = Null THEN seen ELSE Append(seen, s)

\* What the walk has seen after each step.
Walks(h, a, top, g) == g = [n \in 0 .. top |-> IF n = 0 THEN << >> ELSE WalkOn(h, a, g[n - 1])]

\* The screen has a number of cells, and no cell is NULL.
LEMMA CellsNumber ==
  /\ COLS * ROWS \in Nat /\ COLS * ROWS > 0
  /\ Cells \subseteq Nat /\ Null \notin Cells /\ 0 \in Cells
<1>1. COLS * ROWS \in Nat /\ COLS * ROWS > 0
  BY BlinkAssumption
<1> QED
  BY <1>1 DEF Cells, Null

\* A list is not longer than the screen has cells.
LEMMA ListFits ==
  ASSUME NEW L, NEW h, NEW a, IsList(L, h, a)
  PROVE  Len(L) \in Nat /\ Len(L) <= COLS * ROWS
<1> DEFINE N == COLS * ROWS
<1>1. N \in Nat /\ N > 0
  BY CellsNumber
<1>2. Cells = 0 .. N - 1
  BY DEF Cells
<1> HIDE DEF N
<1>3. IsFiniteSet(Cells) /\ Cardinality(Cells) = N
  BY <1>1, <1>2, FS_Interval
<1>4. Len(L) \in Nat /\ L \in [1 .. Len(L) -> Cells]
  BY DEF IsList
<1>5. L \in Injection(1 .. Len(L), Cells)
  BY <1>4 DEF Injection, IsInjective, IsList
<1>6. Cardinality(1 .. Len(L)) <= N
  BY <1>3, <1>5, FS_Injection
<1>7. Cardinality(1 .. Len(L)) = Len(L)
  BY <1>4, FS_Interval
<1> QED
  BY <1>4, <1>6, <1>7 DEF N

\* One more structure of the list.
LEMMA PartNext ==
  ASSUME NEW S, NEW L \in Seq(S), NEW n \in 0 .. Len(L) - 1
  PROVE  Append(Part(L, n), L[n + 1]) = Part(L, n + 1)
<1>0. Len(L) \in Nat /\ n \in Nat /\ n + 1 \in 1 .. Len(L)
  OBVIOUS
<1> DEFINE u == Part(L, n)
<1> DEFINE w == Part(L, n + 1)
<1>1. u \in Seq(S) /\ Len(u) = n /\ \A i \in 1 .. n : u[i] = L[i]
  BY <1>0 DEF Part
<1>2. w \in Seq(S) /\ Len(w) = n + 1 /\ \A i \in 1 .. n + 1 : w[i] = L[i]
  BY <1>0 DEF Part
<1>3. L[n + 1] \in S
  BY <1>0
<1> HIDE DEF u, w
<1>4. /\ Append(u, L[n + 1]) \in Seq(S) /\ Len(Append(u, L[n + 1])) = n + 1
      /\ \A i \in 1 .. n : Append(u, L[n + 1])[i] = u[i]
      /\ Append(u, L[n + 1])[n + 1] = L[n + 1]
  BY <1>0, <1>1, <1>3, AppendProperties
<1>5. \A i \in 1 .. n + 1 : Append(u, L[n + 1])[i] = w[i]
  BY <1>0, <1>1, <1>2, <1>4
<1> QED
  BY <1>2, <1>4, <1>5, SeqEqual DEF u, w

\* A step of the walk goes to the next structure of the list, or stays at its end.
LEMMA WalkOnList ==
  ASSUME NEW L, NEW h, NEW a, IsList(L, h, a), NEW n \in 0 .. Len(L)
  PROVE  WalkOn(h, a, Part(L, n)) = IF n = Len(L) THEN Part(L, n) ELSE Part(L, n + 1)
<1>0. L \in Seq(Cells) /\ Len(L) \in Nat /\ n \in Nat
  BY ListFits DEF IsList
<1> DEFINE s == IF Part(L, n) = << >> THEN h ELSE a[Part(L, n)[Len(Part(L, n))]].next
<1>1. Len(Part(L, n)) = n /\ Part(L, n) \in Seq(Cells)
  BY <1>0 DEF Part
<1>2. s = IF n = Len(L) THEN Null ELSE L[n + 1]
  <2>1. CASE n = 0
    <3>1. Part(L, n) = << >>
      BY <1>1, <2>1, EmptySeq
    <3> QED
      BY <1>0, <2>1, <3>1 DEF IsList
  <2>2. CASE n > 0
    <3>1. Part(L, n) # << >>
      BY <1>1, <2>2
    <3>2. Part(L, n)[Len(Part(L, n))] = L[n] /\ n \in 1 .. Len(L)
      BY <1>0, <1>1, <2>2 DEF Part
    <3> QED
      BY <3>1, <3>2 DEF IsList
  <2> QED
    BY <1>0, <2>1, <2>2
<1>3. WalkOn(h, a, Part(L, n)) = IF s = Null THEN Part(L, n) ELSE Append(Part(L, n), s)
  BY DEF WalkOn
<1> HIDE DEF s
<1>4. CASE n = Len(L)
  BY <1>2, <1>3, <1>4
<1>5. CASE n # Len(L)
  <2>1. n \in 0 .. Len(L) - 1 /\ n + 1 \in 1 .. Len(L)
    BY <1>0, <1>5
  <2>2. L[n + 1] \in Cells /\ L[n + 1] # Null
    BY <1>0, <2>1, CellsNumber
  <2> QED
    BY <1>0, <1>2, <1>3, <1>5, <2>1, <2>2, PartNext
<1> QED
  BY <1>4, <1>5

\* The walk finds the list.
LEMMA WalkIsList ==
  ASSUME NEW L, NEW h, NEW a, IsList(L, h, a), NEW top \in Nat, Len(L) <= top
  PROVE  (CHOOSE g : Walks(h, a, top, g))[top] = L
<1>0. L \in Seq(Cells) /\ Len(L) \in Nat
  BY ListFits DEF IsList
<1> DEFINE Up(n) == Part(L, IF n <= Len(L) THEN n ELSE Len(L))
<1>1. Up(0) = << >>
  <2>1. Up(0) = Part(L, 0)
    BY <1>0
  <2> QED
    BY <2>1 DEF Part
<1>2. ASSUME NEW n \in 1 .. top PROVE WalkOn(h, a, Up(n - 1)) = Up(n)
  <2>1. CASE n <= Len(L)
    <3>1. n - 1 \in 0 .. Len(L) /\ n - 1 # Len(L) /\ (n - 1) + 1 = n
      BY <1>0, <2>1
    <3>2. WalkOn(h, a, Part(L, n - 1)) = Part(L, n)
      BY <3>1, WalkOnList
    <3> QED
      BY <1>0, <2>1, <3>1, <3>2
  <2>2. CASE ~ (n <= Len(L))
    <3>1. Up(n - 1) = Part(L, Len(L)) /\ Up(n) = Part(L, Len(L)) /\ Len(L) \in 0 .. Len(L)
      BY <1>0, <2>2
    <3>2. WalkOn(h, a, Part(L, Len(L))) = Part(L, Len(L))
      BY <3>1, WalkOnList
    <3> QED
      BY <3>1, <3>2
  <2> QED
    BY <2>1, <2>2
<1>3. Up(top) = L
  <2>1. Up(top) = Part(L, Len(L))
    BY <1>0
  <2> QED
    BY <1>0, <2>1 DEF Part
<1> HIDE DEF Up
<1>4. \E g : Walks(h, a, top, g)
  <2> DEFINE f == [n \in 0 .. top |-> Up(n)]
  <2>1. \A n \in 0 .. top : f[n] = IF n = 0 THEN << >> ELSE WalkOn(h, a, f[n - 1])
    <3> SUFFICES ASSUME NEW n \in 0 .. top
                 PROVE  f[n] = IF n = 0 THEN << >> ELSE WalkOn(h, a, f[n - 1])
      OBVIOUS
    <3>1. CASE n = 0
      BY <1>1, <3>1
    <3>2. CASE n # 0
      <4>1. n \in 1 .. top /\ n - 1 \in 0 .. top
        BY <3>2
      <4>2. f[n] = Up(n) /\ f[n - 1] = Up(n - 1)
        BY <4>1
      <4> HIDE DEF f
      <4> QED
        BY <1>2, <3>2, <4>1, <4>2
    <3> QED
      BY <3>1, <3>2
  <2>2. Walks(h, a, top, f)
    BY <2>1 DEF Walks
  <2> QED
    BY <2>2
<1>5. ASSUME NEW g, Walks(h, a, top, g) PROVE g[top] = L
  <2>1. \A n \in 0 .. top : g[n] = IF n = 0 THEN << >> ELSE WalkOn(h, a, g[n - 1])
    BY <1>5 DEF Walks
  <2> DEFINE T == {n \in 0 .. top : g[n] # Up(n)}
  <2>2. T = {}
    <3> SUFFICES ASSUME T # {} PROVE FALSE
      OBVIOUS
    <3>1. PICK n \in T : \A m \in T : n <= m
      <4>1. T \in SUBSET Nat
        OBVIOUS
      <4> HIDE DEF T
      <4> QED
        BY <4>1, LeastNumber
    <3>2. n \in 0 .. top /\ g[n] # Up(n)
      BY <3>1
    <3>3. n # 0
      BY <1>1, <2>1, <3>2
    <3>4. n \in 1 .. top /\ n - 1 \in 0 .. top /\ n - 1 \notin T
      BY <3>1, <3>2, <3>3
    <3>5. g[n - 1] = Up(n - 1)
      BY <3>4
    <3> HIDE DEF T
    <3> QED
      BY <1>2, <2>1, <3>2, <3>3, <3>4, <3>5
  <2> QED
    BY <1>3, <2>2
<1> QED
  BY <1>4, <1>5

\* What the next pointers lead through is what Listed gives, before a step and
\* behind it.
LEMMA ListedIsList ==
  ASSUME NEW L
  PROVE  /\ IsList(L, mp1_list_head, blink_array) => Listed = L
         /\ IsList(L, mp1_list_head', blink_array') => Listed' = L
<1> DEFINE top == COLS * ROWS + 1
<1>1. top \in Nat
  BY CellsNumber
<1>2. Listed = (CHOOSE g : Walks(mp1_list_head, blink_array, top, g))[top]
  BY Zenon DEF Listed, Walks, WalkOn
<1>3. Listed' = (CHOOSE g : Walks(mp1_list_head', blink_array', top, g))[top]
  BY Zenon DEF Listed, Walks, WalkOn
<1>4. \A h, a : IsList(L, h, a) => Len(L) <= top
  BY CellsNumber, ListFits
<1> HIDE DEF top
<1> QED
  BY <1>1, <1>2, <1>3, <1>4, WalkIsList

\* Each structure has a location and a pointer to the next, and there is a list.
Linked(h, a) ==
  /\ DOMAIN a = Cells
  /\ \A s \in Cells : {"location", "next"} \subseteq DOMAIN a[s]
  /\ \E L : IsList(L, h, a)

\* What leaves locations and pointers alone leaves the list alone.
LEMMA SameLinks ==
  ASSUME NEW h, NEW a, NEW b, Linked(h, a), DOMAIN b = Cells,
         \A s \in Cells : /\ {"location", "next"} \subseteq DOMAIN b[s]
                          /\ b[s].location = a[s].location /\ b[s].next = a[s].next
  PROVE  Linked(h, b)
<1>1. PICK L : IsList(L, h, a)
  BY DEF Linked
<1>2. \A i \in 1 .. Len(L) : L[i] \in Cells
  BY <1>1 DEF IsList
<1>3. IsList(L, h, b)
  BY <1>1, <1>2 DEF IsList, Linked
<1> QED
  BY <1>3 DEF Linked

\* mp1_ioctl_add(): the structure that mp1_malloc() gives was not in the list, if
\* no character was added at location 0.
LEMMA AddStep ==
  ASSUME Linked(mp1_list_head, blink_array), NEW blink,
         {"location", "next"} \subseteq DOMAIN blink, mp1_ioctl_add(blink), ~ at_zero'
  PROVE  Linked(mp1_list_head', blink_array')
<1>1. CASE UNCHANGED bvars
  BY <1>1 DEF bvars
<1>2. CASE ~ UNCHANGED bvars
  <2> DEFINE s == mp1_malloc
  <2> DEFINE new == [blink EXCEPT !.status = TRUE, !.countdown = blink.on_length,
                                  !.next = mp1_list_head]
  <2>1. /\ s # Null /\ mp1_list_head' = s
        /\ blink_array' = [blink_array EXCEPT ![s] = new]
        /\ at_zero' = (at_zero \/ blink.location = 0)
    BY <1>2 DEF mp1_ioctl_add
  <2>0. blink.location # 0
    BY <2>1
  <2>2. s \in FreeSlots
    <3>1. FreeSlots # {} /\ s = Min(FreeSlots)
      BY <2>1 DEF mp1_malloc
    <3>2. FreeSlots \in SUBSET Nat
      BY CellsNumber DEF FreeSlots, Linked
    <3>3. \E x \in FreeSlots : \A y \in FreeSlots : x <= y
      BY <3>1, <3>2, LeastNumber
    <3> QED
      BY <3>1, <3>3 DEF Min
  <2>3. s \in Cells /\ blink_array[s].location = 0
    BY <2>2 DEF FreeSlots, Linked
  <2>4. {"location", "next"} \subseteq DOMAIN new /\ new.location = blink.location
        /\ new.next = mp1_list_head
    OBVIOUS
  <2> HIDE DEF s, new
  <2>5. PICK L : IsList(L, mp1_list_head, blink_array)
    BY DEF Linked
  <2>6. /\ L \in Seq(Cells) /\ Len(L) \in Nat
        /\ \A i \in 1 .. Len(L) : L[i] \in Cells /\ L[i] # s
    BY <2>3, <2>5 DEF IsList
  <2> DEFINE M == [i \in 1 .. Len(L) + 1 |-> IF i = 1 THEN s ELSE L[i - 1]]
  <2>7. /\ M \in Seq(Cells) /\ Len(M) = Len(L) + 1
        /\ M[1] = s /\ \A i \in 1 .. Len(L) : M[i + 1] = L[i]
    <3>1. \A i \in 1 .. Len(L) + 1 : M[i] \in Cells
      BY <2>3, <2>6
    <3> QED
      BY <2>6, <3>1
  <2>8. \A i \in 1 .. Len(M) : i = 1 \/ (i - 1 \in 1 .. Len(L) /\ M[i] = L[i - 1])
    BY <2>6, <2>7
  <2> HIDE DEF M
  <2>9. \A i, j \in 1 .. Len(M) : M[i] = M[j] => i = j
    <3> SUFFICES ASSUME NEW i \in 1 .. Len(M), NEW j \in 1 .. Len(M), M[i] = M[j] PROVE i = j
      OBVIOUS
    <3>1. CASE i = 1 \/ j = 1
      BY <2>6, <2>7, <2>8, <3>1
    <3>2. CASE i # 1 /\ j # 1
      <4>1. /\ i - 1 \in 1 .. Len(L) /\ j - 1 \in 1 .. Len(L)
            /\ L[i - 1] = L[j - 1]
        BY <2>8, <3>2
      <4>2. i - 1 = j - 1
        BY <2>5, <4>1 DEF IsList
      <4> QED
        BY <2>6, <2>7, <4>2
    <3> QED
      BY <3>1, <3>2
  <2>10. /\ DOMAIN blink_array' = Cells
         /\ blink_array'[s] = new
         /\ \A p \in Cells : p # s => blink_array'[p] = blink_array[p]
    BY <2>1, <2>3 DEF Linked
  <2>11. \A i \in 1 .. Len(M) : /\ M[i] \in DOMAIN blink_array'
                                /\ blink_array'[M[i]].next = IF i = Len(M) THEN Null ELSE M[i + 1]
    <3> SUFFICES ASSUME NEW i \in 1 .. Len(M)
                 PROVE  /\ M[i] \in DOMAIN blink_array'
                        /\ blink_array'[M[i]].next = IF i = Len(M) THEN Null ELSE M[i + 1]
      OBVIOUS
    <3>1. M[i] \in Cells
      BY <2>7
    <3>2. CASE i = 1
      <4>1. blink_array'[M[i]].next = mp1_list_head
        BY <2>4, <2>7, <2>10, <3>2
      <4>2. mp1_list_head = IF Len(L) = 0 THEN Null ELSE L[1]
        BY <2>5 DEF IsList
      <4>3. Len(L) # 0 => M[2] = L[1]
        BY <2>6, <2>7
      <4> QED
        BY <2>6, <2>7, <2>10, <3>1, <3>2, <4>1, <4>2, <4>3
    <3>3. CASE i # 1
      <4>1. i - 1 \in 1 .. Len(L) /\ M[i] = L[i - 1] /\ M[i] # s
        BY <2>6, <2>8, <3>3
      <4>2. blink_array'[M[i]].next = blink_array[L[i - 1]].next
        BY <2>10, <3>1, <4>1
      <4>3. blink_array[L[i - 1]].next = IF i - 1 = Len(L) THEN Null ELSE L[(i - 1) + 1]
        BY <2>5, <4>1 DEF IsList
      <4>4. i - 1 = Len(L) <=> i = Len(M)
        BY <2>6, <2>7
      <4>5. i - 1 # Len(L) => (i - 1) + 1 \in 1 .. Len(L) /\ M[i + 1] = L[(i - 1) + 1]
        BY <2>6, <2>7, <4>1
      <4> QED
        BY <2>10, <3>1, <4>2, <4>3, <4>4, <4>5
    <3> QED
      BY <3>2, <3>3
  <2>12. ASSUME NEW p \in Cells
         PROVE  blink_array'[p].location # 0 <=> \E i \in 1 .. Len(M) : M[i] = p
    <3>1. CASE p = s
      BY <2>0, <2>4, <2>6, <2>7, <2>10, <3>1
    <3>2. CASE p # s
      <4>1. blink_array'[p].location # 0 <=> \E i \in 1 .. Len(L) : L[i] = p
        BY <2>5, <2>10, <3>2 DEF IsList, Linked
      <4>2. (\E i \in 1 .. Len(L) : L[i] = p) => \E i \in 1 .. Len(M) : M[i] = p
        <5> SUFFICES ASSUME NEW i \in 1 .. Len(L), L[i] = p PROVE \E j \in 1 .. Len(M) : M[j] = p
          OBVIOUS
        <5>1. i + 1 \in 1 .. Len(M) /\ M[i + 1] = p
          BY <2>6, <2>7
        <5> QED
          BY <5>1
      <4>3. (\E i \in 1 .. Len(M) : M[i] = p) => \E i \in 1 .. Len(L) : L[i] = p
        BY <2>7, <2>8, <3>2
      <4> QED
        BY <4>1, <4>2, <4>3
    <3> QED
      BY <3>1, <3>2
  <2>13. mp1_list_head' = IF Len(M) = 0 THEN Null ELSE M[1]
    BY <2>1, <2>6, <2>7
  <2>14. IsList(M, mp1_list_head', blink_array')
    BY <2>7, <2>9, <2>10, <2>11, <2>12, <2>13 DEF IsList
  <2>15. \A p \in Cells : {"location", "next"} \subseteq DOMAIN blink_array'[p]
    BY <2>4, <2>10 DEF Linked
  <2> QED
    BY <2>10, <2>14, <2>15 DEF Linked
<1> QED
  BY <1>1, <1>2

\* mp1_find_helper() gives a structure of the list, or NULL.
LEMMA FindInList ==
  ASSUME NEW L, IsList(L, mp1_list_head, blink_array), NEW location,
         mp1_find_helper(location) # Null
  PROVE  \E k \in 1 .. Len(L) : mp1_find_helper(location) = L[k]
<1>1. Listed = L /\ L \in Seq(Cells) /\ DOMAIN L = 1 .. Len(L)
  BY ListedIsList DEF IsList
<1>2. At(location) # {} /\ mp1_find_helper(location) = L[Min(At(location))]
  BY <1>1 DEF mp1_find_helper
<1>3. At(location) \in SUBSET Nat /\ At(location) \subseteq 1 .. Len(L)
  BY <1>1 DEF At
<1>4. \E x \in At(location) : \A y \in At(location) : x <= y
  BY <1>2, <1>3, LeastNumber
<1>5. Min(At(location)) \in At(location)
  BY <1>4 DEF Min
<1> QED
  BY <1>2, <1>3, <1>5

\* mp1_ioctl_remove(): the one structure that pointed to the removed one points
\* behind it, from whatever place of the list it is taken.
LEMMA RemoveStep ==
  ASSUME Linked(mp1_list_head, blink_array), NEW location, mp1_ioctl_remove(location)
  PROVE  Linked(mp1_list_head', blink_array')
<1> DEFINE s == mp1_find_helper(location)
<1>1. CASE s = Null
  BY <1>1 DEF mp1_ioctl_remove, bvars
<1>2. CASE s # Null
  <2>1. /\ blink_array' = Unlinked(s)
        /\ mp1_list_head' = IF mp1_list_head = s THEN blink_array[s].next ELSE mp1_list_head
    BY <1>2 DEF mp1_ioctl_remove
  <2>2. PICK L : IsList(L, mp1_list_head, blink_array)
    BY DEF Linked
  <2>3. PICK k \in 1 .. Len(L) : s = L[k]
    BY <1>2, <2>2, FindInList
  <2> HIDE DEF s
  <2>4. /\ L \in Seq(Cells) /\ Len(L) \in Nat /\ Listed = L /\ Range(Listed) = {L[i] : i \in 1 .. Len(L)}
        /\ \A i \in 1 .. Len(L) : L[i] \in Cells
    BY <2>2, ListedIsList DEF IsList, Range
  <2>5. \A i, j \in 1 .. Len(L) : L[i] = L[j] => i = j
    BY <2>2 DEF IsList
  <2>6. \A i \in 1 .. Len(L) : blink_array[L[i]].next = IF i = Len(L) THEN Null ELSE L[i + 1]
    BY <2>2 DEF IsList
  <2>7. s \in Cells /\ s # Null
    BY <2>3, <2>4, CellsNumber
  <2>8. ASSUME NEW p \in Cells
        PROVE  blink_array'[p] = IF p = s THEN Zero
                                 ELSE IF blink_array[p].next = s /\ p \in Range(Listed)
                                 THEN [blink_array[p] EXCEPT !.next = blink_array[s].next]
                                 ELSE blink_array[p]
    BY <2>1 DEF Unlinked
  <2>9. DOMAIN blink_array' = Cells
    BY <2>1 DEF Unlinked
  <2>10. {"location", "next"} \subseteq DOMAIN Zero /\ Zero.location = 0
    BY DEF Zero
  <2>11. ASSUME NEW p \in Cells, p # s
         PROVE  /\ {"location", "next"} \subseteq DOMAIN blink_array'[p]
                /\ blink_array'[p].location = blink_array[p].location
                /\ blink_array'[p].next = IF blink_array[p].next = s /\ p \in Range(Listed)
                                          THEN blink_array[s].next ELSE blink_array[p].next
    <3>1. {"location", "next"} \subseteq DOMAIN blink_array[p]
      BY DEF Linked
    <3>2. CASE blink_array[p].next = s /\ p \in Range(Listed)
      <4>1. blink_array'[p] = [blink_array[p] EXCEPT !.next = blink_array[s].next]
        BY <2>8, <2>11, <3>2
      <4> QED
        BY <3>1, <3>2, <4>1
    <3>3. CASE ~ (blink_array[p].next = s /\ p \in Range(Listed))
      <4>1. blink_array'[p] = blink_array[p]
        BY <2>8, <2>11, <3>3
      <4> QED
        BY <3>1, <3>3, <4>1
    <3> QED
      BY <3>2, <3>3
  <2> DEFINE M == [i \in 1 .. Len(L) - 1 |-> IF i < k THEN L[i] ELSE L[i + 1]]
  <2>12. /\ M \in Seq(Cells) /\ Len(M) = Len(L) - 1
         /\ \A i \in 1 .. Len(L) - 1 : M[i] = IF i < k THEN L[i] ELSE L[i + 1]
    <3>1. Len(L) - 1 \in Nat /\ \A i \in 1 .. Len(L) - 1 : M[i] \in Cells
      BY <2>3, <2>4
    <3> QED
      BY <3>1
  <2> HIDE DEF M
  <2> DEFINE Old(i) == IF i < k THEN i ELSE i + 1
  <2>13. ASSUME NEW i \in 1 .. Len(M)
         PROVE  Old(i) \in 1 .. Len(L) /\ Old(i) # k /\ M[i] = L[Old(i)] /\ M[i] # s /\ M[i] \in Cells
    <3>1. Old(i) \in 1 .. Len(L) /\ Old(i) # k /\ M[i] = L[Old(i)]
      BY <2>3, <2>4, <2>12
    <3> HIDE DEF Old
    <3> QED
      BY <2>3, <2>4, <2>5, <3>1
  <2>14. \A i, j \in 1 .. Len(M) : M[i] = M[j] => i = j
    <3> SUFFICES ASSUME NEW i \in 1 .. Len(M), NEW j \in 1 .. Len(M), M[i] = M[j] PROVE i = j
      OBVIOUS
    <3>1. Old(i) = Old(j)
      <4> HIDE DEF Old
      <4> QED
        BY <2>5, <2>13
    <3> QED
      BY <2>3, <2>4, <2>12, <3>1
  <2>15. ASSUME NEW i \in 1 .. Len(M)
         PROVE  blink_array'[M[i]].next = IF i = Len(M) THEN Null ELSE M[i + 1]
    <3> DEFINE q == Old(i)
    <3>1. q \in 1 .. Len(L) /\ q # k /\ M[i] = L[q] /\ M[i] # s /\ M[i] \in Cells
      BY <2>13
    <3>2. blink_array[M[i]].next = IF q = Len(L) THEN Null ELSE L[q + 1]
      BY <2>6, <3>1
    <3>3. M[i] \in Range(Listed)
      BY <2>4, <3>1
    <3>4. blink_array'[M[i]].next = IF blink_array[M[i]].next = s
                                    THEN blink_array[s].next ELSE blink_array[M[i]].next
      BY <2>11, <3>1, <3>3
    <3>5. blink_array[s].next = IF k = Len(L) THEN Null ELSE L[k + 1]
      BY <2>3, <2>6
    <3>6. blink_array[M[i]].next = s <=> q + 1 = k
      <4>1. CASE q = Len(L)
        BY <2>3, <2>4, <2>7, <3>1, <3>2, <4>1
      <4>2. CASE q # Len(L)
        <5>1. q + 1 \in 1 .. Len(L) /\ blink_array[M[i]].next = L[q + 1]
          BY <2>4, <3>1, <3>2, <4>2
        <5> HIDE DEF q
        <5> QED
          BY <2>3, <2>5, <5>1
      <4> QED
        BY <4>1, <4>2
    <3>7. CASE q + 1 = k
      <4>1. i = k - 1 /\ blink_array'[M[i]].next = IF k = Len(L) THEN Null ELSE L[k + 1]
        BY <2>3, <2>4, <2>12, <3>4, <3>5, <3>6, <3>7
      <4>2. k # Len(L) => k \in 1 .. Len(L) - 1 /\ M[i + 1] = L[k + 1] /\ i # Len(M)
        BY <2>3, <2>4, <2>12, <4>1
      <4>3. k = Len(L) => i = Len(M)
        BY <2>4, <2>12, <4>1
      <4> QED
        BY <4>1, <4>2, <4>3
    <3>8. CASE q + 1 # k
      <4>1. blink_array'[M[i]].next = IF q = Len(L) THEN Null ELSE L[q + 1]
        BY <3>2, <3>4, <3>6, <3>8
      <4>2. q = Len(L) <=> i = Len(M)
        BY <2>3, <2>4, <2>12, <3>1, <3>8
      <4>3. i # Len(M) => M[i + 1] = L[q + 1]
        BY <2>3, <2>4, <2>12, <3>1, <3>8
      <4> QED
        BY <4>1, <4>2, <4>3
    <3> QED
      BY <3>7, <3>8
  <2>16. ASSUME NEW p \in Cells
         PROVE  blink_array'[p].location # 0 <=> \E i \in 1 .. Len(M) : M[i] = p
    <3>1. CASE p = s
      BY <2>8, <2>10, <2>13, <3>1
    <3>2. CASE p # s
      <4>1. blink_array'[p].location # 0 <=> \E i \in 1 .. Len(L) : L[i] = p
        BY <2>2, <2>11, <3>2 DEF IsList, Linked
      <4>2. (\E i \in 1 .. Len(L) : L[i] = p) => \E i \in 1 .. Len(M) : M[i] = p
        <5> SUFFICES ASSUME NEW i \in 1 .. Len(L), L[i] = p PROVE \E j \in 1 .. Len(M) : M[j] = p
          OBVIOUS
        <5>1. i # k
          BY <2>3, <3>2
        <5>2. CASE i < k
          <6>1. i \in 1 .. Len(M) /\ M[i] = p
            BY <2>3, <2>4, <2>12, <5>2
          <6> QED
            BY <6>1
        <5>3. CASE i > k
          <6>1. i - 1 \in 1 .. Len(M) /\ M[i - 1] = p
            <7>1. i - 1 \in 1 .. Len(L) - 1 /\ ~ (i - 1 < k) /\ (i - 1) + 1 = i
              BY <2>3, <2>4, <5>3
            <7>2. M[i - 1] = L[(i - 1) + 1]
              BY <2>12, <7>1
            <7> QED
              BY <2>12, <7>1, <7>2
          <6> QED
            BY <6>1
        <5> QED
          BY <2>3, <2>4, <5>1, <5>2, <5>3
      <4>3. (\E i \in 1 .. Len(M) : M[i] = p) => \E i \in 1 .. Len(L) : L[i] = p
        <5> HIDE DEF Old
        <5> QED
          BY <2>13
      <4> QED
        BY <4>1, <4>2, <4>3
    <3> QED
      BY <3>1, <3>2
  <2>17. mp1_list_head' = IF Len(M) = 0 THEN Null ELSE M[1]
    <3>1. mp1_list_head = L[1] /\ 1 \in 1 .. Len(L)
      BY <2>2, <2>3, <2>4 DEF IsList
    <3>2. CASE k = 1
      <4>0. blink_array[L[1]].next = IF 1 = Len(L) THEN Null ELSE L[1 + 1]
        BY <2>6, <3>1
      <4>1. mp1_list_head' = IF 1 = Len(L) THEN Null ELSE L[2]
        BY <2>1, <2>3, <3>1, <3>2, <4>0
      <4>2. Len(L) # 1 => M[1] = L[2] /\ Len(M) # 0
        BY <2>4, <2>12, <3>1, <3>2
      <4>3. Len(L) = 1 => Len(M) = 0
        BY <2>12
      <4> QED
        BY <4>1, <4>2, <4>3
    <3>3. CASE k # 1
      <4>1. mp1_list_head # s /\ mp1_list_head' = L[1]
        BY <2>1, <2>3, <2>5, <3>1, <3>3
      <4>2. Len(M) # 0 /\ M[1] = L[1]
        BY <2>3, <2>4, <2>12, <3>3
      <4> QED
        BY <4>1, <4>2
    <3> QED
      BY <3>2, <3>3
  <2>18. IsList(M, mp1_list_head', blink_array')
    BY <2>9, <2>12, <2>13, <2>14, <2>15, <2>16, <2>17 DEF IsList
  <2>19. \A p \in Cells : {"location", "next"} \subseteq DOMAIN blink_array'[p]
    BY <2>8, <2>10, <2>11
  <2> QED
    BY <2>9, <2>18, <2>19 DEF Linked
<1> QED
  BY <1>1, <1>2

\* mp1_ioctl_sync() changes a rhythm, not the list.
LEMMA SyncStep ==
  ASSUME Linked(mp1_list_head, blink_array), NEW first, NEW second, mp1_ioctl_sync(first, second)
  PROVE  Linked(mp1_list_head', blink_array')
<1>1. CASE UNCHANGED bvars
  BY <1>1 DEF bvars
<1>2. CASE ~ UNCHANGED bvars
  <2> DEFINE from == mp1_find_helper(first)
  <2> DEFINE to == mp1_find_helper(second)
  <2>1. /\ blink_array' = [blink_array EXCEPT ![to] =
                             [blink_array[to] EXCEPT !.on_length  = blink_array[from].on_length,
                                                     !.off_length = blink_array[from].off_length,
                                                     !.countdown  = blink_array[from].countdown,
                                                     !.status     = blink_array[from].status]]
        /\ mp1_list_head' = mp1_list_head
    BY <1>2 DEF mp1_ioctl_sync
  <2> HIDE DEF from, to
  <2>2. DOMAIN blink_array' = Cells
    BY <2>1 DEF Linked
  <2>3. ASSUME NEW s \in Cells
        PROVE  /\ {"location", "next"} \subseteq DOMAIN blink_array'[s]
               /\ blink_array'[s].location = blink_array[s].location
               /\ blink_array'[s].next = blink_array[s].next
    <3>1. {"location", "next"} \subseteq DOMAIN blink_array[s]
      BY DEF Linked
    <3>2. CASE s = to
      <4>1. blink_array'[s] = [blink_array[s] EXCEPT !.on_length  = blink_array[from].on_length,
                                                     !.off_length = blink_array[from].off_length,
                                                     !.countdown  = blink_array[from].countdown,
                                                     !.status     = blink_array[from].status]
        BY <2>1, <3>2 DEF Linked
      <4> QED
        BY <3>1, <4>1
    <3>3. CASE s # to
      <4>1. blink_array'[s] = blink_array[s]
        BY <2>1, <3>3 DEF Linked
      <4> QED
        BY <3>1, <4>1
    <3> QED
      BY <3>2, <3>3
  <2>4. mp1_list_head' = mp1_list_head
    BY <2>1
  <2> QED
    BY <2>2, <2>3, <2>4, SameLinks
<1> QED
  BY <1>1, <1>2

\* Nor does mp1_rtc_tasklet().
LEMMA TaskletStep ==
  ASSUME Linked(mp1_list_head, blink_array), mp1_rtc_tasklet
  PROVE  Linked(mp1_list_head', blink_array')
<1> DEFINE counted(b) == [b EXCEPT !.countdown = @ - 1]
<1> DEFINE changed(b) == [b EXCEPT !.status = ~ @,
                                   !.countdown = IF b.status THEN b.off_length ELSE b.on_length]
<1>1. blink_array' = [s \in Cells |-> IF s \notin Range(Listed) THEN blink_array[s]
                                      ELSE IF IsDue(s) THEN changed(blink_array[s])
                                      ELSE counted(blink_array[s])]
  BY Zenon DEF mp1_rtc_tasklet
<1>2. mp1_list_head' = mp1_list_head
  BY Zenon DEF mp1_rtc_tasklet
<1>3. ASSUME NEW b, {"location", "next"} \subseteq DOMAIN b
      PROVE  /\ {"location", "next"} \subseteq DOMAIN counted(b)
             /\ counted(b).location = b.location /\ counted(b).next = b.next
             /\ {"location", "next"} \subseteq DOMAIN changed(b)
             /\ changed(b).location = b.location /\ changed(b).next = b.next
  BY <1>3
<1> HIDE DEF counted, changed
<1>4. DOMAIN blink_array' = Cells
  BY <1>1
<1>5. ASSUME NEW s \in Cells
      PROVE  /\ {"location", "next"} \subseteq DOMAIN blink_array'[s]
             /\ blink_array'[s].location = blink_array[s].location
             /\ blink_array'[s].next = blink_array[s].next
  <2>1. {"location", "next"} \subseteq DOMAIN blink_array[s]
    BY DEF Linked
  <2>2. blink_array'[s] \in {blink_array[s], changed(blink_array[s]), counted(blink_array[s])}
    BY <1>1
  <2> QED
    BY <1>3, <2>1, <2>2
<1> QED
  BY <1>2, <1>4, <1>5, SameLinks

\* main() of fish.c at the start: an empty list.
LEMMA LoadedStep ==
  ASSUME BlinkLoaded
  PROVE  Linked(mp1_list_head', blink_array')
<1>1. /\ blink_array' = [s \in Cells |-> Zero] /\ mp1_list_head' = Null
      /\ {"location", "next"} \subseteq DOMAIN Zero /\ Zero.location = 0
  BY DEF BlinkLoaded, Zero
<1>2. << >> \in Seq(Cells) /\ Len(<< >>) = 0
  OBVIOUS
<1>3. IsList(<< >>, mp1_list_head', blink_array')
  BY <1>1, <1>2 DEF IsList
<1> QED
  BY <1>1, <1>3 DEF Linked
=============================================================================
