---------------------------- MODULE ProgramsProofs --------------------------
(***************************************************************************)
(* Proofs about the user programs, for any directory, any files, any       *)
(* number of descriptors, any sizes of buffers and of the screen and any   *)
(* wrap-around POS.                                                        *)
(***************************************************************************)
EXTENDS Fish, ProgramDataProofs

\* Every leaf is tried with the SMT solver, then with Zenon, then with more time.
USE SMTT(10), ZenonT(20), SMTT(60)

-----------------------------------------------------------------------------
(* The programs cat, ls, grep and fish: what their steps rely on *)

\* The descriptor fds.file was opened for this name and is open.
HoldsFile(name) ==
  /\ fds.file \in flags /\ fds.file >= 2
  /\ filenames[fds.file] = name
  /\ name \in Files

\* What cat or ls copies.
Source == IF program = "cat" THEN argument ELSE "."

\* What a name like stdin or stdout stands for is descriptor 0.
Holding == IF Source \in StandardNames THEN fds.file = 0 ELSE HoldsFile(Source)

\* The names of the entries from one position of the listing to another.
NamesFrom(first, behind) == [i \in 1 .. behind - first |-> disk[first + i].name]

\* cat and ls start with the standard descriptors only, so that open() succeeds
\* for a file that exists, and copy what they opened.
CopyInv ==
  /\ "file" \in DOMAIN fds
  /\ program \in {"cat", "ls"} =>
       /\ upc \in {"open", "read", "write", "done"}
       /\ upc = "open" => flags = {0, 1} /\ printed = << >>
       /\ upc \in {"read", "write"} => Holding
       /\ upc # "done" => status = 0

\* Between two reads cat has written exactly what lies before the position of the
\* file, or has it in its buffer; of a clock nothing.
CatInv ==
  program = "cat" /\ upc \in {"read", "write"} /\ argument \notin StandardNames =>
    LET entry == Entry(argument)
        pos == fileposition[fds.file]
    IN  /\ entry.type = "rtc" => upc = "read" /\ printed = << >>
        /\ entry.type = "file" =>
              /\ pos <= Len(entry.text)
              /\ SubSeq(entry.text, 1, pos) = IF upc = "read" THEN printed ELSE printed \o chunk

\* ls has written the names between where it began and the shared cursor.
LsInv ==
  program = "ls" =>
    /\ began \in 0 .. Len(disk)
    /\ upc = "open" => dir_reads = began
    /\ upc \in {"read", "write"} =>
         /\ began <= dir_reads
         /\ NamesFrom(began, dir_reads) = IF upc = "read" THEN printed ELSE printed \o chunk

\* grep never asks for more bytes than its buffer has room for, since the part of
\* a line that it keeps fits into the buffer.
GrepInv ==
  /\ last \in 0 .. BUFSIZE
  /\ program = "grep" =>
       /\ upc = "file" => fname # "."
       /\ upc = "search" => fds.file = 0 \/ (HoldsFile(fname) /\ fname # ".")

\* The cursor that all listings share never passes the end of the directory.
CursorInv == dir_reads \in 0 .. Len(disk)

ProgramsInv ==
  /\ IInv /\ CursorInv /\ GrepInv
  /\ CopyInv /\ CatInv /\ LsInv
  /\ CatCopiesFile /\ LsListsDirectory

avars == <<vars, pvars, fvars>>

\* The directory does not change, and the cursor stays in it.
LEMMA CallCursor ==
  ASSUME IInv, CursorInv, SystemCall
  PROVE  CursorInv' /\ disk' = disk /\ Files' = Files /\ \A m : Entry(m)' = Entry(m)
<1>1. disk' = disk
  BY DEF SystemCall, execute, open_std, open, open_fails, close, close_fails, read, write,
         transfer_fails, vars
<1>2. Len(disk) \in Nat
  BY DescriptorsAssumption DEF IInv, TypeOK
<1>3. ASSUME dir_reads' = dir_reads PROVE CursorInv'
  BY <1>1, <1>3 DEF CursorInv
<1>4. ASSUME NEW fd, NEW n \in Nat, read(fd, n) PROVE CursorInv'
  BY <1>1, <1>2, <1>4 DEF CursorInv, read, EndOfDirectory
<1>5. CursorInv'
  BY <1>3, <1>4 DEF SystemCall, execute, open_std, open, open_fails, close, close_fails, write,
         transfer_fails, vars
<1> QED
  BY <1>1, <1>5 DEF Files, Entry, Dentries

\* A step of a program is one system call, or none.
LEMMA StepIsCall ==
  ASSUME GrepInv, FishNext
  PROVE  SystemCall
<1>1. BUFSIZE \in Nat /\ BUFSIZE - last \in Nat
  BY UserProgramsAssumption DEF GrepInv
<1>2. \A prog, arg : start(prog, arg) => SystemCall
  BY DEF start, SystemCall
<1>3. any_call => SystemCall
  BY AnyCall DEF any_call
<1>4. \A which, name, where, code : OpenAs(which, name, where, code) => SystemCall
  BY DEF OpenAs, SystemCall
<1>5. cat \/ ls => SystemCall
  BY <1>1, <1>4 DEF cat, ls, copy_open, copy_read, copy_write, SystemCall
<1>6. grep => SystemCall
  <2>1. grep_open_directory \/ grep_open_file => SystemCall
    BY <1>4 DEF grep_open_directory, grep_open_file
  <2>2. grep_next_file => SystemCall
    BY DEF grep_next_file, SystemCall
  <2>3. grep_search => SystemCall
    BY <1>1 DEF grep_search, SystemCall
  <2>4. grep_close_file => SystemCall
    BY DEF grep_close_file, SystemCall
  <2> QED
    BY <2>1, <2>2, <2>3, <2>4 DEF grep
<1>7. fish => SystemCall
  <2>1. fish_open_rtc \/ fish_open_frame => SystemCall
    BY <1>4 DEF fish_open_rtc, fish_open_frame, SystemCall
  <2>2. \A k : NextByte(k) => SystemCall
    BY DEF NextByte, SystemCall
  <2>3. \A k : CloseEnded(k) => SystemCall
    BY DEF CloseEnded, SystemCall
  <2>4. fish_byte0 \/ fish_byte1 \/ fish_close0 \/ fish_close1 => SystemCall
    BY <2>2, <2>3 DEF fish_byte0, fish_byte1, fish_close0, fish_close1
  <2>5. fish_rate => SystemCall
    BY DEF fish_rate, SystemCall
  <2>6. fish_tick \/ fish_spin => SystemCall
    BY DEF fish_tick, fish_spin, SystemCall
  <2>7. fish_ioctl => SystemCall
    BY DEF fish_ioctl, SystemCall
  <2>8. fish_close => SystemCall
    BY DEF fish_close, SystemCall
  <2> QED
    BY <2>1, <2>4, <2>5, <2>6, <2>7, <2>8 DEF fish
<1> QED
  BY <1>2, <1>3, <1>5, <1>6, <1>7 DEF FishNext, ProgramsNext, start_fish

\* Of cat and ls only the shell's execute() makes a program of another kind.
LEMMA OtherProgram ==
  ASSUME CopyInv, FishNext
  PROVE  /\ "file" \in DOMAIN fds'
         /\ \/ \E prog, arg : start(prog, arg)
            \/ program = "any" /\ UNCHANGED pvars
            \/ program = "cat" /\ program' = "cat" /\ cat
            \/ program = "ls" /\ program' = "ls" /\ ls
            \/ program = "grep" /\ program' = "grep" /\ grep
            \/ program = "fish" /\ program' = "fish" /\ UNCHANGED last
<1>1. "file" \in DOMAIN fds
  BY DEF CopyInv
<1>2. "file" \in DOMAIN NoFds
  BY DEF NoFds
<1>3. \A prog, arg : start(prog, arg) => "file" \in DOMAIN fds'
  BY <1>2 DEF start
<1>4. \A which, name, where, code : OpenAs(which, name, where, code) => "file" \in DOMAIN fds'
  BY <1>1 DEF OpenAs
<1>5. cat \/ ls => "file" \in DOMAIN fds' /\ UNCHANGED program
  BY <1>1, <1>4 DEF cat, ls, copy_open, copy_read, copy_write
<1>6. grep => "file" \in DOMAIN fds' /\ UNCHANGED program
  BY <1>1, <1>4 DEF grep, grep_open_directory, grep_next_file, grep_open_file, grep_search,
                    grep_close_file
<1>7. fish => "file" \in DOMAIN fds' /\ UNCHANGED <<program, last>>
  <2>1. fish_open_rtc => "file" \in DOMAIN fds'
    BY <1>1 DEF fish_open_rtc
  <2>2. fish_open_frame => "file" \in DOMAIN fds'
    BY <1>4 DEF fish_open_frame
  <2>3. fish_byte0 \/ fish_byte1 \/ fish_close0 \/ fish_close1 \/ fish_rate \/ fish_tick
          \/ fish_spin \/ fish_ioctl \/ fish_close => fds' = fds
    BY DEF fish_byte0, fish_byte1, fish_close0, fish_close1, fish_rate, fish_tick, fish_spin,
           fish_ioctl, fish_close
  <2> QED
    BY <1>1, <2>1, <2>2, <2>3 DEF fish
<1>8. any_call => "file" \in DOMAIN fds' /\ program = "any" /\ UNCHANGED pvars
  BY <1>1 DEF any_call, pvars, locals
<1>9. (cat => program = "cat") /\ (ls => program = "ls") /\ (grep => program = "grep")
      /\ (fish => program = "fish")
  BY DEF cat, ls, grep, fish
<1> QED
  BY <1>3, <1>5, <1>6, <1>7, <1>8, <1>9 DEF FishNext, ProgramsNext, start_fish

\* The shell starts a program.
LEMMA StartStep ==
  ASSUME ProgramsInv, NEW prog, NEW arg, start(prog, arg)
  PROVE  GrepInv' /\ CopyInv' /\ CatInv' /\ LsInv' /\ CatCopiesFile' /\ LsListsDirectory'
<1>1. /\ program' = prog /\ upc' = "open" /\ last' = 0 /\ fds' = NoFds /\ printed' = << >>
      /\ status' = 0 /\ began' = dir_reads /\ dir_reads' = dir_reads /\ disk' = disk
      /\ flags' = {0, 1}
  BY DEF start, execute
<1>2. "file" \in DOMAIN NoFds
  BY DEF NoFds
<1>3. 0 \in 0 .. BUFSIZE
  BY UserProgramsAssumption
<1>4. GrepInv' /\ CopyInv'
  BY <1>1, <1>2, <1>3 DEF GrepInv, CopyInv
<1>5. CatInv' /\ LsInv'
  BY <1>1 DEF ProgramsInv, CursorInv, CatInv, LsInv
<1> QED
  BY <1>1, <1>4, <1>5 DEF CatCopiesFile, LsListsDirectory

\* What open() gives in a table with stdin and stdout only.
LEMMA FreshOpen ==
  ASSUME IInv, flags = {0, 1}, NEW name,
         OpenAs("file", name, "read", 2), "file" \in DOMAIN fds
  PROVE  \/ /\ name \in StandardNames /\ upc' = "read" /\ status' = status /\ fds'.file = 0
            /\ UNCHANGED <<disk, dir_reads>>
         \/ /\ name \notin Files \cup StandardNames /\ upc' = "done" /\ status' = 2
            /\ UNCHANGED <<disk, dir_reads>>
         \/ /\ name \in Files \ StandardNames /\ upc' = "read" /\ status' = status
            /\ fds'.file \in flags' /\ fds'.file >= 2 /\ filenames'[fds'.file] = name
            /\ fileposition'[fds'.file] = 0
            /\ UNCHANGED <<disk, dir_reads>>
<1>1. 2 \in Free
  BY DescriptorsAssumption DEF Free
<1>2. CASE open_fails(name) /\ Ends(2)
  BY <1>1, <1>2 DEF open_fails, Ends
<1>3. CASE open(name) /\ fds' = [fds EXCEPT !["file"] = retval'] /\ GoesOn("read")
  <2>1. PICK fd \in Free : /\ flags' = flags \cup {fd}
                           /\ filenames' = [filenames EXCEPT ![fd] = name]
                           /\ retval' = fd
    BY <1>3 DEF open
  <2>2. fd \in FD /\ fd \notin flags /\ fd >= 2
    BY DescriptorsAssumption DEF Free, FD
  <2>3. fds'.file = fd
    BY <1>3, <2>1
  <2>4. filenames'[fd] = name
    BY <2>1, <2>2 DEF IInv, TypeOK
  <2>5. fileposition[fd] = 0
    BY <2>2 DEF IInv, FreeAtStart
  <2>6. name \in Files \ StandardNames /\ UNCHANGED <<disk, dir_reads, fileposition>>
    BY <1>3 DEF open
  <2> QED
    BY <1>3, <2>1, <2>2, <2>3, <2>4, <2>5, <2>6 DEF GoesOn
<1>4. CASE open_std(name) /\ fds' = [fds EXCEPT !["file"] = retval'] /\ GoesOn("read")
  BY <1>4, OpenStdKeeps DEF GoesOn
<1> QED
  BY <1>2, <1>3, <1>4 DEF OpenAs

\* ece391cat.c and ece391ls.c open their source.
LEMMA CopyOpenStep ==
  ASSUME ProgramsInv, program \in {"cat", "ls"}, copy_open(Source)
  PROVE  CopyInv' /\ CatInv' /\ LsInv' /\ CatCopiesFile' /\ LsListsDirectory'
<1>1. /\ upc = "open" /\ OpenAs("file", Source, "read", 2)
      /\ UNCHANGED <<program, argument, printed, began>>
  BY DEF copy_open
<1>2. /\ "file" \in DOMAIN fds /\ flags = {0, 1} /\ printed = << >> /\ status = 0
      /\ program = "ls" => dir_reads = began /\ began \in 0 .. Len(disk)
  BY <1>1 DEF ProgramsInv, CopyInv, LsInv
<1>3. IInv
  BY DEF ProgramsInv
<1>4. "file" \in DOMAIN fds'
  BY <1>1, <1>2 DEF OpenAs
<1>5. Source' = Source
  BY <1>1 DEF Source
<1>6. CASE /\ Source \notin Files \cup StandardNames /\ upc' = "done" /\ status' = 2
           /\ UNCHANGED <<disk, dir_reads>>
  <2>1. Files' = Files
    BY <1>6 DEF Files, Dentries
  <2>2. CopyInv'
    BY <1>1, <1>4, <1>6 DEF CopyInv
  <2>3. CatInv' /\ LsInv'
    BY <1>1, <1>2, <1>6 DEF CatInv, LsInv
  <2> QED
    BY <1>1, <1>2, <1>6, <2>1, <2>2, <2>3 DEF CatCopiesFile, LsListsDirectory, Source
<1>7. CASE /\ Source \in Files \ StandardNames /\ upc' = "read" /\ status' = status
           /\ fds'.file \in flags' /\ fds'.file >= 2 /\ filenames'[fds'.file] = Source
           /\ fileposition'[fds'.file] = 0
           /\ UNCHANGED <<disk, dir_reads>>
  <2>1. Files' = Files /\ \A m : Entry(m)' = Entry(m)
    BY <1>7 DEF Files, Entry, Dentries
  <2>2. CopyInv'
    <3>1. Holding'
      BY <1>5, <1>7, <2>1 DEF Holding, HoldsFile
    <3> QED
      BY <1>1, <1>2, <1>4, <1>7, <3>1 DEF CopyInv
  <2>3. CatInv'
    <3> SUFFICES ASSUME program = "cat"
                 PROVE  LET entry == Entry(argument)
                        IN  0 <= Len(entry.text) /\ SubSeq(entry.text, 1, 0) = << >>
      BY <1>1, <1>2, <1>7, <2>1 DEF CatInv
    <3>1. argument \in Files
      BY <1>7 DEF Source
    <3>2. Entry(argument).text \in Seq(Range(Entry(argument).text))
      BY <1>3, <3>1, EntryExists DEF IInv, TypeOK
    <3> QED
      BY <3>2
  <2>4. LsInv'
    BY <1>1, <1>2, <1>7 DEF LsInv, NamesFrom
  <2> QED
    BY <1>7, <2>2, <2>3, <2>4 DEF CatCopiesFile, LsListsDirectory
<1>8. CASE /\ Source \in StandardNames /\ upc' = "read" /\ status' = status /\ fds'.file = 0
           /\ UNCHANGED <<disk, dir_reads>>
  <2>1. CopyInv'
    <3>1. Holding'
      BY <1>5, <1>8 DEF Holding
    <3> QED
      BY <1>1, <1>2, <1>4, <1>8, <3>1 DEF CopyInv
  <2>2. CatInv'
    BY <1>1, <1>8 DEF CatInv, Source
  <2>3. LsInv'
    BY <1>1, <1>2, <1>8 DEF LsInv, NamesFrom
  <2> QED
    BY <1>8, <2>1, <2>2, <2>3 DEF CatCopiesFile, LsListsDirectory
<1> QED
  BY <1>1, <1>2, <1>3, <1>6, <1>7, <1>8, FreshOpen

\* A part of a sequence and the part behind it.
LEMMA SubSeqJoin ==
  ASSUME NEW S, NEW t \in Seq(S), NEW p \in Nat, NEW b \in Nat, p + b <= Len(t)
  PROVE  SubSeq(t, 1, p) \o SubSeq(t, p + 1, p + b) = SubSeq(t, 1, p + b)
<1> DEFINE u == SubSeq(t, 1, p)
<1> DEFINE v == SubSeq(t, p + 1, p + b)
<1> DEFINE w == SubSeq(t, 1, p + b)
<1>1. u \in Seq(S) /\ Len(u) = p /\ \A i \in 1 .. p : u[i] = t[i]
  OBVIOUS
<1>2. v \in Seq(S) /\ Len(v) = b /\ \A i \in 1 .. b : v[i] = t[p + i]
  OBVIOUS
<1>3. w \in Seq(S) /\ Len(w) = p + b /\ \A i \in 1 .. p + b : w[i] = t[i]
  OBVIOUS
<1> HIDE DEF u, v, w
<1>4. u \o v \in Seq(S) /\ Len(u \o v) = p + b
  BY <1>1, <1>2, ConcatProperties
<1>5. \A i \in 1 .. p + b : (u \o v)[i] = w[i]
  BY <1>1, <1>2, <1>3
<1> QED
  BY <1>3, <1>4, <1>5, SeqEqual DEF u, v, w

\* What a read through the descriptor that cat, ls or grep opened returns.
LEMMA HeldRead ==
  ASSUME IInv, NEW name, HoldsFile(name), NEW n \in Nat
  PROVE  /\ fds.file \in FD
         /\ jumptable[fds.file] = Entry(name).type
         /\ Entry(name).type \in {"rtc", "dir", "file"}
         /\ Entry(name).type = "rtc" => BytesRead(fds.file, n) = 0
         /\ Entry(name).type = "dir" =>
              BytesRead(fds.file, n) = IF EndOfDirectory THEN 0 ELSE NameLength
         /\ Entry(name).type = "file" => BytesRead(fds.file, n) = file_read(fds.file, n)
<1>1. fds.file \in FD /\ ~ (fds.file < 2)
  <2>1. fds.file \in FD /\ fds.file >= 2
    BY DEF IInv, TypeOK, HoldsFile
  <2>2. fds.file \in Nat
    BY <2>1, FDs
  <2> QED
    BY <2>1, <2>2
<1>2. jumptable[fds.file] = Entry(name).type
  BY <1>1 DEF IInv, OwnOperations, HoldsFile
<1>3. Entry(name).type \in {"rtc", "dir", "file"}
  BY EntryExists DEF IInv, TypeOK, HoldsFile
<1> QED
  BY <1>1, <1>2, <1>3 DEF BytesRead

\* What a read of stdin returns.
LEMMA StdinRead ==
  ASSUME IInv, NEW n \in Nat
  PROVE  jumptable[0] = "stdin" /\ BytesRead(0, n) = n
<1>1. jumptable[0] = StandardTable[0]
  BY DEF IInv, OwnOperations
<1>2. jumptable[0] = "stdin"
  BY <1>1 DEF StandardTable
<1> QED
  BY <1>2 DEF BytesRead

\* What file_read() returns for cat: nothing only at the end of the file.
LEMMA FileReadAmount ==
  ASSUME IInv, NEW fd \in flags, jumptable[fd] = "file", NEW n \in Nat,
         fileposition[fd] <= Len(Entry(filenames[fd]).text)
  PROVE  LET b == file_read(fd, n)
             size == Len(Entry(filenames[fd]).text)
         IN  /\ b \in -1 .. n
             /\ b # -1 => fileposition[fd] + b <= size /\ fileposition[fd] + b < POS
             /\ b = 0 /\ n > 0 => fileposition[fd] = size
<1> DEFINE entry == Entry(filenames[fd])
<1> DEFINE size == Len(entry.text)
<1> DEFINE pos == fileposition[fd]
<1>1. fd \in FD /\ size \in 0 .. POS - 2
  BY FileRead DEF IInv, TypeOK
<1>2. pos \in 0 .. POS - 1 /\ POS \in Nat /\ pos <= size
  BY <1>1, DescriptorsAssumption DEF IInv, TypeOK
<1>3. Min({n, size - pos}) = IF n <= size - pos THEN n ELSE size - pos
  BY <1>1, <1>2, MinOfTwo
<1>4. file_read(fd, n) =
        IF pos >= size THEN 0
        ELSE IF entry.good <= size /\ (pos >= entry.good \/ pos + n > entry.good) THEN -1
        ELSE IF n <= size - pos THEN n ELSE size - pos
  BY <1>3 DEF file_read
<1> HIDE DEF entry, size, pos
<1>5. /\ file_read(fd, n) \in -1 .. n
      /\ file_read(fd, n) # -1 => pos + file_read(fd, n) <= size /\ pos + file_read(fd, n) < POS
      /\ file_read(fd, n) = 0 /\ n > 0 => pos = size
  BY <1>1, <1>2, <1>4
<1> QED
  BY <1>5 DEF entry, size, pos

\* file_read() never returns more than it was asked for.
LEMMA FileReadAtMost ==
  ASSUME IInv, NEW fd \in flags, jumptable[fd] = "file", NEW n \in Nat
  PROVE  file_read(fd, n) \in -1 .. n
<1> DEFINE size == Len(Entry(filenames[fd]).text)
<1> DEFINE pos == fileposition[fd]
<1>1. size \in Int /\ pos \in Int
  BY FileRead DEF IInv, TypeOK
<1>2. Min({n, size - pos}) = IF n <= size - pos THEN n ELSE size - pos
  BY <1>1, MinOfTwo
<1>3. \/ file_read(fd, n) = 0
      \/ file_read(fd, n) = -1
      \/ ~ (pos >= size) /\ file_read(fd, n) = IF n <= size - pos THEN n ELSE size - pos
  BY <1>2 DEF file_read
<1> HIDE DEF size, pos
<1> QED
  BY <1>1, <1>3

\* The part of CopyInv that a read or a write keeps.
LEMMA CopyInvStep ==
  ASSUME ProgramsInv, program \in {"cat", "ls"}, copy_read \/ copy_write
  PROVE  /\ CopyInv'
         /\ disk' = disk /\ Files' = Files /\ \A m : Entry(m)' = Entry(m)
         /\ UNCHANGED <<program, argument, fds, filenames, began>>
         /\ upc \in {"read", "write"} /\ Holding /\ status = 0 /\ IInv
<1>1. /\ "file" \in DOMAIN fds /\ upc \in {"read", "write"} /\ Holding /\ status = 0
      /\ IInv
  BY DEF ProgramsInv, CopyInv, copy_read, copy_write
<1>2. /\ UNCHANGED <<program, argument, fds, filenames, disk, flags, began>>
      /\ upc' \in {"read", "write", "done"}
      /\ upc' # "done" => status' = status
  BY DEF copy_read, copy_write, read, write, table, Ends, GoesOn
<1>3. Source' = Source /\ Files' = Files /\ \A m : Entry(m)' = Entry(m)
  BY <1>2 DEF Source, Files, Entry, Dentries
<1>4. Holding'
  BY <1>1, <1>2, <1>3 DEF Holding, HoldsFile
<1> QED
  BY <1>1, <1>2, <1>3, <1>4 DEF CopyInv

\* cat writes what it read.
LEMMA CopyWriteStep ==
  ASSUME ProgramsInv, program \in {"cat", "ls"}, copy_write
  PROVE  CopyInv' /\ CatInv' /\ LsInv' /\ CatCopiesFile' /\ LsListsDirectory'
<1>1. /\ upc = "write" /\ upc' = "read" /\ printed' = printed \o chunk
      /\ UNCHANGED <<program, argument, fds, fileposition, dir_reads, began, disk>>
  BY DEF copy_write, write, table, GoesOn
<1>2. CopyInv' /\ \A m : Entry(m)' = Entry(m)
  BY CopyInvStep
<1>3. CatInv'
  BY <1>1, <1>2 DEF ProgramsInv, CatInv
<1>4. LsInv'
  BY <1>1 DEF ProgramsInv, LsInv, NamesFrom
<1> QED
  BY <1>1, <1>2, <1>3, <1>4 DEF CatCopiesFile, LsListsDirectory

\* cat reads what is typed, and does not end.
LEMMA CatStdinStep ==
  ASSUME ProgramsInv, program = "cat", copy_read, argument \in StandardNames
  PROVE  CatInv' /\ CatCopiesFile'
<1>1. UNCHANGED <<program, argument>> /\ fds.file = 0 /\ IInv
  BY CopyInvStep DEF Source, Holding
<1>2. BUFSIZE \in Nat /\ BUFSIZE # 0 /\ BUFSIZE # -1
  BY UserProgramsAssumption
<1>3. retval' = BUFSIZE
  BY <1>1, <1>2, StdinRead DEF copy_read, read
<1>4. upc' = "write"
  BY <1>2, <1>3 DEF copy_read, StopAtZero, GoesOn
<1> QED
  BY <1>1, <1>4 DEF CatInv, CatCopiesFile

\* cat reads a piece.
LEMMA CatReadStep ==
  ASSUME ProgramsInv, program = "cat", copy_read, argument \notin StandardNames
  PROVE  CatInv' /\ CatCopiesFile'
<1> DEFINE fd == fds.file
<1> DEFINE b == BytesRead(fd, BUFSIZE)
<1>1. /\ UNCHANGED <<program, argument, fds, filenames, printed>>
      /\ upc = "read" /\ HoldsFile(argument) /\ status = 0 /\ IInv
      /\ Files' = Files /\ \A m : Entry(m)' = Entry(m)
  BY CopyInvStep DEF copy_read, Source, Holding
<1>2. BUFSIZE \in Nat /\ BUFSIZE > 0 /\ POS \in Nat /\ POS > 0
  BY UserProgramsAssumption, DescriptorsAssumption
<1>3. argument \in Files /\ fd \in flags /\ fd \in FD /\ filenames[fd] = argument
  BY <1>1, <1>2, HeldRead DEF HoldsFile
<1>4. /\ retval' = b
      /\ fileposition' = [fileposition EXCEPT ![fd] = (fileposition[fd] + b) % POS]
  BY DEF copy_read, read, Advance
<1>5. /\ b = 0 => upc' = "done" /\ status' = 0
      /\ b = -1 => upc' = "done" /\ status' = 3
      /\ b # 0 /\ b # -1 => /\ upc' = "write" /\ status' = 0
                            /\ chunk' = Bytes(fd, b)
  BY <1>1, <1>4 DEF copy_read, StopAtZero, Ends, GoesOn
<1> DEFINE text == Entry(argument).text
<1>6. ASSUME Entry(argument).type = "file"
      PROVE  /\ CatInv'
             /\ upc' = "done" => /\ IsBeginning(printed, text)
                                 /\ status' = 0 => printed = text
                                 /\ Entry(argument).good > Len(text) => status' = 0
  <2> DEFINE pos == fileposition[fd]
  <2>1. jumptable[fd] = "file" /\ b = file_read(fd, BUFSIZE)
    BY <1>1, <1>2, <1>6, HeldRead
  <2>2. pos <= Len(text) /\ printed = SubSeq(text, 1, pos)
    BY <1>1, <1>6 DEF ProgramsInv, CatInv
  <2>3. pos \in Nat /\ text \in Seq(Range(text)) /\ Len(text) \in Nat
    <3>1. disk \in Disks /\ fileposition \in [FD -> 0 .. POS - 1]
      BY <1>1 DEF IInv, TypeOK
    <3>2. pos \in Nat
      BY <1>2, <1>3, <3>1
    <3>3. text \in Seq(Range(text))
      BY <1>3, <3>1, EntryExists
    <3> HIDE DEF text
    <3> QED
      BY <3>2, <3>3
  <2>4. /\ b \in -1 .. BUFSIZE
        /\ b # -1 => pos + b <= Len(text) /\ pos + b < POS
        /\ b = 0 => pos = Len(text)
    BY <1>1, <1>2, <1>3, <2>1, <2>2, FileReadAmount
  <2>5. Entry(argument).good > Len(text) => b # -1
    BY <1>1, <1>2, <1>3, <2>1, FileRead
  <2> HIDE DEF b, text, pos
  <2>6. CASE b # 0 /\ b # -1
    <3>1. b \in Nat
      BY <2>4, <2>6
    <3>2. fileposition'[fd] = pos + b
      <4>1. fileposition'[fd] = (pos + b) % POS
        BY <1>1, <1>3, <1>4 DEF IInv, TypeOK, pos
      <4>2. pos + b \in 0 .. POS - 1
        BY <1>2, <2>3, <2>4, <2>6, <3>1
      <4> QED
        BY <1>2, <4>1, <4>2, SmallMod
    <3>3. chunk' = SubSeq(text, pos + 1, pos + b)
      BY <1>3, <1>5, <2>1, <2>6 DEF Bytes, text, pos
    <3>4. printed' \o chunk' = SubSeq(text, 1, pos + b)
      BY <1>1, <2>2, <2>3, <2>4, <2>6, <3>1, <3>3, SubSeqJoin
    <3>5. upc' = "write" /\ fds'.file = fd
      BY <1>1, <1>5, <2>6
    <3>6. pos + b <= Len(text)
      BY <2>4, <2>6
    <3>7. Entry(argument)'.type = "file" /\ Entry(argument)'.text = text
      BY <1>1, <1>6 DEF text
    <3>8. CatInv'
      BY <1>1, <3>2, <3>4, <3>5, <3>6, <3>7 DEF CatInv
    <3> QED
      BY <3>5, <3>8
  <2>7. CASE b = -1
    <3>1. upc' = "done" /\ status' = 3
      BY <1>5, <2>7
    <3>2. IsBeginning(printed, text)
      BY <2>2, <2>3 DEF IsBeginning
    <3> QED
      BY <2>5, <2>7, <3>1, <3>2 DEF CatInv
  <2>8. CASE b = 0
    <3>1. upc' = "done" /\ status' = 0
      BY <1>5, <2>8
    <3>2. printed = text
      BY <2>2, <2>3, <2>4, <2>8
    <3>3. IsBeginning(printed, text)
      BY <2>3, <3>2 DEF IsBeginning
    <3> QED
      BY <3>1, <3>2, <3>3 DEF CatInv
  <2> QED
    BY <2>6, <2>7, <2>8
<1>7. ASSUME Entry(argument).type = "rtc"
      PROVE  upc' = "done" /\ status' = 0 /\ printed' = << >>
  <2>1. b = 0
    BY <1>1, <1>2, <1>7, HeldRead
  <2>2. printed = << >>
    BY <1>1, <1>7 DEF ProgramsInv, CatInv
  <2> QED
    BY <1>1, <1>5, <2>1, <2>2
<1>8. CatInv'
  <2>1. CASE Entry(argument).type = "file"
    BY <1>6, <2>1
  <2>2. CASE Entry(argument).type # "file"
    BY <1>1, <1>7, <2>2 DEF CatInv
  <2> QED
    BY <2>1, <2>2
<1>9. CatCopiesFile'
  BY <1>1, <1>3, <1>6, <1>7 DEF CatCopiesFile
<1> QED
  BY <1>8, <1>9

\* The directory "." is read as a directory.
LEMMA DotIsDirectory ==
  ASSUME disk \in Disks, NEW name \in Files
  PROVE  Entry(name).type = "dir" <=> name = "."
<1>1. Entry(name) \in Dentries /\ Entry(name).name = name
  BY EntryExists
<1>2. ASSUME NEW i \in DOMAIN disk, Entry(name) = disk[i]
      PROVE  Entry(name).type = "dir" <=> name = "."
  BY <1>1, <1>2, UserProgramsAssumption
<1>3. CASE Entry(name) = UnusedDentry
  BY <1>1, <1>3 DEF UnusedDentry, EmptyName
<1> QED
  BY <1>1, <1>2, <1>3 DEF Dentries

\* The next name is appended to a listing.
LEMMA NamesFromNext ==
  ASSUME NEW first \in Nat, NEW behind \in Nat, first <= behind
  PROVE  NamesFrom(first, behind) \o <<disk[behind + 1].name>> = NamesFrom(first, behind + 1)
<1> DEFINE S == {disk[i].name : i \in Nat}
<1> DEFINE u == NamesFrom(first, behind)
<1> DEFINE v == <<disk[behind + 1].name>>
<1> DEFINE w == NamesFrom(first, behind + 1)
<1>0. \A i \in Nat : disk[i].name \in S
  OBVIOUS
<1> HIDE DEF S
<1>1. /\ u \in Seq(S) /\ Len(u) = behind - first
      /\ \A i \in 1 .. behind - first : u[i] = disk[first + i].name
  BY <1>0 DEF NamesFrom
<1>2. v \in Seq(S) /\ Len(v) = 1 /\ v[1] = disk[behind + 1].name
  BY <1>0
<1>3. /\ w \in Seq(S) /\ Len(w) = behind - first + 1
      /\ \A i \in 1 .. behind - first + 1 : w[i] = disk[first + i].name
  <2>1. behind + 1 - first = behind - first + 1
    OBVIOUS
  <2> QED
    BY <1>0, <2>1 DEF NamesFrom
<1> HIDE DEF u, v, w
<1>4. u \o v \in Seq(S) /\ Len(u \o v) = behind - first + 1
  BY <1>1, <1>2, ConcatProperties
<1>5. \A i \in 1 .. behind - first + 1 : (u \o v)[i] = w[i]
  <2> SUFFICES ASSUME NEW i \in 1 .. behind - first + 1 PROVE (u \o v)[i] = w[i]
    OBVIOUS
  <2>1. CASE i <= behind - first
    BY <1>1, <1>2, <1>3, <2>1
  <2>2. CASE ~ (i <= behind - first)
    <3>1. i = behind - first + 1 /\ i - Len(u) = 1 /\ i \in 1 .. Len(u) + Len(v) /\ ~ (i <= Len(u))
      BY <1>1, <1>2, <2>2
    <3>2. (u \o v)[i] = v[i - Len(u)]
      BY <1>1, <1>2, <3>1, ConcatProperties
    <3>3. i = behind - first + 1 /\ i - Len(u) = 1
      BY <3>1
    <3>4. first + i = behind + 1
      BY <3>3
    <3>5. w[i] = disk[first + i].name
      BY <1>3
    <3> QED
      BY <1>2, <3>2, <3>3, <3>4, <3>5
  <2> QED
    BY <2>1, <2>2
<1> QED
  BY <1>3, <1>4, <1>5, SeqEqual DEF u, v, w

\* ls reads a name.
LEMMA LsReadStep ==
  ASSUME ProgramsInv, program = "ls", copy_read
  PROVE  LsInv' /\ LsListsDirectory'
<1> DEFINE fd == fds.file
<1> DEFINE b == BytesRead(fd, BUFSIZE)
<1>1. /\ UNCHANGED <<program, began, printed, disk>>
      /\ upc = "read" /\ HoldsFile(".") /\ status = 0 /\ IInv
      /\ Files' = Files
  BY CopyInvStep, UserProgramsAssumption DEF copy_read, Source, Holding
<1>2. BUFSIZE \in Nat /\ NameLength \in Nat /\ NameLength > 0 /\ Len(disk) \in Nat
  BY <1>1, UserProgramsAssumption, DescriptorsAssumption DEF IInv, TypeOK
<1>3. Entry(".").type = "dir" /\ "." \in Files
  BY <1>1, DotIsDirectory DEF IInv, TypeOK, HoldsFile
<1>4. /\ jumptable[fd] = "dir"
      /\ b = IF EndOfDirectory THEN 0 ELSE NameLength
  BY <1>1, <1>2, <1>3, HeldRead
<1>5. /\ retval' = b
      /\ dir_reads' = IF EndOfDirectory THEN 0 ELSE dir_reads + 1
  BY <1>4 DEF copy_read, read
<1>6. /\ b = 0 => upc' = "done" /\ status' = 0
      /\ b # 0 /\ b # -1 => /\ upc' = "write" /\ status' = 0
                            /\ chunk' = Bytes(fd, b)
  BY <1>1, <1>5 DEF copy_read, StopAtZero, Ends, GoesOn
<1>7. /\ began \in 0 .. Len(disk) /\ began <= dir_reads
      /\ printed = NamesFrom(began, dir_reads) /\ dir_reads \in 0 .. Len(disk)
  BY <1>1 DEF ProgramsInv, LsInv, CursorInv
<1>8. CASE EndOfDirectory
  <2>1. upc' = "done" /\ status' = 0 /\ dir_reads' = 0
    BY <1>4, <1>5, <1>6, <1>8
  <2>2. dir_reads = Len(disk)
    BY <1>2, <1>7, <1>8 DEF EndOfDirectory
  <2>3. printed = [i \in 1 .. Len(disk) - began |-> disk[began + i].name]
    BY <1>7, <2>2 DEF NamesFrom
  <2> QED
    BY <1>1, <1>3, <1>7, <2>1, <2>3 DEF LsInv, LsListsDirectory
<1>9. CASE ~ EndOfDirectory
  <2>1. b = NameLength /\ b # 0 /\ b # -1
    BY <1>2, <1>4, <1>9
  <2>2. upc' = "write" /\ dir_reads' = dir_reads + 1 /\ chunk' = <<disk[dir_reads + 1].name>>
    BY <1>4, <1>5, <1>6, <1>9, <2>1 DEF Bytes
  <2>3. printed \o chunk' = NamesFrom(began, dir_reads + 1)
    BY <1>2, <1>7, <2>2, NamesFromNext
  <2>4. began <= dir_reads + 1
    BY <1>2, <1>7
  <2>5. NamesFrom(began, dir_reads + 1) = NamesFrom(began, dir_reads)'
    BY <1>1, <2>2 DEF NamesFrom
  <2> QED
    BY <1>1, <1>7, <2>2, <2>3, <2>4, <2>5 DEF LsInv, LsListsDirectory
<1> QED
  BY <1>8, <1>9

\* Each step of cat and ls.
LEMMA CopyStep ==
  ASSUME ProgramsInv, cat \/ ls
  PROVE  CopyInv' /\ CatInv' /\ LsInv' /\ CatCopiesFile' /\ LsListsDirectory'
<1>1. /\ program \in {"cat", "ls"} /\ program' = program
      /\ copy_open(Source) \/ copy_read \/ copy_write
  BY DEF cat, ls, Source, copy_open, copy_read, copy_write
<1>2. ASSUME copy_read
      PROVE  CopyInv' /\ CatInv' /\ LsInv' /\ CatCopiesFile' /\ LsListsDirectory'
  <2>1. CopyInv'
    BY <1>1, <1>2, CopyInvStep
  <2>2. CASE program = "cat"
    BY <1>1, <1>2, <2>1, <2>2, CatReadStep, CatStdinStep DEF LsInv, LsListsDirectory
  <2>3. CASE program = "ls"
    BY <1>1, <1>2, <2>1, <2>3, LsReadStep DEF CatInv, CatCopiesFile
  <2> QED
    BY <1>1, <2>2, <2>3
<1> QED
  BY <1>1, <1>2, CopyOpenStep, CopyWriteStep

\* The end of the line that starts at first.
LEMMA LineEndIn ==
  ASSUME NEW d, NEW used \in Nat, NEW first \in 0 .. used
  PROVE  LineEnd(d, used, first) \in first .. used
<1> DEFINE S == {i \in first .. used : i = used \/ d[i] = NL}
<1>1. S \subseteq Nat /\ S # {}
  OBVIOUS
<1>2. \E n \in S : \A m \in S : n <= m
  BY <1>1, LeastNumber
<1> HIDE DEF S
<1>3. Min(S) \in S
  BY <1>2 DEF Min
<1> QED
  BY <1>3 DEF LineEnd, S

\* What do_one_file() keeps of a line that goes on fits into the buffer.
SearchOK(s, used) ==
  /\ s.last \in 0 .. used
  /\ s.more => s.first \in 0 .. used

\* A pass of the inner loop.
LEMMA SearchLineOK ==
  ASSUME NEW s, NEW used \in Nat, NEW cnt, SearchOK(s, used), s.more
  PROVE  SearchOK(SearchLine(s, used, cnt), used)
<1> DEFINE end == LineEnd(s.data, used, s.first)
<1>1. s.first \in 0 .. used
  BY DEF SearchOK
<1>2. end \in s.first .. used
  BY <1>1, LineEndIn
<1> HIDE DEF end
<1> DEFINE r == SearchLine(s, used, cnt)
<1>3. \/ r.last = used - s.first /\ r.more = FALSE
      \/ r.last = 0 /\ r.first = end + 1 /\ r.more = (end + 1 < used)
  BY DEF SearchLine, end
<1> HIDE DEF r
<1>4. r.last \in 0 .. used
  BY <1>1, <1>3
<1>5. ASSUME r.more PROVE r.first \in 0 .. used
  <2>1. r.first = end + 1 /\ end + 1 < used
    BY <1>3, <1>5
  <2> QED
    BY <1>1, <1>2, <2>1
<1>6. SearchOK(r, used)
  BY <1>4, <1>5 DEF SearchOK
<1> QED
  BY <1>6 DEF r

\* What the passes of the inner loop leave, up to pass n.
Passes(d, used, cnt, lines, top, g) ==
  g = [n \in 0 .. top |->
         IF n = 0 THEN [data |-> d, last |-> 0, lines |-> lines, first |-> 0, more |-> TRUE]
         ELSE LET s == g[n - 1] IN IF s.more THEN SearchLine(s, used, cnt) ELSE s]

\* There is such a function for any number of passes.
LEMMA PassesExist ==
  ASSUME NEW d, NEW used, NEW cnt, NEW lines
  PROVE  \A top \in Nat : \E g : Passes(d, used, cnt, lines, top, g)
<1> SUFFICES ASSUME NEW b \in Nat, ~ \E g : Passes(d, used, cnt, lines, b, g) PROVE FALSE
  OBVIOUS
<1> DEFINE first == [data |-> d, last |-> 0, lines |-> lines, first |-> 0, more |-> TRUE]
<1> DEFINE next(s) == IF s.more THEN SearchLine(s, used, cnt) ELSE s
<1>0. \A top, g : Passes(d, used, cnt, lines, top, g)
                    <=> g = [n \in 0 .. top |-> IF n = 0 THEN first ELSE next(g[n - 1])]
  BY DEF Passes
<1> HIDE DEF first, next
<1> DEFINE T == {n \in Nat : ~ \E g : Passes(d, used, cnt, lines, n, g)}
<1>1. PICK m \in T : \A n \in T : m <= n
  <2>1. T \in SUBSET Nat /\ T # {}
    OBVIOUS
  <2> HIDE DEF T
  <2> QED
    BY <2>1, LeastNumber
<1>2. CASE m = 0
  <2> DEFINE h == [n \in 0 .. 0 |-> first]
  <2>1. h = [n \in 0 .. 0 |-> IF n = 0 THEN first ELSE next(h[n - 1])]
    OBVIOUS
  <2> QED
    BY <1>0, <1>2, <2>1
<1>3. CASE m > 0
  <2>1. m - 1 \in Nat /\ m - 1 \notin T
    BY <1>1, <1>3
  <2>2. PICK g : Passes(d, used, cnt, lines, m - 1, g)
    BY <2>1
  <2> DEFINE h == [n \in 0 .. m |-> IF n = m THEN next(g[m - 1]) ELSE g[n]]
  <2>3. \A n \in 0 .. m - 1 : g[n] = IF n = 0 THEN first ELSE next(g[n - 1])
    BY <1>0, <2>1, <2>2
  <2>4. \A n \in 0 .. m : h[n] = IF n = 0 THEN first ELSE next(h[n - 1])
    BY <1>3, <2>1, <2>3
  <2>5. h = [n \in 0 .. m |-> IF n = 0 THEN first ELSE next(h[n - 1])]
    BY <2>4
  <2> QED
    BY <1>0, <2>5
<1> QED
  BY <1>2, <1>3

\* All the passes together.
LEMMA SearchLinesLast ==
  ASSUME NEW d, NEW used \in 0 .. BUFSIZE, NEW cnt, NEW lines
  PROVE  SearchLines(d, used, cnt, lines).last \in 0 .. BUFSIZE
<1>1. BUFSIZE \in Nat /\ used \in Nat /\ BUFSIZE + 1 \in Nat
  BY UserProgramsAssumption
<1>2. SearchLines(d, used, cnt, lines)
        = (CHOOSE g : Passes(d, used, cnt, lines, BUFSIZE + 1, g))[BUFSIZE + 1]
  BY Zenon DEF SearchLines, Passes
<1>3. PICK g : /\ Passes(d, used, cnt, lines, BUFSIZE + 1, g)
               /\ SearchLines(d, used, cnt, lines) = g[BUFSIZE + 1]
  BY <1>1, <1>2, PassesExist
<1> DEFINE T == {n \in 0 .. BUFSIZE + 1 : ~ SearchOK(g[n], used)}
<1> DEFINE first == [data |-> d, last |-> 0, lines |-> lines, first |-> 0, more |-> TRUE]
<1> DEFINE next(s) == IF s.more THEN SearchLine(s, used, cnt) ELSE s
<1>8. g = [n \in 0 .. BUFSIZE + 1 |-> IF n = 0 THEN first ELSE next(g[n - 1])]
  BY <1>3 DEF Passes
<1>9. first.last = 0 /\ first.first = 0
  OBVIOUS
<1> HIDE DEF first, next
<1>4. SearchOK(g[0], used)
  <2>1. g[0] = first
    BY <1>1, <1>8
  <2> QED
    BY <1>1, <1>9, <2>1 DEF SearchOK
<1>5. ASSUME NEW n \in 1 .. BUFSIZE + 1, SearchOK(g[n - 1], used) PROVE SearchOK(g[n], used)
  <2>1. n \in 0 .. BUFSIZE + 1 /\ n # 0
    BY <1>1
  <2>2. g[n] = next(g[n - 1])
    BY <1>8, <2>1
  <2>3. CASE g[n - 1].more
    <3>1. g[n] = SearchLine(g[n - 1], used, cnt)
      BY <2>2, <2>3 DEF next
    <3> QED
      BY <1>1, <1>5, <2>3, <3>1, SearchLineOK
  <2>4. CASE ~ g[n - 1].more
    <3>1. g[n] = g[n - 1]
      BY <2>2, <2>4 DEF next
    <3> QED
      BY <1>5, <3>1
  <2> QED
    BY <2>3, <2>4
<1>6. T = {}
  <2> SUFFICES ASSUME T # {} PROVE FALSE
    OBVIOUS
  <2>1. PICK n \in T : \A m \in T : n <= m
    <3>1. T \in SUBSET Nat
      BY <1>1
    <3> HIDE DEF T
    <3> QED
      BY <3>1, LeastNumber
  <2>2. n # 0 /\ n \in 0 .. BUFSIZE + 1 /\ ~ SearchOK(g[n], used)
    BY <1>4, <2>1
  <2>3. n - 1 \in 0 .. BUFSIZE + 1 /\ n - 1 \notin T /\ n \in 1 .. BUFSIZE + 1
    BY <1>1, <2>1, <2>2
  <2> QED
    BY <1>5, <2>2, <2>3
<1>7. SearchOK(g[BUFSIZE + 1], used)
  BY <1>1, <1>6
<1> QED
  BY <1>1, <1>3, <1>7 DEF SearchOK

\* grep: what a read leaves room for is what it reads next.
LEMMA GrepStep ==
  ASSUME ProgramsInv, grep
  PROVE  GrepInv'
<1>0. /\ IInv /\ last \in 0 .. BUFSIZE /\ "file" \in DOMAIN fds /\ program = "grep"
      /\ BUFSIZE \in Nat /\ BUFSIZE > 0 /\ BUFSIZE < POS - 1 /\ POS \in Nat
  BY UserProgramsAssumption, DescriptorsAssumption DEF ProgramsInv, GrepInv, CopyInv, grep
<1>1. CASE grep_open_directory
  BY <1>0, <1>1 DEF grep_open_directory, OpenAs, GoesOn, Ends, GrepInv
<1>2. CASE grep_next_file
  BY <1>0, <1>2 DEF grep_next_file, GoesOn, Ends, GrepInv, IsHidden
<1>3. CASE grep_open_file
  <2>1. fname # "." /\ fname' = fname /\ last' = 0 /\ OpenAs("file", fname, "search", 3)
    BY <1>3, <1>0 DEF grep_open_file, ProgramsInv, GrepInv
  <2>2. CASE Ends(3)
    BY <1>0, <2>1, <2>2 DEF Ends, GrepInv
  <2>3. CASE open(fname) /\ fds' = [fds EXCEPT !["file"] = retval'] /\ GoesOn("search")
    <3>1. PICK fd \in Free : /\ flags' = flags \cup {fd}
                             /\ filenames' = [filenames EXCEPT ![fd] = fname]
                             /\ retval' = fd /\ fname \in Files /\ disk' = disk
      BY <2>3 DEF open
    <3>2. fd \in FD /\ fd >= 2
      BY DescriptorsAssumption DEF Free, FD
    <3>3. fds'.file = fd /\ filenames'[fd] = fname
      BY <1>0, <2>3, <3>1, <3>2 DEF IInv, TypeOK
    <3>4. Files' = Files
      BY <3>1 DEF Files, Dentries
    <3>5. HoldsFile(fname)'
      BY <2>1, <3>1, <3>2, <3>3, <3>4 DEF HoldsFile
    <3> QED
      BY <1>0, <2>1, <2>3, <3>5 DEF GoesOn, GrepInv
  <2>4. CASE open_std(fname) /\ fds' = [fds EXCEPT !["file"] = retval'] /\ GoesOn("search")
    <3>1. fds'.file = 0
      BY <1>0, <2>4, OpenStdKeeps
    <3> QED
      BY <1>0, <2>1, <2>4, <3>1 DEF GoesOn, GrepInv
  <2> QED
    BY <2>1, <2>2, <2>3, <2>4 DEF OpenAs
<1>4. CASE grep_search
  <2> DEFINE n == BUFSIZE - last
  <2> DEFINE b == BytesRead(fds.file, n)
  <2>1. /\ upc = "search" /\ retval' = b
        /\ fds.file = 0 \/ (HoldsFile(fname) /\ fname # ".")
        /\ UNCHANGED <<program, fds, fname, disk, flags, filenames>>
    BY <1>0, <1>4 DEF grep_search, read, ProgramsInv, GrepInv
  <2>2. n \in Nat
    BY <1>0
  <2>3. fds.file = 0 \/ Entry(fname).type \in {"rtc", "file"}
    BY <1>0, <2>1, <2>2, HeldRead, DotIsDirectory DEF IInv, TypeOK, HoldsFile
  <2>4. b = -1 \/ b \in 0 .. n
    <3>0. CASE fds.file = 0
      BY <1>0, <2>2, <3>0, StdinRead
    <3>1. CASE fds.file # 0 /\ Entry(fname).type = "rtc"
      BY <1>0, <2>1, <2>2, <3>1, HeldRead
    <3>2. CASE fds.file # 0 /\ Entry(fname).type = "file"
      <4>1. jumptable[fds.file] = "file" /\ b = file_read(fds.file, n) /\ fds.file \in flags
        BY <1>0, <2>1, <2>2, <3>2, HeldRead DEF HoldsFile
      <4>2. file_read(fds.file, n) = -1 \/ file_read(fds.file, n) \in 0 .. n
        BY <1>0, <2>2, <4>1, FileReadAtMost
      <4> QED
        BY <4>1, <4>2
    <3> QED
      BY <2>3, <3>0, <3>1, <3>2
  <2> HIDE DEF b
  <2>5. fds'.file = 0 \/ (HoldsFile(fname)' /\ fname' # ".")
    BY <2>1 DEF HoldsFile, Files, Dentries
  <2>6. CASE b = -1
    BY <1>0, <1>4, <2>1, <2>6 DEF grep_search, Ends, GrepInv
  <2>7. CASE b \in 0 .. n
    <3>1. last + b \in 0 .. BUFSIZE /\ b # -1
      BY <1>0, <2>7
    <3>2. PICK d : last' = SearchLines(d, last + b, b, printed).last
      BY <1>4, <2>1, <3>1 DEF grep_search
    <3>3. last' \in 0 .. BUFSIZE
      BY <3>1, <3>2, SearchLinesLast
    <3>4. upc' \in {"close", "search"}
      BY <1>4, <2>1, <3>1 DEF grep_search, GoesOn
    <3> QED
      BY <2>1, <2>5, <3>3, <3>4 DEF GrepInv
  <2> QED
    BY <2>4, <2>6, <2>7
<1>5. CASE grep_close_file
  BY <1>0, <1>5 DEF grep_close_file, GoesOn, GrepInv
<1> QED
  BY <1>1, <1>2, <1>3, <1>4, <1>5 DEF grep

\* The invariant of all programs at the start.
LEMMA ProgramsInvInit == FishInit => ProgramsInv
<1> SUFFICES ASSUME FishInit PROVE ProgramsInv
  OBVIOUS
<1>1. /\ Init /\ program = "any" /\ fds = NoFds /\ last = 0 /\ dir_reads = 0 /\ disk \in Disks
  BY DEF FishInit, ProgramsInit, Init
<1>2. IInv
  BY <1>1, InitIInv
<1>3. "file" \in DOMAIN NoFds
  BY DEF NoFds
<1>4. Len(disk) \in Nat
  BY <1>1, DescriptorsAssumption
<1>5. BUFSIZE \in Nat
  BY UserProgramsAssumption
<1> QED
  BY <1>1, <1>2, <1>3, <1>4, <1>5
     DEF ProgramsInv, CursorInv, GrepInv, CopyInv, CatInv, LsInv, CatCopiesFile, LsListsDirectory

\* Every step of every program preserves it.
LEMMA ProgramsInvStep == ProgramsInv /\ [FishNext]_avars => ProgramsInv'
<1> SUFFICES ASSUME ProgramsInv, [FishNext]_avars PROVE ProgramsInv'
  OBVIOUS
<1>0. IInv /\ CursorInv /\ GrepInv /\ CopyInv
  BY DEF ProgramsInv
<1>1. SystemCall
  BY <1>0, StepIsCall DEF avars, SystemCall
<1>2. /\ IInv' /\ CursorInv' /\ disk' = disk /\ Files' = Files
      /\ \A m : Entry(m)' = Entry(m)
  BY <1>0, <1>1, CallIInv, CallCursor
<1> DEFINE Rest == CopyInv /\ CatInv /\ LsInv /\ CatCopiesFile /\ LsListsDirectory
<1>3. ASSUME "file" \in DOMAIN fds', program' \notin {"cat", "ls"} PROVE Rest'
  BY <1>3 DEF CopyInv, CatInv, LsInv, CatCopiesFile, LsListsDirectory
<1>4. CASE UNCHANGED avars
  <2>1. UNCHANGED <<disk, dir_reads, flags, jumptable, fileposition, filenames>>
    BY <1>4 DEF avars, vars, table
  <2>2. UNCHANGED <<program, upc, argument, status, fds, chunk, fname, last, printed, began>>
    BY <1>4 DEF avars, pvars, locals
  <2>3. \A m : HoldsFile(m)' <=> HoldsFile(m)
    BY <1>2, <2>1, <2>2 DEF HoldsFile
  <2>4. Holding' <=> Holding
    BY <2>2, <2>3 DEF Source, Holding
  <2>5. GrepInv'
    BY <1>0, <2>2, <2>3 DEF GrepInv
  <2>6. CopyInv'
    BY <1>0, <2>1, <2>2, <2>3, <2>4 DEF CopyInv
  <2>7. CatInv' /\ CatCopiesFile'
    BY <1>2, <2>1, <2>2 DEF ProgramsInv, CatInv, CatCopiesFile
  <2>8. LsInv' /\ LsListsDirectory'
    BY <1>2, <2>1, <2>2 DEF ProgramsInv, LsInv, LsListsDirectory, NamesFrom
  <2> QED
    BY <1>2, <2>5, <2>6, <2>7, <2>8 DEF ProgramsInv
<1>5. CASE FishNext
  <2>1. "file" \in DOMAIN fds'
    BY <1>0, <1>5, OtherProgram
  <2>2. ASSUME NEW prog, NEW arg, start(prog, arg) PROVE GrepInv' /\ Rest'
    BY <2>2, StartStep
  <2>3. CASE program = "any" /\ UNCHANGED pvars
    <3>1. program' = "any" /\ last' = last
      BY <2>3 DEF pvars, locals
    <3>2. GrepInv'
      BY <1>0, <3>1 DEF GrepInv
    <3> QED
      BY <1>3, <2>1, <3>1, <3>2, <1>2 DEF ProgramsInv
  <2>4. ASSUME cat \/ ls, program' \in {"cat", "ls"} PROVE GrepInv' /\ Rest'
    <3>1. last' = last
      BY <2>4 DEF cat, ls, copy_open, copy_read, copy_write
    <3>2. GrepInv'
      BY <1>0, <2>4, <3>1 DEF GrepInv
    <3> QED
      BY <2>4, <3>2, CopyStep
  <2>5. ASSUME program' = "grep", grep PROVE GrepInv' /\ Rest'
    BY <1>3, <2>1, <2>5, GrepStep
  <2>6. ASSUME program' = "fish", UNCHANGED last PROVE GrepInv' /\ Rest'
    <3>1. GrepInv'
      BY <1>0, <2>6 DEF GrepInv
    <3> QED
      BY <1>3, <2>1, <2>6, <3>1
  <2> HIDE DEF Rest
  <2>7. CASE ~ (program = "any" /\ UNCHANGED pvars)
    <3>1. GrepInv' /\ Rest'
      BY <1>0, <1>5, <2>2, <2>4, <2>5, <2>6, <2>7, OtherProgram
    <3> QED
      BY <1>2, <3>1 DEF ProgramsInv, Rest
  <2> QED
    BY <2>3, <2>7
<1> QED
  BY <1>4, <1>5

\* The invariant in every reachable state of all the programs.
LEMMA ProgramsInvariant == FishSpec => []ProgramsInv
BY ProgramsInvInit, ProgramsInvStep, PTL DEF FishSpec, avars

\* ece391cat.c writes a file byte for byte and returns 0; of a file with a bad
\* block it writes a beginning and returns 3, and of a missing one nothing and
\* returns 2, for any file and any buffer, whatever ran before it in the PCB; of
\* a clock and of an unused entry it writes nothing and returns 0, and given a
\* name like stdin or stdout it does not return.
THEOREM AlwaysCatCopiesFile == FishSpec => []CatCopiesFile
<1>1. ProgramsInv => CatCopiesFile
  BY DEF ProgramsInv
<1> QED
  BY <1>1, ProgramsInvariant, PTL

\* ece391ls.c writes the names from where the last listing stopped to the end of
\* any directory, and leaves the shared cursor of dir_read() at the start.
THEOREM AlwaysLsListsDirectory == FishSpec => []LsListsDirectory
<1>1. ProgramsInv => LsListsDirectory
  BY DEF ProgramsInv
<1> QED
  BY <1>1, ProgramsInvariant, PTL

\* cat, ls, grep and fish in one PCB, one after the other, read each file from its
\* start without a gap, also where one left descriptors open for the next.
THEOREM ProgramsReadsAreSequential == FishSpec => []ReadsAreSequential
<1>1. ProgramsInv => ReadsAreSequential
  BY DEF ProgramsInv, IInv
<1> QED
  BY <1>1, ProgramsInvariant, PTL

\* Nor does one of them call through the table another left in the PCB.
THEOREM ProgramsOwnOperations == FishSpec => []OwnOperations
<1>1. ProgramsInv => OwnOperations
  BY DEF ProgramsInv, IInv
<1> QED
  BY <1>1, ProgramsInvariant, PTL

-----------------------------------------------------------------------------
(* The list of fish *)

\* A character at location 0 would mark a listed structure as free.
BlinkInv ==
  ~ at_zero =>
    /\ DOMAIN blink_array \subseteq Cells
    /\ program = "fish" => DOMAIN blink_array = Cells
    /\ \A s \in DOMAIN blink_array : {"location", "next"} \subseteq DOMAIN blink_array[s]
    /\ IsList(Listed, mp1_list_head, blink_array)

\* A character that fish adds has a location.
LEMMA CharacterLocation ==
  ASSUME NEW c0, NEW c1, NEW on, NEW off, NEW location
  PROVE  LET blink == Character(c0, c1, on, off, location)
         IN  {"location", "next"} \subseteq DOMAIN blink
BY DEF Character, Zero

\* What fish does to the list.
LEMMA FishDoes ==
  ASSUME fish
  PROVE  \/ UNCHANGED bvars
         \/ \E c0, c1, on, off, location : mp1_ioctl_add(Character(c0, c1, on, off, location))
         \/ \E first, second : mp1_ioctl_sync(first, second)
         \/ \E location : mp1_ioctl_remove(location)
         \/ mp1_rtc_tasklet
<1>1. CASE fish_open_rtc \/ fish_open_frame \/ fish_rate \/ fish_spin \/ fish_close
  BY <1>1 DEF fish_open_rtc, fish_open_frame, fish_rate, fish_spin, fish_close, fvars
<1>2. CASE fish_byte0 \/ fish_close0 \/ fish_close1
  BY <1>2 DEF fish_byte0, fish_close0, fish_close1
<1>3. CASE fish_byte1
  BY <1>3, Zenon DEF fish_byte1
<1>4. CASE fish_tick
  BY <1>4 DEF fish_tick
<1>5. CASE fish_ioctl
  BY <1>5, Zenon DEF fish_ioctl
<1> QED
  BY <1>1, <1>2, <1>3, <1>4, <1>5 DEF fish

\* What happened at location 0 is not forgotten.
LEMMA ZeroStays ==
  ASSUME fish, at_zero
  PROVE  at_zero'
<1>1. CASE UNCHANGED bvars
  BY <1>1 DEF bvars
<1>2. ASSUME NEW blink, mp1_ioctl_add(blink) PROVE at_zero'
  BY <1>1, <1>2, Zenon DEF mp1_ioctl_add
<1>3. ASSUME NEW first, NEW second, mp1_ioctl_sync(first, second) PROVE at_zero'
  BY <1>1, <1>3, Zenon DEF mp1_ioctl_sync
<1>4. ASSUME NEW location, mp1_ioctl_remove(location) PROVE at_zero'
  BY <1>1, <1>4, Zenon DEF mp1_ioctl_remove
<1>5. CASE mp1_rtc_tasklet
  BY <1>5, Zenon DEF mp1_rtc_tasklet
<1> QED
  BY <1>1, <1>2, <1>3, <1>4, <1>5, FishDoes

\* A step of fish keeps the list.
LEMMA FishStep ==
  ASSUME Linked(mp1_list_head, blink_array), fish, ~ at_zero'
  PROVE  Linked(mp1_list_head', blink_array')
<1>1. CASE UNCHANGED bvars
  BY <1>1 DEF bvars
<1>2. ASSUME NEW c0, NEW c1, NEW on, NEW off, NEW location,
             mp1_ioctl_add(Character(c0, c1, on, off, location))
      PROVE  Linked(mp1_list_head', blink_array')
  BY <1>2, CharacterLocation, AddStep
<1> QED
  BY <1>1, <1>2, FishDoes, SyncStep, RemoveStep, TaskletStep

\* The invariant of the list.
LEMMA BlinkInvStep == BlinkInv /\ [FishNext]_avars => BlinkInv'
<1> SUFFICES ASSUME BlinkInv, [FishNext]_avars PROVE BlinkInv'
  OBVIOUS
<1>1. ASSUME Linked(mp1_list_head', blink_array') PROVE BlinkInv'
  <2>1. PICK L : IsList(L, mp1_list_head', blink_array')
    BY <1>1 DEF Linked
  <2>2. Listed' = L
    BY <2>1, ListedIsList
  <2> QED
    BY <1>1, <2>1, <2>2 DEF BlinkInv, Linked
<1>2. ASSUME UNCHANGED fvars, program' = "fish" => program = "fish" PROVE BlinkInv'
  <2>1. UNCHANGED <<blink_array, mp1_list_head, at_zero>>
    BY <1>2 DEF fvars, bvars
  <2>2. Listed' = Listed
    BY <2>1 DEF Listed
  <2> QED
    BY <1>2, <2>1, <2>2 DEF BlinkInv
<1>3. CASE UNCHANGED avars
  BY <1>2, <1>3 DEF avars, pvars
<1>4. CASE ProgramsNext /\ UNCHANGED fvars
  <2>1. program' = "fish" => program = "fish"
    <3>1. any_call => program' = program
      BY DEF any_call, pvars
    <3>2. \A prog, arg : start(prog, arg) => program' = prog
      BY DEF start
    <3>3. cat \/ ls => program' = program
      BY DEF cat, ls, copy_open, copy_read, copy_write
    <3>4. grep => program' = program
      BY DEF grep, grep_open_directory, grep_next_file, grep_open_file, grep_search, grep_close_file
    <3> QED
      BY <1>4, <3>1, <3>2, <3>3, <3>4 DEF ProgramsNext
  <2> QED
    BY <1>2, <1>4, <2>1
<1>5. CASE start_fish
  BY <1>1, <1>5, LoadedStep DEF start_fish
<1>6. CASE fish
  <2>1. CASE at_zero'
    BY <2>1 DEF BlinkInv
  <2>2. CASE ~ at_zero'
    <3>1. Linked(mp1_list_head, blink_array)
      BY <1>6, <2>2, ZeroStays DEF fish, BlinkInv, Linked
    <3> QED
      BY <1>1, <1>6, <2>2, <3>1, FishStep
  <2> QED
    BY <2>1, <2>2
<1> QED
  BY <1>3, <1>4, <1>5, <1>6 DEF FishNext

\* Before a program with such a list runs, the list is empty.
LEMMA BlinkInvInit == FishInit => BlinkInv
<1> SUFFICES ASSUME FishInit PROVE BlinkInv
  OBVIOUS
<1>1. /\ blink_array = << >> /\ mp1_list_head = Null /\ program = "any"
  BY DEF FishInit, ProgramsInit, BlinkInit
<1>2. DOMAIN blink_array = {}
  BY <1>1
<1>3. << >> \in Seq(Cells) /\ Len(<< >>) = 0
  OBVIOUS
<1>4. IsList(<< >>, mp1_list_head, blink_array)
  BY <1>1, <1>2, <1>3 DEF IsList
<1>5. Listed = << >>
  BY <1>4, ListedIsList
<1> QED
  BY <1>1, <1>2, <1>4, <1>5 DEF BlinkInv

\* A list with the invariant holds what is in use, once.
LEMMA BlinkInvListed == BlinkInv => BlinksListed
<1> SUFFICES ASSUME BlinkInv, ~ at_zero PROVE BlinksListed
  BY DEF BlinksListed
<1> DEFINE used == DOMAIN blink_array \ FreeSlots
<1> DEFINE L == Listed
<1>1. IsList(L, mp1_list_head, blink_array)
  BY DEF BlinkInv
<1>2. used = {s \in DOMAIN blink_array : blink_array[s].location # 0}
  BY DEF FreeSlots
<1> HIDE DEF L
<1>3. L \in Seq(Cells) /\ Len(L) \in Nat /\ DOMAIN L = 1 .. Len(L)
  BY <1>1 DEF IsList
<1>4. \A s : s \in used <=> \E i \in 1 .. Len(L) : L[i] = s
  BY <1>1, <1>2 DEF IsList
<1>5. Range(L) = used
  BY <1>3, <1>4 DEF Range
<1> HIDE DEF used
<1>6. L \in [1 .. Len(L) -> used]
  BY <1>3, <1>4
<1>7. L \in Surjection(1 .. Len(L), used)
  BY <1>4, <1>6 DEF Surjection
<1>8. L \in Injection(1 .. Len(L), used)
  BY <1>1, <1>6 DEF Injection, IsInjective, IsList
<1>9. IsFiniteSet(1 .. Len(L)) /\ Cardinality(1 .. Len(L)) = Len(L)
  BY <1>3, FS_Interval
<1>10. Cardinality(used) = Cardinality(1 .. Len(L))
  BY <1>7, <1>8, <1>9, FS_Surjection
<1> QED
  BY <1>5, <1>9, <1>10 DEF BlinksListed, L, used

\* The list that blink.S walks holds every structure that mp1_malloc() gave out
\* and none that mp1_free() took back, each once, for a screen of any size and
\* any frames of which no character comes to location 0.
THEOREM AlwaysBlinksListed == FishSpec => []BlinksListed
<1>1. FishSpec => []BlinkInv
  BY BlinkInvInit, BlinkInvStep, PTL DEF FishSpec, avars
<1> QED
  BY <1>1, BlinkInvListed, PTL
=============================================================================
