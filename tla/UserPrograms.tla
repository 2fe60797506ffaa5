---------------------------- MODULE UserPrograms ----------------------------
(***************************************************************************)
(* The user programs cat, ls and grep (syscalls/ece391cat.c, ece391ls.c,   *)
(* ece391grep.c) on the descriptors of their PCB: one action per system    *)
(* call, with what the program computes until the next one.  A shell runs  *)
(* them one after the other in the same PCB, after programs that make any  *)
(* calls at all.  What a program writes is the sequence of what it prints; *)
(* messages are left out, the exit status tells them apart.                *)
(***************************************************************************)
EXTENDS Descriptors

CONSTANTS
  RunsOn,         \* the disks on which each program is explored
  AnyFds,         \* bound: the descriptors an arbitrary program uses on a disk
  BUFSIZE,        \* 1024 in cat and grep
  Patterns        \* what grep is asked for

ASSUME UserProgramsAssumption ==
  /\ \A prog \in DOMAIN RunsOn : RunsOn[prog] \subseteq Disks
  /\ BUFSIZE \in Nat \ {0}
  /\ BUFSIZE < POS - 1
  /\ "." \notin StandardNames
  /\ \A d \in Disks : \A i \in DOMAIN d : d[i].name = "." <=> d[i].type = "dir"

NL  == "newline"
NUL == "nul"

VARIABLES
  program,        \* "any", "cat", "ls", "grep" or "fish"
  upc,            \* the system call it makes next, or "done"
  argument,       \* of cat and grep
  status,         \* what main() returned
  fds,            \* its descriptors, by what they are for
  chunk,          \* the bytes in cat's or ls's buffer
  fname,          \* the file grep searches
  data, last,     \* the buffer of do_one_file() and how much of it is used
  printed,        \* what it wrote
  began,          \* history: dir_reads when the program started
  stale           \* history: a newline lay behind grep's buffer by chance

locals == <<argument, status, fds, chunk, fname, data, last, printed, began, stale>>
pvars  == <<program, upc, locals>>

NoFds    == [dir |-> 0, file |-> 0, rtc |-> 0, frame0 |-> 0, frame1 |-> 0]
NoBuffer == [i \in 0 .. BUFSIZE |-> NUL]

ProgramsInit ==
  /\ Init
  /\ program = "any"
  /\ upc = "done"
  /\ argument = << >>
  /\ status = 0
  /\ fds = NoFds
  /\ chunk = << >>
  /\ fname = NoName
  /\ data = NoBuffer
  /\ last = 0
  /\ printed = << >>
  /\ began = 0
  /\ stale = FALSE

-----------------------------------------------------------------------------
\* A program of any kind makes any call.
any_call ==
  /\ program = "any"
  /\ disk \in RunsOn["any"]
  /\ Next
  /\ flags' \subseteq AnyFds[disk]
  /\ UNCHANGED pvars

\* The program has ended, and the shell starts another.
start(prog, arg) ==
  /\ upc = "done"
  /\ disk \in RunsOn[prog]
  /\ execute
  /\ program' = prog
  /\ upc' = "open"
  /\ argument' = arg
  /\ status' = 0
  /\ fds' = NoFds
  /\ chunk' = << >>
  /\ fname' = NoName
  /\ data' = NoBuffer
  /\ last' = 0
  /\ printed' = << >>
  /\ began' = dir_reads
  /\ stale' = FALSE

\* main() returns code, and the descriptors stay open.
Ends(code) == upc' = "done" /\ status' = code

GoesOn(where) == upc' = where /\ UNCHANGED status

\* fd = ece391_open(name), and an exit with code if that is -1.
OpenAs(which, name, where, code) ==
  \/ /\ open_std(name) \/ open(name)
     /\ fds' = [fds EXCEPT ![which] = retval']
     /\ GoesOn(where)
  \/ /\ open_fails(name)
     /\ Ends(code)
     /\ UNCHANGED fds

\* What the next read of n bytes puts into the caller's buffer.  What the user
\* types is Terminal's matter and not told here.
Bytes(fd, n) ==
  IF jumptable[fd] = "stdin" THEN << >>
  ELSE IF jumptable[fd] = "dir" THEN <<disk[dir_reads + 1].name>>
  ELSE SubSeq(Entry(filenames[fd]).text, fileposition[fd] + 1, fileposition[fd] + n)

-----------------------------------------------------------------------------
(* cat and ls: read a piece, write it, until a read returns 0 *)

copy_open(source) ==
  /\ upc = "open"
  /\ OpenAs("file", source, "read", 2)
  /\ UNCHANGED <<program, argument, chunk, fname, data, last, printed, began, stale>>

StopAtShortRead(cnt) == cnt < BUFSIZE

StopAtZero(cnt) == cnt = 0

copy_read ==
  /\ upc = "read"
  /\ read(fds.file, BUFSIZE)
  /\ \/ /\ StopAtZero(retval')
        /\ Ends(0)
        /\ UNCHANGED chunk
     \/ /\ retval' = -1
        /\ Ends(3)
        /\ UNCHANGED chunk
     \/ /\ ~ StopAtZero(retval') /\ retval' # -1
        /\ GoesOn("write")
        /\ chunk' = Bytes(fds.file, retval')
  /\ UNCHANGED <<program, argument, fds, fname, data, last, printed, began, stale>>

copy_write ==
  /\ upc = "write"
  /\ write(1, retval)
  /\ printed' = printed \o chunk
  /\ GoesOn("read")
  /\ UNCHANGED <<program, argument, fds, chunk, fname, data, last, began, stale>>

cat ==
  /\ program = "cat"
  /\ copy_open(argument) \/ copy_read \/ copy_write

ls ==
  /\ program = "ls"
  /\ copy_open(".") \/ copy_read \/ copy_write

-----------------------------------------------------------------------------
(* grep *)

grep_open_directory ==
  /\ upc = "open"
  /\ OpenAs("dir", ".", "next", 2)
  /\ UNCHANGED <<program, argument, chunk, fname, data, last, printed, began, stale>>

IsHidden(name) == name = "."

grep_next_file ==
  /\ upc = "next"
  /\ read(fds.dir, 32)
  /\ IF retval' = 0 THEN Ends(0) /\ UNCHANGED fname
     ELSE /\ fname' = disk[dir_reads + 1].name
          /\ GoesOn(IF IsHidden(fname') THEN "next" ELSE "file")
  /\ UNCHANGED <<program, argument, fds, chunk, data, last, printed, began, stale>>

\* data[] is on the stack and not initialised.  The one cell that is read before
\* it is written is the one behind the first bytes read, so one character for
\* all cells gives every outcome.
grep_open_file ==
  /\ upc = "file"
  /\ OpenAs("file", fname, "search", 3)
  /\ \E c \in {NL, NUL} :
       /\ data' = [i \in 0 .. BUFSIZE |-> c]
       /\ stale' = (stale \/ c = NL)
  /\ last' = 0
  /\ UNCHANGED <<program, argument, chunk, fname, printed, began>>

\* The line that starts at first ends here.
LineEnd(d, used, first) == Min({i \in first .. used : i = used \/ d[i] = NL})

\* ece391_strcpy(data, data + first): up to and with the first NUL.
CopyDown(d, first) ==
  LET length == Min({k \in 0 .. BUFSIZE - first : d[first + k] = NUL})
  IN  [i \in 0 .. BUFSIZE |-> IF i <= length THEN d[first + i] ELSE d[i]]

\* ece391_strncmp() at a position of the line, whose end is a NUL by then.
FoundAt(d, check) ==
  /\ argument # << >>
  /\ \A k \in DOMAIN argument : check + k - 1 <= BUFSIZE /\ d[check + k - 1] = argument[k]

\* fdputs() prints up to the first NUL.
PrintedFrom(d, first) ==
  LET stop == Min({i \in first .. BUFSIZE : d[i] = NUL})
  IN  [k \in 1 .. stop - first |-> d[first + k - 1]]

CarryAlways(d, end, cnt, first) == d[end] # NL /\ cnt # 0

\* The rest of the buffer is the beginning of a line that goes on in the file.
IsUnfinished(d, end, cnt, first) == d[end] # NL /\ cnt # 0 /\ first # 0

\* A pass of the inner loop of do_one_file(): the line that starts at first, after
\* cnt more bytes were read.
SearchLine(s, used, cnt) ==
  LET end   == LineEnd(s.data, used, s.first)
      ended == [s.data EXCEPT ![end] = NUL]
      found == IF \E check \in s.first .. end - 1 : FoundAt(ended, check)
               THEN Append(s.lines, <<fname, PrintedFrom(ended, s.first)>>) ELSE s.lines
  IN  IF IsUnfinished(s.data, end, cnt, s.first)
      THEN [data |-> CopyDown(ended, s.first), last |-> used - s.first, lines |-> s.lines,
            first |-> used, more |-> FALSE]
      ELSE [data |-> ended, last |-> 0, lines |-> found, first |-> end + 1, more |-> end + 1 < used]

\* The loop: the buffer, how much of it is used and what was printed.  Every pass
\* but the last goes at least one byte ahead.
SearchLines(d, used, cnt, lines) ==
  LET passes[n \in 0 .. BUFSIZE + 1] ==
        IF n = 0 THEN [data |-> d, last |-> 0, lines |-> lines, first |-> 0, more |-> TRUE]
        ELSE LET s == passes[n - 1] IN IF s.more THEN SearchLine(s, used, cnt) ELSE s
  IN  passes[BUFSIZE + 1]

\* Only a file can be read with -1; the clock gives 0 bytes.
grep_search ==
  /\ upc = "search"
  /\ read(fds.file, BUFSIZE - last)
  /\ IF retval' = -1
     THEN Ends(3) /\ UNCHANGED <<data, last, printed>>
     ELSE LET bytes  == IF retval' = 0 THEN << >> ELSE Bytes(fds.file, retval')
              filled == [i \in 0 .. BUFSIZE |->
                           IF i - last + 1 \in DOMAIN bytes THEN bytes[i - last + 1] ELSE data[i]]
              result == SearchLines(filled, last + retval', retval', printed)
          IN  /\ data' = result.data
              /\ last' = result.last
              /\ printed' = result.lines
              /\ GoesOn(IF retval' = 0 THEN "close" ELSE "search")
  /\ UNCHANGED <<program, argument, fds, chunk, fname, began, stale>>

\* The descriptor was opened by open() above, so close() cannot refuse it.
grep_close_file ==
  /\ upc = "close"
  /\ close(fds.file)
  /\ GoesOn("next")
  /\ UNCHANGED <<program, argument, fds, chunk, fname, data, last, printed, began, stale>>

grep ==
  /\ program = "grep"
  /\ \/ grep_open_directory
     \/ grep_next_file
     \/ grep_open_file
     \/ grep_search
     \/ grep_close_file

-----------------------------------------------------------------------------
ProgramsNext ==
  \/ any_call
  \/ \E name \in Names : start("cat", name)
  \/ start("ls", << >>)
  \/ \E pattern \in Patterns : start("grep", pattern)
  \/ cat
  \/ ls
  \/ grep

ProgramsSpec == ProgramsInit /\ [][ProgramsNext]_<<vars, pvars>>

-----------------------------------------------------------------------------
\* The first bytes of a text, up to all of it.
IsBeginning(bytes, text) == \E n \in 0 .. Len(text) : bytes = SubSeq(text, 1, n)

\* cat writes a file byte for byte and returns 0; of a file with a bad block it
\* writes a beginning, and of a missing one nothing, and it says so by its
\* status, whatever the programs before it left open in the PCB.  The clock, and
\* the empty name while the directory has an unused entry, which is a clock's,
\* give it nothing to write and 0; a name that begins like stdin or stdout makes
\* it copy what is typed, for ever.
CatCopiesFile ==
  program = "cat" /\ upc = "done" =>
    /\ argument \notin StandardNames
    /\ IF argument \notin Files THEN status = 2 /\ printed = << >>
       ELSE LET entry == Entry(argument)
            IN  /\ entry.type = "rtc" => status = 0 /\ printed = << >>
                /\ entry.type = "file" =>
                     /\ IsBeginning(printed, entry.text)
                     /\ status = 0 => printed = entry.text
                     /\ entry.good > Len(entry.text) => status = 0

\* ls writes the names from where the last listing stopped to the end, and
\* leaves the shared cursor at the start: also after a grep that gave up in the
\* middle of the directory, only one listing is short.
LsListsDirectory ==
  program = "ls" /\ upc = "done" =>
    IF "." \notin Files THEN status = 2 /\ printed = << >>
    ELSE /\ status = 0
         /\ printed = [i \in 1 .. Len(disk) - began |-> disk[began + i].name]
         /\ dir_reads = 0
=============================================================================
