----------------------------- MODULE Descriptors ----------------------------
(***************************************************************************)
(* The file descriptors of one process: open(), close(), read() and        *)
(* write() of student-distrib/syscalls.c on the fds array of its PCB,      *)
(* through the file operations tables.  Only the process itself changes    *)
(* its PCB's fds, so other processes do not appear; what a read of a file  *)
(* gives is what FileSystem shows (ReadExact), and the directory's cursor  *)
(* moves as in Directory without another listing.                          *)
(***************************************************************************)
EXTENDS Integers, Sequences, FiniteSetsExt

CONSTANTS
  NUM_FDS,        \* 8 in the code
  Disks,          \* the directories a run explores: sequences of entries
  MAX_NUM_FS_DENTRIES,  \* 63: the entries the directory has room for
  Names,          \* the names programs open
  InNames,        \* those that begin with "stdin"
  OutNames,       \* those that begin with "stdou"
  Sizes,          \* the nbytes of read() and write()
  NameLength,     \* what dir_read() returns for a name
  POS             \* 2^32: where fileposition wraps

\* The name of no characters, which no file has.
EmptyName == "empty"

\* An entry has a name, a type, its bytes and how many of them the good blocks
\* at the start of the file hold.  No image has a file named like stdin or stdout.
ASSUME DescriptorsAssumption ==
  /\ NUM_FDS \in Nat /\ NUM_FDS > 2
  /\ Sizes \subseteq Nat /\ NameLength \in Nat \ {0}
  /\ POS \in Nat \ {0, 1}
  /\ MAX_NUM_FS_DENTRIES \in Nat
  /\ InNames \cap OutNames = {} /\ EmptyName \notin InNames \cup OutNames
  /\ \A d \in Disks : Len(d) <= MAX_NUM_FS_DENTRIES /\ d \in Seq(Range(d)) /\ \A i \in DOMAIN d :
       /\ d[i].text \in Seq(Range(d[i].text))
       /\ d[i].type \in {"rtc", "dir", "file"}
       /\ Len(d[i].text) \in 0 .. POS - 2
       /\ d[i].good \in Nat
       /\ d[i].name \notin InNames \cup OutNames \cup {EmptyName}
       /\ \A j \in DOMAIN d \ {i} : d[i].name # d[j].name

FD == 0 .. NUM_FDS - 1

VARIABLES
  disk,           \* the directory, which no program changes
  dir_reads,      \* how many of its entries the current listing has given
  flags,          \* the descriptors that are IN_USE
  jumptable,      \* which table: "NULL", "stdin", "stdout", "rtc", "dir", "file"
  fileposition,
  filenames,      \* the name under which a descriptor was opened
  retval,         \* what the last call returned
  got,            \* history: bytes read through a descriptor since its open()
  failed          \* history: reads of it that failed

table == <<flags, jumptable, fileposition, filenames, got, failed>>
vars  == <<disk, dir_reads, table, retval>>

\* The image fills an entry that no file uses with zeros, and 0 is the type of
\* the clock.
UnusedDentry == [name |-> EmptyName, type |-> "rtc", text |-> << >>, good |-> 1]

Dentries ==
  {disk[i] : i \in DOMAIN disk}
    \cup (IF Len(disk) < MAX_NUM_FS_DENTRIES THEN {UnusedDentry} ELSE {})

\* read_dentry_by_name() looks at the unused entries too.
Files == {entry.name : entry \in Dentries}
Entry(name) == CHOOSE entry \in Dentries : entry.name = name

NoName == "none"

StandardTable == [fd \in {0, 1} |-> IF fd = 0 THEN "stdin" ELSE "stdout"]

\* bootup(), for the first program of this PCB.
Init ==
  /\ disk \in Disks
  /\ dir_reads = 0
  /\ flags = {0, 1}
  /\ jumptable = [fd \in FD |-> IF fd \in {0, 1} THEN StandardTable[fd] ELSE "NULL"]
  /\ fileposition = [fd \in FD |-> 0]
  /\ filenames = [fd \in FD |-> NoName]
  /\ retval = 0
  /\ got = [fd \in FD |-> 0]
  /\ failed = [fd \in FD |-> 0]

-----------------------------------------------------------------------------
\* The program halts with files open and execute() starts another in the same
\* PCB: it resets flags, inode and fileposition, but neither the jump tables
\* nor the names, and opens stdin and stdout.
execute ==
  /\ flags' = {0, 1}
  /\ jumptable' = [fd \in FD |-> IF fd \in {0, 1} THEN StandardTable[fd] ELSE jumptable[fd]]
  /\ fileposition' = [fd \in FD |-> 0]
  /\ got' = [fd \in FD |-> 0]
  /\ failed' = [fd \in FD |-> 0]
  /\ retval' = 0
  /\ UNCHANGED <<disk, dir_reads, filenames>>

StandardNames == InNames \cup OutNames

\* strncmp() compares five characters, and the result is 0 for stdout as well.
open_std(name) ==
  \E fd \in {0, 1} :
    /\ name \in IF fd = 0 THEN InNames ELSE OutNames
    /\ jumptable' = [jumptable EXCEPT ![fd] = StandardTable[fd]]
    /\ flags' = flags \cup {fd}
    /\ retval' = 0
    /\ UNCHANGED <<disk, dir_reads, fileposition, filenames, got, failed>>

Free == {fd \in 2 .. NUM_FDS - 1 : fd \notin flags}

open(name) ==
  /\ name \in Files \ StandardNames
  /\ \E fd \in Free :
       /\ \A other \in Free : fd <= other
       /\ jumptable' = [jumptable EXCEPT ![fd] = Entry(name).type]
       /\ flags' = flags \cup {fd}
       /\ filenames' = [filenames EXCEPT ![fd] = name]
       /\ retval' = fd
       /\ got' = [got EXCEPT ![fd] = 0]
       /\ failed' = [failed EXCEPT ![fd] = 0]
  /\ UNCHANGED <<disk, dir_reads, fileposition>>

\* No such name, or "The File Descriptor Array is Filled".
open_fails(name) ==
  /\ name \notin StandardNames
  /\ name \notin Files \/ Free = {}
  /\ retval' = -1
  /\ UNCHANGED <<disk, dir_reads, table>>

KeepPosition(fd) == fileposition

ResetPosition(fd) == [fileposition EXCEPT ![fd] = 0]

Closable(fd) == fd >= 2 /\ fd \in flags

StillInUse(fd) == flags

NotInUse(fd) == flags \ {fd}

close(fd) ==
  /\ Closable(fd)
  /\ flags' = NotInUse(fd)
  /\ jumptable' = [jumptable EXCEPT ![fd] = "NULL"]
  /\ fileposition' = ResetPosition(fd)
  /\ retval' = 0
  /\ UNCHANGED <<disk, dir_reads, filenames, got, failed>>

close_fails(fd) ==
  /\ ~ Closable(fd)
  /\ retval' = -1
  /\ UNCHANGED <<disk, dir_reads, table>>

-----------------------------------------------------------------------------
\* file_read(): up to n bytes of the rest of the file; -1 when it needs a byte
\* of a bad block, or looks past the last block that is full.
file_read(fd, n) ==
  LET entry == Entry(filenames[fd])
      size  == Len(entry.text)
      pos   == fileposition[fd]
  IN  IF pos >= size THEN 0
      ELSE IF entry.good <= size /\ (pos >= entry.good \/ pos + n > entry.good) THEN -1
      ELSE Min({n, size - pos})

OneNameShort == dir_reads + 1 >= Len(disk)

\* dir_read(): a name's length, or 0 at the end.
EndOfDirectory == dir_reads >= Len(disk)

\* What jumptable[1] returns: terminal_read() fills the buffer, no_function()
\* and rtc_read() return 0.
BytesRead(fd, n) ==
  CASE jumptable[fd] = "stdin"  -> n
    [] jumptable[fd] = "stdout" -> 0
    [] jumptable[fd] = "rtc"    -> 0
    [] jumptable[fd] = "dir"    -> IF EndOfDirectory THEN 0 ELSE NameLength
    [] jumptable[fd] = "file"   -> file_read(fd, n)

\* fileposition += bytesread, also when bytesread is -1.
Advance(fd, bytesread) == [fileposition EXCEPT ![fd] = (@ + bytesread) % POS]

read(fd, n) ==
  /\ fd \in flags
  /\ retval' = BytesRead(fd, n)
  /\ fileposition' = Advance(fd, retval')
  /\ dir_reads' = IF jumptable[fd] # "dir" THEN dir_reads
                  ELSE IF EndOfDirectory THEN 0 ELSE dir_reads + 1
  /\ got' = [got EXCEPT ![fd] = IF retval' > 0 THEN (@ + retval') % POS ELSE @]
  /\ failed' = [failed EXCEPT ![fd] = IF retval' = -1 THEN (@ + 1) % POS ELSE @]
  /\ UNCHANGED <<disk, flags, jumptable, filenames>>

\* jumptable[2]: only stdout writes; rtc_write() may refuse the rate.
Writable(fd, n) ==
  CASE jumptable[fd] = "stdin"  -> {0}
    [] jumptable[fd] = "stdout" -> {n}
    [] jumptable[fd] = "rtc"    -> {0, -1}
    [] jumptable[fd] = "dir"    -> {-1}
    [] jumptable[fd] = "file"   -> {-1}

write(fd, n) ==
  /\ fd \in flags
  /\ retval' \in Writable(fd, n)
  /\ UNCHANGED <<disk, dir_reads, table>>

\* read() and write() of a descriptor that is not open, or with a NULL buffer.
transfer_fails ==
  /\ retval' = -1
  /\ UNCHANGED <<disk, dir_reads, table>>

Next ==
  \/ execute
  \/ \E name \in Names : open_std(name) \/ open(name) \/ open_fails(name)
  \/ \E fd \in FD : close(fd) \/ close_fails(fd)
  \/ \E fd \in FD, n \in Sizes : read(fd, n) \/ write(fd, n)
  \/ transfer_fails

Spec == Init /\ [][Next]_vars

-----------------------------------------------------------------------------
\* A program reads each file it opens from its start to its end without a gap
\* or a repetition: the position of an open file is the number of bytes read
\* since this open(), less one for each read that failed, also when the
\* descriptor, or the PCB, was used for another file before; in a file whose
\* blocks are all good no read fails and none starts behind the end.
ReadsAreSequential ==
  \A fd \in flags : jumptable[fd] = "file" =>
    LET entry == Entry(filenames[fd])
    IN  /\ fileposition[fd] = (got[fd] - failed[fd]) % POS
        /\ entry.good > Len(entry.text) =>
             failed[fd] = 0 /\ fileposition[fd] <= Len(entry.text)

\* A descriptor in use has the operations of what it was opened for: read(),
\* write() and close() never call through the NULL table that close() leaves
\* or the one an earlier program left in the PCB, and 0 and 1, which close()
\* refuses and open() never gives out, stay stdin and stdout.
OwnOperations ==
  /\ {0, 1} \subseteq flags
  /\ \A fd \in flags :
       jumptable[fd] = IF fd < 2 THEN StandardTable[fd] ELSE Entry(filenames[fd]).type
=============================================================================
