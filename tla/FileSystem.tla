----------------------------- MODULE FileSystem -----------------------------
(***************************************************************************)
(* The read-only file system, student-distrib/files.c: lookup by name and  *)
(* read_data(), for fs_read() and fs_load().                               *)
(*                                                                         *)
(* A byte of a data block is identified by its address (relative to        *)
(* data_start), so a buffer records which bytes were copied into it.       *)
(* Nothing writes to the image, so calls of several processes do not       *)
(* disturb each other: one caller is enough.  dir_read() is in Directory.  *)
(***************************************************************************)
EXTENDS Integers, Sequences, FiniteSetsExt

CONSTANTS
  FS_PAGE_SIZE,            \* 4096 in the code
  MAX_NUM_FS_DENTRIES,     \* 63
  MAX_FILENAME_LENGTH,     \* 32
  NUM_BLOCKS,              \* 1023: the entries of data_blocks
  Images,                  \* the file systems that may be booted with
  Names, Offsets, Lengths, \* the arguments callers pass
  NULL

\* data_blocks[NUM_BLOCKS] is what follows the inode in memory.
ASSUME FileSystemAssumption ==
  /\ FS_PAGE_SIZE \in Nat \ {0}
  /\ MAX_NUM_FS_DENTRIES \in Nat /\ MAX_FILENAME_LENGTH \in Nat /\ NUM_BLOCKS \in Nat
  /\ Offsets \subseteq Nat /\ Lengths \subseteq Nat
  /\ \A im \in Images :
       /\ im.num_dentries \in 0 .. MAX_NUM_FS_DENTRIES
       /\ im.num_inodes \in Nat /\ im.num_datablocks \in Nat
       /\ DOMAIN im.dentries = 0 .. MAX_NUM_FS_DENTRIES - 1
       /\ \A i \in DOMAIN im.dentries : im.dentries[i].inode \in Nat
       /\ \A i \in 0 .. im.num_inodes - 1 :
            /\ im.size[i] \in 0 .. NUM_BLOCKS * FS_PAGE_SIZE
            /\ \A b \in 0 .. NUM_BLOCKS : im.data_blocks[i][b] \in Nat

\* What the lookup relies on, because it scans entries that are not in use too:
\* names are at most as long as their field, and the entries behind
\* num_dentries are zero.
ASSUME DirectoryAssumption ==
  \A im \in Images : \A i \in DOMAIN im.dentries :
    /\ im.dentries[i].filename \in Seq(Range(im.dentries[i].filename))
    /\ Len(im.dentries[i].filename) <= MAX_FILENAME_LENGTH
    /\ i >= im.num_dentries => im.dentries[i].filename = << >>

VARIABLES
  image,                          \* the module GRUB loaded
  pc,                             \* "out", "loop" or "done"
  op,                             \* "read" for fs_read(), "load" for fs_load()
  fname, inode, offset, length,   \* the arguments
  total_successful_reads, location_in_block, cur_data_block, read_addr,
  buf,                            \* the bytes copied so far
  retval

args  == <<op, fname, inode, offset, length>>
loop  == <<total_successful_reads, location_in_block, cur_data_block, read_addr, buf>>
vars  == <<image, pc, args, loop, retval>>

\* fs_open() at boot.  Between two calls there are no arguments and no locals.
Init ==
  /\ image \in Images
  /\ pc = "out"
  /\ op = "read" /\ fname = NULL /\ inode = 0 /\ offset = 0 /\ length = 0
  /\ total_successful_reads = 0 /\ location_in_block = 0
  /\ cur_data_block = 0 /\ read_addr = 0
  /\ buf = << >>
  /\ retval = 0

-----------------------------------------------------------------------------
(* read_dentry_by_name() *)

\* The characters strlen() sees: a name that fills its field runs on into the
\* first byte of filetype, and the bytes after that are 0.
Characters(d) ==
  IF Len(d.filename) = MAX_FILENAME_LENGTH /\ d.filetype # 0
  THEN Append(d.filename, d.filetype) ELSE d.filename

PrefixMatches(d, name) ==
  /\ Len(Characters(d)) >= Len(name)
  /\ SubSeq(Characters(d), 1, Len(name)) = name

\* Equal lengths, then strncmp().
Matches(d, name) ==
  /\ Len(Characters(d)) = Len(name)
  /\ SubSeq(Characters(d), 1, Len(name)) = name

Matching(name) ==
  {i \in 0 .. MAX_NUM_FS_DENTRIES - 1 : Matches(image.dentries[i], name)}

Found(name) == name # NULL /\ Matching(name) # {}

read_dentry_by_name(name) == image.dentries[Min(Matching(name))]

-----------------------------------------------------------------------------
(* read_data() *)

BadBlock(b) == image.data_blocks[inode'][b] >= image.num_datablocks

return(value) ==
  /\ pc' = "done"
  /\ retval' = IF op' = "load" THEN IF value # 0 THEN -1 ELSE 0 ELSE value

\* The checks before the loop.
read_data ==
  LET block == offset' \div FS_PAGE_SIZE
      loc   == offset' % FS_PAGE_SIZE
  IN
  /\ total_successful_reads' = 0
  /\ buf' = << >>
  /\ \/ /\ inode' >= image.num_inodes
        /\ return(-1)
        /\ UNCHANGED <<location_in_block, cur_data_block, read_addr>>
     \/ /\ inode' < image.num_inodes
        /\ offset' >= image.size[inode']
        /\ return(0)
        /\ UNCHANGED <<location_in_block, cur_data_block, read_addr>>
     \/ /\ inode' < image.num_inodes
        /\ offset' < image.size[inode']
        /\ cur_data_block' = block
        /\ \/ BadBlock(block) /\ return(-1) /\ UNCHANGED <<location_in_block, read_addr>>
           \/ /\ ~ BadBlock(block)
              /\ location_in_block' = loc
              /\ read_addr' = image.data_blocks[inode'][block] * FS_PAGE_SIZE + loc
              /\ pc' = "loop"
              /\ UNCHANGED retval

not_found ==
  /\ inode' = inode
  /\ return(-1)
  /\ UNCHANGED loop

fs_read ==
  /\ pc = "out"
  /\ op' = "read"
  /\ fname' \in Names \cup {NULL}
  /\ offset' \in Offsets
  /\ length' \in Lengths
  /\ \/ ~ Found(fname') /\ not_found
     \/ Found(fname') /\ inode' = read_dentry_by_name(fname').inode /\ read_data
  /\ UNCHANGED image

\* The whole file; a bad inode number leaves the length unknown, and unused.
fs_load ==
  /\ pc = "out"
  /\ op' = "load"
  /\ fname' \in Names \cup {NULL}
  /\ offset' = 0
  /\ \/ ~ Found(fname') /\ not_found /\ UNCHANGED length
     \/ /\ Found(fname')
        /\ inode' = read_dentry_by_name(fname').inode
        /\ length' = IF inode' < image.num_inodes THEN image.size[inode'] ELSE 0
        /\ read_data
  /\ UNCHANGED image

-----------------------------------------------------------------------------
(* The loop of read_data(): one action per way through its body *)

EndOfBlock == location_in_block >= FS_PAGE_SIZE
Block == IF EndOfBlock THEN cur_data_block + 1 ELSE cur_data_block

PastEndOfFile == total_successful_reads + offset > image.size[inode]

EndOfFile == total_successful_reads + offset >= image.size[inode]

AddrGoesOn == read_addr

\* At the end of a block the address moves to the start of the next one.
Addr == IF EndOfBlock THEN image.data_blocks[inode][Block] * FS_PAGE_SIZE ELSE read_addr

loop_done ==
  /\ pc = "loop"
  /\ total_successful_reads >= length
  /\ UNCHANGED <<image, args, loop>>
  /\ return(total_successful_reads)

loop_bad_block ==
  /\ pc = "loop"
  /\ total_successful_reads < length
  /\ EndOfBlock
  /\ image.data_blocks[inode][Block] >= image.num_datablocks
  /\ location_in_block' = 0
  /\ cur_data_block' = Block
  /\ UNCHANGED <<image, args, total_successful_reads, read_addr, buf>>
  /\ return(-1)

GoodBlock == EndOfBlock => image.data_blocks[inode][Block] < image.num_datablocks

ContinueAtEnd ==
  /\ pc = "loop"
  /\ total_successful_reads < length
  /\ GoodBlock
  /\ EndOfFile
  /\ location_in_block' = IF EndOfBlock THEN 0 ELSE location_in_block
  /\ cur_data_block' = Block
  /\ read_addr' = Addr
  /\ UNCHANGED <<image, args, total_successful_reads, buf, pc, retval>>

loop_end_of_file ==
  /\ pc = "loop"
  /\ total_successful_reads < length
  /\ GoodBlock
  /\ EndOfFile
  /\ location_in_block' = IF EndOfBlock THEN 0 ELSE location_in_block
  /\ cur_data_block' = Block
  /\ read_addr' = Addr
  /\ UNCHANGED <<image, args, total_successful_reads, buf>>
  /\ return(total_successful_reads)

OneMore == total_successful_reads + 1

loop_byte ==
  /\ pc = "loop"
  /\ total_successful_reads < length
  /\ GoodBlock
  /\ ~ EndOfFile
  /\ buf' = Append(buf, Addr)
  /\ location_in_block' = (IF EndOfBlock THEN 0 ELSE location_in_block) + 1
  /\ cur_data_block' = Block
  /\ read_addr' = Addr + 1
  /\ total_successful_reads' = OneMore
  /\ UNCHANGED <<image, args, pc, retval>>

read_data_step == loop_done \/ loop_bad_block \/ loop_end_of_file \/ loop_byte

caller_goes_on ==
  /\ pc = "done"
  /\ pc' = "out"
  /\ op' = "read" /\ fname' = NULL /\ inode' = 0 /\ offset' = 0 /\ length' = 0
  /\ total_successful_reads' = 0 /\ location_in_block' = 0
  /\ cur_data_block' = 0 /\ read_addr' = 0
  /\ buf' = << >>
  /\ retval' = 0
  /\ UNCHANGED image

Next == fs_read \/ fs_load \/ loop_done \/ loop_bad_block \/ loop_end_of_file
          \/ loop_byte \/ caller_goes_on

Spec == Init /\ [][Next]_vars

\* read_data() is a loop of one process, which the scheduler keeps running.
FairSpec == Spec /\ WF_vars(read_data_step)

-----------------------------------------------------------------------------
\* The address of byte k of the file.
FileByte(k) ==
  image.data_blocks[inode][k \div FS_PAGE_SIZE] * FS_PAGE_SIZE + (k % FS_PAGE_SIZE)

\* Whatever blocks the file is scattered over, and wherever in a block the read
\* starts, the bytes in the buffer are those of the file from offset on, in
\* order, at no time more than length of them, and none behind its end.
BufferIsFile ==
  pc = "loop" =>
    /\ Len(buf) <= length
    /\ offset + Len(buf) <= image.size[inode]
    /\ \A i \in 1 .. Len(buf) : buf[i] = FileByte(offset + i - 1)

\* How many bytes a read should deliver, and the last block read_data() looks
\* at: when the caller wants more than there is, that of the byte behind the end.
Wanted == Min({length, image.size[inode] - offset})
LastBlock ==
  IF length > Wanted \/ Wanted = 0 THEN (offset + Wanted) \div FS_PAGE_SIZE
                                   ELSE (offset + Wanted - 1) \div FS_PAGE_SIZE
Blocks(first, last) == {image.data_blocks[inode][b] : b \in first .. last}
AllGood(blocks) == \A b \in blocks : b < image.num_datablocks

\* read_data() delivers all that was asked for and is there, and fails exactly
\* when one of the blocks it looks at is out of range.
ReadExact ==
  pc = "done" /\ Found(fname) /\ inode < image.num_inodes /\ offset < image.size[inode] =>
    LET good == AllGood(Blocks(offset \div FS_PAGE_SIZE, LastBlock))
    IN  /\ good => total_successful_reads = Wanted
        /\ op = "read" => retval = IF good THEN Wanted ELSE -1

\* The entries in use, and what the directory says of a name.
Listed(name) ==
  \E i \in 0 .. image.num_dentries - 1 : image.dentries[i].filename = name

\* A name that is neither empty nor as long as its field is found exactly when
\* the directory lists it; the lookup compares lengths first, so a prefix of a
\* name is not found.
LookupExact ==
  pc = "done" /\ fname # NULL /\ Len(fname) \in 1 .. MAX_FILENAME_LENGTH - 1 =>
    /\ Found(fname) <=> Listed(fname)
    /\ Found(fname) => read_dentry_by_name(fname).filename = fname

\* Every read ends.
ReadTerminates == pc = "loop" ~> pc = "done"
=============================================================================
