-------------------------- MODULE FileSystemProofs --------------------------
(***************************************************************************)
(* Proofs about the lookup by name and read_data(), for any size of block, *)
(* any images, names, offsets and lengths; and about dir_read(), for any   *)
(* number of programs that share the cursor dir_reads and any number of    *)
(* files.                                                                  *)
(***************************************************************************)
EXTENDS FileSystem, Directory, WellFoundedInduction, TLAPS

\* Every leaf is tried with the SMT solver, then with Zenon, then with more time.
USE SMTT(10), ZenonT(20), SMTT(60)

TypeOK ==
  /\ image \in Images
  /\ pc \in {"out", "loop", "done"}
  /\ op \in {"read", "load"}
  /\ inode \in Nat /\ offset \in Nat /\ length \in Nat
  /\ total_successful_reads \in Nat /\ location_in_block \in Nat
  /\ cur_data_block \in Nat /\ read_addr \in Nat
  /\ buf \in Seq(Nat)

\* The position in the file that the loop has reached.
Position == offset + total_successful_reads

\* What the variables of the loop have to do with each other: they all describe
\* the same position, location_in_block may have reached the end of its block,
\* and every block entered so far is good.
LoopInv ==
  pc = "loop" =>
    /\ Found(fname) /\ inode < image.num_inodes /\ offset < image.size[inode]
    /\ total_successful_reads = Len(buf)
    /\ total_successful_reads <= length
    /\ Position <= image.size[inode]
    /\ location_in_block <= FS_PAGE_SIZE
    /\ Position = cur_data_block * FS_PAGE_SIZE + location_in_block
    /\ read_addr = image.data_blocks[inode][cur_data_block] * FS_PAGE_SIZE + location_in_block
    /\ offset \div FS_PAGE_SIZE <= cur_data_block
    /\ AllGood(Blocks(offset \div FS_PAGE_SIZE, cur_data_block))

IInv == TypeOK /\ LoopInv /\ BufferIsFile /\ ReadExact

-----------------------------------------------------------------------------
(* Numbers *)

\* A set of natural numbers that is not empty has a least element: the scan of
\* the directory for a name finds the first entry when there is one.
LEMMA LeastNumber ==
  ASSUME NEW T \in SUBSET Nat, T # {}
  PROVE  \E x \in T : \A y \in T : x <= y
<1> DEFINE R == OpToRel(<, Nat)
<1>1. \E x \in T : \A y \in T : ~ (<<y, x>> \in R)
  <2>1. IsWellFoundedOn(R, Nat)
    BY NatLessThanWellFounded
  <2> HIDE DEF R
  <2> QED
    BY <2>1, WFMin
<1>2. \A x, y \in T : y < x => <<y, x>> \in R
  BY DEF OpToRel
<1> HIDE DEF R
<1>3. PICK x \in T : \A y \in T : ~ (<<y, x>> \in R)
  BY <1>1
<1>4. \A y \in T : ~ (y < x)
  BY <1>2, <1>3
<1>5. \A y \in T : x <= y
  BY <1>4
<1> QED
  BY <1>5

\* The operator Min finds it.
LEMMA MinOfNat ==
  ASSUME NEW T \in SUBSET Nat, T # {}
  PROVE  Min(T) \in T /\ \A y \in T : Min(T) <= y
BY LeastNumber DEF Min

\* Min of two numbers, as read_data() stops.
LEMMA MinOfTwo ==
  ASSUME NEW x \in Int, NEW y \in Int
  PROVE  Min({x, y}) = IF x <= y THEN x ELSE y
BY DEF Min

\* A position in a file is a block and a location in the block, in one way.
LEMMA BlockAndLocation ==
  ASSUME NEW m \in Nat, m > 0, NEW c \in Nat, NEW l \in 0 .. m - 1
  PROVE  (c * m + l) \div m = c /\ (c * m + l) % m = l
OBVIOUS

\* The block and the location of a position.
LEMMA SplitPosition ==
  ASSUME NEW m \in Nat, m > 0, NEW x \in Nat
  PROVE  /\ x \div m \in Nat /\ x % m \in 0 .. m - 1
         /\ x = (x \div m) * m + (x % m)
OBVIOUS

\* A later position is in the same block or in a later one.
LEMMA LaterBlock ==
  ASSUME NEW m \in Nat, m > 0, NEW x \in Nat, NEW y \in Nat, x <= y
  PROVE  x \div m <= y \div m
OBVIOUS

-----------------------------------------------------------------------------
(* The image *)

\* A position inside a file, or at its end, is in a block that data_blocks has.
LEMMA PositionInFile ==
  ASSUME NEW im \in Images, NEW i \in Nat, i < im.num_inodes,
         NEW x \in Nat, x <= im.size[i]
  PROVE  /\ FS_PAGE_SIZE \in Nat /\ FS_PAGE_SIZE > 0
         /\ im.size[i] \in Nat /\ im.num_datablocks \in Nat
         /\ x \div FS_PAGE_SIZE \in 0 .. NUM_BLOCKS
         /\ x % FS_PAGE_SIZE \in 0 .. FS_PAGE_SIZE - 1
         /\ x = (x \div FS_PAGE_SIZE) * FS_PAGE_SIZE + (x % FS_PAGE_SIZE)
         /\ \A b \in 0 .. NUM_BLOCKS : im.data_blocks[i][b] \in Nat
<1>1. FS_PAGE_SIZE \in Nat /\ FS_PAGE_SIZE > 0 /\ NUM_BLOCKS \in Nat
      /\ im.num_inodes \in Nat /\ im.num_datablocks \in Nat
  BY FileSystemAssumption
<1>2. i \in 0 .. im.num_inodes - 1
  BY <1>1
<1>3. im.size[i] \in 0 .. NUM_BLOCKS * FS_PAGE_SIZE
      /\ \A b \in 0 .. NUM_BLOCKS : im.data_blocks[i][b] \in Nat
  BY <1>2, FileSystemAssumption
<1>4. /\ x \div FS_PAGE_SIZE \in Nat /\ x % FS_PAGE_SIZE \in 0 .. FS_PAGE_SIZE - 1
      /\ x = (x \div FS_PAGE_SIZE) * FS_PAGE_SIZE + (x % FS_PAGE_SIZE)
  BY <1>1, SplitPosition
<1>5. x \div FS_PAGE_SIZE <= NUM_BLOCKS
  <2>1. NUM_BLOCKS * FS_PAGE_SIZE + 0 \in Nat /\ x <= NUM_BLOCKS * FS_PAGE_SIZE + 0
    BY <1>1, <1>3
  <2>2. (NUM_BLOCKS * FS_PAGE_SIZE + 0) \div FS_PAGE_SIZE = NUM_BLOCKS
    BY <1>1, BlockAndLocation
  <2> QED
    BY <1>1, <2>1, <2>2, LaterBlock
<1> QED
  BY <1>1, <1>3, <1>4, <1>5

\* The size of a file is a number.
LEMMA SizeIsNumber ==
  ASSUME NEW im \in Images, NEW i \in Nat, i < im.num_inodes
  PROVE  im.size[i] \in Nat
<1>1. im.num_inodes \in Nat
  BY FileSystemAssumption
<1>2. i \in 0 .. im.num_inodes - 1
  BY <1>1
<1> QED
  BY <1>2, FileSystemAssumption

\* read_dentry_by_name() gives the first entry that matches.
LEMMA FoundEntry ==
  ASSUME image \in Images, NEW name, Found(name)
  PROVE  /\ Min(Matching(name)) \in Matching(name)
         /\ read_dentry_by_name(name).inode \in Nat
<1>1. Matching(name) \subseteq 0 .. MAX_NUM_FS_DENTRIES - 1 /\ Matching(name) # {}
  BY DEF Found, Matching
<1>2. Matching(name) \subseteq Nat
  BY <1>1, FileSystemAssumption
<1>3. Min(Matching(name)) \in Matching(name)
  BY <1>1, <1>2, MinOfNat
<1>4. Min(Matching(name)) \in DOMAIN image.dentries
  BY <1>1, <1>3, FileSystemAssumption
<1> QED
  BY <1>3, <1>4, FileSystemAssumption DEF read_dentry_by_name

-----------------------------------------------------------------------------
(* The types *)

\* At boot.
LEMMA InitIInv == Init => IInv
BY DEF Init, IInv, TypeOK, LoopInv, BufferIsFile, ReadExact

\* The ways out of the checks of read_data(), with the arguments it was given.
LEMMA ReadDataCases ==
  ASSUME TypeOK, read_data, image' = image, op' \in {"read", "load"},
         NEW i \in Nat, inode' = i, NEW x \in Nat, offset' = x, length' \in Nat
  PROVE  /\ total_successful_reads' = 0 /\ buf' = << >>
         /\ \/ pc' = "done" /\ ~ (i < image.num_inodes /\ x < image.size[i])
            \/ /\ pc' = "done" /\ i < image.num_inodes /\ x < image.size[i]
               /\ op' = "read" => retval' = -1
               /\ image.data_blocks[i][x \div FS_PAGE_SIZE] >= image.num_datablocks
            \/ /\ pc' = "loop" /\ i < image.num_inodes /\ x < image.size[i]
               /\ ~ (image.data_blocks[i][x \div FS_PAGE_SIZE] >= image.num_datablocks)
               /\ cur_data_block' = x \div FS_PAGE_SIZE
               /\ location_in_block' = x % FS_PAGE_SIZE
               /\ read_addr' = image.data_blocks[i][x \div FS_PAGE_SIZE] * FS_PAGE_SIZE
                                 + (x % FS_PAGE_SIZE)
         /\ TypeOK'
<1>s. image.num_inodes \in Nat /\ (i < image.num_inodes => image.size[i] \in Nat)
  BY SizeIsNumber, FileSystemAssumption DEF TypeOK
<1>1. CASE inode' >= image.num_inodes /\ return(-1)
           /\ UNCHANGED <<location_in_block, cur_data_block, read_addr>>
  BY <1>s, <1>1 DEF TypeOK, return, read_data
<1>2. CASE inode' < image.num_inodes /\ offset' >= image.size[inode'] /\ return(0)
           /\ UNCHANGED <<location_in_block, cur_data_block, read_addr>>
  BY <1>s, <1>2 DEF TypeOK, return, read_data
<1>3. CASE /\ i < image.num_inodes /\ x < image.size[i]
           /\ cur_data_block' = x \div FS_PAGE_SIZE
           /\ image.data_blocks[i][x \div FS_PAGE_SIZE] >= image.num_datablocks
           /\ return(-1) /\ UNCHANGED <<location_in_block, read_addr>>
  <2>1. x \div FS_PAGE_SIZE \in Nat
    <3>1. FS_PAGE_SIZE \in Nat /\ FS_PAGE_SIZE > 0
      BY FileSystemAssumption
    <3> QED
      BY <3>1, SplitPosition
  <2> QED
    BY <1>3, <2>1 DEF TypeOK, return, read_data
<1>4. CASE /\ i < image.num_inodes /\ x < image.size[i]
           /\ cur_data_block' = x \div FS_PAGE_SIZE
           /\ ~ (image.data_blocks[i][x \div FS_PAGE_SIZE] >= image.num_datablocks)
           /\ location_in_block' = x % FS_PAGE_SIZE
           /\ read_addr' = image.data_blocks[i][x \div FS_PAGE_SIZE] * FS_PAGE_SIZE
                             + (x % FS_PAGE_SIZE)
           /\ pc' = "loop"
  <2>1. /\ x \div FS_PAGE_SIZE \in Nat /\ x % FS_PAGE_SIZE \in Nat /\ FS_PAGE_SIZE \in Nat
        /\ image.data_blocks[i][x \div FS_PAGE_SIZE] \in Nat
    <3>1. image \in Images /\ x <= image.size[i]
      BY <1>s, <1>4 DEF TypeOK
    <3>2. /\ x \div FS_PAGE_SIZE \in 0 .. NUM_BLOCKS
          /\ x % FS_PAGE_SIZE \in 0 .. FS_PAGE_SIZE - 1 /\ FS_PAGE_SIZE \in Nat
          /\ \A b \in 0 .. NUM_BLOCKS : image.data_blocks[i][b] \in Nat
      BY <1>4, <3>1, PositionInFile
    <3> QED
      BY <3>2
  <2>2. read_addr' \in Nat
    BY <1>4, <2>1
  <2> QED
    BY <1>4, <2>1, <2>2 DEF TypeOK, read_data
<1> QED
  BY <1>1, <1>2, <1>3, <1>4 DEF read_data, BadBlock

-----------------------------------------------------------------------------
(* The loop *)

Size == image.size[inode]
GoodUpTo(last) ==
  \A b \in offset \div FS_PAGE_SIZE .. last : image.data_blocks[inode][b] < image.num_datablocks

\* The blocks of the property and of the invariant, block by block.
LEMMA GoodBlocks ==
  \A last : AllGood(Blocks(offset \div FS_PAGE_SIZE, last)) <=> GoodUpTo(last)
BY DEF AllGood, Blocks, GoodUpTo

\* What the body of the loop finds: Block and the location in it are those of
\* the position reached, and the address is that of the file's next byte.
LEMMA LoopFacts ==
  ASSUME IInv, pc = "loop"
  PROVE  /\ FS_PAGE_SIZE \in Nat /\ FS_PAGE_SIZE > 0
         /\ Size \in Nat /\ offset \in Nat /\ length \in Nat /\ total_successful_reads \in Nat
         /\ Position \in Nat /\ Position <= Size /\ offset <= Position
         /\ image.num_datablocks \in Nat
         /\ cur_data_block \in 0 .. NUM_BLOCKS
         /\ \A b \in 0 .. NUM_BLOCKS : image.data_blocks[inode][b] \in Nat
         /\ Block \in 0 .. NUM_BLOCKS
         /\ Block = Position \div FS_PAGE_SIZE
         /\ (IF EndOfBlock THEN 0 ELSE location_in_block) = Position % FS_PAGE_SIZE
         /\ Position = Block * FS_PAGE_SIZE + (IF EndOfBlock THEN 0 ELSE location_in_block)
         /\ GoodUpTo(cur_data_block)
         /\ offset \div FS_PAGE_SIZE <= cur_data_block
         /\ Addr = FileByte(Position)
<1>1. /\ inode \in Nat /\ offset \in Nat /\ length \in Nat /\ total_successful_reads \in Nat
      /\ location_in_block \in Nat /\ cur_data_block \in Nat /\ image \in Images
  BY DEF IInv, TypeOK
<1>2. /\ inode < image.num_inodes /\ offset < Size /\ Position <= Size
      /\ location_in_block <= FS_PAGE_SIZE
      /\ Position = cur_data_block * FS_PAGE_SIZE + location_in_block
      /\ read_addr = image.data_blocks[inode][cur_data_block] * FS_PAGE_SIZE + location_in_block
      /\ offset \div FS_PAGE_SIZE <= cur_data_block
      /\ GoodUpTo(cur_data_block)
  BY GoodBlocks DEF IInv, LoopInv, Size
<1>3. Position \in Nat /\ offset <= Position
  BY <1>1 DEF Position
<1>4. /\ FS_PAGE_SIZE \in Nat /\ FS_PAGE_SIZE > 0
      /\ Size \in Nat /\ image.num_datablocks \in Nat
      /\ Position \div FS_PAGE_SIZE \in 0 .. NUM_BLOCKS
      /\ \A b \in 0 .. NUM_BLOCKS : image.data_blocks[inode][b] \in Nat
  BY <1>1, <1>2, <1>3, PositionInFile DEF Size
<1> DEFINE loc == IF EndOfBlock THEN 0 ELSE location_in_block
<1>5. loc \in 0 .. FS_PAGE_SIZE - 1 /\ Block \in Nat /\ Position = Block * FS_PAGE_SIZE + loc
  <2>1. CASE EndOfBlock
    <3>1. location_in_block = FS_PAGE_SIZE
      BY <1>1, <1>2, <1>4, <2>1 DEF EndOfBlock
    <3>2. cur_data_block * FS_PAGE_SIZE + FS_PAGE_SIZE = (cur_data_block + 1) * FS_PAGE_SIZE + 0
      BY <1>1, <1>4
    <3> QED
      BY <1>1, <1>2, <1>4, <2>1, <3>1, <3>2 DEF Block
  <2>2. CASE ~ EndOfBlock
    BY <1>1, <1>2, <1>4, <2>2 DEF EndOfBlock, Block
  <2> QED
    BY <2>1, <2>2
<1>6. Position \div FS_PAGE_SIZE = Block /\ Position % FS_PAGE_SIZE = loc
  <2> HIDE DEF loc
  <2> QED
    BY <1>4, <1>5, BlockAndLocation
<1>7. cur_data_block \in 0 .. NUM_BLOCKS /\ Block \in 0 .. NUM_BLOCKS
  <2>1. Block \in 0 .. NUM_BLOCKS /\ NUM_BLOCKS \in Nat
    BY <1>4, <1>6, FileSystemAssumption
  <2>2. cur_data_block <= Block
    BY <1>1 DEF Block
  <2> QED
    BY <1>1, <2>1, <2>2
<1>8. Addr = FileByte(Position)
  <2>1. FileByte(Position) = image.data_blocks[inode][Block] * FS_PAGE_SIZE + loc
    BY <1>6 DEF FileByte
  <2>2. image.data_blocks[inode][Block] \in Nat
    BY <1>4, <1>7
  <2>3. CASE EndOfBlock
    BY <1>4, <2>1, <2>2, <2>3 DEF Addr
  <2>4. CASE ~ EndOfBlock
    BY <1>2, <2>1, <2>4 DEF Addr, Block
  <2> QED
    BY <2>3, <2>4
<1> QED
  BY <1>1, <1>2, <1>3, <1>4, <1>5, <1>6, <1>7, <1>8

\* When the loop goes on, the block it goes on in is good as well.
LEMMA GoodSoFar ==
  ASSUME IInv, pc = "loop", GoodBlock
  PROVE  GoodUpTo(Block) /\ offset \div FS_PAGE_SIZE <= Block
<1>1. /\ cur_data_block \in Int /\ GoodUpTo(cur_data_block)
      /\ offset \div FS_PAGE_SIZE \in Int /\ offset \div FS_PAGE_SIZE <= cur_data_block
  <2>1. offset \div FS_PAGE_SIZE \in Nat
    BY LoopFacts, SplitPosition
  <2> QED
    BY <2>1, LoopFacts
<1>2. CASE EndOfBlock
  <2>1. Block = cur_data_block + 1 /\ image.data_blocks[inode][Block] < image.num_datablocks
    BY <1>2 DEF Block, GoodBlock
  <2>2. \A b \in offset \div FS_PAGE_SIZE .. Block : b # Block => b \in offset \div FS_PAGE_SIZE .. cur_data_block
    BY <1>1, <2>1
  <2> QED
    BY <1>1, <2>1, <2>2 DEF GoodUpTo
<1>3. CASE ~ EndOfBlock
  BY <1>1, <1>3 DEF Block
<1> QED
  BY <1>2, <1>3

-----------------------------------------------------------------------------
(* The blocks read_data() looks at *)

WantedOf(x, len, size) == IF len <= size - x THEN len ELSE size - x
LastOf(x, len, wanted) ==
  IF len > wanted \/ wanted = 0 THEN (x + wanted) \div FS_PAGE_SIZE
                                ELSE (x + wanted - 1) \div FS_PAGE_SIZE

\* Every position up to the end of what is wanted is in a block up to the last
\* one, and the end itself is when the caller wants more than there is.
LEMMA UpToLast ==
  ASSUME NEW x \in Nat, NEW len \in Nat, NEW size \in Nat, x <= size,
         NEW y \in Nat, x <= y, y <= x + WantedOf(x, len, size),
         y = x + WantedOf(x, len, size) => len > WantedOf(x, len, size) \/ WantedOf(x, len, size) = 0
  PROVE  y \div FS_PAGE_SIZE <= LastOf(x, len, WantedOf(x, len, size))
<1> DEFINE w == WantedOf(x, len, size)
<1>1. w \in Nat /\ FS_PAGE_SIZE \in Nat /\ FS_PAGE_SIZE > 0
  BY FileSystemAssumption DEF WantedOf
<1> HIDE DEF w
<1>2. CASE len > w \/ w = 0
  <2>1. y <= x + w /\ x + w \in Nat
    BY <1>1 DEF w
  <2> QED
    BY <1>1, <1>2, <2>1, LaterBlock DEF LastOf, w
<1>3. CASE ~ (len > w \/ w = 0)
  <2>1. y # x + w
    BY <1>3 DEF w
  <2>2. y <= x + w - 1 /\ x + w - 1 \in Nat
    BY <1>1, <1>3, <2>1 DEF w
  <2> QED
    BY <1>1, <1>3, <2>2, LaterBlock DEF LastOf, w
<1> QED
  BY <1>2, <1>3

\* The two operators are what the property calls Wanted and LastBlock.
LEMMA WantedIs ==
  ASSUME offset \in Nat, length \in Nat, Size \in Nat
  PROVE  Wanted = WantedOf(offset, length, Size)
         /\ LastBlock = LastOf(offset, length, WantedOf(offset, length, Size))
<1>1. Wanted = WantedOf(offset, length, Size)
  BY MinOfTwo DEF Wanted, WantedOf, Size
<1> QED
  BY <1>1 DEF LastBlock, LastOf

\* A read that ends in the loop, with the arguments it was called with.
Ends(value) ==
  /\ UNCHANGED <<image, op, fname, inode, offset, length, total_successful_reads>>
  /\ pc' = "done"
  /\ op = "read" => retval' = value

\* The end of a read that has delivered what was wanted from good blocks.
LEMMA EndsWell ==
  ASSUME IInv, pc = "loop", Ends(total_successful_reads),
         total_successful_reads = WantedOf(offset, length, Size),
         GoodUpTo(LastOf(offset, length, WantedOf(offset, length, Size)))
  PROVE  ReadExact'
<1>1. offset \in Nat /\ length \in Nat /\ Size \in Nat
  BY LoopFacts
<1>2. Wanted = total_successful_reads /\ AllGood(Blocks(offset \div FS_PAGE_SIZE, LastBlock))
  BY <1>1, WantedIs, GoodBlocks
<1>3. Wanted' = Wanted /\ LastBlock' = LastBlock
  BY DEF Ends, Wanted, LastBlock
<1>4. AllGood(Blocks(offset \div FS_PAGE_SIZE, LastBlock))'
  BY <1>2, <1>3 DEF Ends, AllGood, Blocks
<1> QED
  BY <1>2, <1>3, <1>4 DEF ReadExact, Ends

\* The end of a read that met a bad block among those it has to look at.
LEMMA EndsBadly ==
  ASSUME IInv, pc = "loop", Ends(-1),
         ~ GoodUpTo(LastOf(offset, length, WantedOf(offset, length, Size)))
  PROVE  ReadExact'
<1>1. offset \in Nat /\ length \in Nat /\ Size \in Nat
  BY LoopFacts
<1>2. ~ AllGood(Blocks(offset \div FS_PAGE_SIZE, LastBlock))
  BY <1>1, WantedIs, GoodBlocks
<1>3. ~ AllGood(Blocks(offset \div FS_PAGE_SIZE, LastBlock))'
  BY <1>2 DEF Ends, Wanted, LastBlock, AllGood, Blocks
<1> QED
  BY <1>3 DEF ReadExact, Ends

-----------------------------------------------------------------------------
(* The steps *)

\* Calls: the checks of read_data() establish the invariant of the loop, or end
\* the read with -1 at a first block that is bad.
LEMMA CallStep == IInv /\ (fs_read \/ fs_load) => IInv'
<1> SUFFICES ASSUME IInv, fs_read \/ fs_load PROVE IInv'
  OBVIOUS
<1>0. TypeOK /\ image \in Images /\ image' = image /\ op' \in {"read", "load"} /\ offset' \in Nat
  <2>1. TypeOK /\ image \in Images
    BY DEF IInv, TypeOK
  <2>3. image' = image /\ op' \in {"read", "load"}
    BY DEF fs_read, fs_load
  <2>2. offset' \in Offsets \cup {0}
    BY DEF fs_read, fs_load
  <2>4. Offsets \subseteq Nat
    BY FileSystemAssumption
  <2> QED
    BY <2>1, <2>2, <2>3, <2>4
<1>f. \A name : Found(name)' = Found(name)
  BY <1>0 DEF Found, Matching, Matches, Characters
<1>1. CASE ~ Found(fname') /\ not_found /\ length' \in Nat
  <2>1. TypeOK' /\ pc' = "done"
    BY <1>0, <1>1 DEF TypeOK, not_found, return, loop
  <2>2. ~ Found(fname)'
    BY <1>0, <1>1 DEF Found, Matching, Matches, Characters
  <2>3. LoopInv' /\ BufferIsFile'
    BY <2>1 DEF LoopInv, BufferIsFile
  <2>4. ReadExact'
    BY <2>2 DEF ReadExact
  <2> QED
    BY <2>1, <2>3, <2>4 DEF IInv
<1>2. CASE Found(fname') /\ inode' \in Nat /\ read_data /\ length' \in Nat
  <2> DEFINE i == inode'
  <2> DEFINE x == offset'
  <2> DEFINE first == x \div FS_PAGE_SIZE
  <2>1. Found(fname)'
    BY <1>0, <1>2 DEF Found, Matching, Matches, Characters
  <2>2. /\ total_successful_reads' = 0 /\ buf' = << >>
        /\ \/ pc' = "done" /\ ~ (i < image.num_inodes /\ x < image.size[i])
           \/ /\ pc' = "done" /\ i < image.num_inodes /\ x < image.size[i]
              /\ op' = "read" => retval' = -1
              /\ image.data_blocks[i][first] >= image.num_datablocks
           \/ /\ pc' = "loop" /\ i < image.num_inodes /\ x < image.size[i]
              /\ ~ (image.data_blocks[i][first] >= image.num_datablocks)
              /\ cur_data_block' = first
              /\ location_in_block' = x % FS_PAGE_SIZE
              /\ read_addr' = image.data_blocks[i][first] * FS_PAGE_SIZE + (x % FS_PAGE_SIZE)
        /\ TypeOK'
    BY <1>0, <1>2, ReadDataCases
  <2>3. CASE pc' = "done" /\ ~ (i < image.num_inodes /\ x < image.size[i])
    BY <1>0, <2>2, <2>3 DEF IInv, LoopInv, BufferIsFile, ReadExact
  <2>4. CASE /\ pc' = "done" /\ i < image.num_inodes /\ x < image.size[i]
             /\ op' = "read" => retval' = -1
             /\ image.data_blocks[i][first] >= image.num_datablocks
    <3>1. x <= image.size[i]
      BY <1>0, <1>2, <2>4, SizeIsNumber
    <3>2. /\ image.size[i] \in Nat /\ first \in 0 .. NUM_BLOCKS
          /\ image.num_datablocks \in Nat /\ FS_PAGE_SIZE \in Nat
          /\ image.data_blocks[i][first] \in Nat
      BY <1>0, <1>2, <2>4, <3>1, PositionInFile
    <3> DEFINE w == WantedOf(x, length', image.size[i])
    <3>3. w \in Nat
      BY <1>0, <1>2, <3>1, <3>2 DEF WantedOf
    <3>4. first <= LastOf(x, length', w)
      <4>1. x \in Nat /\ length' \in Nat
        BY <1>0, <1>2
      <4>2. x <= x + w /\ (x = x + w => w = 0)
        BY <3>3, <4>1
      <4> QED
        BY <3>1, <3>2, <4>1, <4>2, UpToLast
    <3>5. Wanted' = w /\ LastBlock' = LastOf(x, length', w)
      <4>1. Wanted' = w
        BY <1>0, <1>2, <3>2, MinOfTwo DEF Wanted, WantedOf
      <4> QED
        BY <4>1 DEF LastBlock, LastOf
    <3>6. LastOf(x, length', w) \in Nat
      <4> HIDE DEF w
      <4>0. x \in Nat /\ FS_PAGE_SIZE > 0
        BY <1>0, FileSystemAssumption
      <4> HIDE DEF x
      <4>1. x + w \in Nat /\ (w # 0 => x + w - 1 \in Nat)
        BY <3>3, <4>0
      <4>2. (x + w) \div FS_PAGE_SIZE \in Nat
        BY <3>2, <4>0, <4>1, SplitPosition
      <4>3. w # 0 => (x + w - 1) \div FS_PAGE_SIZE \in Nat
        BY <3>2, <4>0, <4>1, SplitPosition
      <4> QED
        BY <4>2, <4>3 DEF LastOf
    <3>7. ~ AllGood(Blocks(offset \div FS_PAGE_SIZE, LastBlock))'
      <4>1. first \in first .. LastOf(x, length', w)
        BY <3>2, <3>4, <3>6
      <4>2. ~ (image.data_blocks[i][first] < image.num_datablocks)
        BY <2>4, <3>2
      <4> QED
        BY <1>0, <3>5, <4>1, <4>2 DEF AllGood, Blocks
    <3> QED
      BY <2>2, <2>4, <3>7 DEF IInv, LoopInv, BufferIsFile, ReadExact
  <2>5. CASE /\ pc' = "loop" /\ i < image.num_inodes /\ x < image.size[i]
             /\ ~ (image.data_blocks[i][first] >= image.num_datablocks)
             /\ cur_data_block' = first
             /\ location_in_block' = x % FS_PAGE_SIZE
             /\ read_addr' = image.data_blocks[i][first] * FS_PAGE_SIZE + (x % FS_PAGE_SIZE)
    <3>1. x <= image.size[i]
      BY <1>0, <1>2, <2>5, SizeIsNumber
    <3>2. /\ image.size[i] \in Nat /\ first \in 0 .. NUM_BLOCKS
          /\ x % FS_PAGE_SIZE \in 0 .. FS_PAGE_SIZE - 1
          /\ x = first * FS_PAGE_SIZE + (x % FS_PAGE_SIZE)
          /\ image.num_datablocks \in Nat /\ FS_PAGE_SIZE \in Nat
          /\ image.data_blocks[i][first] \in Nat
      BY <1>0, <1>2, <2>5, <3>1, PositionInFile
    <3>3. Position' = x
      BY <1>0, <2>2 DEF Position
    <3>4. \A b \in first .. first : image.data_blocks[i][b] < image.num_datablocks
      <4>1. \A b \in first .. first : b = first
        BY <3>2
      <4>2. image.data_blocks[i][first] < image.num_datablocks
        BY <2>5, <3>2
      <4> QED
        BY <4>1, <4>2
    <3>5. LoopInv'
      <4>1. /\ Found(fname)' /\ i < image'.num_inodes /\ x < image'.size[i]
            /\ total_successful_reads' = Len(buf') /\ total_successful_reads' <= length'
            /\ Position' <= image'.size[i]
        BY <1>0, <1>2, <2>1, <2>2, <2>5, <3>1, <3>3
      <4>2. /\ location_in_block' <= FS_PAGE_SIZE
            /\ Position' = cur_data_block' * FS_PAGE_SIZE + location_in_block'
            /\ read_addr' = image'.data_blocks[i][cur_data_block'] * FS_PAGE_SIZE
                              + location_in_block'
            /\ first <= cur_data_block'
        <5>1. x % FS_PAGE_SIZE <= FS_PAGE_SIZE /\ first <= first
          BY <3>2
        <5> QED
          BY <1>0, <2>5, <3>2, <3>3, <5>1
      <4>3. AllGood(Blocks(offset \div FS_PAGE_SIZE, cur_data_block))'
        BY <1>0, <2>5, <3>4 DEF AllGood, Blocks
      <4> QED
        BY <4>1, <4>2, <4>3 DEF LoopInv
    <3>6. BufferIsFile'
      BY <1>0, <1>2, <2>2, <3>1 DEF BufferIsFile
    <3>7. ReadExact'
      BY <2>5 DEF ReadExact
    <3> QED
      BY <2>2, <3>5, <3>6, <3>7 DEF IInv
  <2> QED
    BY <2>2, <2>3, <2>4, <2>5
<1>3. CASE fs_read
  <2>1. length' \in Nat
    BY <1>3, FileSystemAssumption DEF fs_read
  <2>2. Found(fname') => read_dentry_by_name(fname').inode \in Nat
    BY <1>0, FoundEntry
  <2> QED
    BY <1>1, <1>2, <1>3, <2>1, <2>2 DEF fs_read
<1>4. CASE fs_load
  <2>1. Found(fname') => read_dentry_by_name(fname').inode \in Nat
    BY <1>0, FoundEntry
  <2>2. CASE ~ Found(fname') /\ not_found /\ UNCHANGED length
    BY <1>0, <1>1, <2>2 DEF TypeOK
  <2>3. CASE /\ Found(fname') /\ inode' = read_dentry_by_name(fname').inode /\ read_data
             /\ length' = IF inode' < image.num_inodes THEN image.size[inode'] ELSE 0
    <3>1. inode' < image.num_inodes => image.size[inode'] \in Nat
      <4>1. image.num_inodes \in Nat /\ inode' \in Nat
        BY <1>0, <2>1, <2>3, FileSystemAssumption
      <4>2. inode' < image.num_inodes => inode' \in 0 .. image.num_inodes - 1
        BY <4>1
      <4> QED
        BY <1>0, <4>2, FileSystemAssumption
    <3> QED
      BY <1>2, <2>1, <2>3, <3>1
  <2> QED
    BY <1>4, <2>2, <2>3 DEF fs_load
<1> QED
  BY <1>3, <1>4

\* The loop condition fails: all that was asked for has been delivered.
LEMMA DoneStep == IInv /\ loop_done => IInv'
<1> SUFFICES ASSUME IInv, loop_done PROVE IInv'
  OBVIOUS
<1>1. pc = "loop" /\ Ends(total_successful_reads) /\ pc' = "done"
  BY DEF loop_done, Ends, return, args, loop
<1>2. TypeOK' /\ LoopInv' /\ BufferIsFile'
  BY <1>1 DEF IInv, TypeOK, loop_done, return, args, loop, LoopInv, BufferIsFile
<1> DEFINE n == total_successful_reads
<1>3. /\ n \in Nat /\ length \in Nat /\ offset \in Nat /\ Size \in Nat
      /\ FS_PAGE_SIZE \in Nat /\ FS_PAGE_SIZE > 0
      /\ Position = offset + n /\ Position <= Size /\ cur_data_block \in Nat
      /\ offset \div FS_PAGE_SIZE <= cur_data_block /\ GoodUpTo(cur_data_block)
  BY <1>1, LoopFacts DEF Position, IInv, TypeOK
<1>4. n <= length /\ n >= length
  BY <1>1 DEF IInv, LoopInv, loop_done
<1>5. n = length /\ WantedOf(offset, length, Size) = n
  BY <1>3, <1>4 DEF WantedOf
<1>6. LastOf(offset, length, n) <= cur_data_block
  <2>1. CASE n = 0
    <3>1. offset + 0 = offset
      BY <1>3
    <3> QED
      BY <1>3, <2>1, <3>1 DEF LastOf
  <2>2. CASE n # 0
    <3>1. LastOf(offset, length, n) = (offset + n - 1) \div FS_PAGE_SIZE
      BY <1>3, <1>5, <2>2 DEF LastOf
    <3>2. /\ location_in_block \in Nat /\ location_in_block <= FS_PAGE_SIZE
          /\ offset + n = cur_data_block * FS_PAGE_SIZE + location_in_block
      BY <1>1, <1>3 DEF IInv, TypeOK, LoopInv
    <3>3. /\ offset + n - 1 <= cur_data_block * FS_PAGE_SIZE + (FS_PAGE_SIZE - 1)
          /\ offset + n - 1 \in Nat /\ cur_data_block * FS_PAGE_SIZE + (FS_PAGE_SIZE - 1) \in Nat
      <4>1. cur_data_block * FS_PAGE_SIZE \in Nat
        BY <1>3
      <4> QED
        BY <1>3, <2>2, <3>2, <4>1
    <3>4. (cur_data_block * FS_PAGE_SIZE + (FS_PAGE_SIZE - 1)) \div FS_PAGE_SIZE = cur_data_block
      <4>1. FS_PAGE_SIZE - 1 \in 0 .. FS_PAGE_SIZE - 1
        BY <1>3
      <4> QED
        BY <1>3, <4>1, BlockAndLocation
    <3>5. (offset + n - 1) \div FS_PAGE_SIZE
            <= (cur_data_block * FS_PAGE_SIZE + (FS_PAGE_SIZE - 1)) \div FS_PAGE_SIZE
      BY <1>3, <3>3, LaterBlock
    <3> QED
      BY <3>1, <3>4, <3>5
  <2> QED
    BY <2>1, <2>2
<1>7. LastOf(offset, length, n) \in Int /\ offset \div FS_PAGE_SIZE \in Int
  BY <1>3 DEF LastOf
<1>8. GoodUpTo(LastOf(offset, length, n))
  BY <1>3, <1>6, <1>7 DEF GoodUpTo
<1>9. ReadExact'
  BY <1>1, <1>5, <1>8, EndsWell
<1> QED
  BY <1>2, <1>9 DEF IInv

\* The next block is bad, and it is one that the read has to look at.
LEMMA BadBlockStep == IInv /\ loop_bad_block => IInv'
<1> SUFFICES ASSUME IInv, loop_bad_block PROVE IInv'
  OBVIOUS
<1>1. pc = "loop" /\ Ends(-1) /\ pc' = "done"
  BY DEF loop_bad_block, Ends, return, args
<1>0. Block \in Nat
  BY <1>1, LoopFacts
<1>2. TypeOK' /\ LoopInv' /\ BufferIsFile'
  BY <1>0, <1>1 DEF IInv, TypeOK, loop_bad_block, return, args, LoopInv, BufferIsFile
<1> DEFINE n == total_successful_reads
<1> DEFINE w == WantedOf(offset, length, Size)
<1>3. /\ n \in Nat /\ length \in Nat /\ offset \in Nat /\ Size \in Nat
      /\ FS_PAGE_SIZE \in Nat /\ FS_PAGE_SIZE > 0
      /\ Position = offset + n /\ Position \in Nat /\ Position <= Size /\ offset <= Position
      /\ Block = Position \div FS_PAGE_SIZE
      /\ image.num_datablocks \in Nat /\ image.data_blocks[inode][Block] \in Nat
  BY <1>1, LoopFacts DEF Position
<1>4. n < length /\ ~ (image.data_blocks[inode][Block] < image.num_datablocks)
  BY <1>3 DEF loop_bad_block
<1>5. /\ w \in Nat /\ offset <= Size /\ Position <= offset + w
      /\ Position = offset + w => length > w
  BY <1>3, <1>4 DEF WantedOf
<1> HIDE DEF w
<1>6. Block <= LastOf(offset, length, w)
  BY <1>3, <1>5, UpToLast DEF w
<1>7. offset \div FS_PAGE_SIZE <= Block
  BY <1>3, LaterBlock
<1>8. LastOf(offset, length, w) \in Int /\ offset \div FS_PAGE_SIZE \in Int
  BY <1>3, <1>5 DEF LastOf
<1>9. ~ GoodUpTo(LastOf(offset, length, w))
  <2>1. Block \in offset \div FS_PAGE_SIZE .. LastOf(offset, length, w)
    BY <1>0, <1>6, <1>7, <1>8
  <2> QED
    BY <1>4, <2>1 DEF GoodUpTo
<1>10. ReadExact'
  BY <1>1, <1>9, EndsBadly DEF w
<1> QED
  BY <1>2, <1>10 DEF IInv

\* The end of the file comes before all that was asked for.
LEMMA EndOfFileStep == IInv /\ loop_end_of_file => IInv'
<1> SUFFICES ASSUME IInv, loop_end_of_file PROVE IInv'
  OBVIOUS
<1>1. pc = "loop" /\ Ends(total_successful_reads) /\ pc' = "done" /\ GoodBlock /\ EndOfFile
      /\ total_successful_reads < length
  BY DEF loop_end_of_file, Ends, return, args
<1> DEFINE n == total_successful_reads
<1>2. /\ n \in Nat /\ length \in Nat /\ offset \in Nat /\ Size \in Nat
      /\ Position = offset + n /\ Position <= Size
      /\ Block \in 0 .. NUM_BLOCKS /\ Block = Position \div FS_PAGE_SIZE
      /\ image.data_blocks[inode][Block] \in Nat /\ FS_PAGE_SIZE \in Nat
      /\ GoodUpTo(Block)
  BY <1>1, LoopFacts, GoodSoFar DEF Position
<1>3. Addr \in Nat /\ Block \in Nat
  BY <1>2 DEF Addr, IInv, TypeOK
<1>4. TypeOK' /\ LoopInv' /\ BufferIsFile'
  <2>1. TypeOK'
    BY <1>1, <1>3 DEF IInv, TypeOK, loop_end_of_file, args
  <2> QED
    BY <1>1, <2>1 DEF LoopInv, BufferIsFile
<1>5. n = Size - offset
  BY <1>1, <1>2 DEF EndOfFile, Size
<1>6. WantedOf(offset, length, Size) = n
  BY <1>1, <1>2, <1>5 DEF WantedOf
<1>7. LastOf(offset, length, n) = Block
  BY <1>1, <1>2 DEF LastOf
<1>8. ReadExact'
  BY <1>1, <1>2, <1>6, <1>7, EndsWell
<1> QED
  BY <1>4, <1>8 DEF IInv

\* One byte is copied, and it is the next one of the file.
LEMMA ByteStep == IInv /\ loop_byte => IInv'
<1> SUFFICES ASSUME IInv, loop_byte PROVE IInv'
  OBVIOUS
<1> DEFINE n == total_successful_reads
<1> DEFINE loc == IF EndOfBlock THEN 0 ELSE location_in_block
<1>1. /\ pc = "loop" /\ pc' = "loop" /\ GoodBlock /\ n < length /\ ~ EndOfFile
      /\ buf' = Append(buf, Addr) /\ location_in_block' = loc + 1
      /\ cur_data_block' = Block /\ read_addr' = Addr + 1 /\ n' = n + 1
      /\ UNCHANGED <<image, op, fname, inode, offset, length, retval>>
  BY DEF loop_byte, OneMore, args
<1>2. /\ n \in Nat /\ length \in Nat /\ offset \in Nat /\ Size \in Nat
      /\ FS_PAGE_SIZE \in Nat /\ FS_PAGE_SIZE > 0
      /\ Position = offset + n /\ Position \in Nat
      /\ Block \in 0 .. NUM_BLOCKS /\ Block = Position \div FS_PAGE_SIZE
      /\ loc = Position % FS_PAGE_SIZE /\ Position = Block * FS_PAGE_SIZE + loc
      /\ image.data_blocks[inode][Block] \in Nat
      /\ Addr = FileByte(Position)
  BY <1>1, LoopFacts DEF Position
<1>3. GoodUpTo(Block) /\ offset \div FS_PAGE_SIZE <= Block
  BY <1>1, GoodSoFar
<1>5. Addr = image.data_blocks[inode][Block] * FS_PAGE_SIZE + loc
  BY <1>2 DEF FileByte
<1>n. FS_PAGE_SIZE \in Nat /\ FS_PAGE_SIZE > 0 /\ Position \in Nat /\ loc = Position % FS_PAGE_SIZE
  BY <1>2
<1> HIDE DEF loc
<1>4. loc \in 0 .. FS_PAGE_SIZE - 1
  <2>1. Position % FS_PAGE_SIZE \in 0 .. FS_PAGE_SIZE - 1
    BY <1>n, SplitPosition
  <2> QED
    BY <1>n, <2>1
<1>6. Addr \in Nat
  <2>1. image.data_blocks[inode][Block] * FS_PAGE_SIZE \in Nat
    BY <1>2
  <2> QED
    BY <1>4, <1>5, <1>n, <2>1
<1>7. TypeOK'
  BY <1>1, <1>2, <1>4, <1>6 DEF IInv, TypeOK
<1>8. /\ buf \in Seq(Nat) /\ n = Len(buf)
      /\ Found(fname) /\ inode < image.num_inodes /\ offset < Size
  BY <1>1 DEF IInv, TypeOK, LoopInv, Size
<1>9. Len(buf') = n + 1 /\ buf'[n + 1] = Addr /\ \A i \in 1 .. n : buf'[i] = buf[i]
  BY <1>1, <1>6, <1>8
<1>10. Position' = Position + 1 /\ Position + 1 <= Size
  <2>1. /\ n \in Nat /\ offset \in Nat /\ Size \in Nat /\ Position = offset + n
        /\ n' = n + 1 /\ offset' = offset
    BY <1>1, <1>2
  <2>2. ~ (n + offset >= Size)
    BY <1>1 DEF EndOfFile, Size
  <2>3. Position' = offset' + n'
    BY DEF Position
  <2> QED
    BY <2>1, <2>2, <2>3
<1>11. LoopInv'
  <2>1. Found(fname)'
    BY <1>1, <1>8 DEF Found, Matching, Matches, Characters
  <2>2. /\ inode' < image'.num_inodes /\ offset' < image'.size[inode']
        /\ n' = Len(buf') /\ n' <= length' /\ Position' <= image'.size[inode']
    <3>1. Size' = Size /\ n' = Len(buf') /\ inode' < image'.num_inodes /\ offset' < Size'
      BY <1>1, <1>8, <1>9 DEF Size
    <3>2. n' <= length'
      BY <1>1, <1>2
    <3>3. Position' <= Size'
      BY <1>10, <3>1
    <3> QED
      BY <3>1, <3>2, <3>3 DEF Size
  <2>3. location_in_block' <= FS_PAGE_SIZE
    BY <1>1, <1>2, <1>4
  <2>4. Position' = cur_data_block' * FS_PAGE_SIZE + location_in_block'
    <3>1. Block * FS_PAGE_SIZE \in Nat
      BY <1>2
    <3> QED
      BY <1>1, <1>2, <1>4, <1>10, <3>1
  <2>5. read_addr' = image'.data_blocks[inode'][cur_data_block'] * FS_PAGE_SIZE + location_in_block'
    <3> DEFINE start == image.data_blocks[inode][Block] * FS_PAGE_SIZE
    <3>1. start \in Nat /\ Addr = start + loc
      BY <1>2, <1>5
    <3>2. image'.data_blocks[inode'][cur_data_block'] * FS_PAGE_SIZE = start
      BY <1>1
    <3>3. read_addr' = Addr + 1 /\ location_in_block' = loc + 1
      BY <1>1
    <3> HIDE DEF start
    <3> QED
      BY <1>4, <1>n, <3>1, <3>2, <3>3
  <2>6. offset' \div FS_PAGE_SIZE <= cur_data_block'
    BY <1>1, <1>3
  <2>7. AllGood(Blocks(offset \div FS_PAGE_SIZE, cur_data_block))'
    BY <1>1, <1>3 DEF GoodUpTo, AllGood, Blocks
  <2> QED
    BY <2>1, <2>2, <2>3, <2>4, <2>5, <2>6, <2>7 DEF LoopInv
<1>12. BufferIsFile'
  <2>1. \A k : FileByte(k)' = FileByte(k)
    BY <1>1 DEF FileByte
  <2>2. \A i \in 1 .. n : buf[i] = FileByte(offset + i - 1)
    BY <1>1, <1>8 DEF IInv, BufferIsFile
  <2>3. offset + (n + 1) - 1 = Position
    BY <1>2
  <2>4. ASSUME NEW i \in 1 .. n + 1 PROVE buf'[i] = FileByte(offset + i - 1)
    <3>1. CASE i = n + 1
      BY <1>2, <1>9, <2>3, <3>1
    <3>2. CASE i # n + 1
      <4>1. i \in 1 .. n
        BY <1>2, <3>2
      <4> QED
        BY <1>9, <2>2, <4>1
    <3> QED
      BY <3>1, <3>2
  <2>5. Len(buf') <= length /\ offset + Len(buf') <= Size
    BY <1>1, <1>2, <1>9, <1>10
  <2>6. (\A i \in 1 .. Len(buf) : buf[i] = FileByte(offset + i - 1))'
    BY <1>1, <1>9, <2>1, <2>4
  <2> QED
    BY <1>1, <2>5, <2>6 DEF BufferIsFile, Size
<1>13. ReadExact'
  BY <1>1 DEF ReadExact
<1> QED
  BY <1>7, <1>11, <1>12, <1>13 DEF IInv

\* Every step preserves the invariant.
LEMMA NextIInv == IInv /\ [Next]_vars => IInv'
<1> SUFFICES ASSUME IInv, [Next]_vars PROVE IInv'
  OBVIOUS
<1>1. CASE caller_goes_on
  <2>1. pc' = "out"
    BY <1>1 DEF caller_goes_on
  <2>2. TypeOK'
    BY <1>1 DEF caller_goes_on, IInv, TypeOK
  <2>3. LoopInv' /\ BufferIsFile' /\ ReadExact'
    BY <2>1 DEF LoopInv, BufferIsFile, ReadExact
  <2> QED
    BY <2>2, <2>3 DEF IInv
<1>2. CASE UNCHANGED vars
  <2>1. /\ UNCHANGED <<image, pc, op, fname, inode, offset, length, retval>>
        /\ UNCHANGED <<total_successful_reads, location_in_block, cur_data_block, read_addr, buf>>
    BY <1>2 DEF vars, args, loop
  <2>2. TypeOK'
    BY <2>1 DEF IInv, TypeOK
  <2>3. LoopInv'
    BY <2>1 DEF IInv, LoopInv, Position, Found, Matching, Matches, Characters, AllGood, Blocks
  <2>4. BufferIsFile'
    BY <2>1 DEF IInv, BufferIsFile, FileByte
  <2>5. ReadExact'
    <3>1. (LastBlock' = LastBlock) /\ (Wanted' = Wanted)
      BY <2>1 DEF LastBlock, Wanted
    <3>2. Found(fname)' = Found(fname)
      BY <2>1 DEF Found, Matching, Matches, Characters
    <3> QED
      BY <2>1, <3>1, <3>2 DEF IInv, ReadExact, AllGood, Blocks
  <2> QED
    BY <2>2, <2>3, <2>4, <2>5 DEF IInv
<1> QED
  BY <1>1, <1>2, CallStep, DoneStep, BadBlockStep, EndOfFileStep, ByteStep DEF Next

\* The invariant holds in every reachable state.
LEMMA ReadInvariant == Spec => []IInv
BY InitIInv, NextIInv, PTL DEF Spec

\* What read_data() copies into the caller's buffer are the bytes of the file
\* from the offset on, never more than asked for and none behind the end, for
\* every image, block size, offset and length.
THEOREM AlwaysBufferIsFile == Spec => []BufferIsFile
<1>1. IInv => BufferIsFile
  BY DEF IInv
<1> QED
  BY <1>1, ReadInvariant, PTL

\* read_data() returns all that was asked for and is there, and -1 exactly when
\* one of the blocks it looks at is out of range, for every image.
THEOREM AlwaysReadExact == Spec => []ReadExact
<1>1. IInv => ReadExact
  BY DEF IInv
<1> QED
  BY <1>1, ReadInvariant, PTL

-----------------------------------------------------------------------------
(* read_dentry_by_name() *)

\* Comparing the lengths and then that many characters is comparing the names,
\* for a name shorter than the field, although strlen() may run on behind it.
LEMMA MatchIsEquality ==
  ASSUME image \in Images, NEW name, Len(name) \in 1 .. MAX_FILENAME_LENGTH - 1,
         NEW i \in 0 .. MAX_NUM_FS_DENTRIES - 1
  PROVE  Matches(image.dentries[i], name) <=> image.dentries[i].filename = name
<1> DEFINE d == image.dentries[i]
<1> DEFINE f == d.filename
<1>1. i \in DOMAIN image.dentries /\ MAX_FILENAME_LENGTH \in Nat
  BY FileSystemAssumption
<1>2. f \in Seq(Range(f)) /\ Len(f) <= MAX_FILENAME_LENGTH
  BY <1>1, DirectoryAssumption
<1> HIDE DEF f
<1>3. f \in Seq(Range(f) \cup {d.filetype})
  BY <1>2
<1>4. SubSeq(f, 1, Len(f)) = f /\ Len(f) \in Nat
  BY <1>2
<1>5. Len(Append(f, d.filetype)) = Len(f) + 1
  BY <1>3
<1>6. Len(Characters(d)) = Len(name) <=> Len(f) = Len(name)
  BY <1>1, <1>2, <1>4, <1>5 DEF Characters, f
<1>7. Len(f) = Len(name) => Characters(d) = f
  BY <1>1, <1>4 DEF Characters, f
<1>8. Matches(d, name) <=> f = name
  BY <1>4, <1>6, <1>7 DEF Matches
<1> QED
  BY <1>8 DEF f

\* So the entries that match are those with the name, all of them in use.
LEMMA LookupIsListing ==
  ASSUME image \in Images, NEW name, name # NULL, Len(name) \in 1 .. MAX_FILENAME_LENGTH - 1
  PROVE  /\ Found(name) <=> Listed(name)
         /\ Found(name) => read_dentry_by_name(name).filename = name
<1>1. /\ image.num_dentries \in 0 .. MAX_NUM_FS_DENTRIES /\ MAX_NUM_FS_DENTRIES \in Nat
      /\ DOMAIN image.dentries = 0 .. MAX_NUM_FS_DENTRIES - 1
  BY FileSystemAssumption
<1>2. Matching(name) = {i \in 0 .. MAX_NUM_FS_DENTRIES - 1 : image.dentries[i].filename = name}
  BY MatchIsEquality DEF Matching
<1>3. ASSUME NEW i \in 0 .. MAX_NUM_FS_DENTRIES - 1, image.dentries[i].filename = name
      PROVE  i \in 0 .. image.num_dentries - 1
  <2>1. i \in DOMAIN image.dentries /\ name # << >>
    BY <1>1
  <2>2. ~ (i >= image.num_dentries)
    BY <1>3, <2>1, DirectoryAssumption
  <2> QED
    BY <1>1, <2>2
<1>4. Found(name) <=> Listed(name)
  <2>1. 0 .. image.num_dentries - 1 \subseteq 0 .. MAX_NUM_FS_DENTRIES - 1
    BY <1>1
  <2> QED
    BY <1>2, <1>3, <2>1 DEF Found, Listed
<1>5. ASSUME Found(name) PROVE read_dentry_by_name(name).filename = name
  <2>1. Matching(name) \in SUBSET Nat /\ Matching(name) # {}
    BY <1>2, <1>5 DEF Found
  <2>2. Min(Matching(name)) \in Matching(name)
    BY <2>1, MinOfNat
  <2> QED
    BY <1>2, <2>2 DEF read_dentry_by_name
<1> QED
  BY <1>4, <1>5

\* A name is found exactly when an entry in use has it, and what the lookup
\* returns is an entry with that name, for every directory whose unused entries
\* are zero.
THEOREM AlwaysLookupExact == Spec => []LookupExact
<1>1. IInv => LookupExact
  BY LookupIsListing DEF LookupExact, IInv, TypeOK
<1> QED
  BY <1>1, ReadInvariant, PTL

-----------------------------------------------------------------------------
(* The cursor of dir_read() *)

\* What every step relies on: a program inside a call is in a listing, and
\* between listings it has been given nothing.
InCall ==
  \A p \in Lister : listing[p] = "none" => dpc[p] = "user" /\ seen[p] = {}

-----------------------------------------------------------------------------
\* The first inductive invariant of the directory is about calls that do not overlap.  Then one
\* program at most is inside dir_read(), what it tested still holds when it
\* copies the entry, and the register it adds to still equals the cursor.
AloneInCall ==
  \A p, q \in Lister : dpc[p] # "user" /\ dpc[q] # "user" => p = q

TestHolds ==
  \A p \in Lister :
    /\ dpc[p] \in {"copy", "load", "store"} => dir_reads < num_dentries
    /\ dpc[p] = "store" => loaded[p] = dir_reads

EntriesInv ==
  /\ DirectoryTypeOK
  /\ ~ overlapped => EntriesExist /\ AloneInCall /\ TestHolds

\* It holds when the system starts: the cursor is 0, nobody has called.
LEMMA InitEntriesInv == DirectoryInit => EntriesInv
<1> SUFFICES ASSUME DirectoryInit PROVE EntriesInv
  OBVIOUS
<1>1. DirectoryTypeOK
  <2>1. 0 \in 0 .. MaxCursor
    BY CursorAssumption
  <2> QED
    BY <2>1 DEF DirectoryInit, DirectoryTypeOK
<1>2. EntriesExist /\ AloneInCall /\ TestHolds
  BY CursorAssumption DEF DirectoryInit, EntriesExist, AloneInCall, TestHolds
<1> QED
  BY <1>1, <1>2 DEF EntriesInv

\* Every step of dir_read() keeps the types.
LEMMA NextDirectoryTypeOK == DirectoryTypeOK /\ [DirectoryNext]_dir_vars => DirectoryTypeOK'
<1> SUFFICES ASSUME DirectoryTypeOK, [DirectoryNext]_dir_vars PROVE DirectoryTypeOK'
  OBVIOUS
<1> USE CursorAssumption DEF DirectoryTypeOK
<1>1. ASSUME NEW p \in Lister, dir_read(p) PROVE DirectoryTypeOK'
  <2>1. listing' \in [Lister -> {"none", "clean", "disturbed"}]
    BY <1>1 DEF dir_read
  <2>2. overlapped' \in BOOLEAN
    BY <1>1 DEF dir_read
  <2> QED
    BY <1>1, <2>1, <2>2 DEF dir_read
<1>2. ASSUME NEW p \in Lister, dir_read_test(p) PROVE DirectoryTypeOK'
  BY <1>2 DEF dir_read_test, history
<1>3. ASSUME NEW p \in Lister, dir_read_reset(p) PROVE DirectoryTypeOK'
  BY <1>3 DEF dir_read_reset, ResetCursor
<1>4. ASSUME NEW p \in Lister, dir_read_copy(p) PROVE DirectoryTypeOK'
  BY <1>4 DEF dir_read_copy
<1>5. ASSUME NEW p \in Lister, dir_read_load(p) PROVE DirectoryTypeOK'
  BY <1>5 DEF dir_read_load, history
<1>6. ASSUME NEW p \in Lister, dir_read_store(p) PROVE DirectoryTypeOK'
  BY <1>6 DEF dir_read_store, history
<1>7. ASSUME NEW p \in Lister, stop_early(p) PROVE DirectoryTypeOK'
  BY <1>7 DEF stop_early
<1>8. CASE UNCHANGED dir_vars
  BY <1>8 DEF dir_vars, history
<1> QED
  BY <1>1, <1>2, <1>3, <1>4, <1>5, <1>6, <1>7, <1>8 DEF DirectoryNext

\* Every step of dir_read() preserves the first invariant.
LEMMA NextEntriesInv == EntriesInv /\ [DirectoryNext]_dir_vars => EntriesInv'
<1> SUFFICES ASSUME EntriesInv, [DirectoryNext]_dir_vars PROVE EntriesInv'
  OBVIOUS
<1>t. DirectoryTypeOK'
  BY NextDirectoryTypeOK DEF EntriesInv
<1> SUFFICES ASSUME ~ overlapped' PROVE (EntriesExist /\ AloneInCall /\ TestHolds)'
  BY <1>t DEF EntriesInv
<1>o. ~ overlapped
  BY DEF DirectoryNext, dir_read, dir_read_test, dir_read_reset, dir_read_copy,
         dir_read_load, dir_read_store, stop_early, dir_vars, history
<1> USE CursorAssumption, <1>o DEF EntriesInv, DirectoryTypeOK, EntriesExist, AloneInCall, TestHolds
<1>1. ASSUME NEW p \in Lister, dir_read(p)
      PROVE (EntriesExist /\ AloneInCall /\ TestHolds)'
  <2>1. \A q \in Lister : dpc[q] = "user"
    BY <1>1 DEF dir_read
  <2> QED
    BY <1>1, <2>1 DEF dir_read
<1>2. ASSUME NEW p \in Lister, dir_read_test(p)
      PROVE (EntriesExist /\ AloneInCall /\ TestHolds)'
  BY <1>2 DEF dir_read_test, WholeDirectoryRead, history
<1>3. ASSUME NEW p \in Lister, dir_read_reset(p)
      PROVE (EntriesExist /\ AloneInCall /\ TestHolds)'
  BY <1>3 DEF dir_read_reset, ResetCursor
<1>4. ASSUME NEW p \in Lister, dir_read_copy(p)
      PROVE (EntriesExist /\ AloneInCall /\ TestHolds)'
  BY <1>4 DEF dir_read_copy
<1>5. ASSUME NEW p \in Lister, dir_read_load(p)
      PROVE (EntriesExist /\ AloneInCall /\ TestHolds)'
  BY <1>5 DEF dir_read_load, history
<1>6. ASSUME NEW p \in Lister, dir_read_store(p)
      PROVE (EntriesExist /\ AloneInCall /\ TestHolds)'
  BY <1>6 DEF dir_read_store, history
<1>7. ASSUME NEW p \in Lister, stop_early(p)
      PROVE (EntriesExist /\ AloneInCall /\ TestHolds)'
  BY <1>7 DEF stop_early
<1>8. CASE UNCHANGED dir_vars
  BY <1>8 DEF dir_vars, history
<1> QED
  BY <1>1, <1>2, <1>3, <1>4, <1>5, <1>6, <1>7, <1>8 DEF DirectoryNext

\* The cursor, the registers and the listings keep their types.
THEOREM DirectoryTypeCorrect == DirectorySpec => []DirectoryTypeOK
<1>1. EntriesInv => DirectoryTypeOK
  BY DEF EntriesInv
<1> QED
  BY <1>1, InitEntriesInv, NextEntriesInv, PTL DEF DirectorySpec

\* Calls of dir_read() that do not overlap copy only entries that exist, for
\* any number of programs and files.
THEOREM AlwaysEntriesExist == DirectorySpec => []EntriesExist
<1>1. EntriesInv => EntriesExist
  BY DEF EntriesInv, EntriesExist
<1> QED
  BY <1>1, InitEntriesInv, NextEntriesInv, PTL DEF DirectorySpec

-----------------------------------------------------------------------------
\* The second inductive invariant is about an undisturbed listing, after any
\* history of torn increments.  Between listings that were read to the end the
\* cursor is 0, and a clean listing has been given the entries below the cursor.
CursorReset ==
  (\A p \in Lister : listing[p] = "none") /\ ~ abandoned => dir_reads = 0

CleanProgress ==
  \A p \in Lister : listing[p] = "clean" =>
    /\ NobodyElse(p)
    /\ dir_reads <= num_dentries
    /\ dpc[p] \in {"user", "test", "copy", "reset"} => seen[p] = 0 .. dir_reads - 1
    /\ dpc[p] \in {"load", "store"} => seen[p] = 0 .. dir_reads
    /\ dpc[p] \in {"copy", "load", "store"} => dir_reads < num_dentries
    /\ dpc[p] = "store" => loaded[p] = dir_reads
    /\ dpc[p] = "reset" => dir_reads = num_dentries

ListingInv == DirectoryTypeOK /\ InCall /\ CursorReset /\ CleanProgress

\* It holds when the system starts.
LEMMA InitListingInv == DirectoryInit => ListingInv
<1> SUFFICES ASSUME DirectoryInit PROVE ListingInv
  OBVIOUS
<1>1. DirectoryTypeOK
  BY InitEntriesInv DEF EntriesInv
<1>2. InCall /\ CursorReset /\ CleanProgress
  BY DEF DirectoryInit, InCall, CursorReset, CleanProgress
<1> QED
  BY <1>1, <1>2 DEF ListingInv

\* Every step of dir_read() preserves it.
LEMMA NextListingInv == ListingInv /\ [DirectoryNext]_dir_vars => ListingInv'
<1> SUFFICES ASSUME ListingInv, [DirectoryNext]_dir_vars PROVE ListingInv'
  OBVIOUS
<1>t. DirectoryTypeOK'
  BY NextDirectoryTypeOK DEF ListingInv
<1> SUFFICES (InCall /\ CursorReset /\ CleanProgress)'
  BY <1>t DEF ListingInv
<1> USE CursorAssumption
    DEF ListingInv, DirectoryTypeOK, InCall, CursorReset, CleanProgress, NobodyElse
<1>1. ASSUME NEW p \in Lister, dir_read(p)
      PROVE (InCall /\ CursorReset /\ CleanProgress)'
  <2>1. InCall' /\ CursorReset'
    BY <1>1 DEF dir_read
  <2>2. ASSUME NEW q \in Lister, listing'[q] = "clean"
        PROVE q = p /\ \A r \in Lister \ {p} : listing[r] = "none" /\ listing'[r] = "none"
    BY <1>1, <2>2 DEF dir_read
  <2>3. ASSUME listing'[p] = "clean"
        PROVE seen[p] = 0 .. dir_reads - 1 /\ dir_reads <= num_dentries
    <3>1. CASE listing[p] = "none"
      <4>1. dir_reads = 0 /\ seen[p] = {}
        BY <1>1, <2>3, <3>1 DEF dir_read
      <4> QED
        BY <4>1
    <3>2. CASE listing[p] # "none"
      BY <1>1, <2>3, <3>2 DEF dir_read
    <3> QED
      BY <3>1, <3>2
  <2> QED
    BY <1>1, <2>1, <2>2, <2>3 DEF dir_read
<1>2. ASSUME NEW p \in Lister, dir_read_test(p)
      PROVE (InCall /\ CursorReset /\ CleanProgress)'
  BY <1>2 DEF dir_read_test, WholeDirectoryRead, history
<1>3. ASSUME NEW p \in Lister, dir_read_reset(p)
      PROVE (InCall /\ CursorReset /\ CleanProgress)'
  BY <1>3 DEF dir_read_reset, ResetCursor
<1>4. ASSUME NEW p \in Lister, dir_read_copy(p)
      PROVE (InCall /\ CursorReset /\ CleanProgress)'
  BY <1>4 DEF dir_read_copy
<1>5. ASSUME NEW p \in Lister, dir_read_load(p)
      PROVE (InCall /\ CursorReset /\ CleanProgress)'
  BY <1>5 DEF dir_read_load, history
<1>6. ASSUME NEW p \in Lister, dir_read_store(p)
      PROVE (InCall /\ CursorReset /\ CleanProgress)'
  BY <1>6 DEF dir_read_store, history
<1>7. ASSUME NEW p \in Lister, stop_early(p)
      PROVE (InCall /\ CursorReset /\ CleanProgress)'
  BY <1>7 DEF stop_early
<1>8. CASE UNCHANGED dir_vars
  BY <1>8 DEF dir_vars, history
<1> QED
  BY <1>1, <1>2, <1>3, <1>4, <1>5, <1>6, <1>7, <1>8 DEF DirectoryNext

\* A program that lists the directory while nobody else does is given every
\* file before its read returns 0, for any number of programs and files.
THEOREM AlwaysListingComplete == DirectorySpec => ListingComplete
<1>1. ListingInv =>
        [\A p \in Lister : dpc[p] = "reset" /\ dpc'[p] = "user" /\ listing[p] = "clean" =>
           seen[p] = 0 .. num_dentries - 1]_dir_vars
  BY DEF ListingInv, CleanProgress
<1> QED
  BY <1>1, InitListingInv, NextListingInv, PTL DEF DirectorySpec, ListingComplete
=============================================================================
