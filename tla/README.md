# A TLA+ model of the xi391 kernel

xi391 is a small teaching operating system for one x86 processor: three
terminals, a process table with eight slots, preemptive scheduling by the timer,
a read-only file system, a line editor on the keyboard interrupt and a
real-time clock that also repaints the screen. This directory models its kernel
(`src/student-distrib`) and the main user programs (`src/syscalls`, `src/fish`) in
TLA+, checks the models with TLC on small instances and proves with TLAPS, for
every size, that the process management implements a stack of programs per
terminal, that the keyboard driver implements a line editor and delivers whole lines, that
the screen and its cursor follow the line over row ends and scrolling,
that interrupts are neither lost in a controller nor able to break into a system call, that
reads of files are exact and sequential, that the shared flag of the clock and
the shared cursor of the directory work, that commands and their arguments reach
programs as typed and as under the Linux emulation, that `cat` and `ls` print what
they should, and that the list of `fish` holds exactly what was allocated.

    tlc -workers 2 -config MCProcesses.cfg MCProcesses
    tlapm ProcessesProofs.tla        (and TerminalProofs.tla, InterruptsProofs.tla,
                                      FileSystemProofs.tla, ProgramDataProofs.tla,
                                      ProgramsProofs.tla, ConsoleProofs.tla,
                                      ShellProofs.tla)

The proofs of `Terminal`, `Console`, `Shell` and the programs take between 10 and 20 minutes each. The
`USE` line at the head of every proof module lets the provers try a leaf again
with more time, so that a loaded machine does not change the result.

## 1. The system and its parts

| part | code | state | operations | what makes it hard | module |
|---|---|---|---|---|---|
| process table | `syscalls.c` `bootup`, `execute`, `halt` | `running_processes`, PCBs, `kernel_stack_bottom`, `tss.esp0`, page directories, CR3 | start, halt, restart a shell | "who is running" is recorded in five places, written one after the other; `halt` returns through a stack pointer saved long before | `Processes`, `TtyStacks`, `ProcessStacks` |
| scheduler | `scheduler.c` `pit_interruption` | the same, and the saved `ksp_before_change` | switch | may come between any two system calls and inside `read` | `Processes` |
| paging | `paging.c` | the 128 MB entry of each directory | `setup_new_task` | programs are loaded through a virtual address | `Processes` |
| exceptions | `idt.c` `EXCEPTION` | | | print and spin for ever | `Processes` |
| interrupt controllers, gates, wrappers | `i8259.c`, `idt.c`, `interrupthandler.S`, `kernel.c` | masks, in-service bits, interrupt flag, kernel stacks | enable, end of interrupt, enter, leave | handlers nest behind their `sti`; the timer leaves on another stack | `Interrupts` |
| terminal driver | `keyboard.c` | per terminal: line, length, cursor, flags, read lock | one per key, `terminal_read` | the handler edits the line `terminal_read` is copying, with interrupts on | `Terminal`, `LineEditor`, `TerminalLines` |
| screen | `lib.c` | per terminal: output position, start of the command | `putc`, scrolling, `new_line`, cursor | `new_line` runs with interrupts on; redrawing may scroll | `Screen`, `Console` |
| real-time clock | `rtc.c` | rate, flag, video memory | interrupt, read, write | one flag and one rate for all programs | `Rtc` |
| file system | `files.c` | the image (constant), the locals of `read_data` | lookup, read, load | block boundaries, bad blocks, ends of files and names | `FileSystem` |
| directory reads | `files.c` `dir_read` | `dir_reads` | `dir_read` | one cursor for all programs, incremented with interrupts on | `Directory` |
| file descriptors | `syscalls.c` `open`, `close`, `read`, `write` | `fds` of a PCB | the four calls, reset by `execute` | `open` relies on what `close` left; PCBs are reused | `Descriptors` |
| arguments | `syscalls.c` `execute` (parser), `getargs` | locals of `execute`, `argbuf` | parse, launch, `getargs` | uninitialised buffers, boundaries | `Arguments` |
| shell | `ece391shell.c`; `ece391emulate.c` for comparison | the line, the result of `execute` | read, execute, report | results from two sources share one number | `Shell` |
| cat, ls, grep | `ece391cat.c`, `ece391ls.c`, `ece391grep.c`, `ece391support.c` | descriptors, buffers | one per system call | lines across buffer boundaries, failing reads, a cursor other programs left | `UserPrograms`, `Outputs` |
| fish | `fish.c`, `blink.S` | list of blinking characters, frames, screen | one per system call, add, remove, sync, tasklet | two files of different shape read in step; slots linked, unlinked, reused | `Blink`, `Fish`, `Outputs` |
| vidmap, signals | `syscalls.c` | none | return a constant | | not modelled |
| boot code, descriptors, debug macros | `boot.S`, `x86_desc.*`, `debug.h`, `types.h` | constant | | | not modelled |
| other user programs | `src/syscalls` | | the calls they make | | as programs that make any calls |

How the parts interact. `int 0x80` enters through an interrupt gate, so a system
call runs with interrupts off from beginning to end, with one exception: `read()`
executes `sti()` first. Handlers of device interrupts run with interrupts off up to
their final `sti()` or `iret`. Only `terminal_read`, `rtc_read`, `dir_read` and
`read_data`, which are called by `read()`, are therefore interruptible. Every
other handler or system call is one atomic action in the models. The interruptible
functions have one action per statement that touches shared state. Below that
granularity, only `dir_reads++` is split into its load and its store.

The modules rest on each other as follows.

* `Interrupts` justifies that atomicity: it shows under which flag each handler runs,
  and `AlwaysSyscallAtomic` (section 4) that nothing comes between the first and the last
  instruction of a system call other than `read`.
* `OneLeafPerTty` of `Processes` is why `Terminal` has one reader per terminal.
* `EveryTtyRuns` of `Processes` is why the other modules may assume that a process
  inside a `read` is run again and again.
* `Console` is the composition of `Terminal` and `Screen`: every key and read of
  `Terminal` together with the drawing it causes.
* `UserPrograms` and `Fish` run on `Descriptors`: each of their steps is one of its
  system calls. What a read of a file gives is `ReadExact` of `FileSystem`; how the
  directory's cursor moves is `Directory` without another listing.
* `Shell` runs on `Arguments` in the same way.

## 2. The modules

Names follow the code; a saved stack pointer, a page directory or a PCB is
identified by the number of the process it belongs to. A variable commented as
"history" is not in the code: it records what a property speaks about and guards
nothing, except where a named bound says so.

**`Processes`**: `running_processes` is the set of numbers whose bit is set;
`cpu` is the owner of the context the CPU executes; `at` says where each process
is. Actions: `execute(n)`, `halt`, `restart_shell`, `read`, `read_return`,
`exception`, `exception_in_syscall`, `pit_interruption(next)`, and
`enter_first_shell`, the end of `bootup`. `Init` is the state in which `bootup`
executes `sti`; shells 2 and 3 start with EFLAGS 0 and so with interrupts off in
user mode, as the code's hand-made stack frame says. A failing `execute` returns
before it changes anything. Its later `return -1`s cannot happen: they repeat
checks that succeeded. `restart_shell` chooses between a jump to
the shell and a fault, because the code builds the address in an uninitialised
local.

**`TtyStacks`, `ProcessStacks`**: what the process code promises, and the mapping.
A terminal has a stack of programs; `Push`, `Pop` and `Switch` are the only steps.
The stack is read off the bit mask and the parent numbers, its top is the
schedulable process of the terminal, the turn is the terminal of
`current_process_number`.

**`Interrupts`**: two 8259A controllers (external, from how the code programs
them), the rotations of `enable_irq` on sets of bits, and per process the stack
of wrappers that have not returned.

**`Terminal`**: the three rows of `command_buffer` are one block of memory, so an
index outside a row lands in the next. Counters are modulo `WORD`. Keys are
actions under `keyboard_interruption`; a key that changes nothing is a stuttering
step (in `Console` it is `ignored_code`, because it still redraws). `ReadSizes` is what
the programs of each terminal pass to `read`, any integers: neither `read` nor
`terminal_read` looks at the size. A read of no bytes skips the loop, drops the line and leaves
its characters in the row (`unread`); one of more than a row goes on in the next row,
and `read_outside` is where it leaves the block: what lies there is not modelled, and
`lost` ends the behaviour, as it does when a wrapped length hangs `printthebuffer`. `tears` counts
keys that changed something in the middle of a read, which `MaxTears` bounds, and the first read
that went on behind a row. `taken` is the row as a reader found it.
`LineEditor` is the abstract specification, on sequences; `TerminalLines` holds
the refinement mapping.

**`Screen`, `Console`**: positions only. `races` counts how often the place moved
between `new_line`'s test of the row and what it does after it; `MaxRaces` bounds
it. `RowsLost` bounds how far output pushes the start of a command off the screen.

**`Rtc`**: `periodic_flag` is the device's and cleared by reading register C; `irq8`
is the edge it sends when the flag rises. `video_buff` counts contents modulo `Contents`, enough to tell an up to
date screen from an old one. **`FileSystem`**: a byte is identified by its
address, so `buf` shows which bytes were copied. **`Directory`**: `listing` and
`abandoned` record which listings were alone. **`Arguments`**: `localargbuf` starts with arbitrary bytes.

**`Descriptors`**: one process on a disk, a sequence of entries with a name, a type,
a text and the number of bytes in front of its first bad block. Positions are
modulo `POS`. `got` and `failed` record the reads since `open`. `open` compares five characters of
a name with those of stdin and stdout, so all names of `InNames` and `OutNames` open
descriptor 0 or 1 and return 0 (`open_std`). The lookup goes through all `MAX_NUM_FS_DENTRIES` entries,
and one that no file uses has the empty name and, being zero, the type of the clock (`UnusedDentry`).

**`UserPrograms`**: `start` is the shell's `execute` in the PCB of the last program,
which ended with descriptors open; `any_call` is a program that makes any calls.
`upc` is the next system call of `cat`, `ls` or `grep`. `cat` and `ls` are the same
loop over different descriptors. `SearchLines` is the inner loop of `do_one_file`
and `SearchLine` a pass of it,
with its buffer of `BUFSIZE + 1` cells, of which the one behind the bytes read is
uninitialised: `stale` records that it held a newline.

**`Shell`**: the loop of the shell around the actions of `Arguments`, with the status
byte of `halt`; `emulated_args` is the scan of the Linux emulation, which collects
pointers to the words of the same command, and `emulated_getargs` the loop that joins them.

**`Blink`, `Fish`**: `blink_array`, its links and the screen; `Listed` follows the links.
`fish_byte0` to `fish_close1` are the loops of `add_frames`, one read or close each;
`fish_tick` is a read of the clock with the tasklet, `fish_ioctl` one of the three
calls between the loops of `main`. The screen is the terminal's buffer that `vidmap`
gave; how it gets to the display is `Rtc`. `location` is an unsigned short (`SHORT`): far
down a long frame it wraps, and a character that gets location 0 is listed and free at once.
`at_zero` records that. If its structure is given out again the list has no end, and the next tasklet
does not return (`IsEndless`, `fish_spin`).

**`Outputs`**: the two properties that compare what `grep` and `fish` show with the lines of
the texts they read (`LinesOf`).

## 3. The runs

| run | instance | properties | what it shows |
|---|---|---|---|
| `processes` (`MCProcesses.cfg`) | 7 slots, 3 shells | `CurrentEverywhere`, `SavedContexts`, `FamilyTree`, `OneLeafPerTty`, `ImagesIntact`; `ImplementsTtyStacks`; `EveryTtyRuns` | the process table stays consistent, implements a stack of programs per terminal, and every terminal keeps running |
| `terminal` (`MCTerminal.cfg`) | 2 terminals, rows of 3; reads of 3 on one, of 0 and 4 on the other | `LinesWellFormed`, `WholeLineRead`, `NoPhantomAlt`; `OnlyActiveLineChanges` | keys, switches and two readers interleaved |
| `terminal_edit` (`MCTerminalEdit.cfg`) | 1 terminal, row of 3, all editing keys, reads of 0, 1, 3 and 4, one tear | `ImplementsLineEditor`; `ReadCompletes` | the arrays implement an editor of sequences; finished lines are delivered |
| `console` (`MCConsole.cfg`) | 2 terminals, one with a reader, 2 columns, 2 rows, rows of 2, reads of 2, one race | `NothingBelowScreen`, `OutputFollowsLine`; `CursorAtOutput` | lines that wrap and scroll while the terminal is switched under its reader; where the cursor stands. No way back to the first terminal and no other size of a read: the theorems below have them |
| `rtc` (`MCRtc.cfg`) | 3 programs, 2 terminals | `TickBetweenReads`; `SomeReaderReturns`, `ScreenRepainted` | the shared flag and rate |
| `filesystem` (`MCFileSystem.cfg`) | all files of up to 2 blocks of 2 bytes over good and bad blocks | `BufferIsFile`, `ReadExact`, `LookupExact`; `ReadTerminates` | lookup and reads against their definitions |
| `directory` (`MCDirectory.cfg`) | 2 programs, 3 files | `EntriesExist`; `ListingComplete` | one cursor for two listings |
| `programs` (`MCUserPrograms.cfg`) | 5 descriptors; every text of up to 6 bytes, buffers of 3; every pair of frames of up to 3 bytes on a screen of 3 by 3 | `ReadsAreSequential`, `OwnOperations`, `CatCopiesFile`, `LsListsDirectory`, `GrepPrintsMatchingLines`, `FishAnimates`, `BlinksListed` | any sequence of calls; then what cat, ls, grep and fish show for every text |
| `shell` (`MCShell.cfg`) | commands of up to 5 characters | `NameIsFirstWord`, `EmulationAgrees`; `ArgumentsArrive`, `ShellReports` | the parser against a split at the first space, arguments as on Linux, the shell's messages |
| `interrupts` (`MCInterrupts.cfg`) | 2 processes, 4 devices, 3 nested handlers | `NothingHeldUp`, `OnlyHandledDelivered`, `SuspendedInPit`; `EveryRequestDelivered` | boot, nesting and switching |
| `terminal_foreign_read` (`TerminalForeignRead.cfg`) | 2 terminals | `ReaderIsActive` | **violated**: a reader may get past its lock while another terminal is active |
| `terminal_torn_read` (`TerminalTornRead.cfg`) | 1 terminal | `LengthFitsBuffer` | **violated**: BKSP between the two resets of `terminal_read` makes the length wrap |

### Bounds

* `MAX_NUM_OF_PROCESSES = 7` leaves three slots besides the shells: chains of
  three programs on one terminal, one program on each terminal, a full table and
  reuse of slots in any order. The theorems cover all other sizes.
* Rows of 3 hold lines of two characters and their NUL: inserting in front of one,
  removing the first or the last of two, a full line. Reads of 1 byte leave the
  rest of a line behind, reads of 3 take it all, reads of 0 drop it, and reads of 4 take a byte of
  the next row or, in the last row, leave the buffer.
* On a screen of 2 columns and 2 rows a line wraps and scrolls from every starting
  position, and two terminals have different lines and positions to switch
  between. One terminal has a reader, so the other is also seen while its program
  only writes. `MaxRaces = 1` is the first race and what follows it.
* Three programs on the clock: one that has seen the flag, one that has not, and
  one that waits while they take turns.
* Two blocks of two bytes have every kind of offset, length and end: inside a
  block, at its end, in the next one, behind the file. The directory has a name
  that is a prefix of another, one that fills its field, a bad inode and an
  unused entry.
* `MaxCursor` is two above the directory's size; `dir_reads` leaves the directory
  only by a torn increment, and what happens further out repeats.
* `POS = 8` is above every text's size and makes the wrap of a position that
  a failing read decrements visible.
* Texts of 6 bytes and buffers of 3 have lines that end before, at and behind a
  buffer's end, empty lines, lines that fill the buffer, carried-over beginnings,
  and texts that end with and without a newline. `RunsOn` says on which disks each
  program is explored; `AnyFds` keeps arbitrary programs to two descriptors of
  their own, except on a disk with only the clock, where they fill the table.
* Programs also open names that begin like stdin and stdout and the empty name. `MAX_NUM_FS_DENTRIES = 4`
  makes some directories full, in which the empty name is missing, and leaves others with
  an unused entry.
* `SHORT = 10` is just above the 9 places of the screen: with `OFFSET = 4` the third row of a frame wraps, its
  first character to location 0, where the extra character then closes the list to a ring.
* Frames of 3 bytes have lines of different lengths, blanks and empty lines in one or
  both of them, and end in different rows. `WAIT = 5`, `FrameLength = 3`,
  `ExtraOn = 2` and `ExtraOff = 1` put the calls of `main` at different phases of the
  blinking; location `WAIT`, which `main` removes, is a character of some frames, first, last or
  in the middle of the list, and of others none. Lines are no longer than the screen is
  wide, as in the frames that come with the program.
* `FNAME_SIZE = 2` with commands of 5 characters has names below, at and above
  the limit, with and without arguments, one and two arguments, and leading,
  trailing and double spaces; the buffers of `getargs` are empty, too small, exact and
  large enough.
* `MaxDepth = 3` lets each of the three handlers nest in the others.
* `MaxTears` is 0 where the properties speak only of undisturbed reads, so
  that nothing behind the first tear has to be explored.

Deadlock is checked except in `processes`, where an exception inside a system call stops the
machine, and in the runs of `Terminal`, where a wrapped line length does and where a read
that leaves the buffer ends what is modelled.

### Fairness

* `Processes`: strong fairness of the timer, because the 8259 keeps the request
  while interrupts are off and the CPU takes it as soon as they are on; weak
  fairness of the shells' `read`, because the shell is a loop around it and shells
  2 and 3 are preemptible only there.
* `Terminal`, `Rtc`, `FileSystem`: weak fairness of the steps of a process in a
  `read`, which is `EveryTtyRuns`. Nobody has to press a key or call `read`. In `Rtc`
  also of the device and its interrupt. A single reader of the clock may be starved by
  others that reset the flag before it looks; `SomeReaderReturns` is what holds.
* `Interrupts`: the kernel's own steps are weakly fair; delivery of each of the
  three IRQs is strongly fair, since a controller does not forget a request. A device
  may be starved by devices of higher priority, and the property says so.

## 4. What is proved

`ProcessesProofs` proves, for every `MAX_NUM_OF_PROCESSES` and every
`NumShells` with 2 <= `NumShells` < `MAX_NUM_OF_PROCESSES`:

* `TypeCorrect`: `Spec => []TypeOK`, whatever the memory held at power-on;
* `ProcessInvariant`: `Spec => []IInv` when `RamIsZero`;
* from it `AlwaysCurrentEverywhere`, `AlwaysSavedContexts`, `AlwaysFamilyTree`,
  `AlwaysOneLeafPerTty`, `AlwaysImagesIntact`, and the action properties
  `AlwaysIdentityStable` and `AlwaysExecuteReturnsOnHalt`.

The assumptions: `SizesAssumption` (at least two shells, because `execute` names
terminal 1 in a special case, and at least one slot besides them),
`RamAssumption`, `FaultsAssumption` (types of the constants), and `RamIsZero`
where stated: `execute` does not initialise `has_child`, so without it a new process may start
as somebody's parent and never be scheduled again.

None of the invariants is inductive alone. `IInv` is the conjunction of all
eight. `halt` shows why: it clears the bit of `process_number` in the
PCB that `kernel_stack_bottom` selects, which is the running process only by
`CurrentEverywhere` and `Bookkeeping`; it returns to `parent_ksp`, which is the
parent's context by `FamilyTree`; the parent is a leaf afterwards because nobody
else has the same parent, and the only leaf of its terminal because the child
was (`OneLeafPerTty`, and the child's terminal is the parent's by `Bookkeeping`).
That it is not a shell, so that the shells remain, is `ShellsPermanent`. `execute`
needs the converse: the free slot's PCB has no child and no program inside
(`Bookkeeping`), so linking it below the caller moves the leaf of the terminal
from the caller to the new process. The timer needs `SavedContexts`: what it
switches to has a context of its own, and the process switched away from gets one.

The proof has one lemma per kind of step: `LocalStep` for the actions that only move
the running process in its own code, `PitStep`, `ExecuteStep`, `HaltStep`, combined
in `NextIInv`.

It also proves `StacksImplemented`: `Spec => ImplementsTtyStacks` when
`RamIsZero`, for the same constants. The mapping names the top of a stack with
`CHOOSE`, so the argument starts with `ChosenLeaf` and `LeafOnTop`: by `OneLeafPerTty` the chosen
process is the only leaf of its terminal, and a leaf is the top of the stack of its own. By
`LeafOnTopNext` and `TopReplaced`, a step that changes the leaf of one terminal
changes one value of `top`. `ExecutePushes`, `HaltPops` and `PitSwitches` then map each
kind of step, with the facts of `IInv` before and after it; the remaining actions
leave mask, PCBs and process number alone and are stuttering steps.

Two things are shared by all programs without a lock: the flag of the clock and
the cursor of the directory. Of the clock `InterruptsProofs` proves, for any set of
programs and any frequencies they ask for, `RtcTypeCorrect` and `AlwaysTickBetweenReads`. The flag `interrupt_occurred` is shared and
a reader resets it some time after it saw it, so the invariant has two parts: while
the flag is up every program is due for a return, and so is a program between its
test and its reset, even if another one has reset the flag in the meantime.

Of the directory `FileSystemProofs` proves, for any number of programs and files,
`DirectoryTypeCorrect`, `AlwaysEntriesExist` and `AlwaysListingComplete`, from two invariants. The first
speaks of calls that do not overlap: one program at most is inside
`dir_read`, so its test still holds at the copy, and its register equals the cursor at
the store. The second allows any overlap in the past: the cursor is 0 whenever all
listings were read to the end, and an undisturbed listing has been given exactly the
entries below the cursor. `CursorAssumption` puts `MaxCursor` above
`num_dentries`.

Of the handlers `InterruptsProofs` proves, for any set of processes and of devices and any
`MaxDepth`, `AlwaysNothingHeldUp`, `AlwaysOnlyHandledDelivered`,
`AlwaysSuspendedInPit` and `AlwaysSyscallAtomic`. `NothingHeldUp` says too little to be
inductive: the timer handler ends its interrupt and then leaves on the stack of another process. The
strengthening is `ServiceIsTop`: what is in service is exactly what the topmost
wrapper of the current stack has not yet ended. Together with `SuspendedInPit` it
says that a switch finds nothing in service on the stack it goes to. `SyscallAtomic`
is part of the invariant because the last step of a system call turns interrupts on.
The masks come from `RotatedBit`: n rotations of `11111110` clear exactly bit n.
`MasksSoFar` follows them through the boot.

`ProgramDataProofs` proves `AlwaysReadsAreSequential` and `AlwaysOwnOperations` for
any disks, any number of descriptors above 2, any sizes of reads and any `POS`. `open`
does not write the position, so the invariant adds `FreeAtStart`: every descriptor that
`open` may give out has position 0, which `bootup`, `close` and `execute` establish.
`DescriptorsAssumption` says that names are unique and not empty, that no file is named like stdin or stdout (it could
not be opened), and that a text is shorter than `POS - 1`; the code's files have at most 1023 blocks of 4096 bytes and its positions 32 bits.

On top of it, for programs that run one after the other in one PCB and for any size of
their buffers, `ProgramsProofs` proves `AlwaysCatCopiesFile`, `AlwaysLsListsDirectory` and the two properties above
(`ProgramsReadsAreSequential`, `ProgramsOwnOperations`). Every step of a program is a
system call, so `IInv` is kept. `ProgramsInv` adds where the shared cursor may stand
(`CursorInv`), that the descriptor `cat` and `ls` read is open on their own file (`CopyInv`), and
what has been printed: by `cat` the bytes in front of the position, less the piece that is still in
the buffer (`CatInv`), by `ls` the names from `began` to the cursor (`LsInv`). The
position of a file and the bytes printed agree only because `cat` never reads again after a
read that failed: this is where the decremented position would show. Given a name like stdin or
stdout `cat` holds descriptor 0 and every read fills its buffer, so it never ends (`StdinRead`). `GrepInv` bounds how much of
its buffer `grep` carries over, so that its reads are calls with a size that is not negative.
`UserProgramsAssumption` says that the entry "." is the directory and nothing else is.

`AlwaysBlinksListed` is about the linked list of `fish`, for any screen and any
frames. `BlinksListed` follows pointers, so `BlinkInv` states the list as a sequence:
`IsList` says that a sequence without repetition starts at the head, that each element
points to the next and the last to nothing, and that its elements are exactly the structures in
use. In `ProgramDataProofs`, `ListFits` shows that such a sequence is no longer than the array, by the
counting theorems of the library, so the walk of `Listed` reaches its end. Adding puts an
element in front, removing cuts one out, and the tasklet changes neither links nor places. A structure with
location 0 counts as free, so the invariant, like the property, is about the time before a character
was added there (`at_zero`); locations are taken modulo `SHORT`, and frames that stay below it never
ask for location 0, since `OFFSET` is added to rows and columns that are not negative.

`ShellProofs` proves `AlwaysNameIsFirstWord` and `AlwaysArgumentsArrive` of the parser
alone, and of the shell loop around it `ShellNameIsFirstWord`, `ShellArgumentsArrive`,
`AlwaysShellReports` and `AlwaysEmulationAgrees`, for commands, names, buffers and results of any
size. `ArgumentsInv` describes the loop of `execute`: before the first space (`InName`) what was read
is in `fname`; behind it (`InArguments`) the name is complete and what follows is in `localargbuf`, whose other
cells hold anything. `Terminated` says that the two NUL bytes written behind the loop end
exactly these texts, and the last conjunct that the copy in the PCB belongs to
the command that was started and not to one that was refused since. `ShellReports` follows from what
`rval` is in each case: `halt` takes a byte, so a status is neither -1 nor 256.

`AlwaysEmulationAgrees` compares two loops of the emulation with `getargs`. `ArgsAreStarts` shows that the scan of
`ece391_execute` collects the places where words begin, in order; `PieceBounds` and `PieceIs`
that, with one space between words, each word and the space put behind it is a
part of the command and these parts follow each other without a gap; `JoinsParts` that
the buffer therefore holds the command from behind the first space up to the
last word joined, as long as there was room. That is what `getargs` copies, by `ArgumentsInv`. The
recursive functions in these definitions are shown to exist first (`ScansExist`, `JoinsParts`), by
the same induction on a least counterexample as in `ConsoleProofs`.

Of lookups and reads `FileSystemProofs` proves `AlwaysBufferIsFile`, `AlwaysReadExact` and
`AlwaysLookupExact` for any images, block sizes, names, offsets and lengths. `LoopInv`
is the loop invariant of `read_data`: block number, location in the block, address
and bytes copied all describe one position, the location may have reached the end of its block, and the
blocks entered so far are good. `ReadExact` is part of the induction because it speaks
of the step in which the loop ends, and needs `LastBlock` to be the block the loop was in.
`AlwaysLookupExact` rests on `MatchIsEquality` (equal lengths and `strncmp` up to
that length are equality) and on `DirectoryAssumption`: the lookup scans all
`MAX_NUM_FS_DENTRIES` entries and not `num_dentries` of them, so it relies on the entries behind
them being zero, as they are in an image that was written into zeroed blocks. Nothing
else needs this assumption.

`TerminalProofs` proves, for any number of terminals, any row size above 1, any
word with room for the block of rows, any keys and any sizes of reads, negative ones included, `AlwaysLinesWellFormed`, `AlwaysWholeLineRead`, `AlwaysNoPhantomAlt`,
`AlwaysOnlyActiveLineChanges` and `LineEditorImplemented`. The inductive invariant adds
to the properties where each reader is (`IndexInRow`), that a line whose reader has begun to clear it starts
with NUL (in `Lines`: the reset of the length to 0 leaves a well-formed line), and, for a reader that is alone, that what it has copied is the start of the line
and the rest is still there (`Reads`). `WhatKeysChange` says what each key may write and `KeyStep`
that a key which keeps its row well formed keeps the invariant; `ShiftRightRow` and
`ShiftLeftRow` are what the two loops do to a row. The shifts are written as
functions on the block of memory, so what they compute needs no induction.

`LineEditorImplemented` is `Spec /\ [](tears = 0) => ImplementsLineEditor`: each key is the insertion,
deletion, motion or taking of a sequence (`CharacterInserts`, `BackspaceErases`,
`DeleteDeletes`, `ArrowsMove`, `ClearTakes`), the first copy of a read takes the line, and everything else
stutters. `RowIsSequence` reads the text off a row, and `InsertSeq` and `DeleteSeq` compare it with the
concatenations of `LineEditor`. The hypothesis is there because from the first read that a key disturbed or that went on behind a row the mapping counts all lines as taken. With one terminal, as in the run
`terminal_edit`, that is one step of the editor, and the run needs no hypothesis; with several it
is not.

`ConsoleProofs` adds the screen, for any number of rows, columns, terminals and readers.
`ConsoleRefinesTerminal` is `ConsoleSpec => Spec`: a key or a reader with its drawing is a step of `Terminal`,
so what `TerminalProofs` says of the lines holds here too. It needs `Words`: a length that has wrapped hangs the driver
at once, also after disturbed reads, so a code that the driver ignores and that only redraws
the line cannot be the first to find it so; and the characters drawn are always a finite number.
`AlwaysNothingBelowScreen` rests on `ScreenInv`, whose additional part is `RoomBelow`: a
reader of `new_line` that has tested the row still has room for its increment, up to one row
for each race. Without it the increment, which comes steps after the test, could not be
bounded. `AlwaysOutputFollowsLine` and `AlwaysCursorAtOutput` need what `printthebuffer` does to a line of n
characters: `DrawnExists` shows that its recursion defines a function and `WholeLine`, one character at a time, that each character
moves the output by one place relative to the command's start, scrolling included.
Both are inductions on n for a fixed predicate, by `LeastNumber` (the
library's well-founded minimum). `CountLine` shows that the characters printed
are as many as the line is long when the line is well formed, which is where `IInv` of
`TerminalProofs` is used; hence the exceptions of `CursorAtOutput` for a line that is being
taken or was torn, or that has no NUL behind it since a read of no bytes.

Only model-checked:

* every liveness property: liveness under fairness and `ENABLED` are beyond the prover;
* `GrepPrintsMatchingLines`: it compares what `grep` prints with lines that are cut, sorted,
  selected and flattened by operators that take an operator as a parameter or recurse over the
  text, and nothing about those can be proved for every text with the provers used here;
* `FishAnimates`, which compares the screen with rows of both frames selected in the same way.

## 5. Where the code departs from its comments

Two departures have runs of their own (`terminal_foreign_read`,
`terminal_torn_read`). The models reproduce the following ones as well. They are
why some properties carry a condition.

* `execute` never writes `has_child` of the new PCB (hence `RamIsZero`).
* `pit_interruption` passes the outgoing process's terminal to
  `set_process_term_number` (`scheduler.c:119`); nothing reads it.
* `execute` leaves `page_dir_addr`, "the page directory for the current process"
  (`syscalls.c:19`), at an older directory; it is always assigned before it is used.
* A program that raises an exception never dies; `execute` documents
  "256: program dies by an exception" (`syscalls.c:183`), and the shell has a message
  for it that is never printed (`ShellReports`).
* `halt` of a shell may fault instead of restarting it (`syscalls.c:94-98`).
* Ctrl pressed in one terminal and released in another stays on in the first
  (`keyboard.c:140`); `NoPhantomAlt` shows that Alt is not affected.
* `terminal_read` trusts its size. A read of no bytes resets the length and leaves the characters, so the
  next line may have no NUL behind it: the disjuncts with `unread` in `LinesWellFormed`,
  `WholeLineRead` and `CursorAtOutput`. A read of more than a row takes and clears what
  another terminal has typed: it counts as a tear.
* `rtc_read` returns at once when an interrupt came before the call (`rtc.c:94`);
  what holds is `TickBetweenReads`. A program that writes rate 0 stops the
  repainting of the screen (`rtc.c:50`): the condition of `ScreenRepainted`.
* A program that fills the last column of the last row does move the command's
  start (`lib.c:241`). A redraw between `new_line`'s test and its increment
  leaves the row behind the screen: the condition of `NothingBelowScreen`. The cursor is placed before the redraw,
  so it is a row too low when the redraw scrolls: the condition of `CursorAtOutput`.
* `read_dentry_by_name` finds the empty name in an unused entry and does not find
  a name of 32 characters: the condition of `LookupExact`. `fs_load` returns -1 when it
  succeeds (`files.c:156`); its callers ignore it. `read_data` fails on a bad
  block number behind the last block of a file that it reads to the end: `LastBlock`.
* Two programs that list the directory at once share `dir_reads` and miss files,
  and a torn increment may put it behind the directory: the conditions of
  `ListingComplete` and `EntriesExist`.
* `open` takes any name that begins with "stdin" or "stdou" for stdin or stdout and returns 0 for both
  (`syscalls.c:633`, `640`), and opens the empty name as a clock while the directory has an unused
  entry. `cat` therefore copies what is typed, for ever, or ends with status 0 and no output: the first and
  the third case of `CatCopiesFile`.
* A failing `read` subtracts 1 from the position, as `ReadsAreSequential` says.
* A program that gives up in the middle of a listing shortens the next one:
  `LsListsDirectory` counts from where it stopped. `grep` reads the cell behind its
  buffer before it is written, and splits lines longer than the buffer: the conditions of
  `GrepPrintsMatchingLines`.
* Without arguments, old bytes of the kernel stack become arguments: the condition of
  `ArgumentsArrive`. `getargs` accepts a buffer without room for the null byte,
  although it documents -1 when "arguments and a terminal null byte do not fit into
  buffer" (`syscalls.c:785`); the Linux emulation refuses it: the exception in
  `EmulationAgrees`.
* `mp1_ioctl_sync` shows the off character whatever the status, because `cmovl` behind
  `testb` never moves (`blink.S:282`): `FishAnimates` leaves the synchronised character
  open until its next change.
* A frame of more than 818 rows has characters whose location does not fit into the unsigned short of
  `blink.h:7`. The one that wraps to 0 looks free to `mp1_malloc` while it is listed: the conditions of
  `BlinksListed` and `FishAnimates`.

## 6. What is not modelled

* `vidmap`, `set_handler`, `sigreturn`: constants and stubs.
* `mp1_ioctl_find`, `disable_irq`, `delc`, `placec`, `fs_close`, `fs_write`, `execute_test`: no
  caller, or no effect.
* The characters on the screen, `printf`'s formatting and the string helpers beyond
  what lookup and parsing need.
* Boot code, segment descriptors and page permissions, which never change.
* Commands longer than the kernel's argument buffers: `argbuf` has 100 bytes and `execute` copies up to the NUL,
  over the fields of the PCB behind it. `has_child` and `tty_number` are among them, so such a command
  is outside what `OneLeafPerTty` and `FamilyTree` say, not only `ArgumentsArrive`.
* Directory entries with a file type other than 0, 1 and 2, and reads of files and directories
  with a negative size.
* The memory behind `command_buffer`, which a read of more than the rest of it copies and clears; the bytes
  that `cat` gets from stdin, of which only the number is modelled; what a tasklet on a list without an
  end shows.
* The two Shift keys are one key; the scan codes are names.
* The programs `hello`, `pingpong`, `sched`, `sigtest` and `testprint`: they are among the
  programs that make any calls. The messages of the others, other than the shell's.
* Frames with bad blocks, with which `add_frames` would read for ever, and, in the run, frame
  lines longer than the screen is wide, which overlap.
* The emulation beyond the splitting of commands and `ece391_getargs`: it passes calls
  on to Linux.

## 7. Plan

1. The bit operations on `running_processes` against the sets used here.
2. `update_vid` with the buffers of `Console`.
3. A definition of the lines of a text, and of the picture of a frame, without sorting,
   so that `GrepPrintsMatchingLines` and `FishAnimates` come within reach of the provers.
