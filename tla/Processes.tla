----------------------------- MODULE Processes -----------------------------
(***************************************************************************)
(* The process table of the kernel: student-distrib/syscalls.c (bootup,    *)
(* execute, halt and the preemptible part of read), scheduler.c (the timer *)
(* interrupt) and the part of paging.c and interrupthandler.S they call.   *)
(*                                                                         *)
(* One CPU runs one context at a time.  A context is abstracted to the     *)
(* process that owns it: a saved ESP/EBP pair is the owner's number, or    *)
(* NoContext when the pointer no longer designates a frame that can be     *)
(* returned to.  Kernel stacks, page directories and PCBs are addressed by *)
(* the process number the code computes their addresses from.              *)
(*                                                                         *)
(* int 0x80 enters through an interrupt gate, so a system call is one      *)
(* atomic step.  read() is the exception: it executes sti() first.         *)
(***************************************************************************)
EXTENDS Integers

CONSTANTS
  MAX_NUM_OF_PROCESSES,  \* size of the process table, 8 in the code
  NumShells,             \* shells started by bootup, 3 in the code
  RamHasChild,           \* has_child as the RAM under the PCBs holds it at power-on
  FaultySyscalls         \* whether programs pass pointers that fault inside a system call

\* execute() names terminal 1, so there are at least two.
ASSUME SizesAssumption ==
  /\ NumShells \in Nat \ {0, 1}
  /\ MAX_NUM_OF_PROCESSES \in Nat
  /\ NumShells < MAX_NUM_OF_PROCESSES

Slot  == 0 .. MAX_NUM_OF_PROCESSES - 1    \* process 0 is "no process running"
Proc  == 1 .. MAX_NUM_OF_PROCESSES - 1
Shell == 1 .. NumShells
Tty   == 0 .. NumShells - 1
Frame == 1 .. MAX_NUM_OF_PROCESSES        \* 4MB physical pages; page 1 is the kernel's

NoContext == 0
NoDirectory == -1
NotPresent == 0

ASSUME RamAssumption == RamHasChild \in [Slot -> 0 .. 1]
ASSUME FaultsAssumption == FaultySyscalls \in BOOLEAN

\* Emulators start with zeroed memory; hardware does not promise it.
RamIsZero == \A p \in Slot : RamHasChild[p] = 0

VARIABLES
  running_processes,         \* the set of numbers whose bit is set
  current_process_number,
  kernel_stack_bottom,       \* whose kernel stack (and so whose PCB) it points to
  tss_esp0,                  \* whose kernel stack an interrupt from user mode enters
  cr3,                       \* whose page directory translates addresses
  page_dir_addr,             \* the global of syscalls.c
  process_term_number,       \* the static of lib.c
  process_number, parent_process_number, has_child, tty_number,
  parent_ksp,                \* context execute() saved in the child's PCB
  ksp_before_change,         \* context the timer saved in the process's own PCB
  page_directories,          \* frame the 128MB entry of each directory maps
  image,                     \* process whose program each frame was last loaded with
  cpu,                       \* owner of the context the CPU executes
  at,                        \* where each process is in its code
  user_if                    \* the interrupt flag of each process in user mode

globals  == <<running_processes, current_process_number, kernel_stack_bottom,
              tss_esp0, cr3, page_dir_addr, process_term_number>>
pcbs     == <<process_number, parent_process_number, has_child, tty_number,
              parent_ksp, ksp_before_change>>
memory   == <<page_directories, image>>
contexts == <<cpu, at, user_if>>
vars     == <<globals, pcbs, memory, contexts>>

Location == {"free", "boot", "user", "read", "execute", "exception", "frozen"}

-----------------------------------------------------------------------------
(* bootup() *)

\* process_control_block->tty_number = i-1
InitialTty(i) == i - 1

\* The state when bootup() executes sti().  Shell 1 is current, still in
\* kernel code; shells 2.. have a hand-made timer frame on their kernel stack
\* whose EFLAGS are 0.  The ksp of shell 1 points where no frame was pushed.
Init ==
  /\ running_processes = {0} \cup Shell
  /\ current_process_number = 1
  /\ kernel_stack_bottom = 1
  /\ tss_esp0 = 1
  /\ cr3 = 1
  /\ page_dir_addr = NoDirectory
  /\ process_term_number = 0
  /\ process_number = [p \in Slot |-> IF p \in Shell THEN p ELSE 0]
  /\ parent_process_number = [p \in Slot |-> 0]
  /\ has_child = [p \in Slot |-> IF p \in Shell THEN 0 ELSE RamHasChild[p]]
  /\ tty_number = [p \in Slot |-> IF p \in Shell THEN InitialTty(p) ELSE 0]
  /\ parent_ksp = [p \in Slot |-> NoContext]
  /\ ksp_before_change = [p \in Slot |-> IF p \in Shell \ {1} THEN p ELSE NoContext]
  /\ page_directories = [p \in Slot |-> IF p \in Shell THEN p + 1 ELSE NotPresent]
  /\ image = [f \in Frame |-> IF f - 1 \in Shell THEN f - 1 ELSE 0]
  /\ cpu = 1
  /\ at = [p \in Slot |-> IF p = 1 THEN "boot"
                          ELSE IF p \in Shell THEN "user" ELSE "free"]
  /\ user_if = [p \in Slot |-> FALSE]

\* The last call of bootup(): to_the_user_space() turns on IF in the EFLAGS it
\* irets with.
enter_first_shell ==
  /\ at[cpu] = "boot"
  /\ at' = [at EXCEPT ![cpu] = "user"]
  /\ user_if' = [user_if EXCEPT ![cpu] = TRUE]
  /\ UNCHANGED <<globals, pcbs, memory, cpu>>

-----------------------------------------------------------------------------
(* Steps shared by halt(), execute() and pit_interruption() *)

SetKernelStackBottomOnly(p) == kernel_stack_bottom' = p /\ UNCHANGED tss_esp0

\* kernel_stack_bottom = tss.esp0 = _8MB - (_8KB)*p - 4
SetKernelStack(p) == kernel_stack_bottom' = p /\ tss_esp0' = p

\* page_dir_addr = &page_directories[p], then movl to CR3
LoadPageDirectory(p) == page_dir_addr' = p /\ cr3' = p

\* Interrupts reach the CPU: read() and the end of bootup() executed sti(),
\* user code runs with the process's own flag, and exceptions enter through
\* trap gates, which leave that flag alone.
InterruptsOn ==
  \/ at[cpu] \in {"boot", "read"}
  \/ at[cpu] \in {"user", "exception"} /\ user_if[cpu]

-----------------------------------------------------------------------------
(* execute() *)

\* The search of running_processes from bit 0x80 down; no such n when it is full.
OpenProcess(n) ==
  /\ n \in Slot \ running_processes
  /\ \A m \in Slot \ running_processes : n <= m

\* The directory of process p maps 128MB to frame p+1; CR3 is switched to it.
setup_new_task(p) ==
  /\ page_directories' = [page_directories EXCEPT ![p] = p + 1]
  /\ cr3' = p

LoadBeforeSetup(p) == image' = [image EXCEPT ![page_directories[cr3]] = p]

\* fs_load() writes through the directory CR3 selects by then.
fs_load(p) == image' = [image EXCEPT ![page_directories'[cr3']] = p]

LinkWithoutFlag(n) ==
  /\ parent_process_number' = [parent_process_number EXCEPT ![n] = process_number[tss_esp0]]
  /\ tty_number' = [tty_number EXCEPT ![n] = tty_number[tss_esp0]]
  /\ UNCHANGED has_child

\* The caller's PCB is found from ESP, on the stack tss.esp0 selected.  The
\* first branch is the code's "first process" case, running_processes == 0xC0.
LinkToParent(n) ==
  IF running_processes \cup {n} = {0, 1}
  THEN /\ parent_process_number' = [parent_process_number EXCEPT ![n] = 0]
       /\ tty_number' = [tty_number EXCEPT ![n] = 1]
       /\ UNCHANGED has_child
  ELSE /\ parent_process_number' =
            [parent_process_number EXCEPT ![n] = process_number[tss_esp0]]
       /\ has_child' = [has_child EXCEPT ![tss_esp0] = 1]
       /\ tty_number' = [tty_number EXCEPT ![n] = tty_number[tss_esp0]]

\* A call that succeeds.  Every -1 (bad name, not an executable, table full)
\* returns before the first assignment and leaves the state alone.
execute(n) ==
  /\ at[cpu] = "user"
  /\ OpenProcess(n)
  /\ running_processes' = running_processes \cup {n}
  /\ current_process_number' = n
  /\ setup_new_task(n)
  /\ fs_load(n)
  /\ parent_ksp' = [parent_ksp EXCEPT ![n] = cpu]
  /\ LinkToParent(n)
  /\ process_number' = [process_number EXCEPT ![n] = n]
  /\ SetKernelStack(n)
  /\ cpu' = n
  /\ at' = [at EXCEPT ![cpu] = "execute", ![n] = "user"]
  /\ user_if' = [user_if EXCEPT ![n] = TRUE]
  /\ UNCHANGED <<page_dir_addr, process_term_number, ksp_before_change>>

-----------------------------------------------------------------------------
(* halt() *)

\* The process was started by bootup(), not by execute().
IsLastShell(p) == parent_process_number[p] = 0

KeepRunningBit(p) == UNCHANGED running_processes

\* running_processes &= bitmask, with the bit of the process number clear
ClearRunningBit(p) == running_processes' = running_processes \ {process_number[p]}

ClearOwnFlag(p) == has_child' = [has_child EXCEPT ![p] = 0]

\* parent_pcb->has_child = 0
ClearParentFlag(p) == has_child' = [has_child EXCEPT ![parent_process_number[p]] = 0]

\* Return to the parent, from the execute() call that started this process.
halt ==
  LET p == kernel_stack_bottom
      parent == parent_process_number[p]
  IN  /\ at[cpu] = "user"
      /\ ~ IsLastShell(p)
      /\ ClearRunningBit(p)
      /\ current_process_number' = parent
      /\ ClearParentFlag(p)
      /\ LoadPageDirectory(parent)
      /\ SetKernelStack(parent)
      /\ cpu' = parent_ksp[p]
      /\ at' = [at EXCEPT ![cpu] = "free", ![parent_ksp[p]] = "user"]
      /\ UNCHANGED <<process_term_number, process_number, parent_process_number,
                     tty_number, parent_ksp, ksp_before_change, memory, user_if>>

\* halt() of a shell started by bootup: jump to the shell's entry point again.
\* The local entry_point is or-ed into without being initialised, so the jump
\* goes to the shell or to an address that faults.
restart_shell ==
  /\ at[cpu] = "user"
  /\ IsLastShell(kernel_stack_bottom)
  /\ \E where \in {"user", "exception"} : at' = [at EXCEPT ![cpu] = where]
  /\ user_if' = [user_if EXCEPT ![cpu] = TRUE]
  /\ UNCHANGED <<globals, pcbs, memory, cpu>>

-----------------------------------------------------------------------------
(* read(), and exceptions *)

\* read() executes sti() and may wait in the driver with interrupts on.
read ==
  /\ at[cpu] = "user"
  /\ at' = [at EXCEPT ![cpu] = "read"]
  /\ UNCHANGED <<globals, pcbs, memory, cpu, user_if>>

read_return ==
  /\ at[cpu] = "read"
  /\ at' = [at EXCEPT ![cpu] = "user"]
  /\ UNCHANGED <<globals, pcbs, memory, cpu, user_if>>

\* An exception prints a message and spins for ever, with the interrupt flag
\* it found.  The shells of bootup run one known program, which does not fault.
exception ==
  /\ cpu \notin Shell
  /\ at[cpu] \in {"user", "read"}
  /\ at' = [at EXCEPT ![cpu] = "exception"]
  /\ UNCHANGED <<globals, pcbs, memory, cpu, user_if>>

\* The same inside any other system call, which runs with interrupts off.
exception_in_syscall ==
  /\ FaultySyscalls
  /\ cpu \notin Shell
  /\ at[cpu] = "user"
  /\ at' = [at EXCEPT ![cpu] = "frozen"]
  /\ UNCHANGED <<globals, pcbs, memory, cpu, user_if>>

-----------------------------------------------------------------------------
(* pit_interruption() *)

\* Running, not "no process", and a leaf.
Schedulable == {p \in running_processes \ {0} : has_child[p] = 0}

\* Steps of the circular scan that starts at current_process_number + 1.
Distance(p) == (p - current_process_number) % MAX_NUM_OF_PROCESSES

ScanFromOne(p) ==
  /\ p \in Schedulable \ {current_process_number}
  /\ \A q \in Schedulable \ {current_process_number} : p <= q

\* The scan stops at p.  When no p qualifies the handler returns without effect.
NextProcess(p) ==
  /\ p \in Schedulable \ {current_process_number}
  /\ \A q \in Schedulable \ {current_process_number} : Distance(p) <= Distance(q)

ForgetContext(next) ==
  ksp_before_change' = [ksp_before_change EXCEPT ![next] = NoContext]

\* ESP/EBP of the CPU go to the PCB of the current process; the pair saved in
\* next's PCB is used up by returning through it.
SwapContext(next) ==
  ksp_before_change' = [ksp_before_change EXCEPT
                          ![current_process_number] = cpu, ![next] = NoContext]

\* The timer switches to next.  process_control_block still designates the
\* outgoing process when its tty_number is passed to set_process_term_number().
pit_interruption(next) ==
  /\ InterruptsOn
  /\ NextProcess(next)
  /\ SwapContext(next)
  /\ current_process_number' = next
  /\ process_term_number' = tty_number[current_process_number]
  /\ LoadPageDirectory(next)
  /\ SetKernelStack(next)
  /\ cpu' = ksp_before_change[next]
  /\ UNCHANGED <<running_processes, process_number, parent_process_number,
                 has_child, tty_number, parent_ksp, memory, at, user_if>>

-----------------------------------------------------------------------------
Next ==
  \/ enter_first_shell
  \/ \E n \in Slot : execute(n)
  \/ halt
  \/ restart_shell
  \/ read
  \/ read_return
  \/ exception
  \/ exception_in_syscall
  \/ \E next \in Slot : pit_interruption(next)

Spec == Init /\ [][Next]_vars

\* The timer never stops, and the interrupt controller holds its request while
\* IF is 0 and delivers it as soon as IF is 1: strong fairness.  The shell of
\* bootup is a loop around read(), and no kernel path it runs blocks before it.
Fairness ==
  /\ SF_vars(\E next \in Slot : pit_interruption(next))
  /\ WF_vars(enter_first_shell)
  /\ WF_vars(cpu \in Shell /\ read)

FairSpec == Spec /\ Fairness

-----------------------------------------------------------------------------
(* Safety *)

\* Every global, PCB field and table entry of the process code holds a value
\* of its kind: a process number, a terminal, a frame, a flag.
TypeOK ==
  /\ running_processes \in SUBSET Slot
  /\ current_process_number \in Slot
  /\ kernel_stack_bottom \in Slot
  /\ tss_esp0 \in Slot
  /\ cr3 \in Slot
  /\ page_dir_addr \in Slot \cup {NoDirectory}
  /\ process_term_number \in Tty
  /\ process_number \in [Slot -> Slot]
  /\ parent_process_number \in [Slot -> Slot]
  /\ has_child \in [Slot -> 0 .. 1]
  /\ tty_number \in [Slot -> Tty]
  /\ parent_ksp \in [Slot -> Slot]
  /\ ksp_before_change \in [Slot -> Slot]
  /\ page_directories \in [Slot -> Frame \cup {NotPresent}]
  /\ image \in [Frame -> Slot]
  /\ cpu \in Slot
  /\ at \in [Slot -> Location]
  /\ user_if \in [Slot -> BOOLEAN]

\* The five places that say which process is running never disagree, and that
\* process is one the scheduler may choose.  execute(), halt() and the timer
\* each set them by separate assignments, and halt() returns through a stack
\* pointer saved long before: a mismatch would run one process on another's
\* kernel stack or address space.
CurrentEverywhere ==
  /\ cpu = current_process_number
  /\ kernel_stack_bottom = current_process_number
  /\ tss_esp0 = current_process_number
  /\ cr3 = current_process_number
  /\ current_process_number \in Schedulable

\* Whatever the timer may switch to has an unused context of its own saved in
\* its PCB, although execute() and halt() switch without saving one.
SavedContexts ==
  \A p \in Schedulable \ {current_process_number} : ksp_before_change[p] = p

\* A running process that bootup did not start hangs below exactly one running
\* parent, which is inside the execute() that started it and holds the context
\* halt() will return to; has_child says exactly who has such a child.
FamilyTree ==
  /\ \A p \in running_processes \ ({0} \cup Shell) :
       LET parent == parent_process_number[p]
       IN  /\ parent \in running_processes \ {0, p}
           /\ has_child[parent] = 1
           /\ at[parent] = "execute"
           /\ parent_ksp[p] = parent
           /\ \A q \in running_processes \ ({0, p} \cup Shell) :
                parent_process_number[q] # parent
  /\ \A p \in running_processes \ {0} :
       has_child[p] = 1 =>
         \E q \in running_processes \ ({0} \cup Shell) : parent_process_number[q] = p

\* Each terminal has exactly one process that can be scheduled, however
\* programs are started and halted: no terminal is left without a process to
\* run and no two compete for its keyboard line.
OneLeafPerTty ==
  \A t \in Tty :
    /\ \E p \in Schedulable : tty_number[p] = t
    /\ \A p, q \in Schedulable : tty_number[p] = t /\ tty_number[q] = t => p = q

\* Loading a program never overwrites the kernel or the image of a process that
\* is still running, waiting parents included: fs_load() writes at a virtual
\* address, so this depends on which directory CR3 holds at that moment.
ImagesIntact ==
  /\ image[1] = 0
  /\ \A p \in running_processes \ {0} :
       page_directories[p] = p + 1 /\ image[page_directories[p]] = p

\* The shells bootup started never leave the table and stay without parents,
\* so the "first process" case of execute() never applies again.
ShellsPermanent ==
  /\ {0} \cup Shell \subseteq running_processes
  /\ \A p \in Shell : parent_process_number[p] = 0 /\ tty_number[p] = p - 1

\* What the PCBs promise between calls: a running process's PCB carries its own
\* number and its parent's terminal; nobody is inside a free slot, and its PCB
\* says "no child", which execute() relies on because it does not write that field.
Bookkeeping ==
  /\ \A p \in running_processes \ {0} : process_number[p] = p
  /\ \A p \in running_processes \ ({0} \cup Shell) :
       tty_number[p] = tty_number[parent_process_number[p]]
  /\ \A p \in Slot \ running_processes : has_child[p] = 0 /\ at[p] = "free"

-----------------------------------------------------------------------------
(* What a step may never do, and progress *)

\* While a process runs, no system call or switch of any process changes its
\* number, parent or terminal: slots are reused only after halt().
IdentityStable ==
  [][\A p \in (running_processes \cap running_processes') \ {0} :
       /\ process_number'[p] = process_number[p]
       /\ parent_process_number'[p] = parent_process_number[p]
       /\ tty_number'[p] = tty_number[p]]_vars

\* execute() returns to its caller only by halt() of the very process it
\* started: the caller gets the CPU in the step that frees that child's slot.
ExecuteReturnsOnHalt ==
  [][\A p \in Proc : at[p] = "execute" /\ at'[p] # "execute" =>
       \E child \in running_processes \ running_processes' :
         /\ parent_process_number[child] = p
         /\ cpu = child
         /\ cpu' = p]_vars

\* Every terminal gets the CPU again and again, whatever the programs on the
\* other terminals start, halt, read, loop on or raise in user mode, shells that
\* run with interrupts off included, unless an exception inside a system call
\* stops the machine.
EveryTtyRuns ==
  \A t \in Tty : []<>(tty_number[current_process_number] = t \/ at[cpu] = "frozen")
=============================================================================
