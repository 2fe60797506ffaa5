-------------------------- MODULE ProcessesProofs --------------------------
(* Machine-checked safety of the process table, for every table size and    *)
(* every number of shells.                                                  *)
EXTENDS ProcessStacks, TLAPS

\* Every leaf is tried with the SMT solver, then with Zenon, then with more time.
USE SMTT(10), ZenonT(20), SMTT(60)

\* One step of the process code keeps every value within its range.
LEMMA TypeStep ==
  ASSUME TypeOK, [Next]_vars PROVE TypeOK'
<1> USE SizesAssumption DEF TypeOK
<1>1. CASE enter_first_shell
  BY <1>1 DEF enter_first_shell, globals, pcbs, memory, Location
<1>2. ASSUME NEW n \in Slot, execute(n) PROVE TypeOK'
  <2>1. /\ n + 1 \in Frame
        /\ 0 \in Slot
        /\ 1 \in Tty
        /\ page_directories'[cr3'] = n + 1
    BY <1>2 DEF execute, setup_new_task, Slot, Frame, Tty
  <2>2. /\ parent_process_number' \in [Slot -> Slot]
        /\ has_child' \in [Slot -> 0 .. 1]
        /\ tty_number' \in [Slot -> Tty]
    <3>1. CASE running_processes \cup {n} = {0, 1}
      BY <1>2, <2>1, <3>1 DEF execute, LinkToParent
    <3>2. CASE running_processes \cup {n} # {0, 1}
      BY SMTT(20), <1>2, <2>1, <3>2 DEF execute, LinkToParent
    <3> QED
      BY <3>1, <3>2
  <2>3. /\ page_directories' \in [Slot -> Frame \cup {NotPresent}]
        /\ image' \in [Frame -> Slot]
    BY <1>2, <2>1 DEF execute, setup_new_task, fs_load
  <2>4. at' \in [Slot -> Location] /\ user_if' \in [Slot -> BOOLEAN]
    BY <1>2 DEF execute, Location
  <2> QED
    BY <1>2, <2>2, <2>3, <2>4 DEF execute, setup_new_task, SetKernelStack
<1>3. CASE halt
  BY <1>3 DEF halt, ClearRunningBit, ClearParentFlag, LoadPageDirectory,
              SetKernelStack, memory, Location
<1>4. CASE restart_shell
  BY <1>4 DEF restart_shell, globals, pcbs, memory, Location
<1>5. CASE read \/ read_return \/ exception \/ exception_in_syscall
  BY <1>5 DEF read, read_return, exception, exception_in_syscall, globals, pcbs,
              memory, Location
<1>6. ASSUME NEW next \in Slot, pit_interruption(next) PROVE TypeOK'
  <2>1. NoContext \in Slot
    BY DEF NoContext, Slot
  <2> QED
    BY <1>6, <2>1 DEF pit_interruption, SwapContext, LoadPageDirectory,
                      SetKernelStack, memory
<1>7. CASE UNCHANGED vars
  BY <1>7 DEF vars, globals, pcbs, memory, contexts
<1> QED
  BY <1>1, <1>2, <1>3, <1>4, <1>5, <1>6, <1>7 DEF Next

\* Every step of the process code keeps globals, PCB fields and tables within
\* their ranges, whatever the RAM held at power-on.
THEOREM TypeCorrect == Spec => []TypeOK
<1>1. Init => TypeOK
  BY SizesAssumption, RamAssumption
     DEF Init, TypeOK, Slot, Shell, Tty, Frame, Location, NoContext, NoDirectory,
         NotPresent, InitialTty
<1>2. TypeOK /\ [Next]_vars => TypeOK'
  BY TypeStep
<1> QED
  BY <1>1, <1>2, PTL DEF Spec

-----------------------------------------------------------------------------
\* The inductive invariant.  Every part is needed by another: halt() of the
\* current process frees the right slot because of CurrentEverywhere and
\* Bookkeeping, it returns to the right context because of FamilyTree, and the
\* process it makes current is a leaf because nobody else has the same parent.
IInv ==
  /\ TypeOK
  /\ CurrentEverywhere
  /\ SavedContexts
  /\ FamilyTree
  /\ OneLeafPerTty
  /\ ImagesIntact
  /\ ShellsPermanent
  /\ Bookkeeping

\* bootup() establishes the inductive invariant when the RAM was zero.
LEMMA InitIInv ==
  ASSUME RamIsZero, Init PROVE IInv
<1> USE SizesAssumption
<1>1. TypeOK
  BY RamAssumption
     DEF Init, TypeOK, Slot, Shell, Tty, Frame, Location, NoContext, NoDirectory,
         NotPresent, InitialTty
<1>2. Shell \subseteq Slot \ {0} /\ 1 \in Shell
  BY DEF Shell, Slot
<1>3. Schedulable = Shell
  BY <1>2 DEF Init, Schedulable
<1>4. CurrentEverywhere
  BY <1>2, <1>3 DEF Init, CurrentEverywhere
<1>5. SavedContexts
  BY <1>2, <1>3 DEF Init, SavedContexts
<1>6. FamilyTree
  BY <1>2 DEF Init, FamilyTree
<1>7. OneLeafPerTty
  <2>1. ASSUME NEW t \in Tty
        PROVE  /\ \E p \in Shell : tty_number[p] = t
               /\ \A p, q \in Shell : tty_number[p] = t /\ tty_number[q] = t => p = q
    <3>1. t + 1 \in Shell /\ tty_number[t + 1] = t
      BY <1>2 DEF Tty, Shell, Init, InitialTty
    <3>2. \A p \in Shell : tty_number[p] = p - 1 /\ p \in Int
      BY <1>2 DEF Shell, Init, InitialTty
    <3> QED
      BY <3>1, <3>2 DEF Tty
  <2> QED
    BY <2>1, <1>3 DEF OneLeafPerTty
<1>8. ImagesIntact
  <2>1. 1 \in Frame /\ 1 - 1 \notin Shell
    BY DEF Frame, Shell
  <2>2. \A p \in Shell : p + 1 \in Frame /\ (p + 1) - 1 = p
    BY DEF Frame, Shell
  <2> QED
    BY <1>2, <2>1, <2>2 DEF Init, ImagesIntact
<1>9. ShellsPermanent
  BY <1>2 DEF Init, ShellsPermanent, InitialTty
<1>10. Bookkeeping
  BY <1>2 DEF Init, Bookkeeping, RamIsZero
<1> QED
  BY <1>1, <1>4, <1>5, <1>6, <1>7, <1>8, <1>9, <1>10 DEF IInv

\* Steps that move only the running process within its own code.
LEMMA LocalStep ==
  ASSUME IInv, UNCHANGED <<globals, pcbs, memory, cpu>>, TypeOK',
         NEW where \in Location, at' = [at EXCEPT ![cpu] = where]
  PROVE  IInv'
<1> USE DEF IInv, globals, pcbs, memory
<1>1. Schedulable' = Schedulable
  BY DEF Schedulable
<1>2. CurrentEverywhere' /\ SavedContexts' /\ OneLeafPerTty'
  BY <1>1 DEF CurrentEverywhere, SavedContexts, OneLeafPerTty
<1>3. ImagesIntact' /\ ShellsPermanent' /\ Bookkeeping'
  <2>1. \A p \in Slot \ running_processes : at'[p] = at[p]
    BY DEF CurrentEverywhere, Schedulable, TypeOK
  <2> QED
    BY <2>1 DEF ImagesIntact, ShellsPermanent, Bookkeeping
<1>4. FamilyTree'
  <2>1. \A p \in Slot : has_child[p] = 1 => at'[p] = at[p]
    BY DEF CurrentEverywhere, Schedulable, TypeOK
  <2> QED
    BY <2>1 DEF FamilyTree, TypeOK
<1> QED
  BY <1>2, <1>3, <1>4

\* The timer exchanges the saved context of the current process and of the one
\* it switches to, both leaves of their terminals.
LEMMA PitStep ==
  ASSUME IInv, TypeOK', NEW next \in Slot, pit_interruption(next)
  PROVE  IInv'
<1> USE DEF IInv
<1>1. /\ next \in Schedulable \ {current_process_number}
      /\ ksp_before_change[next] = next
      /\ UNCHANGED <<running_processes, process_number, parent_process_number,
                     has_child, tty_number, parent_ksp, page_directories, image, at>>
  BY DEF pit_interruption, NextProcess, SavedContexts, memory
<1>2. Schedulable' = Schedulable
  BY <1>1 DEF Schedulable
<1>3. CurrentEverywhere'
  BY <1>1, <1>2 DEF CurrentEverywhere, pit_interruption, LoadPageDirectory, SetKernelStack
<1>4. SavedContexts'
  BY <1>1, <1>2 DEF SavedContexts, CurrentEverywhere, pit_interruption, SwapContext, TypeOK,
                    Schedulable
<1>5. OneLeafPerTty'
  BY <1>1, <1>2 DEF OneLeafPerTty
<1>6. FamilyTree' /\ ImagesIntact' /\ ShellsPermanent' /\ Bookkeeping'
  BY <1>1 DEF FamilyTree, ImagesIntact, ShellsPermanent, Bookkeeping
<1> QED
  BY <1>3, <1>4, <1>5, <1>6

\* execute() replaces the current process by a child of it as the leaf of their
\* terminal.
LEMMA ExecuteStep ==
  ASSUME IInv, TypeOK', NEW n \in Slot, execute(n)
  PROVE  IInv'
<1> DEFINE c == current_process_number
<1> USE DEF IInv
<1>1. /\ n \notin running_processes
      /\ n # 0
      /\ n \notin Shell
      /\ has_child[n] = 0
  BY DEF execute, OpenProcess, ShellsPermanent, Bookkeeping
<1>2. /\ c \in running_processes \ {0}
      /\ c \in Slot
      /\ n # c
      /\ has_child[c] = 0
      /\ process_number[c] = c
      /\ cpu = c /\ tss_esp0 = c
  BY <1>1 DEF CurrentEverywhere, Schedulable, Bookkeeping, TypeOK
<1>3. running_processes \cup {n} # {0, 1}
  <2>1. 1 \in Shell
    BY SizesAssumption DEF Shell
  <2> QED
    BY <1>1, <2>1 DEF ShellsPermanent
<1>4. /\ running_processes' = running_processes \cup {n}
      /\ current_process_number' = n
      /\ cpu' = n /\ cr3' = n /\ kernel_stack_bottom' = n /\ tss_esp0' = n
      /\ parent_process_number' = [parent_process_number EXCEPT ![n] = c]
      /\ has_child' = [has_child EXCEPT ![c] = 1]
      /\ tty_number' = [tty_number EXCEPT ![n] = tty_number[c]]
      /\ parent_ksp' = [parent_ksp EXCEPT ![n] = c]
      /\ process_number' = [process_number EXCEPT ![n] = n]
      /\ page_directories' = [page_directories EXCEPT ![n] = n + 1]
      /\ image' = [image EXCEPT ![page_directories'[n]] = n]
      /\ at' = [at EXCEPT ![c] = "execute", ![n] = "user"]
      /\ ksp_before_change' = ksp_before_change
  BY <1>2, <1>3 DEF execute, setup_new_task, fs_load, LinkToParent, SetKernelStack
<1>5. Schedulable' = (Schedulable \ {c}) \cup {n}
  BY <1>1, <1>2, <1>4 DEF Schedulable, TypeOK
<1>6. CurrentEverywhere'
  BY <1>4, <1>5 DEF CurrentEverywhere
<1>7. SavedContexts'
  BY <1>4, <1>5 DEF SavedContexts
<1>8. OneLeafPerTty'
  <2>1. \A p \in Schedulable \ {c} : tty_number'[p] = tty_number[p] /\ p \in Slot
    BY <1>1, <1>4 DEF Schedulable, TypeOK
  <2>2. tty_number'[n] = tty_number[c] /\ c \in Schedulable
    BY <1>4 DEF TypeOK, CurrentEverywhere
  <2> QED
    BY <1>5, <2>1, <2>2 DEF OneLeafPerTty
<1>9. ImagesIntact'
  <2>1. n + 1 \in Frame /\ n + 1 # 1 /\ page_directories'[n] = n + 1
    BY <1>1, <1>4, SizesAssumption DEF Slot, Frame, TypeOK
  <2>2. \A p \in running_processes \ {0} : p \in Slot /\ p + 1 # n + 1 /\ p # n
    BY <1>1 DEF TypeOK, Slot
  <2>3. image' = [image EXCEPT ![n + 1] = n]
    BY <1>4, <2>1
  <2>4. image'[1] = 0 /\ image'[n + 1] = n
    BY <2>1, <2>3, SizesAssumption DEF ImagesIntact, TypeOK, Frame
  <2>5. ASSUME NEW p \in running_processes \ {0}
        PROVE  page_directories'[p] = p + 1 /\ image'[p + 1] = p
    <3>1. page_directories'[p] = p + 1
      BY <1>4, <2>2 DEF ImagesIntact, TypeOK
    <3>2. p + 1 \in Frame /\ p + 1 # n + 1
      BY <2>2, SizesAssumption DEF TypeOK, Slot, Frame
    <3>3. image[p + 1] = p
      BY DEF ImagesIntact
    <3> QED
      BY <3>1, <3>2, <3>3, <2>3 DEF TypeOK
  <2> QED
    BY <1>4, <2>1, <2>4, <2>5 DEF ImagesIntact
<1>10. ShellsPermanent'
  <2>1. \A p \in Shell : p \in Slot /\ p # n
    BY <1>1, SizesAssumption DEF Shell, Slot
  <2> QED
    BY <1>4, <2>1 DEF ShellsPermanent, TypeOK
<1>11. Bookkeeping'
  <2>1. \A p \in running_processes \ ({0} \cup Shell) :
          /\ p \in Slot /\ p # n
          /\ parent_process_number'[p] = parent_process_number[p]
          /\ parent_process_number[p] \in running_processes
          /\ parent_process_number[p] # n
    BY <1>1, <1>4 DEF FamilyTree, TypeOK
  <2>2. \A p \in running_processes \ ({0} \cup Shell) :
          tty_number'[p] = tty_number'[parent_process_number'[p]]
    BY <1>1, <1>4, <2>1 DEF Bookkeeping, TypeOK
  <2>3. tty_number'[n] = tty_number'[parent_process_number'[n]]
    BY <1>1, <1>2, <1>4 DEF TypeOK
  <2>4. \A p \in running_processes' \ {0} : process_number'[p] = p
    BY <1>4 DEF Bookkeeping, TypeOK
  <2>5. \A p \in Slot \ running_processes' : has_child'[p] = 0 /\ at'[p] = "free"
    BY <1>2, <1>4 DEF Bookkeeping, TypeOK
  <2> QED
    BY <1>4, <2>2, <2>3, <2>4, <2>5 DEF Bookkeeping
<1>12. FamilyTree'
  <2>1. \A p \in running_processes \ ({0} \cup Shell) :
          /\ p \in Slot /\ p # n
          /\ parent_process_number'[p] = parent_process_number[p]
          /\ parent_ksp'[p] = parent_ksp[p]
          /\ parent_process_number[p] \in Slot \ {n, c}
    BY <1>1, <1>2, <1>4 DEF FamilyTree, TypeOK
  <2>2. parent_process_number'[n] = c /\ parent_ksp'[n] = c /\ at'[c] = "execute"
        /\ has_child'[c] = 1
    BY <1>2, <1>4 DEF TypeOK
  <2>3. \A p \in Slot \ {n, c} : has_child'[p] = has_child[p] /\ at'[p] = at[p]
    BY <1>4 DEF TypeOK
  <2>4. ASSUME NEW p \in running_processes' \ ({0} \cup Shell)
        PROVE  LET parent == parent_process_number'[p]
               IN  /\ parent \in running_processes' \ {0, p}
                   /\ has_child'[parent] = 1
                   /\ at'[parent] = "execute"
                   /\ parent_ksp'[p] = parent
                   /\ \A q \in running_processes' \ ({0, p} \cup Shell) :
                        parent_process_number'[q] # parent
    <3>1. CASE p = n
      BY <1>2, <1>4, <2>1, <2>2, <3>1
    <3>2. CASE p # n
      <4>1. p \in running_processes \ ({0} \cup Shell)
        BY <1>4, <3>2
      <4>2. /\ parent_process_number[p] \in running_processes \ {0, p}
            /\ has_child[parent_process_number[p]] = 1
            /\ at[parent_process_number[p]] = "execute"
            /\ parent_ksp[p] = parent_process_number[p]
            /\ \A q \in running_processes \ ({0, p} \cup Shell) :
                 parent_process_number[q] # parent_process_number[p]
        BY <4>1 DEF FamilyTree
      <4>3. \A q \in running_processes' \ ({0, p} \cup Shell) :
              parent_process_number'[q] # parent_process_number[p]
        BY <1>4, <2>1, <2>2, <4>1, <4>2
      <4>4. /\ parent_process_number'[p] = parent_process_number[p]
            /\ parent_ksp'[p] = parent_ksp[p]
            /\ has_child'[parent_process_number[p]] = 1
            /\ at'[parent_process_number[p]] = "execute"
        BY <2>1, <2>3, <4>1, <4>2
      <4>5. parent_process_number[p] \in running_processes' \ {0, p}
        BY <1>4, <4>2
      <4> QED
        BY <4>2, <4>3, <4>4, <4>5
    <3> QED
      BY <3>1, <3>2
  <2>5. ASSUME NEW p \in running_processes' \ {0}, has_child'[p] = 1
        PROVE  \E q \in running_processes' \ ({0} \cup Shell) :
                 parent_process_number'[q] = p
    <3>1. CASE p = c
      BY <1>1, <1>4, <2>2, <3>1
    <3>2. CASE p # c
      <4>1. p # n /\ p \in running_processes /\ p \in Slot
        BY <1>1, <1>2, <1>4, <2>5 DEF TypeOK
      <4> QED
        BY <1>4, <2>1, <2>3, <2>5, <3>2, <4>1 DEF FamilyTree
    <3> QED
      BY <3>1, <3>2
  <2> QED
    BY <2>4, <2>5 DEF FamilyTree
<1> QED
  BY <1>6, <1>7, <1>8, <1>9, <1>10, <1>11, <1>12

\* halt() makes the parent the leaf of the terminal again.
LEMMA HaltStep ==
  ASSUME IInv, TypeOK', halt
  PROVE  IInv'
<1> DEFINE c == current_process_number
           parent == parent_process_number[c]
<1> USE DEF IInv
<1>1. /\ c \in running_processes \ {0}
      /\ c \in Slot
      /\ has_child[c] = 0
      /\ process_number[c] = c
      /\ cpu = c /\ kernel_stack_bottom = c
  BY DEF CurrentEverywhere, Schedulable, Bookkeeping, TypeOK
<1>2. c \notin Shell
  BY <1>1 DEF halt, IsLastShell, ShellsPermanent
<1>3. /\ parent \in running_processes \ {0, c}
      /\ parent \in Slot
      /\ has_child[parent] = 1
      /\ parent_ksp[c] = parent
      /\ \A q \in running_processes \ ({0, c} \cup Shell) :
           parent_process_number[q] # parent
      /\ tty_number[c] = tty_number[parent]
  BY <1>1, <1>2 DEF FamilyTree, Bookkeeping, TypeOK
<1>4. /\ running_processes' = running_processes \ {c}
      /\ current_process_number' = parent
      /\ cpu' = parent /\ cr3' = parent
      /\ kernel_stack_bottom' = parent /\ tss_esp0' = parent
      /\ has_child' = [has_child EXCEPT ![parent] = 0]
      /\ at' = [at EXCEPT ![c] = "free", ![parent] = "user"]
      /\ UNCHANGED <<process_number, parent_process_number, tty_number, parent_ksp,
                     ksp_before_change, page_directories, image>>
  BY <1>1, <1>3 DEF halt, ClearRunningBit, ClearParentFlag, LoadPageDirectory,
                    SetKernelStack, memory
<1>5. \A p \in Slot \ {parent} : has_child'[p] = has_child[p]
  BY <1>4 DEF TypeOK
<1>6. has_child'[parent] = 0
  BY <1>3, <1>4 DEF TypeOK
<1>7. Schedulable' = (Schedulable \ {c}) \cup {parent}
  BY <1>3, <1>4, <1>5, <1>6 DEF Schedulable, TypeOK
<1>8. CurrentEverywhere'
  BY <1>4, <1>7 DEF CurrentEverywhere
<1>9. SavedContexts'
  BY <1>4, <1>7 DEF SavedContexts
<1>10. OneLeafPerTty'
  <2>1. c \in Schedulable /\ tty_number' = tty_number
    BY <1>4 DEF CurrentEverywhere
  <2> QED
    BY <1>3, <1>7, <2>1 DEF OneLeafPerTty
<1>11. ImagesIntact'
  BY <1>4 DEF ImagesIntact
<1>12. ShellsPermanent'
  BY <1>1, <1>2, <1>4 DEF ShellsPermanent
<1>13. Bookkeeping'
  <2>1. \A p \in Slot \ running_processes' : at'[p] = "free"
    BY <1>1, <1>3, <1>4 DEF Bookkeeping, TypeOK
  <2> QED
    BY <1>1, <1>3, <1>4, <1>5, <1>6, <2>1 DEF Bookkeeping
<1>14. FamilyTree'
  <2>1. ASSUME NEW p \in running_processes' \ ({0} \cup Shell)
        PROVE  LET pp == parent_process_number'[p]
               IN  /\ pp \in running_processes' \ {0, p}
                   /\ has_child'[pp] = 1
                   /\ at'[pp] = "execute"
                   /\ parent_ksp'[p] = pp
                   /\ \A q \in running_processes' \ ({0, p} \cup Shell) :
                        parent_process_number'[q] # pp
    <3> DEFINE pp == parent_process_number[p]
    <3>1. /\ p \in running_processes \ ({0, c} \cup Shell)
          /\ pp # parent
      BY <1>3, <1>4
    <3>2. /\ pp \in running_processes \ {0, p}
          /\ has_child[pp] = 1
          /\ at[pp] = "execute"
          /\ parent_ksp[p] = pp
          /\ \A q \in running_processes \ ({0, p} \cup Shell) :
               parent_process_number[q] # pp
      BY <3>1 DEF FamilyTree
    <3>3. pp # c /\ pp \in Slot
      BY <1>1, <3>2 DEF TypeOK
    <3>4. has_child'[pp] = 1 /\ at'[pp] = "execute"
      BY <1>4, <1>5, <3>1, <3>2, <3>3 DEF TypeOK
    <3> QED
      BY <1>4, <3>2, <3>3, <3>4
  <2>2. ASSUME NEW p \in running_processes' \ {0}, has_child'[p] = 1
        PROVE  \E q \in running_processes' \ ({0} \cup Shell) :
                 parent_process_number'[q] = p
    <3>1. p # parent /\ p \in running_processes /\ p \in Slot
      BY <1>4, <1>6, <2>2 DEF TypeOK
    <3>2. has_child[p] = 1
      BY <1>5, <2>2, <3>1
    <3>3. PICK q \in running_processes \ ({0} \cup Shell) : parent_process_number[q] = p
      BY <3>1, <3>2 DEF FamilyTree
    <3> QED
      BY <1>4, <3>1, <3>3
  <2> QED
    BY <2>1, <2>2 DEF FamilyTree
<1> QED
  BY <1>8, <1>9, <1>10, <1>11, <1>12, <1>13, <1>14

-----------------------------------------------------------------------------
\* Every step keeps the whole inductive invariant.
LEMMA NextIInv ==
  ASSUME IInv, [Next]_vars PROVE IInv'
<1>1. TypeOK'
  BY TypeStep DEF IInv
<1>2. CASE enter_first_shell
  BY <1>1, <1>2, LocalStep DEF enter_first_shell, Location
<1>3. CASE \E n \in Slot : execute(n)
  BY <1>1, <1>3, ExecuteStep
<1>4. CASE halt
  BY <1>1, <1>4, HaltStep
<1>5. CASE restart_shell
  BY <1>1, <1>5, LocalStep DEF restart_shell, Location
<1>6. CASE read
  BY <1>1, <1>6, LocalStep DEF read, Location
<1>7. CASE read_return
  BY <1>1, <1>7, LocalStep DEF read_return, Location
<1>8. CASE exception
  BY <1>1, <1>8, LocalStep DEF exception, Location
<1>9. CASE exception_in_syscall
  BY <1>1, <1>9, LocalStep DEF exception_in_syscall, Location
<1>10. CASE \E next \in Slot : pit_interruption(next)
  BY <1>1, <1>10, PitStep
<1>11. CASE UNCHANGED vars
  <2>1. Schedulable' = Schedulable
    BY <1>11 DEF vars, globals, pcbs, Schedulable
  <2> QED
    BY <1>1, <1>11, <2>1
       DEF IInv, vars, globals, pcbs, memory, contexts, CurrentEverywhere, SavedContexts,
           FamilyTree, OneLeafPerTty, ImagesIntact, ShellsPermanent, Bookkeeping
<1> QED
  BY <1>2, <1>3, <1>4, <1>5, <1>6, <1>7, <1>8, <1>9, <1>10, <1>11 DEF Next

\* Starting from zeroed RAM the inductive invariant always holds.
THEOREM ProcessInvariant == ASSUME RamIsZero PROVE Spec => []IInv
<1>1. Init => IInv
  BY InitIInv
<1>2. IInv /\ [Next]_vars => IInv'
  BY NextIInv
<1> QED
  BY <1>1, <1>2, PTL DEF Spec

\* The CPU, the two stack registers, the page directory and the process number
\* always designate one process, and the scheduler may choose that process.
THEOREM AlwaysCurrentEverywhere == ASSUME RamIsZero PROVE Spec => []CurrentEverywhere
<1>1. IInv => CurrentEverywhere
  BY DEF IInv
<1> QED
  BY <1>1, ProcessInvariant, PTL

\* The timer never resumes a context that is missing or was already used.
THEOREM AlwaysSavedContexts == ASSUME RamIsZero PROVE Spec => []SavedContexts
<1>1. IInv => SavedContexts
  BY DEF IInv
<1> QED
  BY <1>1, ProcessInvariant, PTL

\* Parents, children and has_child always agree.
THEOREM AlwaysFamilyTree == ASSUME RamIsZero PROVE Spec => []FamilyTree
<1>1. IInv => FamilyTree
  BY DEF IInv
<1> QED
  BY <1>1, ProcessInvariant, PTL

\* However programs are started and halted, every terminal has exactly one
\* process the scheduler may choose.
THEOREM AlwaysOneLeafPerTty == ASSUME RamIsZero PROVE Spec => []OneLeafPerTty
<1>1. IInv => OneLeafPerTty
  BY DEF IInv
<1> QED
  BY <1>1, ProcessInvariant, PTL

\* No program load ever touches the kernel or a program that is still running.
THEOREM AlwaysImagesIntact == ASSUME RamIsZero PROVE Spec => []ImagesIntact
<1>1. IInv => ImagesIntact
  BY DEF IInv
<1> QED
  BY <1>1, ProcessInvariant, PTL

\* No step of any process changes the number, parent or terminal of a process
\* that keeps running.
THEOREM AlwaysIdentityStable == ASSUME RamIsZero PROVE Spec => IdentityStable
<1> DEFINE Stable == \A p \in (running_processes \cap running_processes') \ {0} :
                       /\ process_number'[p] = process_number[p]
                       /\ parent_process_number'[p] = parent_process_number[p]
                       /\ tty_number'[p] = tty_number[p]
<1>1. IInv /\ [Next]_vars => [Stable]_vars
  <2> SUFFICES ASSUME IInv, Next PROVE Stable
    OBVIOUS
  <2>1. ASSUME NEW n \in Slot, execute(n) PROVE Stable
    <3>1. n \notin running_processes
      BY <2>1 DEF execute, OpenProcess
    <3>2. \A p \in Slot \ {n} : /\ process_number'[p] = process_number[p]
                               /\ parent_process_number'[p] = parent_process_number[p]
                               /\ tty_number'[p] = tty_number[p]
      BY <2>1 DEF execute, LinkToParent, IInv, TypeOK
    <3> QED
      BY <3>1, <3>2 DEF IInv, TypeOK
  <2>2. CASE ~ \E n \in Slot : execute(n)
    BY <2>2 DEF Next, enter_first_shell, halt, restart_shell, read, read_return, exception,
                exception_in_syscall, pit_interruption, pcbs
  <2> QED
    BY <2>1, <2>2
<1> QED
  BY <1>1, ProcessInvariant, PTL DEF Spec, IdentityStable

\* A caller of execute() gets the CPU back only in the step in which the process
\* it started halts.
THEOREM AlwaysExecuteReturnsOnHalt == ASSUME RamIsZero PROVE Spec => ExecuteReturnsOnHalt
<1> DEFINE Returns == \A p \in Proc : at[p] = "execute" /\ at'[p] # "execute" =>
                        \E child \in running_processes \ running_processes' :
                          /\ parent_process_number[child] = p
                          /\ cpu = child
                          /\ cpu' = p
<1>1. IInv /\ [Next]_vars => [Returns]_vars
  <2> SUFFICES ASSUME IInv, Next, NEW p \in Proc, at[p] = "execute", at'[p] # "execute"
               PROVE  \E child \in running_processes \ running_processes' :
                        /\ parent_process_number[child] = p
                        /\ cpu = child
                        /\ cpu' = p
    OBVIOUS
  <2>1. p \in Slot
    BY SizesAssumption DEF Proc, Slot
  <2>2. /\ cpu \in Slot /\ cpu = current_process_number /\ cpu = kernel_stack_bottom
        /\ cpu \in running_processes \ {0}
        /\ process_number[cpu] = cpu
    BY DEF IInv, TypeOK, CurrentEverywhere, Schedulable, Bookkeeping
  <2>3. ASSUME at[cpu] # "execute", \E where \in Location : at' = [at EXCEPT ![cpu] = where]
        PROVE  FALSE
    BY <2>1, <2>2, <2>3 DEF IInv, TypeOK
  <2>4. CASE \E n \in Slot : execute(n)
    <3>1. PICK n \in Slot : execute(n)
      BY <2>4
    <3>2. at[n] = "free" /\ at'[cpu] = "execute"
      BY <2>2, <3>1 DEF execute, OpenProcess, IInv, TypeOK, Bookkeeping
    <3> QED
      BY <2>1, <2>2, <3>1, <3>2 DEF execute, IInv, TypeOK
  <2>5. CASE halt
    <3>1. /\ at[cpu] = "user"
          /\ cpu \notin Shell
          /\ running_processes' = running_processes \ {cpu}
          /\ cpu' = parent_ksp[cpu]
          /\ at' = [at EXCEPT ![cpu] = "free", ![parent_ksp[cpu]] = "user"]
      BY <2>2, <2>5 DEF halt, ClearRunningBit, IsLastShell, IInv, ShellsPermanent
    <3>2. parent_ksp[cpu] = parent_process_number[cpu]
      BY <2>2, <3>1 DEF IInv, FamilyTree
    <3>3. p = parent_ksp[cpu]
      BY <2>1, <2>2, <3>1 DEF IInv, TypeOK
    <3> QED
      BY <2>2, <3>1, <3>2, <3>3
  <2>6. CASE enter_first_shell \/ restart_shell \/ read \/ read_return \/ exception
             \/ exception_in_syscall
    BY <2>3, <2>6 DEF enter_first_shell, restart_shell, read, read_return, exception,
                      exception_in_syscall, Location
  <2>7. CASE \E next \in Slot : pit_interruption(next)
    BY <2>7 DEF pit_interruption
  <2> QED
    BY <2>4, <2>5, <2>6, <2>7 DEF Next
<1> QED
  BY <1>1, ProcessInvariant, PTL DEF Spec, ExecuteReturnsOnHalt

-----------------------------------------------------------------------------
(* The process table implements a stack of programs per terminal *)

\* The scan for "the leaf of terminal f[p]" finds p when terminals have one
\* leaf each.
LEMMA ChosenLeaf ==
  ASSUME NEW S, NEW f, NEW p \in S,
         \A q \in S : f[q] = f[p] => q = p
  PROVE  (CHOOSE q \in S : f[q] = f[p]) = p
OBVIOUS

\* The process that may be scheduled on a terminal is the top of its stack.
LEMMA LeafOnTop ==
  ASSUME IInv, NEW p \in Schedulable
  PROVE  tty_number[p] \in Tty /\ TopOf[tty_number[p]] = p
<1>1. p \in Slot /\ tty_number[p] \in Tty
  BY DEF IInv, TypeOK, Schedulable
<1>2. \A q \in Schedulable : tty_number[q] = tty_number[p] => q = p
  BY <1>1 DEF IInv, OneLeafPerTty
<1> QED
  BY <1>1, <1>2, ChosenLeaf DEF TopOf

\* The same after a step.
LEMMA LeafOnTopNext ==
  ASSUME IInv', NEW p \in Schedulable'
  PROVE  tty_number'[p] \in Tty /\ TopOf'[tty_number'[p]] = p
<1>1. p \in Slot /\ tty_number'[p] \in Tty
  BY DEF IInv, TypeOK, Schedulable
<1>2. \A q \in Schedulable' : tty_number'[q] = tty_number'[p] => q = p
  BY <1>1 DEF IInv, OneLeafPerTty
<1> QED
  BY <1>1, <1>2, ChosenLeaf DEF TopOf

\* When one leaf takes the place of another on the same terminal, that
\* terminal's stack gets a new top and the others keep theirs.
LEMMA TopReplaced ==
  ASSUME IInv, IInv',
         NEW old \in Schedulable, NEW new \in Schedulable',
         Schedulable \ {old} \subseteq Schedulable',
         tty_number'[new] = tty_number[old],
         \A p \in Schedulable \ {old} : tty_number'[p] = tty_number[p]
  PROVE  TopOf' = [TopOf EXCEPT ![tty_number[old]] = new]
<1>1. /\ tty_number[old] \in Tty
      /\ TopOf'[tty_number[old]] = new /\ TopOf[tty_number[old]] = old
  BY LeafOnTop, LeafOnTopNext
<1>2. ASSUME NEW t \in Tty, t # tty_number[old] PROVE TopOf'[t] = TopOf[t]
  <2>1. PICK p \in Schedulable : tty_number[p] = t
    BY DEF IInv, OneLeafPerTty
  <2>2. p # old /\ p \in Schedulable' /\ tty_number'[p] = t
    BY <1>2, <2>1
  <2> QED
    BY <2>1, <2>2, LeafOnTop, LeafOnTopNext
<1>3. TopOf = [t \in Tty |-> TopOf[t]] /\ TopOf' = [t \in Tty |-> TopOf'[t]]
  BY DEF TopOf
<1> QED
  BY <1>1, <1>2, <1>3

\* execute() puts the new program on top of its caller.
LEMMA ExecutePushes ==
  ASSUME IInv, IInv', NEW n \in Slot, execute(n)
  PROVE  n \in Proc /\ Stacks!Push(n)
<1> DEFINE cur == current_process_number
<1> USE DEF IInv
<1>1. /\ cur \in Schedulable /\ tss_esp0 = cur /\ cur \in Slot /\ cur # 0
      /\ process_number[cur] = cur
  BY DEF CurrentEverywhere, Schedulable, Bookkeeping, TypeOK
<1>2. n \notin running_processes /\ n # 0 /\ n \in Proc /\ has_child[n] = 0 /\ n # cur
  BY <1>1, SizesAssumption
     DEF execute, OpenProcess, Bookkeeping, ShellsPermanent, Slot, Proc, Schedulable
<1>3. running_processes \cup {n} # {0, 1}
  BY SizesAssumption DEF ShellsPermanent, Shell
<1>4. /\ running_processes' = running_processes \cup {n}
      /\ current_process_number' = n
      /\ parent_process_number' = [parent_process_number EXCEPT ![n] = cur]
      /\ has_child' = [has_child EXCEPT ![cur] = 1]
      /\ tty_number' = [tty_number EXCEPT ![n] = tty_number[cur]]
  BY <1>1, <1>3 DEF execute, LinkToParent
<1>5. /\ n \in Schedulable'
      /\ Schedulable \ {cur} \subseteq Schedulable'
  BY SMTT(20), <1>1, <1>2, <1>4 DEF Schedulable, TypeOK
<1>6. /\ tty_number'[n] = tty_number[cur]
      /\ \A p \in Schedulable \ {cur} : tty_number'[p] = tty_number[p]
  BY SMTT(20), <1>2, <1>4 DEF TypeOK, Schedulable
<1>7. TopOf' = [TopOf EXCEPT ![TurnOf] = n] /\ TopOf[TurnOf] = cur
  BY <1>1, <1>5, <1>6, TopReplaced, LeafOnTop DEF TurnOf
<1>8. BelowOf' = [q \in DOMAIN BelowOf \cup {n} |-> IF q = n THEN cur ELSE BelowOf[q]]
  <2>1. running_processes' \ {0} = (running_processes \ {0}) \cup {n}
    BY <1>2, <1>4
  <2>2. \A q \in running_processes' \ {0} :
          parent_process_number'[q] = IF q = n THEN cur ELSE parent_process_number[q]
    BY <1>2, <1>4 DEF TypeOK
  <2> QED
    BY <1>2, <2>1, <2>2 DEF BelowOf
<1>9. TurnOf' = TurnOf
  BY <1>4, <1>6 DEF TurnOf
<1> QED
  BY <1>2, <1>7, <1>8, <1>9 DEF Stacks!Push, BelowOf

\* halt() takes the program off its stack and its caller goes on.
LEMMA HaltPops ==
  ASSUME IInv, IInv', halt
  PROVE  Stacks!Pop
<1> DEFINE cur == current_process_number
           parent == parent_process_number[cur]
<1> USE DEF IInv
<1>1. /\ cur \in Schedulable /\ kernel_stack_bottom = cur /\ cur \in Slot /\ cur # 0
      /\ process_number[cur] = cur /\ cur \in running_processes
  BY DEF CurrentEverywhere, Schedulable, Bookkeeping, TypeOK
<1>2. parent # 0 /\ cur \notin Shell
  BY <1>1 DEF halt, IsLastShell, ShellsPermanent
<1>3. /\ running_processes' = running_processes \ {cur}
      /\ current_process_number' = parent
      /\ has_child' = [has_child EXCEPT ![parent] = 0]
      /\ UNCHANGED <<parent_process_number, tty_number>>
  BY <1>1 DEF halt, ClearRunningBit, ClearParentFlag
<1>4. /\ parent \in running_processes \ {0, cur}
      /\ tty_number[parent] = tty_number[cur]
      /\ parent \in Slot
  BY <1>1, <1>2 DEF FamilyTree, Bookkeeping, TypeOK
<1>5. /\ parent \in Schedulable'
      /\ Schedulable \ {cur} \subseteq Schedulable'
  BY <1>1, <1>3, <1>4 DEF Schedulable, TypeOK
<1>6. TopOf' = [TopOf EXCEPT ![TurnOf] = parent] /\ TopOf[TurnOf] = cur
  BY <1>1, <1>3, <1>4, <1>5, TopReplaced, LeafOnTop DEF TurnOf
<1>7. BelowOf' = [q \in DOMAIN BelowOf \ {cur} |-> BelowOf[q]]
  BY <1>3 DEF BelowOf
<1>8. TurnOf' = TurnOf /\ BelowOf[cur] = parent
  BY <1>1, <1>3, <1>4 DEF TurnOf, BelowOf
<1> QED
  BY <1>2, <1>6, <1>7, <1>8 DEF Stacks!Pop

\* The timer gives the turn to a terminal and leaves the stacks alone.
LEMMA PitSwitches ==
  ASSUME IInv, NEW next \in Slot, pit_interruption(next)
  PROVE  Stacks!Switch
<1>1. /\ UNCHANGED <<running_processes, parent_process_number, has_child, tty_number>>
      /\ current_process_number' = next
  BY DEF pit_interruption
<1>2. UNCHANGED <<BelowOf, TopOf>>
  BY <1>1 DEF BelowOf, TopOf, Schedulable
<1>3. TurnOf' \in Tty
  BY <1>1 DEF TurnOf, IInv, TypeOK
<1> QED
  BY <1>2, <1>3 DEF Stacks!Switch

\* bootup() leaves one stack per terminal, with its shell on it.
LEMMA BootStacks ==
  ASSUME Init, IInv PROVE Stacks!StacksInit
<1> USE SizesAssumption
<1>1. {t + 1 : t \in Tty} = Shell /\ Shell \subseteq Slot /\ 0 \notin Shell
  BY DEF Tty, Shell, Slot
<1>2. BelowOf = [p \in Shell |-> 0]
  BY <1>1 DEF Init, BelowOf
<1>3. TopOf = [t \in Tty |-> t + 1]
  <2>1. ASSUME NEW t \in Tty PROVE TopOf[t] = t + 1
    <3>1. t + 1 \in Shell /\ t + 1 \in Slot /\ (t + 1) - 1 = t
      BY DEF Tty, Shell, Slot
    <3>2. tty_number[t + 1] = t
      BY <3>1 DEF Init, InitialTty
    <3>3. t + 1 \in Schedulable
      BY <1>1, <3>1 DEF Init, Schedulable
    <3> QED
      BY <3>2, <3>3, LeafOnTop
  <2> QED
    BY <2>1 DEF TopOf
<1>4. TurnOf = 0
  BY <1>1 DEF Init, TurnOf, Shell, InitialTty
<1> QED
  BY <1>1, <1>2, <1>3, <1>4 DEF Stacks!StacksInit, Tty

\* execute(), halt() and the timer interrupt implement push, pop and change of
\* turn on one stack of programs per terminal, and nothing else the process
\* code does moves them.
THEOREM StacksImplemented == ASSUME RamIsZero PROVE Spec => ImplementsTtyStacks
<1>1. Init => Stacks!StacksInit
  BY InitIInv, BootStacks
<1>2. IInv /\ IInv' /\ [Next]_vars => [Stacks!StacksNext]_<<BelowOf, TopOf, TurnOf>>
  <2> SUFFICES ASSUME IInv, IInv', [Next]_vars
               PROVE  Stacks!StacksNext \/ UNCHANGED <<BelowOf, TopOf, TurnOf>>
    OBVIOUS
  <2>1. CASE \E n \in Slot : execute(n)
    BY <2>1, ExecutePushes DEF Stacks!StacksNext
  <2>2. CASE halt
    BY <2>2, HaltPops DEF Stacks!StacksNext
  <2>3. CASE \E next \in Slot : pit_interruption(next)
    BY <2>3, PitSwitches DEF Stacks!StacksNext
  <2>4. CASE \/ enter_first_shell \/ restart_shell \/ read \/ read_return
             \/ exception \/ exception_in_syscall \/ UNCHANGED vars
    <3>1. UNCHANGED <<globals, pcbs>>
      BY <2>4 DEF enter_first_shell, restart_shell, read, read_return, exception,
                  exception_in_syscall, vars
    <3> QED
      BY <3>1 DEF globals, pcbs, BelowOf, TopOf, TurnOf, Schedulable
  <2> QED
    BY <2>1, <2>2, <2>3, <2>4 DEF Next
<1> QED
  BY <1>1, <1>2, ProcessInvariant, PTL DEF Spec, ImplementsTtyStacks, Stacks!StacksSpec
=============================================================================
