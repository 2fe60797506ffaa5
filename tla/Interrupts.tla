----------------------------- MODULE Interrupts -----------------------------
(***************************************************************************)
(* The two 8259 controllers as student-distrib/i8259.c programs them, the  *)
(* boot order of kernel.c, and the three handlers of interrupthandler.S    *)
(* with the interrupt flag they run under.  keyboard_interruption() and    *)
(* clock_interruption() end in sti(), so that interrupts nest in the rest  *)
(* of their wrapper; pit_interruption() leaves on another process's stack. *)
(***************************************************************************)
EXTENDS Integers, Sequences, FiniteSetsExt

CONSTANTS
  Process,        \* the processes the scheduler switches between
  Masked,         \* those that bootup() gave user-mode EFLAGS without IF
  Devices,        \* the IRQs that are ever raised, others than ours included
  MaxDepth        \* bound: handlers on one stack

PIT_IRQ      == 0
KEYBOARD_IRQ == 1
SLAVE_IRQ    == 2
RTC_IRQ      == 8
Handled      == {PIT_IRQ, KEYBOARD_IRQ, RTC_IRQ}

ASSUME InterruptsAssumption ==
  /\ Devices \subseteq (0 .. 15) \ {SLAVE_IRQ}
  /\ MaxDepth \in Nat \ {0}
  /\ Masked \subseteq Process /\ Process \ Masked # {}

VARIABLES
  boot,           \* how many steps of BootOrder, and the sti() after it, are done
  master_mask, slave_mask,     \* the bits that are 1: lines that are masked
  irr, isr,       \* requested; in service (SLAVE_IRQ on the master for 8-15)
  IF_flag,        \* the CPU takes interrupts
  current,        \* the process whose kernel stack is in use
  stack,          \* per process: the wrappers on its stack, innermost first
  mode            \* each process: "user", in a "syscall", or in "read"

vars == <<boot, master_mask, slave_mask, irr, isr, IF_flag, current, stack, mode>>

Frame == Handled \X {"entered", "leaving"}

\* What i8259_init(), rtc_init(), pit_init() and keyboard_open() enable.
BootOrder == <<SLAVE_IRQ, RTC_IRQ, PIT_IRQ, KEYBOARD_IRQ>>
Booted    == boot = Len(BootOrder) + 1

\* bootup() builds for every other shell a stack as pit_interruption() leaves
\* it, before it unmasks interrupts.
Init ==
  /\ boot = 0
  /\ master_mask = 0 .. 7 /\ slave_mask = 0 .. 7
  /\ irr = {} /\ isr = {}
  /\ IF_flag = FALSE
  /\ current \in Process \ Masked
  /\ stack = [p \in Process |-> IF p = current THEN <<>> ELSE <<<<PIT_IRQ, "leaving">>>>]
  /\ mode = [p \in Process |-> "user"]

-----------------------------------------------------------------------------
\* mask = (mask << 1) + 1 on eight bits, n times, starting from 11111110.
Rotated[n \in 0 .. 8] ==
  IF n = 0 THEN 1 .. 7 ELSE {0} \cup {b + 1 : b \in Rotated[n - 1] \ {7}}

RotatedOnceTooOften(n) == Rotated[n + 1]

EnableMask(n) == Rotated[n]

enable_irq(n) ==
  IF n <= 7
  THEN master_mask' = master_mask \cap EnableMask(n) /\ UNCHANGED slave_mask
  ELSE slave_mask' = slave_mask \cap EnableMask(n - 8) /\ UNCHANGED master_mask

boot_step ==
  /\ ~ Booted
  /\ boot' = boot + 1
  /\ IF boot = Len(BootOrder)
     THEN IF_flag' = TRUE /\ UNCHANGED <<master_mask, slave_mask>>
     ELSE enable_irq(BootOrder[boot + 1]) /\ UNCHANGED IF_flag
  /\ UNCHANGED <<irr, isr, current, stack, mode>>

-----------------------------------------------------------------------------
\* A device raises its line; the request is latched, masked or not.
request(q) ==
  /\ q \in Devices \ irr
  /\ irr' = irr \cup {q}
  /\ UNCHANGED <<boot, master_mask, slave_mask, isr, IF_flag, current, stack, mode>>

\* Fully nested priorities: each controller offers its first request that
\* comes before everything it has in service.
Offered(requests, mask, service) ==
  {q \in requests : /\ q \notin mask
                    /\ \A r \in service : q < r
                    /\ \A r \in requests \ mask : q <= r}

SlaveOffers == Offered({q - 8 : q \in irr \cap 8 .. 15}, slave_mask,
                       {q - 8 : q \in isr \cap 8 .. 15})

MasterOffers == Offered((irr \cap 0 .. 7) \cup (IF SlaveOffers = {} THEN {} ELSE {SLAVE_IRQ}),
                        master_mask, isr \cap 0 .. 7)

TrapGate == TRUE

\* What init_idt() makes of the vectors from 32 on: entering clears IF.
InterruptGate == FALSE

\* The CPU acknowledges IRQ q and enters its wrapper.
deliver(q) ==
  /\ IF_flag
  /\ Len(stack[current]) < MaxDepth
  /\ \/ q \in MasterOffers \ {SLAVE_IRQ} /\ isr' = isr \cup {q}
     \/ SLAVE_IRQ \in MasterOffers /\ q - 8 \in SlaveOffers /\ isr' = isr \cup {q, SLAVE_IRQ}
  /\ irr' = irr \ {q}
  /\ IF_flag' = InterruptGate
  /\ stack' = [stack EXCEPT ![current] = <<<<q, "entered">>>> \o @]
  /\ UNCHANGED <<boot, master_mask, slave_mask, current, mode>>

EoiToOneChip(q) == isr \ {q}

\* send_eoi(): a specific end of interrupt, for 8-15 to both controllers.
send_eoi(q) == IF q <= 7 THEN isr \ {q} ELSE isr \ {q, SLAVE_IRQ}

Running(q) == stack[current] # <<>> /\ Head(stack[current]) = <<q, "entered">>

\* keyboard_interruption() and clock_interruption(): the work, send_eoi(), sti().
device_interruption(q) ==
  /\ q \in {KEYBOARD_IRQ, RTC_IRQ} /\ Running(q)
  /\ isr' = send_eoi(q)
  /\ IF_flag' = TRUE
  /\ stack' = [stack EXCEPT ![current] = <<<<q, "leaving">>>> \o Tail(@)]
  /\ UNCHANGED <<boot, master_mask, slave_mask, irr, current, mode>>

\* pit_interruption(): send_eoi() before it swaps stacks with some process,
\* itself suspended in pit_interruption().  IF stays clear.
pit_interruption ==
  /\ Running(PIT_IRQ)
  /\ isr' = send_eoi(PIT_IRQ)
  /\ stack' = [stack EXCEPT ![current] = <<<<PIT_IRQ, "leaving">>>> \o Tail(@)]
  /\ current' \in Process
  /\ UNCHANGED <<boot, master_mask, slave_mask, irr, IF_flag, mode>>

\* The interrupt flag in the EFLAGS of user mode.
UserFlag == current \notin Masked

\* The end of the wrapper: registers are popped, then sti and iret to whatever
\* was interrupted, with its flag.
handler_return ==
  /\ stack[current] # <<>> /\ Head(stack[current])[2] = "leaving"
  /\ stack' = [stack EXCEPT ![current] = Tail(@)]
  /\ IF_flag' = (Tail(stack[current]) # <<>> \/ mode[current] = "read" \/ UserFlag)
  /\ UNCHANGED <<boot, master_mask, slave_mask, irr, isr, current, mode>>

InUserMode == Booted /\ stack[current] = <<>> /\ mode[current] = "user"

\* int 0x80 is an interrupt gate: a system call runs with interrupts off.
syscall ==
  /\ InUserMode
  /\ mode' = [mode EXCEPT ![current] = "syscall"]
  /\ IF_flag' = InterruptGate
  /\ UNCHANGED <<boot, master_mask, slave_mask, irr, isr, current, stack>>

\* read() executes sti() first.
read ==
  /\ InUserMode
  /\ mode' = [mode EXCEPT ![current] = "read"]
  /\ IF_flag' = TRUE
  /\ UNCHANGED <<boot, master_mask, slave_mask, irr, isr, current, stack>>

syscall_return ==
  /\ stack[current] = <<>> /\ mode[current] # "user"
  /\ mode' = [mode EXCEPT ![current] = "user"]
  /\ IF_flag' = UserFlag
  /\ UNCHANGED <<boot, master_mask, slave_mask, irr, isr, current, stack>>

Next ==
  \/ boot_step
  \/ \E q \in Devices : request(q)
  \/ \E q \in Devices : deliver(q)
  \/ \E q \in Handled : device_interruption(q)
  \/ pit_interruption \/ handler_return
  \/ syscall \/ read \/ syscall_return

Spec == Init /\ [][Next]_vars

\* The kernel runs on, system calls other than read() end, the shells that
\* bootup() left masked call read() again and again, and the controllers do not
\* pass over a request for ever that they can offer again and again.
FairSpec ==
  /\ Spec
  /\ WF_vars(boot_step) /\ WF_vars(pit_interruption) /\ WF_vars(handler_return)
  /\ WF_vars(\E q \in Handled : device_interruption(q))
  /\ WF_vars(mode[current] = "syscall" /\ syscall_return)
  /\ SF_vars(current \in Masked /\ read)
  /\ \A q \in Handled : SF_vars(deliver(q))

-----------------------------------------------------------------------------
\* Whenever the CPU takes interrupts, nothing is in service on either
\* controller: each handler ends its interrupt on both before sti() or iret,
\* so that a handler that waits on the stack of a process that is not
\* scheduled holds up no device.
NothingHeldUp == IF_flag => isr = {}

\* The masks that the rotations of enable_irq() leave let exactly the three
\* handled IRQs and the cascade through, so that a request of any other device
\* never reaches general_interruption(), which sends no end of interrupt.
OnlyHandledDelivered ==
  /\ Booted => /\ (0 .. 7) \ master_mask = {PIT_IRQ, KEYBOARD_IRQ, SLAVE_IRQ}
               /\ (0 .. 7) \ slave_mask = {RTC_IRQ - 8}
  /\ isr \subseteq Handled \cup {SLAVE_IRQ}

\* A process that is not running was left inside pit_interruption(), with
\* its end of interrupt sent, and at most one wrapper on all stacks together
\* has not ended its interrupt: the one that runs.
SuspendedInPit ==
  /\ \A p \in Process \ {current} : stack[p] # <<>> /\ Head(stack[p]) = <<PIT_IRQ, "leaving">>
  /\ \A p \in Process : \A k \in DOMAIN stack[p] :
       stack[p][k][2] = "entered" => p = current /\ k = 1 /\ ~ IF_flag

\* No device is locked out: every timer tick, key and clock tick that is
\* requested is delivered, unless devices of a higher priority never stop
\* asking.
EveryRequestDelivered ==
  \A q \in Handled :
    <>[](irr \cap 0 .. q - 1 = {}) => ((q \in irr) ~> (q \notin irr))
=============================================================================
