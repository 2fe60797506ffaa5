-------------------------- MODULE InterruptsProofs --------------------------
(***************************************************************************)
(* Proofs about the interrupt controllers and the handlers, for any number *)
(* of processes, any set of devices and any depth of nesting; and about    *)
(* the clock, for any number of programs that share the flag of rtc_read() *)
(* and any rates they ask for.                                             *)
(***************************************************************************)
EXTENDS Interrupts, Rtc, TLAPS

\* Every leaf is tried with the SMT solver, then with Zenon, then with more time.
USE SMTT(10), ZenonT(20), SMTT(60)

TypeOK ==
  /\ boot \in 0 .. 5
  /\ master_mask \subseteq 0 .. 7 /\ slave_mask \subseteq 0 .. 7
  /\ irr \subseteq Devices
  /\ IF_flag \in BOOLEAN
  /\ current \in Process
  /\ stack \in [Process -> Seq(Frame)]
  /\ mode \in [Process -> {"user", "syscall", "read"}]

\* The lines each step of kernel.c has unmasked so far.
MasksSoFar ==
  /\ (0 .. 7) \ master_mask = (IF boot >= 1 THEN {SLAVE_IRQ} ELSE {})
                                \cup (IF boot >= 3 THEN {PIT_IRQ} ELSE {})
                                \cup (IF boot >= 4 THEN {KEYBOARD_IRQ} ELSE {})
  /\ (0 .. 7) \ slave_mask = IF boot >= 2 THEN {RTC_IRQ - 8} ELSE {}

\* Until the sti() at the end of the boot nothing was interrupted.
QuietBoot ==
  ~ Booted => ~ IF_flag /\ stack[current] = <<>> /\ \A p \in Process : mode[p] = "user"

\* What is in service is exactly what the running wrapper has not yet ended.
EnteredNow == stack[current] # <<>> /\ Head(stack[current])[2] = "entered"
InService(q) == IF q <= 7 THEN {q} ELSE {q, SLAVE_IRQ}
ServiceIsTop ==
  isr = IF EnteredNow THEN InService(Head(stack[current])[1]) ELSE {}

\* A system call other than read() is never interrupted and never loses the
\* CPU: from the gate of int 0x80 to its iret the process stays the current one,
\* with no wrapper on its stack and interrupts off.
SyscallAtomic ==
  \A p \in Process : mode[p] = "syscall" => p = current /\ stack[p] = <<>> /\ ~ IF_flag

IInv ==
  /\ TypeOK /\ MasksSoFar /\ QuietBoot /\ ServiceIsTop /\ SuspendedInPit
  /\ SyscallAtomic

-----------------------------------------------------------------------------
(* The masks of enable_irq() *)

\* n rotations of 11111110 clear exactly bit n: the loop of enable_irq() unmasks
\* the line it was asked for and no other.  (Rotated[8] is a mask of all lines.)
LEMMA RotatedBit == \A n \in 0 .. 8 : Rotated[n] = (0 .. 7) \ {n}
<1> DEFINE Shifted(f) ==
      [n \in 0 .. 8 |-> IF n = 0 THEN 1 .. 7 ELSE {0} \cup {b + 1 : b \in f[n - 1] \ {7}}]
<1> DEFINE Cleared == [n \in 0 .. 8 |-> (0 .. 7) \ {n}]
<1>1. Cleared = Shifted(Cleared)
  <2>1. ASSUME NEW n \in 0 .. 8 PROVE Cleared[n] = Shifted(Cleared)[n]
    <3>1. CASE n = 0
      BY <3>1
    <3>2. CASE n # 0
      <4>1. n - 1 \in 0 .. 8 /\ Cleared[n - 1] = (0 .. 7) \ {n - 1}
        BY <3>2
      <4>2. ASSUME NEW c \in (0 .. 7) \ {n}, c # 0
            PROVE \E b \in Cleared[n - 1] \ {7} : c = b + 1
        <5>1. c - 1 \in ((0 .. 7) \ {n - 1}) \ {7}
          BY <4>2
        <5> QED
          BY <4>1, <5>1
      <4>3. ASSUME NEW b \in Cleared[n - 1] \ {7} PROVE b + 1 \in (0 .. 7) \ {n}
        BY <4>1
      <4>4. (0 .. 7) \ {n} = {0} \cup {b + 1 : b \in Cleared[n - 1] \ {7}}
        <5> HIDE DEF Cleared
        <5> QED
          BY <3>2, <4>2, <4>3
      <4> QED
        BY <3>2, <4>4
    <3> QED
      BY <3>1, <3>2
  <2> QED
    BY <2>1
<1>2. Rotated = Shifted(Rotated)
  <2>1. Rotated = CHOOSE f : f = Shifted(f)
    BY DEF Rotated
  <2> HIDE DEF Shifted
  <2> QED
    BY <1>1, <2>1
<1>3. ASSUME NEW n \in 1 .. 8, Rotated[n - 1] = Cleared[n - 1]
      PROVE  Rotated[n] = Cleared[n]
  <2>1. Rotated[n] = {0} \cup {b + 1 : b \in Rotated[n - 1] \ {7}}
    BY <1>2
  <2>2. Cleared[n] = {0} \cup {b + 1 : b \in Cleared[n - 1] \ {7}}
    BY <1>1
  <2> QED
    BY <1>3, <2>1, <2>2
<1>4. Rotated[0] = Cleared[0]
  BY <1>1, <1>2
<1>5. Rotated[1] = Cleared[1]
  BY <1>3, <1>4
<1>6. Rotated[2] = Cleared[2]
  BY <1>3, <1>5
<1>7. Rotated[3] = Cleared[3]
  BY <1>3, <1>6
<1>8. Rotated[4] = Cleared[4]
  BY <1>3, <1>7
<1>9. Rotated[5] = Cleared[5]
  BY <1>3, <1>8
<1>10. Rotated[6] = Cleared[6]
  BY <1>3, <1>9
<1>11. Rotated[7] = Cleared[7]
  BY <1>3, <1>10
<1>12. Rotated[8] = Cleared[8]
  BY <1>3, <1>11
<1>13. \A n \in 0 .. 8 : Rotated[n] = Cleared[n]
  <2> HIDE DEF Cleared
  <2> QED
    BY <1>4, <1>5, <1>6, <1>7, <1>8, <1>9, <1>10, <1>11, <1>12
<1> QED
  BY <1>13

-----------------------------------------------------------------------------
(* Wrappers on a stack *)

\* What a wrapper pushed on a stack leaves below itself.
LEMMA Pushed ==
  ASSUME NEW s \in Seq(Frame), NEW f \in Frame
  PROVE  /\ <<f>> \o s \in Seq(Frame) /\ <<f>> \o s # <<>>
         /\ Head(<<f>> \o s) = f
         /\ DOMAIN (<<f>> \o s) = 1 .. Len(s) + 1
         /\ (<<f>> \o s)[1] = f
         /\ \A k \in 2 .. Len(s) + 1 : k - 1 \in DOMAIN s /\ (<<f>> \o s)[k] = s[k - 1]
OBVIOUS

\* What is left when the innermost wrapper is popped.
LEMMA Popped ==
  ASSUME NEW s \in Seq(Frame), s # <<>>
  PROVE  /\ Head(s) = s[1] /\ s[1] \in Frame /\ 1 \in DOMAIN s
         /\ Tail(s) \in Seq(Frame)
         /\ \A k \in DOMAIN Tail(s) : k + 1 \in DOMAIN s /\ Tail(s)[k] = s[k + 1]
OBVIOUS

-----------------------------------------------------------------------------
(* The inductive invariant *)

\* It holds when the kernel starts with everything masked.
LEMMA InitIInv == Init => IInv
<1> SUFFICES ASSUME Init PROVE IInv
  OBVIOUS
<1>1. <<PIT_IRQ, "leaving">> \in Frame
  BY DEF Frame, Handled, PIT_IRQ
<1>2. TypeOK
  <2>1. <<>> \in Seq(Frame) /\ <<<<PIT_IRQ, "leaving">>>> \in Seq(Frame)
    BY <1>1
  <2>2. stack \in [Process -> Seq(Frame)]
    BY <2>1 DEF Init
  <2>3. IF_flag \in BOOLEAN
    BY DEF Init
  <2> QED
    BY <2>2, <2>3 DEF Init, TypeOK
<1>3. MasksSoFar /\ QuietBoot /\ ServiceIsTop
  BY DEF Init, MasksSoFar, QuietBoot, ServiceIsTop, EnteredNow
<1>4. SuspendedInPit
  BY DEF Init, SuspendedInPit
<1>5. SyscallAtomic
  BY DEF Init, SyscallAtomic
<1> QED
  BY <1>2, <1>3, <1>4, <1>5 DEF IInv

\* kernel.c enables one line after the other, then interrupts.
LEMMA BootStep == IInv /\ boot_step => IInv'
<1> SUFFICES ASSUME IInv, boot_step PROVE IInv'
  OBVIOUS
<1> USE DEF IInv
<1>b. boot \in 0 .. 4 /\ boot' = boot + 1 /\ Len(BootOrder) = 4
  BY DEF boot_step, TypeOK, Booted, BootOrder
<1>u. UNCHANGED <<irr, isr, current, stack, mode>> /\ IF_flag' \in BOOLEAN
  BY DEF boot_step, TypeOK
<1>q. /\ ~ IF_flag /\ stack[current] = <<>> /\ isr = {}
      /\ \A p \in Process : mode[p] = "user"
  BY DEF boot_step, QuietBoot, ServiceIsTop, EnteredNow
<1>s. master_mask' \subseteq 0 .. 7 /\ slave_mask' \subseteq 0 .. 7
  BY DEF boot_step, enable_irq, TypeOK
<1>m. MasksSoFar'
  <2> USE DEF PIT_IRQ, KEYBOARD_IRQ, SLAVE_IRQ, RTC_IRQ
  <2>1. CASE boot = 0
    <3>1. master_mask' = master_mask \cap ((0 .. 7) \ {2}) /\ slave_mask' = slave_mask
      BY <1>b, <2>1, RotatedBit DEF boot_step, BootOrder, enable_irq, EnableMask
    <3>2. (0 .. 7) \ master_mask = {} /\ (0 .. 7) \ slave_mask = {}
      BY <2>1 DEF MasksSoFar
    <3>3. (0 .. 7) \ master_mask' = {2} /\ (0 .. 7) \ slave_mask' = {}
      BY <3>1, <3>2
    <3>4. boot' = 1
      BY <1>b, <2>1
    <3> QED
      BY <3>3, <3>4 DEF MasksSoFar
  <2>2. CASE boot = 1
    <3>1. slave_mask' = slave_mask \cap ((0 .. 7) \ {0}) /\ master_mask' = master_mask
      BY <1>b, <2>2, RotatedBit DEF boot_step, BootOrder, enable_irq, EnableMask
    <3>2. (0 .. 7) \ master_mask = {2} /\ (0 .. 7) \ slave_mask = {}
      BY <2>2 DEF MasksSoFar
    <3>3. (0 .. 7) \ master_mask' = {2} /\ (0 .. 7) \ slave_mask' = {0}
      BY <3>1, <3>2
    <3>4. boot' = 2
      BY <1>b, <2>2
    <3> QED
      BY <3>3, <3>4 DEF MasksSoFar
  <2>3. CASE boot = 2
    <3>1. master_mask' = master_mask \cap ((0 .. 7) \ {0}) /\ slave_mask' = slave_mask
      BY <1>b, <2>3, RotatedBit DEF boot_step, BootOrder, enable_irq, EnableMask
    <3>2. (0 .. 7) \ master_mask = {2} /\ (0 .. 7) \ slave_mask = {0}
      BY <2>3 DEF MasksSoFar
    <3>3. (0 .. 7) \ master_mask' = {2, 0} /\ (0 .. 7) \ slave_mask' = {0}
      BY <3>1, <3>2
    <3>4. boot' = 3
      BY <1>b, <2>3
    <3> QED
      BY <3>3, <3>4 DEF MasksSoFar
  <2>4. CASE boot = 3
    <3>1. master_mask' = master_mask \cap ((0 .. 7) \ {1}) /\ slave_mask' = slave_mask
      BY <1>b, <2>4, RotatedBit DEF boot_step, BootOrder, enable_irq, EnableMask
    <3>2. (0 .. 7) \ master_mask = {2, 0} /\ (0 .. 7) \ slave_mask = {0}
      BY <2>4 DEF MasksSoFar
    <3>3. (0 .. 7) \ master_mask' = {2, 0, 1} /\ (0 .. 7) \ slave_mask' = {0}
      BY <3>1, <3>2
    <3>4. boot' = 4
      BY <1>b, <2>4
    <3> QED
      BY <3>3, <3>4 DEF MasksSoFar
  <2>5. CASE boot = 4
    <3>1. master_mask' = master_mask /\ slave_mask' = slave_mask
      BY <1>b, <2>5 DEF boot_step
    <3>2. (0 .. 7) \ master_mask = {2, 0, 1} /\ (0 .. 7) \ slave_mask = {0}
      BY <2>5 DEF MasksSoFar
    <3>3. (0 .. 7) \ master_mask' = {2, 0, 1} /\ (0 .. 7) \ slave_mask' = {0}
      BY <3>1, <3>2
    <3>4. boot' = 5
      BY <1>b, <2>5
    <3> QED
      BY <3>3, <3>4 DEF MasksSoFar
  <2> QED
    BY <1>b, <2>1, <2>2, <2>3, <2>4, <2>5
<1>t. TypeOK'
  BY <1>b, <1>s, <1>u DEF TypeOK
<1>1. QuietBoot'
  BY <1>b, <1>q, <1>u DEF boot_step, QuietBoot, Booted
<1>2. ServiceIsTop'
  BY <1>q, <1>u DEF ServiceIsTop, EnteredNow
<1>3. SuspendedInPit'
  <2>1. \A p \in Process : \A k \in DOMAIN stack[p] : stack[p][k][2] # "entered"
    BY <1>q DEF SuspendedInPit, TypeOK
  <2> QED
    BY <1>u, <2>1 DEF SuspendedInPit
<1>4. SyscallAtomic'
  <2>1. \A p \in Process : mode[p] # "syscall"
    BY <1>q
  <2> QED
    BY <1>u, <2>1 DEF SyscallAtomic
<1> QED
  BY <1>m, <1>t, <1>1, <1>2, <1>3, <1>4

\* After the boot, exactly the handled lines and the cascade are unmasked, so
\* what the controllers offer has a handler.
LEMMA OffersAreHandled ==
  ASSUME TypeOK, MasksSoFar, Booted
  PROVE  /\ (0 .. 7) \ master_mask = {PIT_IRQ, KEYBOARD_IRQ, SLAVE_IRQ}
         /\ (0 .. 7) \ slave_mask = {RTC_IRQ - 8}
         /\ MasterOffers \subseteq {PIT_IRQ, KEYBOARD_IRQ, SLAVE_IRQ}
         /\ SlaveOffers \subseteq {RTC_IRQ - 8}
<1>1. boot = 5
  BY DEF Booted, BootOrder
<1>2. /\ (0 .. 7) \ master_mask = {PIT_IRQ, KEYBOARD_IRQ, SLAVE_IRQ}
      /\ (0 .. 7) \ slave_mask = {RTC_IRQ - 8}
  BY <1>1 DEF MasksSoFar
<1>3. SlaveOffers \subseteq (0 .. 7) \ slave_mask
  BY DEF SlaveOffers, Offered
<1>4. MasterOffers \subseteq (0 .. 7) \ master_mask
  BY DEF MasterOffers, Offered, SLAVE_IRQ
<1> QED
  BY <1>2, <1>3, <1>4

\* The CPU enters a wrapper only when no other is in service.
LEMMA DeliverStep ==
  ASSUME IInv, NEW q \in Devices, deliver(q)
  PROVE  IInv'
<1> USE DEF IInv
<1>1. Booted /\ IF_flag /\ IF_flag' = FALSE
  BY DEF deliver, QuietBoot, InterruptGate
<1>2. isr = {} /\ \A p \in Process : \A k \in DOMAIN stack[p] : stack[p][k][2] # "entered"
  <2>1. \A p \in Process : \A k \in DOMAIN stack[p] : stack[p][k][2] # "entered"
    BY <1>1 DEF SuspendedInPit
  <2>2. ~ EnteredNow
    BY <2>1, Popped DEF EnteredNow, TypeOK
  <2> QED
    BY <2>1, <2>2 DEF ServiceIsTop
<1>3. q \in Handled /\ isr' = InService(q)
  <2>1. CASE q \in MasterOffers \ {SLAVE_IRQ} /\ isr' = isr \cup {q}
    BY <1>1, <1>2, <2>1, OffersAreHandled
    DEF Handled, InService, PIT_IRQ, KEYBOARD_IRQ, SLAVE_IRQ
  <2>2. CASE SLAVE_IRQ \in MasterOffers /\ q - 8 \in SlaveOffers
               /\ isr' = isr \cup {q, SLAVE_IRQ}
    <3>1. q - 8 = 0 /\ q \in Int
      BY <1>1, <2>2, OffersAreHandled, InterruptsAssumption DEF RTC_IRQ
    <3> QED
      BY <1>2, <2>2, <3>1 DEF Handled, InService, RTC_IRQ
  <2> QED
    BY <2>1, <2>2 DEF deliver
<1>4. <<q, "entered">> \in Frame
  BY <1>3 DEF Frame
<1> DEFINE s == stack[current]
<1> DEFINE new == <<<<q, "entered">>>> \o s
<1>5. s \in Seq(Frame) /\ stack' = [stack EXCEPT ![current] = new] /\ current' = current
  BY DEF deliver, TypeOK
<1>6. /\ new \in Seq(Frame) /\ new # <<>> /\ Head(new) = <<q, "entered">>
      /\ DOMAIN new = 1 .. Len(s) + 1
      /\ \A k \in 2 .. Len(s) + 1 : k - 1 \in DOMAIN s /\ new[k] = s[k - 1]
  BY <1>4, <1>5, Pushed
<1>7. current \in Process /\ stack'[current] = new
      /\ \A p \in Process \ {current} : stack'[p] = stack[p]
  BY <1>5 DEF TypeOK
<1> HIDE DEF new
<1>8. TypeOK'
  BY <1>1, <1>5, <1>6 DEF deliver, TypeOK
<1>9. MasksSoFar'
  BY DEF deliver, MasksSoFar
<1>10. QuietBoot'
  BY <1>1 DEF deliver, QuietBoot, Booted
<1>11. ServiceIsTop'
  <2>1. EnteredNow' /\ Head(stack'[current'])[1] = q
    BY <1>5, <1>6, <1>7 DEF EnteredNow
  <2>2. isr' = InService(q)
    BY <1>3
  <2> QED
    BY <2>1, <2>2 DEF ServiceIsTop, InService
<1>12. SuspendedInPit'
  <2>1. \A p \in Process \ {current} : stack'[p] # <<>> /\ Head(stack'[p]) = <<PIT_IRQ, "leaving">>
    BY <1>7 DEF SuspendedInPit
  <2>2. ASSUME NEW p \in Process, NEW k \in DOMAIN stack'[p], stack'[p][k][2] = "entered"
        PROVE  p = current /\ k = 1
    <3>1. p = current
      BY <1>2, <1>7, <2>2
    <3>2. k \in 1 .. Len(s) + 1 /\ Len(s) \in Nat
      BY <1>5, <1>6, <1>7, <2>2, <3>1
    <3>3. ASSUME k # 1 PROVE FALSE
      <4>1. k - 1 \in DOMAIN s /\ new[k] = s[k - 1]
        BY <1>6, <3>2, <3>3
      <4> QED
        BY <1>2, <1>7, <2>2, <3>1, <4>1
    <3> QED
      BY <3>1, <3>3
  <2> QED
    BY <1>1, <1>5, <2>1, <2>2 DEF SuspendedInPit
<1>13. SyscallAtomic'
  BY <1>1 DEF deliver, SyscallAtomic
<1> QED
  BY <1>8, <1>9, <1>10, <1>11, <1>12, <1>13

\* The running wrapper ends its interrupt on both controllers: nothing is left
\* in service, and it counts as leaving from then on.
LEMMA EndOfInterrupt ==
  ASSUME IInv, NEW q \in Handled, Running(q),
         isr' = send_eoi(q),
         stack' = [stack EXCEPT ![current] = <<<<q, "leaving">>>> \o Tail(@)]
  PROVE  /\ Booted
         /\ isr' = {}
         /\ stack' \in [Process -> Seq(Frame)]
         /\ stack'[current] # <<>> /\ Head(stack'[current]) = <<q, "leaving">>
         /\ \A p \in Process \ {current} : stack'[p] = stack[p]
         /\ \A p \in Process : \A k \in DOMAIN stack'[p] : stack'[p][k][2] # "entered"
         /\ \A p \in Process : mode[p] # "syscall"
<1> USE DEF IInv
<1> DEFINE s == stack[current]
<1> DEFINE new == <<<<q, "leaving">>>> \o Tail(s)
<1>1. s \in Seq(Frame) /\ s # <<>> /\ Head(s) = <<q, "entered">> /\ current \in Process
  BY DEF Running, TypeOK
<1>2. /\ Tail(s) \in Seq(Frame)
      /\ \A k \in DOMAIN Tail(s) : k + 1 \in DOMAIN s /\ Tail(s)[k] = s[k + 1]
  BY <1>1, Popped
<1>3. <<q, "leaving">> \in Frame
  BY DEF Frame
<1>4. /\ new \in Seq(Frame) /\ new # <<>> /\ Head(new) = <<q, "leaving">>
      /\ DOMAIN new = 1 .. Len(Tail(s)) + 1
      /\ new[1] = <<q, "leaving">>
      /\ \A k \in 2 .. Len(Tail(s)) + 1 : k - 1 \in DOMAIN Tail(s) /\ new[k] = Tail(s)[k - 1]
  BY <1>2, <1>3, Pushed
<1>5. stack'[current] = new /\ \A p \in Process \ {current} : stack'[p] = stack[p]
  BY DEF TypeOK
<1>6. stack' \in [Process -> Seq(Frame)]
  BY <1>4 DEF TypeOK
<1>7. Booted
  BY <1>1 DEF QuietBoot
<1>8. isr' = {}
  <2>1. EnteredNow /\ Head(stack[current])[1] = q
    BY <1>1 DEF EnteredNow
  <2>2. isr = InService(q)
    BY <2>1 DEF ServiceIsTop
  <2> QED
    BY <2>2 DEF send_eoi, InService, Handled, PIT_IRQ, KEYBOARD_IRQ, RTC_IRQ, SLAVE_IRQ
<1>9. ASSUME NEW p \in Process, NEW k \in DOMAIN stack'[p], stack'[p][k][2] = "entered"
      PROVE  FALSE
  <2>1. CASE p # current
    BY <1>5, <1>9, <2>1 DEF SuspendedInPit
  <2>2. CASE p = current /\ k = 1
    BY <1>4, <1>5, <1>9, <2>2
  <2>3. CASE p = current /\ k # 1
    <3>1. k \in 2 .. Len(Tail(s)) + 1
      BY <1>2, <1>4, <1>5, <1>9, <2>3
    <3>2. k - 1 + 1 \in DOMAIN s /\ stack'[p][k] = s[k - 1 + 1] /\ k - 1 + 1 = k
      BY <1>2, <1>4, <1>5, <2>3, <3>1
    <3> QED
      BY <1>9, <2>3, <3>2 DEF SuspendedInPit
  <2> QED
    BY <2>1, <2>2, <2>3
<1>10. \A p \in Process : mode[p] # "syscall"
  BY <1>1 DEF SyscallAtomic
<1> QED
  BY <1>4, <1>5, <1>6, <1>7, <1>8, <1>9, <1>10

\* keyboard_interruption() and clock_interruption() keep the invariant.
LEMMA DeviceStep ==
  ASSUME IInv, NEW q \in Handled, device_interruption(q)
  PROVE  IInv'
<1>1. /\ Booted /\ isr' = {}
      /\ stack' \in [Process -> Seq(Frame)]
      /\ stack'[current] # <<>> /\ Head(stack'[current]) = <<q, "leaving">>
      /\ \A p \in Process \ {current} : stack'[p] = stack[p]
      /\ \A p \in Process : \A k \in DOMAIN stack'[p] : stack'[p][k][2] # "entered"
      /\ \A p \in Process : mode[p] # "syscall"
  BY EndOfInterrupt DEF device_interruption
<1>2. UNCHANGED <<boot, master_mask, slave_mask, irr, current, mode>> /\ IF_flag' = TRUE
  BY DEF device_interruption
<1>3. TypeOK' /\ MasksSoFar'
  BY <1>1, <1>2 DEF IInv, TypeOK, MasksSoFar
<1>4. QuietBoot'
  BY <1>1, <1>2 DEF QuietBoot, Booted
<1>5. ServiceIsTop'
  BY <1>1, <1>2 DEF ServiceIsTop, EnteredNow
<1>6. SuspendedInPit'
  BY <1>1, <1>2 DEF IInv, SuspendedInPit
<1>7. SyscallAtomic'
  BY <1>1, <1>2 DEF SyscallAtomic
<1> QED
  BY <1>3, <1>4, <1>5, <1>6, <1>7 DEF IInv

\* pit_interruption() leaves on a stack whose innermost wrapper is itself a
\* pit_interruption() that has ended its interrupt.
LEMMA PitStep == IInv /\ pit_interruption => IInv'
<1> SUFFICES ASSUME IInv, pit_interruption PROVE IInv'
  OBVIOUS
<1>q. PIT_IRQ \in Handled
  BY DEF Handled
<1>1. /\ Booted /\ isr' = {}
      /\ stack' \in [Process -> Seq(Frame)]
      /\ stack'[current] # <<>> /\ Head(stack'[current]) = <<PIT_IRQ, "leaving">>
      /\ \A p \in Process \ {current} : stack'[p] = stack[p]
      /\ \A p \in Process : \A k \in DOMAIN stack'[p] : stack'[p][k][2] # "entered"
      /\ \A p \in Process : mode[p] # "syscall"
  BY <1>q, EndOfInterrupt DEF pit_interruption
<1>2. UNCHANGED <<boot, master_mask, slave_mask, irr, IF_flag, mode>> /\ current' \in Process
  BY DEF pit_interruption
<1>3. \A p \in Process : stack'[p] # <<>> /\ Head(stack'[p]) = <<PIT_IRQ, "leaving">>
  BY <1>1 DEF IInv, SuspendedInPit
<1>4. TypeOK' /\ MasksSoFar'
  BY <1>1, <1>2 DEF IInv, TypeOK, MasksSoFar
<1>5. QuietBoot'
  BY <1>1, <1>2 DEF QuietBoot, Booted
<1>6. ServiceIsTop'
  BY <1>1, <1>2, <1>3 DEF ServiceIsTop, EnteredNow
<1>7. SuspendedInPit'
  BY <1>1, <1>2, <1>3 DEF SuspendedInPit
<1>8. SyscallAtomic'
  BY <1>1, <1>2 DEF SyscallAtomic
<1> QED
  BY <1>4, <1>5, <1>6, <1>7, <1>8 DEF IInv

\* The end of a wrapper uncovers only wrappers that have ended their interrupt.
LEMMA ReturnStep == IInv /\ handler_return => IInv'
<1> SUFFICES ASSUME IInv, handler_return PROVE IInv'
  OBVIOUS
<1> USE DEF IInv
<1> DEFINE s == stack[current]
<1>1. /\ s \in Seq(Frame) /\ s # <<>> /\ Head(s)[2] = "leaving" /\ current \in Process
      /\ stack' = [stack EXCEPT ![current] = Tail(s)]
      /\ UNCHANGED <<boot, master_mask, slave_mask, irr, isr, current, mode>>
      /\ IF_flag' \in BOOLEAN
  BY DEF handler_return, TypeOK
<1>2. /\ Head(s) = s[1]
      /\ Tail(s) \in Seq(Frame)
      /\ \A k \in DOMAIN Tail(s) : k + 1 \in DOMAIN s /\ Tail(s)[k] = s[k + 1]
  BY <1>1, Popped
<1>3. stack'[current] = Tail(s) /\ \A p \in Process \ {current} : stack'[p] = stack[p]
  BY <1>1 DEF TypeOK
<1>4. Booted /\ isr = {}
  BY <1>1 DEF QuietBoot, ServiceIsTop, EnteredNow
<1>5. \A p \in Process : \A k \in DOMAIN stack[p] : stack[p][k][2] # "entered"
  BY <1>1, <1>2 DEF SuspendedInPit
<1>6. \A p \in Process : \A k \in DOMAIN stack'[p] : stack'[p][k][2] # "entered"
  <2>1. ASSUME NEW k \in DOMAIN Tail(s) PROVE Tail(s)[k][2] # "entered"
    BY <1>1, <1>2, <1>5
  <2> QED
    BY <1>3, <1>5, <2>1
<1>7. TypeOK' /\ MasksSoFar'
  BY <1>1, <1>2 DEF TypeOK, MasksSoFar
<1>8. QuietBoot'
  BY <1>1, <1>4 DEF QuietBoot, Booted
<1>9. ServiceIsTop'
  <2>1. ~ EnteredNow'
    <3> SUFFICES ASSUME Tail(s) # <<>>, Head(Tail(s))[2] = "entered" PROVE FALSE
      BY <1>1, <1>3 DEF EnteredNow
    <3>1. Head(Tail(s)) = Tail(s)[1] /\ 1 \in DOMAIN Tail(s)
      BY <1>2, Popped
    <3> QED
      BY SMTT(20), <1>1, <1>3, <1>6, <3>1
  <2> QED
    BY <1>1, <1>4, <2>1 DEF ServiceIsTop
<1>10. SuspendedInPit'
  BY <1>1, <1>3, <1>6 DEF SuspendedInPit
<1>11. SyscallAtomic'
  BY <1>1 DEF SyscallAtomic
<1> QED
  BY <1>7, <1>8, <1>9, <1>10, <1>11

\* int 0x80, the sti() of read() and the iret at the end of a system call happen
\* on a stack without wrappers.
LEMMA SyscallStep == IInv /\ (syscall \/ read \/ syscall_return) => IInv'
<1> SUFFICES ASSUME IInv, syscall \/ read \/ syscall_return PROVE IInv'
  OBVIOUS
<1> USE DEF IInv
<1>1. /\ UNCHANGED <<boot, master_mask, slave_mask, irr, isr, current, stack>>
      /\ stack[current] = <<>> /\ current \in Process
  BY DEF syscall, read, syscall_return, InUserMode, TypeOK
<1>2. IF_flag' \in BOOLEAN
  BY DEF syscall, read, syscall_return, InterruptGate, UserFlag
<1>3. \E m \in {"user", "syscall", "read"} :
        mode' = [mode EXCEPT ![current] = m] /\ (m = "syscall" => ~ IF_flag')
  BY DEF syscall, read, syscall_return, InterruptGate
<1>4. Booted
  BY <1>1 DEF syscall, read, syscall_return, InUserMode, QuietBoot
<1>5. \A p \in Process : \A k \in DOMAIN stack[p] : stack[p][k][2] # "entered"
  BY <1>1 DEF SuspendedInPit
<1>6. TypeOK' /\ MasksSoFar'
  BY <1>1, <1>2, <1>3 DEF TypeOK, MasksSoFar
<1>7. QuietBoot'
  BY <1>1, <1>4 DEF QuietBoot, Booted
<1>8. ServiceIsTop'
  BY <1>1 DEF ServiceIsTop, EnteredNow
<1>9. SuspendedInPit'
  BY <1>1, <1>5 DEF SuspendedInPit
<1>10. SyscallAtomic'
  BY <1>1, <1>3 DEF SyscallAtomic, TypeOK
<1> QED
  BY <1>6, <1>7, <1>8, <1>9, <1>10

\* Every step preserves the invariant.
LEMMA NextIInv == IInv /\ [Next]_vars => IInv'
<1> SUFFICES ASSUME IInv, [Next]_vars PROVE IInv'
  OBVIOUS
<1>1. ASSUME NEW q \in Devices, request(q) PROVE IInv'
  <2>1. irr' \subseteq Devices /\ UNCHANGED <<boot, master_mask, slave_mask, isr, IF_flag, current, stack, mode>>
    BY <1>1 DEF IInv, TypeOK, request
  <2> QED
    BY <2>1 DEF IInv, TypeOK, MasksSoFar, QuietBoot, Booted, ServiceIsTop, EnteredNow,
                SuspendedInPit, SyscallAtomic
<1>2. CASE UNCHANGED vars
  BY <1>2 DEF vars, IInv, TypeOK, MasksSoFar, QuietBoot, Booted, ServiceIsTop, EnteredNow,
              SuspendedInPit, SyscallAtomic
<1> QED
  BY <1>1, <1>2, BootStep, DeliverStep, DeviceStep, PitStep, ReturnStep, SyscallStep DEF Next

\* The invariant holds in every reachable state.
LEMMA InterruptInvariant == Spec => []IInv
BY InitIInv, NextIInv, PTL DEF Spec

-----------------------------------------------------------------------------
(* What follows *)

\* Whenever the CPU takes interrupts nothing is in service: no handler that
\* waits on the stack of a process that is not scheduled holds up a device.
THEOREM AlwaysNothingHeldUp == Spec => []NothingHeldUp
<1>1. IInv => NothingHeldUp
  <2> SUFFICES ASSUME IInv, IF_flag PROVE isr = {}
    BY DEF NothingHeldUp
  <2>1. ~ EnteredNow
    BY Popped DEF IInv, TypeOK, SuspendedInPit, EnteredNow
  <2> QED
    BY <2>1 DEF IInv, ServiceIsTop
<1> QED
  BY <1>1, InterruptInvariant, PTL

\* enable_irq() leaves exactly the handled IRQs and the cascade unmasked, and
\* nothing else is ever in service, whatever devices raise their lines.
THEOREM AlwaysOnlyHandledDelivered == Spec => []OnlyHandledDelivered
<1>1. IInv => OnlyHandledDelivered
  <2> SUFFICES ASSUME IInv PROVE OnlyHandledDelivered
    OBVIOUS
  <2>1. Booted => /\ (0 .. 7) \ master_mask = {PIT_IRQ, KEYBOARD_IRQ, SLAVE_IRQ}
                  /\ (0 .. 7) \ slave_mask = {RTC_IRQ - 8}
    BY OffersAreHandled DEF IInv
  <2>2. isr \subseteq Handled \cup {SLAVE_IRQ}
    <3>1. CASE EnteredNow
      <4>1. Head(stack[current]) \in Frame
        BY <3>1, Popped DEF IInv, TypeOK, EnteredNow
      <4>2. Head(stack[current])[1] \in Handled
        BY <4>1 DEF Frame
      <4> QED
        BY <3>1, <4>2 DEF IInv, ServiceIsTop, InService
    <3>2. CASE ~ EnteredNow
      BY <3>2 DEF IInv, ServiceIsTop
    <3> QED
      BY <3>1, <3>2
  <2> QED
    BY <2>1, <2>2 DEF OnlyHandledDelivered
<1> QED
  BY <1>1, InterruptInvariant, PTL

\* Every process that does not run was left in pit_interruption() with its end
\* of interrupt sent, and only the running wrapper has an interrupt to end.
THEOREM AlwaysSuspendedInPit == Spec => []SuspendedInPit
<1>1. IInv => SuspendedInPit
  BY DEF IInv
<1> QED
  BY <1>1, InterruptInvariant, PTL

\* System calls other than read() are atomic: no interrupt and no other process
\* comes between their first and their last instruction, which is why the other
\* modules make one action of each.
THEOREM AlwaysSyscallAtomic == Spec => []SyscallAtomic
<1>1. IInv => SyscallAtomic
  BY DEF IInv
<1> QED
  BY <1>1, InterruptInvariant, PTL

-----------------------------------------------------------------------------
(* The real-time clock *)

\* The switch of rtc_write() leaves a rate the device knows.
LEMMA NewRateValid ==
  ASSUME rate \in ValidRates, NEW freq PROVE NewRate(freq) \in ValidRates
BY DEF NewRate

\* The inductive invariant of the clock: the flag of clock_interruption() is up only while
\* every program is due for a return, and so is a program that saw it up, even
\* when another one has taken it down in the meantime.
RtcInv ==
  /\ RtcTypeOK
  /\ interrupt_occurred = 1 => \A p \in Program : fresh[p]
  /\ \A p \in Program : pc[p] = "clear" => fresh[p]

\* rtc_init() establishes it.
LEMMA InitRtcInv == RtcInit => RtcInv
<1> SUFFICES ASSUME RtcInit PROVE RtcInv
  OBVIOUS
<1>1. rate \in ValidRates /\ interrupt_occurred = 0
  BY DEF RtcInit, ValidRates
<1>2. 0 \in 0 .. Contents - 1
  BY RtcAssumption
<1>3. RtcTypeOK
  BY <1>1, <1>2, RtcAssumption DEF RtcInit, RtcTypeOK
<1>4. \A p \in Program : fresh[p]
  BY DEF RtcInit
<1> QED
  BY <1>3, <1>4 DEF RtcInv

\* Every step of the clock, a program or the console preserves it.
LEMMA NextRtcInv == RtcInv /\ [RtcNext]_rtc_vars => RtcInv'
<1> SUFFICES ASSUME RtcInv, [RtcNext]_rtc_vars PROVE RtcInv'
  OBVIOUS
<1> USE RtcAssumption DEF RtcInv, RtcTypeOK
<1>1. CASE tick
  BY <1>1 DEF tick, video, calls
<1>2. CASE clock_interruption
  BY <1>2 DEF clock_interruption, ReadRegisterC, update_vid
<1>3. ASSUME NEW p \in Program, rtc_read(p) PROVE RtcInv'
  BY <1>3 DEF rtc_read, clock, video
<1>4. ASSUME NEW p \in Program, rtc_read_seen(p) PROVE RtcInv'
  BY <1>4 DEF rtc_read_seen, clock, video
<1>5. ASSUME NEW p \in Program, rtc_read_return(p) PROVE RtcInv'
  BY <1>5 DEF rtc_read_return, ClearFlag, video
<1>6. ASSUME NEW p \in Program, rtc_write(p) PROVE RtcInv'
  BY <1>6, NewRateValid DEF rtc_write, video, calls
<1>7. ASSUME NEW t \in Tty, terminal_output(t) PROVE RtcInv'
  <2>1. \A n \in 0 .. Contents - 1 : (n + 1) % Contents \in 0 .. Contents - 1
    OBVIOUS
  <2> QED
    BY <1>7, <2>1 DEF terminal_output, clock, calls
<1>8. ASSUME NEW t \in Tty, switch_terminal(t) PROVE RtcInv'
  BY <1>8 DEF switch_terminal, clock, calls
<1>9. CASE clear_the_screen
  BY <1>9 DEF clear_the_screen, clock, calls
<1>10. CASE UNCHANGED rtc_vars
  BY <1>10 DEF rtc_vars, clock, video, calls
<1> QED
  BY <1>1, <1>2, <1>3, <1>4, <1>5, <1>6, <1>7, <1>8, <1>9, <1>10 DEF RtcNext

\* Registers, flags and screens keep their types, and the rate stays one the
\* device knows, whatever frequencies programs ask rtc_write() for.
THEOREM RtcTypeCorrect == RtcSpec => []RtcTypeOK
<1>1. RtcInv => RtcTypeOK
  BY DEF RtcInv
<1> QED
  BY <1>1, InitRtcInv, NextRtcInv, PTL DEF RtcSpec

\* rtc_read() paces its caller: between two returns to the same program there
\* is a clock interrupt, for any number of readers of the one flag.
THEOREM AlwaysTickBetweenReads == RtcSpec => TickBetweenReads
<1>1. RtcInv => [\A p \in Program : pc[p] = "clear" /\ pc'[p] = "user" => fresh[p]]_rtc_vars
  BY DEF RtcInv
<1> QED
  BY <1>1, InitRtcInv, NextRtcInv, PTL DEF RtcSpec, TickBetweenReads
=============================================================================
