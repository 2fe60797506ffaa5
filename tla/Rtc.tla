-------------------------------- MODULE Rtc ---------------------------------
(***************************************************************************)
(* The real-time clock, student-distrib/rtc.c: a periodic interrupt that   *)
(* wakes rtc_read() through one flag and repaints the screen, at a rate    *)
(* any program may set with rtc_write().                                   *)
(*                                                                         *)
(* The interrupt handler, rtc_write() and terminal output run with         *)
(* interrupts off: one action each.  rtc_read() runs with interrupts on,   *)
(* between the test and the reset of the flag anything may happen.         *)
(***************************************************************************)
EXTENDS Integers

CONSTANTS
  Program,      \* the processes that use the clock
  Tty,          \* the terminals
  BootTty,      \* the one that is active first
  Requests,     \* the frequencies programs ask for
  Contents      \* a bound: how many contents of a video buffer are told apart

ValidRates == {0, 2, 4, 8, 16, 32, 64, 128, 256, 512, 1024}

ASSUME RtcAssumption ==
  /\ BootTty \in Tty
  /\ Requests \subseteq Nat
  /\ Contents \in Nat \ {0}

VARIABLES
  rate,                 \* RS of register A, as the frequency it stands for
  periodic_flag,        \* PF of register C; set until C is read
  irq8,                 \* an interrupt is on its way: an edge, sent when PF rises
  interrupt_occurred,
  active_term,
  video_buff,           \* the content of each terminal's buffer
  video_mem,            \* what the screen shows: a terminal and its content
  pc,                   \* each program: "user", or in rtc_read()
  fresh                 \* history: an interrupt came since the last return

clock == <<rate, periodic_flag, irq8, interrupt_occurred>>
video == <<active_term, video_buff, video_mem>>
calls == <<pc, fresh>>
rtc_vars == <<clock, video, calls>>

\* rtc_init() sets 32 Hz and lets periodic interrupts through.
RtcInit ==
  /\ rate = 32
  /\ periodic_flag = FALSE
  /\ irq8 = FALSE
  /\ interrupt_occurred = 0
  /\ active_term = BootTty
  /\ video_buff = [t \in Tty |-> 0]
  /\ video_mem = <<BootTty, 0>>
  /\ pc = [p \in Program |-> "user"]
  /\ fresh = [p \in Program |-> TRUE]

-----------------------------------------------------------------------------
\* The device: no new interrupt while the last one has not been read.
tick ==
  /\ rate # 0
  /\ ~ periodic_flag
  /\ periodic_flag' = TRUE
  /\ irq8' = TRUE
  /\ UNCHANGED <<rate, interrupt_occurred, video, calls>>

KeepRegisterC == periodic_flag

ReadRegisterC == FALSE

RepaintBootTty == <<BootTty, video_buff[BootTty]>>

update_vid == <<active_term, video_buff[active_term]>>

clock_interruption ==
  /\ irq8
  /\ irq8' = FALSE
  /\ periodic_flag' = ReadRegisterC
  /\ interrupt_occurred' = 1
  /\ video_mem' = update_vid
  /\ fresh' = [p \in Program |-> TRUE]
  /\ UNCHANGED <<rate, active_term, video_buff, pc>>

rtc_read(p) ==
  /\ pc[p] = "user"
  /\ pc' = [pc EXCEPT ![p] = "spin"]
  /\ UNCHANGED <<clock, video, fresh>>

rtc_read_seen(p) ==
  /\ pc[p] = "spin"
  /\ interrupt_occurred = 1
  /\ pc' = [pc EXCEPT ![p] = "clear"]
  /\ UNCHANGED <<clock, video, fresh>>

ClearNothing == interrupt_occurred

ClearFlag == 0

rtc_read_return(p) ==
  /\ pc[p] = "clear"
  /\ interrupt_occurred' = ClearFlag
  /\ pc' = [pc EXCEPT ![p] = "user"]
  /\ fresh' = [fresh EXCEPT ![p] = FALSE]
  /\ UNCHANGED <<rate, periodic_flag, irq8, video>>

\* The switch of rtc_write(): 2048 Hz and more, and what is not listed, fail.
NewRate(freq) == IF freq \in ValidRates THEN freq ELSE rate

rtc_write(p) ==
  /\ pc[p] = "user"
  /\ \E freq \in Requests : rate' = NewRate(freq)
  /\ UNCHANGED <<periodic_flag, irq8, interrupt_occurred, video, calls>>

-----------------------------------------------------------------------------
\* putc() changes the buffer of a terminal, never the screen itself.
terminal_output(t) ==
  /\ video_buff' = [video_buff EXCEPT ![t] = (@ + 1) % Contents]
  /\ UNCHANGED <<clock, active_term, video_mem, calls>>

\* Alt+Fn: set_active_term() and load_video_memory().
switch_terminal(t) ==
  /\ active_term # t
  /\ active_term' = t
  /\ video_mem' = <<t, video_buff[t]>>
  /\ UNCHANGED <<clock, video_buff, calls>>

\* Ctrl+L: clear() blanks the active buffer and the screen.
clear_the_screen ==
  /\ video_buff' = [video_buff EXCEPT ![active_term] = 0]
  /\ video_mem' = <<active_term, 0>>
  /\ UNCHANGED <<clock, active_term, calls>>

RtcNext ==
  \/ tick
  \/ clock_interruption
  \/ \E p \in Program : rtc_read(p)
  \/ \E p \in Program : rtc_read_seen(p)
  \/ \E p \in Program : rtc_read_return(p)
  \/ \E p \in Program : rtc_write(p)
  \/ \E t \in Tty : terminal_output(t)
  \/ \E t \in Tty : switch_terminal(t)
  \/ clear_the_screen

RtcSpec == RtcInit /\ [][RtcNext]_rtc_vars

\* The device keeps its rate, interrupts are delivered, and the scheduler runs
\* every process again and again (EveryTtyRuns of Processes).
RtcFairSpec ==
  /\ RtcSpec
  /\ WF_rtc_vars(tick)
  /\ WF_rtc_vars(clock_interruption)
  /\ \A p \in Program : WF_rtc_vars(rtc_read_seen(p)) /\ WF_rtc_vars(rtc_read_return(p))

-----------------------------------------------------------------------------
\* Every variable stays in its range; the rate is one the device knows.
RtcTypeOK ==
  /\ rate \in ValidRates
  /\ periodic_flag \in BOOLEAN /\ irq8 \in BOOLEAN
  /\ interrupt_occurred \in {0, 1}
  /\ active_term \in Tty
  /\ video_buff \in [Tty -> 0 .. Contents - 1]
  /\ video_mem \in Tty \X (0 .. Contents - 1)
  /\ pc \in [Program -> {"user", "spin", "clear"}]
  /\ fresh \in [Program -> BOOLEAN]

\* rtc_read() paces its caller: between two returns to the same program there
\* is a clock interrupt, whatever the other readers of the one flag do.
TickBetweenReads ==
  [][\A p \in Program : pc[p] = "clear" /\ pc'[p] = "user" => fresh[p]]_rtc_vars

\* rtc_read() never hangs for everybody: if the clock runs on, then either some
\* program's rtc_read() returns again and again or nobody stays in it.  One
\* reader may starve, because all of them consume the same flag; the readers
\* together may not, so a program that reads alone returns.
SomeReaderReturns ==
  <>[](rate # 0) =>
    \/ []<><<\E p \in Program : rtc_read_return(p)>>_rtc_vars
    \/ <>[](\A p \in Program : pc[p] = "user")

\* Unless a program stops the clock for good, the screen shows what is in the
\* active terminal's buffer again and again, since update_vid() copies it at
\* every interrupt, whatever is written and switched in between.
ScreenRepainted ==
  <>[](rate # 0) => []<>(video_mem = <<active_term, video_buff[active_term]>>)
=============================================================================
