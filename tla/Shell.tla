-------------------------------- MODULE Shell -------------------------------
(***************************************************************************)
(* The shell (syscalls/ece391shell.c) around the command line: it reads a  *)
(* line, passes it to execute(), waits for the program and reports how it  *)
(* went.  The line is what terminal_read() delivered, without its newline  *)
(* and ended by a NUL.  read(0) cannot return -1 to the shell, whose       *)
(* descriptor 0 is always open (OwnOperations of Descriptors).             *)
(*                                                                         *)
(* Next to it, what syscalls/ece391emulate.c makes of the same command on  *)
(* Linux, where the programs were developed.                               *)
(***************************************************************************)
EXTENDS Arguments, FiniteSetsExt

CONSTANTS
  Exit,            \* the command "exit"
  Results          \* what the main() of programs returns

ASSUME ShellAssumption == Exit \in Command /\ Results \subseteq Int

VARIABLES
  spc,             \* the shell: "prompt", "line", "execute", "program", "report"
  line,            \* its buf
  rval,            \* what ece391_execute() returned
  message,         \* what it printed last
  outcome          \* history: "refused", or what main() returned

shell == <<spc, line, rval, message, outcome>>

\* A command that execute() did not run.
Refused == [ran |-> FALSE, result |-> 0]
Ran(result) == [ran |-> TRUE, result |-> result]

ShellInit ==
  /\ Init
  /\ spc = "prompt"
  /\ line = << >>
  /\ rval = 0
  /\ message = "none"
  /\ outcome = Refused

-----------------------------------------------------------------------------
shell_read(c) ==
  /\ spc = "prompt"
  /\ spc' = "line"
  /\ line' = c
  /\ UNCHANGED <<vars, rval, message, outcome>>

\* main() returns 0, and halt() starts the shell again or lets its parent go on.
shell_exit ==
  /\ spc = "line"
  /\ line = Exit
  /\ spc' = "prompt"
  /\ line' = << >>
  /\ message' = "none"
  /\ UNCHANGED <<vars, rval, outcome>>

shell_empty_line ==
  /\ spc = "line"
  /\ line = << >>
  /\ spc' = "prompt"
  /\ UNCHANGED <<vars, line, rval, message, outcome>>

shell_execute ==
  /\ spc = "line"
  /\ line \notin {Exit, << >>}
  /\ execute(line)
  /\ spc' = "execute"
  /\ UNCHANGED <<line, rval, message, outcome>>

shell_parse ==
  /\ parse_first_space \/ parse_argument \/ parse_name \/ parse_end
  /\ UNCHANGED shell

\* execute() returns -1.
shell_refused ==
  /\ parse_fails \/ launch_fails
  /\ spc' = "report"
  /\ rval' = -1
  /\ outcome' = Refused
  /\ UNCHANGED <<line, message>>

shell_launch ==
  /\ launch
  /\ spc' = "program"
  /\ UNCHANGED <<line, rval, message, outcome>>

program_getargs(nbytes) ==
  /\ spc = "program"
  /\ getargs(nbytes)
  /\ UNCHANGED shell

SignExtended(status) == IF status % 256 < 128 THEN status % 256 ELSE (status % 256) - 256

\* halt() takes a uint8_t, and execute() returns it as a uint32_t.
StatusByte(status) == status % 256

\* _start halts with what main() returns; the program's buffer goes with it.
program_halt(result) ==
  /\ spc = "program"
  /\ spc' = "report"
  /\ rval' = StatusByte(result)
  /\ outcome' = Ran(result)
  /\ buf' = << >> /\ retval' = 0
  /\ UNCHANGED <<pc, parser, argbuf, started, line, message>>

shell_report ==
  /\ spc = "report"
  /\ message' = CASE rval = -1  -> "no such command"
                  [] rval = 256 -> "program terminated by exception"
                  [] rval = 0   -> "none"
                  [] OTHER      -> "program terminated abnormally"
  /\ spc' = "prompt"
  /\ line' = << >>
  /\ rval' = 0
  /\ outcome' = Refused
  /\ UNCHANGED vars

ShellNext ==
  \/ \E c \in Command : shell_read(c)
  \/ shell_exit
  \/ shell_empty_line
  \/ shell_execute
  \/ shell_parse
  \/ shell_refused
  \/ shell_launch
  \/ \E nbytes \in BufferSizes : program_getargs(nbytes)
  \/ \E result \in Results : program_halt(result)
  \/ shell_report

ShellSpec == ShellInit /\ [][ShellNext]_<<vars, shell>>

-----------------------------------------------------------------------------
(* ece391_execute() and ece391_getargs() of the emulation *)

\* Where a word behind the first begins.
IsWordStart(c, k) == k \in 2 .. Len(c) /\ c[k] # "space" /\ c[k - 1] = "space"

\* The scan of the command: args[n_arg++] = scan at each such place.
emulated_args(c) ==
  LET args[k \in 0 .. Len(c)] ==
        IF k = 0 THEN << >>
        ELSE IF IsWordStart(c, k) THEN Append(args[k - 1], k) ELSE args[k - 1]
  IN  args[Len(c)]

\* The string at such a pointer: the scan puts a '\0' over the space behind a word.
WordAt(c, k) ==
  SubSeq(c, k, Min({j \in k .. Len(c) + 1 : j = Len(c) + 1 \/ c[j] = "space"}) - 1)

NoRoomForNul(left) == left < 0

\* The test before the last '\0'.
NoRoomLeft(left) == left < 1

Refuses == [retval |-> -1, buf |-> << >>, left |-> 0]

\* A pass of the loop of ece391_getargs(): a word, and a space if one more follows.
Joined(was, word, isLast) ==
  LET piece == IF isLast THEN word ELSE Append(word, "space")
  IN  IF was.retval = -1 \/ Len(piece) > was.left THEN Refuses
      ELSE [retval |-> 0, buf |-> was.buf \o piece, left |-> was.left - Len(piece)]

\* The loop over the words, left bytes of the buffer free, and the last '\0'.
emulated_getargs(c, nbytes) ==
  LET words == emulated_args(c)
      joined[w \in 0 .. Len(words)] ==
        IF w = 0 THEN [retval |-> 0, buf |-> << >>, left |-> nbytes]
        ELSE Joined(joined[w - 1], WordAt(c, words[w]), w = Len(words))
      all == joined[Len(words)]
  IN  IF all.retval = -1 \/ NoRoomLeft(all.left) THEN [retval |-> -1, buf |-> << >>]
      ELSE [retval |-> 0, buf |-> all.buf]

-----------------------------------------------------------------------------
\* The shell says "no such command" exactly when execute() refused the command
\* and "terminated abnormally" exactly when the program ended with a status
\* other than 0, whatever main() returned: a program that returns -1 is not
\* taken for a missing one, and nothing is ever reported as an exception.
ShellReports ==
  [][spc = "report" /\ spc' = "prompt" =>
       message' = IF ~ outcome.ran THEN "no such command"
                  ELSE IF outcome.result % 256 = 0 THEN "none"
                  ELSE "program terminated abnormally"]_<<vars, shell>>

\* A program gets the same arguments from this kernel as from the Linux
\* emulation when there is one space between words, except for arguments that
\* fill the buffer exactly: the emulation refuses them, because their null byte
\* does not fit, and the kernel does not.
EmulationAgrees ==
  spc = "program" /\ Spaces(started) # {} =>
    \A nbytes \in BufferSizes :
      LET args == ArgumentsOf(started)
          singleSpaced == \A k \in Spaces(args) : k \in 2 .. Len(args) - 1 /\ args[k + 1] # "space"
      IN  singleSpaced =>
            emulated_getargs(started, nbytes) =
              IF DoNotFit(nbytes) \/ nbytes = Len(args) THEN [retval |-> -1, buf |-> << >>]
              ELSE [retval |-> 0, buf |-> argbuf]
=============================================================================
