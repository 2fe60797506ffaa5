------------------------------ MODULE Arguments -----------------------------
(***************************************************************************)
(* The command line: the loop of execute() (student-distrib/syscalls.c)    *)
(* that splits a command into a file name and arguments, the copy of the   *)
(* arguments into the PCB, and getargs(), which hands them to the program. *)
(* localargbuf lives on the kernel stack and starts with whatever an       *)
(* earlier call left there.                                                *)
(***************************************************************************)
EXTENDS Integers, Sequences, SequencesExt

CONSTANTS
  Letters,        \* the characters of names and arguments but "space"
  MaxCommand,     \* bound: the longest command given
  FNAME_SIZE,     \* 32 in the code: the longest name
  BufferSizes     \* the nbytes of getargs()

ASSUME ArgumentsAssumption ==
  /\ MaxCommand \in Nat /\ FNAME_SIZE \in Nat /\ BufferSizes \subseteq Nat
  /\ "space" \notin Letters /\ "NUL" \notin Letters

Command == BoundedSeq(Letters \cup {"space"}, MaxCommand)
Index   == 0 .. MaxCommand

VARIABLES
  pc,                  \* "idle", "parse", "parsed"
  command, i, first_space_reached, length_of_fname, fname, localargbuf,
  argbuf,              \* the PCB's copy
  started,             \* history: the command of the program in the PCB
  buf, retval          \* the buffer of the last getargs() and its result

parser == <<command, i, first_space_reached, length_of_fname, fname, localargbuf>>
vars   == <<pc, parser, argbuf, started, buf, retval>>

\* The string in a character array, up to its '\0'.
StringAt(a) == LET ends == {k \in DOMAIN a : a[k] = "NUL"}
                   end  == IF ends = {} THEN MaxCommand + 1
                           ELSE CHOOSE k \in ends : \A j \in ends : k <= j
               IN  [k \in 1 .. end |-> a[k - 1]]

NoText == [k \in Index |-> "NUL"]

Init ==
  /\ pc = "idle"
  /\ command = <<>> /\ i = 0 /\ first_space_reached = 0 /\ length_of_fname = 0
  /\ fname = NoText /\ localargbuf = NoText
  /\ argbuf = <<>> /\ started = <<>>
  /\ buf = <<>> /\ retval = 0

\* execute() is left, and with it its locals.
Leave ==
  /\ pc' = "idle"
  /\ command' = <<>> /\ i' = 0 /\ first_space_reached' = 0 /\ length_of_fname' = 0
  /\ fname' = NoText /\ localargbuf' = NoText

-----------------------------------------------------------------------------
\* execute() is entered; the stack holds old bytes.
execute(c) ==
  /\ pc = "idle"
  /\ pc' = "parse"
  /\ command' = c /\ i' = 0 /\ first_space_reached' = 0 /\ length_of_fname' = 0
  /\ fname' = NoText
  /\ localargbuf' \in [Index -> Letters \cup {"NUL"}]
  /\ UNCHANGED <<argbuf, started, buf, retval>>

AtChar == pc = "parse" /\ i < Len(command)
Char   == command[i + 1]

NoteEverySpace == AtChar /\ Char = "space"

IsFirstSpace == AtChar /\ Char = "space" /\ first_space_reached = 0

parse_first_space ==
  /\ IsFirstSpace
  /\ first_space_reached' = 1
  /\ length_of_fname' = i
  /\ fname' = [fname EXCEPT ![i] = "NUL"]
  /\ i' = i + 1
  /\ UNCHANGED <<pc, command, localargbuf, argbuf, started, buf, retval>>

parse_argument ==
  /\ AtChar /\ ~ IsFirstSpace /\ first_space_reached = 1
  /\ localargbuf' = [localargbuf EXCEPT ![i - length_of_fname - 1] = Char]
  /\ i' = i + 1
  /\ UNCHANGED <<pc, command, first_space_reached, length_of_fname, fname, argbuf,
                 started, buf, retval>>

NeverTooLong == FALSE

NameTooLong == i >= FNAME_SIZE

parse_name ==
  /\ AtChar /\ ~ IsFirstSpace /\ first_space_reached = 0 /\ ~ NameTooLong
  /\ fname' = [fname EXCEPT ![i] = Char]
  /\ i' = i + 1
  /\ UNCHANGED <<pc, command, first_space_reached, length_of_fname, localargbuf,
                 argbuf, started, buf, retval>>

parse_fails ==
  /\ AtChar /\ ~ IsFirstSpace /\ first_space_reached = 0 /\ NameTooLong
  /\ Leave
  /\ UNCHANGED <<argbuf, started, buf, retval>>

\* Both strings are terminated; without a space the '\0' of the arguments is
\* put at i - 1 (of an empty command before the array, where it is lost).
parse_end ==
  /\ pc = "parse" /\ i = Len(command)
  /\ localargbuf' = [localargbuf EXCEPT ![i - length_of_fname - 1] = "NUL"]
  /\ fname' = IF first_space_reached = 0 THEN [fname EXCEPT ![i] = "NUL"] ELSE fname
  /\ pc' = "parsed"
  /\ UNCHANGED <<command, i, first_space_reached, length_of_fname, argbuf, started,
                 buf, retval>>

\* No such file, not a program or no free process.
launch_fails ==
  /\ pc = "parsed"
  /\ Leave
  /\ UNCHANGED <<argbuf, started, buf, retval>>

CopyArguments == StringAt(localargbuf)

launch ==
  /\ pc = "parsed"
  /\ argbuf' = CopyArguments
  /\ started' = command
  /\ Leave
  /\ UNCHANGED <<buf, retval>>

DoNotFit(nbytes) == nbytes = 0 \/ Len(argbuf) > nbytes

getargs(nbytes) ==
  /\ pc = "idle"
  /\ IF DoNotFit(nbytes)
     THEN retval' = -1 /\ buf' = <<>>
     ELSE retval' = 0 /\ buf' = argbuf
  /\ UNCHANGED <<pc, parser, argbuf, started>>

Next ==
  \/ \E c \in Command : execute(c)
  \/ parse_first_space \/ parse_argument \/ parse_name \/ parse_fails \/ parse_end
  \/ launch_fails \/ launch
  \/ \E nbytes \in BufferSizes : getargs(nbytes)

Spec == Init /\ [][Next]_vars

-----------------------------------------------------------------------------
Spaces(c)      == {k \in 1 .. Len(c) : c[k] = "space"}
FirstSpace(c)  == CHOOSE k \in Spaces(c) : \A j \in Spaces(c) : k <= j
NameOf(c)      == IF Spaces(c) = {} THEN c ELSE SubSeq(c, 1, FirstSpace(c) - 1)
ArgumentsOf(c) == IF Spaces(c) = {} THEN <<>> ELSE SubSeq(c, FirstSpace(c) + 1, Len(c))

\* The loop of execute() computes what a split at the first space defines:
\* the file name is the text before it (all of it without one), at most
\* FNAME_SIZE characters long; a longer name never leaves the loop.
NameIsFirstWord ==
  pc = "parsed" => /\ StringAt(fname) = NameOf(command)
                   /\ Len(NameOf(command)) <= FNAME_SIZE

\* A program that was given a space and arguments gets exactly the text after
\* the first space from getargs(), later spaces included, whatever bytes the
\* kernel stack held and whatever was refused before.
ArgumentsArrive ==
  [][\A nbytes \in BufferSizes :
       getargs(nbytes) /\ Spaces(started) # {} /\ retval' = 0 =>
         buf' = ArgumentsOf(started)]_vars
=============================================================================
