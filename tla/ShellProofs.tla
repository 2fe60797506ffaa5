---------------------------- MODULE ShellProofs -----------------------------
(***************************************************************************)
(* Proofs about the command line and the shell, for commands, file names   *)
(* and buffers of any length.                                              *)
(***************************************************************************)
EXTENDS Shell, SequenceTheorems, WellFoundedInduction, TLAPS

\* Every leaf is tried with the SMT solver, then with Zenon, then with more time.
USE SMTT(10), ZenonT(20), SMTT(60)

-----------------------------------------------------------------------------
(* Strings in character arrays *)

Characters == Letters \cup {"space"}
Array      == [Index -> Characters \cup {"NUL"}]

\* A command is a sequence of characters that fits the model's arrays.
LEMMA CommandIsText ==
  ASSUME NEW c \in Command
  PROVE  c \in Seq(Characters) /\ Len(c) \in Index
<1>1. PICK m \in 0 .. MaxCommand : c \in [1 .. m -> Characters]
  BY DEF Command, BoundedSeq, SeqOf, Characters
<1>2. m \in Nat
  BY <1>1, ArgumentsAssumption
<1> QED
  BY <1>1, <1>2 DEF Index

\* The string in an array ends before its first '\0'.
LEMMA StringEnds ==
  ASSUME NEW a, DOMAIN a = Index, NEW n \in Index, a[n] = "NUL",
         \A k \in 0 .. n - 1 : a[k] # "NUL"
  PROVE  StringAt(a) = [k \in 1 .. n |-> a[k - 1]]
<1> DEFINE ends == {k \in DOMAIN a : a[k] = "NUL"}
           least == CHOOSE k \in ends : \A j \in ends : k <= j
<1>1. n \in ends /\ \A j \in ends : n <= j
  BY ArgumentsAssumption DEF Index
<1>2. least \in ends /\ \A j \in ends : least <= j
  BY <1>1
<1>3. \A j \in ends : j \in Int
  BY ArgumentsAssumption DEF Index
<1> HIDE DEF ends, least
<1>4. least = n
  <2>1. least <= n /\ n <= least /\ least \in Int /\ n \in Int
    BY <1>1, <1>2, <1>3
  <2> QED
    BY <2>1
<1>5. StringAt(a) = [k \in 1 .. (IF ends = {} THEN MaxCommand + 1 ELSE least) |-> a[k - 1]]
  BY DEF StringAt, ends, least
<1> QED
  BY <1>1, <1>4, <1>5

\* The first space of a command.
LEMMA FirstSpaceAt ==
  ASSUME NEW c \in Seq(Characters), NEW n \in 1 .. Len(c), c[n] = "space",
         \A k \in 1 .. n - 1 : c[k] # "space"
  PROVE  Spaces(c) # {} /\ FirstSpace(c) = n
<1>1. n \in Spaces(c) /\ \A j \in Spaces(c) : j \in Int /\ n <= j
  BY DEF Spaces
<1>2. FirstSpace(c) \in Spaces(c) /\ \A j \in Spaces(c) : FirstSpace(c) <= j
  BY <1>1 DEF FirstSpace
<1>3. FirstSpace(c) <= n /\ n <= FirstSpace(c) /\ FirstSpace(c) \in Int /\ n \in Int
  BY <1>1, <1>2
<1> QED
  BY <1>1, <1>3

-----------------------------------------------------------------------------
(* The loop of execute() *)

\* Before the first space: what was read is copied to fname.
InName ==
  /\ \A k \in 1 .. i : command[k] # "space"
  /\ i <= FNAME_SIZE
  /\ length_of_fname = 0
  /\ \A k \in 0 .. i - 1 : fname[k] = command[k + 1]

\* Behind it: fname is complete, and what follows the space is copied.
InArguments ==
  /\ length_of_fname \in 0 .. i - 1
  /\ length_of_fname <= FNAME_SIZE
  /\ command[length_of_fname + 1] = "space"
  /\ \A k \in 1 .. length_of_fname : command[k] # "space"
  /\ \A k \in 0 .. length_of_fname - 1 : fname[k] = command[k + 1]
  /\ fname[length_of_fname] = "NUL"
  /\ \A k \in 0 .. i - length_of_fname - 2 : localargbuf[k] = command[length_of_fname + k + 2]

\* Behind the loop both strings are terminated.
Terminated ==
  /\ i = Len(command)
  /\ first_space_reached = 0 => fname[i] = "NUL"
  /\ first_space_reached = 1 => localargbuf[i - length_of_fname - 1] = "NUL"

ArgumentsTypeOK ==
  /\ pc \in {"idle", "parse", "parsed"}
  /\ command \in Seq(Characters) /\ Len(command) \in Index
  /\ i \in 0 .. Len(command)
  /\ first_space_reached \in {0, 1}
  /\ length_of_fname \in Nat
  /\ fname \in Array /\ localargbuf \in Array

\* The inductive invariant of execute(), and what the PCB's copy holds after it.
ArgumentsInv ==
  /\ ArgumentsTypeOK
  /\ pc # "idle" /\ first_space_reached = 0 => InName
  /\ pc # "idle" /\ first_space_reached = 1 => InArguments
  /\ pc = "parsed" => Terminated
  /\ Spaces(started) # {} => argbuf = ArgumentsOf(started)

\* No call of execute() is under way.
LEMMA IdleArguments ==
  ASSUME pc = "idle", command = << >>, i = 0, first_space_reached = 0, length_of_fname = 0,
         fname = NoText, localargbuf = NoText, Spaces(started) # {} => argbuf = ArgumentsOf(started)
  PROVE  ArgumentsInv
<1>1. command \in Seq(Characters) /\ Len(command) = 0 /\ 0 \in Index /\ length_of_fname \in Nat
  BY ArgumentsAssumption DEF Index
<1>2. NoText \in Array
  BY DEF NoText, Array
<1>3. ArgumentsTypeOK
  BY <1>1, <1>2 DEF ArgumentsTypeOK
<1> QED
  BY <1>3 DEF ArgumentsInv

\* No program has been started.
LEMMA InitArguments == Init => ArgumentsInv
<1> SUFFICES ASSUME Init PROVE ArgumentsInv
  OBVIOUS
<1>1. started = << >>
  BY DEF Init
<1>2. Spaces(started) = {}
  BY <1>1 DEF Spaces
<1> QED
  BY <1>2, IdleArguments DEF Init

\* execute() is left with or without a program.
LEMMA LeaveArguments ==
  ASSUME Leave, (Spaces(started) # {} => argbuf = ArgumentsOf(started))'
  PROVE  ArgumentsInv'
<1>2. /\ command' \in Seq(Characters) /\ Len(command') = 0 /\ 0 \in Index /\ 0 \in Nat
  BY ArgumentsAssumption DEF Leave, Index
<1>3. NoText \in Array
  BY DEF NoText, Array
<1>4. ArgumentsTypeOK'
  BY <1>2, <1>3 DEF ArgumentsTypeOK, Leave
<1> QED
  BY <1>4 DEF ArgumentsInv, Leave

\* execute() starts to read a command, whatever the stack holds.
LEMMA ExecuteArguments ==
  ASSUME ArgumentsInv, NEW c \in Command, execute(c)
  PROVE  ArgumentsInv'
<1>1. /\ pc' = "parse" /\ command' = c /\ i' = 0 /\ first_space_reached' = 0
      /\ length_of_fname' = 0 /\ fname' = NoText /\ UNCHANGED <<argbuf, started>>
      /\ localargbuf' \in [Index -> Letters \cup {"NUL"}]
  BY DEF execute
<1>2. c \in Seq(Characters) /\ Len(c) \in Index /\ 0 \in 0 .. Len(c)
  BY CommandIsText, ArgumentsAssumption DEF Index
<1>3. NoText \in Array /\ localargbuf' \in Array
  BY <1>1 DEF NoText, Array, Characters
<1>4. ArgumentsTypeOK'
  BY <1>1, <1>2, <1>3 DEF ArgumentsTypeOK
<1>5. InName'
  BY <1>1, ArgumentsAssumption DEF InName
<1>6. (Spaces(started) # {} => argbuf = ArgumentsOf(started))'
  BY <1>1 DEF ArgumentsInv
<1> QED
  BY <1>1, <1>4, <1>5, <1>6 DEF ArgumentsInv

\* The first space ends the name.
LEMMA FirstSpaceArguments ==
  ASSUME ArgumentsInv, parse_first_space
  PROVE  ArgumentsInv'
<1>1. /\ pc = "parse" /\ i < Len(command) /\ command[i + 1] = "space" /\ first_space_reached = 0
      /\ first_space_reached' = 1 /\ length_of_fname' = i /\ i' = i + 1
      /\ fname' = [fname EXCEPT ![i] = "NUL"]
      /\ UNCHANGED <<pc, command, localargbuf, argbuf, started>>
  BY DEF parse_first_space, IsFirstSpace, AtChar, Char
<1>2. /\ ArgumentsTypeOK /\ InName
      /\ Spaces(started) # {} => argbuf = ArgumentsOf(started)
  BY <1>1 DEF ArgumentsInv
<1>3. /\ i \in Nat /\ i + 1 \in 0 .. Len(command) /\ i \in Index
  BY <1>1, <1>2, ArgumentsAssumption DEF ArgumentsTypeOK, Index
<1>4. ArgumentsTypeOK'
  <2>1. fname' \in Array
    BY <1>1, <1>2 DEF ArgumentsTypeOK, Array
  <2> QED
    BY <1>1, <1>2, <1>3, <2>1 DEF ArgumentsTypeOK
<1>5. InArguments'
  <2>1. DOMAIN fname = Index
    BY <1>2 DEF ArgumentsTypeOK, Array
  <2>2. fname'[i] = "NUL" /\ \A k \in 0 .. i - 1 : fname'[k] = fname[k]
    BY <1>1, <1>3, <2>1, ArgumentsAssumption DEF Index
  <2> QED
    BY <1>1, <1>2, <1>3, <2>2 DEF InName, InArguments
<1> QED
  BY <1>1, <1>2, <1>4, <1>5 DEF ArgumentsInv

\* A character behind the first space goes to localargbuf.
LEMMA ArgumentArguments ==
  ASSUME ArgumentsInv, parse_argument
  PROVE  ArgumentsInv'
<1>1. /\ pc = "parse" /\ i < Len(command) /\ first_space_reached = 1 /\ i' = i + 1
      /\ localargbuf' = [localargbuf EXCEPT ![i - length_of_fname - 1] = command[i + 1]]
      /\ UNCHANGED <<pc, command, first_space_reached, length_of_fname, fname, argbuf, started>>
  BY DEF parse_argument, AtChar, Char
<1>2. /\ ArgumentsTypeOK /\ InArguments
      /\ Spaces(started) # {} => argbuf = ArgumentsOf(started)
  BY <1>1 DEF ArgumentsInv
<1>3. /\ i \in Nat /\ i + 1 \in 0 .. Len(command) /\ length_of_fname \in 0 .. i - 1
      /\ i - length_of_fname - 1 \in Index
  BY <1>1, <1>2, ArgumentsAssumption DEF ArgumentsTypeOK, InArguments, Index
<1>4. command[i + 1] \in Characters
  BY <1>1, <1>2, <1>3 DEF ArgumentsTypeOK
<1>5. ArgumentsTypeOK'
  <2>1. localargbuf' \in Array
    BY <1>1, <1>2, <1>4 DEF ArgumentsTypeOK, Array
  <2> QED
    BY <1>1, <1>2, <1>3, <2>1 DEF ArgumentsTypeOK
<1>6. InArguments'
  <2>1. DOMAIN localargbuf = Index
    BY <1>2 DEF ArgumentsTypeOK, Array
  <2>2. \A k \in 0 .. i - length_of_fname - 2 :
          localargbuf'[k] = command[length_of_fname + k + 2]
    BY <1>1, <1>2, <1>3, <2>1, ArgumentsAssumption DEF InArguments, Index
  <2>3. localargbuf'[i - length_of_fname - 1] = command[i + 1]
    BY <1>1, <1>3, <2>1
  <2>4. \A k \in 0 .. i' - length_of_fname - 2 :
          localargbuf'[k] = command[length_of_fname + k + 2]
    <3> TAKE k \in 0 .. i' - length_of_fname - 2
    <3>1. CASE k = i - length_of_fname - 1
      <4>1. length_of_fname + k + 2 = i + 1
        BY <1>3, <3>1
      <4> QED
        BY <2>3, <3>1, <4>1
    <3>2. CASE k \in 0 .. i - length_of_fname - 2
      BY <2>2, <3>2
    <3>3. k = i - length_of_fname - 1 \/ k \in 0 .. i - length_of_fname - 2
      BY <1>1, <1>3
    <3> QED
      BY <3>1, <3>2, <3>3
  <2>5. length_of_fname \in 0 .. i' - 1
    BY <1>1, <1>3
  <2> QED
    BY <1>1, <1>2, <2>4, <2>5 DEF InArguments
<1> QED
  BY <1>1, <1>2, <1>5, <1>6 DEF ArgumentsInv

\* A character before it goes to fname.
LEMMA NameArguments ==
  ASSUME ArgumentsInv, parse_name
  PROVE  ArgumentsInv'
<1>1. /\ pc = "parse" /\ i < Len(command) /\ first_space_reached = 0 /\ ~ (i >= FNAME_SIZE)
      /\ ~ IsFirstSpace /\ i' = i + 1
      /\ fname' = [fname EXCEPT ![i] = command[i + 1]]
      /\ UNCHANGED <<pc, command, first_space_reached, length_of_fname, localargbuf, argbuf, started>>
  BY DEF parse_name, AtChar, Char, NameTooLong
<1>2. /\ ArgumentsTypeOK /\ InName
      /\ Spaces(started) # {} => argbuf = ArgumentsOf(started)
  BY <1>1 DEF ArgumentsInv
<1>3. i \in Nat /\ i + 1 \in 0 .. Len(command) /\ i \in Index /\ i + 1 <= FNAME_SIZE
  BY <1>1, <1>2, ArgumentsAssumption DEF ArgumentsTypeOK, Index
<1>4. command[i + 1] \in Characters /\ command[i + 1] # "space"
  <2>1. command[i + 1] \in Characters
    BY <1>1, <1>2, <1>3 DEF ArgumentsTypeOK
  <2> QED
    BY <1>1, <2>1 DEF IsFirstSpace, AtChar, Char
<1>5. ArgumentsTypeOK'
  <2>1. fname' \in Array
    BY <1>1, <1>2, <1>4 DEF ArgumentsTypeOK, Array
  <2> QED
    BY <1>1, <1>2, <1>3, <2>1 DEF ArgumentsTypeOK
<1>6. InName'
  <2>1. DOMAIN fname = Index
    BY <1>2 DEF ArgumentsTypeOK, Array
  <2>2. fname'[i] = command[i + 1] /\ \A k \in 0 .. i - 1 : fname'[k] = command[k + 1]
    BY <1>1, <1>2, <1>3, <2>1, ArgumentsAssumption DEF InName, Index
  <2>3. \A k \in 1 .. i + 1 : command[k] # "space"
    BY <1>2, <1>3, <1>4 DEF InName
  <2>4. \A k \in 0 .. i : fname'[k] = command[k + 1]
    BY <1>3, <2>2
  <2>5. i + 1 - 1 = i
    BY <1>3
  <2> QED
    BY <1>1, <1>2, <1>3, <2>3, <2>4, <2>5 DEF InName
<1> QED
  BY <1>1, <1>2, <1>5, <1>6 DEF ArgumentsInv

\* Behind the last character both strings get their '\0', and nothing that was
\* copied is lost.
LEMMA EndArguments ==
  ASSUME ArgumentsInv, parse_end
  PROVE  ArgumentsInv'
<1>1. /\ pc = "parse" /\ i = Len(command) /\ pc' = "parsed"
      /\ localargbuf' = [localargbuf EXCEPT ![i - length_of_fname - 1] = "NUL"]
      /\ fname' = IF first_space_reached = 0 THEN [fname EXCEPT ![i] = "NUL"] ELSE fname
      /\ UNCHANGED <<command, i, first_space_reached, length_of_fname, argbuf, started>>
  BY DEF parse_end
<1>2. /\ ArgumentsTypeOK
      /\ first_space_reached = 0 => InName
      /\ first_space_reached = 1 => InArguments
      /\ Spaces(started) # {} => argbuf = ArgumentsOf(started)
  BY <1>1 DEF ArgumentsInv
<1>3. i \in Nat /\ i \in Index /\ length_of_fname \in Nat
  BY <1>1, <1>2, ArgumentsAssumption DEF ArgumentsTypeOK, Index
<1>4. DOMAIN fname = Index /\ DOMAIN localargbuf = Index
  BY <1>2 DEF ArgumentsTypeOK, Array
<1>5. ArgumentsTypeOK'
  <2>1. fname' \in Array /\ localargbuf' \in Array
    BY <1>1, <1>2 DEF ArgumentsTypeOK, Array
  <2> QED
    BY <1>1, <1>2, <2>1 DEF ArgumentsTypeOK
<1>6. CASE first_space_reached = 0
  <2>1. fname'[i] = "NUL" /\ \A k \in 0 .. i - 1 : fname'[k] = fname[k]
    BY <1>1, <1>3, <1>4, <1>6, ArgumentsAssumption DEF Index
  <2>2. InName'
    BY <1>1, <1>2, <1>6, <2>1 DEF InName
  <2>3. Terminated'
    BY <1>1, <1>6, <2>1 DEF Terminated
  <2> QED
    BY <1>1, <1>2, <1>5, <1>6, <2>2, <2>3 DEF ArgumentsInv
<1>7. CASE first_space_reached = 1
  <2>1. length_of_fname \in 0 .. i - 1 /\ i - length_of_fname - 1 \in Index
    BY <1>2, <1>3, <1>7, ArgumentsAssumption DEF InArguments, Index
  <2>2. /\ localargbuf'[i - length_of_fname - 1] = "NUL"
        /\ \A k \in 0 .. i - length_of_fname - 2 : localargbuf'[k] = localargbuf[k]
    BY <1>1, <1>3, <1>4, <2>1, ArgumentsAssumption DEF Index
  <2>3. InArguments'
    BY <1>1, <1>2, <1>7, <2>2 DEF InArguments
  <2>4. Terminated'
    BY <1>1, <1>7, <2>2 DEF Terminated
  <2> QED
    BY <1>1, <1>2, <1>5, <1>7, <2>3, <2>4 DEF ArgumentsInv
<1>8. first_space_reached = 0 \/ first_space_reached = 1
  BY <1>2 DEF ArgumentsTypeOK
<1> QED
  BY <1>6, <1>7, <1>8

\* What the two arrays hold behind the loop.
LEMMA ParsedStrings ==
  ASSUME ArgumentsInv, pc = "parsed"
  PROVE  /\ StringAt(fname) = NameOf(command) /\ Len(NameOf(command)) <= FNAME_SIZE
         /\ Spaces(command) # {} => StringAt(localargbuf) = ArgumentsOf(command)
<1> DEFINE n == length_of_fname
<1>1. /\ ArgumentsTypeOK /\ Terminated
      /\ first_space_reached = 0 => InName
      /\ first_space_reached = 1 => InArguments
  BY DEF ArgumentsInv
<1>2. /\ command \in Seq(Characters) /\ Len(command) \in Index /\ i = Len(command) /\ i \in Nat
      /\ DOMAIN fname = Index /\ DOMAIN localargbuf = Index /\ n \in Nat
      /\ \A k \in 1 .. Len(command) : command[k] # "NUL"
  <2>1. \A x \in Characters : x # "NUL"
    BY ArgumentsAssumption DEF Characters
  <2> QED
    BY <1>1, <2>1, ArgumentsAssumption DEF ArgumentsTypeOK, Array, Index, Terminated
<1>3. CASE first_space_reached = 0
  <2>1. Spaces(command) = {} /\ NameOf(command) = command /\ Len(command) <= FNAME_SIZE
    BY <1>1, <1>2, <1>3 DEF InName, Spaces, NameOf
  <2>2. fname[i] = "NUL" /\ \A k \in 0 .. i - 1 : fname[k] = command[k + 1] /\ fname[k] # "NUL"
    <3>1. fname[i] = "NUL" /\ \A k \in 0 .. i - 1 : fname[k] = command[k + 1]
      BY <1>1, <1>3 DEF InName, Terminated
    <3>2. \A k \in 0 .. i - 1 : k + 1 \in 1 .. Len(command)
      BY <1>2
    <3> QED
      BY <1>2, <3>1, <3>2
  <2>3. StringAt(fname) = [k \in 1 .. i |-> fname[k - 1]]
    BY <1>2, <2>2, StringEnds
  <2>4. \A k \in 1 .. i : fname[k - 1] = command[k]
    BY <1>2, <2>2
  <2>5. command = [k \in 1 .. i |-> command[k]]
    BY <1>2
  <2> QED
    BY <2>1, <2>3, <2>4, <2>5
<1>4. CASE first_space_reached = 1
  <2>1. /\ n \in 0 .. i - 1 /\ n <= FNAME_SIZE
        /\ command[n + 1] = "space" /\ fname[n] = "NUL"
        /\ \A k \in 1 .. n : command[k] # "space"
        /\ \A k \in 0 .. n - 1 : fname[k] = command[k + 1]
        /\ \A k \in 0 .. i - n - 2 : localargbuf[k] = command[n + k + 2]
        /\ localargbuf[i - n - 1] = "NUL"
    BY <1>1, <1>4 DEF InArguments, Terminated
  <2> HIDE DEF n
  <2>2. n + 1 \in 1 .. Len(command) /\ n \in Index /\ i - n - 1 \in Index
    BY <1>2, <2>1, ArgumentsAssumption DEF Index
  <2>3. Spaces(command) # {} /\ FirstSpace(command) = n + 1
    <3>1. \A k \in 1 .. (n + 1) - 1 : command[k] # "space"
      BY <1>2, <2>1
    <3> QED
      BY <1>2, <2>1, <2>2, <3>1, FirstSpaceAt
  <2>4. NameOf(command) = SubSeq(command, 1, n) /\ ArgumentsOf(command) = SubSeq(command, n + 2, i)
    <3>1. n + 1 - 1 = n /\ n + 1 + 1 = n + 2
      BY <1>2
    <3> QED
      BY <1>2, <2>3, <3>1 DEF NameOf, ArgumentsOf
  <2>5. /\ NameOf(command) = [k \in 1 .. n |-> command[k]]
        /\ ArgumentsOf(command) = [k \in 1 .. i - n - 1 |-> command[n + 1 + k]]
        /\ Len(NameOf(command)) = n
    <3>1. n \in Nat /\ i = Len(command) /\ n + 1 <= i /\ i \in Nat
      BY <1>2, <2>1
    <3>2. SubSeq(command, 1, n) = [k \in 1 .. n |-> command[k]] /\ Len(SubSeq(command, 1, n)) = n
      BY <1>2, <3>1
    <3>3. SubSeq(command, n + 2, i) = [k \in 1 .. i - n - 1 |-> command[n + 1 + k]]
      <4>1. SubSeq(command, n + 2, i) = [k \in 1 .. i - (n + 2) + 1 |-> command[(n + 2) + k - 1]]
        BY <1>2, <3>1
      <4>2. i - (n + 2) + 1 = i - n - 1 /\ \A k \in 1 .. i - n - 1 : (n + 2) + k - 1 = n + 1 + k
        BY <3>1
      <4> QED
        BY <4>1, <4>2
    <3> QED
      BY <2>4, <3>2, <3>3
  <2>6. StringAt(fname) = [k \in 1 .. n |-> fname[k - 1]]
    <3>1. \A k \in 0 .. n - 1 : fname[k] # "NUL"
      BY <1>2, <2>1
    <3> QED
      BY <1>2, <2>1, <2>2, <3>1, StringEnds
  <2>7. StringAt(localargbuf) = [k \in 1 .. i - n - 1 |-> localargbuf[k - 1]]
    <3>1. \A k \in 0 .. (i - n - 1) - 1 : localargbuf[k] # "NUL"
      BY <1>2, <2>1
    <3> QED
      BY <1>2, <2>1, <2>2, <3>1, StringEnds
  <2>8. \A k \in 1 .. n : fname[k - 1] = command[k]
    BY <1>2, <2>1
  <2>9. \A k \in 1 .. i - n - 1 : localargbuf[k - 1] = command[n + 1 + k]
    <3> TAKE k \in 1 .. i - n - 1
    <3>1. k - 1 \in 0 .. i - n - 2 /\ n + (k - 1) + 2 = n + 1 + k
      BY <1>2
    <3> QED
      BY <2>1, <3>1
  <2> QED
    BY <2>1, <2>5, <2>6, <2>7, <2>8, <2>9
<1> QED
  BY <1>1, <1>3, <1>4 DEF ArgumentsTypeOK

\* The program's copy of the arguments is what the loop left.
LEMMA LaunchArguments ==
  ASSUME ArgumentsInv, launch
  PROVE  ArgumentsInv'
<1>1. pc = "parsed" /\ argbuf' = StringAt(localargbuf) /\ started' = command /\ Leave
  BY DEF launch, CopyArguments
<1>2. Spaces(command) # {} => argbuf' = ArgumentsOf(command)
  BY <1>1, ParsedStrings
<1>3. (Spaces(started) # {} => argbuf = ArgumentsOf(started))'
  BY <1>1, <1>2 DEF Spaces, ArgumentsOf, FirstSpace
<1> QED
  BY <1>1, <1>3, LeaveArguments

\* A step that changes neither execute() nor the PCB.
LEMMA OtherArguments ==
  ASSUME ArgumentsInv, UNCHANGED <<pc, parser, argbuf, started>>
  PROVE  ArgumentsInv'
BY DEF ArgumentsInv, ArgumentsTypeOK, InName, InArguments, Terminated, parser, Spaces,
       ArgumentsOf, FirstSpace

\* execute() is left, and the PCB stays as it was.
LEMMA RefusedArguments ==
  ASSUME ArgumentsInv, Leave, UNCHANGED <<argbuf, started>>
  PROVE  ArgumentsInv'
<1>1. (Spaces(started) # {} => argbuf = ArgumentsOf(started))'
  BY DEF ArgumentsInv, Spaces, ArgumentsOf, FirstSpace
<1> QED
  BY <1>1, LeaveArguments

\* Every step of execute() and getargs() preserves the invariant.
LEMMA NextArguments == ArgumentsInv /\ [Next]_vars => ArgumentsInv'
<1> SUFFICES ASSUME ArgumentsInv, [Next]_vars PROVE ArgumentsInv'
  OBVIOUS
<1>1. ASSUME NEW c \in Command, execute(c) PROVE ArgumentsInv'
  BY <1>1, ExecuteArguments
<1>2. CASE parse_first_space
  BY <1>2, FirstSpaceArguments
<1>3. CASE parse_argument
  BY <1>3, ArgumentArguments
<1>4. CASE parse_name
  BY <1>4, NameArguments
<1>5. CASE parse_fails \/ launch_fails
  BY <1>5, RefusedArguments DEF parse_fails, launch_fails
<1>6. CASE parse_end
  BY <1>6, EndArguments
<1>7. CASE launch
  BY <1>7, LaunchArguments
<1>8. ASSUME NEW nbytes \in BufferSizes, getargs(nbytes) PROVE ArgumentsInv'
  BY <1>8, OtherArguments DEF getargs
<1>9. CASE UNCHANGED vars
  BY <1>9, OtherArguments DEF vars
<1> QED
  BY <1>1, <1>2, <1>3, <1>4, <1>5, <1>6, <1>7, <1>8, <1>9 DEF Next

\* The loop of execute() splits a command of any length at its first space, and
\* no name that is longer than FNAME_SIZE leaves it.
THEOREM AlwaysNameIsFirstWord == Spec => []NameIsFirstWord
<1>1. ArgumentsInv => NameIsFirstWord
  BY ParsedStrings DEF NameIsFirstWord
<1> QED
  BY <1>1, InitArguments, NextArguments, PTL DEF Spec

\* What getargs() gives when it succeeds.
LEMMA ArgumentsGiven ==
  ASSUME ArgumentsInv, NEW nbytes \in BufferSizes, getargs(nbytes),
         Spaces(started) # {}, retval' = 0
  PROVE  buf' = ArgumentsOf(started)
<1>1. argbuf = ArgumentsOf(started)
  BY DEF ArgumentsInv
<1>2. buf' = argbuf
  BY DEF getargs
<1> QED
  BY <1>1, <1>2

\* getargs() gives a program exactly the text behind the first space of its
\* command, whatever the kernel stack held and whatever was refused before.
THEOREM AlwaysArgumentsArrive == Spec => ArgumentsArrive
<1>1. ArgumentsInv => [\A nbytes \in BufferSizes :
                         getargs(nbytes) /\ Spaces(started) # {} /\ retval' = 0 =>
                           buf' = ArgumentsOf(started)]_vars
  BY ArgumentsGiven
<1> QED
  BY <1>1, InitArguments, NextArguments, PTL DEF Spec, ArgumentsArrive

-----------------------------------------------------------------------------
(* The shell *)

\* What execute() returned tells how the command went: -1 only when it was
\* refused, otherwise the low byte of what main() returned.
ShellInv ==
  /\ ArgumentsInv
  /\ line \in Command
  /\ spc = "report" =>
       /\ outcome.ran \in BOOLEAN /\ outcome.result \in Int
       /\ rval = IF outcome.ran THEN outcome.result % 256 ELSE -1

\* An empty line is a command.
LEMMA EmptyCommand == << >> \in Command
<1>1. 0 \in 0 .. MaxCommand /\ << >> \in [1 .. 0 -> Letters \cup {"space"}]
  BY ArgumentsAssumption
<1> QED
  BY <1>1 DEF Command, BoundedSeq, SeqOf

\* The shell starts with its prompt.
LEMMA InitShell == ShellInit => ShellInv
BY InitArguments, EmptyCommand DEF ShellInit, ShellInv

\* Every step of the shell and of the program it runs preserves it.
LEMMA NextShell == ShellInv /\ [ShellNext]_<<vars, shell>> => ShellInv'
<1> SUFFICES ASSUME ShellInv, [ShellNext]_<<vars, shell>> PROVE ShellInv'
  OBVIOUS
<1> USE DEF ShellInv
<1>1. ASSUME NEW c \in Command, shell_read(c) PROVE ShellInv'
  BY <1>1, OtherArguments DEF shell_read, vars
<1>2. CASE shell_exit \/ shell_empty_line \/ shell_report
  BY <1>2, OtherArguments, EmptyCommand DEF shell_exit, shell_empty_line, shell_report, vars
<1>3. CASE shell_execute
  BY <1>3, ExecuteArguments DEF shell_execute
<1>4. CASE shell_parse
  <2>1. Next
    BY <1>4 DEF shell_parse, Next
  <2> QED
    BY <1>4, <2>1, NextArguments DEF shell_parse, shell
<1>5. CASE shell_refused
  <2>1. ArgumentsInv'
    BY <1>5, RefusedArguments DEF shell_refused, parse_fails, launch_fails
  <2>2. rval' = -1 /\ outcome' = Refused /\ UNCHANGED line
    BY <1>5 DEF shell_refused
  <2> QED
    BY <2>1, <2>2 DEF Refused
<1>6. CASE shell_launch
  BY <1>6, LaunchArguments DEF shell_launch
<1>7. ASSUME NEW nbytes \in BufferSizes, program_getargs(nbytes) PROVE ShellInv'
  BY <1>7, OtherArguments DEF program_getargs, getargs, shell
<1>8. ASSUME NEW result \in Results, program_halt(result) PROVE ShellInv'
  <2>1. ArgumentsInv'
    BY <1>8, OtherArguments DEF program_halt
  <2>2. result \in Int
    BY ShellAssumption
  <2>3. rval' = result % 256 /\ outcome' = Ran(result) /\ UNCHANGED line
    BY <1>8 DEF program_halt, StatusByte
  <2> QED
    BY <2>1, <2>2, <2>3 DEF Ran
<1>9. CASE UNCHANGED <<vars, shell>>
  BY <1>9, OtherArguments DEF vars, shell
<1> QED
  BY <1>1, <1>2, <1>3, <1>4, <1>5, <1>6, <1>7, <1>8, <1>9 DEF ShellNext

\* The loop of execute() computes the same for the shell's commands.
THEOREM ShellNameIsFirstWord == ShellSpec => []NameIsFirstWord
<1>1. ShellInv => NameIsFirstWord
  BY ParsedStrings DEF ShellInv, NameIsFirstWord
<1> QED
  BY <1>1, InitShell, NextShell, PTL DEF ShellSpec

\* A program the shell started gets its arguments from getargs(), whatever was
\* refused or ran before it.
THEOREM ShellArgumentsArrive == ShellSpec => ArgumentsArrive
<1>1. ShellInv => [\A nbytes \in BufferSizes :
                     getargs(nbytes) /\ Spaces(started) # {} /\ retval' = 0 =>
                       buf' = ArgumentsOf(started)]_vars
  BY ArgumentsGiven DEF ShellInv
<1> QED
  BY <1>1, InitShell, NextShell, PTL DEF ShellSpec, ArgumentsArrive

\* The shell's message tells a refused command, a program that failed and one
\* that succeeded apart, whatever main() returned: its status is cut to a byte,
\* so that it is never -1 and never 256.
THEOREM AlwaysShellReports == ShellSpec => ShellReports
<1> DEFINE Told == spc = "report" /\ spc' = "prompt" =>
                     message' = IF ~ outcome.ran THEN "no such command"
                                ELSE IF outcome.result % 256 = 0 THEN "none"
                                ELSE "program terminated abnormally"
<1>1. ASSUME ShellInv, ShellNext PROVE Told
  <2> SUFFICES ASSUME spc = "report", spc' = "prompt" PROVE Told
    OBVIOUS
  <2>1. shell_report
    BY <1>1 DEF ShellNext, shell_read, shell_exit, shell_empty_line, shell_execute, shell_parse,
                shell_refused, shell_launch, program_getargs, program_halt, shell
  <2>2. /\ outcome.ran \in BOOLEAN /\ outcome.result \in Int
        /\ rval = IF outcome.ran THEN outcome.result % 256 ELSE -1
    BY <1>1 DEF ShellInv
  <2>3. outcome.result % 256 \in 0 .. 255
    BY <2>2
  <2>4. message' = CASE rval = -1  -> "no such command"
                     [] rval = 256 -> "program terminated by exception"
                     [] rval = 0   -> "none"
                     [] OTHER      -> "program terminated abnormally"
    BY <2>1 DEF shell_report
  <2>5. CASE outcome.ran
    <3>1. rval = outcome.result % 256 /\ rval # -1 /\ rval # 256
      BY <2>2, <2>3, <2>5
    <3> QED
      BY <2>4, <2>5, <3>1
  <2>6. CASE ~ outcome.ran
    <3>1. rval = -1 /\ rval # 256 /\ rval # 0
      BY <2>2, <2>6
    <3>2. message' = "no such command"
      BY <2>4, <3>1
    <3> QED
      BY <2>6, <3>2
  <2> QED
    BY <2>5, <2>6
<1>2. ShellInv /\ [ShellNext]_<<vars, shell>> => [Told]_<<vars, shell>>
  BY <1>1
<1> QED
  BY <1>2, InitShell, NextShell, PTL DEF ShellSpec, ShellReports

-----------------------------------------------------------------------------
(* The emulation *)

\* A set of natural numbers that is not empty has a least element: induction over
\* the characters of a command and over its words.
LEMMA LeastNumber ==
  ASSUME NEW T \in SUBSET Nat, T # {}
  PROVE  \E x \in T : \A y \in T : x <= y
<1> DEFINE R == OpToRel(<, Nat)
<1>1. \E x \in T : \A y \in T : ~ (<<y, x>> \in R)
  <2>1. IsWellFoundedOn(R, Nat)
    BY NatLessThanWellFounded
  <2> HIDE DEF R
  <2> QED
    BY <2>1, WFMin
<1>2. \A x, y \in T : y < x => <<y, x>> \in R
  BY DEF OpToRel
<1> HIDE DEF R
<1>3. PICK x \in T : \A y \in T : ~ (<<y, x>> \in R)
  BY <1>1
<1>4. \A y \in T : ~ (y < x)
  BY <1>2, <1>3
<1> QED
  BY <1>3, <1>4

\* Two parts of a command that follow each other.
LEMMA PartsJoin ==
  ASSUME NEW S, NEW t \in Seq(S), NEW a \in 1 .. Len(t) + 1, NEW b \in a - 1 .. Len(t),
         NEW d \in b .. Len(t)
  PROVE  SubSeq(t, a, b) \o SubSeq(t, b + 1, d) = SubSeq(t, a, d)
<1> DEFINE u == SubSeq(t, a, b)
<1> DEFINE v == SubSeq(t, b + 1, d)
<1> DEFINE w == SubSeq(t, a, d)
<1>0. Len(t) \in Nat /\ a \in Nat /\ b \in Nat /\ d \in Nat
  OBVIOUS
<1>1. u \in Seq(S) /\ Len(u) = b - a + 1 /\ \A k \in 1 .. b - a + 1 : u[k] = t[a + k - 1]
  BY <1>0
<1>2. v \in Seq(S) /\ Len(v) = d - b /\ \A k \in 1 .. d - b : v[k] = t[b + k]
  BY <1>0
<1>3. w \in Seq(S) /\ Len(w) = d - a + 1 /\ \A k \in 1 .. d - a + 1 : w[k] = t[a + k - 1]
  BY <1>0
<1> HIDE DEF u, v, w
<1>4. u \o v \in Seq(S) /\ Len(u \o v) = d - a + 1
  <2>1. u \o v \in Seq(S) /\ Len(u \o v) = Len(u) + Len(v)
    BY <1>1, <1>2, ConcatProperties
  <2> QED
    BY <1>0, <1>1, <1>2, <2>1
<1>5. ASSUME NEW k \in 1 .. d - a + 1 PROVE (u \o v)[k] = w[k]
  <2>1. (u \o v)[k] = IF k <= b - a + 1 THEN u[k] ELSE v[k - (b - a + 1)]
    BY <1>0, <1>1, <1>2, ConcatProperties
  <2>2. CASE k <= b - a + 1
    BY <1>0, <1>1, <1>3, <2>1, <2>2
  <2>3. CASE ~ (k <= b - a + 1)
    <3>1. k - (b - a + 1) \in 1 .. d - b /\ b + (k - (b - a + 1)) = a + k - 1
      BY <1>0, <2>3
    <3> QED
      BY <1>2, <1>3, <2>1, <2>3, <3>1
  <2> QED
    BY <2>2, <2>3
<1> QED
  BY <1>3, <1>4, <1>5, SeqEqual DEF u, v, w

\* The pointers that the scan has found in the first k characters, in order.
Starts(c, k, P) ==
  /\ P \in Seq(Nat)
  /\ \A n \in 1 .. Len(P) : P[n] \in 1 .. k /\ IsWordStart(c, P[n])
  /\ \A n, m \in 1 .. Len(P) : n < m => P[n] < P[m]
  /\ \A j \in 1 .. k : IsWordStart(c, j) => \E n \in 1 .. Len(P) : P[n] = j

\* One character further.
LEMMA StartsNext ==
  ASSUME NEW c, NEW k \in Nat, NEW P, Starts(c, k, P)
  PROVE  Starts(c, k + 1, IF IsWordStart(c, k + 1) THEN Append(P, k + 1) ELSE P)
<1>1. P \in Seq(Nat) /\ Len(P) \in Nat /\ \A n \in 1 .. Len(P) : P[n] \in 1 .. k
  BY DEF Starts
<1>2. CASE ~ IsWordStart(c, k + 1)
  BY <1>1, <1>2 DEF Starts
<1>3. CASE IsWordStart(c, k + 1)
  <2> DEFINE Q == Append(P, k + 1)
  <2>1. /\ Q \in Seq(Nat) /\ Len(Q) = Len(P) + 1
        /\ \A n \in 1 .. Len(P) : Q[n] = P[n]
        /\ Q[Len(P) + 1] = k + 1
    BY <1>1, AppendProperties
  <2> HIDE DEF Q
  <2>2. \A n \in 1 .. Len(Q) : n \in 1 .. Len(P) \/ n = Len(P) + 1
    BY <1>1, <2>1
  <2>3. \A n \in 1 .. Len(Q) : Q[n] \in 1 .. k + 1 /\ IsWordStart(c, Q[n])
    BY <1>1, <1>3, <2>1, <2>2 DEF Starts
  <2>4. ASSUME NEW n \in 1 .. Len(Q), NEW m \in 1 .. Len(Q), n < m PROVE Q[n] < Q[m]
    <3>1. n \in 1 .. Len(P) /\ Q[n] = P[n]
      BY <1>1, <2>1, <2>4
    <3>2. CASE m \in 1 .. Len(P)
      BY <2>1, <2>4, <3>1, <3>2 DEF Starts
    <3>3. CASE m = Len(P) + 1
      BY <1>1, <2>1, <3>1, <3>3
    <3> QED
      BY <2>2, <3>2, <3>3
  <2>5. ASSUME NEW j \in 1 .. k + 1, IsWordStart(c, j) PROVE \E n \in 1 .. Len(Q) : Q[n] = j
    <3>1. CASE j = k + 1
      BY <1>1, <2>1, <3>1
    <3>2. CASE j # k + 1
      <4>1. j \in 1 .. k
        BY <3>2
      <4>2. PICK n \in 1 .. Len(P) : P[n] = j
        BY <2>5, <4>1 DEF Starts
      <4>3. n \in 1 .. Len(Q) /\ Q[n] = j
        BY <1>1, <2>1, <4>2
      <4> QED
        BY <4>3
    <3> QED
      BY <3>1, <3>2
  <2>6. Starts(c, k + 1, Q)
    BY <2>1, <2>3, <2>4, <2>5 DEF Starts
  <2> QED
    BY <1>3, <2>6 DEF Q
<1> QED
  BY <1>2, <1>3

\* What the scan has found after each character.
Scans(c, top, g) ==
  g = [k \in 0 .. top |->
         IF k = 0 THEN << >>
         ELSE IF IsWordStart(c, k) THEN Append(g[k - 1], k) ELSE g[k - 1]]

\* There is such a function for a command of any length.
LEMMA ScansExist == \A c : \A top \in Nat : \E g : Scans(c, top, g)
<1> SUFFICES ASSUME NEW c, NEW b \in Nat, ~ \E g : Scans(c, b, g) PROVE FALSE
  OBVIOUS
<1> DEFINE next(p, k) == IF IsWordStart(c, k) THEN Append(p, k) ELSE p
<1>0. \A top, g : Scans(c, top, g)
                    <=> g = [k \in 0 .. top |-> IF k = 0 THEN << >> ELSE next(g[k - 1], k)]
  BY DEF Scans
<1> HIDE DEF next
<1> DEFINE T == {n \in Nat : ~ \E g : Scans(c, n, g)}
<1>1. PICK m \in T : \A n \in T : m <= n
  <2>1. T \in SUBSET Nat /\ T # {}
    OBVIOUS
  <2> HIDE DEF T
  <2> QED
    BY <2>1, LeastNumber
<1>2. CASE m = 0
  <2> DEFINE h == [k \in 0 .. 0 |-> << >>]
  <2>1. h = [k \in 0 .. 0 |-> IF k = 0 THEN << >> ELSE next(h[k - 1], k)]
    OBVIOUS
  <2> QED
    BY <1>0, <1>2, <2>1
<1>3. CASE m > 0
  <2>1. m - 1 \in Nat /\ m - 1 \notin T
    BY <1>1, <1>3
  <2>2. PICK g : Scans(c, m - 1, g)
    BY <2>1
  <2> DEFINE h == [k \in 0 .. m |-> IF k = m THEN next(g[m - 1], m) ELSE g[k]]
  <2>3. \A k \in 0 .. m - 1 : g[k] = IF k = 0 THEN << >> ELSE next(g[k - 1], k)
    BY <1>0, <2>1, <2>2
  <2>4. \A k \in 0 .. m : h[k] = IF k = 0 THEN << >> ELSE next(h[k - 1], k)
    BY <1>3, <2>1, <2>3
  <2>5. h = [k \in 0 .. m |-> IF k = 0 THEN << >> ELSE next(h[k - 1], k)]
    BY <2>4
  <2> QED
    BY <1>0, <2>5
<1> QED
  BY <1>2, <1>3

\* The scan of ece391_execute() finds the words behind the first, in order.
LEMMA ArgsAreStarts ==
  ASSUME NEW c \in Seq(Characters)
  PROVE  Starts(c, Len(c), emulated_args(c))
<1>1. Len(c) \in Nat
  OBVIOUS
<1>2. emulated_args(c) = (CHOOSE g : Scans(c, Len(c), g))[Len(c)]
  BY Zenon DEF emulated_args, Scans
<1>3. PICK g : Scans(c, Len(c), g) /\ emulated_args(c) = g[Len(c)]
  BY <1>1, <1>2, ScansExist
<1>4. /\ g[0] = << >>
      /\ \A k \in 1 .. Len(c) :
           g[k] = IF IsWordStart(c, k) THEN Append(g[k - 1], k) ELSE g[k - 1]
  <2> DEFINE next(p, k) == IF IsWordStart(c, k) THEN Append(p, k) ELSE p
  <2>1. g = [k \in 0 .. Len(c) |-> IF k = 0 THEN << >> ELSE next(g[k - 1], k)]
    BY <1>3 DEF Scans
  <2> HIDE DEF next
  <2>2. g[0] = << >> /\ \A k \in 1 .. Len(c) : g[k] = next(g[k - 1], k)
    BY <1>1, <2>1
  <2> QED
    BY <2>2 DEF next
<1>5. Starts(c, 0, g[0])
  BY <1>4 DEF Starts
<1>6. ASSUME NEW k \in 1 .. Len(c), Starts(c, k - 1, g[k - 1]) PROVE Starts(c, k, g[k])
  <2>1. k - 1 \in Nat /\ (k - 1) + 1 = k
    BY <1>1
  <2>2. Starts(c, k, IF IsWordStart(c, k) THEN Append(g[k - 1], k) ELSE g[k - 1])
    BY <1>6, <2>1, StartsNext
  <2> QED
    BY <1>4, <2>2
<1> DEFINE T == {k \in 0 .. Len(c) : ~ Starts(c, k, g[k])}
<1>7. T = {}
  <2> SUFFICES ASSUME T # {} PROVE FALSE
    OBVIOUS
  <2>1. PICK n \in T : \A m \in T : n <= m
    <3>1. T \in SUBSET Nat
      BY <1>1
    <3> HIDE DEF T
    <3> QED
      BY <3>1, LeastNumber
  <2>2. n # 0 /\ n \in 0 .. Len(c) /\ ~ Starts(c, n, g[n])
    BY <1>5, <2>1
  <2>3. n \in 1 .. Len(c) /\ n - 1 \in 0 .. Len(c) /\ n - 1 \notin T
    BY <1>1, <2>1, <2>2
  <2> QED
    BY <1>6, <2>2, <2>3
<1> QED
  BY <1>1, <1>3, <1>7

\* The order of the pointers: nothing begins between two that follow each other,
\* before the first or behind the last.
LEMMA StartsOrder ==
  ASSUME NEW c, NEW k \in Nat, NEW P, Starts(c, k, P), NEW j \in 1 .. k, IsWordStart(c, j)
  PROVE  /\ Len(P) \in Nat /\ Len(P) >= 1
         /\ P[1] <= j /\ j <= P[Len(P)]
         /\ \A n \in 1 .. Len(P) - 1 : P[n] < j => P[n + 1] <= j
<1>1. PICK m \in 1 .. Len(P) : P[m] = j
  BY DEF Starts
<1>2. Len(P) \in Nat /\ \A n \in 1 .. Len(P) : P[n] \in Nat
  BY DEF Starts
<1>3. \A n \in 1 .. Len(P) : /\ n < m => P[n] < j
                             /\ m < n => j < P[n]
  BY <1>1 DEF Starts
<1>4. 1 \in 1 .. Len(P) /\ Len(P) \in 1 .. Len(P) /\ Len(P) >= 1
  BY <1>1, <1>2
<1>5. P[1] <= j
  <2>1. m = 1 \/ 1 < m
    BY <1>1, <1>2
  <2> QED
    BY <1>1, <1>2, <1>3, <1>4, <2>1
<1>6. j <= P[Len(P)]
  <2>1. m = Len(P) \/ m < Len(P)
    BY <1>1, <1>2
  <2> QED
    BY <1>1, <1>2, <1>3, <1>4, <2>1
<1>7. ASSUME NEW n \in 1 .. Len(P) - 1, P[n] < j PROVE P[n + 1] <= j
  <2>1. n \in 1 .. Len(P) /\ n + 1 \in 1 .. Len(P)
    BY <1>2
  <2>2. ~ (m < n) /\ m # n
    BY <1>1, <1>2, <1>3, <1>7, <2>1
  <2>3. m = n + 1 \/ n + 1 < m
    BY <1>1, <1>2, <2>1, <2>2
  <2> QED
    BY <1>1, <1>2, <1>3, <2>1, <2>3
<1> QED
  BY <1>2, <1>4, <1>5, <1>6, <1>7

\* One space between words, none at the end: f is the first space.
SingleSpaced(c, f) ==
  /\ f \in 1 .. Len(c) /\ c[f] = "space"
  /\ \A k \in 1 .. f - 1 : c[k] # "space"
  /\ \A k \in f + 1 .. Len(c) : c[k] = "space" => k # f + 1 /\ k < Len(c) /\ c[k + 1] # "space"

\* Where a word, with the space behind it, ends.
PieceEnd(c, P, w) == IF w = Len(P) THEN Len(c) ELSE P[w + 1] - 1

\* The words and the spaces behind them follow each other without a gap.
LEMMA PieceBounds ==
  ASSUME NEW c \in Seq(Characters), NEW f, SingleSpaced(c, f), NEW P, Starts(c, Len(c), P)
  PROVE  /\ Len(P) \in Nat
         /\ Len(P) = 0 => f = Len(c)
         /\ Len(P) > 0 => P[1] = f + 1
         /\ \A w \in 1 .. Len(P) :
              /\ P[w] \in f + 1 .. Len(c) /\ PieceEnd(c, P, w) \in P[w] .. Len(c)
              /\ \A k \in P[w] .. PieceEnd(c, P, w) :
                   c[k] = "space" => k = PieceEnd(c, P, w) /\ w # Len(P)
              /\ w # Len(P) => c[PieceEnd(c, P, w)] = "space"
<1>0. Len(c) \in Nat /\ f \in 1 .. Len(c) /\ c[f] = "space"
  BY DEF SingleSpaced
<1>1. Len(P) \in Nat /\ P \in Seq(Nat)
  BY DEF Starts
<1>2. ASSUME NEW j, IsWordStart(c, j)
      PROVE  /\ j \in f + 1 .. Len(c) /\ j \in 1 .. Len(c)
             /\ c[j] # "space" /\ c[j - 1] = "space" /\ j - 1 \in f .. Len(c)
  <2>1. j \in 2 .. Len(c) /\ c[j] # "space" /\ c[j - 1] = "space"
    BY <1>2 DEF IsWordStart
  <2>2. ~ (j - 1 \in 1 .. f - 1)
    BY <2>1 DEF SingleSpaced
  <2> QED
    BY <1>0, <2>1, <2>2
<1>3. ASSUME NEW k \in f .. Len(c), c[k] = "space", k # Len(c)
      PROVE  IsWordStart(c, k + 1) /\ k + 1 \in 1 .. Len(c)
  <2>1. k + 1 \in 2 .. Len(c) /\ (k + 1) - 1 = k
    BY <1>0, <1>3
  <2>2. c[k + 1] # "space"
    <3>1. CASE k = f
      <4>1. k + 1 \in f + 1 .. Len(c)
        BY <1>0, <2>1, <3>1
      <4> QED
        BY <3>1, <4>1 DEF SingleSpaced
    <3>2. CASE k # f
      <4>1. k \in f + 1 .. Len(c)
        BY <1>0, <3>2
      <4> QED
        BY <1>3, <4>1 DEF SingleSpaced
    <3> QED
      BY <3>1, <3>2
  <2> QED
    BY <1>0, <1>3, <2>1, <2>2 DEF IsWordStart
<1>4. \A w \in 1 .. Len(P) : P[w] \in 1 .. Len(c) /\ IsWordStart(c, P[w])
  BY DEF Starts
<1>5. Len(P) = 0 => f = Len(c)
  <2> SUFFICES ASSUME f # Len(c), Len(P) = 0 PROVE FALSE
    OBVIOUS
  <2>1. IsWordStart(c, f + 1) /\ f + 1 \in 1 .. Len(c)
    BY <1>0, <1>3
  <2>2. Len(P) >= 1
    BY <1>0, <2>1, StartsOrder
  <2> QED
    BY <2>2
<1>6. Len(P) > 0 => P[1] = f + 1
  <2> SUFFICES ASSUME Len(P) > 0 PROVE P[1] = f + 1
    OBVIOUS
  <2>1. 1 \in 1 .. Len(P)
    BY <1>1
  <2>2. P[1] \in f + 1 .. Len(c)
    BY <1>2, <1>4, <2>1
  <2>3. IsWordStart(c, f + 1) /\ f + 1 \in 1 .. Len(c)
    BY <1>0, <1>3, <2>2
  <2>4. P[1] <= f + 1
    BY <1>0, <2>3, StartsOrder
  <2> QED
    BY <1>0, <2>2, <2>4
<1>7. ASSUME NEW w \in 1 .. Len(P)
      PROVE  /\ P[w] \in f + 1 .. Len(c) /\ PieceEnd(c, P, w) \in P[w] .. Len(c)
             /\ \A k \in P[w] .. PieceEnd(c, P, w) :
                  c[k] = "space" => k = PieceEnd(c, P, w) /\ w # Len(P)
             /\ w # Len(P) => c[PieceEnd(c, P, w)] = "space"
  <2>1. P[w] \in f + 1 .. Len(c) /\ c[P[w]] # "space"
    BY <1>2, <1>4
  <2>2. CASE w = Len(P)
    <3>1. PieceEnd(c, P, w) = Len(c)
      BY <2>2 DEF PieceEnd
    <3>2. ASSUME NEW k \in P[w] .. Len(c), c[k] = "space" PROVE FALSE
      <4>1. k \in f + 1 .. Len(c)
        BY <1>0, <2>1
      <4>2. k # Len(c) /\ k \in f .. Len(c)
        BY <1>0, <3>2, <4>1 DEF SingleSpaced
      <4>3. IsWordStart(c, k + 1) /\ k + 1 \in 1 .. Len(c)
        BY <1>3, <3>2, <4>2
      <4>4. k + 1 <= P[w]
        BY <1>0, <2>2, <4>3, StartsOrder
      <4> QED
        BY <1>0, <2>1, <4>1, <4>4
    <3> QED
      BY <1>0, <2>1, <2>2, <3>1, <3>2
  <2>3. CASE w # Len(P)
    <3>0. w \in 1 .. Len(P) - 1 /\ w + 1 \in 1 .. Len(P)
      BY <1>1, <2>3
    <3> DEFINE e == P[w + 1] - 1
    <3>1. PieceEnd(c, P, w) = e
      BY <2>3 DEF PieceEnd
    <3>2. P[w + 1] \in f + 1 .. Len(c) /\ c[P[w + 1] - 1] = "space"
      BY <1>2, <1>4, <3>0
    <3>3. P[w] < P[w + 1]
      BY <1>1, <3>0 DEF Starts
    <3>4. e \in P[w] .. Len(c) /\ c[e] = "space"
      BY <1>0, <2>1, <3>2, <3>3
    <3>5. ASSUME NEW k \in P[w] .. e, c[k] = "space" PROVE k = e
      <4>1. k # Len(c) /\ k \in f .. Len(c)
        BY <1>0, <2>1, <3>2
      <4>2. IsWordStart(c, k + 1) /\ k + 1 \in 1 .. Len(c)
        BY <1>3, <3>5, <4>1
      <4>3. P[w] < k + 1
        BY <1>0, <2>1
      <4>4. P[w + 1] <= k + 1
        BY <1>0, <3>0, <4>2, <4>3, StartsOrder
      <4> QED
        BY <1>0, <2>1, <3>2, <4>4
    <3> HIDE DEF e
    <3> QED
      BY <2>1, <2>3, <3>1, <3>4, <3>5
  <2> QED
    BY <2>2, <2>3
<1> QED
  BY <1>1, <1>5, <1>6, <1>7

\* The word at a pointer, with the space that ece391_getargs() puts behind it, is
\* this part of the command.
LEMMA PieceIs ==
  ASSUME NEW c \in Seq(Characters), NEW f, SingleSpaced(c, f), NEW P, Starts(c, Len(c), P),
         NEW w \in 1 .. Len(P)
  PROVE  (IF w = Len(P) THEN WordAt(c, P[w]) ELSE Append(WordAt(c, P[w]), "space"))
           = SubSeq(c, P[w], PieceEnd(c, P, w))
<1> DEFINE a == P[w]
<1> DEFINE e == PieceEnd(c, P, w)
<1> DEFINE ends == {j \in a .. Len(c) + 1 : j = Len(c) + 1 \/ c[j] = "space"}
<1>1. /\ a \in 1 .. Len(c) /\ e \in a .. Len(c) /\ Len(c) \in Nat
      /\ \A k \in a .. e : c[k] = "space" => k = e /\ w # Len(P)
      /\ w # Len(P) => c[e] = "space"
      /\ w = Len(P) => e = Len(c)
  <2>1. f \in 1 .. Len(c) /\ Len(c) \in Nat
    BY DEF SingleSpaced
  <2>2. /\ P[w] \in f + 1 .. Len(c) /\ PieceEnd(c, P, w) \in P[w] .. Len(c)
        /\ \A k \in P[w] .. PieceEnd(c, P, w) :
             c[k] = "space" => k = PieceEnd(c, P, w) /\ w # Len(P)
        /\ w # Len(P) => c[PieceEnd(c, P, w)] = "space"
    BY PieceBounds
  <2>3. w = Len(P) => PieceEnd(c, P, w) = Len(c)
    BY DEF PieceEnd
  <2> QED
    BY <2>1, <2>2, <2>3
<1> HIDE DEF a, e
<1> DEFINE stop == IF w = Len(P) THEN Len(c) + 1 ELSE e
<1>2. stop \in ends /\ \A j \in ends : stop <= j
  <2>1. CASE w = Len(P)
    BY <1>1, <2>1
  <2>2. CASE w # Len(P)
    BY <1>1, <2>2
  <2> QED
    BY <2>1, <2>2
<1>3. ends \subseteq Int
  BY <1>1
<1> HIDE DEF ends, stop
<1>4. Min(ends) \in ends /\ \A j \in ends : Min(ends) <= j
  BY <1>2 DEF Min
<1>5. Min(ends) = stop
  <2>1. Min(ends) <= stop /\ stop <= Min(ends) /\ Min(ends) \in Int /\ stop \in Int
    BY <1>2, <1>3, <1>4
  <2> QED
    BY <2>1
<1>6. WordAt(c, a) = SubSeq(c, a, stop - 1)
  BY <1>5 DEF WordAt, ends
<1>7. CASE w = Len(P)
  <2>1. stop - 1 = e
    BY <1>1, <1>7 DEF stop
  <2> QED
    BY <1>6, <1>7, <2>1 DEF a, e
<1>8. CASE w # Len(P)
  <2>1. stop = e
    BY <1>8 DEF stop
  <2>2. SubSeq(c, a, e - 1) \o SubSeq(c, (e - 1) + 1, e) = SubSeq(c, a, e)
    <3>1. e - 1 \in a - 1 .. Len(c) /\ e \in e - 1 .. Len(c) /\ a \in 1 .. Len(c) + 1
      BY <1>1
    <3> QED
      BY <3>1, PartsJoin
  <2>3. SubSeq(c, (e - 1) + 1, e) = <<"space">>
    <3>1. (e - 1) + 1 = e /\ e \in 1 .. Len(c) /\ c[e] = "space"
      BY <1>1, <1>8
    <3>2. /\ SubSeq(c, e, e) \in Seq(Characters) /\ Len(SubSeq(c, e, e)) = 1
          /\ SubSeq(c, e, e)[1] = "space"
      BY <3>1
    <3>3. <<"space">> \in Seq(Characters) /\ Len(<<"space">>) = 1 /\ <<"space">>[1] = "space"
      BY DEF Characters
    <3>4. SubSeq(c, e, e) = <<"space">>
      <4> DEFINE u == SubSeq(c, e, e)
      <4> DEFINE v == <<"space">>
      <4>1. u \in Seq(Characters) /\ v \in Seq(Characters) /\ Len(u) = 1 /\ Len(v) = 1
        BY <3>2, <3>3
      <4>2. u[1] = v[1]
        BY <3>2, <3>3
      <4> HIDE DEF u, v
      <4>3. \A m \in 1 .. Len(u) : u[m] = v[m]
        BY <4>1, <4>2
      <4>4. u = v
        BY <4>1, <4>3, SeqEqual
      <4> QED
        BY <4>4 DEF u, v
    <3> QED
      BY <3>1, <3>4
  <2>4. SubSeq(c, a, e - 1) \in Seq(Characters)
    BY <1>1
  <2>5. Append(SubSeq(c, a, e - 1), "space") = SubSeq(c, a, e - 1) \o <<"space">>
    BY <2>4, AppendIsConcat DEF Characters
  <2> QED
    BY <1>6, <1>8, <2>1, <2>2, <2>3, <2>5 DEF a, e
<1> QED
  BY <1>7, <1>8

\* What ece391_getargs() has put into the buffer behind a word, or that it gave up.
JoinedSoFar(c, f, nbytes, end) ==
  IF end - f <= nbytes
  THEN [retval |-> 0, buf |-> SubSeq(c, f + 1, end), left |-> nbytes - (end - f)]
  ELSE Refuses

\* The next word.
LEMMA JoinedNext ==
  ASSUME NEW c \in Seq(Characters), NEW f \in 1 .. Len(c), NEW nbytes \in Nat,
         NEW e \in f .. Len(c), NEW d \in e + 1 .. Len(c), NEW word, NEW isLast \in BOOLEAN,
         (IF isLast THEN word ELSE Append(word, "space")) = SubSeq(c, e + 1, d)
  PROVE  Joined(JoinedSoFar(c, f, nbytes, e), word, isLast) = JoinedSoFar(c, f, nbytes, d)
<1>0. Len(c) \in Nat /\ f \in Nat /\ e \in Nat /\ d \in Nat
  OBVIOUS
<1> DEFINE piece == IF isLast THEN word ELSE Append(word, "space")
<1> DEFINE was == JoinedSoFar(c, f, nbytes, e)
<1>1. piece = SubSeq(c, e + 1, d) /\ Len(piece) = d - e
  BY <1>0
<1>2. Joined(was, word, isLast) =
        IF was.retval = -1 \/ Len(piece) > was.left THEN Refuses
        ELSE [retval |-> 0, buf |-> was.buf \o piece, left |-> was.left - Len(piece)]
  BY DEF Joined
<1>3. SubSeq(c, f + 1, e) \o SubSeq(c, e + 1, d) = SubSeq(c, f + 1, d)
  <2>1. f + 1 \in 1 .. Len(c) + 1 /\ e \in (f + 1) - 1 .. Len(c) /\ d \in e .. Len(c)
    BY <1>0
  <2> QED
    BY <2>1, PartsJoin
<1> HIDE DEF piece
<1>4. CASE e - f <= nbytes
  <2>1. was.retval = 0 /\ was.buf = SubSeq(c, f + 1, e) /\ was.left = nbytes - (e - f)
    BY <1>4 DEF JoinedSoFar
  <2> HIDE DEF was
  <2>2. Len(piece) > was.left <=> ~ (d - f <= nbytes)
    BY <1>0, <1>1, <2>1
  <2>3. was.left - Len(piece) = nbytes - (d - f)
    BY <1>0, <1>1, <2>1
  <2>4. was.buf \o piece = SubSeq(c, f + 1, d) /\ was.retval # -1
    BY <1>1, <1>3, <2>1
  <2>5. Joined(was, word, isLast) =
          IF ~ (d - f <= nbytes) THEN Refuses
          ELSE [retval |-> 0, buf |-> SubSeq(c, f + 1, d), left |-> nbytes - (d - f)]
    BY <1>2, <2>2, <2>3, <2>4
  <2> QED
    BY <2>5 DEF was, JoinedSoFar
<1>5. CASE ~ (e - f <= nbytes)
  <2>1. was.retval = -1
    BY <1>5 DEF JoinedSoFar, Refuses
  <2>2. ~ (d - f <= nbytes)
    BY <1>0, <1>5
  <2> HIDE DEF was
  <2>3. Joined(was, word, isLast) = Refuses
    BY <1>2, <2>1
  <2> QED
    BY <2>2, <2>3 DEF was, JoinedSoFar
<1> QED
  BY <1>4, <1>5

\* The loop of ece391_getargs() over the first top words.
Joins(c, P, nbytes, top, g) ==
  g = [w \in 0 .. top |->
         IF w = 0 THEN [retval |-> 0, buf |-> << >>, left |-> nbytes]
         ELSE Joined(g[w - 1], WordAt(c, P[w]), w = Len(P))]

\* What it has joined in a command with one space between words.
LEMMA JoinsParts ==
  ASSUME NEW c \in Seq(Characters), NEW f, SingleSpaced(c, f), NEW P, Starts(c, Len(c), P),
         NEW nbytes \in Nat
  PROVE  /\ \E g : Joins(c, P, nbytes, Len(P), g)
         /\ \A g : Joins(c, P, nbytes, Len(P), g) =>
                     g[Len(P)] = JoinedSoFar(c, f, nbytes, Len(c))
<1>0. Len(c) \in Nat /\ f \in 1 .. Len(c) /\ Len(P) \in Nat
  BY PieceBounds DEF SingleSpaced
<1> DEFINE first == [retval |-> 0, buf |-> << >>, left |-> nbytes]
<1> DEFINE next(r, w) == Joined(r, WordAt(c, P[w]), w = Len(P))
<1> DEFINE end(w) == IF w = 0 THEN f ELSE PieceEnd(c, P, w)
<1> DEFINE at(w) == JoinedSoFar(c, f, nbytes, end(w))
<1>1. at(0) = first
  <2>1. f - f <= nbytes /\ nbytes - (f - f) = nbytes
    BY <1>0
  <2>2. SubSeq(c, f + 1, f) = << >>
    BY <1>0
  <2> QED
    BY <2>1, <2>2 DEF JoinedSoFar
<1>2. at(Len(P)) = JoinedSoFar(c, f, nbytes, Len(c))
  <2>1. end(Len(P)) = Len(c)
    BY PieceBounds DEF PieceEnd
  <2> QED
    BY <2>1
<1>3. ASSUME NEW w \in 1 .. Len(P) PROVE next(at(w - 1), w) = at(w)
  <2>1. /\ P[w] \in f + 1 .. Len(c) /\ PieceEnd(c, P, w) \in P[w] .. Len(c)
    BY PieceBounds
  <2>2. P[w] = end(w - 1) + 1
    <3>1. CASE w = 1
      BY <1>0, <3>1, PieceBounds
    <3>2. CASE w # 1
      <4>1. w - 1 # 0 /\ w - 1 # Len(P) /\ (w - 1) + 1 = w
        BY <1>0, <3>2
      <4>2. end(w - 1) = P[w] - 1
        BY <4>1 DEF PieceEnd
      <4> QED
        BY <1>0, <2>1, <4>2
    <3> QED
      BY <3>1, <3>2
  <2>3. end(w) = PieceEnd(c, P, w)
    BY <1>0
  <2>4. end(w - 1) \in Int
    <3>1. CASE w = 1
      BY <1>0, <3>1
    <3>2. CASE w # 1
      <4>1. w - 1 # 0 /\ w - 1 \in 1 .. Len(P)
        BY <1>0, <3>2
      <4>2. end(w - 1) = PieceEnd(c, P, w - 1) /\ PieceEnd(c, P, w - 1) \in P[w - 1] .. Len(c)
        BY <4>1, PieceBounds
      <4> QED
        BY <4>2
    <3> QED
      BY <3>1, <3>2
  <2>5. (IF w = Len(P) THEN WordAt(c, P[w]) ELSE Append(WordAt(c, P[w]), "space"))
          = SubSeq(c, P[w], PieceEnd(c, P, w))
    BY PieceIs
  <2> HIDE DEF end
  <2>6. end(w - 1) \in f .. Len(c) /\ end(w) \in end(w - 1) + 1 .. Len(c)
    BY <1>0, <2>1, <2>2, <2>3, <2>4
  <2> DEFINE isLast == w = Len(P)
  <2>7. isLast \in BOOLEAN
    OBVIOUS
  <2>8. (IF isLast THEN WordAt(c, P[w]) ELSE Append(WordAt(c, P[w]), "space"))
          = SubSeq(c, end(w - 1) + 1, end(w))
    BY <2>2, <2>3, <2>5
  <2> HIDE DEF isLast
  <2>9. Joined(at(w - 1), WordAt(c, P[w]), isLast) = at(w)
    BY <1>0, <2>6, <2>7, <2>8, JoinedNext
  <2> QED
    BY <2>9 DEF isLast
<1>4. \A g : Joins(c, P, nbytes, Len(P), g)
               <=> g = [w \in 0 .. Len(P) |-> IF w = 0 THEN first ELSE next(g[w - 1], w)]
  BY DEF Joins
<1> HIDE DEF first, next, at
<1>5. \E g : Joins(c, P, nbytes, Len(P), g)
  <2> DEFINE h == [w \in 0 .. Len(P) |-> at(w)]
  <2>1. ASSUME NEW w \in 0 .. Len(P) PROVE h[w] = IF w = 0 THEN first ELSE next(h[w - 1], w)
    <3>1. CASE w = 0
      BY <1>1, <3>1
    <3>2. CASE w # 0
      <4>1. w \in 1 .. Len(P) /\ w - 1 \in 0 .. Len(P)
        BY <1>0, <3>2
      <4>2. h[w] = at(w) /\ h[w - 1] = at(w - 1)
        BY <4>1
      <4> HIDE DEF h
      <4> QED
        BY <1>3, <3>2, <4>1, <4>2
    <3> QED
      BY <3>1, <3>2
  <2>2. h = [w \in 0 .. Len(P) |-> IF w = 0 THEN first ELSE next(h[w - 1], w)]
    BY <2>1
  <2> QED
    BY <1>4, <2>2
<1>6. ASSUME NEW g, Joins(c, P, nbytes, Len(P), g) PROVE g[Len(P)] = at(Len(P))
  <2>1. /\ g[0] = first
        /\ \A w \in 1 .. Len(P) : g[w] = next(g[w - 1], w)
    BY <1>0, <1>4, <1>6
  <2> DEFINE T == {w \in 0 .. Len(P) : g[w] # at(w)}
  <2>2. T = {}
    <3> SUFFICES ASSUME T # {} PROVE FALSE
      OBVIOUS
    <3>1. PICK n \in T : \A m \in T : n <= m
      <4>1. T \in SUBSET Nat
        BY <1>0
      <4> HIDE DEF T
      <4> QED
        BY <4>1, LeastNumber
    <3>2. n # 0 /\ n \in 0 .. Len(P) /\ g[n] # at(n)
      BY <1>1, <2>1, <3>1
    <3>3. n \in 1 .. Len(P) /\ n - 1 \in 0 .. Len(P) /\ n - 1 \notin T
      BY <1>0, <3>1, <3>2
    <3> QED
      BY <1>3, <2>1, <3>2, <3>3
  <2> QED
    BY <1>0, <2>2
<1> QED
  BY <1>2, <1>5, <1>6

\* What a program gets in the emulation, of a command with one space between words.
LEMMA EmulatedArguments ==
  ASSUME NEW c \in Seq(Characters), NEW f, SingleSpaced(c, f), NEW nbytes \in Nat
  PROVE  emulated_getargs(c, nbytes) =
           IF Len(c) - f >= nbytes THEN [retval |-> -1, buf |-> << >>]
           ELSE [retval |-> 0, buf |-> SubSeq(c, f + 1, Len(c))]
<1> DEFINE P == emulated_args(c)
<1>0. Len(c) \in Nat /\ f \in 1 .. Len(c)
  BY DEF SingleSpaced
<1>1. Starts(c, Len(c), P)
  BY ArgsAreStarts
<1> DEFINE all == (CHOOSE g : Joins(c, P, nbytes, Len(P), g))[Len(P)]
<1>2. emulated_getargs(c, nbytes) =
        IF all.retval = -1 \/ NoRoomLeft(all.left) THEN [retval |-> -1, buf |-> << >>]
        ELSE [retval |-> 0, buf |-> all.buf]
  BY Zenon DEF emulated_getargs, Joins
<1> HIDE DEF P
<1>3. all = JoinedSoFar(c, f, nbytes, Len(c))
  BY <1>1, JoinsParts
<1> HIDE DEF all
<1>4. CASE Len(c) - f <= nbytes
  <2>1. /\ all.retval = 0 /\ all.buf = SubSeq(c, f + 1, Len(c))
        /\ all.left = nbytes - (Len(c) - f)
    BY <1>3, <1>4 DEF JoinedSoFar
  <2>2. NoRoomLeft(all.left) <=> Len(c) - f >= nbytes
    BY <1>0, <2>1 DEF NoRoomLeft
  <2>3. all.retval # -1
    BY <2>1
  <2> QED
    BY <1>2, <2>1, <2>2, <2>3
<1>5. CASE ~ (Len(c) - f <= nbytes)
  <2>1. all.retval = -1
    BY <1>3, <1>5 DEF JoinedSoFar, Refuses
  <2>2. Len(c) - f >= nbytes
    BY <1>0, <1>5
  <2> QED
    BY <1>2, <2>1, <2>2
<1> QED
  BY <1>4, <1>5

\* The command of the program in the PCB is a text.
LEMMA StartedIsText ==
  /\ ShellInit => started \in Seq(Characters)
  /\ ShellInv /\ started \in Seq(Characters) /\ [ShellNext]_<<vars, shell>>
       => (started \in Seq(Characters))'
<1>1. ShellInit => started \in Seq(Characters)
  BY DEF ShellInit, Init
<1>2. ASSUME ShellInv, [ShellNext]_<<vars, shell>> PROVE started' = started \/ started' = command
  BY <1>2 DEF ShellNext, vars, shell_read, shell_exit, shell_empty_line, shell_execute, execute,
              shell_parse, parse_first_space, parse_argument, parse_name, parse_end, shell_refused,
              parse_fails, launch_fails, shell_launch, launch, program_getargs, getargs,
              program_halt, shell_report
<1>3. ShellInv => command \in Seq(Characters)
  BY DEF ShellInv, ArgumentsInv, ArgumentsTypeOK
<1> QED
  BY <1>1, <1>2, <1>3

\* A program gets the same arguments from the kernel's getargs() as from that of
\* ece391emulate.c, for commands and buffers of any length with one space between
\* words, except where the arguments fill the buffer exactly.
THEOREM AlwaysEmulationAgrees == ShellSpec => []EmulationAgrees
<1>1. ASSUME ShellInv, started \in Seq(Characters) PROVE EmulationAgrees
  <2> SUFFICES ASSUME Spaces(started) # {}, NEW nbytes \in BufferSizes,
                      \A k \in Spaces(ArgumentsOf(started)) :
                        /\ k \in 2 .. Len(ArgumentsOf(started)) - 1
                        /\ ArgumentsOf(started)[k + 1] # "space"
               PROVE  emulated_getargs(started, nbytes) =
                        IF DoNotFit(nbytes) \/ nbytes = Len(ArgumentsOf(started))
                        THEN [retval |-> -1, buf |-> << >>]
                        ELSE [retval |-> 0, buf |-> argbuf]
    BY DEF EmulationAgrees
  <2> DEFINE c == started
  <2> DEFINE f == FirstSpace(c)
  <2> DEFINE args == ArgumentsOf(c)
  <2>1. nbytes \in Nat /\ c \in Seq(Characters) /\ Len(c) \in Nat
    BY <1>1, ArgumentsAssumption
  <2>2. argbuf = args
    BY <1>1 DEF ShellInv, ArgumentsInv
  <2>3. f \in Spaces(c) /\ \A j \in Spaces(c) : f <= j
    <3>1. Spaces(c) \in SUBSET Nat
      BY DEF Spaces
    <3>2. \E x \in Spaces(c) : \A y \in Spaces(c) : x <= y
      BY <3>1, LeastNumber
    <3> QED
      BY <3>2 DEF FirstSpace
  <2>4. f \in 1 .. Len(c) /\ c[f] = "space" /\ \A k \in 1 .. f - 1 : c[k] # "space"
    BY <2>1, <2>3 DEF Spaces
  <2>5. args = SubSeq(c, f + 1, Len(c))
    BY DEF ArgumentsOf
  <2> HIDE DEF f, args
  <2>6. Len(args) = Len(c) - f /\ \A k \in 1 .. Len(c) - f : args[k] = c[f + k]
    BY <2>1, <2>4, <2>5
  <2>7. ASSUME NEW k \in f + 1 .. Len(c), c[k] = "space"
        PROVE  k # f + 1 /\ k < Len(c) /\ c[k + 1] # "space"
    <3>1. k - f \in 1 .. Len(args) /\ args[k - f] = c[f + (k - f)] /\ f + (k - f) = k
      BY <2>1, <2>4, <2>6
    <3>2. k - f \in Spaces(args)
      BY <2>7, <3>1 DEF Spaces
    <3>3. k - f \in 2 .. Len(args) - 1 /\ args[(k - f) + 1] # "space"
      BY <3>2 DEF args
    <3>4. (k - f) + 1 \in 1 .. Len(c) - f /\ f + ((k - f) + 1) = k + 1
      BY <2>1, <2>4, <2>6, <3>3
    <3> QED
      BY <2>1, <2>4, <2>6, <3>3, <3>4
  <2>8. SingleSpaced(c, f)
    BY <2>4, <2>7 DEF SingleSpaced
  <2>9. emulated_getargs(c, nbytes) =
          IF Len(c) - f >= nbytes THEN [retval |-> -1, buf |-> << >>]
          ELSE [retval |-> 0, buf |-> SubSeq(c, f + 1, Len(c))]
    BY <2>1, <2>8, EmulatedArguments
  <2>10. DoNotFit(nbytes) \/ nbytes = Len(args) <=> Len(c) - f >= nbytes
    <3>1. Len(argbuf) = Len(c) - f /\ Len(args) = Len(c) - f
      BY <2>2, <2>6
    <3>2. Len(c) - f \in Nat
      BY <2>1, <2>4
    <3> DEFINE n == Len(c) - f
    <3>3. (DoNotFit(nbytes) \/ nbytes = Len(args)) = (nbytes = 0 \/ n > nbytes \/ nbytes = n)
      BY <3>1 DEF DoNotFit
    <3>4. n \in Nat
      BY <3>2
    <3> HIDE DEF n
    <3>5. (nbytes = 0 \/ n > nbytes \/ nbytes = n) <=> n >= nbytes
      BY <2>1, <3>4
    <3> QED
      BY <3>3, <3>5 DEF n
  <2> QED
    BY <2>2, <2>5, <2>9, <2>10 DEF args
<1> QED
  BY <1>1, InitShell, NextShell, StartedIsText, PTL DEF ShellSpec
=============================================================================
