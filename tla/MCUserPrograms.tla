--------------------------- MODULE MCUserPrograms ---------------------------
(* Constants of the TLC run of Fish, with the programs of UserPrograms. *)
EXTENDS Outputs

CONSTANTS
  MaxText,        \* the longest text
  MaxFrame        \* the longest frame

Texts  == UNION {[1 .. n -> {"a", "b", NL}] : n \in 0 .. MaxText}
Frames == UNION {[1 .. n -> {"a", BLANK, NL}] : n \in 0 .. MaxFrame}

Good(name, text) == [name |-> name, type |-> "file", text |-> text, good |-> Len(text) + 1]
Dot == [name |-> ".", type |-> "dir", text |-> << >>, good |-> 1]
Clock == [name |-> "rtc", type |-> "rtc", text |-> << >>, good |-> 1]

\* A file of four bytes whose second block is bad, behind a block of three.
Broken == [name |-> "broken", type |-> "file", text |-> <<"a", NL, "b", NL>>, good |-> 3]

\* Arbitrary programs meet a good file, a broken one, the directory and the clock,
\* and fill the table with descriptors of the clock.
AnyDisks == {<<Dot, Good("text", <<"a", NL, "b">>), Broken, Clock>>, <<Clock>>}
MCAnyFds == [d \in AnyDisks |-> IF d = <<Clock>> THEN FD ELSE FD \ {NUM_FDS - 1}]

\* cat, ls and grep meet every text, and a disk without a directory entry.
TextDisks == AnyDisks
  \cup {<<Dot, Clock, Good("text", text), Good("more", <<"b", "a">>)>> : text \in Texts}
  \cup {<<Good("text", <<"a">>)>>}

\* fish meets every pair of frames, and disks without a frame or a clock.
FrameDisks ==
  {<<Clock, Good("frame0", f), Good("frame1", g)>> : f, g \in Frames}
  \cup {<<Clock, Good("frame0", <<"a">>)>>, <<Good("frame0", <<"a">>), Good("frame1", <<BLANK, "a">>)>>}

MCDisks == TextDisks \cup FrameDisks

MCRunsOn == [any |-> AnyDisks, cat |-> TextDisks, ls |-> TextDisks, grep |-> TextDisks,
             fish |-> AnyDisks \cup FrameDisks]

MCPatterns == {<< >>, <<"a">>, <<"a", "b">>}
=============================================================================
