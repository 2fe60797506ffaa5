----------------------------- MODULE LineEditor -----------------------------
(***************************************************************************)
(* What the terminal driver promises: every terminal has a line of text    *)
(* with an insertion point, edited by keys and taken as a whole.           *)
(***************************************************************************)
EXTENDS Integers, Sequences

CONSTANTS
  Terminals,
  Symbols,       \* the characters a line is made of
  Capacity       \* the longest line

VARIABLES
  text,          \* the line of each terminal
  point          \* how many of its characters are left of the cursor

EditorInit ==
  /\ text = [t \in Terminals |-> << >>]
  /\ point = [t \in Terminals |-> 0]

\* The characters on the two sides of the cursor.
LeftOf(t)  == SubSeq(text[t], 1, point[t])
RightOf(t) == SubSeq(text[t], point[t] + 1, Len(text[t]))

Insert(t) ==
  /\ Len(text[t]) < Capacity
  /\ \E s \in Symbols : text' = [text EXCEPT ![t] = Append(LeftOf(t), s) \o RightOf(t)]
  /\ point' = [point EXCEPT ![t] = @ + 1]

Erase(t) ==
  /\ point[t] > 0
  /\ text' = [text EXCEPT ![t] = SubSeq(@, 1, point[t] - 1) \o RightOf(t)]
  /\ point' = [point EXCEPT ![t] = @ - 1]

Delete(t) ==
  /\ point[t] < Len(text[t])
  /\ text' = [text EXCEPT ![t] = LeftOf(t) \o Tail(RightOf(t))]
  /\ UNCHANGED point

Move(t) ==
  /\ \E p \in {point[t] - 1, point[t] + 1} \cap (0 .. Len(text[t])) :
       point' = [point EXCEPT ![t] = p]
  /\ UNCHANGED text

\* The line goes to a program, or Ctrl+L drops it.
Take(t) ==
  /\ text' = [text EXCEPT ![t] = << >>]
  /\ point' = [point EXCEPT ![t] = 0]

EditorNext ==
  \E t \in Terminals : Insert(t) \/ Erase(t) \/ Delete(t) \/ Move(t) \/ Take(t)

EditorSpec == EditorInit /\ [][EditorNext]_<<text, point>>
=============================================================================
