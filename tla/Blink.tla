-------------------------------- MODULE Blink -------------------------------
(***************************************************************************)
(* The blinking characters of fish/blink.S: a linked list of structures in *)
(* blink_array, allocated by mp1_malloc() and mp1_free() of fish/fish.c,   *)
(* and the characters they poke into the screen that vidmap() gave.  The   *)
(* attribute bytes between the characters are never touched.               *)
(***************************************************************************)
EXTENDS Integers, Sequences, FiniteSetsExt

CONSTANTS
  COLS, ROWS      \* 80 and 25

ASSUME BlinkAssumption == COLS \in Nat \ {0} /\ ROWS \in Nat \ {0}

Cells == 0 .. COLS * ROWS - 1
Null  == -1

VARIABLES
  blink_array,    \* as many structures as the screen has characters
  mp1_list_head,
  screen,         \* the characters at vmem_base_addr
  at_zero         \* history: a character was added at location 0

bvars == <<blink_array, mp1_list_head, screen, at_zero>>

\* A structure after memset(): location 0 means that it is free.
Zero == [location |-> 0, on_char |-> "nul", off_char |-> "nul", on_length |-> 0,
         off_length |-> 0, countdown |-> 0, status |-> FALSE, next |-> Null]

\* No program with such a list is loaded.
BlinkInit ==
  /\ blink_array = << >>
  /\ mp1_list_head = Null
  /\ screen = << >>
  /\ at_zero = FALSE

\* .data as the program is loaded, then the memset() of main().
BlinkLoaded ==
  /\ blink_array' = [s \in Cells |-> Zero]
  /\ mp1_list_head' = Null
  /\ screen' = [c \in Cells |-> "old"]
  /\ at_zero' = FALSE

\* The structures that next pointers lead to from mp1_list_head.  The walk may go
\* one step further than there are structures, so that a list without an end is
\* seen to be too long.
Listed ==
  LET walk[n \in 0 .. COLS * ROWS + 1] ==
        IF n = 0 THEN << >>
        ELSE LET seen == walk[n - 1]
                 s == IF seen = << >> THEN mp1_list_head ELSE blink_array[seen[Len(seen)]].next
             IN  IF s = Null THEN seen ELSE Append(seen, s)
  IN  walk[COLS * ROWS + 1]

-----------------------------------------------------------------------------
FreeSlots == {s \in DOMAIN blink_array : blink_array[s].location = 0}

MallocFirst == IF FreeSlots = {} THEN Null ELSE Min(Cells)

mp1_malloc == IF FreeSlots = {} THEN Null ELSE Min(FreeSlots)

\* The new character is on, at the front of the list and on the screen.  One at
\* location 0 is added too, and mp1_malloc() gives its structure out again.
mp1_ioctl_add(blink) ==
  IF blink.location \in Cells /\ mp1_malloc # Null
  THEN LET s == mp1_malloc IN
         /\ blink_array' = [blink_array EXCEPT ![s] =
                              [blink EXCEPT !.status = TRUE, !.countdown = blink.on_length,
                                            !.next = mp1_list_head]]
         /\ mp1_list_head' = s
         /\ screen' = [screen EXCEPT ![blink.location] = blink.on_char]
         /\ at_zero' = (at_zero \/ blink.location = 0)
  ELSE UNCHANGED bvars

At(location) == {i \in DOMAIN Listed : blink_array[Listed[i]].location = location}

\* The first structure of the list with this location, or NULL.
mp1_find_helper(location) ==
  IF At(location) = {} THEN Null ELSE Listed[Min(At(location))]

\* The structure before s points behind it, and mp1_free() clears s.
Unlinked(s) ==
  [p \in Cells |-> IF p = s THEN Zero
                   ELSE IF blink_array[p].next = s /\ p \in Range(Listed)
                        THEN [blink_array[p] EXCEPT !.next = blink_array[s].next]
                        ELSE blink_array[p]]

\* What the screen shows stays.
mp1_ioctl_remove(location) ==
  LET s == mp1_find_helper(location) IN
    IF s = Null THEN UNCHANGED bvars
    ELSE /\ blink_array' = Unlinked(s)
         /\ mp1_list_head' = IF mp1_list_head = s THEN blink_array[s].next ELSE mp1_list_head
         /\ UNCHANGED <<screen, at_zero>>

\* The second takes over the rhythm of the first.  It shows its off_char whatever
\* its new status: cmovl after testb never moves, since neither SF nor OF is set.
mp1_ioctl_sync(first, second) ==
  LET from == mp1_find_helper(first)
      to   == mp1_find_helper(second)
  IN  IF from = Null \/ to = Null THEN UNCHANGED bvars
      ELSE /\ blink_array' = [blink_array EXCEPT ![to] =
                                [@ EXCEPT !.on_length  = blink_array[from].on_length,
                                          !.off_length = blink_array[from].off_length,
                                          !.countdown  = blink_array[from].countdown,
                                          !.status     = blink_array[from].status]]
           /\ screen' = [screen EXCEPT ![blink_array[to].location] = blink_array[to].off_char]
           /\ UNCHANGED <<mp1_list_head, at_zero>>

\* A structure that was added again is its own next: loops over the list do not
\* end.
IsEndless == Len(Listed) > COLS * ROWS

\* jg after the decrement.
IsDue(s) == blink_array[s].countdown - 1 <= 0

\* Every character of the list counts down, and changes at zero.  Of several at
\* one location the last of the list is what the screen shows.
mp1_rtc_tasklet ==
  LET listed == Listed
      due == SelectSeq(listed, IsDue)
      pokes(c) == {i \in DOMAIN due : blink_array[due[i]].location = c}
      poked(s) == IF blink_array[s].status THEN blink_array[s].off_char ELSE blink_array[s].on_char
      counted(b) == [b EXCEPT !.countdown = @ - 1]
      changed(b) == [b EXCEPT !.status = ~ @,
                              !.countdown = IF b.status THEN b.off_length ELSE b.on_length]
  IN  /\ blink_array' = [s \in Cells |->
                           IF s \notin Range(listed) THEN blink_array[s]
                           ELSE IF IsDue(s) THEN changed(blink_array[s])
                           ELSE counted(blink_array[s])]
      /\ screen' = [c \in Cells |-> IF pokes(c) = {} THEN screen[c] ELSE poked(due[Max(pokes(c))])]
      /\ UNCHANGED <<mp1_list_head, at_zero>>

-----------------------------------------------------------------------------
\* The list that starts at mp1_list_head holds every structure that mp1_malloc()
\* gave out and none that mp1_free() took back, each once: no character is lost
\* from the animation and none is counted down twice, also after a removal from
\* the middle of the list.  This is so as long as no character is at location 0,
\* which is how mp1_malloc() knows a free structure.
BlinksListed ==
  LET used == DOMAIN blink_array \ FreeSlots
  IN  ~ at_zero => Range(Listed) = used /\ Len(Listed) = Cardinality(used)
=============================================================================
