-------------------------------- MODULE Fish --------------------------------
(***************************************************************************)
(* The program fish (fish/fish.c): it reads two frames byte by byte and in *)
(* step, adds a blinking character wherever one of them is not blank, and  *)
(* then runs the list of Blink once per read of the clock.  One action per *)
(* system call, with what fish does until the next one, and one per        *)
(* mp1_ioctl() of main().  vidmap() does not fail for a pointer into the   *)
(* program's page, which this one is; how long a read of the clock takes   *)
(* is Rtc's matter.                                                        *)
(***************************************************************************)
EXTENDS UserPrograms, Blink

CONSTANTS
  SHORT,              \* 2^16: where a location wraps
  OFFSET,             \* 40: the location of the first character of a frame
  WAIT,               \* 200 ticks between the calls of main()
  FrameLength,        \* 15 ticks for each frame
  ExtraAt,            \* 6 * 80 + 60
  ExtraOn, ExtraOff   \* 7 and 6 ticks

ASSUME FishAssumption ==
  /\ SHORT \in Nat /\ SHORT >= COLS * ROWS
  /\ {"rtc", "frame0", "frame1"} \cap StandardNames = {}
  /\ OFFSET \in Cells \ {0} /\ ExtraAt \in Cells \ {0}
  /\ {WAIT, FrameLength, ExtraOn, ExtraOff} \subseteq Nat \ {0}

BLANK == "blank"

VARIABLES
  char,           \* c0 and c1
  eof,            \* the frames that have ended: of eof0 and eof1
  row, col,       \* of add_frames()
  ticks           \* the reads of the clock so far: i of the loops of main()

fvars == <<char, eof, row, col, ticks, bvars>>

FishInit ==
  /\ ProgramsInit
  /\ BlinkInit
  /\ char = <<"0", "0">>
  /\ eof = {}
  /\ row = 0 /\ col = 0
  /\ ticks = 0

start_fish ==
  /\ start("fish", << >>)
  /\ char' = <<"0", "0">>
  /\ eof' = {}
  /\ row' = 0 /\ col' = 0
  /\ ticks' = 0
  /\ BlinkLoaded

-----------------------------------------------------------------------------
(* main() up to add_frames(), and its two open() calls *)

\* Whether this works is not looked at.
fish_open_rtc ==
  /\ upc = "open"
  /\ open("rtc") \/ open_fails("rtc")
  /\ fds' = [fds EXCEPT !.rtc = retval']
  /\ GoesOn("frame0")
  /\ UNCHANGED fvars

fish_open_frame ==
  /\ \/ upc = "frame0" /\ OpenAs("frame0", "frame0", "frame1", -1)
     \/ upc = "frame1" /\ OpenAs("frame1", "frame1", "byte0", -1)
  /\ UNCHANGED fvars

-----------------------------------------------------------------------------
(* add_frames() *)

FrameFd(k) == IF k = 1 THEN fds.frame0 ELSE fds.frame1

\* The next byte of frame k, unless its line has ended.  The end of the file
\* ends the line; a read that fails leaves the character as it was.
NextByte(k) ==
  IF char[k] = NL THEN UNCHANGED <<vars, char, eof>>
  ELSE /\ read(FrameFd(k), 1)
       /\ char' = [char EXCEPT ![k] = IF retval' = 0 THEN NL
                                      ELSE IF retval' = 1 THEN Bytes(FrameFd(k), 1)[1] ELSE @]
       /\ eof' = IF retval' = 0 THEN eof \cup {k} ELSE eof

Padded(c) == IF c = NL THEN BLANK ELSE c

DrawnIfBoth(c0, c1) == Padded(c0) # BLANK /\ Padded(c1) # BLANK

IsDrawn(c0, c1) == Padded(c0) # BLANK \/ Padded(c1) # BLANK

Character(c0, c1, on, off, location) ==
  [Zero EXCEPT !.location = location, !.on_char = c0, !.off_char = c1,
               !.on_length = on, !.off_length = off]

\* An unsigned short.
Location(r, c) == (r * COLS + c + OFFSET) % SHORT

fish_byte0 ==
  /\ upc = "byte0"
  /\ NextByte(1)
  /\ GoesOn("byte1")
  /\ UNCHANGED <<fds, row, col, ticks, bvars>>

\* Both lines have ended, or there is a pair of characters.
fish_byte1 ==
  /\ upc = "byte1"
  /\ NextByte(2)
  /\ \/ /\ char' = <<NL, NL>>
        /\ GoesOn("close0")
        /\ UNCHANGED <<col, bvars>>
     \/ /\ char' # <<NL, NL>>
        /\ IF IsDrawn(char'[1], char'[2])
           THEN mp1_ioctl_add(Character(Padded(char'[1]), Padded(char'[2]),
                                        FrameLength, FrameLength, Location(row, col)))
           ELSE UNCHANGED bvars
        /\ col' = col + 1
        /\ GoesOn("byte0")
  /\ UNCHANGED <<fds, row, ticks>>

\* A frame that has ended is closed at the end of this row and of each later
\* one, and stays at its end.
CloseEnded(k) ==
  IF k \in eof
  THEN /\ close(FrameFd(k)) \/ close_fails(FrameFd(k))
       /\ char' = [char EXCEPT ![k] = NL]
  ELSE UNCHANGED vars /\ char' = [char EXCEPT ![k] = "0"]

fish_close0 ==
  /\ upc = "close0"
  /\ CloseEnded(1)
  /\ GoesOn("close1")
  /\ UNCHANGED <<fds, eof, row, col, ticks, bvars>>

fish_close1 ==
  /\ upc = "close1"
  /\ CloseEnded(2)
  /\ row' = row + 1
  /\ col' = 0
  /\ GoesOn(IF eof = {1, 2} THEN "rate" ELSE "byte0")
  /\ UNCHANGED <<fds, eof, ticks, bvars>>

-----------------------------------------------------------------------------
(* main() behind add_frames() *)

fish_rate ==
  /\ upc = "rate"
  /\ write(fds.rtc, 4) \/ (fds.rtc \notin flags /\ transfer_fails)
  /\ GoesOn("tick")
  /\ UNCHANGED <<fds, fvars>>

\* The loops: a read of the clock, and the tasklet, which does not come back from
\* a list without an end.
fish_tick ==
  /\ upc = "tick"
  /\ read(fds.rtc, 4) \/ (fds.rtc \notin flags /\ transfer_fails)
  /\ \/ /\ ~ IsEndless
        /\ mp1_rtc_tasklet
        /\ ticks' = ticks + 1
        /\ GoesOn(IF ticks' \in {WAIT, 2 * WAIT, 3 * WAIT} THEN "ioctl"
                  ELSE IF ticks' = 3 * WAIT + COLS * ROWS THEN "close" ELSE "tick")
     \/ /\ IsEndless
        /\ GoesOn("spin")
        /\ UNCHANGED <<ticks, bvars>>
  /\ UNCHANGED <<fds, char, eof, row, col>>

\* What the tasklet does to the screen from then on is left out.
fish_spin ==
  /\ upc = "spin"
  /\ UNCHANGED <<vars, upc, status, fds, fvars>>

\* Between the loops.  The location to remove is i, which is WAIT by then.
fish_ioctl ==
  /\ upc = "ioctl"
  /\ \/ ticks = WAIT /\ mp1_ioctl_add(Character("I", "M", ExtraOn, ExtraOff, ExtraAt))
     \/ ticks = 2 * WAIT /\ mp1_ioctl_sync(OFFSET, ExtraAt)
     \/ ticks = 3 * WAIT /\ mp1_ioctl_remove(WAIT)
  /\ GoesOn("tick")
  /\ UNCHANGED <<vars, fds, char, eof, row, col, ticks>>

fish_close ==
  /\ upc = "close"
  /\ close(fds.rtc) \/ close_fails(fds.rtc)
  /\ Ends(0)
  /\ UNCHANGED <<fds, fvars>>

fish ==
  /\ program = "fish"
  /\ \/ fish_open_rtc \/ fish_open_frame
     \/ fish_byte0 \/ fish_byte1
     \/ fish_close0 \/ fish_close1
     \/ fish_rate \/ fish_tick \/ fish_spin \/ fish_ioctl
     \/ fish_close
  /\ UNCHANGED <<program, argument, chunk, fname, data, last, printed, began, stale>>

FishNext ==
  \/ ProgramsNext /\ UNCHANGED fvars
  \/ start_fish
  \/ fish

FishSpec == FishInit /\ [][FishNext]_<<vars, pvars, fvars>>
=============================================================================
