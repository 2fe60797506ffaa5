------------------------------- MODULE Outputs ------------------------------
(***************************************************************************)
(* What grep prints and fish shows, compared with the lines of the texts   *)
(* they read.                                                              *)
(***************************************************************************)
EXTENDS Fish, SequencesExt

\* The lines of a text.  A text that ends with a newline has no line behind it.
LinesOf(text) ==
  LET starts == {i \in DOMAIN text : i = 1 \/ text[i - 1] = NL}
      line(i) == SubSeq(text, i, Min({j \in i .. Len(text) + 1 :
                                        j = Len(text) + 1 \/ text[j] = NL}) - 1)
      inOrder == SetToSortSeq(starts, <)
  IN  [k \in DOMAIN inOrder |-> line(inOrder[k])]

HasPattern(line, pattern) ==
  \E k \in 0 .. Len(line) - Len(pattern) : SubSeq(line, k + 1, k + Len(pattern)) = pattern

\* grep prints, in the order of the directory, every line of every file that
\* contains the pattern and nothing else, however lines fall on the buffer's
\* boundaries, if it started at the first entry, every line fits into the
\* buffer and no newline lay behind the buffer by chance.  The empty pattern
\* matches nothing.
GrepPrintsMatchingLines ==
  program = "grep" /\ upc = "done" /\ status = 0 /\ began = 0 /\ ~ stale =>
    LET matching(entry) ==
          LET lines == SelectSeq(LinesOf(entry.text),
                                 LAMBDA l : argument # << >> /\ HasPattern(l, argument))
          IN  [k \in DOMAIN lines |-> <<entry.name, lines[k]>>]
        searched == SelectSeq(disk, LAMBDA entry : entry.type = "file")
        texts == [i \in DOMAIN searched |-> matching(searched[i])]
    IN  (\A i \in DOMAIN searched : \A k \in DOMAIN LinesOf(searched[i].text) :
           Len(LinesOf(searched[i].text)[k]) <= BUFSIZE)
          => printed = FlattenSeq(texts)

-----------------------------------------------------------------------------
\* The character of a frame's line at a column, counted from 0; blank behind the
\* end of the line and of the frame.
CharacterAt(lines, line, column) ==
  IF line + 1 \in DOMAIN lines /\ column + 1 \in DOMAIN lines[line + 1]
  THEN lines[line + 1][column + 1] ELSE BLANK

\* What a location of the screen shows after n ticks: the frames in turn, each
\* for FrameLength ticks, but what was there before where both are blank; and the
\* character removed after 3 * WAIT ticks as it was then.
Picture(frames, c, n) ==
  LET at(k) == IF c < OFFSET THEN BLANK
               ELSE CharacterAt(frames[k], (c - OFFSET) \div COLS, (c - OFFSET) % COLS)
      seen == IF c = WAIT THEN Min({n, 3 * WAIT}) ELSE n
  IN  IF at(1) = BLANK /\ at(2) = BLANK THEN "old"
      ELSE IF (seen \div FrameLength) % 2 = 0 THEN at(1) ELSE at(2)

\* The extra character has a rhythm of its own from WAIT ticks on, and, from the
\* first change of frame behind 2 * WAIT ticks on, that of the frames, if they
\* have a character at OFFSET.
Extra(frames, n) ==
  LET synced  == n >= 2 * WAIT /\ Picture(frames, OFFSET, 0) # "old"
      joining == synced /\ n \div FrameLength = (2 * WAIT) \div FrameLength
      on == IF synced THEN (n \div FrameLength) % 2 = 0
                      ELSE (n - WAIT) % (ExtraOn + ExtraOff) < ExtraOn
  IN  IF n < WAIT THEN {"old"}
      ELSE IF joining THEN {"I", "M"} ELSE IF on THEN {"I"} ELSE {"M"}

\* The location of every character fits into 16 bits.
IsSmall(lines) == \A k \in DOMAIN lines : (k - 1) * COLS + Len(lines[k]) + OFFSET <= SHORT

\* The two frames alternate on the screen exactly as their files draw them: lines
\* and files of different lengths, blanks in one of them and characters that
\* mp1_malloc() and the list took in any order show at every tick what the frame
\* whose turn it is has there.  The extra character joins, and the removed one
\* stops.  The frames are small, as those of the repository are: no location
\* wraps.
FishAnimates ==
  program = "fish" /\ (upc \in {"rate", "tick", "close"} \/ (upc = "done" /\ status = 0))
    => LET frames == <<LinesOf(Entry("frame0").text), LinesOf(Entry("frame1").text)>>
       IN  IsSmall(frames[1]) /\ IsSmall(frames[2]) => \A c \in Cells :
             IF c # ExtraAt THEN screen[c] = Picture(frames, c, ticks)
             ELSE Picture(frames, c, 0) = "old" => screen[c] \in Extra(frames, ticks)
=============================================================================
