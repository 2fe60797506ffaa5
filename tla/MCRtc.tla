-------------------------------- MODULE MCRtc -------------------------------
(* Constants of the TLC run of Rtc. *)
EXTENDS Rtc

\* Valid rates, the one that stops the clock, the fastest that is refused and
\* an odd one.
MCRequests == {2, 1024, 0, 2048, 3}
=============================================================================
