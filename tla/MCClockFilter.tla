--------------------------- MODULE MCClockFilter ---------------------------
(***************************************************************************)
(* Model-checking instance of ClockFilter.  One model unit is one second;  *)
(* the era is shortened to 2^6 units so that both halves of it can be     *)
(* reached, and phi is scaled up to one unit of dispersion per two units   *)
(* of elapsed time so that aging is visible within the bounds.            *)
(***************************************************************************)
EXTENDS ClockFilter

\* Delays below MAX_DISPERSION and one above it: update_with_packet puts no
\* upper bound on the delay of a sample.
MCDelays == {1, 2, 17}

\* Delays up to MAX_DISPERSION, the largest tying with the dummies.
MCDelaysUpToMax == {1, 2, 16}

\* One delay below MAX_DISPERSION and one above it.
MCDelaysTwo == {1, 17}

\* A peer created three units before the end of an era, so that the local
\* clock wraps (as NTP timestamps do in 2036) while samples arrive.
MCStartWrap == Era - 3

\* A peer created early in an era (the regime of the unit tests) ...
MCStartEarly == 1
\* ... and one created in the second half of an era (every NTP timestamp
\* from 1968 to 2036).
MCStartLate == 2^(TimeBits - 1) + 1
=============================================================================
