--------------------------- MODULE MCIntersection ---------------------------
(***************************************************************************)
(* Model-checking instance of Intersection, one model unit per second.     *)
(***************************************************************************)
EXTENDS Intersection

\* NtpDuration::ONE * 2_000_000_000, in seconds.
MCLowInit == 2000000000

\* low * -164 overflows i64; a release build wraps it to this many seconds
\* (a debug build panics instead).
MCHighInit == -1582485504
=============================================================================
