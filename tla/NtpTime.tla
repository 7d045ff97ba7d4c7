------------------------------ MODULE NtpTime ------------------------------
(***************************************************************************)
(* Fixed-point NTP time as used by src/ntp-proto/src/filter.rs.            *)
(*                                                                         *)
(* NtpTimestamp is an unsigned fixed-point number that wraps at the end of *)
(* an NTP era; the difference of two timestamps is a signed NtpDuration    *)
(* computed in two's complement, so a difference of more than half an era  *)
(* changes sign.  The model keeps that behaviour with TimeBits-bit         *)
(* timestamps: one model unit stands for one fixed-point unit of the code, *)
(* scaled so that TLC's integers suffice.  Durations (offsets, delays,     *)
(* dispersions) are integers in the same unit and of the same width: an    *)
(* i64 is a TimeBits-bit signed integer here, so a duration overflows at   *)
(* the same fraction of an era as in the code.                             *)
(*                                                                         *)
(* The NtpTimestamp/NtpDuration types live outside src/ (in the crate's    *)
(* time module); their subtraction and division are modelled from the      *)
(* spec (section 3 and 4.1) and from Rust's i64 semantics.                 *)
(***************************************************************************)
EXTENDS Integers

CONSTANTS
  TimeBits,  \* width of a timestamp in the model (64 in the code)
  PhiNum,    \* multiply_by_phi multiplies by PhiNum ...
  PhiDen     \* ... and divides by PhiDen (15 and 1_000_000 in the code)

ASSUME TimeBits \in 2..28 /\ PhiNum \in Nat /\ PhiDen \in Nat \ {0}

Era == 2^TimeBits

\* All values of an NtpTimestamp.
Timestamps == 0..(Era - 1)

\* NtpTimestamp::ZERO, the default of a timestamp.
TS_ZERO == 0

\* Division of a signed integer that truncates toward zero, like i64 `/`.
TruncDiv(a, b) == IF a >= 0 THEN a \div b ELSE -((-a) \div b)

\* An integer reduced to an NtpDuration (an i64, TimeBits bits wide here)
\* in two's complement, as a release build wraps an overflowing i64.
DurationWrap(x) ==
  LET d == x % Era
  IN IF d >= Era \div 2 THEN d - Era ELSE d

\* `NtpTimestamp - NtpTimestamp`: wrapping difference read as a signed
\* two's-complement duration.
TsSub(a, b) == DurationWrap(a - b)

\* Mutant: the sum is not reduced modulo the era.
TsAdd_unwrapped(t, d) == t + d

\* `NtpTimestamp + NtpDuration`, wrapping at the end of the era.
TsAdd(t, d) == (t + d) % Era

\* multiply_by_phi: `(duration * 15) / 1_000_000` in i64 arithmetic.  The
\* product wraps when |duration| exceeds 1/15 of the i64 range (about 4.5
\* years in the code); a debug build panics there instead.
multiply_by_phi(d) == TruncDiv(DurationWrap(d * PhiNum), PhiDen)

\* clamp_ntp_duration: `value.min(upper_bound).max(lower_bound)`.
clamp_ntp_duration(lower, value, upper) ==
  LET capped == IF value < upper THEN value ELSE upper
  IN IF capped > lower THEN capped ELSE lower
=============================================================================
