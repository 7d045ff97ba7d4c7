--------------------------- MODULE FilterUnitTests ---------------------------
(***************************************************************************)
(* The unit tests of src/ntp-proto/src/filter.rs (mod test) on the model's *)
(* operators.  Each definition sets up the test's register and is TRUE iff *)
(* the test's assertion holds of the model.  They need the resolution of   *)
(* the Peer model (ONE units per second): at one unit per second, the      *)
(* truncated dispersion of eight dummies is 15 s and the first test fails. *)
(*                                                                         *)
(* The two clock_filter tests build a Peer without the poll and reach      *)
(* fields, so they do not compile against this struct; their scenarios    *)
(* (spec S1, S2) are steps of the refinement checks.                        *)
(***************************************************************************)
EXTENDS Peer

\* TemporaryList::new() (and LastMeasurements::new()): eight dummies.
AllDummies == [i \in 1..NSTAGE |-> CF!DUMMY]

\* `register[k].offset = NtpDuration::from_seconds(offs[k])` for the
\* first stages of reg.
WithOffsets(reg, offs) ==
  [i \in 1..NSTAGE |-> IF i <= Len(offs)
                         THEN [reg[i] EXCEPT !.offset = offs[i] * ONE]
                         ELSE reg[i]]

\* test dispersion_of_dummys: 16.0 - dispersion().to_seconds() < 0.1.
dispersion_of_dummys == 10 * (16 * ONE - CF!dispersion(AllDummies)) < ONE

\* test dummys_are_not_valid
dummys_are_not_valid == CF!valid_tuples(AllDummies) = <<>>

\* test jitter_of_single: one real offset (42 s), sorted, anchored at it.
jitter_of_single ==
  LET reg == WithOffsets(AllDummies, <<42>>)
  IN CF!jitter(CF!from_clock_filter_contents(reg), reg[1], 0) = 0

\* test jitter_of_pair: offsets 20 s and 30 s, anchored at the first.
jitter_of_pair ==
  LET tmp == WithOffsets(AllDummies, <<20, 30>>)
  IN CF!jitter(tmp, tmp[1], 0) = 10 * ONE

\* test jitter_of_triple: offsets 20, 20 and 30 s, anchored at the first.
jitter_of_triple ==
  LET tmp == WithOffsets(AllDummies, <<20, 20, 30>>)
  IN CF!jitter(tmp, tmp[1], 0) = 5 * ONE

\* The assertions of the unit tests of TemporaryList hold of the model's
\* dispersion, valid_tuples and jitter: the all-dummy dispersion just
\* under 16 s (spec 8.2), no valid dummy, NaN.max(0) = 0 for one sample,
\* and the (n - 1) divisor of the jitter (spec 4.3, S3, S4).  The tests
\* start from LastMeasurements::new(), which is the register of a peer
\* that has not yet taken a sample.
UnitTestsHold ==
  nextId = 0 => /\ register = AllDummies
                /\ dispersion_of_dummys
                /\ dummys_are_not_valid
                /\ jitter_of_single
                /\ jitter_of_pair
                /\ jitter_of_triple
=============================================================================
