---------------------------- MODULE ClockFilter ----------------------------
(***************************************************************************)
(* The per-peer clock filter of src/ntp-proto/src/filter.rs:               *)
(* LastMeasurements (the 8-stage shift register), TemporaryList (the       *)
(* delay-sorted view) and Peer::clock_filter, which shifts a new sample in, *)
(* picks the sample of smallest delay, applies the prime directive and     *)
(* updates the peer statistics and the peer's time.                        *)
(*                                                                         *)
(* The environment supplies the samples (the result of update_with_packet)*)
(* at successive instants of the local clock, and the system leap          *)
(* indicator, which may change between calls.                              *)
(***************************************************************************)
EXTENDS Integers, Sequences, FiniteSets, NtpTime
LOCAL INSTANCE Functions

CONSTANTS
  NSTAGE,            \* stages of the shift register (8 in the code)
  MAX_DISPERSION,    \* NtpDuration::MAX_DISPERSION (16 s)
  Offsets,           \* offsets a new sample may carry
  Delays,            \* delays a new sample may carry
  Dispersions,       \* initial dispersions a new sample may carry
  SystemPrecisions,  \* values of the system_precision argument (f64 seconds)
  SyncStates,        \* leap states the system may be in (a subset of BOOLEAN)
  Start,             \* the local clock when the peer is created
  MaxElapsed,        \* bound on how far the local clock advances
  MaxSamples         \* bound on the number of samples fed to the filter

ASSUME NSTAGE \in Nat \ {0} /\ Start \in Timestamps /\ MaxSamples \in Nat

VARIABLES
  register,       \* last_measurements.register, index 1 is the newest
  statistics,     \* peer.statistics
  time,           \* peer.time: the time of the sample last used
  elapsed,        \* local clock = Start + elapsed
  system_synced,  \* system_leap_indicator.is_synchronized()
  decision,       \* the Decision returned by the last clock_filter call
  \* history, not state of the code:
  ids,            \* ids[i] identifies the sample in register[i]; 0 = dummy
  nextId,         \* number of samples fed so far
  maxUsed,        \* largest id of a sample the filter has used (Process)
  chosen,         \* id of the sample used by the last Process
  ignoredRun      \* Ignore decisions since the last Process

vars == <<register, statistics, time, elapsed, system_synced, decision,
          ids, nextId, maxUsed, chosen, ignoredRun>>

now == TsAdd(Start, elapsed)

FilterTuple == [offset : Int, delay : Int, dispersion : Int, time : Timestamps]

\* PeerStatistics; jitter (an f64 of seconds in the code) is held in model
\* units, rounded down.
PeerStatistics == [offset : Int, delay : Int, dispersion : Int, jitter : Int]

\* The outcomes of clock_filter (enum Decision).
Decision == {"Ignore", "Process"}

\* FilterTuple::DUMMY
DUMMY == [offset |-> 0, delay |-> MAX_DISPERSION,
          dispersion |-> MAX_DISPERSION, time |-> TS_ZERO]

\* FilterTuple::is_dummy: equality with DUMMY.
is_dummy(t) == t = DUMMY

\* Mutant: dummies are aged like any other tuple.
Aged_dummies_too(t, correction) == [t EXCEPT !.dispersion = @ + correction]

\* The dispersion aging of one stage inside shift_and_insert: a dummy is
\* left alone, any other tuple gets the correction added.
Aged(t, correction) ==
  IF is_dummy(t) THEN t ELSE [t EXCEPT !.dispersion = @ + correction]

\* Mutant: the stage index is not advanced, so the new tuple overwrites
\* stage 1 and nothing moves toward the tail.
shift_and_insert_in_place(reg, current, correction) ==
  [i \in 1..NSTAGE |-> IF i = 1 THEN current ELSE Aged(reg[i], correction)]

\* LastMeasurements::shift_and_insert: the loop ages each stage and swaps it
\* with the carried tuple, so the new tuple lands in stage 1, stage i moves
\* to i+1 aged, and the aged oldest tuple is dropped.
shift_and_insert(reg, current, correction) ==
  [i \in 1..NSTAGE |-> IF i = 1 THEN current ELSE Aged(reg[i - 1], correction)]

\* Position of stage j in a stable sort by ascending delay (Rust's sort_by
\* is stable; integer delays are always comparable, so the NaN fallback of
\* the comparator never applies).
DelayRank(reg, j) ==
  1 + Cardinality({k \in 1..NSTAGE :
                     \/ reg[k].delay < reg[j].delay
                     \/ reg[k].delay = reg[j].delay /\ k < j})

\* SortOrder(reg)[r] is the stage that ends up at position r.
SortOrder(reg) ==
  [r \in 1..NSTAGE |-> CHOOSE j \in 1..NSTAGE : DelayRank(reg, j) = r]

\* TemporaryList::from_clock_filter_contents: copy and sort by delay.
from_clock_filter_contents(reg) ==
  [r \in 1..NSTAGE |-> reg[SortOrder(reg)[r]]]

\* TemporaryList::smallest_delay
smallest_delay(tmp) == tmp[1]

\* TemporaryList::valid_tuples: drop the run of dummies at the end.
valid_tuples(tmp) ==
  LET num_invalid == Cardinality({k \in 1..NSTAGE :
                                    \A m \in k..NSTAGE : is_dummy(tmp[m])})
  IN SubSeq(tmp, 1, NSTAGE - num_invalid)

\* TemporaryList::dispersion: sum of dispersion_i / 2^(i+1), i from 0,
\* each term an i64 division.
dispersion(tmp) ==
  SumFunction([i \in 1..NSTAGE |-> TruncDiv(tmp[i].dispersion, 2^i)])

\* Integer square root, rounding down, by bisection on [lo, hi).
RECURSIVE SqrtBetween(_, _, _)
SqrtBetween(n, lo, hi) ==
  IF hi - lo <= 1 THEN lo
  ELSE LET mid == (lo + hi) \div 2
       IN IF mid * mid <= n THEN SqrtBetween(n, mid, hi) ELSE SqrtBetween(n, lo, mid)

\* The search starts below 46341, whose square exceeds every integer TLC
\* can hold, so mid * mid never overflows.
FloorSqrt(n) == SqrtBetween(n, 0, IF n < 46340 THEN n + 1 ELSE 46341)

MaxOf(a, b) == IF a >= b THEN a ELSE b

\* Mutant: the root mean square is divided by the number of valid tuples,
\* the smallest-delay tuple included.
jitter_help_all(valid, smallest, system_precision) ==
  LET rms == FloorSqrt(SumFunction([k \in DOMAIN valid |->
                         (valid[k].offset - smallest.offset)^2]))
  IN IF Len(valid) = 0 THEN system_precision
     ELSE MaxOf(rms \div Len(valid), system_precision)

\* TemporaryList::jitter_help.  The f64 square root and division are taken
\* on integers, rounding down.  With one valid tuple the code divides 0.0 by
\* 0.0, giving NaN, and NaN.max(p) is p; with none, `len() - 1` underflows
\* (a panic in a debug build, 0.0 in a release build, then p).
jitter_help(valid, smallest, system_precision) ==
  LET rms == FloorSqrt(SumFunction([k \in DOMAIN valid |->
                         (valid[k].offset - smallest.offset)^2]))
  IN IF Len(valid) <= 1 THEN system_precision
     ELSE MaxOf(rms \div (Len(valid) - 1), system_precision)

\* TemporaryList::jitter
jitter(tmp, smallest, system_precision) ==
  jitter_help(valid_tuples(tmp), smallest, system_precision)

\* Mutant: `< ZERO` in place of `<= ZERO`.
IsStale_strict(smallest, peer_time, synced) ==
  TsSub(smallest.time, peer_time) < 0 /\ synced

\* Mutant: the test is applied whatever the system's leap state.
IsStale_unsynced_too(smallest, peer_time, synced) ==
  TsSub(smallest.time, peer_time) <= 0

\* The prime-directive test of clock_filter: the smallest-delay sample is
\* not newer than the sample last used and the system is synchronized.
IsStale(smallest, peer_time, synced) ==
  TsSub(smallest.time, peer_time) <= 0 /\ synced

-----------------------------------------------------------------------------

Init ==
  /\ register = [i \in 1..NSTAGE |-> DUMMY]
  /\ statistics = [offset |-> 0, delay |-> 0, dispersion |-> 0, jitter |-> 0]
  /\ time = TS_ZERO
  /\ elapsed = 0
  /\ system_synced \in SyncStates
  /\ decision = "None"
  /\ ids = [i \in 1..NSTAGE |-> 0]
  /\ nextId = 0
  /\ maxUsed = 0
  /\ chosen = 0
  /\ ignoredRun = 0

\* Peer::clock_filter called with a sample taken at the current local time;
\* the local clock has moved on before the next sample is taken.
clock_filter(new_tuple, system_precision) ==
  LET dispersion_correction == multiply_by_phi(TsSub(new_tuple.time, time))
      reg == shift_and_insert(register, new_tuple, dispersion_correction)
      order == SortOrder(reg)
      tmp == from_clock_filter_contents(reg)
      best == smallest_delay(tmp)
      newIds == [i \in 1..NSTAGE |-> IF i = 1 THEN nextId + 1 ELSE ids[i - 1]]
  IN /\ register' = reg
     /\ ids' = newIds
     /\ nextId' = nextId + 1
     /\ IF IsStale(best, time, system_synced)
          THEN /\ decision' = "Ignore"
               /\ ignoredRun' = ignoredRun + 1
               /\ UNCHANGED <<statistics, time, maxUsed, chosen>>
          ELSE /\ decision' = "Process"
               /\ statistics' = [offset |-> best.offset,
                                 delay |-> best.delay,
                                 dispersion |-> dispersion(tmp),
                                 jitter |-> jitter(tmp, best, system_precision)]
               /\ time' = best.time
               /\ chosen' = newIds[order[1]]
               /\ maxUsed' = MaxOf(maxUsed, newIds[order[1]])
               /\ ignoredRun' = 0

FeedSample ==
  /\ nextId < MaxSamples
  /\ elapsed < MaxElapsed
  /\ \E o \in Offsets, d \in Delays, e \in Dispersions, p \in SystemPrecisions :
       clock_filter([offset |-> o, delay |-> d, dispersion |-> e, time |-> now], p)
  /\ elapsed' = elapsed + 1
  /\ UNCHANGED system_synced

\* The local clock advances with no packet arriving.
Tick ==
  /\ elapsed < MaxElapsed
  /\ elapsed' = elapsed + 1
  /\ UNCHANGED <<register, statistics, time, system_synced, decision,
                 ids, nextId, maxUsed, chosen, ignoredRun>>

\* The system gains or loses synchronization (outside the filter).
SetSystemLeap ==
  /\ system_synced' \in SyncStates \ {system_synced}
  /\ UNCHANGED <<register, statistics, time, elapsed, decision,
                 ids, nextId, maxUsed, chosen, ignoredRun>>

Next == FeedSample \/ Tick \/ SetSystemLeap

Spec == Init /\ [][Next]_vars

-----------------------------------------------------------------------------

TypeOK ==
  /\ register \in [1..NSTAGE -> FilterTuple]
  /\ statistics \in PeerStatistics
  /\ time \in Timestamps
  /\ elapsed \in 0..MaxElapsed
  /\ system_synced \in SyncStates
  /\ decision \in Decision \cup {"None"}
  /\ ids \in [1..NSTAGE -> 0..MaxSamples]
  /\ maxUsed \in 0..MaxSamples

PD == INSTANCE PrimeDirectiveSpec
        WITH window <- ids, used <- maxUsed, synced <- system_synced,
             outcome <- decision, count <- nextId

\* The prime directive (comment in clock_filter), as a refinement: the
\* filter implements PrimeDirectiveSpec.  While the system is synchronized
\* it uses a sample at most once and never one older than a sample already
\* used; it ignores a sample only while synchronized; what it uses is a
\* sample of the register, not a dummy.  Ages are arrival order here, while
\* the code compares local-clock times of the smallest-delay sample and of
\* the peer, through a sort, a wrapping subtraction and a time that only
\* moves on Process.
PrimeDirectiveRefined == PD!Spec

\* No starvation: while samples keep arriving, the filter never ignores
\* NSTAGE samples in a row; the sample it holds on to has left the
\* shift register by then and the smallest-delay sample is newer than it.
BoundedStarvation == ignoredRun < NSTAGE

\* Spec 3/4.3: dummies have the largest delay and collect at the tail of the
\* sorted view, so valid_tuples holds no dummy.
ValidTuplesAreReal ==
  LET valid == valid_tuples(from_clock_filter_contents(register))
  IN \A k \in 1..Len(valid) : ~is_dummy(valid[k])

\* Spec 8.3: the valid prefix of a register holding k real samples has
\* length k.  valid_tuples strips the trailing run of entries equal to
\* DUMMY, so this fails if a real sample sorts among the dummies or if
\* aging or insertion makes a real sample equal to the sentinel.
ValidPrefixLength ==
  Len(valid_tuples(from_clock_filter_contents(register)))
    = Cardinality({i \in 1..NSTAGE : ids[i] # 0})

=============================================================================
