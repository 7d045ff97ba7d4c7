# TLA+ models of the ntpd-rs clock filter and selection core

This directory holds TLA+ models of `src/ntp-proto/src/filter.rs`: the
per-peer clock filter, the sample scoring and the intersection (selection)
algorithm of an NTPv4 client, after RFC 5905 appendix A.5. The TLC
configurations check them. `PROJECT.json` lists the components, the runs,
the mutants that show each checked property can fail, the map from every
definition to the source lines it translates, the findings and the hazards.

## 1. Inventory

### Components, their state and operations

| Component | Code | State | Operations |
|---|---|---|---|
| TimeArith | `multiply_by_phi`, `clamp_ntp_duration`; `NtpTimestamp`/`NtpDuration` (outside `src/`) | none | wrapping timestamp difference, duration arithmetic, φ aging, clamp |
| Sample | `FilterTuple`, `DUMMY`, `is_dummy` | immutable value | equality with the sentinel |
| ShiftRegister | `LastMeasurements` | 8 tuples, newest first | `new`, `shift_and_insert` (age non-dummies, shift, drop oldest) |
| SortedView | `TemporaryList` | 8 tuples sorted by delay (ephemeral) | `from_clock_filter_contents`, `smallest_delay`, `valid_tuples`, `dispersion`, `jitter` |
| Peer | `Peer` | `statistics`, `last_measurements`, `last_packet`, `time`, ids, `host_poll`, `burst`, `out_date`, `next_date`, `reach` | `clock_filter`, `update_with_packet`, `root_distance`, `accept_synchronization` |
| Reachability | `Reach` | `u8` | `update` (set bit 0), `is_reachable` (never called) |
| PollControl | `Peer::poll_update` | `host_poll`, `next_date` | clamp the poll, advance `next_date` (burst / normal), never schedule in the past |
| Intersection | `construct_candidate_list`, `find_interval` | none (pure function of a peer snapshot) | build and sort the chime list; the two sweeps inside the `allow` loop |

The packet codec, sockets, poll scheduler, clock discipline and
configuration are external collaborators. They are not in this repository
snapshot.

### How the components interact

A higher layer calls `update_with_packet` with a decoded header and the
destination timestamp. It stores the header, rejects unsynchronized or
invalid packets, updates the poll state and `reach`, and returns a
`FilterTuple`. The caller passes that tuple to `clock_filter`, together with
the *system* leap indicator and precision, which are state outside the peer.
`clock_filter` shifts the tuple into the register, ages the older entries,
sorts, applies the prime directive and, on `Process`, overwrites `statistics`
and `time`. The selection layer then asks each peer for `root_distance`, which
reads `last_packet`, `statistics` and `time`, and for `accept_synchronization`.
It builds the chime list from the fit peers and calls `find_interval`.

All calls on one peer are sequential; there is no concurrency inside the
core. What makes the code hard is:
- the order of calls, and the system leap state changing between them;
- fixed-point time that wraps at the end of an era, compared through a
  signed difference;
- the in-band dummy sentinel mixed into a sort;
- counting arguments in the intersection sweep.

### What makes each component correct

- Filter:
  - the prime directive: while synchronized, a sample is used at most once
    and never one older than a used one;
  - no starvation: the filter resumes once an old best sample has left the
    register;
  - dummies stay at the tail and never count as valid;
  - dispersion only grows with age.
- Peer:
  - root distance ≥ MIN_DISPERSION/2;
  - a peer that is unsynchronized, of bad stratum, too distant,
    loop-reflecting or unreachable is never accepted;
  - a rejected packet sets no reach bit and produces no sample.
- PollControl: `next_date` is never in the past after an update, the poll
  stays within [2^4, 2^17] s, and successive polls are scheduled at least
  2^MIN_POLL = 16 s apart.
- Intersection: when a majority of correctness intervals overlap, the result
  is a non-empty interval inside that overlap. Adding a peer whose interval
  contains the result does not shrink it.

The hazards in `PROJECT.json` give each risk at the line where it bites.

## 2. Plan

Modules, in order of importance (✓ = done):

1. ✓ `NtpTime`: wrapping timestamps, truncating division, `multiply_by_phi`,
   `clamp_ntp_duration`.
2. ✓ `ClockFilter`: `LastMeasurements`, `TemporaryList` and
   `Peer::clock_filter`. The environment feeds samples at successive clock
   instants and flips the system leap state. `MCClockFilter` instantiates it.
3. ✓ `Intersection`: `construct_candidate_list` and `find_interval` over any
   snapshot of fit peers. `MCIntersection` instantiates it.
4. ✓ `Peer`: INSTANCEs `ClockFilter` and adds `update_with_packet`
   (stratum mapping, rejection paths, broadcast and client sample
   computation), `Reach`, `poll_update`, `root_distance` and
   `accept_synchronization`. One action per packet, which models the whole
   handler followed by `clock_filter` on the returned tuple. `MCPeer`
   instantiates it. ✓ Liveness `EventuallyFit` under weak fairness of
   packet arrival.
5. `Selection`: not built; see section 6.
6. ✓ Abstract specification `PrimeDirectiveSpec`: a peer holds a FIFO
   of sample ids and uses each one at most once, in increasing order, while
   synchronized. `ClockFilter` is shown to implement it through
   `INSTANCE PrimeDirectiveSpec WITH ...`, mapping the register to the
   window of ids and `maxUsed` to the last id consumed.
7. Pure-operator check against a reference sort: dropped. Rust's
   `sort_by` is stable by contract, so comparing the rank sort with an
   insertion sort checks the model against itself, not `filter.rs`.

## 3. Modules

### `NtpTime`

Timestamps are `TimeBits`-bit unsigned integers (64 bits in the code).
`TsSub` is the wrapping difference read as two's complement, so a gap of more
than half an era changes sign, exactly as `NtpTimestamp - NtpTimestamp` does.
`TruncDiv` is i64 division, which rounds toward zero. A duration is as wide
as a timestamp (i64 against u64 in the code), and `DurationWrap` reduces an
integer to that width as a release build does, so an overflow happens at the
same fraction of an era as in the code. `multiply_by_phi` is
`d * PhiNum / PhiDen` (15 / 1 000 000 in the code), with the product wrapped. The timestamp
operators come from the spec, because the time module is not under `src/`.

### `ClockFilter`

- **State:** `register` (stages 1..8, newest first), `statistics`, `time`
  (`peer.time`), the local clock (`Start + elapsed`), `system_synced` and
  the last `decision`.
- **History variables** (not state of the code), used only by the
  properties: `ids` (which sample sits in which stage), `nextId`, `maxUsed`,
  `chosen` and `ignoredRun`.
- **`clock_filter`:** one action, `FeedSample`, for the whole function:
  - aging correction `multiply_by_phi(new.time - time)`;
  - `shift_and_insert`, which ages non-dummies only;
  - stable sort by delay;
  - the prime-directive test `IsStale`;
  - then either `Ignore`, or `Process`, which updates `statistics` (offset,
    delay, `dispersion`, `jitter`) and `time`.

  The sample's time is the current local time. The clock moves on by one
  unit after every sample, because two samples never share a 2^-32 s
  timestamp.
- **Environment:** `Tick` advances the clock with no packet. `SetSystemLeap`
  flips the system's synchronization; the discipline outside the core
  decides it, so it may change between any two calls.
- **Jitter:** `sqrt` and the f64 division are taken on integers, rounding
  down. With one valid tuple the code computes NaN, and `NaN.max(p) = p`;
  the model gives `p`.

### `FilterUnitTests`

The five `TemporaryList` tests of `mod test` as operators over the model:
`dispersion_of_dummys`, `dummys_are_not_valid`, `jitter_of_single`,
`jitter_of_pair` and `jitter_of_triple` build the test's register
(`AllDummies` is `TemporaryList::new()`, `WithOffsets` sets the offsets) and
are TRUE iff the test's assertion holds. `UnitTestsHold` conjoins them with
the fact that a peer's initial register is that `new()` register. They hold
at the Peer resolution (2^-8 s). At one unit per second the truncated
all-dummy dispersion is 15 s and the first test would fail, which is one
reason the Peer runs use finer units. `MCPeer` extends this module.

### `PrimeDirectiveSpec`

This is the abstract specification of what `clock_filter` promises, with
no delays or timestamps. Samples are numbered in arrival order, and a window
keeps the last `NSTAGE` numbers. `Arrive` shifts a number in, and then
either ignores (only while synchronized) or uses some number of the window,
which must be newer than every used one while synchronized. `ClockFilter`
instantiates it as `PD` with the refinement mapping:
- `window ← ids`
- `used ← maxUsed`
- `synced ← system_synced`
- `outcome ← decision`
- `count ← nextId`

The property is `PrimeDirectiveRefined == PD!Spec`. `Tick` is a stuttering
step of the abstract specification, and `SetSystemLeap` is its `Resync`.

### `Intersection`

- `construct_candidate_list` pushes Upper, Middle and Lower for each peer in
  order, then stable-sorts by edge.
- `find_interval` is translated loop by loop. `LowerScan` and `UpperScan`
  are the two sweeps, including the `break` and the midpoint count.
  `AllowLoop` is the `allow` loop; `low` and `high` survive across
  iterations.
- The initial `low` is 2e9 s. The initial `high` is `low * -164`, which
  overflows i64. A release build wraps it to −1 582 485 504 s; a debug build
  panics. The model uses the release value.
- A `SelectionPass` takes any snapshot of up to `MaxPeers` fit peers, each an
  (offset, root distance) pair.

### `Peer`

- **State:** the `ClockFilter` variables (through `CF == INSTANCE
  ClockFilter`), plus `last_packet`, `host_poll`, `burst`, `out_date`,
  `next_date` and `reach`. The history variable `received` counts packets.
- **Initial state:** the zero defaults of the fields. The initial header is
  unsynchronized, so no finding depends on a header nothing ever sent.
  Nothing in the code sets `burst` or `out_date`, so both stay 0, and
  `poll_update` always counts the next poll from `out_date = 0`
  (finding 8).
- **Packets:** `MakePacket` builds the header of a reply to a request sent
  `w1 + hold + w2` units before now, from a server whose clock is `Theta`
  ahead. So T1 = now − w1 − hold − w2, T2 = T1 + w1 + Theta,
  T3 = T2 + hold and T4 = now. `travel` puts the reference timestamp one
  second after or before T3. The other header fields come from small sets.
- **`update_with_packet(packet, sp)`:** the whole `update_with_packet`:
  - map stratum 0 to 16;
  - store `last_packet`;
  - `Rejected`: the two early returns;
  - otherwise `poll_update`, `ReachUpdate`, and `PacketTuple` (the broadcast
    or client tuple), which goes straight into `CF!clock_filter`.
- **`ReceivePacket`:** a fresh reply, built by `MakePacket`, goes through
  `update_with_packet`.
- **`ReplayPacket` (fault model):** the network duplicates the last reply
  and the copy arrives later. `filter.rs` has no duplicate or
  origin-timestamp check, so the copy goes through `update_with_packet`
  again, with the same header and a later destination time.
  `SpecWithReplay` adds this action to `Next`. `peer_distance` uses it, so
  its properties also hold when replies are duplicated. The other Peer runs
  use `Spec`. `FairSpec` in particular relies on `ReceivePacket` being the
  only action that changes `received`.
- **Queries:** `root_distance` and `accept_synchronization` are operators,
  which the properties evaluate in every state at the current time.
- **`Tick`:** the poll scheduler keeps sending requests, so the clock may
  run ahead of the packets by at most `MaxGap` units per packet received.
  The safety runs set `MaxGap = 10`, which never binds.
- **`FairSpec`:** `Spec /\ WF_received(ArrivalDue)`. `ReceivePacket` is
  the only action that changes `received`, and it is enabled exactly when
  `ArrivalDue`'s guard holds. This is therefore `WF_vars(ReceivePacket)`,
  with an `ENABLED` that TLC can evaluate without unfolding the sort.
- **Units:** one model unit is 2^-8 s. This keeps `BROADCAST_DELAY`
  (ONE/250 = 1 unit) and a 2^-8 s packet precision visible. The era is 2^22
  units. `MIN_DISPERSION` (2^-16 s) truncates to 0 at this resolution, as
  `ONE / 65536` does.
  Durations are as wide as timestamps, so `multiply_by_phi` overflows at
  1/30 of the era, as in the code: about 546 s here, 4.5 years there.

## 4. Runs

| Run | Config | Expect | What it shows |
|---|---|---|---|
| `filter_prime` | `MCClockFilter.cfg` | pass | `TypeOK`, `ValidPrefixLength`, `PrimeDirectiveRefined`: a peer created 3 units before the end of an era (its clock wraps, as in 2036), 6 samples of delays {1, 2, 16}, leap state changing freely. `ClockFilter` implements `PrimeDirectiveSpec`: a used sample is never used again and never older than a used one while synchronized; Ignore only while synchronized; a Process always uses a real sample. `valid_tuples` always has as many entries as there are real samples in the register (spec 8.3), so no aged sample is mistaken for the dummy (≈234k states, 70 s). With delay 17 the refinement fails (finding 2). |
| `filter_starve` | `MCClockFilterStarve.cfg` | pass | `BoundedStarvation`: a peer created early in an era, 9 samples (one more than the register) of delays {1, 17}. No run of 8 `Ignore`s, including the case where delays above MAX_DISPERSION let the dummies win the sort. (≈340k states). |
| `filter_large_delay` | `MCClockFilterLargeDelay.cfg` | violation | `ValidTuplesAreReal`: one sample with delay 17 > MAX_DISPERSION = 16 puts 7 dummies inside `valid_tuples`. |
| `filter_late_era` | `MCClockFilterLateEra.cfg` | violation | `BoundedStarvation`: a fresh peer (`time = 0`) whose samples come from the second half of the era is ignored 8 times in a row, and forever, while synchronized. |
| `intersection_s6` | `MCIntersection.cfg` | violation | `MajorityIntersectionFound`: for S6-shaped inputs (intervals [−10,10], [−9,11], [100,120] and the other combinations), `find_interval` returns low = 2e9 > high, even for one peer. |
| `peer_distance` | `MCPeer.cfg` | pass | `TypeOK`, `UnitTestsHold`, `PeerPrimeDirective`: a peer created early in an era receives 3 client or broadcast replies with one-way delays 1 or 3, some rejected for time travel, with the leap state changing freely and the last reply possibly duplicated (`SpecWithReplay`). `host_poll` stays within 2^4..2^17 s. The model satisfies the assertions of the `TemporaryList` unit tests. The whole packet path still implements `PrimeDirectiveSpec` through the filter (≈31k states, 22 s). |
| `peer_live` | `MCPeerLive.cfg` | pass | `EventuallyFit` under `FairSpec`: valid replies from an agreeing server, up to 5, the leap indicator flipping freely. The peer eventually becomes fit. It needs 4 processed samples; with 3 the property fails. |
| `peer_wrap_travel` | `MCPeerWrapTravel.cfg` | violation | `HonestReplySampled`: a reply received 20 ms after the end of an era, whose server reference time is from before the rollover, is rejected as time travel. |
| `peer_reach` | `MCPeerReach.cfg` | violation | `AcceptImpliesReachable`: one packet rejected for time travel, and the peer is accepted with `reach = 0`. |
| `peer_truechimer` | `MCPeerTruechimer.cfg` | violation | `TruechimerCovered`: a server 60 s ahead; after the first processed sample, the offset is 1 unit and 60 s lies outside offset ± root distance. |
| `peer_late_era` | `MCPeerLateEra.cfg` | violation | `PhiInRange`: a peer created in the second half of the era, with the real φ. Already in the initial state the aging since `peer.time = 0`, times 15, does not fit in an i64, so `multiply_by_phi` overflows in `clock_filter` and `root_distance`. |
| `peer_poll` | `MCPeerPoll.cfg` | violation | `PollSpacing`: a peer created 20 s after its `out_date` (0) receives two valid replies one unit apart; the second schedules the next poll one unit after the first schedule. |

### Bounds and why they are enough

- **Model unit:** one second in the ClockFilter runs (the Peer runs use
  2^-8 s, see `Peer` above). The ClockFilter era is shortened to 2^6 units so that
  both of its halves and its wrap are within reach. φ is scaled to one unit
  of dispersion per two units of time, so aging is visible.
- **Register size:** 8, as in the code, so no argument depends on a smaller
  register.
- **Samples:**
  - Starvation needs more samples than stages, hence 9.
  - Reusing a sample needs two samples and a leap flip; the prime run allows
    6 samples and any flips.
  - A delay above MAX_DISPERSION is always among the inputs, because
    `update_with_packet` does not bound the delay.
- **Peer runs:**
  - 3 packets cover a rejected packet, a processed one and one more behind
    it; both modes and both one-way delays are among the inputs.
  - `peer_poll` starts the clock 20 s after `out_date`, just past the 16 s
    minimum poll, so the first packet already takes the "never in the past"
    branch; two packets then show the spacing.
  - `peer_distance` scales φ to 1/2 so that aging counts at this resolution.
    The violation runs use the real 15/10^6: it is a ratio, so it is the
    same in any unit, and with it the distance threshold of
    `accept_synchronization` is the code's.
- **Peers in the intersection run:** three peers are the smallest set with a
  majority and a falseticker (S6).

### Findings

1. **`find_interval` never converges** (`filter.rs:532`). `n` is the length of
   the chime list, which has 3 entries per peer. The lower sweep's `chime`
   never exceeds the number of peers, so `low` is never set. The same
   operator with `n` = number of peers (RFC 5905, ntpd) satisfies the
   property on the S6 inputs.
2. **Large delays break the dummy sentinel** (`filter.rs:92`, `:106`). A real
   sample with delay > 16 s sorts behind the dummies. `valid_tuples` then
   contains dummies (jitter counts their zero offsets), and `smallest_delay`
   can be a dummy, which resets `peer.time` to 0 while the system is
   unsynchronized.
3. **New peers are starved in the current era** (`filter.rs:255`). `peer.time`
   starts at 0, and `t - 0` is negative for every timestamp in the second
   half of an era (1968–2036). A synchronized system therefore ignores every
   sample of a newly created peer.

4. **Unreachable peers are accepted** (`filter.rs:325`). Reachability is
   a TODO in `accept_synchronization`. A peer whose only packet was rejected
   still holds that header and zero statistics, and it is accepted. Spec
   4.7 requires `reach != 0`.
5. **The client offset does not measure the clock offset**
   (`filter.rs:397`). `((T2−T1) + (T4−T3))/2` equals (w1 + w2)/2 for any
   server clock offset. RFC 5905 §8 and the glossary's meaning of offset
   need `(T3−T4)`; RFC 5905's appendix code and spec 4.4 carry the same
   slip as the code. With `(T3−T4)` the run passes.
6. **`multiply_by_phi` overflows for new peers from 1968 to about 2031**
   (`filter.rs:22`). `duration * 15` is computed in i64 before the division,
   so it overflows above about 1.43e8 s (4.5 years); spec 4.1 claims
   safety up to about 2^30 s. `peer.time` starts at 0, and in the second
   half of an era (1968–2036) `now − 0` is negative, and its magnitude
   exceeds 1.43e8 s until about 2031.6, when the wrap is 4.5 years away. So the aging
   correction of the first `clock_filter` call and every `root_distance`
   call overflow: a debug build panics, a release build wraps. The wrapped
   root distance is still negative, against spec 8.6, and passes the
   distance test.

7. **Honest replies rejected after an era rollover** (`filter.rs:356`).
   `reference_timestamp > transmit_timestamp` on raw timestamps rejects
   every reply whose reference time is from before the rollover and whose
   transmit time is after it. The ordering is defined outside `src/` and is
   modelled as the u64 order; the spec leaves it open.
8. **Polls every second** (`filter.rs:440`). `poll_update` counts the next
   poll from `out_date`, which no code in `filter.rs` ever assigns. Once the
   clock is one poll interval past it, the "never in the past" correction
   (`:443`) sets `next_date = now + 1 s` on every packet, so successive
   polls are 1 s apart instead of at least 2^MIN_POLL = 16 s.

## 5. Fairness

Safety runs assume no fairness. No-starvation is stated as a bounded
safety property (`ignoredRun < NSTAGE`).

`peer_live` assumes weak fairness of packet arrival and nothing else. The
core never schedules anything itself (spec 5: "no packet = no call"), so
progress depends on the environment. The assumption is that a server that
keeps answering, polled by a scheduler that keeps sending, delivers a reply
whenever one is due. The leap indicator, controlled by the discipline, and
the clock ticks get no fairness; `MaxGap` only keeps ticks from starving
the packets.

## 6. Not modelled (yet), and why

- A `Selection` module composing several `Peer`s with `Intersection` is not
  built. `find_interval` returns the initial pair (low = 2e9 s > high) for
  every non-empty chime list (finding 1), so every property of the
  composition either restates finding 1 or holds whatever the peers do
  (intersection monotonicity, spec 8.9, holds because the result is
  constant). The chime-list sort uses the same rank construction as
  `TemporaryList` and is not checked separately.

- The burst branch of `poll_update` is modelled, but nothing in the code
  sets `burst`, so no run reaches it.
- f64 conversions (`to_seconds`, `from_seconds`): rounding is abstracted to
  integers. No property depends on a last-bit difference.
- The i64 overflow of `low * -164` is outside TLC's integer range. It is
  recorded as a hazard, and the model uses the release-build value.
- The shift of the reach register on every poll sent, which its doc
  comment describes, has no code in `filter.rs`; it belongs to the poll
  scheduler. Reach is modelled as the code has it, so once set it stays
  non-zero (a hazard in `PROJECT.json`).
- The unit tests `clock_filter_defaults` and `clock_filter_new` build a
  `Peer` literal without `host_poll`, `burst`, `out_date`, `next_date` and
  `reach`, so they do not compile against the struct in this snapshot.
  Their scenarios (spec S1, S2) are steps the refinement runs cover.
- `PeerConfiguration`: it has no operations.
- Three properties are not checked because in the runs that can reach
  them they would hold by construction. (1) Aging never lowers a
  dispersion: early in an era the correction is never negative. (2) Root
  distance ≥ MIN_DISPERSION/2: every term is non-negative early in an era,
  and MIN_DISPERSION is 0 at 2^-8 s. In the late era, where both would
  fail, the overflow of finding 6 and the starvation of finding 3 come
  first. (3) The delay sort equals a reference sort: `sort_by` is stable
  by contract.
- Duplicated replies (`ReplayPacket`) are explored by `peer_distance`, but
  no property tells a re-used exchange from a new one, because each filter
  step takes a fresh sample id. `filter.rs` makes no claim to reject
  duplicates.
- `NtpDuration::from_exponent` on out-of-range wire exponents: the function
  is not in this repository's sources, and the spec does not say what it
  should return. Packets carry only the precision and poll exponents that
  real servers send. This is recorded as a hazard.
- Lost replies need no action of their own. A lost reply is a `Tick` with
  no `ReceivePacket`. Reordered replies are fresh packets with other
  timestamps, which `ReceivePacket` already draws.
