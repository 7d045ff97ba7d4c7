-------------------------------- MODULE Peer --------------------------------
(***************************************************************************)
(* One association of src/ntp-proto/src/filter.rs: Peer::update_with_packet*)
(* followed by Peer::clock_filter on the tuple it returns, with the poll    *)
(* state (poll_update), the reachability register (Reach) and the two      *)
(* queries the selection layer makes, root_distance and                    *)
(* accept_synchronization.                                                 *)
(*                                                                         *)
(* The clock filter is the ClockFilter module, instantiated on the same    *)
(* variables.  The caller (outside src/) hands every tuple returned by     *)
(* update_with_packet to clock_filter at once, so one ReceivePacket step   *)
(* models both calls.  A packet is generated from an NTP exchange with a   *)
(* server whose clock is Theta units ahead of the local clock: the request *)
(* takes w1 units to reach it, the server holds it `hold` units, the reply *)
(* takes w2 units to come back and arrives now.                            *)
(***************************************************************************)
EXTENDS Integers, Sequences, FiniteSets, NtpTime
LOCAL INSTANCE Bitwise

CONSTANTS
  NSTAGE, MAX_DISPERSION, SystemPrecisions, SyncStates, Start, MaxElapsed,
  MaxSamples,        \* as in ClockFilter
  ONE,               \* NtpDuration::ONE (one second) in model units
  MIN_DISPERSION,    \* NtpDuration::MIN_DISPERSION in model units
  OUR_ID, OTHER_ID,  \* our reference id and some other reference id
  Leaps, Modes, Strata, PollExps, PrecisionExps, RootDelays,
  RootDispersions, RefIds, TimeTravels,  \* header fields a packet may carry
  Theta,             \* the server's clock minus the local clock
  OneWays, Holds,    \* network one-way delays, server holding times
  SystemPolls,       \* system_poll arguments of accept_synchronization
  MaxPackets,        \* bound on the packets received
  MaxGap             \* clock units that may pass per packet received

VARIABLES
  register, statistics, time, elapsed, system_synced, decision,
  ids, nextId, maxUsed, chosen, ignoredRun,   \* as in ClockFilter
  last_packet,   \* peer.last_packet, the header last stored
  host_poll,     \* peer.host_poll
  burst,         \* peer.burst
  out_date,      \* peer.out_date
  next_date,     \* peer.next_date
  reach,         \* peer.reach.0, a u8
  received       \* history: packets received so far

CF == INSTANCE ClockFilter WITH Offsets <- {}, Delays <- {}, Dispersions <- {}

filterVars == <<register, statistics, time, ids, nextId, maxUsed, chosen,
                decision, ignoredRun>>
vars == <<filterVars, elapsed, system_synced, last_packet, host_poll, burst,
          out_date, next_date, reach, received>>

now == CF!now

\* The constants MAX_STRATUM and MAX_DISTANCE of filter.rs.
MAX_STRATUM == 16
MAX_DISTANCE == ONE

MIN_POLL == 4
MAX_POLL == 17

\* BROADCAST_DELAY = NtpDuration::ONE.divided_by(250), an i64 division.
BROADCAST_DELAY == ONE \div 250

\* Mutant: the exponent is taken in units of the fixed-point scale, not in
\* seconds.
FromExponent_unscaled(e) == IF e >= 0 THEN 2^e ELSE 1 \div 2^(-e)

\* NtpDuration::from_exponent(e): 2^e seconds, truncated to the unit.
FromExponent(e) == IF e >= 0 THEN ONE * 2^e ELSE ONE \div 2^(-e)

\* NtpLeapIndicator::is_synchronized: every leap value but Unsynchronized.
is_synchronized(leap) == leap # "Unsynchronized"

\* NtpTimestamp's `<` / `>` compare the raw 64-bit values.
TsLt(a, b) == a < b

\* Reach::update sets bit 0.
ReachUpdate(r) == r | 1

\* The header of a reply to a request sent w1 + hold + w2 units before
\* t4; `travel` gives a reference timestamp later than the transmit one.
MakePacket(h, x, t4) ==
  LET t1 == TsAdd(t4, -(x.w1 + x.hold + x.w2))
      t2 == TsAdd(t1, x.w1 + Theta)
      t3 == TsAdd(t2, x.hold)
  IN [leap |-> h.leap, mode |-> h.mode, stratum |-> h.stratum, poll |-> h.poll,
      precision |-> h.precision, root_delay |-> h.root_delay,
      root_dispersion |-> h.root_dispersion, reference_id |-> h.reference_id,
      reference_timestamp |-> TsAdd(t3, IF h.travel THEN ONE ELSE -ONE),
      origin_timestamp |-> t1, receive_timestamp |-> t2, transmit_timestamp |-> t3]

Headers == [leap : Leaps, mode : Modes, stratum : Strata, poll : PollExps,
            precision : PrecisionExps, root_delay : RootDelays,
            root_dispersion : RootDispersions, reference_id : RefIds,
            travel : TimeTravels]
Exchanges == [w1 : OneWays, w2 : OneWays, hold : Holds]

\* The two early returns of update_with_packet that reject the header.
Rejected(r) ==
  \/ ~is_synchronized(r.leap)
  \/ r.stratum >= MAX_STRATUM
  \/ TruncDiv(r.root_delay, 2) + r.root_dispersion >= MAX_DISPERSION
  \/ TsLt(r.transmit_timestamp, r.reference_timestamp)

\* The FilterTuple update_with_packet computes from an accepted header.
PacketTuple(r, local_clock_time, system_precision, destination_timestamp) ==
  LET packet_precision == FromExponent(r.precision)
      delta1 == TsSub(destination_timestamp, r.origin_timestamp)
      delta2 == TsSub(r.receive_timestamp, r.transmit_timestamp)
  IN IF r.mode = "Broadcast"
       THEN [offset |-> TsSub(r.transmit_timestamp, destination_timestamp),
             delay |-> BROADCAST_DELAY,
             dispersion |-> packet_precision + system_precision
                              + multiply_by_phi(BROADCAST_DELAY * 2),
             time |-> local_clock_time]
       ELSE [offset |-> TruncDiv(TsSub(r.receive_timestamp, r.origin_timestamp)
                                 + TsSub(destination_timestamp, r.transmit_timestamp), 2),
             delay |-> CF!MaxOf(system_precision, delta1 - delta2),
             dispersion |-> packet_precision + system_precision
                              + multiply_by_phi(delta1),
             time |-> local_clock_time]

\* Peer::poll_update: the new host_poll and next_date.
poll_update(local_clock_time, poll_interval, lp) ==
  LET hp == clamp_ntp_duration(FromExponent(MIN_POLL), poll_interval,
                               FromExponent(MAX_POLL))
      nd == IF burst > 0
              THEN TsAdd(next_date, BROADCAST_DELAY)
              ELSE TsAdd(out_date, clamp_ntp_duration(FromExponent(MIN_POLL), hp,
                                                      FromExponent(lp.poll)))
  IN IF burst > 0 /\ next_date # local_clock_time
       THEN [host_poll |-> hp, next_date |-> next_date]
       ELSE [host_poll |-> hp,
             next_date |-> IF TsLt(nd, local_clock_time)
                             THEN TsAdd(local_clock_time, ONE) ELSE nd]

\* Peer::root_distance.  statistics.jitter is held in model units, so its
\* conversion back to a duration is exact.
root_distance(local_clock_time) ==
  TruncDiv(CF!MaxOf(MIN_DISPERSION, last_packet.root_delay + statistics.delay), 2)
    + last_packet.root_dispersion
    + statistics.dispersion
    + multiply_by_phi(TsSub(local_clock_time, time))
    + statistics.jitter

\* Peer::accept_synchronization
accept_synchronization(local_clock_time, system_poll) ==
  /\ is_synchronized(last_packet.leap)
  /\ last_packet.stratum < MAX_STRATUM
  /\ root_distance(local_clock_time) <= MAX_DISTANCE + multiply_by_phi(system_poll)
  /\ ~(last_packet.stratum # 1 /\ last_packet.reference_id = OUR_ID)

-----------------------------------------------------------------------------

Init ==
  /\ CF!Init
  /\ last_packet = [leap |-> "Unsynchronized", mode |-> "Client", stratum |-> 0,
                    poll |-> 0, precision |-> 0, root_delay |-> 0,
                    root_dispersion |-> 0, reference_id |-> OTHER_ID,
                    reference_timestamp |-> TS_ZERO, origin_timestamp |-> TS_ZERO,
                    receive_timestamp |-> TS_ZERO, transmit_timestamp |-> TS_ZERO]
  /\ host_poll = 0
  /\ burst = 0
  /\ out_date = TS_ZERO
  /\ next_date = TS_ZERO
  /\ reach = 0
  /\ received = 0

\* Peer::update_with_packet(now, sp, packet, now), then, on Some(tuple),
\* Peer::clock_filter(tuple, system leap, sp), on a packet as it arrives.
update_with_packet(packet, sp) ==
  LET r == IF packet.stratum = 0 THEN [packet EXCEPT !.stratum = MAX_STRATUM]
                                 ELSE packet
      pu == poll_update(now, host_poll, r)
  IN /\ last_packet' = r
     /\ IF Rejected(r)
          THEN UNCHANGED <<filterVars, host_poll, next_date, reach>>
          ELSE /\ host_poll' = pu.host_poll
               /\ next_date' = pu.next_date
               /\ reach' = ReachUpdate(reach)
               /\ CF!clock_filter(PacketTuple(r, now, sp, now), sp)
     /\ received' = received + 1
     /\ elapsed' = elapsed + 1
     /\ UNCHANGED <<system_synced, burst, out_date>>

\* A reply to one of our requests arrives.
ReceivePacket ==
  /\ received < MaxPackets
  /\ elapsed < MaxElapsed
  /\ \E h \in Headers, x \in Exchanges, sp \in SystemPrecisions :
       update_with_packet(MakePacket(h, x, now), sp)

\* Fault model: the network duplicates the last reply and the copy arrives
\* later.  Nothing in filter.rs compares the origin timestamp with the last
\* request, so the copy is handled like a fresh packet.
ReplayPacket ==
  /\ 0 < received /\ received < MaxPackets
  /\ elapsed < MaxElapsed
  /\ \E sp \in SystemPrecisions : update_with_packet(last_packet, sp)

\* The local clock advances with no packet arriving.  The poll scheduler
\* keeps sending requests, so the clock runs ahead of the packets by at
\* most MaxGap units per packet.
Tick ==
  /\ elapsed < MaxElapsed
  /\ elapsed - received < MaxGap * (received + 1)
  /\ elapsed' = elapsed + 1
  /\ UNCHANGED <<filterVars, system_synced, last_packet, host_poll, burst,
                 out_date, next_date, reach, received>>

\* The system gains or loses synchronization (outside the peer).
SetSystemLeap ==
  /\ system_synced' \in SyncStates \ {system_synced}
  /\ UNCHANGED <<filterVars, elapsed, last_packet, host_poll, burst,
                 out_date, next_date, reach, received>>

Next == ReceivePacket \/ Tick \/ SetSystemLeap

Spec == Init /\ [][Next]_vars

\* The behaviours of Spec, with duplicated replies as well.
NextWithReplay == Next \/ ReplayPacket

SpecWithReplay == Init /\ [][NextWithReplay]_vars

\* A reply is due: the step of ReceivePacket seen through `received`.
\* ReceivePacket is the only action that changes `received`, and it is
\* enabled exactly when this guard holds (every input set is non-empty and
\* every branch assigns), so under Spec WF_received(ArrivalDue) is
\* WF_vars(ReceivePacket) with an ENABLED TLC evaluates cheaply.
ArrivalDue ==
  /\ received < MaxPackets
  /\ elapsed < MaxElapsed
  /\ received' = received + 1

\* A server that keeps answering: whenever a reply can arrive, one does.
\* The leap indicator gets no fairness; the discipline may flip it forever.
FairSpec == Spec /\ WF_received(ArrivalDue)

-----------------------------------------------------------------------------

TypeOK ==
  /\ CF!TypeOK
  /\ last_packet.stratum \in Strata \cup {0, MAX_STRATUM}
  /\ host_poll = 0 \/ host_poll \in ONE * 2^MIN_POLL..ONE * 2^MAX_POLL
  /\ next_date \in Timestamps
  /\ reach \in 0..255
  /\ received \in 0..MaxPackets

\* Spec 4.7 and 9: a peer whose reachability register is zero is never fit
\* for synchronization (the check the code leaves as a TODO).
AcceptImpliesReachable ==
  \A sp \in SystemPolls : accept_synchronization(now, sp) => reach # 0

\* A peer whose server keeps sending valid replies from a clock that agrees
\* with ours eventually becomes fit for synchronization: the dummies leave
\* the front of the sorted register and the filter dispersion falls below
\* MAX_DISTANCE, whatever the leap indicator does meanwhile.
EventuallyFit == <>(\E sp \in SystemPolls : accept_synchronization(now, sp))

\* Spec 4.4 step 3 rejects a reply as time travel only when its reference
\* time is later than its transmit time, and spec 3 makes time arithmetic
\* wrap-aware: a synchronized reply of valid stratum and root distance whose
\* reference time is before its transmit time (by the wrapping difference)
\* goes into the clock filter.  The code compares the raw timestamps.
HonestReplySampled ==
  [][ LET r == last_packet'
      IN (/\ received' = received + 1
          /\ is_synchronized(r.leap)
          /\ r.stratum < MAX_STRATUM
          /\ TruncDiv(r.root_delay, 2) + r.root_dispersion < MAX_DISPERSION
          /\ TsSub(r.transmit_timestamp, r.reference_timestamp) >= 0)
         => nextId' = nextId + 1 ]_vars

\* Glossary (correctness interval): once a sample of a server whose clock is
\* Theta ahead has been used, Theta lies within root_distance of the
\* peer's offset.
TruechimerCovered ==
  chosen > 0 => /\ statistics.offset - root_distance(now) <= Theta
                /\ Theta <= statistics.offset + root_distance(now)

\* poll_update: MIN_POLL is "16 seconds" and spec 4.8 clamps the poll
\* interval to [2^MIN_POLL, 2^MAX_POLL]: outside a burst, once a poll is
\* scheduled, the next one poll_update schedules is at least 2^MIN_POLL s
\* after it.  The code counts the interval from out_date, which nothing
\* in filter.rs ever assigns.
PollSpacing ==
  [][ /\ burst = 0
      /\ next_date # TS_ZERO
      /\ next_date' # next_date
      => TsSub(next_date', next_date) >= FromExponent(MIN_POLL) ]_vars

\* Spec 4.1: multiply_by_phi is "computed in 64-bit to avoid overflow".
\* The duration it gets from the aging since peer.time, in clock_filter's
\* correction and in root_distance, times 15 fits in an i64 (else a debug
\* build panics and a release build wraps).
PhiInRange ==
  LET d == TsSub(now, time)
  IN DurationWrap(d * PhiNum) = d * PhiNum

\* The clock filter keeps its promise inside the peer: with packets
\* rejected, broadcast and client replies mixed and the leap indicator
\* changing between them, update_with_packet followed by clock_filter
\* still implements PrimeDirectiveSpec.
PeerPrimeDirective == CF!PrimeDirectiveRefined

=============================================================================
