---------------------------- MODULE Intersection ----------------------------
(***************************************************************************)
(* The selection core of src/ntp-proto/src/filter.rs:                      *)
(* construct_candidate_list builds the chime list of three edges per fit   *)
(* peer and sorts it by edge; find_interval sweeps it from both ends for   *)
(* the largest intersection of correctness intervals, tolerating `allow`   *)
(* falsetickers.                                                           *)
(*                                                                         *)
(* find_interval is a pure function over a snapshot of the fit peers.  A   *)
(* selection pass is an action that takes any snapshot (each peer's offset *)
(* and root distance) and records the interval find_interval returns.     *)
(***************************************************************************)
EXTENDS Integers, Sequences, FiniteSets

CONSTANTS
  MaxPeers,       \* bound on the number of fit peers in a snapshot
  Offsets,        \* statistics.offset of a peer
  Distances,      \* root_distance(local_clock_time) of a peer
  LOW_INIT,       \* initial low: NtpDuration::ONE * 2_000_000_000
  HIGH_INIT       \* initial high: low * -164

ASSUME MaxPeers \in Nat /\ Distances \subseteq Nat

VARIABLES
  peers,     \* the fit peers of this pass, in iteration order: 1..m -> record
  interval   \* <<low, high>> returned by find_interval

vars == <<peers, interval>>

\* EndpointType as its i8 representation.
Upper == 1
Middle == 0
Lower == -1

Peer == [offset : Offsets, distance : Distances]

\* The candidate tuples in the order construct_candidate_list pushes them:
\* Upper, Middle, Lower for each peer in turn.
Unsorted(ps) ==
  LET tuple(p, type) ==
        [peer |-> p, endpoint_type |-> type,
         edge |-> ps[p].offset + type * ps[p].distance]
      types == <<Upper, Middle, Lower>>
  IN [k \in 1..3 * Len(ps) |-> tuple((k - 1) \div 3 + 1, types[((k - 1) % 3) + 1])]

\* Position of entry j after a stable sort by ascending edge.
EdgeRank(l, j) ==
  1 + Cardinality({k \in DOMAIN l : \/ l[k].edge < l[j].edge
                                    \/ l[k].edge = l[j].edge /\ k < j})

\* construct_candidate_list: build the tuples, then sort_by edge (stable).
construct_candidate_list(ps) ==
  LET l == Unsorted(ps)
  IN [r \in DOMAIN l |-> l[CHOOSE j \in DOMAIN l : EdgeRank(l, j) = r]]

\* The scan from lowest to highest edge of find_interval: returns the
\* midpoints counted before it stopped and the edge it stopped at, if any.
RECURSIVE LowerScan(_, _, _, _, _)
LowerScan(cl, n, i, chime, found) ==
  IF i > Len(cl) THEN [found |-> found, hit |-> FALSE, edge |-> 0]
  ELSE LET c == chime - cl[i].endpoint_type
       IN IF c >= n - found
            THEN [found |-> found, hit |-> TRUE, edge |-> cl[i].edge]
            ELSE LowerScan(cl, n, i + 1, c,
                           found + (IF cl[i].endpoint_type = Middle THEN 1 ELSE 0))

\* The scan from highest to lowest edge, continuing the count of midpoints.
RECURSIVE UpperScan(_, _, _, _, _)
UpperScan(cl, n, i, chime, found) ==
  IF i < 1 THEN [found |-> found, hit |-> FALSE, edge |-> 0]
  ELSE LET c == chime + cl[i].endpoint_type
       IN IF c >= n - found
            THEN [found |-> found, hit |-> TRUE, edge |-> cl[i].edge]
            ELSE UpperScan(cl, n, i - 1, c,
                           found + (IF cl[i].endpoint_type = Middle THEN 1 ELSE 0))

\* The `for allow in (0..).take_while(|allow| 2 * allow < n)` loop; low and
\* high keep the value of the last scan that set them.
RECURSIVE AllowLoop(_, _, _, _, _)
AllowLoop(cl, n, allow, low, high) ==
  IF ~(2 * allow < n) THEN <<low, high>>
  ELSE LET lo == LowerScan(cl, n, 1, 0, 0)
           low1 == IF lo.hit THEN lo.edge ELSE low
           up == UpperScan(cl, n, Len(cl), 0, lo.found)
           high1 == IF up.hit THEN up.edge ELSE high
       IN IF up.found > allow THEN AllowLoop(cl, n, allow + 1, low1, high1)
          ELSE IF high1 > low1 THEN <<low1, high1>>
          ELSE AllowLoop(cl, n, allow + 1, low1, high1)

\* find_interval: n is the length of the chime list.
find_interval(cl) == AllowLoop(cl, Len(cl), 0, LOW_INIT, HIGH_INIT)

-----------------------------------------------------------------------------

Init ==
  /\ peers = <<>>
  /\ interval = find_interval(construct_candidate_list(<<>>))

\* One selection pass over a snapshot of the fit peers.
SelectionPass ==
  \E m \in 0..MaxPeers :
    \E ps \in [1..m -> Peer] :
      /\ peers' = ps
      /\ interval' = find_interval(construct_candidate_list(ps))

Next == SelectionPass

Spec == Init /\ [][Next]_vars

-----------------------------------------------------------------------------

TypeOK ==
  /\ peers \in UNION {[1..m -> Peer] : m \in 0..MaxPeers}
  /\ interval \in Int \X Int

\* A point lies in the correctness interval of a peer.
Covers(p, x) == peers[p].offset - peers[p].distance <= x
                /\ x <= peers[p].offset + peers[p].distance

\* Spec 4.9 and scenario S6: when the correctness intervals of a majority
\* of the fit peers share a point, find_interval converges (high > low) to
\* an interval containing such a point.
MajorityIntersectionFound ==
  LET m == Len(peers)
      edges == {peers[p].offset + d * peers[p].distance : p \in 1..m, d \in {-1, 0, 1}}
      majorityPoint(x) == 2 * Cardinality({p \in 1..m : Covers(p, x)}) > m
  IN (\E x \in edges : majorityPoint(x))
       => /\ interval[2] > interval[1]
          /\ \E x \in edges : majorityPoint(x) /\ interval[1] <= x /\ x <= interval[2]
=============================================================================
