\* Spec scenario S6 in seconds (x10): correctness intervals [-10,10],
\* [-9,11], [100,120] and every other choice of up to three such peers.
CONSTANTS
  MaxPeers = 3
  Offsets = {0, 1, 110}
  Distances = {10}
  LOW_INIT <- MCLowInit
  HIGH_INIT <- MCHighInit
SPECIFICATION Spec
INVARIANT MajorityIntersectionFound
