\* Bounded starvation: more samples than stages, the leap indicator may change.
CONSTANTS
  TimeBits = 6
  PhiNum = 1
  PhiDen = 2
  NSTAGE = 8
  MAX_DISPERSION = 16
  Offsets = {0}
  Delays <- MCDelaysTwo
  Dispersions = {1}
  SystemPrecisions = {0}
  SyncStates = {FALSE, TRUE}
  Start <- MCStartEarly
  MaxElapsed = 10
  MaxSamples = 9
SPECIFICATION Spec
INVARIANT BoundedStarvation
