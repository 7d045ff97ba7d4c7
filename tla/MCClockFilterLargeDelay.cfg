\* Spec 4.3: valid_tuples holds no dummy, here with a sample whose delay
\* exceeds MAX_DISPERSION.
CONSTANTS
  TimeBits = 6
  PhiNum = 1
  PhiDen = 2
  NSTAGE = 8
  MAX_DISPERSION = 16
  Offsets = {0, 2}
  Delays <- MCDelays
  Dispersions = {1}
  SystemPrecisions = {0}
  SyncStates = {FALSE, TRUE}
  Start <- MCStartEarly
  MaxElapsed = 4
  MaxSamples = 3
SPECIFICATION Spec
INVARIANT ValidTuplesAreReal
