\* The filter implements PrimeDirectiveSpec across the end of an era; the system leap indicator may
\* change at any point.
CONSTANTS
  TimeBits = 6
  PhiNum = 1
  PhiDen = 2
  NSTAGE = 8
  MAX_DISPERSION = 16
  Offsets = {0}
  Delays <- MCDelaysUpToMax
  Dispersions = {1}
  SystemPrecisions = {0}
  SyncStates = {FALSE, TRUE}
  Start <- MCStartWrap
  MaxElapsed = 7
  MaxSamples = 6
SPECIFICATION Spec
INVARIANTS TypeOK ValidPrefixLength
PROPERTY PrimeDirectiveRefined
