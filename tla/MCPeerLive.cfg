\* A server that keeps answering valid client replies, from a clock that
\* agrees with ours, over a symmetric path; the leap indicator flips freely.
CONSTANTS
  TimeBits = 22
  PhiNum = 15
  PhiDen = 1000000
  NSTAGE = 8
  MAX_DISPERSION <- MCMaxDispersion
  SystemPrecisions = {0}
  SyncStates = {FALSE, TRUE}
  Start <- MCStartEarly
  MaxElapsed = 11
  MaxSamples = 8
  ONE <- MCOne
  MIN_DISPERSION <- MCMinDispersion
  OUR_ID = OUR_ID
  OTHER_ID = OTHER_ID
  Leaps = {"NoWarning"}
  Modes = {"Client"}
  Strata = {2}
  PollExps = {4}
  PrecisionExps <- MCPrecisionExps
  RootDelays = {0}
  RootDispersions = {0}
  RefIds = {OTHER_ID}
  TimeTravels = {FALSE}
  Theta = 0
  OneWays = {1}
  Holds = {0}
  SystemPolls <- MCSystemPolls
  MaxPackets = 5
  MaxGap = 1
SPECIFICATION FairSpec
PROPERTY EventuallyFit
