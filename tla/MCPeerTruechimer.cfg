\* Client replies of a server 60 s ahead of the local clock.
CONSTANTS
  TimeBits = 22
  PhiNum = 15
  PhiDen = 1000000
  NSTAGE = 8
  MAX_DISPERSION <- MCMaxDispersion
  SystemPrecisions = {0}
  SyncStates = {FALSE, TRUE}
  Start <- MCStartEarly
  MaxElapsed = 4
  MaxSamples = 8
  ONE <- MCOne
  MIN_DISPERSION <- MCMinDispersion
  OUR_ID = OUR_ID
  OTHER_ID = OTHER_ID
  Leaps = {"NoWarning"}
  Modes = {"Client"}
  Strata = {2}
  PollExps = {4}
  PrecisionExps <- MCPrecisionExps
  RootDelays = {0}
  RootDispersions = {0}
  RefIds = {OTHER_ID}
  TimeTravels = {FALSE}
  Theta <- MCThetaAhead
  OneWays = {1, 3}
  Holds = {0}
  SystemPolls <- MCSystemPolls
  MaxPackets = 2
  MaxGap = 10
SPECIFICATION Spec
INVARIANT TruechimerCovered
