\* Client replies received in the first 20 ms after the end of an era.
CONSTANTS
  TimeBits = 22
  PhiNum = 15
  PhiDen = 1000000
  NSTAGE = 8
  MAX_DISPERSION <- MCMaxDispersion
  SystemPrecisions = {0}
  SyncStates = {FALSE, TRUE}
  Start <- MCStartAfterWrap
  MaxElapsed = 4
  MaxSamples = 8
  ONE <- MCOne
  MIN_DISPERSION <- MCMinDispersion
  OUR_ID = OUR_ID
  OTHER_ID = OTHER_ID
  Leaps = {"NoWarning"}
  Modes = {"Client"}
  Strata = {2}
  PollExps = {4}
  PrecisionExps <- MCPrecisionExps
  RootDelays = {0}
  RootDispersions = {0}
  RefIds = {OTHER_ID}
  TimeTravels = {FALSE}
  Theta = 0
  OneWays = {1}
  Holds = {0}
  SystemPolls <- MCSystemPolls
  MaxPackets = 2
  MaxGap = 10
SPECIFICATION Spec
PROPERTY HonestReplySampled
