\* Root distance of a peer created early in an era, receiving client and
\* broadcast replies, some with a reference time after the transmit time.
CONSTANTS
  TimeBits = 22
  PhiNum = 1
  PhiDen = 2
  NSTAGE = 8
  MAX_DISPERSION <- MCMaxDispersion
  SystemPrecisions = {0}
  SyncStates = {FALSE, TRUE}
  Start <- MCStartPastMinPoll
  MaxElapsed = 5
  MaxSamples = 8
  ONE <- MCOne
  MIN_DISPERSION <- MCMinDispersion
  OUR_ID = OUR_ID
  OTHER_ID = OTHER_ID
  Leaps = {"NoWarning"}
  Modes = {"Client"}
  Strata = {2}
  PollExps = {4}
  PrecisionExps <- MCPrecisionExps
  RootDelays = {0}
  RootDispersions = {0}
  RefIds = {OTHER_ID}
  TimeTravels = {FALSE}
  Theta = 0
  OneWays = {1, 3}
  Holds = {0}
  SystemPolls <- MCSystemPolls
  MaxPackets = 3
  MaxGap = 10
SPECIFICATION Spec
PROPERTY PollSpacing
