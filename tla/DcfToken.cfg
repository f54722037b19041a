SPECIFICATION FairSpec
CONSTANTS
  N = 2
  Aifsn <- MCAifsn
  Edca = {2}
  CwMin = 1
  CwMax = 2
  Slot = 2
  Sifs = 1
  EifsNoDifs = 3
  AckTimeout = 4
  TokenStates = {2}
  Silent = TRUE
  RxErrors = TRUE
  PowerAtTxEnd = FALSE
  CanPowerDown = FALSE
  FrameTimes = {2}
  Durations = {2}
  MaxRequests = 3
  MaxDisturbances = 1
  Horizon = 1000
VIEW MCView
INVARIANTS TypeOK BackoffEndKept
PROPERTIES ExchangeAlone RequestServed
