SPECIFICATION Spec
CONSTANTS
  N = 2
  Aifsn <- MCAifsn
  Edca = {2}
  CwMin = 1
  CwMax = 2
  Slot = 2
  Sifs = 1
  EifsNoDifs = 3
  AckTimeout = 4
  TokenStates = {2}
  Silent = FALSE
  RxErrors = TRUE
  PowerAtTxEnd = FALSE
  CanPowerDown = FALSE
  FrameTimes = {2, 3}
  Durations = {2}
  MaxRequests = 3
  MaxDisturbances = 2
  Horizon = 1000
VIEW MCView
INVARIANTS AccessTimerRunning
