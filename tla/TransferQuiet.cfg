SPECIFICATION Spec
CONSTANTS
  MaxMsdus = 5
  Frags <- MCFrags
  SeqMod = 16
  MaxSlrc = 3
  MaxSsrc = 2
  UseRts = TRUE
  MaxSize = 2
  CanSleep = FALSE
  CanSwitch = FALSE
  MaxDrawn = 2
INVARIANTS ForwardedOnce
PROPERTIES Delivers
CHECK_DEADLOCK FALSE
