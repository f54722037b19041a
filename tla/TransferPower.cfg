SPECIFICATION FairSpec
CONSTANTS
  MaxMsdus = 4
  Frags <- MCFrags
  SeqMod = 16
  MaxSlrc = 2
  MaxSsrc = 2
  UseRts = TRUE
  MaxSize = 2
  CanSleep = TRUE
  CanSwitch = TRUE
  MaxDrawn = 3
INVARIANTS InOrder WholeMsdus Sync
PROPERTIES Settled
CHECK_DEADLOCK FALSE
