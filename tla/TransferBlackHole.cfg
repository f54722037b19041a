SPECIFICATION Spec
CONSTANTS
  MaxMsdus = 2
  Frags <- MCFrags
  SeqMod = 4096
  MaxSlrc = 2
  MaxSsrc = 2
  UseRts = FALSE
  MaxSize = 2
  CanSleep = FALSE
  CanSwitch = FALSE
  MaxDrawn = 0
INVARIANTS TxOkForwarded
CHECK_DEADLOCK FALSE
