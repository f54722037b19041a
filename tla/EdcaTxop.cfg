SPECIFICATION Spec
CONSTANTS
  sta1 = sta1
  sta2 = sta2
  all = all
  MaxMsdus = 4
  Recipients = {sta1, sta2}
  Group = all
  SeqSpace = 4096
  UseRts = TRUE
  MaxSleeps = 1
SYMMETRY Symmetry
INVARIANTS AskedForFirst ReportedOnce TxOkForwarded ForwardedOnce
PROPERTIES OnlyTxopForgets
CHECK_DEADLOCK FALSE
