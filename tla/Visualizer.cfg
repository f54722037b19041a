SPECIFICATION FairSpec
CONSTANTS
  MaxTimers = 2
  MaxPauses = 2
INVARIANTS IInv PlayRuns MessagesOnce
PROPERTIES QuitEnds Advances PauseHolds MessagesShown
