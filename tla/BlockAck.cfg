SPECIFICATION FairSpec
CONSTANTS
  MaxMsdus = 6
  SeqSpace = 16
  Window = 3
  BufferSize = 4
  Agreements <- MCAgreements
INVARIANTS Tracked InSequence EndsAgree
PROPERTIES AllForwarded
CHECK_DEADLOCK FALSE
