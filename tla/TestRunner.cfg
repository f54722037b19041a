SPECIFICATION FairSpec
CONSTANTS
  w1 = w1
  w2 = w2
  NumJobs = 4
  Suites = {1, 2, 3}
  Skips = {2}
  Workers = {w1, w2}
  Valgrind = TRUE
  Translate = TRUE
  MaxDied = 1
INVARIANTS IInv SuccessHonest ReportHonest
PROPERTIES Ends
CHECK_DEADLOCK FALSE
