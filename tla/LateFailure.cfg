CONSTANTS
  ann = ann
  Runs = {1}
  Workers = {w1, w2}
  NoWorker = NoWorker
  Calls <- MCCalls
  MaxAttempts = 2
  SlowFailures = TRUE
  PeopleEdit = FALSE
  MaxActs = 1
  MaxComps = 2
SPECIFICATION Spec
INVARIANTS
  AppliedOnce
CHECK_DEADLOCK FALSE
