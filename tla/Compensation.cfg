CONSTANTS
  ann = ann
  Runs = {1}
  Workers = {w1, w2}
  NoWorker = NoWorker
  Calls <- MCCalls
  MaxAttempts = 2
  SlowFailures = FALSE
  PeopleEdit = TRUE
  MaxActs = 2
  MaxComps = 2
SPECIFICATION FairSpec
INVARIANTS
  TypeOK
  RowsTellTheTruth
  TicketMatchesRows
  OutcomeIsHonest
PROPERTIES
  ImplementsWalkBack
  EveryCompensationEnds
CHECK_DEADLOCK FALSE
