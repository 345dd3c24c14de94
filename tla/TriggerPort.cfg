CONSTANTS
  read = read
  note = note
  garbled = garbled
  refund = refund
  broken = broken
  bogus = bogus
  Plain = {read, note, garbled}
  Irreversible = {refund, broken}
  Invalid = {broken, garbled}
  Unregistered = {bogus}
  Replies <- MCReplies
  MaxSteps = 4
  LoopThreshold = 2
  MaxAttempts = 3
  MaxCalls = 3
SPECIFICATION FairSpec
INVARIANTS
  TypeOK
  LedgerFollowsTheWalk
  CostsAddUp
  AnswersAgree
PROPERTIES
  ImplementsConsentGate
  PortRunEnds
CHECK_DEADLOCK FALSE
