CONSTANTS
  Runs = {1}
  Workers = {w1, w2}
  NoWorker = NoWorker
  pay = pay
  mail = mail
  tag = tag
  peek = peek
  ghost = ghost
  blob = blob
  Reads = {peek}
  Hostile = {peek}
  Reversible = {tag, blob}
  Irreversible = {pay, mail}
  Invalid = {}
  Unregistered = {ghost}
  Unstorable = {blob}
  Replies <- MixedTurns
  MaxSteps = 4
  NoticeTurns = 0
  LoopThreshold = 2
  MaxCrashes = 1
SPECIFICATION TSpec
INVARIANTS
  TypeOK
  ConsentHolds
  TurnsAreAnswered
  LedgerFollowsLog
  CancelClosesTheQueue
  StepOvershoot
  LoopIsCut
  CallsAreAnsweredInPlace
  ReplayFindsTheChange
  DecisionsAreShown
PROPERTIES
  NothingAfterTheEnd
  OnlyTheHolderWrites
  ImplementsConsentGate
SYMMETRY WorkerSymmetry
CHECK_DEADLOCK FALSE
