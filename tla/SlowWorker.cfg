CONSTANTS
  Runs = {1}
  Workers = {w1, w2}
  NoWorker = NoWorker
  pay = pay
  mail = mail
  tag = tag
  peek = peek
  ghost = ghost
  blob = blob
  Reads = {peek}
  Hostile = {peek}
  Reversible = {tag, blob}
  Irreversible = {pay, mail}
  Invalid = {}
  Unregistered = {ghost}
  Unstorable = {blob}
  Replies <- OneAskTurns
  MaxSteps = 1
  NoticeTurns = 0
  LoopThreshold = 3
  MaxCrashes = 0
SPECIFICATION Spec
PROPERTY OnlyTheHolderEnds
CHECK_DEADLOCK FALSE
