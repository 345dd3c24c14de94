CONSTANTS
  Runs = {1}
  Workers = {w1, w2}
  NoWorker = NoWorker
  pay = pay
  mail = mail
  tag = tag
  peek = peek
  ghost = ghost
  blob = blob
  Reads = {peek}
  Hostile = {peek}
  Reversible = {tag, blob}
  Irreversible = {pay, mail}
  Invalid = {}
  Unregistered = {ghost}
  Unstorable = {blob}
  Replies <- OneAskTurns
  MaxSteps = 3
  NoticeTurns = 0
  LoopThreshold = 3
  MaxCrashes = 1
SPECIFICATION FairSpec
PROPERTIES
  EveryStorableRunEnds
  QueueDrains
CHECK_DEADLOCK FALSE
