CONSTANTS
  Runs = {1}
  Workers = {w1}
  NoWorker = NoWorker
  GetTicket = GetTicket
  SearchShipping = SearchShipping
  SearchPolicy = SearchPolicy
  GetOrder = GetOrder
  NoteDelay = NoteDelay
  NoteRefund = NoteRefund
  SetPending = SetPending
  SetResolved = SetResolved
  RefundFigure = RefundFigure
  RefundGoods = RefundGoods
  RefundNothing = RefundNothing
  Reads = {GetTicket, SearchShipping, SearchPolicy, GetOrder}
  Hostile = {}
  Reversible = {NoteDelay, NoteRefund, SetPending, SetResolved}
  Irreversible = {RefundFigure, RefundGoods, RefundNothing}
  Invalid = {RefundNothing}
  Unregistered = {}
  Unstorable = {}
  Replies <- MCReplies
  Worlds <- MCWorlds
  MaxSteps = 14
  NoticeTurns = 3
  LoopThreshold = 3
  MaxCrashes = 1
SPECIFICATION MSpec
INVARIANTS
  PlanKeepsItsPast
CHECK_DEADLOCK FALSE
