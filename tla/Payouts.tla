------------------------------- MODULE Payouts -------------------------------
(***************************************************************************)
(* The money path: issue_refund with its three ceilings, run by several     *)
(* runs at once, each inside the transaction that settles its turn.  One    *)
(* turn may hold several refunds.  Row locks are held to the end of the     *)
(* transaction; what a transaction has inserted is seen by itself alone     *)
(* until it commits (READ COMMITTED).                                       *)
(*                                                                          *)
(* Sums over the refunds table are kept as totals: by order, by run, and by *)
(* merchant from a day on (`created_at >= date_trunc('day', now())` has no   *)
(* upper end, and now() is the start of the transaction).                   *)
(***************************************************************************)
EXTENDS Integers

CONSTANTS
  Runs,     \* runs, each driven by one worker under its lease
  Orders,
  Orgs,     \* merchants
  OrgOf,    \* the merchant of each run and of each order
  Total,    \* orders.total_cents
  RunCap,   \* runs.max_refund_cents, snapshotted when the run was created
  DayCap,   \* settings.daily_refund_cents_per_org
  Amounts,  \* amounts a refund may ask for (the schema's minimum is 1)
  LastDay,  \* bound of the model: days 0..LastDay
  Nobody,   \* no lock holder
  NoOrder   \* no refund in hand

ASSUME MoneyAssumption ==
  /\ OrgOf \in [Runs \cup Orders -> Orgs]
  /\ Total \in [Orders -> Nat]
  /\ RunCap \in [Runs -> Nat]
  /\ DayCap \in Nat
  /\ Amounts \subseteq Nat \ {0}
ASSUME NobodyAssumption == Nobody \notin Runs /\ NoOrder \notin Orders
ASSUME DaysAssumption == LastDay \in Nat

Days == 0..LastDay

VARIABLES
  orderPaid,  \* refunded of each order, committed
  runPaid,    \* refunded by each run, committed
  paidSince,  \* refunded by each merchant from each day on, committed
  drafted,    \* refunds a run's open transaction has inserted, by order
  draftTotal, \* and their sum
  pc,         \* where each run's transaction is
  order,      \* the order of the refund in hand
  amount,     \* and its amount
  orderLock,  \* who holds each order's row (for update)
  orgLock,    \* who holds each merchant's row (for no key update)
  today,      \* the clock's day
  txDay       \* the day the run's transaction started: now() inside it

vars == <<orderPaid, runPaid, paidSince, drafted, draftTotal, pc, order, amount,
          orderLock, orgLock, today, txDay>>
books == <<orderPaid, runPaid, paidSince>>

InHandler == {"ordered", "payable", "ceilings"}
InTransaction == InHandler \cup {"open"}
Places == InTransaction \cup {"idle", "over"}

Init ==
  /\ orderPaid = [o \in Orders |-> 0]
  /\ runPaid = [r \in Runs |-> 0]
  /\ paidSince = [g \in Orgs |-> [d \in Days |-> 0]]
  /\ drafted = [r \in Runs |-> [o \in Orders |-> 0]]
  /\ draftTotal = [r \in Runs |-> 0]
  /\ pc = [r \in Runs |-> "idle"]
  /\ order = [r \in Runs |-> NoOrder]
  /\ amount = [r \in Runs |-> 0]
  /\ orderLock = [o \in Orders |-> Nobody]
  /\ orgLock = [g \in Orgs |-> Nobody]
  /\ today = 0
  /\ txDay = [r \in Runs |-> 0]

GoTo(r, place) == pc' = [pc EXCEPT ![r] = place]

(* The handler returned, raised, or died: nothing is in hand. *)
PutDown_Nothing(r) == UNCHANGED <<order, amount>>
PutDown(r) ==
  /\ order' = [order EXCEPT ![r] = NoOrder]
  /\ amount' = [amount EXCEPT ![r] = 0]

OrderFree_NoLock(o, r) == TRUE
OrderFree(o, r) == orderLock[o] \in {r, Nobody}
OrgFree_KeyShareOnly(g, r) == TRUE
OrgFree(g, r) == orgLock[g] \in {r, Nobody}

(* The settling transaction starts. *)
Begin(r) ==
  /\ pc[r] = "idle"
  /\ GoTo(r, "open")
  /\ txDay' = [txDay EXCEPT ![r] = today]
  /\ UNCHANGED <<books, drafted, draftTotal, order, amount, orderLock, orgLock, today>>

(* select ... from orders ... for update *)
LockOrder(r) ==
  /\ pc[r] = "open"
  /\ \E o \in Orders, a \in Amounts :
       /\ OrgOf[o] = OrgOf[r]
       /\ OrderFree(o, r)
       /\ order' = [order EXCEPT ![r] = o]
       /\ amount' = [amount EXCEPT ![r] = a]
       /\ orderLock' = [orderLock EXCEPT ![o] = r]
  /\ GoTo(r, "ordered")
  /\ UNCHANGED <<books, drafted, draftTotal, orgLock, today, txDay>>

Fits_PerRefund(r) == amount[r] <= Total[order[r]]
Fits(r) ==
  LET o == order[r] IN orderPaid[o] + drafted[r][o] + amount[r] <= Total[o]

CheckRemaining(r) ==
  /\ pc[r] = "ordered"
  /\ Fits(r)
  /\ GoTo(r, "payable")
  /\ UNCHANGED <<books, drafted, draftTotal, order, amount, orderLock, orgLock, today, txDay>>

(* select id from orgs ... for no key update *)
LockOrg(r) ==
  LET g == OrgOf[r] IN
  /\ pc[r] = "payable"
  /\ OrgFree(g, r)
  /\ orgLock' = [orgLock EXCEPT ![g] = r]
  /\ GoTo(r, "ceilings")
  /\ UNCHANGED <<books, drafted, draftTotal, order, amount, orderLock, today, txDay>>

WithinRunCap_CommittedOnly(r) == runPaid[r] + amount[r] <= RunCap[r]
WithinRunCap(r) == runPaid[r] + draftTotal[r] + amount[r] <= RunCap[r]

WithinDayCap_BeforeThis(r) == paidSince[OrgOf[r]][txDay[r]] + draftTotal[r] <= DayCap
WithinDayCap(r) == paidSince[OrgOf[r]][txDay[r]] + draftTotal[r] + amount[r] <= DayCap

(* Both ceilings leave room: insert the refund. *)
Pay(r) ==
  /\ pc[r] = "ceilings"
  /\ WithinRunCap(r) /\ WithinDayCap(r)
  /\ drafted' = [drafted EXCEPT ![r][order[r]] = @ + amount[r]]
  /\ draftTotal' = [draftTotal EXCEPT ![r] = @ + amount[r]]
  /\ PutDown(r)
  /\ GoTo(r, "open")
  /\ UNCHANGED <<books, orderLock, orgLock, today, txDay>>

(* The transaction ends: every lock it holds is let go. *)
ReleaseAll(r) ==
  /\ orderLock' = [o \in Orders |-> IF orderLock[o] = r THEN Nobody ELSE orderLock[o]]
  /\ orgLock' = [g \in Orgs |-> IF orgLock[g] = r THEN Nobody ELSE orgLock[g]]

(* Rolling back to the handler's savepoint lets go of the locks it took; an *)
(* earlier refund of the same transaction keeps those it needed.            *)
UndoHandler_EveryLock(r) == ReleaseAll(r)
UndoHandler(r) ==
  /\ orderLock' = [o \in Orders |->
       IF orderLock[o] = r /\ drafted[r][o] = 0 THEN Nobody ELSE orderLock[o]]
  /\ orgLock' = [g \in Orgs |->
       IF orgLock[g] = r /\ draftTotal[r] = 0 THEN Nobody ELSE orgLock[g]]

(* A ToolError: more than remains, or over a ceiling.  The turn goes on. *)
Refuse(r) ==
  /\ \/ pc[r] = "ordered" /\ ~Fits(r)
     \/ pc[r] = "ceilings" /\ ~(WithinRunCap(r) /\ WithinDayCap(r))
  /\ UndoHandler(r)
  /\ PutDown(r)
  /\ GoTo(r, "open")
  /\ UNCHANGED <<books, drafted, draftTotal, today, txDay>>

ClearDraft(r) ==
  /\ drafted' = [drafted EXCEPT ![r] = [o \in Orders |-> 0]]
  /\ draftTotal' = [draftTotal EXCEPT ![r] = 0]

(* The refunds are dated now(), the start of their transaction. *)
Publish(r) ==
  /\ orderPaid' = [o \in Orders |-> orderPaid[o] + drafted[r][o]]
  /\ runPaid' = [runPaid EXCEPT ![r] = @ + draftTotal[r]]
  /\ paidSince' = [paidSince EXCEPT ![OrgOf[r]] =
       [d \in Days |-> IF d <= txDay[r] THEN @[d] + draftTotal[r] ELSE @[d]]]

Commit(r) ==
  /\ pc[r] = "open"
  /\ Publish(r)
  /\ ClearDraft(r)
  /\ ReleaseAll(r)
  /\ GoTo(r, "idle")
  /\ UNCHANGED <<order, amount, today, txDay>>

(* The handler raised something else (a lock cycle broken by killing this    *)
(* one, a lost statement): back to its savepoint, and the worker fails the   *)
(* run and commits what came before.                                         *)
Fail(r) ==
  /\ pc[r] \in InTransaction
  /\ Publish(r)
  /\ ClearDraft(r)
  /\ ReleaseAll(r)
  /\ PutDown(r)
  /\ GoTo(r, "over")
  /\ UNCHANGED <<today, txDay>>

(* The worker dies: nothing of the transaction stays.  Another takes the run. *)
Crash(r) ==
  /\ pc[r] \in InTransaction
  /\ ClearDraft(r)
  /\ ReleaseAll(r)
  /\ PutDown(r)
  /\ GoTo(r, "idle")
  /\ UNCHANGED <<books, today, txDay>>

Midnight ==
  /\ today < LastDay
  /\ today' = today + 1
  /\ UNCHANGED <<books, drafted, draftTotal, pc, order, amount, orderLock, orgLock, txDay>>

RunStep(r) ==
  \/ Begin(r) \/ LockOrder(r) \/ CheckRemaining(r) \/ LockOrg(r) \/ Pay(r)
  \/ Refuse(r) \/ Commit(r) \/ Fail(r) \/ Crash(r)

Next == (\E r \in Runs : RunStep(r)) \/ Midnight

Spec == Init /\ [][Next]_vars
-----------------------------------------------------------------------------
(* Every variable has its type, and a refund is in hand just while its       *)
(* handler runs.                                                             *)
TypeOK ==
  /\ orderPaid \in [Orders -> Nat]
  /\ runPaid \in [Runs -> Nat]
  /\ paidSince \in [Orgs -> [Days -> Nat]]
  /\ drafted \in [Runs -> [Orders -> Nat]]
  /\ draftTotal \in [Runs -> Nat]
  /\ pc \in [Runs -> Places]
  /\ order \in [Runs -> Orders \cup {NoOrder}]
  /\ amount \in [Runs -> Amounts \cup {0}]
  /\ orderLock \in [Orders -> Runs \cup {Nobody}]
  /\ orgLock \in [Orgs -> Runs \cup {Nobody}]
  /\ today \in Days
  /\ txDay \in [Runs -> Days]
  /\ \A r \in Runs : pc[r] \in InHandler <=> order[r] # NoOrder

(* Why the ceilings hold: what an open transaction has paid and not yet      *)
(* published is covered by the rows it has locked, and leaves the balances   *)
(* it looked at within their limits (_issue_refund and _ceilings lock before *)
(* they read).                                                               *)
DraftIsLocked(r) ==
  /\ \A o \in Orders : drafted[r][o] > 0 => orderLock[o] = r
  /\ draftTotal[r] > 0 => orgLock[OrgOf[r]] = r
  /\ pc[r] \in InHandler => orderLock[order[r]] = r
  /\ pc[r] = "ceilings" => orgLock[OrgOf[r]] = r
  /\ pc[r] \notin InTransaction => draftTotal[r] = 0 /\ \A o \in Orders : drafted[r][o] = 0

DraftFits(r) ==
  /\ \A o \in Orders : orderPaid[o] + drafted[r][o] <= Total[o]
  /\ pc[r] \in {"payable", "ceilings"} => Fits(r)
  /\ runPaid[r] + draftTotal[r] <= RunCap[r]
  /\ draftTotal[r] > 0 => paidSince[OrgOf[r]][txDay[r]] + draftTotal[r] <= DayCap

DraftsAreCovered == \A r \in Runs : DraftIsLocked(r) /\ DraftFits(r)

(* An order is never refunded past what was paid for it (_issue_refund), by   *)
(* any number of runs together.                                              *)
OrderNeverOverRefunded == \A o \in Orders : orderPaid[o] <= Total[o]

(* A run never pays out more than the ceiling it was created with            *)
(* (_ceilings), over any number of turns, orders and attempts.               *)
RunCapHolds == \A r \in Runs : runPaid[r] <= RunCap[r]

(* What a merchant refunds under one date stays within the daily ceiling,    *)
(* also for transactions that straddle midnight (_ceilings).                 *)
PaidOn(g, d) == paidSince[g][d] - (IF d = LastDay THEN 0 ELSE paidSince[g][d + 1])
DayCapHolds == \A g \in Orgs, d \in Days : PaidOn(g, d) <= DayCap
=============================================================================
