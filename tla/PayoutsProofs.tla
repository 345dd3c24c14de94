---------------------------- MODULE PayoutsProofs ----------------------------
(***************************************************************************)
(* The three ceilings on refunds hold for any number of runs, orders,       *)
(* merchants and days, and whatever the amounts.                            *)
(*                                                                         *)
(* The argument: a step of one run leaves another run's transaction and the *)
(* locks it holds alone (OthersUndisturbed), and changes the books only by  *)
(* publishing what it drafted (BooksMove).  So a draft stays covered by its *)
(* locks, what was checked under a lock stays true until the lock is let    *)
(* go, and publishing keeps every total under its ceiling.                  *)
(***************************************************************************)
EXTENDS Payouts, TLAPS

(* The inductive invariant. *)
IInv == TypeOK /\ DraftsAreCovered /\ OrderNeverOverRefunded /\ DayCapHolds

(* Nothing is paid, drafted or locked at first. *)
LEMMA InitIInv == Init => IInv
  BY MoneyAssumption, NobodyAssumption, DaysAssumption
  DEF Init, IInv, TypeOK, DraftsAreCovered, DraftIsLocked, DraftFits, DayCapHolds,
      OrderNeverOverRefunded, PaidOn, Days, Places, InHandler, InTransaction, Fits

(* Committing adds a run's draft to the books, under the day it started. *)
LEMMA PublishEffect ==
  ASSUME TypeOK, NEW r \in Runs, Publish(r)
  PROVE  /\ orderPaid' \in [Orders -> Nat]
         /\ runPaid' \in [Runs -> Nat]
         /\ paidSince' \in [Orgs -> [Days -> Nat]]
         /\ \A o \in Orders : orderPaid'[o] = orderPaid[o] + drafted[r][o]
         /\ runPaid'[r] = runPaid[r] + draftTotal[r]
         /\ \A s \in Runs \ {r} : runPaid'[s] = runPaid[s]
         /\ \A d \in Days : paidSince'[OrgOf[r]][d] =
              paidSince[OrgOf[r]][d] + (IF d <= txDay[r] THEN draftTotal[r] ELSE 0)
         /\ \A g \in Orgs \ {OrgOf[r]} : paidSince'[g] = paidSince[g]
  <1>1. /\ OrgOf[r] \in Orgs /\ draftTotal[r] \in Nat /\ drafted[r] \in [Orders -> Nat]
        /\ Days \subseteq Nat /\ txDay[r] \in Nat
    BY MoneyAssumption, DaysAssumption DEF TypeOK, Days
  <1>2. [d \in Days |-> IF d <= txDay[r] THEN paidSince[OrgOf[r]][d] + draftTotal[r]
                                         ELSE paidSince[OrgOf[r]][d]] \in [Days -> Nat]
    BY <1>1 DEF TypeOK
  <1> QED BY <1>1, <1>2 DEF TypeOK, Publish

(* Paying adds the refund in hand to the run's draft, and nothing else. *)
LEMMA PayEffect ==
  ASSUME TypeOK, NEW r \in Runs, Pay(r)
  PROVE  /\ order[r] \in Orders /\ amount[r] \in Nat
         /\ drafted' \in [Runs -> [Orders -> Nat]]
         /\ draftTotal' \in [Runs -> Nat]
         /\ drafted'[r][order[r]] = drafted[r][order[r]] + amount[r]
         /\ \A o \in Orders \ {order[r]} : drafted'[r][o] = drafted[r][o]
         /\ draftTotal'[r] = draftTotal[r] + amount[r]
         /\ \A s \in Runs \ {r} : drafted'[s] = drafted[s] /\ draftTotal'[s] = draftTotal[s]
  <1>1. order[r] \in Orders /\ amount[r] \in Nat
    <2>1. pc[r] \in InHandler
      BY DEF Pay, InHandler
    <2>2. amount[r] \in Amounts \cup {0} /\ order[r] \in Orders
      BY <2>1 DEF TypeOK
    <2>3. Amounts \cup {0} \subseteq Nat
      BY MoneyAssumption
    <2> QED BY <2>2, <2>3
  <1>2. [drafted[r] EXCEPT ![order[r]] = @ + amount[r]] \in [Orders -> Nat]
    BY <1>1 DEF TypeOK
  <1>3. drafted' = [drafted EXCEPT ![r] = [drafted[r] EXCEPT ![order[r]] = @ + amount[r]]]
    BY <1>1 DEF Pay, TypeOK
  <1> QED BY <1>1, <1>2, <1>3 DEF TypeOK, Pay

(* Every step keeps the types. *)
LEMMA TypeStep == TypeOK /\ [Next]_vars => TypeOK'
  <1> SUFFICES ASSUME TypeOK, [Next]_vars PROVE TypeOK'
    OBVIOUS
  <1> USE MoneyAssumption, NobodyAssumption, DaysAssumption
      DEF TypeOK, Days, Places, InTransaction, InHandler, GoTo
  <1>1. ASSUME NEW r \in Runs, Begin(r) PROVE TypeOK'
    BY <1>1 DEF Begin, books
  <1>2. ASSUME NEW r \in Runs, LockOrder(r) PROVE TypeOK'
    BY <1>2 DEF LockOrder, OrderFree, books
  <1>3. ASSUME NEW r \in Runs, CheckRemaining(r) PROVE TypeOK'
    BY <1>3 DEF CheckRemaining, books
  <1>4. ASSUME NEW r \in Runs, LockOrg(r) PROVE TypeOK'
    BY <1>4 DEF LockOrg, OrgFree, books
  <1>5. ASSUME NEW r \in Runs, Pay(r) PROVE TypeOK'
    <2>1. drafted' \in [Runs -> [Orders -> Nat]] /\ draftTotal' \in [Runs -> Nat]
      BY <1>5, PayEffect
    <2> QED BY <1>5, <2>1 DEF Pay, PutDown, books
  <1>6. ASSUME NEW r \in Runs, Refuse(r) PROVE TypeOK'
    BY <1>6 DEF Refuse, PutDown, UndoHandler, books
  <1>7. ASSUME NEW r \in Runs, Commit(r) PROVE TypeOK'
    BY <1>7, PublishEffect DEF Commit, ClearDraft, ReleaseAll
  <1>8. ASSUME NEW r \in Runs, Fail(r) PROVE TypeOK'
    BY <1>8, PublishEffect DEF Fail, PutDown, ClearDraft, ReleaseAll
  <1>9. ASSUME NEW r \in Runs, Crash(r) PROVE TypeOK'
    BY <1>9 DEF Crash, PutDown, ClearDraft, ReleaseAll, books
  <1>10. CASE Midnight
    BY <1>10 DEF Midnight, books
  <1>11. CASE UNCHANGED vars
    BY <1>11 DEF vars
  <1> QED
    BY <1>1, <1>2, <1>3, <1>4, <1>5, <1>6, <1>7, <1>8, <1>9, <1>10, <1>11
    DEF Next, RunStep

(* A run's step changes neither another run's transaction nor its locks. *)
LEMMA OthersUndisturbed ==
  ASSUME TypeOK, NEW r \in Runs, RunStep(r), NEW s \in Runs \ {r}
  PROVE  /\ pc'[s] = pc[s] /\ order'[s] = order[s] /\ amount'[s] = amount[s]
         /\ drafted'[s] = drafted[s] /\ draftTotal'[s] = draftTotal[s]
         /\ txDay'[s] = txDay[s]
         /\ \A o \in Orders : orderLock[o] = s => orderLock'[o] = s
         /\ \A g \in Orgs : orgLock[g] = s => orgLock'[g] = s
  <1> USE NobodyAssumption DEF TypeOK, GoTo
  <1>1. CASE Begin(r)
    BY <1>1 DEF Begin, books
  <1>2. CASE LockOrder(r)
    BY <1>2 DEF LockOrder, OrderFree, books
  <1>3. CASE CheckRemaining(r)
    BY <1>3 DEF CheckRemaining, books
  <1>4. CASE LockOrg(r)
    BY <1>4 DEF LockOrg, OrgFree, books
  <1>5. CASE Pay(r)
    BY <1>5, PayEffect DEF Pay, PutDown, books
  <1>6. CASE Refuse(r)
    BY <1>6 DEF Refuse, PutDown, UndoHandler, books
  <1>7. CASE Commit(r)
    BY <1>7 DEF Commit, ClearDraft, ReleaseAll
  <1>8. CASE Fail(r)
    BY <1>8 DEF Fail, PutDown, ClearDraft, ReleaseAll
  <1>9. CASE Crash(r)
    BY <1>9 DEF Crash, PutDown, ClearDraft, ReleaseAll
  <1> QED BY <1>1, <1>2, <1>3, <1>4, <1>5, <1>6, <1>7, <1>8, <1>9 DEF RunStep

(* The books move only when a run publishes its draft. *)
LEMMA BooksMove ==
  ASSUME NEW r \in Runs, RunStep(r)
  PROVE  UNCHANGED books \/ (Publish(r) /\ ClearDraft(r))
  BY DEF RunStep, Begin, LockOrder, CheckRemaining, LockOrg, Pay, Refuse, Commit, Fail,
         Crash, books

(* A draft stays under the locks that cover it. *)
LEMMA LocksStep ==
  ASSUME IInv, TypeOK', NEW r \in Runs, RunStep(r), NEW s \in Runs
  PROVE  DraftIsLocked(s)'
  <1> USE DEF DraftIsLocked
  <1>1. DraftIsLocked(s) /\ TypeOK
    BY DEF IInv, DraftsAreCovered
  <1>2. OrgOf[s] \in Orgs /\ \A o \in Orders : OrgOf[o] \in Orgs
    BY MoneyAssumption
  <1>3. pc[s] \in InHandler => order[s] \in Orders
    BY <1>1 DEF TypeOK
  <1>4. CASE s # r
    BY <1>1, <1>2, <1>3, <1>4, OthersUndisturbed
  <1>5. CASE s = r
    <2> USE <1>1, <1>2, <1>3, <1>5, NobodyAssumption DEF TypeOK, GoTo, InHandler, InTransaction
    <2>1. CASE Begin(r)
      BY <2>1 DEF Begin, books
    <2>2. CASE LockOrder(r)
      BY <2>2 DEF LockOrder, books
    <2>3. CASE CheckRemaining(r)
      BY <2>3 DEF CheckRemaining, books
    <2>4. CASE LockOrg(r)
      BY <2>4 DEF LockOrg, books
    <2>5. CASE Pay(r)
      BY <2>5, PayEffect DEF Pay, books
    <2>6. CASE Refuse(r)
      BY <2>6 DEF Refuse, PutDown, UndoHandler, books
    <2>7. CASE ClearDraft(r) /\ \E place \in {"idle", "over"} : GoTo(r, place)
      BY <2>7 DEF ClearDraft
    <2> QED
      BY <2>1, <2>2, <2>3, <2>4, <2>5, <2>6, <2>7 DEF RunStep, Commit, Fail, Crash
  <1> QED BY <1>4, <1>5

(* What was checked under the locks stays true while they are held. *)
LEMMA FitStep ==
  ASSUME IInv, TypeOK', NEW r \in Runs, RunStep(r), NEW s \in Runs
  PROVE  DraftFits(s)'
  <1>1. /\ TypeOK
        /\ DraftIsLocked(s) /\ DraftFits(s)
        /\ DraftIsLocked(r) /\ DraftFits(r)
    BY DEF IInv, DraftsAreCovered
  <1>2. OrgOf[s] \in Orgs /\ OrgOf[r] \in Orgs /\ DayCap \in Nat
        /\ Total \in [Orders -> Nat] /\ RunCap \in [Runs -> Nat]
    BY MoneyAssumption
  <1>3. CASE s # r
    <2> USE <1>3 DEF DraftFits
    <2>1. CASE UNCHANGED books
      BY <1>1, <2>1, OthersUndisturbed DEF Fits, books
    <2>2. CASE Publish(r)
      <3>1. \A o \in Orders : orderPaid'[o] + drafted'[s][o] <= Total[o]
        BY <1>1, <1>2, <2>2, OthersUndisturbed, PublishEffect DEF DraftIsLocked, TypeOK
      <3>2. pc'[s] \in {"payable", "ceilings"} => Fits(s)'
        <4>1. SUFFICES ASSUME pc[s] \in {"payable", "ceilings"} PROVE Fits(s)'
          BY OthersUndisturbed, <1>1
        <4>2. order[s] \in Orders /\ orderLock[order[s]] = s
          BY <1>1, <4>1 DEF DraftIsLocked, InHandler, TypeOK
        <4>3. drafted[r][order[s]] = 0
          BY <1>1, <4>2 DEF DraftIsLocked, TypeOK
        <4>4. orderPaid'[order[s]] = orderPaid[order[s]]
          BY <1>1, <2>2, <4>2, <4>3, PublishEffect DEF TypeOK
        <4> QED BY <1>1, <4>1, <4>4, OthersUndisturbed DEF Fits
      <3>3. runPaid'[s] + draftTotal'[s] <= RunCap[s]
        BY <1>1, <2>2, OthersUndisturbed, PublishEffect
      <3>4. draftTotal'[s] > 0 =>
              paidSince'[OrgOf[s]][txDay'[s]] + draftTotal'[s] <= DayCap
        <4>1. SUFFICES ASSUME draftTotal[s] > 0
                       PROVE  paidSince'[OrgOf[s]][txDay[s]] = paidSince[OrgOf[s]][txDay[s]]
          BY OthersUndisturbed, <1>1
        <4>2. OrgOf[r] = OrgOf[s] => draftTotal[r] = 0
          BY <1>1, <4>1 DEF DraftIsLocked, TypeOK
        <4>3. txDay[s] \in Days /\ paidSince[OrgOf[s]][txDay[s]] \in Nat
          BY <1>1, <1>2 DEF TypeOK
        <4> QED BY <1>1, <1>2, <2>2, <4>2, <4>3, PublishEffect
      <3> QED BY <3>1, <3>2, <3>3, <3>4
    <2> QED BY <2>1, <2>2, BooksMove
  <1>4. CASE s = r
    <2> USE <1>1, <1>2, <1>4 DEF DraftFits, TypeOK, GoTo
    <2>1. CASE Begin(r)
      BY <2>1 DEF Begin, books, DraftIsLocked, InTransaction, InHandler
    <2>2. CASE LockOrder(r)
      BY <2>2 DEF LockOrder, books
    <2>3. CASE CheckRemaining(r)
      BY <2>3 DEF CheckRemaining, books, Fits
    <2>4. CASE LockOrg(r)
      BY <2>4 DEF LockOrg, books, Fits
    <2>5. CASE Pay(r)
      <3>1. /\ pc[r] = "ceilings" /\ pc'[r] = "open" /\ UNCHANGED <<books, txDay>>
            /\ order[r] \in Orders
        BY <2>5, PayEffect DEF Pay
      <3>2. ASSUME NEW o \in Orders PROVE orderPaid'[o] + drafted'[r][o] <= Total[o]
        <4>1. CASE o # order[r]
          BY <2>5, <3>1, <4>1, PayEffect DEF books
        <4>2. CASE o = order[r]
          <5>1. orderPaid[o] + drafted[r][o] + amount[r] <= Total[o]
            BY <3>1, <4>2 DEF Fits
          <5>2. orderPaid[o] \in Nat /\ drafted[r][o] \in Nat /\ amount[r] \in Nat
            BY <2>5, PayEffect
          <5> QED BY <2>5, <3>1, <4>2, <5>1, <5>2, PayEffect DEF books
        <4> QED BY <4>1, <4>2
      <3>3. runPaid'[r] + draftTotal'[r] <= RunCap[r]
        <4>1. runPaid[r] + draftTotal[r] + amount[r] <= RunCap[r]
          BY <2>5 DEF Pay, WithinRunCap
        <4>2. runPaid[r] \in Nat /\ draftTotal[r] \in Nat /\ amount[r] \in Nat
          BY <2>5, PayEffect
        <4> QED BY <2>5, <3>1, <4>1, <4>2, PayEffect DEF books
      <3>4. paidSince'[OrgOf[r]][txDay'[r]] + draftTotal'[r] <= DayCap
        <4>1. paidSince[OrgOf[r]][txDay[r]] + draftTotal[r] + amount[r] <= DayCap
          BY <2>5 DEF Pay, WithinDayCap
        <4>2. /\ paidSince[OrgOf[r]][txDay[r]] \in Nat /\ draftTotal[r] \in Nat
              /\ amount[r] \in Nat
          BY <2>5, PayEffect
        <4> QED BY <2>5, <3>1, <4>1, <4>2, PayEffect DEF books
      <3> QED BY <3>1, <3>2, <3>3, <3>4
    <2>6. CASE Refuse(r)
      BY <2>6 DEF Refuse, PutDown, books
    <2>7. CASE ClearDraft(r) /\ (Publish(r) \/ UNCHANGED books)
               /\ \E place \in {"idle", "over"} : GoTo(r, place)
      BY <2>7, PublishEffect DEF ClearDraft, books
    <2> QED
      BY <2>1, <2>2, <2>3, <2>4, <2>5, <2>6, <2>7 DEF RunStep, Commit, Fail, Crash
  <1> QED BY <1>3, <1>4

(* Publishing keeps the totals under their ceilings. *)
LEMMA TotalsStep ==
  ASSUME IInv, NEW r \in Runs, RunStep(r)
  PROVE  OrderNeverOverRefunded' /\ DayCapHolds'
  <1> USE DEF OrderNeverOverRefunded, DayCapHolds, PaidOn
  <1>1. TypeOK /\ DraftFits(r) /\ OrderNeverOverRefunded /\ DayCapHolds
    BY DEF IInv, DraftsAreCovered
  <1>2. CASE UNCHANGED books
    BY <1>1, <1>2 DEF books
  <1>3. CASE Publish(r)
    <2>1. OrderNeverOverRefunded'
      BY <1>1, <1>3, PublishEffect DEF DraftFits
    <2>2. ASSUME NEW g \in Orgs, NEW d \in Days PROVE PaidOn(g, d)' <= DayCap
      <3> DEFINE after == IF d = LastDay THEN 0 ELSE paidSince[g][d + 1]
      <3>1. /\ d \in Nat /\ txDay[r] \in Nat /\ draftTotal[r] \in Nat /\ DayCap \in Nat
            /\ txDay[r] \in Days /\ (d # LastDay => d + 1 \in Days)
        BY <1>1, MoneyAssumption, DaysAssumption DEF TypeOK, Days
      <3>2. paidSince[g][d] \in Nat /\ after \in Nat /\ paidSince[g][d] - after <= DayCap
        BY <1>1, <3>1 DEF TypeOK
      <3>3. CASE g # OrgOf[r]
        BY <1>1, <1>3, <3>3, PublishEffect
      <3>4. CASE g = OrgOf[r]
        <4>1. CASE d < txDay[r]
          <5>3. txDay[r] <= LastDay
            BY <3>1, DaysAssumption DEF Days
          <5>1. d # LastDay /\ d + 1 \in Days /\ d + 1 <= txDay[r]
            BY <3>1, <4>1, <5>3, DaysAssumption
          <5>2. /\ paidSince'[g][d] = paidSince[g][d] + draftTotal[r]
                /\ paidSince'[g][d + 1] = paidSince[g][d + 1] + draftTotal[r]
            BY <1>1, <1>3, <3>1, <3>4, <4>1, <5>1, PublishEffect
          <5> QED BY <3>1, <3>2, <5>1, <5>2
        <4>3. CASE d > txDay[r]
          <5>1. paidSince'[g][d] = paidSince[g][d]
            BY <1>1, <1>3, <3>1, <3>2, <3>4, <4>3, PublishEffect
          <5>2. d # LastDay => paidSince'[g][d + 1] = paidSince[g][d + 1]
            <6>1. SUFFICES ASSUME d # LastDay PROVE paidSince'[g][d + 1] = paidSince[g][d + 1]
              OBVIOUS
            <6>2. d + 1 \in Days /\ ~(d + 1 <= txDay[r]) /\ paidSince[g][d + 1] \in Nat
              BY <1>1, <3>1, <4>3, <6>1 DEF TypeOK
            <6> QED BY <1>1, <1>3, <3>4, <6>2, PublishEffect
          <5> QED BY <3>2, <5>1, <5>2
        <4>2. CASE d = txDay[r]
          BY <1>1, <1>3, <3>1, <3>2, <3>4, <4>2, PublishEffect, DaysAssumption DEF DraftFits
        <4> QED BY <3>1, <4>1, <4>2, <4>3
      <3> QED BY <3>3, <3>4
    <2> QED BY <2>1, <2>2
  <1> QED BY <1>2, <1>3, BooksMove

(* Drafts stay covered by locks and checked balances, and the ceilings hold,  *)
(* in every reachable state: the whole of issue_refund's locking.             *)
THEOREM IInvHolds == Spec => []IInv
  <1>1. IInv /\ [Next]_vars => IInv'
    <2> SUFFICES ASSUME IInv, [Next]_vars PROVE IInv'
      OBVIOUS
    <2>1. TypeOK'
      BY TypeStep DEF IInv
    <2>2. CASE \E r \in Runs : RunStep(r)
      BY <2>1, <2>2, LocksStep, FitStep, TotalsStep DEF IInv, DraftsAreCovered
    <2>3. CASE Midnight \/ UNCHANGED vars
      BY <2>1, <2>3 DEF IInv, DraftsAreCovered, DraftIsLocked, DraftFits, Fits,
                        OrderNeverOverRefunded, DayCapHolds, PaidOn, Midnight, vars, books
    <2> QED BY <2>2, <2>3 DEF Next
  <1> QED BY InitIInv, <1>1, PTL DEF Spec

(* Every variable has its type: the books stay natural numbers, and a run has *)
(* an order and an amount in hand just while it is in the handler.            *)
THEOREM TypesHold == Spec => []TypeOK
  <1>1. IInv => TypeOK
    BY DEF IInv
  <1> QED BY <1>1, IInvHolds, PTL

(* What an open transaction has paid is covered by the rows it has locked and *)
(* fits the balances (the row locks of _issue_refund and _ceilings).          *)
THEOREM DraftsCovered == Spec => []DraftsAreCovered
  <1>1. IInv => DraftsAreCovered
    BY DEF IInv
  <1> QED BY <1>1, IInvHolds, PTL

(* No order is refunded past its total, whatever runs work on it together     *)
(* (the remaining balance of _issue_refund).                                  *)
THEOREM OrderNeverOverRefundedHolds == Spec => []OrderNeverOverRefunded
  <1>1. IInv => OrderNeverOverRefunded
    BY DEF IInv
  <1> QED BY <1>1, IInvHolds, PTL

(* No run pays out more than the ceiling it was created with (_ceilings).     *)
THEOREM RunCapTheorem == Spec => []RunCapHolds
  <1>1. IInv => RunCapHolds
    <2> SUFFICES ASSUME IInv, NEW r \in Runs PROVE runPaid[r] <= RunCap[r]
      BY DEF RunCapHolds
    <2>1. runPaid[r] + draftTotal[r] <= RunCap[r]
      BY DEF IInv, DraftsAreCovered, DraftFits
    <2>2. runPaid[r] \in Nat /\ draftTotal[r] \in Nat /\ RunCap[r] \in Nat
      BY MoneyAssumption DEF IInv, TypeOK
    <2> QED BY <2>1, <2>2
  <1> QED BY <1>1, IInvHolds, PTL

(* No merchant refunds more under one date than the daily ceiling, although   *)
(* a transaction that started before midnight may commit after it (_ceilings).*)
THEOREM DayCapTheorem == Spec => []DayCapHolds
  <1>1. IInv => DayCapHolds
    BY DEF IInv
  <1> QED BY <1>1, IInvHolds, PTL
=============================================================================
