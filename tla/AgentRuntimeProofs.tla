-------------------------- MODULE AgentRuntimeProofs --------------------------
(***************************************************************************)
(* Theorems about AgentRuntime.                                            *)
(*                                                                         *)
(* First its types, and the two action properties that say who may write a *)
(* run's log and when.  A turn is settled in a transaction whose writes    *)
(* are seen only at its commit, so that a commit writes the right log is a *)
(* fact about every step since the transaction began.  The inductive       *)
(* invariant IInv carries it: a settling worker holds the lease of a       *)
(* running run (the row lock taken by renew_lease keeps everybody else     *)
(* from changing that), and its transaction only ever extends the          *)
(* committed log.  RowStep then lists what a step can do to a run's row,   *)
(* WorkerMovesStep what it can do to a worker, and the theorems follow     *)
(* from these two lists.                                                   *)
(*                                                                         *)
(* Then what a run leaves on record: its log, its ledger, its approvals.   *)
(* The same three statements are made of two kinds of record: what is      *)
(* committed, and what a worker's open transaction would commit.  Sound    *)
(* makes them of a log, a set of ledger rows and a table of approvals;     *)
(* lemmas say what appending one step does to a sound record, and list     *)
(* what a step of the specification does to each record.  RInv, the        *)
(* inductive invariant, says that every record is sound and that the calls *)
(* a transaction has left to settle are calls nobody has answered.         *)
(*                                                                         *)
(* Two results follow from sound records.  The runtime implements the      *)
(* consent gate (RuntimeImplementsTheGate), and a run passes its ceilings  *)
(* by no more than one turn (StepOvershootHolds, LoopIsCutHolds).          *)
(***************************************************************************)
EXTENDS AgentRuntime, TLAPS, SequenceTheorems, FiniteSetTheorems, WellFoundedInduction

(* The log new begins with the log old.                                      *)
Extends(old, new) ==
  /\ Len(old) <= Len(new)
  /\ \A j \in 1..Len(old) : new[j] = old[j]

(* The call c is one that a step of the log proposed.                        *)
Proposed(log, c) ==
  /\ c[1] \in DOMAIN log
  /\ c[2] \in DOMAIN log[c[1]].calls

(* A worker inside a settling transaction holds the lease of a running run:  *)
(* renew_lease succeeded and its row lock stands until the commit.           *)
SettlerHolds(w) == pc[w] = "settling" => Holds(w, run[w])

(* Its transaction extends the committed log, and what it has left to settle *)
(* and what it has asked for was proposed in that log. A worker not settling *)
(* has neither.                                                              *)
SettlerExtends(w) ==
  IF pc[w] = "settling"
  THEN /\ Extends(steps[run[w]], txSteps[w])
       /\ \A c \in todo[w] \cup txAsks[w] : Proposed(txSteps[w], c)
  ELSE todo[w] = {} /\ txAsks[w] = {}

(* The inductive invariant of the specification.                             *)
IInv == TypeOK /\ \A w \in Workers : SettlerHolds(w) /\ SettlerExtends(w)

(* A proposed call has an action.                                            *)
LEMMA ActionOfType ==
  ASSUME NEW log \in Seq(Step), NEW c \in CallIds, Proposed(log, c)
  PROVE  ActionOf(log, c) \in Actions
  <1>1. log[c[1]] \in Step
    BY DEF Proposed
  <1>2. log[c[1]].calls \in Seq(Actions)
    BY <1>1 DEF Step
  <1> QED BY <1>2 DEF Proposed, ActionOf

(* Everything the loop appends is a step.                                    *)
LEMMA StepTypes ==
  /\ \A reply \in Seq(Actions) : ModelCall(reply) \in Step
  /\ \A c \in CallIds, ok \in BOOLEAN : ToolResult(c, ok) \in Step
  /\ \A c \in CallIds : DenialStep(c) \in Step
  /\ Final \in Step /\ Notice \in Step
  <1>1. NoCall \in CallIds /\ <<>> \in Seq(Actions)
    BY DEF NoCall, CallIds
  <1> QED BY <1>1 DEF Step, ModelCall, ToolResult, DenialStep, Final, Notice

(* append_step extends a log and keeps its type.                             *)
LEMMA AppendExtends ==
  ASSUME NEW S, NEW log \in Seq(S), NEW x \in S
  PROVE  /\ Append(log, x) \in Seq(S)
         /\ Extends(log, Append(log, x))
  BY DEF Extends

(* Extending twice is extending.                                             *)
LEMMA ExtendsTransitive ==
  ASSUME NEW S, NEW a \in Seq(S), NEW b \in Seq(S), NEW c \in Seq(S),
         Extends(a, b), Extends(b, c)
  PROVE  Extends(a, c)
  BY DEF Extends

(* A call that was proposed stays proposed in a longer log.                  *)
LEMMA ProposedKept ==
  ASSUME NEW a \in Seq(Step), NEW b \in Seq(Step), Extends(a, b), NEW c \in CallIds, Proposed(a, c)
  PROVE  Proposed(b, c)
  <1>1. c[1] \in 1..Len(a) /\ c[1] \in 1..Len(b) /\ b[c[1]] = a[c[1]]
    BY DEF Proposed, Extends
  <1> QED BY <1>1 DEF Proposed

(* The unresolved calls that _settle starts from were all proposed by the    *)
(* log.                                                                      *)
LEMMA UnresolvedProposed ==
  ASSUME NEW log \in Seq(Step), NEW c \in Unresolved(log)
  PROVE  c \in CallIds /\ Proposed(log, c)
  <1>1. PICK k \in LastTurn(log) : c \in CallsOf(log, k)
    BY DEF Unresolved
  <1>2. k \in DOMAIN log /\ k \in Nat
    BY DEF LastTurn, Turns
  <1>3. log[k] \in Step
    BY <1>2
  <1>4. log[k].calls \in Seq(Actions)
    BY <1>3 DEF Step
  <1>5. PICK i \in DOMAIN log[k].calls : c = <<k, i>>
    BY <1>1 DEF CallsOf
  <1>6. i \in Nat
    BY <1>4, <1>5
  <1> QED BY <1>2, <1>5, <1>6 DEF CallIds, Proposed

(* An empty database with idle workers satisfies the invariant.              *)
LEMMA InitIInv == Init => IInv
  <1> SUFFICES ASSUME Init PROVE IInv
    OBVIOUS
  <1>1. <<>> \in Seq(Step)
    OBVIOUS
  <1>2. TypeOK
    BY <1>1, OwnerAssumption DEF Init, TypeOK, Statuses
  <1> QED BY <1>2 DEF Init, IInv, SettlerHolds, SettlerExtends

(* The type of the approvals table, for tables that are being computed.      *)
ApprovalsTyped(table) ==
  /\ DOMAIN table = Runs
  /\ \A r \in Runs : /\ DOMAIN table[r] \subseteq CallIds
                     /\ \A c \in DOMAIN table[r] : table[r][c] \in Approval

(* Deciding, expiring or ageing an approval leaves an approval.              *)
LEMMA ApprovalUpdates ==
  ASSUME NEW a \in Approval
  PROVE  /\ \A d \in {"approved", "denied", "expired"} : [a EXCEPT !.status = d] \in Approval
         /\ [a EXCEPT !.stale = TRUE] \in Approval
  BY DEF Approval

(* The sweep (expire_stale) keeps the types of the approvals and of the      *)
(* statuses.                                                                 *)
LEMMA SweptTyped ==
  ASSUME TypeOK
  PROVE  /\ ApprovalsTyped(approvals)
         /\ ApprovalsTyped(Swept)
         /\ \A R : Requeued(R) \in [Runs -> Statuses]
  <1>1. ApprovalsTyped(approvals)
    BY DEF TypeOK, ApprovalsTyped
  <1>2. ASSUME NEW r \in Runs, NEW c \in DOMAIN approvals[r]
        PROVE  [approvals[r][c] EXCEPT !.status = "expired"] \in Approval
    BY ApprovalUpdates DEF TypeOK
  <1>3. ApprovalsTyped(Swept)
    BY <1>1, <1>2 DEF ApprovalsTyped, Swept
  <1>4. \A R : Requeued(R) \in [Runs -> Statuses]
    BY DEF TypeOK, Requeued, Statuses
  <1> QED BY <1>1, <1>3, <1>4

(* Publishing the questions of a settling transaction keeps the type of the  *)
(* approvals: each is about a call that was proposed.                        *)
LEMMA WithAsksTyped ==
  ASSUME IInv, NEW w \in Workers, pc[w] = "settling", NEW table, ApprovalsTyped(table)
  PROVE  ApprovalsTyped(WithAsks(w, table))
  <1> DEFINE r == run[w]
             grown == [c \in DOMAIN table[r] \cup txAsks[w] |->
                         IF c \in DOMAIN table[r] THEN table[r][c]
                         ELSE [action |-> ActionOf(txSteps[w], c), status |-> "pending",
                               stale |-> FALSE]]
  <1>1. r \in Runs /\ txAsks[w] \subseteq CallIds /\ txSteps[w] \in Seq(Step)
    BY DEF IInv, TypeOK
  <1>2. ASSUME NEW c \in txAsks[w]
        PROVE  [action |-> ActionOf(txSteps[w], c), status |-> "pending", stale |-> FALSE]
                 \in Approval
    <2>1. Proposed(txSteps[w], c) /\ c \in CallIds
      BY <1>1 DEF IInv, SettlerExtends
    <2>2. ActionOf(txSteps[w], c) \in Actions
      BY <1>1, <2>1, ActionOfType
    <2> QED BY <2>2 DEF Approval
  <1>3. DOMAIN grown \subseteq CallIds /\ \A c \in DOMAIN grown : grown[c] \in Approval
    BY <1>1, <1>2 DEF ApprovalsTyped
  <1>4. WithAsks(w, table) = [table EXCEPT ![r] = grown]
    BY DEF WithAsks
  <1> QED BY <1>1, <1>3, <1>4 DEF ApprovalsTyped

(* Settling one call keeps the types of the open transactions.               *)
LEMMA SettleTyped ==
  ASSUME TypeOK, NEW w \in Workers, NEW c \in todo[w], NEW step \in Step, SettleWith(w, c, step)
  PROVE  /\ txSteps' \in [Workers -> Seq(Step)]
         /\ todo' \in [Workers -> SUBSET CallIds]
  <1>1. txSteps[w] \in Seq(Step)
    BY DEF TypeOK
  <1>2. Append(txSteps[w], step) \in Seq(Step)
    BY <1>1
  <1> QED BY <1>2 DEF TypeOK, SettleWith

(* Committing a transaction keeps the types of the log and of the ledger.    *)
LEMMA CommitTyped ==
  ASSUME TypeOK, NEW w \in Workers, pc[w] = "settling", NEW log \in Seq(Step), Commit(w, log)
  PROVE  /\ run[w] \in Runs
         /\ steps' \in [Runs -> Seq(Step)]
         /\ ledger' \in [Runs -> SUBSET LedgerRow]
         /\ UNCHANGED <<overdue, cancelling, crashes>>
  BY DEF TypeOK, Commit

(* Moving a worker keeps the types of where workers are and of what they     *)
(* hold.                                                                     *)
LEMMA PlaceTyped ==
  ASSUME TypeOK, NEW w \in Workers
  PROVE  /\ GoIdle(w) \/ (pc[w] # "idle" /\ GoTo(w, "top")) \/ UNCHANGED <<pc, run>>
              => /\ pc' \in [Workers -> {"idle", "top", "model", "settling"}]
                 /\ run' \in [Workers -> Runs \cup {NoRun}]
                 /\ \A v \in Workers : pc'[v] # "idle" => run'[v] \in Runs
         /\ ClearTx(w) => /\ txSteps' \in [Workers -> Seq(Step)]
                          /\ txLedger' \in [Workers -> SUBSET LedgerRow]
                          /\ txAsks' \in [Workers -> SUBSET CallIds]
                          /\ todo' \in [Workers -> SUBSET CallIds]
                          /\ waiting' \in [Workers -> SUBSET CallIds]
  <1>1. <<>> \in Seq(Step)
    OBVIOUS
  <1>2. ClearTx(w) => txSteps' \in [Workers -> Seq(Step)]
    BY <1>1 DEF ClearTx, TypeOK
  <1>3. ClearTx(w) => /\ txLedger' \in [Workers -> SUBSET LedgerRow]
                      /\ txAsks' \in [Workers -> SUBSET CallIds]
                      /\ todo' \in [Workers -> SUBSET CallIds]
                      /\ waiting' \in [Workers -> SUBSET CallIds]
    BY DEF ClearTx, TypeOK
  <1> QED BY <1>2, <1>3 DEF GoIdle, GoTo, TypeOK

(* Every change of a status is to a status that runs.status allows.          *)
LEMMA StatusTyped ==
  ASSUME TypeOK, NEW r \in Runs,
         \/ \E ending \in Ended : Finish(r, ending)
         \/ Suspend(r)
         \/ Renewed(r)
  PROVE  /\ status' \in [Runs -> Statuses]
         /\ owner' \in [Runs -> Workers \cup {NoWorker}]
         /\ leaseLive' \in [Runs -> BOOLEAN]
  <1>1. "awaiting_approval" \in Statuses /\ \A ending \in Ended : ending \in Statuses
    BY DEF Statuses
  <1>2. ASSUME NEW ending \in Ended, Finish(r, ending)
        PROVE  /\ status' \in [Runs -> Statuses]
               /\ owner' \in [Runs -> Workers \cup {NoWorker}]
               /\ leaseLive' \in [Runs -> BOOLEAN]
    BY <1>1, <1>2 DEF Finish, TypeOK
  <1>3. ASSUME Suspend(r)
        PROVE  /\ status' \in [Runs -> Statuses]
               /\ owner' \in [Runs -> Workers \cup {NoWorker}]
               /\ leaseLive' \in [Runs -> BOOLEAN]
    BY <1>1, <1>3 DEF Suspend, TypeOK
  <1>4. ASSUME Renewed(r)
        PROVE  /\ status' \in [Runs -> Statuses]
               /\ owner' \in [Runs -> Workers \cup {NoWorker}]
               /\ leaseLive' \in [Runs -> BOOLEAN]
    BY <1>4 DEF Renewed, TypeOK
  <1> QED BY <1>2, <1>3, <1>4

(* Every step keeps the types: one case for each action.                     *)
LEMMA TypeStep == IInv /\ [Next]_vars => TypeOK'
  <1> SUFFICES ASSUME IInv, [Next]_vars PROVE TypeOK'
    OBVIOUS
  <1>0. TypeOK
    BY DEF IInv
  <1> USE <1>0 DEF dbVars, txVars
  <1>1. ASSUME NEW w \in Workers, Poll(w) PROVE TypeOK'
    <2>1. /\ ApprovalsTyped(approvals') /\ Requeued(StaleRuns) \in [Runs -> Statuses]
          /\ UNCHANGED <<overdue, steps, ledger, cancelling, txVars, crashes>>
      BY <1>1, SweptTyped DEF Poll
    <2>2. CASE /\ status' = Requeued(StaleRuns)
               /\ UNCHANGED <<owner, leaseLive, pc, run>>
      BY <2>1, <2>2 DEF TypeOK, ApprovalsTyped
    <2>3. ASSUME NEW r \in Runs,
                 status' = [Requeued(StaleRuns) EXCEPT ![r] = "running"],
                 owner' = [owner EXCEPT ![r] = w],
                 leaseLive' = [leaseLive EXCEPT ![r] = TRUE],
                 pc' = [pc EXCEPT ![w] = "top"],
                 run' = [run EXCEPT ![w] = r]
          PROVE  TypeOK'
      <3>1. status' \in [Runs -> Statuses]
        BY <2>1, <2>3 DEF Statuses
      <3>2. pc' \in [Workers -> {"idle", "top", "model", "settling"}]
        BY <2>3 DEF TypeOK
      <3> QED BY <2>1, <2>3, <3>1, <3>2 DEF TypeOK, ApprovalsTyped
    <2> QED BY <1>1, <2>2, <2>3 DEF Poll, Claimable
  <1>2. ASSUME NEW w \in Workers, LoseLease(w) PROVE TypeOK'
    BY <1>2 DEF LoseLease, GoIdle, TypeOK
  <1>3. ASSUME NEW w \in Workers, Exhaust(w) PROVE TypeOK'
    BY <1>3, OwnerAssumption DEF Exhaust, Finish, GoIdle, TypeOK, Statuses, Ended
  <1>4. ASSUME NEW w \in Workers, AskModel(w) PROVE TypeOK'
    BY <1>4, StepTypes DEF AskModel, MayAskModel, Renewed, GoTo, TypeOK
  <1>5. ASSUME NEW w \in Workers, RecordReply(w) PROVE TypeOK'
    <2>1. \A reply \in Replies :
            /\ ModelCall(reply) \in Step
            /\ Append(steps[run[w]], ModelCall(reply)) \in Seq(Step)
            /\ steps[run[w]] \o <<ModelCall(reply), Final>> \in Seq(Step)
      <3> TAKE reply \in Replies
      <3>1. ModelCall(reply) \in Step /\ Final \in Step
        BY CallsAssumption, StepTypes
      <3>2. steps[run[w]] \in Seq(Step)
        BY <1>5 DEF RecordReply, TypeOK
      <3> QED BY <3>1, <3>2
    <2> DEFINE r == run[w]
    <2>2. r \in Runs /\ steps[r] \in Seq(Step)
      BY <1>5 DEF RecordReply, TypeOK
    <2>3. steps' \in [Runs -> Seq(Step)]
      <3>1. \E log \in Seq(Step) : steps' = [steps EXCEPT ![r] = log]
        BY <1>5, <2>1 DEF RecordReply
      <3> QED BY <2>2, <3>1 DEF TypeOK
    <2>4. /\ pc[w] # "idle"
          /\ \/ Renewed(r) /\ GoTo(w, "top")
             \/ Finish(r, "succeeded") /\ GoIdle(w)
      BY <1>5 DEF RecordReply
    <2>5. UNCHANGED <<overdue, ledger, approvals, cancelling, txVars, crashes>>
      BY <1>5 DEF RecordReply
    <2>6. /\ status' \in [Runs -> Statuses]
          /\ owner' \in [Runs -> Workers \cup {NoWorker}]
          /\ leaseLive' \in [Runs -> BOOLEAN]
      BY <2>2, <2>4, StatusTyped DEF Ended
    <2> QED BY <2>3, <2>4, <2>5, <2>6, PlaceTyped DEF TypeOK
  <1>6. ASSUME NEW w \in Workers, RecordRefusal(w) PROVE TypeOK'
    <2>1. run[w] \in Runs /\ steps[run[w]] \in Seq(Step)
      BY <1>6 DEF RecordRefusal, TypeOK
    <2>2. ASSUME NEW partial \in Replies \cup {<<>>} PROVE ModelCall(partial) \in Step
      <3>1. partial \in Seq(Actions)
        <4>1. <<>> \in Seq(Actions)
          OBVIOUS
        <4>2. Replies \subseteq Seq(Actions)
          BY CallsAssumption
        <4> QED BY <2>2, <4>1, <4>2
      <3> QED BY <3>1, StepTypes
    <2>3. \A partial \in Replies \cup {<<>>} :
            Append(steps[run[w]], ModelCall(partial)) \in Seq(Step)
      BY <2>1, <2>2, AppendExtends
    <2>4. steps' \in [Runs -> Seq(Step)]
      BY <1>6, <2>1, <2>3 DEF RecordRefusal, TypeOK
    <2> QED BY <1>6, <2>4 DEF RecordRefusal, Finish, GoIdle, TypeOK, Statuses, Ended
  <1>7. ASSUME NEW w \in Workers, ProviderError(w) PROVE TypeOK'
    BY <1>7 DEF ProviderError, Finish, GoIdle, TypeOK, Statuses, Ended
  <1>8. ASSUME NEW w \in Workers, BeginSettle(w) PROVE TypeOK'
    <2>1. run[w] \in Runs /\ steps[run[w]] \in Seq(Step)
      BY <1>8 DEF BeginSettle, TypeOK
    <2>2. Unresolved(steps[run[w]]) \subseteq CallIds
      BY <2>1, UnresolvedProposed
    <2> QED BY <1>8, <2>1, <2>2 DEF BeginSettle, GoTo, TypeOK
  <1>9. ASSUME NEW w \in Workers, RefuseCall(w) PROVE TypeOK'
    <2>1. PICK c \in todo[w] : SettleWith(w, c, ToolResult(c, FALSE))
      BY <1>9 DEF RefuseCall
    <2>2. ToolResult(c, FALSE) \in Step
      BY <2>1, StepTypes DEF TypeOK
    <2>3. UNCHANGED <<dbVars, pc, run, txLedger, txAsks, waiting, crashes>>
      BY <1>9 DEF RefuseCall
    <2> QED BY <2>1, <2>2, <2>3, SettleTyped DEF TypeOK
  <1>10. ASSUME NEW w \in Workers, AskPerson(w) PROVE TypeOK'
    BY <1>10 DEF AskPerson, TypeOK
  <1>11. ASSUME NEW w \in Workers, RecordDenial(w) PROVE TypeOK'
    <2>1. PICK c \in todo[w] : SettleWith(w, c, DenialStep(c))
      BY <1>11 DEF RecordDenial
    <2>2. DenialStep(c) \in Step
      BY <2>1, StepTypes DEF TypeOK
    <2>3. UNCHANGED <<dbVars, pc, run, txLedger, txAsks, waiting, crashes>>
      BY <1>11 DEF RecordDenial
    <2> QED BY <2>1, <2>2, <2>3, SettleTyped DEF TypeOK
  <1>12. ASSUME NEW w \in Workers, RunCall(w) PROVE TypeOK'
    <2>1. PICK c \in todo[w], ok \in BOOLEAN :
            /\ pc[w] = "settling"
            /\ SettleWith(w, c, ToolResult(c, ok))
            /\ txLedger' = [txLedger EXCEPT ![w] =
                 Record(@, [seq |-> Len(txSteps[w]) + 1,
                            action |-> ActionOf(txSteps[w], c), ok |-> ok])]
      BY <1>12 DEF RunCall, Runnable, Reaches, IsNext
    <2>2. c \in CallIds /\ txSteps[w] \in Seq(Step) /\ ToolResult(c, ok) \in Step
      BY <2>1, StepTypes DEF TypeOK
    <2>3. ActionOf(txSteps[w], c) \in Actions
      BY <2>1, <2>2, ActionOfType DEF IInv, SettlerExtends
    <2>4. [seq |-> Len(txSteps[w]) + 1, action |-> ActionOf(txSteps[w], c), ok |-> ok]
            \in LedgerRow
      BY <2>2, <2>3 DEF LedgerRow
    <2>5. txLedger' \in [Workers -> SUBSET LedgerRow]
      BY <2>1, <2>4 DEF Record, TypeOK
    <2>6. UNCHANGED <<dbVars, pc, run, txAsks, waiting, crashes>>
      BY <1>12 DEF RunCall
    <2> QED BY <2>1, <2>2, <2>5, <2>6, SettleTyped DEF TypeOK
  <1>13. ASSUME NEW w \in Workers, CommitTurn(w) PROVE TypeOK'
    <2>1. pc[w] = "settling" /\ txSteps[w] \in Seq(Step) /\ Commit(w, txSteps[w]) /\ ClearTx(w)
      BY <1>13 DEF CommitTurn, TypeOK
    <2>2. ApprovalsTyped(approvals')
      BY <1>13, <2>1, SweptTyped, WithAsksTyped DEF CommitTurn
    <2>3. \/ Suspend(run[w]) /\ GoIdle(w)
          \/ Renewed(run[w]) /\ GoTo(w, "top")
      BY <1>13 DEF CommitTurn
    <2>4. /\ run[w] \in Runs /\ UNCHANGED <<overdue, cancelling, crashes>>
          /\ steps' \in [Runs -> Seq(Step)] /\ ledger' \in [Runs -> SUBSET LedgerRow]
      BY <2>1, CommitTyped
    <2>5. /\ status' \in [Runs -> Statuses]
          /\ owner' \in [Runs -> Workers \cup {NoWorker}]
          /\ leaseLive' \in [Runs -> BOOLEAN]
      BY <2>3, <2>4, StatusTyped
    <2> QED BY <2>1, <2>2, <2>3, <2>4, <2>5, PlaceTyped DEF TypeOK, ApprovalsTyped
  <1>14. ASSUME NEW w \in Workers, EndUnanswered(w) PROVE TypeOK'
    <2>1. /\ pc[w] = "settling" /\ txSteps[w] \in Seq(Step) /\ Commit(w, txSteps[w])
          /\ GoIdle(w) /\ ClearTx(w)
          /\ owner' = [owner EXCEPT ![run[w]] = NoWorker]
          /\ leaseLive' = [leaseLive EXCEPT ![run[w]] = FALSE]
      BY <1>14 DEF EndUnanswered, Reaches, IsNext, TypeOK
    <2>2. ApprovalsTyped(approvals')
      BY <1>14, <2>1, SweptTyped, WithAsksTyped DEF EndUnanswered
    <2>3. status' \in [Runs -> Statuses]
      <3>1. PICK R : status' = [Requeued(R) EXCEPT ![run[w]] = "failed"]
        BY <1>14 DEF EndUnanswered
      <3>2. Requeued(R) \in [Runs -> Statuses]
        BY SweptTyped
      <3> QED BY <3>1, <3>2 DEF Statuses, Ended
    <2>4. /\ run[w] \in Runs /\ UNCHANGED <<overdue, cancelling, crashes>>
          /\ steps' \in [Runs -> Seq(Step)] /\ ledger' \in [Runs -> SUBSET LedgerRow]
      BY <2>1, CommitTyped
    <2> QED BY <2>1, <2>2, <2>3, <2>4, PlaceTyped DEF TypeOK, ApprovalsTyped
  <1>15. ASSUME NEW w \in Workers, HandlerError(w) PROVE TypeOK'
    <2>1. PICK c \in todo[w] : /\ pc[w] = "settling"
                               /\ Commit(w, Append(txSteps[w], ToolResult(c, TRUE)))
      BY <1>15 DEF HandlerError, Runnable, Reaches, IsNext
    <2>2. ToolResult(c, TRUE) \in Step /\ txSteps[w] \in Seq(Step)
      BY <2>1, StepTypes DEF TypeOK
    <2>3. Append(txSteps[w], ToolResult(c, TRUE)) \in Seq(Step)
      BY <2>2, AppendExtends
    <2>4. /\ run[w] \in Runs /\ UNCHANGED <<overdue, cancelling, crashes>>
          /\ steps' \in [Runs -> Seq(Step)] /\ ledger' \in [Runs -> SUBSET LedgerRow]
      BY <2>1, <2>3, CommitTyped
    <2>5. ApprovalsTyped(approvals')
      BY <1>15, <2>1, SweptTyped, WithAsksTyped DEF HandlerError
    <2>6. Finish(run[w], "failed") /\ GoIdle(w) /\ ClearTx(w)
      BY <1>15 DEF HandlerError
    <2> QED BY <2>4, <2>5, <2>6
            DEF Finish, GoIdle, ClearTx, TypeOK, Statuses, Ended, ApprovalsTyped
  <1>16. ASSUME NEW w \in Workers, DatabaseError(w) PROVE TypeOK'
    BY <1>16 DEF DatabaseError, GoIdle, ClearTx, TypeOK
  <1>17. ASSUME NEW w \in Workers, Crash(w) PROVE TypeOK'
    BY <1>17 DEF Crash, GoIdle, ClearTx, TypeOK
  <1>18. ASSUME NEW r \in Runs, LeaseExpires(r) PROVE TypeOK'
    BY <1>18 DEF LeaseExpires, TypeOK
  <1>19. ASSUME NEW r \in Runs, CeilingReached(r) PROVE TypeOK'
    BY <1>19 DEF CeilingReached, TypeOK
  <1>20. ASSUME NEW r \in Runs, ApprovalTimesOut(r) PROVE TypeOK'
    <2>1. PICK c \in DOMAIN approvals[r] :
            approvals' = [approvals EXCEPT ![r] =
                            [approvals[r] EXCEPT ![c] = [approvals[r][c] EXCEPT !.stale = TRUE]]]
      BY <1>20 DEF ApprovalTimesOut, TypeOK
    <2>2. [approvals[r][c] EXCEPT !.stale = TRUE] \in Approval
      BY ApprovalUpdates DEF TypeOK
    <2>3. ApprovalsTyped(approvals')
      BY <2>1, <2>2 DEF TypeOK, ApprovalsTyped
    <2>4. UNCHANGED <<status, owner, leaseLive, overdue, steps, ledger, cancelling,
                      pc, run, txVars, crashes>>
      BY <1>20 DEF ApprovalTimesOut
    <2> QED BY <2>3, <2>4 DEF TypeOK, ApprovalsTyped
  <1>21. ASSUME NEW r \in Runs, Decide(r) PROVE TypeOK'
    <2>1. PICK c \in DOMAIN approvals[r], decision \in {"approved", "denied"} :
            approvals' = [approvals EXCEPT ![r] =
                            [approvals[r] EXCEPT ![c] =
                               [approvals[r][c] EXCEPT !.status = decision]]]
      BY <1>21 DEF Decide, TypeOK
    <2>2. [approvals[r][c] EXCEPT !.status = decision] \in Approval
      BY ApprovalUpdates DEF TypeOK
    <2>3. ApprovalsTyped(approvals')
      BY <2>1, <2>2 DEF TypeOK, ApprovalsTyped
    <2>4. /\ status' = Requeued({r})
          /\ UNCHANGED <<owner, leaseLive, overdue, steps, ledger, cancelling,
                         pc, run, txVars, crashes>>
      BY <1>21 DEF Decide
    <2> QED BY <2>3, <2>4, SweptTyped DEF TypeOK, ApprovalsTyped
  <1>22. ASSUME NEW r \in Runs, CancelRead(r) PROVE TypeOK'
    BY <1>22 DEF CancelRead, TypeOK
  <1>23. ASSUME NEW r \in Runs, CancelWrite(r) PROVE TypeOK'
    <2>1. \A c \in DOMAIN approvals[r] : [approvals[r][c] EXCEPT !.status = "expired"] \in Approval
      BY ApprovalUpdates DEF TypeOK
    <2>2. /\ DOMAIN Close(approvals[r]) = DOMAIN approvals[r]
          /\ \A c \in DOMAIN approvals[r] : Close(approvals[r])[c] \in Approval
      BY <2>1 DEF Close, TypeOK
    <2>3. ApprovalsTyped(approvals')
      BY <1>23, <2>2 DEF CancelWrite, TypeOK, ApprovalsTyped
    <2> QED BY <1>23, <2>3 DEF CancelWrite, Finish, TypeOK, Statuses, Ended, ApprovalsTyped
  <1>24. CASE ListApprovals
    BY <1>24, SweptTyped DEF ListApprovals, TypeOK, ApprovalsTyped
  <1>25. CASE UNCHANGED vars
    BY <1>25 DEF vars, TypeOK
  <1> QED
    BY <1>1, <1>2, <1>3, <1>4, <1>5, <1>6, <1>7, <1>8, <1>9, <1>10, <1>11, <1>12, <1>13,
       <1>14, <1>15, <1>16, <1>17, <1>18, <1>19, <1>20, <1>21, <1>22, <1>23, <1>24, <1>25
    DEF Next, WorkerStep

(* The row and the records of r stay as they are.                            *)
Quiet(r) ==
  status'[r] = status[r] /\ owner'[r] = owner[r] /\ steps'[r] = steps[r] /\ ledger'[r] = ledger[r]
(* A parked run is requeued: by a decision or by the sweep.                  *)
Woken(r) ==
  status[r] = "awaiting_approval" /\ steps'[r] = steps[r] /\ ledger'[r] = ledger[r]
    /\ status'[r] = "queued"
(* An open run that nobody is settling gets another row, and no records: a   *)
(* claim, or a holder that renews, parks or lets go.                         *)
Leased(r) ==
  ~Locked(r) /\ status[r] \notin Ended /\ steps'[r] = steps[r] /\ ledger'[r] = ledger[r]
(* A run that nobody is settling is ended, without records: a cancellation,  *)
(* a ceiling, a failure.                                                     *)
Cut(r) ==
  ~Locked(r) /\ status'[r] \in Ended /\ steps'[r] = steps[r] /\ ledger'[r] = ledger[r]
(* The worker that holds the lease of the running r extends its log.         *)
Written(r, w) ==
  /\ run[w] = r /\ Holds(w, r) /\ pc[w] # "idle" /\ pc'[w] # pc[w]
  /\ ~Locked(r) \/ pc[w] = "settling"
  /\ Extends(steps[r], steps'[r])

(* All that a step can do to the row and the records of one run.             *)
RowMoves(r) ==
  Quiet(r) \/ Woken(r) \/ Leased(r) \/ Cut(r) \/ \E w \in Workers : Written(r, w)

(* Requeueing a set of runs wakes the parked ones among them and leaves the  *)
(* others.                                                                   *)
LEMMA RequeuedMoves ==
  ASSUME TypeOK, NEW R, NEW r \in Runs
  PROVE  \/ Requeued(R)[r] = status[r]
         \/ status[r] = "awaiting_approval" /\ Requeued(R)[r] = "queued"
  BY DEF Requeued

(* A step does to each run one of the five things above: one case for each   *)
(* action.                                                                   *)
LEMMA RowStep ==
  ASSUME IInv, [Next]_vars, NEW r \in Runs
  PROVE  RowMoves(r)
  <1>0. TypeOK
    BY DEF IInv
  <1> USE <1>0 DEF dbVars, txVars
  <1>l. \A log \in Seq(Step) : Extends(log, log)
    BY DEF Extends
  <1>1. ASSUME NEW w \in Workers, Poll(w) PROVE RowMoves(r)
    <2>1. UNCHANGED <<steps, ledger>>
      BY <1>1 DEF Poll
    <2>2. CASE status' = Requeued(StaleRuns) /\ UNCHANGED owner
      BY <2>1, <2>2, RequeuedMoves DEF RowMoves, Quiet, Woken
    <2>3. ASSUME NEW c \in Claimable, status' = [Requeued(StaleRuns) EXCEPT ![c] = "running"],
                 owner' = [owner EXCEPT ![c] = w]
          PROVE  RowMoves(r)
      <3>1. CASE r = c
        <4>1. ~Locked(r) /\ Requeued(StaleRuns)[r] \in {"queued", "running"}
          BY <2>3, <3>1 DEF Claimable
        <4>2. status[r] \notin Ended
          BY <4>1, RequeuedMoves DEF Ended
        <4> QED BY <2>1, <4>1, <4>2 DEF RowMoves, Leased
      <3>2. CASE r # c
        <4>1. status'[r] = Requeued(StaleRuns)[r] /\ owner'[r] = owner[r]
          BY <2>3, <3>2, SweptTyped DEF TypeOK
        <4> QED BY <2>1, <4>1, RequeuedMoves DEF RowMoves, Quiet, Woken
      <3> QED BY <3>1, <3>2
    <2> QED BY <1>1, <2>2, <2>3 DEF Poll
  <1>2. ASSUME NEW w \in Workers, LoseLease(w) PROVE RowMoves(r)
    BY <1>2 DEF LoseLease, RowMoves, Quiet
  <1>3. ASSUME NEW w \in Workers, Exhaust(w) PROVE RowMoves(r)
    BY <1>3 DEF Exhaust, MayAskModel, Finish, RowMoves, Quiet, Cut, Ended, TypeOK
  <1>4. ASSUME NEW w \in Workers, AskModel(w) PROVE RowMoves(r)
    <2>1. steps[run[w]] \in Seq(Step) /\ run[w] \in Runs /\ Notice \in Step
      BY <1>4, StepTypes DEF AskModel, MayAskModel, TypeOK
    <2>2. Extends(steps[run[w]], Append(steps[run[w]], Notice))
      BY <2>1, AppendExtends
    <2>3. Extends(steps[run[w]], steps'[run[w]]) /\ \A s \in Runs \ {run[w]} : steps'[s] = steps[s]
      BY <1>4, <1>l, <2>1, <2>2 DEF AskModel, TypeOK
    <2>4. /\ ~Locked(run[w]) /\ Holds(w, run[w]) /\ pc[w] = "top" /\ pc'[w] = "model"
          /\ UNCHANGED <<status, owner, ledger>>
      BY <1>4 DEF AskModel, MayAskModel, Renewed, GoTo, TypeOK
    <2> QED BY <2>1, <2>3, <2>4 DEF RowMoves, Quiet, Written
  <1>5. ASSUME NEW w \in Workers, RecordReply(w) PROVE RowMoves(r)
    <2>1. steps[run[w]] \in Seq(Step) /\ run[w] \in Runs
      BY <1>5 DEF RecordReply, TypeOK
    <2>2. \E log \in Seq(Step) : /\ Extends(steps[run[w]], log)
                                 /\ steps' = [steps EXCEPT ![run[w]] = log]
      <3>1. ASSUME NEW reply \in Replies
            PROVE  /\ Append(steps[run[w]], ModelCall(reply)) \in Seq(Step)
                   /\ Extends(steps[run[w]], Append(steps[run[w]], ModelCall(reply)))
                   /\ steps[run[w]] \o <<ModelCall(reply), Final>> \in Seq(Step)
                   /\ Extends(steps[run[w]], steps[run[w]] \o <<ModelCall(reply), Final>>)
        <4>1. ModelCall(reply) \in Step /\ Final \in Step
          BY CallsAssumption, StepTypes
        <4>2. <<ModelCall(reply), Final>> \in Seq(Step)
          BY <4>1
        <4> QED BY <2>1, <4>1, <4>2, AppendExtends DEF Extends
      <3> QED BY <1>5, <3>1 DEF RecordReply
    <2>3. /\ ~Locked(run[w]) /\ Holds(w, run[w]) /\ pc[w] = "model" /\ pc'[w] # "model"
          /\ UNCHANGED ledger
          /\ \A s \in Runs \ {run[w]} : status'[s] = status[s] /\ owner'[s] = owner[s]
      BY <1>5, <2>1 DEF RecordReply, Renewed, Finish, GoTo, GoIdle, TypeOK
    <2>4. /\ Extends(steps[run[w]], steps'[run[w]])
          /\ \A s \in Runs \ {run[w]} : steps'[s] = steps[s]
      BY <2>1, <2>2 DEF TypeOK
    <2> QED BY <2>1, <2>3, <2>4 DEF RowMoves, Quiet, Written
  <1>6. ASSUME NEW w \in Workers, RecordRefusal(w) PROVE RowMoves(r)
    <2>1. steps[run[w]] \in Seq(Step) /\ run[w] \in Runs
      BY <1>6 DEF RecordRefusal, TypeOK
    <2>2. \E log \in Seq(Step) : /\ Extends(steps[run[w]], log)
                                 /\ steps' = [steps EXCEPT ![run[w]] = log]
      <3>1. PICK partial \in Replies \cup {<<>>} :
              steps' = [steps EXCEPT ![run[w]] = Append(steps[run[w]], ModelCall(partial))]
        BY <1>6 DEF RecordRefusal
      <3>2. partial \in Seq(Actions)
        <4>1. <<>> \in Seq(Actions)
          OBVIOUS
        <4>2. Replies \subseteq Seq(Actions)
          BY CallsAssumption
        <4> QED BY <3>1, <4>1, <4>2
      <3>3. ModelCall(partial) \in Step
        BY <3>2, StepTypes
      <3> QED BY <2>1, <3>1, <3>3, AppendExtends
    <2>3. /\ ~Locked(run[w]) /\ Holds(w, run[w]) /\ pc[w] = "model" /\ pc'[w] # "model"
          /\ UNCHANGED ledger
          /\ \A s \in Runs \ {run[w]} : status'[s] = status[s] /\ owner'[s] = owner[s]
      BY <1>6, <2>1 DEF RecordRefusal, Renewed, Finish, GoTo, GoIdle, TypeOK
    <2>4. /\ Extends(steps[run[w]], steps'[run[w]])
          /\ \A s \in Runs \ {run[w]} : steps'[s] = steps[s]
      BY <2>1, <2>2 DEF TypeOK
    <2> QED BY <2>1, <2>3, <2>4 DEF RowMoves, Quiet, Written
  <1>7. ASSUME NEW w \in Workers, ProviderError(w) PROVE RowMoves(r)
    BY <1>7 DEF ProviderError, MayAskModel, Finish, RowMoves, Quiet, Cut, Ended, TypeOK
  <1>8. ASSUME NEW w \in Workers, BeginSettle(w) PROVE RowMoves(r)
    BY <1>8 DEF BeginSettle, RowMoves, Quiet
  <1>9. ASSUME NEW w \in Workers, RefuseCall(w) PROVE RowMoves(r)
    BY <1>9 DEF RefuseCall, RowMoves, Quiet
  <1>10. ASSUME NEW w \in Workers, AskPerson(w) PROVE RowMoves(r)
    BY <1>10 DEF AskPerson, RowMoves, Quiet
  <1>11. ASSUME NEW w \in Workers, RecordDenial(w) PROVE RowMoves(r)
    BY <1>11 DEF RecordDenial, RowMoves, Quiet
  <1>12. ASSUME NEW w \in Workers, RunCall(w) PROVE RowMoves(r)
    BY <1>12 DEF RunCall, RowMoves, Quiet
  <1>13. ASSUME NEW w \in Workers, CommitTurn(w) PROVE RowMoves(r)
    <2>1. /\ run[w] \in Runs /\ pc[w] = "settling" /\ pc'[w] # "settling" /\ Holds(w, run[w])
          /\ txSteps[w] \in Seq(Step) /\ steps[run[w]] \in Seq(Step)
      BY <1>13 DEF CommitTurn, Runnable, Reaches, IsNext, GoIdle, GoTo, IInv, SettlerHolds, TypeOK
    <2>2. Commit(w, txSteps[w]) /\ Extends(steps[run[w]], txSteps[w])
      BY <1>13 DEF CommitTurn, IInv, SettlerExtends
    <2>3. \A s \in Runs \ {run[w]} : status'[s] = status[s] /\ owner'[s] = owner[s]
      BY <1>13 DEF CommitTurn, Suspend, Renewed, TypeOK
    <2>4. /\ Extends(steps[run[w]], steps'[run[w]])
          /\ \A s \in Runs \ {run[w]} : steps'[s] = steps[s] /\ ledger'[s] = ledger[s]
      BY <2>1, <2>2 DEF Commit, TypeOK
    <2> QED BY <2>1, <2>3, <2>4 DEF RowMoves, Quiet, Woken, Written
  <1>14. ASSUME NEW w \in Workers, EndUnanswered(w) PROVE RowMoves(r)
    <2>1. /\ run[w] \in Runs /\ pc[w] = "settling" /\ pc'[w] # "settling" /\ Holds(w, run[w])
          /\ txSteps[w] \in Seq(Step) /\ steps[run[w]] \in Seq(Step)
      BY <1>14 DEF EndUnanswered, Runnable, Reaches, IsNext, GoIdle, GoTo, IInv, SettlerHolds, TypeOK
    <2>2. Commit(w, txSteps[w]) /\ Extends(steps[run[w]], txSteps[w])
      BY <1>14, <2>1 DEF EndUnanswered, IInv, SettlerExtends
    <2>3. \A s \in Runs \ {run[w]} :
            /\ owner'[s] = owner[s]
            /\ \/ status'[s] = status[s]
               \/ status[s] = "awaiting_approval" /\ status'[s] = "queued"
      <3>1. PICK R : /\ status' = [Requeued(R) EXCEPT ![run[w]] = "failed"]
                     /\ owner' = [owner EXCEPT ![run[w]] = NoWorker]
        BY <1>14 DEF EndUnanswered
      <3>2. \A s \in Runs \ {run[w]} : status'[s] = Requeued(R)[s] /\ owner'[s] = owner[s]
        BY <3>1, SweptTyped DEF TypeOK
      <3> QED BY <3>2, RequeuedMoves
    <2>4. /\ Extends(steps[run[w]], steps'[run[w]])
          /\ \A s \in Runs \ {run[w]} : steps'[s] = steps[s] /\ ledger'[s] = ledger[s]
      BY <2>1, <2>2 DEF Commit, TypeOK
    <2> QED BY <2>1, <2>3, <2>4 DEF RowMoves, Quiet, Woken, Written
  <1>15. ASSUME NEW w \in Workers, HandlerError(w) PROVE RowMoves(r)
    <2>1. /\ run[w] \in Runs /\ pc[w] = "settling" /\ pc'[w] # "settling" /\ Holds(w, run[w])
          /\ txSteps[w] \in Seq(Step) /\ steps[run[w]] \in Seq(Step)
      BY <1>15 DEF HandlerError, Runnable, Reaches, IsNext, GoIdle, GoTo, IInv, SettlerHolds, TypeOK
    <2>2. \E log \in Seq(Step) : Commit(w, log) /\ Extends(steps[run[w]], log)
      <3>1. PICK c \in todo[w] : Commit(w, Append(txSteps[w], ToolResult(c, TRUE)))
        BY <1>15 DEF HandlerError
      <3>2. ToolResult(c, TRUE) \in Step
        BY <3>1, StepTypes DEF TypeOK
      <3>3. /\ Append(txSteps[w], ToolResult(c, TRUE)) \in Seq(Step)
            /\ Extends(txSteps[w], Append(txSteps[w], ToolResult(c, TRUE)))
        BY <2>1, <3>2, AppendExtends
      <3>4. Extends(steps[run[w]], txSteps[w])
        BY <2>1 DEF IInv, SettlerExtends
      <3>5. Extends(steps[run[w]], Append(txSteps[w], ToolResult(c, TRUE)))
        BY <2>1, <3>3, <3>4, ExtendsTransitive
      <3> QED BY <3>1, <3>3, <3>5
    <2>3. \A s \in Runs \ {run[w]} : status'[s] = status[s] /\ owner'[s] = owner[s]
      BY <1>15 DEF HandlerError, Finish, TypeOK
    <2>4. /\ Extends(steps[run[w]], steps'[run[w]])
          /\ \A s \in Runs \ {run[w]} : steps'[s] = steps[s] /\ ledger'[s] = ledger[s]
      BY <2>1, <2>2 DEF Commit, TypeOK
    <2> QED BY <2>1, <2>3, <2>4 DEF RowMoves, Quiet, Woken, Written
  <1>16. ASSUME NEW w \in Workers, DatabaseError(w) PROVE RowMoves(r)
    BY <1>16 DEF DatabaseError, RowMoves, Quiet
  <1>17. ASSUME NEW w \in Workers, Crash(w) PROVE RowMoves(r)
    BY <1>17 DEF Crash, RowMoves, Quiet
  <1>18. ASSUME NEW x \in Runs, LeaseExpires(x) PROVE RowMoves(r)
    BY <1>18 DEF LeaseExpires, RowMoves, Quiet
  <1>19. ASSUME NEW x \in Runs, CeilingReached(x) PROVE RowMoves(r)
    BY <1>19 DEF CeilingReached, RowMoves, Quiet
  <1>20. ASSUME NEW x \in Runs, ApprovalTimesOut(x) PROVE RowMoves(r)
    BY <1>20 DEF ApprovalTimesOut, RowMoves, Quiet
  <1>21. ASSUME NEW x \in Runs, Decide(x) PROVE RowMoves(r)
    BY <1>21, RequeuedMoves DEF Decide, RowMoves, Quiet, Woken
  <1>22. ASSUME NEW x \in Runs, CancelRead(x) PROVE RowMoves(r)
    BY <1>22 DEF CancelRead, RowMoves, Quiet
  <1>23. ASSUME NEW x \in Runs, CancelWrite(x) PROVE RowMoves(r)
    BY <1>23 DEF CancelWrite, Finish, RowMoves, Quiet, Cut, Ended, TypeOK
  <1>24. CASE ListApprovals
    BY <1>24, RequeuedMoves DEF ListApprovals, RowMoves, Quiet, Woken
  <1>25. CASE UNCHANGED vars
    BY <1>25 DEF vars, RowMoves, Quiet
  <1> QED
    BY <1>1, <1>2, <1>3, <1>4, <1>5, <1>6, <1>7, <1>8, <1>9, <1>10, <1>11, <1>12, <1>13,
       <1>14, <1>15, <1>16, <1>17, <1>18, <1>19, <1>20, <1>21, <1>22, <1>23, <1>24, <1>25
    DEF Next, WorkerStep

(* The worker w stays where it is, with its open transaction.                *)
Same(w) ==
  /\ pc'[w] = pc[w] /\ run'[w] = run[w] /\ txSteps'[w] = txSteps[w]
  /\ todo'[w] = todo[w] /\ txAsks'[w] = txAsks[w]
(* w moves between places that have no open transaction.                     *)
Outside(w) ==
  /\ pc[w] # "settling" /\ pc'[w] # "settling"
  /\ todo'[w] = todo[w] /\ txAsks'[w] = txAsks[w]
(* w settles one call inside its transaction, and no row changes.            *)
SettlesACall(w) ==
  /\ pc[w] = "settling" /\ pc'[w] = pc[w] /\ run'[w] = run[w]
  /\ Extends(txSteps[w], txSteps'[w])
  /\ todo'[w] \subseteq todo[w] /\ txAsks'[w] \subseteq txAsks[w] \cup todo[w]
  /\ \A r \in Runs : Quiet(r)
(* w is no longer settling.                                                  *)
Leaves(w) ==
  pc'[w] # "settling" /\ todo'[w] = {} /\ txAsks'[w] = {}

(* All that a step can do to one worker.                                     *)
WorkerMoves(w) ==
  Same(w) \/ Outside(w) \/ BeginSettle(w) \/ SettlesACall(w) \/ Leaves(w)

(* A step does to each worker one of the four things above, or opens its     *)
(* transaction: one case for each action.                                    *)
LEMMA WorkerMovesStep ==
  ASSUME IInv, [Next]_vars, NEW w \in Workers
  PROVE  WorkerMoves(w)
  <1>0. TypeOK
    BY DEF IInv
  <1> USE <1>0 DEF dbVars, txVars
  <1>1. ASSUME NEW v \in Workers, Poll(v) PROVE WorkerMoves(w)
    BY <1>1 DEF Poll, MayAskModel, GoTo, GoIdle, WorkerMoves, Same, Outside, TypeOK
  <1>2. ASSUME NEW v \in Workers, LoseLease(v) PROVE WorkerMoves(w)
    BY <1>2 DEF LoseLease, MayAskModel, GoTo, GoIdle, WorkerMoves, Same, Outside, TypeOK
  <1>3. ASSUME NEW v \in Workers, Exhaust(v) PROVE WorkerMoves(w)
    BY <1>3 DEF Exhaust, MayAskModel, GoTo, GoIdle, WorkerMoves, Same, Outside, TypeOK
  <1>4. ASSUME NEW v \in Workers, AskModel(v) PROVE WorkerMoves(w)
    BY <1>4 DEF AskModel, MayAskModel, GoTo, GoIdle, WorkerMoves, Same, Outside, TypeOK
  <1>5. ASSUME NEW v \in Workers, RecordReply(v) PROVE WorkerMoves(w)
    BY <1>5 DEF RecordReply, MayAskModel, GoTo, GoIdle, WorkerMoves, Same, Outside, TypeOK
  <1>6. ASSUME NEW v \in Workers, RecordRefusal(v) PROVE WorkerMoves(w)
    BY <1>6 DEF RecordRefusal, MayAskModel, GoTo, GoIdle, WorkerMoves, Same, Outside, TypeOK
  <1>7. ASSUME NEW v \in Workers, ProviderError(v) PROVE WorkerMoves(w)
    BY <1>7 DEF ProviderError, MayAskModel, GoTo, GoIdle, WorkerMoves, Same, Outside, TypeOK
  <1>8. ASSUME NEW v \in Workers, BeginSettle(v) PROVE WorkerMoves(w)
    BY <1>8 DEF BeginSettle, GoTo, WorkerMoves, Same, TypeOK
  <1>9. ASSUME NEW v \in Workers, RefuseCall(v) PROVE WorkerMoves(w)
    <2>1. PICK c \in todo[v] : \E step \in Step : pc[v] = "settling" /\ SettleWith(v, c, step)
      BY <1>9, StepTypes DEF RefuseCall, Reaches, IsNext, TypeOK
    <2>2. txSteps[v] \in Seq(Step) /\ Extends(txSteps[v], txSteps'[v])
      BY <2>1, AppendExtends DEF SettleWith, TypeOK
    <2>3. UNCHANGED <<dbVars, pc, run, txAsks>>
      BY <1>9 DEF RefuseCall
    <2> QED BY <2>1, <2>2, <2>3 DEF SettleWith, WorkerMoves, Same, SettlesACall, Quiet, TypeOK
  <1>10. ASSUME NEW v \in Workers, AskPerson(v) PROVE WorkerMoves(w)
    <2>1. txSteps[v] \in Seq(Step) /\ pc[v] = "settling"
      BY <1>10 DEF AskPerson, Reaches, IsNext, TypeOK
    <2>2. Extends(txSteps[v], txSteps[v])
      BY <2>1 DEF Extends
    <2> QED BY <1>10, <2>1, <2>2 DEF AskPerson, WorkerMoves, Same, SettlesACall, Quiet, TypeOK
  <1>11. ASSUME NEW v \in Workers, RecordDenial(v) PROVE WorkerMoves(w)
    <2>1. PICK c \in todo[v] : \E step \in Step : pc[v] = "settling" /\ SettleWith(v, c, step)
      BY <1>11, StepTypes DEF RecordDenial, Reaches, IsNext, TypeOK
    <2>2. txSteps[v] \in Seq(Step) /\ Extends(txSteps[v], txSteps'[v])
      BY <2>1, AppendExtends DEF SettleWith, TypeOK
    <2>3. UNCHANGED <<dbVars, pc, run, txAsks>>
      BY <1>11 DEF RecordDenial
    <2> QED BY <2>1, <2>2, <2>3 DEF SettleWith, WorkerMoves, Same, SettlesACall, Quiet, TypeOK
  <1>12. ASSUME NEW v \in Workers, RunCall(v) PROVE WorkerMoves(w)
    <2>1. PICK c \in todo[v] : \E step \in Step : pc[v] = "settling" /\ SettleWith(v, c, step)
      BY <1>12, StepTypes DEF RunCall, Runnable, Reaches, IsNext, TypeOK
    <2>2. txSteps[v] \in Seq(Step) /\ Extends(txSteps[v], txSteps'[v])
      BY <2>1, AppendExtends DEF SettleWith, TypeOK
    <2>3. UNCHANGED <<dbVars, pc, run, txAsks>>
      BY <1>12 DEF RunCall
    <2> QED BY <2>1, <2>2, <2>3 DEF SettleWith, WorkerMoves, Same, SettlesACall, Quiet, TypeOK
  <1>13. ASSUME NEW v \in Workers, CommitTurn(v) PROVE WorkerMoves(w)
    <2>1. ClearTx(v) /\ (GoIdle(v) \/ GoTo(v, "top"))
      BY <1>13 DEF CommitTurn
    <2> QED BY <2>1 DEF ClearTx, GoIdle, GoTo, WorkerMoves, Same, Leaves, TypeOK
  <1>14. ASSUME NEW v \in Workers, EndUnanswered(v) PROVE WorkerMoves(w)
    <2>1. ClearTx(v) /\ GoIdle(v)
      BY <1>14 DEF EndUnanswered
    <2> QED BY <2>1 DEF ClearTx, GoIdle, WorkerMoves, Same, Leaves, TypeOK
  <1>15. ASSUME NEW v \in Workers, HandlerError(v) PROVE WorkerMoves(w)
    <2>1. ClearTx(v) /\ GoIdle(v)
      BY <1>15 DEF HandlerError
    <2> QED BY <2>1 DEF ClearTx, GoIdle, WorkerMoves, Same, Leaves, TypeOK
  <1>16. ASSUME NEW v \in Workers, DatabaseError(v) PROVE WorkerMoves(w)
    <2>1. ClearTx(v) /\ GoIdle(v)
      BY <1>16 DEF DatabaseError
    <2> QED BY <2>1 DEF ClearTx, GoIdle, WorkerMoves, Same, Leaves, TypeOK
  <1>17. ASSUME NEW v \in Workers, Crash(v) PROVE WorkerMoves(w)
    <2>1. ClearTx(v) /\ GoIdle(v)
      BY <1>17 DEF Crash
    <2> QED BY <2>1 DEF ClearTx, GoIdle, WorkerMoves, Same, Leaves, TypeOK
  <1>18. ASSUME NEW r \in Runs, LeaseExpires(r) PROVE WorkerMoves(w)
    BY <1>18 DEF LeaseExpires, WorkerMoves, Same
  <1>19. ASSUME NEW r \in Runs, CeilingReached(r) PROVE WorkerMoves(w)
    BY <1>19 DEF CeilingReached, WorkerMoves, Same
  <1>20. ASSUME NEW r \in Runs, ApprovalTimesOut(r) PROVE WorkerMoves(w)
    BY <1>20 DEF ApprovalTimesOut, WorkerMoves, Same
  <1>21. ASSUME NEW r \in Runs, Decide(r) PROVE WorkerMoves(w)
    BY <1>21 DEF Decide, WorkerMoves, Same
  <1>22. ASSUME NEW r \in Runs, CancelRead(r) PROVE WorkerMoves(w)
    BY <1>22 DEF CancelRead, WorkerMoves, Same
  <1>23. ASSUME NEW r \in Runs, CancelWrite(r) PROVE WorkerMoves(w)
    BY <1>23 DEF CancelWrite, WorkerMoves, Same
  <1>24. CASE ListApprovals
    BY <1>24 DEF ListApprovals, WorkerMoves, Same
  <1>25. CASE UNCHANGED vars
    BY <1>25 DEF vars, WorkerMoves, Same
  <1> QED
    BY <1>1, <1>2, <1>3, <1>4, <1>5, <1>6, <1>7, <1>8, <1>9, <1>10, <1>11, <1>12, <1>13,
       <1>14, <1>15, <1>16, <1>17, <1>18, <1>19, <1>20, <1>21, <1>22, <1>23, <1>24, <1>25
    DEF Next, WorkerStep

(* The row of a run that is being settled stays as it is until its worker is done. *)
LEMMA SettledRowIsQuiet ==
  ASSUME IInv, [Next]_vars, NEW w \in Workers, pc[w] = "settling", pc'[w] = "settling"
  PROVE  Quiet(run[w])
  <1>1. run[w] \in Runs /\ Holds(w, run[w]) /\ Locked(run[w])
    BY DEF IInv, TypeOK, SettlerHolds, Locked
  <1>2. ASSUME NEW v \in Workers, Written(run[w], v) PROVE FALSE
    BY <1>1, <1>2 DEF Written, Holds
  <1> QED BY <1>1, <1>2, RowStep DEF RowMoves, Woken, Leased, Cut, Holds

(* A settling worker keeps its lease, and its transaction keeps extending the log. *)
LEMMA SettlerStep ==
  ASSUME IInv, [Next]_vars, NEW w \in Workers
  PROVE  (SettlerHolds(w) /\ SettlerExtends(w))'
  <1>0. TypeOK /\ TypeOK' /\ SettlerHolds(w) /\ SettlerExtends(w)
    BY TypeStep DEF IInv
  <1>1. CASE BeginSettle(w)
    <2>1. /\ run[w] \in Runs /\ steps[run[w]] \in Seq(Step)
          /\ pc[w] # "settling" /\ pc'[w] = "settling" /\ run'[w] = run[w]
          /\ txSteps'[w] = steps[run[w]] /\ todo'[w] = Unresolved(steps[run[w]])
          /\ txAsks'[w] = txAsks[w]
          /\ steps' = steps /\ status' = status /\ owner' = owner /\ Holds(w, run[w])
      BY <1>0, <1>1 DEF BeginSettle, GoTo, dbVars, TypeOK
    <2>2. txAsks[w] = {}
      BY <1>0, <2>1 DEF SettlerExtends
    <2>3. Extends(steps[run[w]], steps[run[w]])
      BY <2>1 DEF Extends
    <2>4. \A c \in Unresolved(steps[run[w]]) : Proposed(steps[run[w]], c)
      BY <2>1, UnresolvedProposed
    <2>5. SettlerHolds(w)'
      BY <2>1 DEF SettlerHolds, Holds
    <2>6. SettlerExtends(w)'
      BY <2>1, <2>2, <2>3, <2>4 DEF SettlerExtends
    <2> QED BY <2>5, <2>6
  <1>2. CASE Same(w)
    <2>1. CASE pc[w] = "settling"
      BY <1>0, <1>2, <2>1, SettledRowIsQuiet DEF Same, Quiet, SettlerHolds, SettlerExtends, Holds
    <2>2. CASE pc[w] # "settling"
      BY <1>0, <1>2, <2>2 DEF Same, SettlerHolds, SettlerExtends
    <2> QED BY <2>1, <2>2
  <1>3. CASE Outside(w)
    BY <1>0, <1>3 DEF Outside, SettlerHolds, SettlerExtends
  <1>4. CASE SettlesACall(w)
    <2>1. /\ run[w] \in Runs /\ run'[w] = run[w] /\ Quiet(run[w])
          /\ pc[w] = "settling" /\ pc'[w] = "settling"
          /\ steps[run[w]] \in Seq(Step) /\ txSteps[w] \in Seq(Step) /\ txSteps'[w] \in Seq(Step)
      BY <1>0, <1>4 DEF SettlesACall, TypeOK
    <2>2. Extends(steps[run[w]], txSteps[w]) /\ Extends(txSteps[w], txSteps'[w])
      BY <1>0, <1>4, <2>1 DEF SettlerExtends, SettlesACall
    <2>3. Extends(steps[run[w]], txSteps'[w])
      BY <2>1, <2>2, ExtendsTransitive
    <2>4. ASSUME NEW c \in todo'[w] \cup txAsks'[w] PROVE Proposed(txSteps'[w], c)
      <3>1. c \in todo[w] \cup txAsks[w] /\ c \in CallIds
        BY <1>0, <1>4, <2>4 DEF SettlesACall, TypeOK
      <3>2. Proposed(txSteps[w], c)
        BY <1>0, <2>1, <3>1 DEF SettlerExtends
      <3> QED BY <2>1, <2>2, <3>1, <3>2, ProposedKept
    <2>5. SettlerHolds(w)'
      BY <1>0, <2>1 DEF SettlerHolds, Holds, Quiet
    <2>6. SettlerExtends(w)'
      BY <2>1, <2>3, <2>4 DEF SettlerExtends, Quiet
    <2> QED BY <2>5, <2>6
  <1>5. CASE Leaves(w)
    BY <1>5 DEF Leaves, SettlerHolds, SettlerExtends
  <1> QED BY <1>1, <1>2, <1>3, <1>4, <1>5, WorkerMovesStep DEF WorkerMoves

(* The inductive invariant holds: a worker inside a settling transaction has *)
(* the lease, and what it is about to commit extends the log it started from. *)
THEOREM SettlersHold == Spec => []IInv
  <1>1. IInv /\ [Next]_vars => IInv'
    <2> SUFFICES ASSUME IInv, [Next]_vars PROVE IInv'
      OBVIOUS
    <2> QED BY TypeStep, SettlerStep DEF IInv
  <1> QED BY InitIInv, <1>1, PTL DEF Spec

(* Every variable has its type, for any runs, workers and turns. *)
THEOREM TypesHold == Spec => []TypeOK
  <1>1. IInv => TypeOK
    BY DEF IInv
  <1> QED BY SettlersHold, <1>1, PTL

(* A run that has ended gets no step and no ledger row and does not open     *)
(* again, whatever slow workers, crashes and requests there are.              *)
THEOREM NothingAfterTheEndHolds == Spec => NothingAfterTheEnd
  <1>1. IInv /\ [Next]_vars =>
          [\A r \in Runs : status[r] \in Ended =>
             status'[r] \in Ended /\ steps'[r] = steps[r] /\ ledger'[r] = ledger[r]]_vars
    <2> SUFFICES ASSUME IInv, [Next]_vars, NEW r \in Runs, status[r] \in Ended
                 PROVE  status'[r] \in Ended /\ steps'[r] = steps[r] /\ ledger'[r] = ledger[r]
      OBVIOUS
    <2>1. ~Woken(r) /\ \A w \in Workers : ~Written(r, w)
      BY DEF Woken, Written, Holds, Ended
    <2> QED BY <2>1, RowStep DEF RowMoves, Quiet, Leased, Cut
  <1> QED BY SettlersHold, <1>1, PTL DEF Spec, NothingAfterTheEnd

(* Only the worker that holds a run's lease adds to its log, and nothing in  *)
(* the log is ever changed or taken back (renew_lease, append_step).          *)
THEOREM OnlyTheHolderWritesHolds == Spec => OnlyTheHolderWrites
  <1>1. IInv /\ [Next]_vars =>
          [\A r \in Runs : steps'[r] # steps[r] =>
             /\ \E w \in Workers : /\ run[w] = r /\ owner[r] = w /\ status[r] = "running"
                                   /\ pc[w] # "idle" /\ pc'[w] # pc[w]
             /\ \A j \in DOMAIN steps[r] :
                  j \in DOMAIN steps'[r] /\ steps'[r][j] = steps[r][j]]_vars
    <2> SUFFICES ASSUME IInv, [Next]_vars, NEW r \in Runs, steps'[r] # steps[r]
                 PROVE  /\ \E w \in Workers : /\ run[w] = r /\ owner[r] = w /\ status[r] = "running"
                                              /\ pc[w] # "idle" /\ pc'[w] # pc[w]
                        /\ \A j \in DOMAIN steps[r] :
                             j \in DOMAIN steps'[r] /\ steps'[r][j] = steps[r][j]
      OBVIOUS
    <2>1. PICK w \in Workers : Written(r, w)
      BY RowStep DEF RowMoves, Quiet, Woken, Leased, Cut
    <2>2. steps[r] \in Seq(Step) /\ steps'[r] \in Seq(Step)
      BY TypeStep DEF IInv, TypeOK
    <2>3. \A j \in DOMAIN steps[r] : j \in DOMAIN steps'[r] /\ steps'[r][j] = steps[r][j]
      BY <2>1, <2>2 DEF Written, Extends
    <2> QED BY <2>1, <2>3 DEF Written, Holds
  <1> QED BY SettlersHold, <1>1, PTL DEF Spec, OnlyTheHolderWrites

-----------------------------------------------------------------------------
(* Records. *)

(* The conversation of a log is well formed: TurnsAreAnswered, of one log.   *)
Ordered(log) ==
  /\ \A i, j \in Answers(log) : log[i].call = log[j].call => i = j
  /\ \A j \in Answers(log) : Proposed(log, log[j].call) /\ log[j].call[1] < j
                               /\ log[j].call[1] \in Turns(log)
  /\ \A k, m \in Turns(log) : m < k => CallsOf(log, m) \subseteq SettledIn(SubSeq(log, 1, k))

(* The rows are those of steps of the log: LedgerFollowsLog, of one record.  *)
Booked(log, rows) ==
  \A row \in rows :
    /\ row.seq \in DOMAIN log
    /\ log[row.seq].kind = "tool_result"
    /\ log[row.seq].ok = row.ok
    /\ Proposed(log, log[row.seq].call)
    /\ ActionOf(log, log[row.seq].call) = row.action
    /\ \A other \in rows : other.seq = row.seq => other = row

(* What needed a person has that person's consent: ConsentHolds, of one      *)
(* record.                                                                   *)
Needed(log, row) ==
  \/ row.action \in Irreversible
  \/ row.action \notin Reads /\ Tainted(SubSeq(log, 1, row.seq - 1))

Granted(table, c, a) ==
  c \in DOMAIN table /\ table[c].status = "approved" /\ table[c].action = a

Consented(log, rows, table) ==
  \A row \in rows : Needed(log, row) => Granted(table, log[row.seq].call, row.action)

Sound(log, rows, table) ==
  Ordered(log) /\ Booked(log, rows) /\ Consented(log, rows, table)

(* What w would commit is sound, it adds to the committed ledger, and it     *)
(* answers only calls that nobody has answered.                              *)
SettlerSound(w) ==
  pc[w] = "settling" =>
    /\ Sound(txSteps[w], txLedger[w], approvals[run[w]])
    /\ todo[w] \subseteq Unresolved(txSteps[w])
    /\ ledger[run[w]] \subseteq txLedger[w]

(* A worker that has asked the model and still holds the run finds, when the *)
(* answer comes, the log it asked about: every call answered.                *)
AskerWaits(w) ==
  pc[w] = "model" /\ owner[run[w]] = w => Unresolved(steps[run[w]]) = {}

(* The inductive invariant of the records.                                   *)
RInv ==
  /\ IInv
  /\ \A r \in Runs : Sound(steps[r], ledger[r], approvals[r])
  /\ \A w \in Workers : SettlerSound(w) /\ AskerWaits(w)
  /\ CancelClosesTheQueue

-----------------------------------------------------------------------------
(* What appending one step does to a record.                               *)

(* A log with one step more.                                                 *)
LEMMA Appended ==
  ASSUME NEW log \in Seq(Step), NEW s \in Step
  PROVE  /\ Append(log, s) \in Seq(Step)
         /\ Len(log) \in Nat
         /\ DOMAIN log = 1..Len(log)
         /\ DOMAIN Append(log, s) = 1..(Len(log) + 1)
         /\ \A j \in 1..Len(log) : Append(log, s)[j] = log[j]
         /\ Append(log, s)[Len(log) + 1] = s
         /\ Extends(log, Append(log, s))
  BY AppendExtends

(* A prefix of a log is the same prefix of every log that extends it.        *)
LEMMA PrefixKept ==
  ASSUME NEW a \in Seq(Step), NEW b \in Seq(Step), Extends(a, b), NEW n \in Int, n <= Len(a)
  PROVE  SubSeq(b, 1, n) = SubSeq(a, 1, n)
  <1>1. Len(a) \in Nat /\ Len(b) \in Nat /\ Len(a) <= Len(b)
    BY DEF Extends
  <1>2. \A j \in 1..n : b[j] = a[j]
    BY <1>1 DEF Extends
  <1>3. SubSeq(a, 1, n) = [j \in 1..n |-> a[j]] /\ SubSeq(b, 1, n) = [j \in 1..n |-> b[j]]
    BY <1>1
  <1> QED BY <1>2, <1>3

(* The whole log is its prefix of its own length.                            *)
LEMMA WholePrefix ==
  ASSUME NEW log \in Seq(Step)
  PROVE  SubSeq(log, 1, Len(log)) = log
  OBVIOUS

(* What a call does, and that it was proposed, stay true in a longer log.    *)
LEMMA ActionKept ==
  ASSUME NEW a \in Seq(Step), NEW b \in Seq(Step), Extends(a, b), NEW c, Proposed(a, c)
  PROVE  Proposed(b, c) /\ ActionOf(b, c) = ActionOf(a, c)
  <1>1. c[1] \in 1..Len(a) /\ c[1] \in 1..Len(b) /\ b[c[1]] = a[c[1]]
    BY DEF Proposed, Extends
  <1> QED BY <1>1 DEF Proposed, ActionOf

(* The steps of a log are steps: their calls can be enumerated.              *)
LEMMA StepsAreSteps ==
  ASSUME NEW log \in Seq(Step), NEW j \in DOMAIN log
  PROVE  /\ log[j] \in Step /\ j \in Nat /\ j >= 1 /\ j <= Len(log)
         /\ log[j].call \in CallIds /\ log[j].calls \in Seq(Actions)
         /\ log[j].call = <<log[j].call[1], log[j].call[2]>>
  <1>1. log[j] \in Step /\ j \in Nat /\ j >= 1 /\ j <= Len(log)
    OBVIOUS
  <1>2. log[j].call \in CallIds /\ log[j].calls \in Seq(Actions)
    BY <1>1 DEF Step
  <1> QED BY <1>1, <1>2 DEF CallIds

(* A call is unresolved if the last turn made it and nothing settled it.     *)
LEMMA UnresolvedCalls ==
  ASSUME NEW log, NEW c
  PROVE  c \in Unresolved(log) <=>
           (\E k \in LastTurn(log) : c \in CallsOf(log, k)) /\ c \notin SettledIn(log)
  BY DEF Unresolved

(* A notice or an ending adds neither a turn nor an answer.                  *)
LEMMA AsideMoves ==
  ASSUME NEW log \in Seq(Step), NEW s \in Step, s.kind \in {"notice", "final"}
  PROVE  /\ Turns(Append(log, s)) = Turns(log)
         /\ Answers(Append(log, s)) = Answers(log)
         /\ SettledIn(Append(log, s)) = SettledIn(log)
         /\ Unresolved(Append(log, s)) = Unresolved(log)
  <1> DEFINE new == Append(log, s)
  <1>1. /\ DOMAIN new = DOMAIN log \cup {Len(log) + 1}
        /\ \A j \in DOMAIN log : new[j] = log[j]
        /\ new[Len(log) + 1].kind \in {"notice", "final"}
    BY Appended
  <1> HIDE DEF new
  <1>2. Turns(new) = Turns(log)
    BY <1>1 DEF Turns
  <1>3. Answers(new) = Answers(log)
    BY <1>1 DEF Answers
  <1>4. Answers(log) \subseteq DOMAIN log /\ Turns(log) \subseteq DOMAIN log
    BY DEF Answers, Turns
  <1>5. SettledIn(new) = SettledIn(log)
    BY <1>1, <1>3, <1>4 DEF SettledIn, Answers
  <1>6. LastTurn(new) = LastTurn(log) /\ LastTurn(log) \subseteq DOMAIN log
    BY <1>2, <1>4 DEF LastTurn
  <1>7. \A k \in LastTurn(log) : CallsOf(new, k) = CallsOf(log, k)
    BY <1>1, <1>6 DEF CallsOf
  <1>8. Unresolved(new) = Unresolved(log)
    BY <1>5, <1>6, <1>7, UnresolvedCalls
  <1> QED BY <1>2, <1>3, <1>5, <1>8 DEF new

(* An answer settles its call and nothing else.                              *)
LEMMA AnswerMoves ==
  ASSUME NEW log \in Seq(Step), NEW s \in Step, s.kind \in {"tool_result", "approval"}
  PROVE  /\ Turns(Append(log, s)) = Turns(log)
         /\ Answers(Append(log, s)) = Answers(log) \cup {Len(log) + 1}
         /\ SettledIn(Append(log, s)) = SettledIn(log) \cup {s.call}
         /\ Unresolved(Append(log, s)) = Unresolved(log) \ {s.call}
  <1> DEFINE new == Append(log, s)
  <1>1. /\ DOMAIN new = DOMAIN log \cup {Len(log) + 1}
        /\ \A j \in DOMAIN log : new[j] = log[j]
        /\ new[Len(log) + 1] = s
        /\ Len(log) + 1 \notin DOMAIN log
    BY Appended
  <1> HIDE DEF new
  <1>2. Turns(new) = Turns(log)
    BY <1>1 DEF Turns
  <1>3. Answers(new) = Answers(log) \cup {Len(log) + 1}
    BY <1>1 DEF Answers
  <1>4. Answers(log) \subseteq DOMAIN log /\ Turns(log) \subseteq DOMAIN log
    BY DEF Answers, Turns
  <1>5. SettledIn(new) = SettledIn(log) \cup {s.call}
    BY <1>1, <1>3, <1>4 DEF SettledIn, Answers
  <1>6. LastTurn(new) = LastTurn(log) /\ LastTurn(log) \subseteq DOMAIN log
    BY <1>2, <1>4 DEF LastTurn
  <1>7. \A k \in LastTurn(log) : CallsOf(new, k) = CallsOf(log, k)
    BY <1>1, <1>6 DEF CallsOf
  <1>8. Unresolved(new) = Unresolved(log) \ {s.call}
    <2>1. \A c : c \in Unresolved(new) <=> c \in Unresolved(log) /\ c # s.call
      BY <1>5, <1>6, <1>7, UnresolvedCalls
    <2> QED BY <2>1
  <1> QED BY <1>2, <1>3, <1>5, <1>8 DEF new

(* A reply of the model opens a turn: its calls are the ones unresolved.     *)
LEMMA ReplyMoves ==
  ASSUME NEW log \in Seq(Step), NEW s \in Step, s.kind = "model_call"
  PROVE  /\ Turns(Append(log, s)) = Turns(log) \cup {Len(log) + 1}
         /\ Answers(Append(log, s)) = Answers(log)
         /\ SettledIn(Append(log, s)) = SettledIn(log)
         /\ LastTurn(Append(log, s)) = {Len(log) + 1}
         /\ Unresolved(Append(log, s)) \subseteq {<<Len(log) + 1, i>> : i \in DOMAIN s.calls}
  <1> DEFINE new == Append(log, s)
  <1>1. /\ DOMAIN new = DOMAIN log \cup {Len(log) + 1}
        /\ \A j \in DOMAIN log : new[j] = log[j] /\ j \in Nat /\ j <= Len(log)
        /\ new[Len(log) + 1] = s
        /\ Len(log) \in Nat
    BY Appended
  <1> HIDE DEF new
  <1>2. Turns(new) = Turns(log) \cup {Len(log) + 1}
    BY <1>1 DEF Turns
  <1>3. Answers(new) = Answers(log)
    BY <1>1 DEF Answers
  <1>4. Answers(log) \subseteq DOMAIN log /\ Turns(log) \subseteq DOMAIN log
    BY DEF Answers, Turns
  <1>5. SettledIn(new) = SettledIn(log)
    BY <1>1, <1>3, <1>4 DEF SettledIn, Answers
  <1>6. LastTurn(new) = {Len(log) + 1}
    <2>1. \A j \in Turns(new) : j <= Len(log) + 1
      BY <1>1, <1>2, <1>4
    <2>2. \A k \in Turns(new) : (\A j \in Turns(new) : j <= k) => k = Len(log) + 1
      BY <1>1, <1>2, <1>4
    <2> QED BY <1>2, <2>1, <2>2 DEF LastTurn
  <1>7. CallsOf(new, Len(log) + 1) = {<<Len(log) + 1, i>> : i \in DOMAIN s.calls}
    BY <1>1 DEF CallsOf
  <1>8. Unresolved(new) \subseteq {<<Len(log) + 1, i>> : i \in DOMAIN s.calls}
    BY <1>6, <1>7, UnresolvedCalls
  <1> QED BY <1>2, <1>3, <1>5, <1>6, <1>8 DEF new

(* A log with a turn has a last one.                                         *)
LEMMA SomeTurnIsLast ==
  ASSUME NEW log \in Seq(Step), NEW m \in Turns(log)
  PROVE  \E k \in LastTurn(log) : m <= k
  <1> DEFINE T == {n \in Nat : n <= Len(log) /\ Len(log) - n \in Turns(log)}
  <1>1. Turns(log) \subseteq Nat /\ Len(log) \in Nat /\ \A j \in Turns(log) : j <= Len(log)
    BY DEF Turns
  <1>2. Len(log) - m \in T
    BY <1>1
  <1>3. PICK n \in T : \A i \in T : ~(<<i, n>> \in OpToRel(<, Nat))
    BY <1>2, WFMin, NatLessThanWellFounded
  <1>4. \A i \in T : n <= i
    <2> TAKE i \in T
    <2>1. i \in Nat /\ n \in Nat /\ ~(i < n)
      BY <1>3 DEF OpToRel
    <2> QED BY <2>1
  <1>5. \A j \in Turns(log) : j <= Len(log) - n
    <2> TAKE j \in Turns(log)
    <2>1. Len(log) - j \in T
      BY <1>1
    <2> QED BY <1>1, <1>4, <2>1
  <1>6. Len(log) - n \in LastTurn(log)
    BY <1>5 DEF LastTurn
  <1> QED BY <1>5, <1>6

(* When nothing of the last turn is outstanding, every call of every turn is *)
(* settled.                                                                  *)
LEMMA AllTurnsSettled ==
  ASSUME NEW log \in Seq(Step), Ordered(log), Unresolved(log) = {}, NEW m \in Turns(log)
  PROVE  CallsOf(log, m) \subseteq SettledIn(log)
  <1>1. PICK k \in LastTurn(log) : m <= k
    BY SomeTurnIsLast
  <1>2. k \in Turns(log) /\ k \in DOMAIN log /\ m \in DOMAIN log
    BY <1>1 DEF LastTurn, Turns
  <1>3. CASE m = k
    <2>1. \A c \in CallsOf(log, k) : c \notin Unresolved(log)
      OBVIOUS
    <2> QED BY <1>1, <1>3, <2>1, UnresolvedCalls
  <1>4. CASE m < k
    <2>1. CallsOf(log, m) \subseteq SettledIn(SubSeq(log, 1, k))
      BY <1>2, <1>4 DEF Ordered
    <2>2. /\ DOMAIN SubSeq(log, 1, k) \subseteq DOMAIN log
          /\ \A j \in DOMAIN SubSeq(log, 1, k) : SubSeq(log, 1, k)[j] = log[j]
      BY <1>2
    <2>3. SettledIn(SubSeq(log, 1, k)) \subseteq SettledIn(log)
      BY <2>2 DEF SettledIn
    <2> QED BY <2>1, <2>3
  <1> QED BY <1>1, <1>2, <1>3, <1>4

(* The order of a conversation survives a notice or an ending.               *)
LEMMA AsideOrdered ==
  ASSUME NEW log \in Seq(Step), NEW s \in Step, s.kind \in {"notice", "final"}, Ordered(log)
  PROVE  Ordered(Append(log, s))
  <1> DEFINE new == Append(log, s)
  <1>1. /\ new \in Seq(Step) /\ Extends(log, new) /\ Len(log) \in Nat
        /\ \A j \in DOMAIN log : new[j] = log[j] /\ j \in Nat /\ j <= Len(log)
        /\ Turns(new) = Turns(log) /\ Answers(new) = Answers(log)
        /\ Answers(log) \subseteq DOMAIN log /\ Turns(log) \subseteq DOMAIN log
    BY Appended, AsideMoves DEF Answers, Turns
  <1> HIDE DEF new
  <1>2. \A i, j \in Answers(new) : new[i].call = new[j].call => i = j
    BY <1>1 DEF Ordered
  <1>3. ASSUME NEW j \in Answers(new)
        PROVE  Proposed(new, new[j].call) /\ new[j].call[1] < j /\ new[j].call[1] \in Turns(new)
    BY <1>1, ActionKept DEF Ordered
  <1>4. ASSUME NEW k \in Turns(new), NEW m \in Turns(new), m < k
        PROVE  CallsOf(new, m) \subseteq SettledIn(SubSeq(new, 1, k))
    <2>1. SubSeq(new, 1, k) = SubSeq(log, 1, k) /\ CallsOf(new, m) = CallsOf(log, m)
      BY <1>1, PrefixKept DEF CallsOf
    <2> QED BY <1>1, <1>4, <2>1 DEF Ordered
  <1>5. Ordered(new)
    BY <1>2, <1>3, <1>4 DEF Ordered
  <1> QED BY <1>5 DEF new

(* It survives the answer of a call that nobody has answered.                *)
LEMMA AnswerOrdered ==
  ASSUME NEW log \in Seq(Step), NEW s \in Step, s.kind \in {"tool_result", "approval"},
         s.call \in Unresolved(log), Ordered(log)
  PROVE  Ordered(Append(log, s))
  <1> DEFINE new == Append(log, s)
             n == Len(log) + 1
  <1>1. /\ new \in Seq(Step) /\ Extends(log, new) /\ Len(log) \in Nat
        /\ \A j \in DOMAIN log : new[j] = log[j] /\ j \in Nat /\ j < n
        /\ new[n] = s
        /\ Turns(new) = Turns(log) /\ Answers(new) = Answers(log) \cup {n}
        /\ Answers(log) \subseteq DOMAIN log /\ Turns(log) \subseteq DOMAIN log
    BY Appended, AnswerMoves DEF Answers, Turns
  <1>2. PICK k \in LastTurn(log) : s.call \in CallsOf(log, k) /\ s.call \notin SettledIn(log)
    BY UnresolvedCalls
  <1>3. k \in Turns(log) /\ s.call[1] = k /\ Proposed(log, s.call)
    BY <1>2, UnresolvedProposed DEF CallsOf, LastTurn
  <1>4. \A j \in Answers(log) : log[j].call # s.call
    BY <1>2 DEF SettledIn, Answers
  <1> HIDE DEF new, n
  <1>5. \A i, j \in Answers(new) : new[i].call = new[j].call => i = j
    BY <1>1, <1>4 DEF Ordered
  <1>6. ASSUME NEW j \in Answers(new)
        PROVE  Proposed(new, new[j].call) /\ new[j].call[1] < j /\ new[j].call[1] \in Turns(new)
    <2>1. CASE j = n
      BY <1>1, <1>3, <2>1, ActionKept
    <2>2. CASE j \in Answers(log)
      BY <1>1, <2>2, ActionKept DEF Ordered
    <2> QED BY <1>1, <2>1, <2>2
  <1>7. ASSUME NEW h \in Turns(new), NEW m \in Turns(new), m < h
        PROVE  CallsOf(new, m) \subseteq SettledIn(SubSeq(new, 1, h))
    <2>1. h \in Nat /\ h <= Len(log)
      BY <1>1 DEF n
    <2>2. SubSeq(new, 1, h) = SubSeq(log, 1, h) /\ CallsOf(new, m) = CallsOf(log, m)
      BY <1>1, <2>1, PrefixKept DEF CallsOf
    <2> QED BY <1>1, <1>7, <2>2 DEF Ordered
  <1>8. Ordered(new)
    BY <1>5, <1>6, <1>7 DEF Ordered
  <1> QED BY <1>8 DEF new

(* It survives a reply of the model to a log with every call answered.       *)
LEMMA ReplyOrdered ==
  ASSUME NEW log \in Seq(Step), NEW s \in Step, s.kind = "model_call",
         Unresolved(log) = {}, Ordered(log)
  PROVE  Ordered(Append(log, s))
  <1> DEFINE new == Append(log, s)
             n == Len(log) + 1
  <1>1. /\ new \in Seq(Step) /\ Extends(log, new) /\ Len(log) \in Nat
        /\ \A j \in DOMAIN log : new[j] = log[j] /\ j \in Nat /\ j < n
        /\ Turns(new) = Turns(log) \cup {n} /\ Answers(new) = Answers(log)
        /\ SettledIn(new) = SettledIn(log)
        /\ Answers(log) \subseteq DOMAIN log /\ Turns(log) \subseteq DOMAIN log
        /\ n = Len(new)
    BY Appended, ReplyMoves DEF Answers, Turns
  <1> HIDE DEF new
  <1>2. \A i, j \in Answers(new) : new[i].call = new[j].call => i = j
    BY <1>1 DEF Ordered
  <1>3. ASSUME NEW j \in Answers(new)
        PROVE  Proposed(new, new[j].call) /\ new[j].call[1] < j /\ new[j].call[1] \in Turns(new)
    BY <1>1, ActionKept DEF Ordered
  <1>4. ASSUME NEW h \in Turns(new), NEW m \in Turns(new), m < h
        PROVE  CallsOf(new, m) \subseteq SettledIn(SubSeq(new, 1, h))
    <2>1. m \in Turns(log) /\ CallsOf(new, m) = CallsOf(log, m)
      BY <1>1, <1>4 DEF CallsOf
    <2>2. CASE h = n
      BY <1>1, <2>1, <2>2, AllTurnsSettled, WholePrefix
    <2>3. CASE h \in Turns(log)
      <3>1. SubSeq(new, 1, h) = SubSeq(log, 1, h)
        BY <1>1, <2>3, PrefixKept
      <3> QED BY <1>4, <2>1, <2>3, <3>1 DEF Ordered
    <2> QED BY <1>1, <2>2, <2>3
  <1>5. Ordered(new)
    BY <1>2, <1>3, <1>4 DEF Ordered
  <1> QED BY <1>5 DEF new

(* Rows stay booked and consented when their log grows: what was needed at   *)
(* the time is read from a prefix that does not change.                      *)
LEMMA GrowthKeepsRows ==
  ASSUME NEW a \in Seq(Step), NEW b \in Seq(Step), Extends(a, b),
         NEW rows \in SUBSET LedgerRow, NEW table, Booked(a, rows), Consented(a, rows, table)
  PROVE  /\ Booked(b, rows)
         /\ Consented(b, rows, table)
         /\ \A row \in rows : b[row.seq] = a[row.seq]
  <1>1. ASSUME NEW row \in rows
        PROVE  row.seq \in DOMAIN b /\ b[row.seq] = a[row.seq] /\ row.seq \in Nat
    BY DEF Booked, Extends, LedgerRow
  <1>2. Booked(b, rows)
    BY <1>1, ActionKept DEF Booked
  <1>3. ASSUME NEW row \in rows, Needed(b, row)
        PROVE  Granted(table, b[row.seq].call, row.action)
    <2>1. SubSeq(b, 1, row.seq - 1) = SubSeq(a, 1, row.seq - 1)
      BY <1>1, PrefixKept DEF Booked
    <2>2. Needed(a, row)
      BY <1>3, <2>1 DEF Needed
    <2> QED BY <1>1, <2>2 DEF Consented
  <1> QED BY <1>1, <1>2, <1>3 DEF Consented

(* invoke's row for a call that has just been run belongs to the record, if  *)
(* the call needed nobody or has the consent it needed.                      *)
LEMMA RowAdded ==
  ASSUME NEW log \in Seq(Step), NEW c \in CallIds, NEW ok \in BOOLEAN,
         NEW rows \in SUBSET LedgerRow, NEW table,
         Proposed(log, c), Booked(log, rows), Consented(log, rows, table),
         (ActionOf(log, c) \in Irreversible \/ (Tainted(log) /\ ActionOf(log, c) \notin Reads))
           => Granted(table, c, ActionOf(log, c))
  PROVE  LET new == Append(log, ToolResult(c, ok))
             row == [seq |-> Len(log) + 1, action |-> ActionOf(log, c), ok |-> ok] IN
         /\ rows \subseteq Record(rows, row)
         /\ Booked(new, Record(rows, row))
         /\ Consented(new, Record(rows, row), table)
  <1> DEFINE new == Append(log, ToolResult(c, ok))
             n == Len(log) + 1
             row == [seq |-> n, action |-> ActionOf(log, c), ok |-> ok]
  <1>1. ToolResult(c, ok) \in Step
    BY StepTypes
  <1>2. /\ new \in Seq(Step) /\ Extends(log, new) /\ Len(log) \in Nat
        /\ n \in DOMAIN new /\ n \notin DOMAIN log
        /\ new[n].kind = "tool_result" /\ new[n].call = c /\ new[n].ok = ok
    BY <1>1, Appended DEF ToolResult
  <1>3. Proposed(new, c) /\ ActionOf(new, c) = ActionOf(log, c)
    BY <1>2, ActionKept
  <1>4. Booked(new, rows) /\ Consented(new, rows, table)
    BY <1>2, GrowthKeepsRows
  <1>5. \A old \in rows : old.seq # n
    BY <1>2 DEF Booked
  <1>6. row.seq = n /\ row.action = ActionOf(log, c) /\ row.ok = ok
    OBVIOUS
  <1>7. SubSeq(new, 1, n - 1) = log
    BY <1>2, PrefixKept, WholePrefix
  <1> HIDE DEF new, row
  <1>8. Record(rows, row) = rows \cup {row}
    BY <1>5, <1>6 DEF Record
  <1>9. Booked(new, rows \cup {row})
    BY <1>2, <1>3, <1>4, <1>5, <1>6 DEF Booked
  <1>10. Needed(new, row) => Granted(table, new[row.seq].call, row.action)
    BY <1>2, <1>6, <1>7 DEF Needed
  <1>11. Consented(new, rows \cup {row}, table)
    BY <1>4, <1>10 DEF Consented
  <1> QED BY <1>8, <1>9, <1>11 DEF new, row

(* A table in which no answer is taken back.                                 *)
GrantsKept(old, new) ==
  \A c \in DOMAIN old : /\ c \in DOMAIN new /\ new[c].action = old[c].action
                        /\ old[c].status = "approved" => new[c].status = "approved"

(* A record stays sound while people and the clock answer requests.          *)
LEMMA SoundForLater ==
  ASSUME NEW log, NEW rows, NEW old, NEW new, Sound(log, rows, old), GrantsKept(old, new)
  PROVE  Sound(log, rows, new)
  BY DEF Sound, Consented, Granted, GrantsKept

(* It stays sound when the loop notes something, when the model replies to a *)
(* log with every call answered, and when a call is answered without being   *)
(* run.                                                                      *)
LEMMA SoundGrows ==
  ASSUME NEW log \in Seq(Step), NEW s \in Step, NEW rows \in SUBSET LedgerRow, NEW table,
         Sound(log, rows, table),
         \/ s.kind \in {"notice", "final"}
         \/ s.kind = "model_call" /\ Unresolved(log) = {}
         \/ s.kind \in {"tool_result", "approval"} /\ s.call \in Unresolved(log)
  PROVE  Append(log, s) \in Seq(Step) /\ Sound(Append(log, s), rows, table)
  <1>1. Append(log, s) \in Seq(Step) /\ Extends(log, Append(log, s))
    BY Appended
  <1>2. Ordered(Append(log, s))
    BY AsideOrdered, ReplyOrdered, AnswerOrdered DEF Sound
  <1> QED BY <1>1, <1>2, GrowthKeepsRows DEF Sound

(* It stays sound when a call is run that needs nobody or has its consent.   *)
LEMMA SoundRun ==
  ASSUME NEW log \in Seq(Step), NEW c \in Unresolved(log), NEW ok \in BOOLEAN,
         NEW rows \in SUBSET LedgerRow, NEW table, Sound(log, rows, table),
         (ActionOf(log, c) \in Irreversible \/ (Tainted(log) /\ ActionOf(log, c) \notin Reads))
           => Granted(table, c, ActionOf(log, c))
  PROVE  LET row == [seq |-> Len(log) + 1, action |-> ActionOf(log, c), ok |-> ok] IN
         /\ rows \subseteq Record(rows, row)
         /\ Sound(Append(log, ToolResult(c, ok)), Record(rows, row), table)
  <1>1. c \in CallIds /\ Proposed(log, c)
    BY UnresolvedProposed
  <1>2. ToolResult(c, ok) \in Step /\ ToolResult(c, ok).kind = "tool_result" /\ ToolResult(c, ok).call = c
    BY <1>1, StepTypes DEF ToolResult
  <1>3. Ordered(Append(log, ToolResult(c, ok)))
    BY <1>2, AnswerOrdered DEF Sound
  <1> QED BY <1>1, <1>3, RowAdded DEF Sound

-----------------------------------------------------------------------------
(* What a step of the specification does to the records.                   *)

(* The committed records of r stay as they are.                              *)
RecordKept(r) == steps'[r] = steps[r] /\ ledger'[r] = ledger[r]
(* w says that a ceiling is near, and asks the model.                        *)
RecordNoted(r, w) ==
  /\ AskModel(w) /\ run[w] = r
  /\ steps'[r] = Append(steps[r], Notice) /\ ledger'[r] = ledger[r]
(* w, which holds r, records a reply of the model, and the ending if the     *)
(* reply is one: then the run is over.                                       *)
RecordReplied(r, w) ==
  /\ pc[w] = "model" /\ run[w] = r /\ owner[r] = w /\ status[r] = "running" /\ pc'[w] # "model"
  /\ ledger'[r] = ledger[r]
  /\ \E reply \in Replies \cup {<<>>} :
       /\ reply = <<>> => status'[r] \in Ended
       /\ \/ steps'[r] = Append(steps[r], ModelCall(reply))
          \/ /\ reply = <<>>
             /\ steps'[r] = Append(Append(steps[r], ModelCall(reply)), Final)
(* w commits its transaction, with one step more if a handler failed in it.  *)
RecordCommitted(r, w) ==
  /\ pc[w] = "settling" /\ run[w] = r /\ pc'[w] # "settling"
  /\ ledger'[r] = txLedger[w]
  /\ \/ steps'[r] = txSteps[w]
     \/ \E c \in todo[w] : steps'[r] = Append(txSteps[w], ToolResult(c, TRUE))

(* All that a step can do to the committed records of one run.               *)
RecordMoves(r) ==
  \/ RecordKept(r)
  \/ \E w \in Workers : RecordNoted(r, w) \/ RecordReplied(r, w) \/ RecordCommitted(r, w)

(* A finishing reply is appended as two steps.                               *)
LEMMA AppendTwice ==
  ASSUME NEW log \in Seq(Step), NEW s \in Step, NEW t \in Step
  PROVE  log \o <<s, t>> = Append(Append(log, s), t)
  <1>1. <<s, t>> \in Seq(Step) /\ Len(<<s, t>>) = 2
    OBVIOUS
  <1>2. /\ log \o <<s, t>> \in Seq(Step) /\ Append(Append(log, s), t) \in Seq(Step)
        /\ Len(log \o <<s, t>>) = Len(log) + 2 /\ Len(Append(Append(log, s), t)) = Len(log) + 2
    BY <1>1
  <1>3. ASSUME NEW i \in 1..(Len(log) + 2)
        PROVE  (log \o <<s, t>>)[i] = Append(Append(log, s), t)[i]
    BY <1>1
  <1> QED BY <1>2, <1>3, SeqEqual

(* A step does to the records of each run one of the four things above.      *)
LEMMA RecordStep ==
  ASSUME IInv, [Next]_vars, NEW r \in Runs
  PROVE  RecordMoves(r)
  <1>0. TypeOK
    BY DEF IInv
  <1> USE <1>0 DEF dbVars, txVars
  <1>1. ASSUME NEW w \in Workers, Poll(w) PROVE RecordMoves(r)
    BY <1>1 DEF Poll, RecordMoves, RecordKept
  <1>2. ASSUME NEW w \in Workers, LoseLease(w) PROVE RecordMoves(r)
    BY <1>2 DEF LoseLease, RecordMoves, RecordKept
  <1>3. ASSUME NEW w \in Workers, Exhaust(w) PROVE RecordMoves(r)
    BY <1>3 DEF Exhaust, RecordMoves, RecordKept
  <1>4. ASSUME NEW w \in Workers, AskModel(w) PROVE RecordMoves(r)
    <2>1. run[w] \in Runs
      BY <1>4 DEF AskModel, MayAskModel, TypeOK
    <2>2. CASE steps' = steps
      BY <1>4, <2>2 DEF AskModel, RecordMoves, RecordKept
    <2>3. CASE steps' = [steps EXCEPT ![run[w]] = Append(steps[run[w]], Notice)]
      BY <1>4, <2>1, <2>3 DEF AskModel, RecordMoves, RecordKept, RecordNoted, TypeOK
    <2> QED BY <1>4, <2>2, <2>3 DEF AskModel
  <1>5. ASSUME NEW w \in Workers, RecordReply(w) PROVE RecordMoves(r)
    <2>1. run[w] \in Runs /\ steps[run[w]] \in Seq(Step) /\ Final \in Step
      BY <1>5, StepTypes DEF RecordReply, TypeOK
    <2>2. PICK reply \in Replies :
            /\ reply = <<>> => status' = [status EXCEPT ![run[w]] = "succeeded"]
            /\ \/ steps' = [steps EXCEPT ![run[w]] = Append(steps[run[w]], ModelCall(reply))]
               \/ /\ reply = <<>>
                  /\ steps' = [steps EXCEPT ![run[w]] = steps[run[w]] \o <<ModelCall(reply), Final>>]
      BY <1>5 DEF RecordReply, Finish
    <2>3. ModelCall(reply) \in Step
      BY CallsAssumption, StepTypes
    <2>4. \/ steps' = [steps EXCEPT ![run[w]] = Append(steps[run[w]], ModelCall(reply))]
          \/ /\ reply = <<>>
             /\ steps' = [steps EXCEPT ![run[w]] = Append(Append(steps[run[w]], ModelCall(reply)), Final)]
      BY <2>1, <2>2, <2>3, AppendTwice
    <2>5. /\ pc[w] = "model" /\ owner[run[w]] = w /\ status[run[w]] = "running"
          /\ pc'[w] # "model" /\ UNCHANGED ledger
      BY <1>5 DEF RecordReply, Holds, GoTo, GoIdle, TypeOK
    <2>6. CASE r # run[w]
      BY <2>1, <2>4, <2>5, <2>6 DEF RecordMoves, RecordKept, TypeOK
    <2>7. CASE r = run[w]
      <3>1. reply = <<>> => status'[r] \in Ended
        BY <2>1, <2>2, <2>7 DEF Ended, TypeOK
      <3>2. RecordReplied(r, w)
        BY <2>1, <2>4, <2>5, <2>7, <3>1 DEF RecordReplied, TypeOK
      <3> QED BY <3>2 DEF RecordMoves
    <2> QED BY <2>6, <2>7
  <1>6. ASSUME NEW w \in Workers, RecordRefusal(w) PROVE RecordMoves(r)
    <2>1. /\ run[w] \in Runs /\ pc[w] = "model" /\ owner[run[w]] = w
          /\ status[run[w]] = "running" /\ pc'[w] # "model"
          /\ UNCHANGED ledger
          /\ \E partial \in Replies \cup {<<>>} :
               steps' = [steps EXCEPT ![run[w]] = Append(steps[run[w]], ModelCall(partial))]
          /\ status'[run[w]] \in Ended
      BY <1>6 DEF RecordRefusal, Holds, Finish, GoIdle, Ended, TypeOK
    <2>2. CASE r # run[w]
      BY <2>1, <2>2 DEF RecordMoves, RecordKept, TypeOK
    <2>3. CASE r = run[w]
      <3>1. RecordReplied(r, w)
        BY <2>1, <2>3 DEF RecordReplied, TypeOK
      <3> QED BY <3>1 DEF RecordMoves
    <2> QED BY <2>2, <2>3
  <1>7. ASSUME NEW w \in Workers, ProviderError(w) PROVE RecordMoves(r)
    BY <1>7 DEF ProviderError, RecordMoves, RecordKept
  <1>8. ASSUME NEW w \in Workers, BeginSettle(w) PROVE RecordMoves(r)
    BY <1>8 DEF BeginSettle, RecordMoves, RecordKept
  <1>9. ASSUME NEW w \in Workers, RefuseCall(w) PROVE RecordMoves(r)
    BY <1>9 DEF RefuseCall, RecordMoves, RecordKept
  <1>10. ASSUME NEW w \in Workers, AskPerson(w) PROVE RecordMoves(r)
    BY <1>10 DEF AskPerson, RecordMoves, RecordKept
  <1>11. ASSUME NEW w \in Workers, RecordDenial(w) PROVE RecordMoves(r)
    BY <1>11 DEF RecordDenial, RecordMoves, RecordKept
  <1>12. ASSUME NEW w \in Workers, RunCall(w) PROVE RecordMoves(r)
    BY <1>12 DEF RunCall, RecordMoves, RecordKept
  <1>13. ASSUME NEW w \in Workers, CommitTurn(w) PROVE RecordMoves(r)
    <2>1. /\ pc[w] = "settling" /\ run[w] \in Runs /\ pc'[w] # "settling"
          /\ Commit(w, txSteps[w])
      BY <1>13 DEF CommitTurn, Runnable, Reaches, IsNext, GoIdle, GoTo, TypeOK
    <2>2. CASE r # run[w]
      BY <2>1, <2>2 DEF Commit, RecordMoves, RecordKept, TypeOK
    <2>3. CASE r = run[w]
      <3>1. RecordCommitted(r, w)
        BY <2>1, <2>3 DEF Commit, RecordCommitted, TypeOK
      <3> QED BY <3>1 DEF RecordMoves
    <2> QED BY <2>2, <2>3
  <1>14. ASSUME NEW w \in Workers, EndUnanswered(w) PROVE RecordMoves(r)
    <2>1. /\ pc[w] = "settling" /\ run[w] \in Runs /\ pc'[w] # "settling"
          /\ Commit(w, txSteps[w])
      BY <1>14 DEF EndUnanswered, Runnable, Reaches, IsNext, GoIdle, GoTo, TypeOK
    <2>2. CASE r # run[w]
      BY <2>1, <2>2 DEF Commit, RecordMoves, RecordKept, TypeOK
    <2>3. CASE r = run[w]
      <3>1. RecordCommitted(r, w)
        BY <2>1, <2>3 DEF Commit, RecordCommitted, TypeOK
      <3> QED BY <3>1 DEF RecordMoves
    <2> QED BY <2>2, <2>3
  <1>15. ASSUME NEW w \in Workers, HandlerError(w) PROVE RecordMoves(r)
    <2>1. /\ pc[w] = "settling" /\ run[w] \in Runs /\ pc'[w] # "settling"
          /\ \E c \in todo[w] : Commit(w, Append(txSteps[w], ToolResult(c, TRUE)))
      BY <1>15 DEF HandlerError, Runnable, Reaches, IsNext, GoIdle, GoTo, TypeOK
    <2>2. CASE r # run[w]
      BY <2>1, <2>2 DEF Commit, RecordMoves, RecordKept, TypeOK
    <2>3. CASE r = run[w]
      <3>1. RecordCommitted(r, w)
        BY <2>1, <2>3 DEF Commit, RecordCommitted, TypeOK
      <3> QED BY <3>1 DEF RecordMoves
    <2> QED BY <2>2, <2>3
  <1>16. ASSUME NEW w \in Workers, DatabaseError(w) PROVE RecordMoves(r)
    BY <1>16 DEF DatabaseError, RecordMoves, RecordKept
  <1>17. ASSUME NEW w \in Workers, Crash(w) PROVE RecordMoves(r)
    BY <1>17 DEF Crash, RecordMoves, RecordKept
  <1>18. ASSUME NEW x \in Runs, LeaseExpires(x) PROVE RecordMoves(r)
    BY <1>18 DEF LeaseExpires, RecordMoves, RecordKept
  <1>19. ASSUME NEW x \in Runs, CeilingReached(x) PROVE RecordMoves(r)
    BY <1>19 DEF CeilingReached, RecordMoves, RecordKept
  <1>20. ASSUME NEW x \in Runs, ApprovalTimesOut(x) PROVE RecordMoves(r)
    BY <1>20 DEF ApprovalTimesOut, RecordMoves, RecordKept
  <1>21. ASSUME NEW x \in Runs, Decide(x) PROVE RecordMoves(r)
    BY <1>21 DEF Decide, RecordMoves, RecordKept
  <1>22. ASSUME NEW x \in Runs, CancelRead(x) PROVE RecordMoves(r)
    BY <1>22 DEF CancelRead, RecordMoves, RecordKept
  <1>23. ASSUME NEW x \in Runs, CancelWrite(x) PROVE RecordMoves(r)
    BY <1>23 DEF CancelWrite, RecordMoves, RecordKept
  <1>24. CASE ListApprovals
    BY <1>24 DEF ListApprovals, RecordMoves, RecordKept
  <1>25. CASE UNCHANGED vars
    BY <1>25 DEF vars, RecordMoves, RecordKept
  <1> QED
    BY <1>1, <1>2, <1>3, <1>4, <1>5, <1>6, <1>7, <1>8, <1>9, <1>10, <1>11, <1>12, <1>13,
       <1>14, <1>15, <1>16, <1>17, <1>18, <1>19, <1>20, <1>21, <1>22, <1>23, <1>24, <1>25
    DEF Next, WorkerStep

(* w settles calls without running one: it asks, or answers with a refusal   *)
(* or a denial; or some other worker or person moves.                        *)
TxAnswered(w) ==
  /\ pc[w] = "settling" /\ run'[w] = run[w] /\ txLedger'[w] = txLedger[w]
  /\ \/ txSteps'[w] = txSteps[w] /\ todo'[w] \subseteq todo[w]
     \/ \E c \in todo[w] : \E s \in {ToolResult(c, FALSE), DenialStep(c)} :
          /\ txSteps'[w] = Append(txSteps[w], s)
          /\ todo'[w] = todo[w] \ {c}
(* w runs a call.                                                            *)
TxRan(w) ==
  /\ pc[w] = "settling" /\ run'[w] = run[w]
  /\ \E c \in todo[w], ok \in BOOLEAN :
       /\ Runnable(w, c)
       /\ txSteps'[w] = Append(txSteps[w], ToolResult(c, ok))
       /\ todo'[w] = todo[w] \ {c}
       /\ txLedger'[w] = Record(txLedger[w], [seq |-> Len(txSteps[w]) + 1,
                                              action |-> ActionOf(txSteps[w], c), ok |-> ok])

(* All that a step can do to an open transaction that stays open.            *)
LEMMA TxStep ==
  ASSUME IInv, [Next]_vars, NEW w \in Workers, pc'[w] = "settling"
  PROVE  BeginSettle(w) \/ TxAnswered(w) \/ TxRan(w)
  <1>0. TypeOK
    BY DEF IInv
  <1> USE <1>0 DEF dbVars, txVars
  <1> DEFINE Goal == BeginSettle(w) \/ TxAnswered(w) \/ TxRan(w)
  <1>1. ASSUME NEW v \in Workers, Poll(v) PROVE Goal
    BY <1>1 DEF Poll, MayAskModel, GoTo, GoIdle, TxAnswered, TypeOK
  <1>2. ASSUME NEW v \in Workers, LoseLease(v) PROVE Goal
    BY <1>2 DEF LoseLease, MayAskModel, GoTo, GoIdle, TxAnswered, TypeOK
  <1>3. ASSUME NEW v \in Workers, Exhaust(v) PROVE Goal
    BY <1>3 DEF Exhaust, MayAskModel, GoTo, GoIdle, TxAnswered, TypeOK
  <1>4. ASSUME NEW v \in Workers, AskModel(v) PROVE Goal
    BY <1>4 DEF AskModel, MayAskModel, GoTo, GoIdle, TxAnswered, TypeOK
  <1>5. ASSUME NEW v \in Workers, RecordReply(v) PROVE Goal
    BY <1>5 DEF RecordReply, MayAskModel, GoTo, GoIdle, TxAnswered, TypeOK
  <1>6. ASSUME NEW v \in Workers, RecordRefusal(v) PROVE Goal
    BY <1>6 DEF RecordRefusal, MayAskModel, GoTo, GoIdle, TxAnswered, TypeOK
  <1>7. ASSUME NEW v \in Workers, ProviderError(v) PROVE Goal
    BY <1>7 DEF ProviderError, MayAskModel, GoTo, GoIdle, TxAnswered, TypeOK
  <1>8. ASSUME NEW v \in Workers, BeginSettle(v) PROVE Goal
    BY <1>8 DEF BeginSettle, GoTo, TxAnswered, TypeOK
  <1>9. ASSUME NEW v \in Workers, RefuseCall(v) PROVE Goal
    <2>1. PICK c \in todo[v] : IsNext(v, c) /\ SettleWith(v, c, ToolResult(c, FALSE))
      BY <1>9 DEF RefuseCall, Reaches
    <2> QED BY <1>9, <2>1 DEF RefuseCall, SettleWith, IsNext, TxAnswered, TypeOK
  <1>10. ASSUME NEW v \in Workers, AskPerson(v) PROVE Goal
    <2>1. /\ pc[v] = "settling" /\ UNCHANGED <<pc, run, txSteps, txLedger>>
          /\ \E c \in todo[v] : todo' = [todo EXCEPT ![v] = todo[v] \ {c}]
      BY <1>10 DEF AskPerson, Reaches, IsNext
    <2> QED BY <2>1 DEF TxAnswered, TypeOK
  <1>11. ASSUME NEW v \in Workers, RecordDenial(v) PROVE Goal
    <2>1. PICK c \in todo[v] : IsNext(v, c) /\ SettleWith(v, c, DenialStep(c))
      BY <1>11 DEF RecordDenial, Reaches
    <2> QED BY <1>11, <2>1 DEF RecordDenial, SettleWith, IsNext, TxAnswered, TypeOK
  <1>12. ASSUME NEW v \in Workers, RunCall(v) PROVE Goal
    <2>1. PICK c \in todo[v], ok \in BOOLEAN :
            /\ Runnable(v, c) /\ SettleWith(v, c, ToolResult(c, ok))
            /\ txLedger' = [txLedger EXCEPT ![v] =
                   Record(txLedger[v], [seq |-> Len(txSteps[v]) + 1,
                                        action |-> ActionOf(txSteps[v], c), ok |-> ok])]
      BY <1>12 DEF RunCall
    <2>2. pc[v] = "settling" /\ UNCHANGED <<pc, run>>
      BY <1>12, <2>1 DEF RunCall, Runnable, Reaches, IsNext
    <2>3. CASE v = w
      <3>1. TxRan(w)
        BY <2>1, <2>2, <2>3 DEF SettleWith, TxRan, TypeOK
      <3> QED BY <3>1
    <2>4. CASE v # w
      BY <2>1, <2>2, <2>4 DEF SettleWith, TxAnswered, TypeOK
    <2> QED BY <2>3, <2>4
  <1>13. ASSUME NEW v \in Workers, CommitTurn(v) PROVE Goal
    <2>1. ClearTx(v) /\ (GoIdle(v) \/ GoTo(v, "top"))
      BY <1>13 DEF CommitTurn
    <2> QED BY <2>1 DEF ClearTx, GoIdle, GoTo, TxAnswered, TypeOK
  <1>14. ASSUME NEW v \in Workers, EndUnanswered(v) PROVE Goal
    <2>1. ClearTx(v) /\ GoIdle(v)
      BY <1>14 DEF EndUnanswered
    <2> QED BY <2>1 DEF ClearTx, GoIdle, GoTo, TxAnswered, TypeOK
  <1>15. ASSUME NEW v \in Workers, HandlerError(v) PROVE Goal
    <2>1. ClearTx(v) /\ GoIdle(v)
      BY <1>15 DEF HandlerError
    <2> QED BY <2>1 DEF ClearTx, GoIdle, GoTo, TxAnswered, TypeOK
  <1>16. ASSUME NEW v \in Workers, DatabaseError(v) PROVE Goal
    <2>1. ClearTx(v) /\ GoIdle(v)
      BY <1>16 DEF DatabaseError
    <2> QED BY <2>1 DEF ClearTx, GoIdle, GoTo, TxAnswered, TypeOK
  <1>17. ASSUME NEW v \in Workers, Crash(v) PROVE Goal
    <2>1. ClearTx(v) /\ GoIdle(v)
      BY <1>17 DEF Crash
    <2> QED BY <2>1 DEF ClearTx, GoIdle, GoTo, TxAnswered, TypeOK
  <1>18. ASSUME NEW x \in Runs, LeaseExpires(x) PROVE Goal
    BY <1>18 DEF LeaseExpires, TxAnswered
  <1>19. ASSUME NEW x \in Runs, CeilingReached(x) PROVE Goal
    BY <1>19 DEF CeilingReached, TxAnswered
  <1>20. ASSUME NEW x \in Runs, ApprovalTimesOut(x) PROVE Goal
    BY <1>20 DEF ApprovalTimesOut, TxAnswered
  <1>21. ASSUME NEW x \in Runs, Decide(x) PROVE Goal
    BY <1>21 DEF Decide, TxAnswered
  <1>22. ASSUME NEW x \in Runs, CancelRead(x) PROVE Goal
    BY <1>22 DEF CancelRead, TxAnswered
  <1>23. ASSUME NEW x \in Runs, CancelWrite(x) PROVE Goal
    BY <1>23 DEF CancelWrite, TxAnswered
  <1>24. CASE ListApprovals
    BY <1>24 DEF ListApprovals, TxAnswered
  <1>25. CASE UNCHANGED vars
    BY <1>25 DEF vars, TxAnswered
  <1> QED
    BY <1>1, <1>2, <1>3, <1>4, <1>5, <1>6, <1>7, <1>8, <1>9, <1>10, <1>11, <1>12, <1>13,
       <1>14, <1>15, <1>16, <1>17, <1>18, <1>19, <1>20, <1>21, <1>22, <1>23, <1>24, <1>25
    DEF Next, WorkerStep

(* A request is put by a transaction that commits, as pending; it keeps its  *)
(* action, and an answer is never taken back.                                *)
RequestsKept(r) ==
  \A c \in DOMAIN approvals[r] :
    /\ c \in DOMAIN approvals'[r]
    /\ approvals'[r][c].action = approvals[r][c].action
    /\ \/ approvals'[r][c].status = approvals[r][c].status
       \/ /\ approvals[r][c].status = "pending"
          /\ approvals'[r][c].status \in {"approved", "denied", "expired"}
RequestsOpen(r) ==
  \A c \in DOMAIN approvals'[r] \ DOMAIN approvals[r] :
    /\ approvals'[r][c].status = "pending"
    /\ \E w \in Workers :
         /\ pc[w] = "settling" /\ run[w] = r /\ pc'[w] # "settling"
         /\ c \in txAsks[w] /\ Extends(txSteps[w], steps'[r])

(* The sweep answers requests and puts none.                                 *)
LEMMA SweptKeeps ==
  ASSUME TypeOK, NEW r \in Runs
  PROVE  /\ DOMAIN Swept[r] = DOMAIN approvals[r]
         /\ \A c \in DOMAIN approvals[r] :
              /\ Swept[r][c].action = approvals[r][c].action
              /\ \/ Swept[r][c].status = approvals[r][c].status
                 \/ approvals[r][c].status = "pending" /\ Swept[r][c].status = "expired"
  <1>1. DOMAIN Swept[r] = DOMAIN approvals[r]
    BY DEF Swept
  <1>2. ASSUME NEW c \in DOMAIN approvals[r]
        PROVE  /\ Swept[r][c].action = approvals[r][c].action
               /\ \/ Swept[r][c].status = approvals[r][c].status
                  \/ approvals[r][c].status = "pending" /\ Swept[r][c].status = "expired"
    <2>1. approvals[r][c] \in Approval
      BY DEF TypeOK
    <2>2. Swept[r][c] = IF IsStale(r, c) THEN [approvals[r][c] EXCEPT !.status = "expired"]
                                         ELSE approvals[r][c]
      BY DEF Swept
    <2> QED BY <2>1, <2>2 DEF Approval, IsStale, IsPending
  <1> QED BY <1>1, <1>2

(* A commit puts the requests of its transaction and keeps the others.       *)
LEMMA AsksKeep ==
  ASSUME TypeOK, NEW w \in Workers, pc[w] = "settling", pc'[w] # "settling",
         NEW table, table \in {approvals, Swept}, approvals' = WithAsks(w, table), NEW r \in Runs,
         Extends(txSteps[w], steps'[run[w]])
  PROVE  RequestsKept(r) /\ RequestsOpen(r)
  <1>1. /\ DOMAIN table = Runs /\ DOMAIN table[r] = DOMAIN approvals[r]
        /\ \A c \in DOMAIN approvals[r] :
             /\ table[r][c].action = approvals[r][c].action
             /\ \/ table[r][c].status = approvals[r][c].status
                \/ approvals[r][c].status = "pending" /\ table[r][c].status = "expired"
    <2>1. DOMAIN approvals = Runs /\ DOMAIN Swept = Runs
      BY DEF TypeOK, Swept
    <2>2. CASE table = approvals
      BY <2>1, <2>2
    <2>3. CASE table = Swept
      BY <2>1, <2>3, SweptKeeps
    <2> QED BY <2>2, <2>3
  <1>2. CASE r # run[w]
    <2>1. approvals'[r] = table[r]
      BY <1>1, <1>2 DEF WithAsks
    <2> QED BY <1>1, <2>1 DEF RequestsKept, RequestsOpen
  <1>3. CASE r = run[w]
    <2>1. approvals'[r] = [c \in DOMAIN table[r] \cup txAsks[w] |->
             IF c \in DOMAIN table[r] THEN table[r][c]
             ELSE [action |-> ActionOf(txSteps[w], c), status |-> "pending", stale |-> FALSE]]
      BY <1>1, <1>3 DEF WithAsks
    <2>2. \A c \in DOMAIN table[r] : c \in DOMAIN approvals'[r] /\ approvals'[r][c] = table[r][c]
      BY <2>1
    <2>3. \A c \in DOMAIN approvals'[r] \ DOMAIN table[r] :
            approvals'[r][c].status = "pending" /\ c \in txAsks[w]
      BY <2>1
    <2>4. RequestsKept(r)
      BY <1>1, <2>2 DEF RequestsKept
    <2>5. RequestsOpen(r)
      BY <1>1, <1>3, <2>3 DEF RequestsOpen
    <2> QED BY <2>4, <2>5
  <1> QED BY <1>2, <1>3

(* A step does nothing else to the requests of a run.                        *)
LEMMA RequestStep ==
  ASSUME IInv, [Next]_vars, NEW r \in Runs
  PROVE  RequestsKept(r) /\ RequestsOpen(r)
  <1>0. TypeOK
    BY DEF IInv
  <1> USE <1>0 DEF dbVars, txVars
  <1> DEFINE Goal == RequestsKept(r) /\ RequestsOpen(r)
  <1>k. UNCHANGED approvals => Goal
    BY DEF RequestsKept, RequestsOpen
  <1>s. approvals' = Swept => Goal
    BY SweptKeeps DEF RequestsKept, RequestsOpen
  <1>1. ASSUME NEW w \in Workers, Poll(w) PROVE Goal
    BY <1>1, <1>s DEF Poll
  <1>2. ASSUME NEW w \in Workers, LoseLease(w) PROVE Goal
    BY <1>2, <1>k DEF LoseLease
  <1>3. ASSUME NEW w \in Workers, Exhaust(w) PROVE Goal
    BY <1>3, <1>k DEF Exhaust
  <1>4. ASSUME NEW w \in Workers, AskModel(w) PROVE Goal
    BY <1>4, <1>k DEF AskModel
  <1>5. ASSUME NEW w \in Workers, RecordReply(w) PROVE Goal
    BY <1>5, <1>k DEF RecordReply
  <1>6. ASSUME NEW w \in Workers, RecordRefusal(w) PROVE Goal
    BY <1>6, <1>k DEF RecordRefusal
  <1>7. ASSUME NEW w \in Workers, ProviderError(w) PROVE Goal
    BY <1>7, <1>k DEF ProviderError
  <1>8. ASSUME NEW w \in Workers, BeginSettle(w) PROVE Goal
    BY <1>8, <1>k DEF BeginSettle
  <1>9. ASSUME NEW w \in Workers, RefuseCall(w) PROVE Goal
    BY <1>9, <1>k DEF RefuseCall
  <1>10. ASSUME NEW w \in Workers, AskPerson(w) PROVE Goal
    BY <1>10, <1>k DEF AskPerson
  <1>11. ASSUME NEW w \in Workers, RecordDenial(w) PROVE Goal
    BY <1>11, <1>k DEF RecordDenial
  <1>12. ASSUME NEW w \in Workers, RunCall(w) PROVE Goal
    BY <1>12, <1>k DEF RunCall
  <1>13. ASSUME NEW w \in Workers, CommitTurn(w) PROVE Goal
    <2>1. /\ pc[w] = "settling" /\ pc'[w] # "settling"
          /\ \E table \in {approvals, Swept} : approvals' = WithAsks(w, table)
      BY <1>13 DEF CommitTurn, Runnable, Reaches, IsNext, GoIdle, GoTo, TypeOK
    <2>2. Commit(w, txSteps[w])
      BY <1>13 DEF CommitTurn
    <2>3. txSteps[w] \in Seq(Step) /\ steps'[run[w]] = txSteps[w]
      BY <2>1, <2>2 DEF Commit, TypeOK
    <2>4. Extends(txSteps[w], steps'[run[w]])
      BY <2>3 DEF Extends
    <2> QED BY <2>1, <2>4, AsksKeep
  <1>14. ASSUME NEW w \in Workers, EndUnanswered(w) PROVE Goal
    <2>1. /\ pc[w] = "settling" /\ pc'[w] # "settling"
          /\ \E table \in {approvals, Swept} : approvals' = WithAsks(w, table)
      BY <1>14 DEF EndUnanswered, Runnable, Reaches, IsNext, GoIdle, GoTo, TypeOK
    <2>2. Commit(w, txSteps[w])
      BY <1>14 DEF EndUnanswered
    <2>3. txSteps[w] \in Seq(Step) /\ steps'[run[w]] = txSteps[w]
      BY <2>1, <2>2 DEF Commit, TypeOK
    <2>4. Extends(txSteps[w], steps'[run[w]])
      BY <2>3 DEF Extends
    <2> QED BY <2>1, <2>4, AsksKeep
  <1>15. ASSUME NEW w \in Workers, HandlerError(w) PROVE Goal
    <2>1. /\ pc[w] = "settling" /\ pc'[w] # "settling"
          /\ \E table \in {approvals, Swept} : approvals' = WithAsks(w, table)
      BY <1>15 DEF HandlerError, Runnable, Reaches, IsNext, GoIdle, GoTo, TypeOK
    <2>2. PICK c \in todo[w] : Commit(w, Append(txSteps[w], ToolResult(c, TRUE)))
      BY <1>15 DEF HandlerError
    <2>3. /\ c \in CallIds /\ txSteps[w] \in Seq(Step)
          /\ steps'[run[w]] = Append(txSteps[w], ToolResult(c, TRUE))
      BY <2>1, <2>2 DEF Commit, TypeOK
    <2>4. Extends(txSteps[w], steps'[run[w]])
      BY <2>3, StepTypes, AppendExtends
    <2> QED BY <2>1, <2>4, AsksKeep
  <1>16. ASSUME NEW w \in Workers, DatabaseError(w) PROVE Goal
    BY <1>16, <1>k DEF DatabaseError
  <1>17. ASSUME NEW w \in Workers, Crash(w) PROVE Goal
    BY <1>17, <1>k DEF Crash
  <1>18. ASSUME NEW x \in Runs, LeaseExpires(x) PROVE Goal
    BY <1>18, <1>k DEF LeaseExpires
  <1>19. ASSUME NEW x \in Runs, CeilingReached(x) PROVE Goal
    BY <1>19, <1>k DEF CeilingReached
  <1>20. ASSUME NEW x \in Runs, ApprovalTimesOut(x) PROVE Goal
    <2>1. PICK c \in DOMAIN approvals[x] :
            /\ approvals[x][c].status = "pending"
            /\ approvals' = [approvals EXCEPT ![x][c].stale = TRUE]
      BY <1>20 DEF ApprovalTimesOut, IsPending
    <2>2. /\ DOMAIN approvals'[r] = DOMAIN approvals[r]
          /\ \A e \in DOMAIN approvals[r] :
               approvals'[r][e] = IF r = x /\ e = c THEN [approvals[x][c] EXCEPT !.stale = TRUE]
                                  ELSE approvals[r][e]
      BY <2>1 DEF TypeOK
    <2>3. approvals[x][c] \in Approval
      BY DEF TypeOK
    <2>4. /\ [approvals[x][c] EXCEPT !.stale = TRUE].action = approvals[x][c].action
          /\ [approvals[x][c] EXCEPT !.stale = TRUE].status = "pending"
      BY <2>1, <2>3 DEF Approval
    <2>5. RequestsKept(r)
      BY <2>1, <2>2, <2>4 DEF RequestsKept
    <2> QED BY <2>2, <2>5 DEF RequestsOpen
  <1>21. ASSUME NEW x \in Runs, Decide(x) PROVE Goal
    <2>1. PICK c \in DOMAIN approvals[x], d \in {"approved", "denied"} :
            /\ approvals[x][c].status = "pending"
            /\ approvals' = [approvals EXCEPT ![x][c].status = d]
      BY <1>21 DEF Decide, IsPending
    <2>2. /\ DOMAIN approvals'[r] = DOMAIN approvals[r]
          /\ \A e \in DOMAIN approvals[r] :
               approvals'[r][e] = IF r = x /\ e = c THEN [approvals[x][c] EXCEPT !.status = d]
                                  ELSE approvals[r][e]
      BY <2>1 DEF TypeOK
    <2>3. approvals[x][c] \in Approval
      BY DEF TypeOK
    <2>4. /\ [approvals[x][c] EXCEPT !.status = d].action = approvals[x][c].action
          /\ [approvals[x][c] EXCEPT !.status = d].status = d
      BY <2>1, <2>3 DEF Approval
    <2>5. RequestsKept(r)
      BY <2>1, <2>2, <2>4 DEF RequestsKept
    <2> QED BY <2>2, <2>5 DEF RequestsOpen
  <1>22. ASSUME NEW x \in Runs, CancelRead(x) PROVE Goal
    BY <1>22, <1>k DEF CancelRead
  <1>23. ASSUME NEW x \in Runs, CancelWrite(x) PROVE Goal
    <2>1. CASE r # x
      BY <1>23, <2>1 DEF CancelWrite, RequestsKept, RequestsOpen, TypeOK
    <2>2. CASE r = x
      <3>1. approvals'[r] = Close(approvals[r])
        BY <1>23, <2>2 DEF CancelWrite, TypeOK
      <3>2. ASSUME NEW c \in DOMAIN approvals[r]
            PROVE  /\ Close(approvals[r])[c].action = approvals[r][c].action
                   /\ \/ Close(approvals[r])[c].status = approvals[r][c].status
                      \/ /\ approvals[r][c].status = "pending"
                         /\ Close(approvals[r])[c].status = "expired"
        <4>1. approvals[r][c] \in Approval
          BY DEF TypeOK
        <4>2. Close(approvals[r])[c] = IF approvals[r][c].status = "pending"
                                       THEN [approvals[r][c] EXCEPT !.status = "expired"]
                                       ELSE approvals[r][c]
          BY DEF Close
        <4> QED BY <4>1, <4>2 DEF Approval
      <3>3. DOMAIN Close(approvals[r]) = DOMAIN approvals[r]
        BY DEF Close
      <3> QED BY <3>1, <3>2, <3>3 DEF RequestsKept, RequestsOpen
    <2> QED BY <2>1, <2>2
  <1>24. CASE ListApprovals
    BY <1>24, <1>s DEF ListApprovals
  <1>25. CASE UNCHANGED vars
    BY <1>25, <1>k DEF vars
  <1> QED
    BY <1>1, <1>2, <1>3, <1>4, <1>5, <1>6, <1>7, <1>8, <1>9, <1>10, <1>11, <1>12, <1>13,
       <1>14, <1>15, <1>16, <1>17, <1>18, <1>19, <1>20, <1>21, <1>22, <1>23, <1>24, <1>25
    DEF Next, WorkerStep

(* A worker waits for the model with the lease in hand only if it has just   *)
(* asked, or has been waiting so all along.                                  *)
LEMMA AskerStep ==
  ASSUME IInv, [Next]_vars, NEW w \in Workers, pc'[w] = "model", owner'[run'[w]] = w
  PROVE  /\ run'[w] = run[w] /\ run[w] \in Runs
         /\ AskModel(w) \/ (pc[w] = "model" /\ owner[run[w]] = w)
  <1>0. TypeOK
    BY DEF IInv
  <1> USE <1>0 DEF dbVars, txVars
  <1> DEFINE Goal == /\ run'[w] = run[w] /\ run[w] \in Runs
                     /\ AskModel(w) \/ (pc[w] = "model" /\ owner[run[w]] = w)
  <1>1. ASSUME NEW v \in Workers, Poll(v) PROVE Goal
    <2>1. pc[v] = "idle"
      BY <1>1 DEF Poll
    <2>2. CASE UNCHANGED <<owner, pc, run>>
      BY <2>2 DEF TypeOK
    <2>3. ASSUME NEW r \in Runs, owner' = [owner EXCEPT ![r] = v], pc' = [pc EXCEPT ![v] = "top"],
                 run' = [run EXCEPT ![v] = r]
          PROVE  Goal
      <3>1. w # v
        BY <2>3 DEF TypeOK
      <3>2. pc'[w] = pc[w] /\ run'[w] = run[w] /\ run[w] \in Runs
        BY <2>3, <3>1 DEF TypeOK
      <3>3. owner[run[w]] = w
        BY <2>3, <3>1, <3>2 DEF TypeOK
      <3> QED BY <3>2, <3>3
    <2> QED BY <1>1, <2>2, <2>3 DEF Poll, Claimable
  <1>2. ASSUME NEW v \in Workers, LoseLease(v) PROVE Goal
    BY <1>2, OwnerAssumption DEF LoseLease, GoIdle, TypeOK
  <1>3. ASSUME NEW v \in Workers, Exhaust(v) PROVE Goal
    BY <1>3, OwnerAssumption DEF Exhaust, MayAskModel, Finish, GoIdle, TypeOK
  <1>4. ASSUME NEW v \in Workers, AskModel(v) PROVE Goal
    BY <1>4, OwnerAssumption DEF AskModel, MayAskModel, Renewed, GoTo, TypeOK
  <1>5. ASSUME NEW v \in Workers, RecordReply(v) PROVE Goal
    BY <1>5, OwnerAssumption DEF RecordReply, Renewed, Finish, GoTo, GoIdle, TypeOK
  <1>6. ASSUME NEW v \in Workers, RecordRefusal(v) PROVE Goal
    BY <1>6, OwnerAssumption DEF RecordRefusal, Finish, GoIdle, TypeOK
  <1>7. ASSUME NEW v \in Workers, ProviderError(v) PROVE Goal
    BY <1>7, OwnerAssumption DEF ProviderError, Finish, GoIdle, TypeOK
  <1>8. ASSUME NEW v \in Workers, BeginSettle(v) PROVE Goal
    BY <1>8, OwnerAssumption DEF BeginSettle, GoTo, TypeOK
  <1>9. ASSUME NEW v \in Workers, RefuseCall(v) PROVE Goal
    BY <1>9, OwnerAssumption DEF RefuseCall, TypeOK
  <1>10. ASSUME NEW v \in Workers, AskPerson(v) PROVE Goal
    BY <1>10, OwnerAssumption DEF AskPerson, TypeOK
  <1>11. ASSUME NEW v \in Workers, RecordDenial(v) PROVE Goal
    BY <1>11, OwnerAssumption DEF RecordDenial, TypeOK
  <1>12. ASSUME NEW v \in Workers, RunCall(v) PROVE Goal
    BY <1>12, OwnerAssumption DEF RunCall, TypeOK
  <1>13. ASSUME NEW v \in Workers, CommitTurn(v) PROVE Goal
    BY <1>13, OwnerAssumption DEF CommitTurn, Suspend, Renewed, GoIdle, GoTo, TypeOK
  <1>14. ASSUME NEW v \in Workers, EndUnanswered(v) PROVE Goal
    BY <1>14, OwnerAssumption DEF EndUnanswered, GoIdle, TypeOK
  <1>15. ASSUME NEW v \in Workers, HandlerError(v) PROVE Goal
    BY <1>15, OwnerAssumption DEF HandlerError, Finish, GoIdle, TypeOK
  <1>16. ASSUME NEW v \in Workers, DatabaseError(v) PROVE Goal
    BY <1>16, OwnerAssumption DEF DatabaseError, GoIdle, TypeOK
  <1>17. ASSUME NEW v \in Workers, Crash(v) PROVE Goal
    BY <1>17, OwnerAssumption DEF Crash, GoIdle, TypeOK
  <1>18. ASSUME NEW x \in Runs, LeaseExpires(x) PROVE Goal
    BY <1>18, OwnerAssumption DEF LeaseExpires, TypeOK
  <1>19. ASSUME NEW x \in Runs, CeilingReached(x) PROVE Goal
    BY <1>19, OwnerAssumption DEF CeilingReached, TypeOK
  <1>20. ASSUME NEW x \in Runs, ApprovalTimesOut(x) PROVE Goal
    BY <1>20, OwnerAssumption DEF ApprovalTimesOut, TypeOK
  <1>21. ASSUME NEW x \in Runs, Decide(x) PROVE Goal
    BY <1>21, OwnerAssumption DEF Decide, TypeOK
  <1>22. ASSUME NEW x \in Runs, CancelRead(x) PROVE Goal
    BY <1>22, OwnerAssumption DEF CancelRead, TypeOK
  <1>23. ASSUME NEW x \in Runs, CancelWrite(x) PROVE Goal
    BY <1>23, OwnerAssumption DEF CancelWrite, Finish, TypeOK
  <1>24. CASE ListApprovals
    BY <1>24, OwnerAssumption DEF ListApprovals, TypeOK
  <1>25. CASE UNCHANGED vars
    BY <1>25, OwnerAssumption DEF vars, TypeOK
  <1> QED
    BY <1>1, <1>2, <1>3, <1>4, <1>5, <1>6, <1>7, <1>8, <1>9, <1>10, <1>11, <1>12, <1>13,
       <1>14, <1>15, <1>16, <1>17, <1>18, <1>19, <1>20, <1>21, <1>22, <1>23, <1>24, <1>25
    DEF Next, WorkerStep

(* A run becomes cancelled by the second half of a cancel request and by     *)
(* nothing else.                                                             *)
LEMMA CancelStep ==
  ASSUME IInv, [Next]_vars, NEW r \in Runs, status'[r] = "cancelled"
  PROVE  status[r] = "cancelled" \/ CancelWrite(r)
  <1>0. TypeOK
    BY DEF IInv
  <1> USE <1>0 DEF dbVars, txVars
  <1> DEFINE Goal == status[r] = "cancelled" \/ CancelWrite(r)
  <1>q. \A R : Requeued(R)[r] = "cancelled" => status[r] = "cancelled"
    BY RequeuedMoves
  <1>1. ASSUME NEW w \in Workers, Poll(w) PROVE Goal
    <2>1. \/ status' = Requeued(StaleRuns)
          \/ \E c \in Runs : status' = [Requeued(StaleRuns) EXCEPT ![c] = "running"]
      BY <1>1 DEF Poll, Claimable
    <2> QED BY <1>q, <2>1, SweptTyped
  <1>2. ASSUME NEW w \in Workers, LoseLease(w) PROVE Goal
    BY <1>2 DEF LoseLease, TypeOK
  <1>3. ASSUME NEW w \in Workers, Exhaust(w) PROVE Goal
    BY <1>3 DEF Exhaust, MayAskModel, Finish, TypeOK
  <1>4. ASSUME NEW w \in Workers, AskModel(w) PROVE Goal
    BY <1>4 DEF AskModel, MayAskModel, Renewed, TypeOK
  <1>5. ASSUME NEW w \in Workers, RecordReply(w) PROVE Goal
    BY <1>5 DEF RecordReply, Renewed, Finish, TypeOK
  <1>6. ASSUME NEW w \in Workers, RecordRefusal(w) PROVE Goal
    BY <1>6 DEF RecordRefusal, Finish, TypeOK
  <1>7. ASSUME NEW w \in Workers, ProviderError(w) PROVE Goal
    BY <1>7 DEF ProviderError, Finish, TypeOK
  <1>8. ASSUME NEW w \in Workers, BeginSettle(w) PROVE Goal
    BY <1>8 DEF BeginSettle, TypeOK
  <1>9. ASSUME NEW w \in Workers, RefuseCall(w) PROVE Goal
    BY <1>9 DEF RefuseCall, TypeOK
  <1>10. ASSUME NEW w \in Workers, AskPerson(w) PROVE Goal
    BY <1>10 DEF AskPerson, TypeOK
  <1>11. ASSUME NEW w \in Workers, RecordDenial(w) PROVE Goal
    BY <1>11 DEF RecordDenial, TypeOK
  <1>12. ASSUME NEW w \in Workers, RunCall(w) PROVE Goal
    BY <1>12 DEF RunCall, TypeOK
  <1>13. ASSUME NEW w \in Workers, CommitTurn(w) PROVE Goal
    BY <1>13 DEF CommitTurn, Suspend, Renewed, TypeOK
  <1>14. ASSUME NEW w \in Workers, EndUnanswered(w) PROVE Goal
    <2>1. \E R : status' = [Requeued(R) EXCEPT ![run[w]] = "failed"]
      BY <1>14 DEF EndUnanswered
    <2> QED BY <1>q, <2>1, SweptTyped
  <1>15. ASSUME NEW w \in Workers, HandlerError(w) PROVE Goal
    BY <1>15 DEF HandlerError, Finish, TypeOK
  <1>16. ASSUME NEW w \in Workers, DatabaseError(w) PROVE Goal
    BY <1>16 DEF DatabaseError, TypeOK
  <1>17. ASSUME NEW w \in Workers, Crash(w) PROVE Goal
    BY <1>17 DEF Crash, TypeOK
  <1>18. ASSUME NEW x \in Runs, LeaseExpires(x) PROVE Goal
    BY <1>18 DEF LeaseExpires, TypeOK
  <1>19. ASSUME NEW x \in Runs, CeilingReached(x) PROVE Goal
    BY <1>19 DEF CeilingReached, TypeOK
  <1>20. ASSUME NEW x \in Runs, ApprovalTimesOut(x) PROVE Goal
    BY <1>20 DEF ApprovalTimesOut, TypeOK
  <1>21. ASSUME NEW x \in Runs, Decide(x) PROVE Goal
    BY <1>21, <1>q DEF Decide
  <1>22. ASSUME NEW x \in Runs, CancelRead(x) PROVE Goal
    BY <1>22 DEF CancelRead, TypeOK
  <1>23. ASSUME NEW x \in Runs, CancelWrite(x) PROVE Goal
    BY <1>23 DEF CancelWrite, Finish, TypeOK
  <1>24. CASE ListApprovals
    BY <1>24, <1>q DEF ListApprovals
  <1>25. CASE UNCHANGED vars
    BY <1>25 DEF vars, TypeOK
  <1> QED
    BY <1>1, <1>2, <1>3, <1>4, <1>5, <1>6, <1>7, <1>8, <1>9, <1>10, <1>11, <1>12, <1>13,
       <1>14, <1>15, <1>16, <1>17, <1>18, <1>19, <1>20, <1>21, <1>22, <1>23, <1>24, <1>25
    DEF Next, WorkerStep

-----------------------------------------------------------------------------
(* The records of a specification that starts empty stay sound.             *)

(* There is nothing on record at first.                                      *)
LEMMA InitRInv == Init => RInv
  <1> SUFFICES ASSUME Init PROVE RInv
    OBVIOUS
  <1>1. IInv
    BY InitIInv
  <1>2. ASSUME NEW table PROVE Sound(<<>>, {}, table)
    <2>1. Turns(<<>>) = {} /\ Answers(<<>>) = {}
      BY DEF Turns, Answers
    <2> QED BY <2>1 DEF Sound, Ordered, Booked, Consented
  <1>3. \A r \in Runs : Sound(steps[r], ledger[r], approvals[r])
    BY <1>2 DEF Init
  <1>4. \A w \in Workers : SettlerSound(w) /\ AskerWaits(w)
    BY DEF Init, SettlerSound, AskerWaits
  <1>5. CancelClosesTheQueue
    BY DEF Init, CancelClosesTheQueue
  <1> QED BY <1>1, <1>3, <1>4, <1>5 DEF RInv

(* Requests only ever get answers.                                           *)
LEMMA GrantsStep ==
  ASSUME IInv, [Next]_vars, NEW r \in Runs
  PROVE  GrantsKept(approvals[r], approvals'[r])
  <1>1. RequestsKept(r)
    BY RequestStep
  <1> QED BY <1>1 DEF RequestsKept, GrantsKept

(* A commit writes what the transaction found sound, whether it ends well or *)
(* with the step of a handler that raised.                                   *)
LEMMA CommitSound ==
  ASSUME RInv, [Next]_vars, NEW r \in Runs, NEW w \in Workers, RecordCommitted(r, w)
  PROVE  /\ Sound(steps'[r], ledger'[r], approvals[r])
         /\ ledger[r] \subseteq ledger'[r]
         /\ Extends(txSteps[w], steps'[r])
  <1>1. /\ txSteps[w] \in Seq(Step) /\ txLedger[w] \in SUBSET LedgerRow
        /\ Sound(txSteps[w], txLedger[w], approvals[r])
        /\ todo[w] \subseteq Unresolved(txSteps[w])
        /\ ledger[r] \subseteq txLedger[w] /\ ledger'[r] = txLedger[w]
    BY DEF RInv, IInv, TypeOK, SettlerSound, RecordCommitted
  <1>2. CASE steps'[r] = txSteps[w]
    BY <1>1, <1>2 DEF Extends
  <1>3. ASSUME NEW c \in todo[w], steps'[r] = Append(txSteps[w], ToolResult(c, TRUE))
        PROVE  /\ Sound(steps'[r], txLedger[w], approvals[r])
               /\ Extends(txSteps[w], steps'[r])
    <2>1. c \in CallIds
      BY DEF RInv, IInv, TypeOK
    <2>2. /\ ToolResult(c, TRUE) \in Step /\ ToolResult(c, TRUE).kind = "tool_result"
          /\ ToolResult(c, TRUE).call = c
      BY <2>1, StepTypes DEF ToolResult
    <2>3. ToolResult(c, TRUE).call \in Unresolved(txSteps[w])
      BY <1>1, <2>2
    <2>4. Sound(Append(txSteps[w], ToolResult(c, TRUE)), txLedger[w], approvals[r])
      BY <1>1, <2>2, <2>3, SoundGrows
    <2>5. Extends(txSteps[w], Append(txSteps[w], ToolResult(c, TRUE)))
      BY <1>1, <2>2, Appended
    <2> QED BY <1>3, <2>4, <2>5
  <1> QED BY <1>1, <1>2, <1>3 DEF RecordCommitted

(* The committed records of a run stay sound.                                *)
LEMMA CommittedStaySound ==
  ASSUME RInv, [Next]_vars, NEW r \in Runs
  PROVE  Sound(steps'[r], ledger'[r], approvals'[r])
  <1>1. /\ IInv /\ Sound(steps[r], ledger[r], approvals[r])
        /\ steps[r] \in Seq(Step) /\ ledger[r] \in SUBSET LedgerRow
    BY DEF RInv, IInv, TypeOK
  <1>2. ASSUME RecordKept(r)
        PROVE  Sound(steps'[r], ledger'[r], approvals[r])
    BY <1>1, <1>2 DEF RecordKept
  <1>3. ASSUME NEW w \in Workers, RecordNoted(r, w)
        PROVE  Sound(steps'[r], ledger'[r], approvals[r])
    <2>1. Notice \in Step /\ Notice.kind = "notice"
      BY StepTypes DEF Notice
    <2> QED BY <1>1, <1>3, <2>1, SoundGrows DEF RecordNoted
  <1>4. ASSUME NEW w \in Workers, RecordReplied(r, w)
        PROVE  Sound(steps'[r], ledger'[r], approvals[r])
    <2>1. Unresolved(steps[r]) = {}
      BY <1>4 DEF RInv, AskerWaits, RecordReplied
    <2>2. PICK reply \in Replies \cup {<<>>} :
            \/ steps'[r] = Append(steps[r], ModelCall(reply))
            \/ steps'[r] = Append(Append(steps[r], ModelCall(reply)), Final)
      BY <1>4 DEF RecordReplied
    <2>3. <<>> \in Seq(Actions)
      OBVIOUS
    <2>4. /\ ModelCall(reply) \in Step /\ ModelCall(reply).kind = "model_call"
          /\ Final \in Step /\ Final.kind = "final"
      BY <2>3, CallsAssumption, StepTypes DEF ModelCall, Final
    <2>5. /\ Append(steps[r], ModelCall(reply)) \in Seq(Step)
          /\ Sound(Append(steps[r], ModelCall(reply)), ledger[r], approvals[r])
      BY <1>1, <2>1, <2>4, SoundGrows
    <2>6. Sound(Append(Append(steps[r], ModelCall(reply)), Final), ledger[r], approvals[r])
      BY <1>1, <2>4, <2>5, SoundGrows
    <2> QED BY <1>4, <2>2, <2>5, <2>6 DEF RecordReplied
  <1>5. Sound(steps'[r], ledger'[r], approvals[r])
    BY <1>1, <1>2, <1>3, <1>4, CommitSound, RecordStep DEF RecordMoves
  <1> QED BY <1>1, <1>5, GrantsStep, SoundForLater

(* What a settling worker would commit stays sound: it answers unanswered    *)
(* calls, and runs only those that pass the gate.                            *)
LEMMA SettlerStaysSound ==
  ASSUME RInv, [Next]_vars, NEW w \in Workers
  PROVE  SettlerSound(w)'
  <1>0. TypeOK /\ IInv /\ IInv'
    BY TypeStep, SettlerStep DEF RInv, IInv
  <1>1. SUFFICES ASSUME pc'[w] = "settling"
        PROVE  /\ Sound(txSteps'[w], txLedger'[w], approvals'[run'[w]])
               /\ todo'[w] \subseteq Unresolved(txSteps'[w])
               /\ ledger'[run'[w]] \subseteq txLedger'[w]
    BY DEF SettlerSound
  <1>2. CASE BeginSettle(w)
    <2>1. /\ run[w] \in Runs /\ run'[w] = run[w]
          /\ txSteps'[w] = steps[run[w]] /\ txLedger'[w] = ledger[run[w]]
          /\ todo'[w] = Unresolved(steps[run[w]])
          /\ UNCHANGED <<steps, ledger, approvals>>
      BY <1>0, <1>2 DEF BeginSettle, GoTo, dbVars, TypeOK
    <2> QED BY <2>1 DEF RInv
  <1>3. CASE pc[w] = "settling" /\ run'[w] = run[w] /\ (TxAnswered(w) \/ TxRan(w))
    <2> DEFINE r == run[w]
    <2>1. /\ r \in Runs /\ ledger'[r] = ledger[r]
          /\ txSteps[w] \in Seq(Step) /\ txLedger[w] \in SUBSET LedgerRow
          /\ Sound(txSteps[w], txLedger[w], approvals[r])
          /\ todo[w] \subseteq Unresolved(txSteps[w])
          /\ ledger[r] \subseteq txLedger[w]
          /\ todo[w] \subseteq CallIds
      BY <1>0, <1>1, <1>3, SettledRowIsQuiet DEF RInv, SettlerSound, TypeOK, Quiet
    <2>2. ASSUME NEW c \in todo[w], NEW s \in Step, s.call = c,
                 s.kind \in {"tool_result", "approval"},
                 txSteps'[w] = Append(txSteps[w], s), todo'[w] = todo[w] \ {c}
          PROVE  todo'[w] \subseteq Unresolved(txSteps'[w])
      BY <2>1, <2>2, AnswerMoves
    <2>3. CASE TxAnswered(w) /\ txSteps'[w] = txSteps[w] /\ todo'[w] \subseteq todo[w]
      <3>1. Sound(txSteps'[w], txLedger'[w], approvals[r])
        BY <2>1, <2>3 DEF TxAnswered
      <3> QED BY <1>0, <1>3, <2>1, <2>3, <3>1, GrantsStep, SoundForLater DEF TxAnswered
    <2>4. ASSUME NEW c \in todo[w], NEW s \in {ToolResult(c, FALSE), DenialStep(c)},
                 TxAnswered(w), txSteps'[w] = Append(txSteps[w], s), todo'[w] = todo[w] \ {c}
          PROVE  /\ Sound(txSteps'[w], txLedger'[w], approvals'[r])
                 /\ todo'[w] \subseteq Unresolved(txSteps'[w])
                 /\ ledger'[r] \subseteq txLedger'[w]
      <3>1. s \in Step /\ s.call = c /\ s.kind \in {"tool_result", "approval"}
        <4>1. c \in CallIds
          BY <2>1
        <4>2. CASE s = ToolResult(c, FALSE)
          BY <4>1, <4>2, StepTypes DEF ToolResult
        <4>3. CASE s = DenialStep(c)
          BY <4>1, <4>3, StepTypes DEF DenialStep
        <4> QED BY <4>2, <4>3
      <3>2. txLedger'[w] = txLedger[w]
        BY <2>4 DEF TxAnswered
      <3>3. Sound(txSteps'[w], txLedger'[w], approvals[r])
        BY <2>1, <2>4, <3>1, <3>2, SoundGrows
      <3>4. Sound(txSteps'[w], txLedger'[w], approvals'[r])
        BY <1>0, <2>1, <3>3, GrantsStep, SoundForLater
      <3> QED BY <2>1, <2>2, <2>4, <3>1, <3>2, <3>4
    <2>5. ASSUME NEW c \in todo[w], NEW ok \in BOOLEAN, Runnable(w, c),
                 txSteps'[w] = Append(txSteps[w], ToolResult(c, ok)), todo'[w] = todo[w] \ {c},
                 txLedger'[w] = Record(txLedger[w], [seq |-> Len(txSteps[w]) + 1,
                                        action |-> ActionOf(txSteps[w], c), ok |-> ok])
          PROVE  /\ Sound(txSteps'[w], txLedger'[w], approvals'[r])
                 /\ todo'[w] \subseteq Unresolved(txSteps'[w])
                 /\ ledger'[r] \subseteq txLedger'[w]
      <3>1. /\ ToolResult(c, ok) \in Step /\ ToolResult(c, ok).call = c
            /\ ToolResult(c, ok).kind \in {"tool_result", "approval"}
        BY <2>1, StepTypes DEF ToolResult
      <3>2. (\/ ActionOf(txSteps[w], c) \in Irreversible
             \/ Tainted(txSteps[w]) /\ ActionOf(txSteps[w], c) \notin Reads)
              => Granted(approvals[r], c, ActionOf(txSteps[w], c))
        BY <2>5 DEF Runnable, Gated, Approved, HasApproval, Granted
      <3>3. /\ txLedger[w] \subseteq txLedger'[w]
            /\ Sound(txSteps'[w], txLedger'[w], approvals[r])
        BY <2>1, <2>5, <3>2, SoundRun
      <3>4. Sound(txSteps'[w], txLedger'[w], approvals'[r])
        BY <1>0, <2>1, <3>3, GrantsStep, SoundForLater
      <3> QED BY <2>1, <2>2, <2>5, <3>1, <3>3, <3>4
    <2> QED BY <1>3, <2>3, <2>4, <2>5 DEF TxAnswered, TxRan
  <1> QED BY <1>0, <1>1, <1>2, <1>3, TxStep DEF TxAnswered, TxRan

(* Nobody writes the records of a run while the worker that holds it waits   *)
(* for the model.                                                            *)
LEMMA WaitingRecordKept ==
  ASSUME IInv, [Next]_vars, NEW w \in Workers, run[w] \in Runs,
         pc[w] = "model", owner[run[w]] = w, pc'[w] = "model"
  PROVE  RecordKept(run[w])
  <1>1. ASSUME NEW v \in Workers, RecordNoted(run[w], v) PROVE FALSE
    BY <1>1 DEF RecordNoted, AskModel, MayAskModel, Holds
  <1>2. ASSUME NEW v \in Workers, RecordReplied(run[w], v) PROVE FALSE
    BY <1>2 DEF RecordReplied
  <1>3. ASSUME NEW v \in Workers, RecordCommitted(run[w], v) PROVE FALSE
    BY <1>3 DEF RecordCommitted, IInv, SettlerHolds, Holds
  <1> QED BY <1>1, <1>2, <1>3, RecordStep DEF RecordMoves

(* So a worker that asked with every call answered finds it still so.        *)
LEMMA AskerStillWaits ==
  ASSUME RInv, [Next]_vars, NEW w \in Workers
  PROVE  AskerWaits(w)'
  <1>0. TypeOK /\ IInv
    BY DEF RInv, IInv
  <1>1. SUFFICES ASSUME pc'[w] = "model", owner'[run'[w]] = w
                 PROVE  Unresolved(steps'[run'[w]]) = {}
    BY DEF AskerWaits
  <1>2. run'[w] = run[w] /\ run[w] \in Runs /\ steps[run[w]] \in Seq(Step)
    BY <1>0, <1>1, AskerStep DEF TypeOK
  <1>3. CASE AskModel(w)
    <2>1. Unresolved(steps[run[w]]) = {}
      BY <1>3 DEF AskModel, MayAskModel
    <2>2. \/ steps' = steps
          \/ steps' = [steps EXCEPT ![run[w]] = Append(steps[run[w]], Notice)]
      BY <1>3 DEF AskModel
    <2>3. Unresolved(Append(steps[run[w]], Notice)) = {}
      <3>1. Notice \in Step /\ Notice.kind = "notice"
        BY StepTypes DEF Notice
      <3> QED BY <1>2, <2>1, <3>1, AsideMoves
    <2> QED BY <1>0, <1>2, <2>1, <2>2, <2>3 DEF TypeOK
  <1>4. CASE pc[w] = "model" /\ owner[run[w]] = w
    <2>1. Unresolved(steps[run[w]]) = {}
      BY <1>4 DEF RInv, AskerWaits
    <2>2. RecordKept(run[w])
      BY <1>0, <1>1, <1>2, <1>4, WaitingRecordKept
    <2> QED BY <1>2, <2>1, <2>2 DEF RecordKept
  <1> QED BY <1>0, <1>1, <1>3, <1>4, AskerStep

(* No request is put for a cancelled run, and cancelling answers them all.   *)
LEMMA QueueStaysClosed ==
  ASSUME RInv, [Next]_vars
  PROVE  CancelClosesTheQueue'
  <1>0. TypeOK /\ IInv
    BY DEF RInv, IInv
  <1>1. SUFFICES ASSUME NEW r \in Runs, status'[r] = "cancelled", NEW c \in DOMAIN approvals'[r],
                        approvals'[r][c].status = "pending"
                 PROVE  FALSE
    BY DEF CancelClosesTheQueue, IsPending
  <1>2. CASE CancelWrite(r)
    <2>1. approvals'[r] = Close(approvals[r])
      BY <1>0, <1>2 DEF CancelWrite, TypeOK
    <2>2. c \in DOMAIN approvals[r] /\ approvals[r][c] \in Approval
      BY <1>0, <2>1 DEF Close, TypeOK
    <2>3. Close(approvals[r])[c] = IF approvals[r][c].status = "pending"
                                   THEN [approvals[r][c] EXCEPT !.status = "expired"]
                                   ELSE approvals[r][c]
      BY <2>2 DEF Close
    <2> QED BY <1>1, <2>1, <2>2, <2>3 DEF Approval
  <1>3. CASE status[r] = "cancelled"
    <2>1. \A w \in Workers : ~(pc[w] = "settling" /\ run[w] = r)
      BY <1>0, <1>3 DEF IInv, SettlerHolds, Holds
    <2>2. c \in DOMAIN approvals[r]
      BY <1>0, <2>1, RequestStep DEF RequestsOpen
    <2>3. approvals[r][c].status = "pending"
      BY <1>0, <1>1, <2>2, RequestStep DEF RequestsKept
    <2> QED BY <1>3, <2>2, <2>3 DEF RInv, CancelClosesTheQueue, IsPending
  <1> QED BY <1>0, <1>1, <1>2, <1>3, CancelStep

(* Every step keeps all of it.                                               *)
LEMMA RInvStep == RInv /\ [Next]_vars => RInv'
  <1> SUFFICES ASSUME RInv, [Next]_vars PROVE RInv'
    OBVIOUS
  <1>1. IInv'
    BY TypeStep, SettlerStep DEF RInv, IInv
  <1>2. \A r \in Runs : Sound(steps'[r], ledger'[r], approvals'[r])
    BY CommittedStaySound
  <1> QED BY <1>1, <1>2, SettlerStaysSound, AskerStillWaits, QueueStaysClosed DEF RInv

(* Every record is sound, those still in an open transaction included.       *)
THEOREM RecordsAreSound == Spec => []RInv
  BY InitRInv, RInvStep, PTL DEF Spec

(* Invariant 2 of the runtime (approvals.py), for any runs, workers, turns,  *)
(* crashes and decisions: what an irreversible call, or any write of a run   *)
(* that read text addressed to the agent, has on the ledger, a person        *)
(* approved, and approved as it was run.                                     *)
THEOREM ConsentHoldsAlways == Spec => []ConsentHolds
  <1>1. RInv => ConsentHolds
    BY DEF RInv, Sound, Consented, Needed, Granted, ConsentHolds, NeededPerson
  <1> QED BY RecordsAreSound, <1>1, PTL

(* A call is answered once, after its turn and before the model is asked     *)
(* again (transcript.py): no interleaving of workers answers it twice.       *)
THEOREM TurnsAreAnsweredAlways == Spec => []TurnsAreAnswered
  <1>1. RInv => TurnsAreAnswered
    BY DEF RInv, Sound, Ordered, Proposed, TurnsAreAnswered
  <1> QED BY RecordsAreSound, <1>1, PTL

(* Exactly once (invoke.py): each ledger row is that of the step with its    *)
(* seq, and a step has one row at most.                                      *)
THEOREM LedgerFollowsLogAlways == Spec => []LedgerFollowsLog
  <1>1. RInv => LedgerFollowsLog
    BY DEF RInv, Sound, Booked, LedgerFollowsLog
  <1> QED BY RecordsAreSound, <1>1, PTL

(* A cancelled run has no request left open (cancel_run), even if a worker   *)
(* was settling a turn that asks while the cancellation came in.             *)
THEOREM CancelClosesTheQueueAlways == Spec => []CancelClosesTheQueue
  <1>1. RInv => CancelClosesTheQueue
    BY DEF RInv
  <1> QED BY RecordsAreSound, <1>1, PTL

-----------------------------------------------------------------------------
(* The runtime implements the consent gate, for any runs, workers and turns. *)
(* Asked, Acted and Closed name the mapping of Gate run by run.  That        *)
(* requests move as the gate's do is RequestStep.  That acts are performed   *)
(* as the gate performs them rests on the sound records, before the step     *)
(* and after it: a transaction commits only rows whose calls had their       *)
(* consent before the commit, and a call that was performed once is one step *)
(* of the log, so that a second act for it would be a second answer.         *)

(* The consents and acts of r, and the runs that are over, as Gate maps them. *)
Asked(r) == [c \in DOMAIN approvals[r] |->
               IF IsPending(r, c) THEN "asked" ELSE approvals[r][c].status]
Acted(r) == {<<steps[r][row.seq].call, row.action>> : row \in {x \in ledger[r] : x.ok}}
Closed == {r \in Runs : status[r] \in Ended}

(* An empty database is an unused gate.                                      *)
LEMMA GateInit == Init => Gate!Init
  <1> SUFFICES ASSUME Init PROVE Gate!Init
    OBVIOUS
  <1>1. \A r \in Runs : Asked(r) = [c \in {} |-> "asked"]
    BY DEF Init, Asked
  <1>2. \A r \in Runs : Acted(r) = {}
    BY DEF Init, Acted
  <1>3. Closed = {}
    BY DEF Init, Closed, Ended
  <1> QED BY <1>1, <1>2, <1>3 DEF Gate!Init, Asked, Acted, Closed

(* Requests are put while their run is open, stay, and are answered at most  *)
(* once.                                                                     *)
LEMMA AskedMoves ==
  ASSUME RInv, [Next]_vars, NEW r \in Runs
  PROVE  /\ DOMAIN Asked(r) \subseteq DOMAIN Asked(r)'
         /\ \A c \in DOMAIN Asked(r)' :
              IF c \in DOMAIN Asked(r)
              THEN \/ Asked(r)'[c] = Asked(r)[c]
                   \/ Asked(r)[c] = "asked" /\ Asked(r)'[c] \in {"approved", "denied", "expired"}
              ELSE Asked(r)'[c] = "asked" /\ r \notin Closed
  <1>1. IInv /\ TypeOK
    BY DEF RInv, IInv
  <1>2. RequestsKept(r) /\ RequestsOpen(r)
    BY <1>1, RequestStep
  <1>3. /\ DOMAIN Asked(r) = DOMAIN approvals[r]
        /\ \A c \in DOMAIN approvals[r] :
             Asked(r)[c] = IF approvals[r][c].status = "pending" THEN "asked"
                           ELSE approvals[r][c].status
    BY DEF Asked, IsPending
  <1>4. /\ DOMAIN Asked(r)' = DOMAIN approvals'[r]
        /\ \A c \in DOMAIN approvals'[r] :
             Asked(r)'[c] = IF approvals'[r][c].status = "pending" THEN "asked"
                            ELSE approvals'[r][c].status
    BY DEF Asked, IsPending
  <1>5. ASSUME NEW c \in DOMAIN approvals[r]
        PROVE  /\ c \in DOMAIN approvals'[r]
               /\ \/ Asked(r)'[c] = Asked(r)[c]
                  \/ Asked(r)[c] = "asked" /\ Asked(r)'[c] \in {"approved", "denied", "expired"}
    BY <1>2, <1>3, <1>4 DEF RequestsKept
  <1>6. ASSUME NEW c \in DOMAIN approvals'[r] \ DOMAIN approvals[r]
        PROVE  Asked(r)'[c] = "asked" /\ r \notin Closed
    <2>1. PICK w \in Workers : pc[w] = "settling" /\ run[w] = r
      BY <1>2 DEF RequestsOpen
    <2>2. status[r] = "running"
      BY <1>1, <2>1 DEF IInv, SettlerHolds, Holds
    <2>3. Asked(r)'[c] = "asked"
      BY <1>2, <1>4 DEF RequestsOpen
    <2> QED BY <2>2, <2>3 DEF Closed, Ended
  <1> QED BY <1>3, <1>4, <1>5, <1>6

(* The ledger of a run only grows, and only by the commit of a transaction.  *)
LEMMA LedgerMoves ==
  ASSUME RInv, [Next]_vars, NEW r \in Runs
  PROVE  /\ ledger[r] \subseteq ledger'[r]
         /\ ledger'[r] # ledger[r] => \E w \in Workers : RecordCommitted(r, w)
         /\ Extends(steps[r], steps'[r])
  <1>1. IInv /\ TypeOK /\ TypeOK'
    BY TypeStep DEF RInv, IInv
  <1>2. RecordMoves(r) /\ RowMoves(r)
    BY <1>1, RecordStep, RowStep
  <1>3. Extends(steps[r], steps'[r])
    BY <1>1, <1>2 DEF RowMoves, Quiet, Woken, Leased, Cut, Written, Extends, TypeOK
  <1>4. ledger[r] \subseteq ledger'[r]
    BY <1>2, CommitSound DEF RecordMoves, RecordKept, RecordNoted, RecordReplied
  <1>5. ledger'[r] # ledger[r] => \E w \in Workers : RecordCommitted(r, w)
    BY <1>2 DEF RecordMoves, RecordKept, RecordNoted, RecordReplied
  <1> QED BY <1>3, <1>4, <1>5

(* What is performed stays performed.                                        *)
LEMMA ActedGrows ==
  ASSUME RInv, [Next]_vars, NEW r \in Runs
  PROVE  Acted(r) \subseteq Acted(r)'
  <1>1. steps[r] \in Seq(Step) /\ Booked(steps[r], ledger[r])
    BY DEF RInv, IInv, TypeOK, Sound
  <1>2. ASSUME NEW row \in ledger[r]
        PROVE  row \in ledger'[r] /\ steps'[r][row.seq] = steps[r][row.seq]
    BY <1>1, LedgerMoves DEF Booked, Extends
  <1> QED BY <1>2 DEF Acted

(* What is performed was not performed before, belongs to an open run, and   *)
(* is irreversible only with a consent that was there before the step.       *)
LEMMA ActedMoves ==
  ASSUME RInv, [Next]_vars, NEW r \in Runs, NEW act \in Acted(r)' \ Acted(r)
  PROVE  /\ r \notin Closed
         /\ \A done \in Acted(r) : done[1] # act[1]
         /\ act[2] \in Irreversible =>
              act[1] \in DOMAIN Asked(r) /\ Asked(r)[act[1]] = "approved"
  <1>1. IInv /\ TypeOK
    BY DEF RInv, IInv
  <1>2. PICK row \in ledger'[r] : row.ok /\ act = <<steps'[r][row.seq].call, row.action>>
    BY DEF Acted
  <1>3. act[1] = steps'[r][row.seq].call /\ act[2] = row.action
    BY <1>2
  <1>4. /\ steps[r] \in Seq(Step) /\ Booked(steps[r], ledger[r])
        /\ Sound(steps'[r], ledger'[r], approvals'[r])
        /\ ledger[r] \subseteq ledger'[r] /\ Extends(steps[r], steps'[r])
    BY CommittedStaySound, LedgerMoves DEF RInv, IInv, TypeOK, Sound
  <1>5. \A old \in ledger[r] : old \in ledger'[r] /\ steps'[r][old.seq] = steps[r][old.seq]
    BY <1>4 DEF Booked, Extends
  <1>6. row \notin ledger[r]
    <2>1. SUFFICES ASSUME row \in ledger[r] PROVE FALSE
      OBVIOUS
    <2>2. act = <<steps[r][row.seq].call, row.action>>
      BY <1>2, <1>5, <2>1
    <2> QED BY <1>2, <2>1, <2>2 DEF Acted
  <1>7. PICK w \in Workers : RecordCommitted(r, w)
    BY <1>6, LedgerMoves
  <1>8. status[r] = "running"
    BY <1>1, <1>7 DEF RecordCommitted, IInv, SettlerHolds, Holds
  <1>9. ASSUME NEW done \in Acted(r), done[1] = act[1] PROVE FALSE
    <2>1. PICK old \in ledger[r] : done = <<steps[r][old.seq].call, old.action>>
      BY DEF Acted
    <2>2. done[1] = steps[r][old.seq].call
      BY <2>1
    <2>3. steps'[r][old.seq].call = steps'[r][row.seq].call /\ old \in ledger'[r]
      BY <1>3, <1>5, <1>9, <2>2
    <2>4. old.seq \in Answers(steps'[r]) /\ row.seq \in Answers(steps'[r])
      BY <1>4, <2>3 DEF Sound, Booked, Answers
    <2>5. old.seq = row.seq
      BY <1>4, <2>3, <2>4 DEF Sound, Ordered
    <2>6. old = row
      BY <1>4, <2>3, <2>5 DEF Sound, Booked
    <2> QED BY <1>6, <2>6
  <1>10. ASSUME row.action \in Irreversible
         PROVE  Granted(approvals[r], steps'[r][row.seq].call, row.action)
    <2>1. Sound(steps'[r], ledger'[r], approvals[r])
      BY <1>7, CommitSound
    <2> QED BY <1>10, <2>1 DEF Sound, Consented, Needed
  <1>11. act[2] \in Irreversible => act[1] \in DOMAIN Asked(r) /\ Asked(r)[act[1]] = "approved"
    BY <1>3, <1>10 DEF Granted, Asked, IsPending
  <1> QED BY <1>8, <1>9, <1>11 DEF Closed, Ended

(* A run that is over stays over.                                            *)
LEMMA ClosedGrows ==
  ASSUME RInv, [Next]_vars
  PROVE  Closed \subseteq Closed'
  <1> SUFFICES ASSUME NEW r \in Runs, status[r] \in Ended PROVE status'[r] \in Ended
    BY DEF Closed
  <1>1. IInv
    BY DEF RInv
  <1>2. ~Woken(r) /\ \A w \in Workers : ~Written(r, w)
    BY DEF Woken, Written, Holds, Ended
  <1> QED BY <1>1, <1>2, RowStep DEF RowMoves, Quiet, Leased, Cut

(* The runtime implements the consent gate: every step of the workers, the   *)
(* clocks and the people is a step of the gate or none.                      *)
THEOREM RuntimeImplementsTheGate == Spec => ImplementsConsentGate
  <1>1. RInv /\ [Next]_vars => [Gate!Next]_Gate!vars
    <2> SUFFICES ASSUME RInv, [Next]_vars PROVE Gate!Next
      OBVIOUS
    <2>1. \A r \in Runs : Gate!ConsentMoves(r)
      BY AskedMoves DEF Gate!ConsentMoves, Gate!Answer, Asked, Closed
    <2>2. \A r \in Runs : Gate!Performs(r)
      BY ActedGrows, ActedMoves DEF Gate!Performs, Acted, Asked, Closed
    <2> QED BY <2>1, <2>2, ClosedGrows DEF Gate!Next, Closed
  <1> QED BY GateInit, RecordsAreSound, <1>1, PTL DEF Spec, ImplementsConsentGate, Gate!Spec

-----------------------------------------------------------------------------
(* How far a run can pass its ceilings.  The step cap and the loop detector  *)
(* are looked at before a model call and not while a turn is being settled,  *)
(* so the bound is the ceiling and one turn.  What makes it inductive is the *)
(* room a record has kept for the calls it has still to answer: Roomy adds   *)
(* the unresolved calls of the last turn to what is on record already.  A    *)
(* reply takes its room when it opens the turn, an answer moves one call     *)
(* from the unresolved to the record.                                        *)

(* The steps a turn may take: its answers, or the ending.                    *)
TurnRoom == IF LongestTurn > 1 THEN LongestTurn ELSE 1

(* The rows of one tool with the same arguments.                             *)
Alike(rows, a) == {x \in rows : x.action = a}

(* With every call of its last turn answered, the record is within bounds.   *)
Roomy(log, rows) ==
  /\ IsFiniteSet(Unresolved(log)) /\ IsFiniteSet(rows)
  /\ Len(log) + Cardinality(Unresolved(log)) <= MaxSteps + 1 + TurnRoom
  /\ \A a \in Actions :
       Cardinality(Alike(rows, a)) + Cardinality(Unresolved(log)) <= LoopThreshold - 1 + LongestTurn

(* A worker that has asked the model and still holds the run asked below     *)
(* both ceilings.                                                            *)
AskedBelow(w) ==
  pc[w] = "model" /\ owner[run[w]] = w =>
    /\ Len(steps[run[w]]) <= MaxSteps
    /\ \A a \in Actions : Cardinality(Alike(ledger[run[w]], a)) <= LoopThreshold - 1

(* The inductive invariant of the bounds.                                    *)
BInv ==
  /\ RInv
  /\ \A r \in Runs : Roomy(steps[r], ledger[r])
  /\ \A w \in Workers : /\ AskedBelow(w)
                        /\ pc[w] = "settling" => Roomy(txSteps[w], txLedger[w])

-----------------------------------------------------------------------------

(* No turn is longer than the longest one.                                   *)
LEMMA LongestTurnBounds ==
  /\ LongestTurn \in Nat /\ TurnRoom \in Nat /\ TurnRoom >= 1 /\ LongestTurn <= TurnRoom
  /\ \A reply \in Replies \cup {<<>>} : Len(reply) \in Nat /\ Len(reply) <= LongestTurn
  <1> DEFINE Lengths == {Len(reply) : reply \in Replies}
  <1>1. \A reply \in Replies : Len(reply) \in Nat
    BY CallsAssumption
  <1>2. PICK longest \in Replies : \A reply \in Replies : Len(reply) <= Len(longest)
    BY TurnsAssumption
  <1>3. \E n \in Lengths : \A reply \in Replies : Len(reply) <= n
    BY <1>2
  <1>4. LongestTurn \in Lengths /\ \A reply \in Replies : Len(reply) <= LongestTurn
    BY <1>3 DEF LongestTurn
  <1>5. LongestTurn \in Nat
    BY <1>1, <1>4
  <1>6. Len(<<>>) = 0
    OBVIOUS
  <1> QED BY <1>1, <1>4, <1>5, <1>6 DEF TurnRoom

(* Rows alike are finitely many if the rows are.                             *)
LEMMA AlikeCounts ==
  ASSUME NEW rows, IsFiniteSet(rows), NEW a
  PROVE  IsFiniteSet(Alike(rows, a)) /\ Cardinality(Alike(rows, a)) \in Nat
  <1>1. Alike(rows, a) \in SUBSET rows
    BY DEF Alike
  <1>2. IsFiniteSet(Alike(rows, a))
    BY <1>1, FS_Subset
  <1> QED BY <1>2, FS_CardinalityType

(* A reply leaves as many calls unresolved as it makes, at most.             *)
LEMMA ReplyCounts ==
  ASSUME NEW log \in Seq(Step), NEW s \in Step, s.kind = "model_call"
  PROVE  /\ IsFiniteSet(Unresolved(Append(log, s)))
         /\ Cardinality(Unresolved(Append(log, s))) \in Nat
         /\ Cardinality(Unresolved(Append(log, s))) <= Len(s.calls)
  <1> DEFINE n == Len(log) + 1
             k == Len(s.calls)
             T == {<<n, i>> : i \in 1..k}
             f == [i \in 1..k |-> <<n, i>>]
             U == Unresolved(Append(log, s))
  <1>1. s.calls \in Seq(Actions) /\ k \in Nat /\ DOMAIN s.calls = 1..k
    BY DEF Step
  <1>2. U \in SUBSET T
    BY <1>1, ReplyMoves
  <1>3. f \in Surjection(1..k, T)
    BY DEF Surjection, Range
  <1>4. IsFiniteSet(1..k) /\ Cardinality(1..k) = k
    BY <1>1, FS_Interval
  <1> HIDE DEF f, T, U
  <1>5. IsFiniteSet(T) /\ Cardinality(T) <= k
    BY <1>3, <1>4, FS_Surjection
  <1>6. IsFiniteSet(U) /\ Cardinality(U) <= Cardinality(T)
    BY <1>2, <1>5, FS_Subset
  <1>7. Cardinality(U) \in Nat /\ Cardinality(T) \in Nat
    BY <1>5, <1>6, FS_CardinalityType
  <1> QED BY <1>1, <1>5, <1>6, <1>7 DEF U

(* An answer leaves one call less unresolved.                                *)
LEMMA AnswerCounts ==
  ASSUME NEW log \in Seq(Step), NEW s \in Step, s.kind \in {"tool_result", "approval"},
         s.call \in Unresolved(log), IsFiniteSet(Unresolved(log))
  PROVE  /\ IsFiniteSet(Unresolved(Append(log, s)))
         /\ Cardinality(Unresolved(log)) \in Nat
         /\ Cardinality(Unresolved(Append(log, s))) = Cardinality(Unresolved(log)) - 1
         /\ Len(Append(log, s)) = Len(log) + 1
  <1>1. Unresolved(Append(log, s)) = Unresolved(log) \ {s.call}
    BY AnswerMoves
  <1>2. Len(Append(log, s)) = Len(log) + 1
    OBVIOUS
  <1> QED BY <1>1, <1>2, FS_RemoveElement, FS_CardinalityType

(* A record with room has it after an answer that adds no row.               *)
LEMMA RoomyAnswer ==
  ASSUME NEW log \in Seq(Step), NEW s \in Step, s.kind \in {"tool_result", "approval"},
         s.call \in Unresolved(log), NEW rows, Roomy(log, rows)
  PROVE  Roomy(Append(log, s), rows)
  <1>1. /\ IsFiniteSet(Unresolved(Append(log, s)))
        /\ Cardinality(Unresolved(log)) \in Nat
        /\ Cardinality(Unresolved(Append(log, s))) = Cardinality(Unresolved(log)) - 1
        /\ Len(Append(log, s)) = Len(log) + 1 /\ Len(log) \in Nat
    BY AnswerCounts DEF Roomy
  <1>2. /\ LongestTurn \in Nat /\ TurnRoom \in Nat /\ MaxSteps \in Nat /\ LoopThreshold \in Nat
    BY LongestTurnBounds, BoundsAssumption
  <1>3. \A a \in Actions :
          Cardinality(Alike(rows, a)) + Cardinality(Unresolved(Append(log, s)))
            <= LoopThreshold - 1 + LongestTurn
    <2> TAKE a \in Actions
    <2>1. Cardinality(Alike(rows, a)) \in Nat
      BY AlikeCounts DEF Roomy
    <2> QED BY <1>1, <1>2, <2>1 DEF Roomy
  <1> QED BY <1>1, <1>2, <1>3 DEF Roomy

(* And after an answer that adds its row.                                    *)
LEMMA RoomyRun ==
  ASSUME NEW log \in Seq(Step), NEW s \in Step, s.kind \in {"tool_result", "approval"},
         s.call \in Unresolved(log), NEW rows, NEW row, Roomy(log, rows)
  PROVE  Roomy(Append(log, s), Record(rows, row))
  <1>1. CASE \E old \in rows : old.seq = row.seq
    BY <1>1, RoomyAnswer DEF Record
  <1>2. CASE ~ \E old \in rows : old.seq = row.seq
    <2>1. Record(rows, row) = rows \cup {row}
      BY <1>2 DEF Record
    <2>2. /\ IsFiniteSet(Unresolved(Append(log, s)))
          /\ Cardinality(Unresolved(log)) \in Nat
          /\ Cardinality(Unresolved(Append(log, s))) = Cardinality(Unresolved(log)) - 1
          /\ Len(Append(log, s)) = Len(log) + 1 /\ Len(log) \in Nat
      BY AnswerCounts DEF Roomy
    <2>3. /\ LongestTurn \in Nat /\ TurnRoom \in Nat /\ MaxSteps \in Nat /\ LoopThreshold \in Nat
      BY LongestTurnBounds, BoundsAssumption
    <2>4. IsFiniteSet(rows \cup {row})
      BY FS_AddElement DEF Roomy
    <2>5. ASSUME NEW a \in Actions
          PROVE  Cardinality(Alike(rows \cup {row}, a)) + Cardinality(Unresolved(Append(log, s)))
                   <= LoopThreshold - 1 + LongestTurn
      <3>1. IsFiniteSet(Alike(rows, a)) /\ Cardinality(Alike(rows, a)) \in Nat
        BY AlikeCounts DEF Roomy
      <3>2. \/ Alike(rows \cup {row}, a) = Alike(rows, a)
            \/ Alike(rows \cup {row}, a) = Alike(rows, a) \cup {row}
        BY DEF Alike
      <3>3. Cardinality(Alike(rows, a) \cup {row}) \in {Cardinality(Alike(rows, a)),
                                                        Cardinality(Alike(rows, a)) + 1}
        BY <3>1, FS_AddElement
      <3>4. /\ Cardinality(Alike(rows \cup {row}, a)) \in Nat
            /\ Cardinality(Alike(rows \cup {row}, a)) <= Cardinality(Alike(rows, a)) + 1
        <4>1. CASE Alike(rows \cup {row}, a) = Alike(rows, a)
          BY <3>1, <4>1
        <4>2. CASE Alike(rows \cup {row}, a) = Alike(rows, a) \cup {row}
          <5>1. Cardinality(Alike(rows \cup {row}, a)) \in {Cardinality(Alike(rows, a)),
                                                          Cardinality(Alike(rows, a)) + 1}
            BY <3>3, <4>2, Zenon
          <5> QED BY <3>1, <5>1
        <4> QED BY <3>2, <4>1, <4>2
      <3>5. Cardinality(Alike(rows, a)) + Cardinality(Unresolved(log)) <= LoopThreshold - 1 + LongestTurn
        BY DEF Roomy
      <3> QED BY <2>2, <2>3, <3>1, <3>4, <3>5
    <2>6. Len(Append(log, s)) + Cardinality(Unresolved(Append(log, s))) <= MaxSteps + 1 + TurnRoom
      BY <2>2, <2>3 DEF Roomy
    <2> QED BY <2>1, <2>2, <2>4, <2>5, <2>6 DEF Roomy
  <1> QED BY <1>1, <1>2

(* A reply opens a turn with room for it, if the model was asked below the   *)
(* ceilings.                                                                 *)
LEMMA RoomyReply ==
  ASSUME NEW log \in Seq(Step), NEW reply \in Replies \cup {<<>>}, NEW rows, IsFiniteSet(rows),
         Len(log) <= MaxSteps,
         \A a \in Actions : Cardinality(Alike(rows, a)) <= LoopThreshold - 1
  PROVE  /\ Roomy(Append(log, ModelCall(reply)), rows)
         /\ reply = <<>> => Roomy(Append(Append(log, ModelCall(reply)), Final), rows)
  <1> DEFINE s == ModelCall(reply)
             new == Append(log, s)
  <1>1. /\ s \in Step /\ s.kind = "model_call" /\ s.calls = reply
        /\ Final \in Step /\ Final.kind = "final"
    <2>1. <<>> \in Seq(Actions)
      OBVIOUS
    <2> QED BY <2>1, CallsAssumption, StepTypes DEF ModelCall, Final
  <1>2. /\ IsFiniteSet(Unresolved(new)) /\ Cardinality(Unresolved(new)) \in Nat
        /\ Cardinality(Unresolved(new)) <= Len(reply)
        /\ new \in Seq(Step) /\ Len(new) = Len(log) + 1 /\ Len(log) \in Nat
    BY <1>1, ReplyCounts, Appended
  <1>3. /\ LongestTurn \in Nat /\ TurnRoom \in Nat /\ TurnRoom >= 1 /\ LongestTurn <= TurnRoom
        /\ Len(reply) \in Nat /\ Len(reply) <= LongestTurn
        /\ MaxSteps \in Nat /\ LoopThreshold \in Nat
    BY LongestTurnBounds, BoundsAssumption
  <1>4. \A a \in Actions : Cardinality(Alike(rows, a)) \in Nat
    BY AlikeCounts
  <1> HIDE DEF s
  <1>5. Roomy(new, rows)
    BY <1>2, <1>3, <1>4 DEF Roomy
  <1>6. ASSUME reply = <<>> PROVE Roomy(Append(new, Final), rows)
    <2>1. Unresolved(Append(new, Final)) = Unresolved(new)
      BY <1>1, <1>2, AsideMoves
    <2>2. Len(Append(new, Final)) = Len(new) + 1
      BY <1>1, <1>2
    <2>3. Len(reply) = 0
      BY <1>6
    <2> QED BY <1>2, <1>3, <1>4, <1>5, <2>1, <2>2, <2>3 DEF Roomy
  <1> QED BY <1>5, <1>6 DEF s

-----------------------------------------------------------------------------

(* There is room in an empty record.                                         *)
LEMMA InitBInv == Init => BInv
  <1> SUFFICES ASSUME Init PROVE BInv
    OBVIOUS
  <1>1. Unresolved(<<>>) = {}
    <2>1. LastTurn(<<>>) = {}
      BY DEF LastTurn, Turns
    <2> QED BY <2>1, UnresolvedCalls
  <1>2. /\ LongestTurn \in Nat /\ TurnRoom \in Nat /\ MaxSteps \in Nat
        /\ LoopThreshold \in Nat \ {0}
    BY LongestTurnBounds, BoundsAssumption
  <1>3. \A a \in Actions : Alike({}, a) = {}
    BY DEF Alike
  <1>4. Roomy(<<>>, {})
    BY <1>1, <1>2, <1>3, FS_EmptySet DEF Roomy
  <1>5. \A r \in Runs : Roomy(steps[r], ledger[r])
    BY <1>4 DEF Init
  <1>6. \A w \in Workers : pc[w] = "idle"
    BY DEF Init
  <1> QED BY <1>5, <1>6, InitRInv DEF BInv, AskedBelow

(* The committed records keep their room.                                    *)
LEMMA CommittedStayRoomy ==
  ASSUME BInv, [Next]_vars, NEW r \in Runs
  PROVE  Roomy(steps'[r], ledger'[r])
  <1>1. /\ IInv /\ RInv /\ Roomy(steps[r], ledger[r])
        /\ steps[r] \in Seq(Step) /\ IsFiniteSet(ledger[r])
    BY DEF BInv, RInv, IInv, TypeOK, Roomy
  <1>2. CASE RecordKept(r)
    BY <1>1, <1>2 DEF RecordKept
  <1>3. ASSUME NEW w \in Workers, RecordNoted(r, w) PROVE Roomy(steps'[r], ledger'[r])
    <2>1. /\ steps'[r] = Append(steps[r], Notice) /\ ledger'[r] = ledger[r]
          /\ Len(steps[r]) < MaxSteps /\ Unresolved(steps[r]) = {}
      BY <1>1, <1>3, BoundsAssumption DEF RecordNoted, AskModel, MayAskModel, AtStepCap
    <2>2. Unresolved(Append(steps[r], Notice)) = Unresolved(steps[r])
          /\ Len(Append(steps[r], Notice)) = Len(steps[r]) + 1
      <3>1. Notice \in Step /\ Notice.kind = "notice"
        BY StepTypes DEF Notice
      <3> QED BY <1>1, <3>1, AsideMoves
    <2>3. Cardinality(Unresolved(steps[r])) = 0
      BY <2>1, FS_EmptySet
    <2>4. Len(steps[r]) \in Nat /\ MaxSteps \in Nat /\ TurnRoom \in Nat
      BY <1>1, LongestTurnBounds, BoundsAssumption
    <2> QED BY <1>1, <2>1, <2>2, <2>3, <2>4 DEF Roomy
  <1>4. ASSUME NEW w \in Workers, RecordReplied(r, w) PROVE Roomy(steps'[r], ledger'[r])
    <2>1. /\ Len(steps[r]) <= MaxSteps
          /\ \A a \in Actions : Cardinality(Alike(ledger[r], a)) <= LoopThreshold - 1
      BY <1>4 DEF BInv, AskedBelow, RecordReplied
    <2> QED BY <1>1, <1>4, <2>1, RoomyReply DEF RecordReplied
  <1>5. ASSUME NEW w \in Workers, RecordCommitted(r, w) PROVE Roomy(steps'[r], ledger'[r])
    <2>1. /\ txSteps[w] \in Seq(Step) /\ Roomy(txSteps[w], txLedger[w])
          /\ todo[w] \subseteq Unresolved(txSteps[w]) /\ todo[w] \subseteq CallIds
          /\ ledger'[r] = txLedger[w]
      BY <1>5 DEF BInv, RInv, IInv, TypeOK, SettlerSound, RecordCommitted
    <2>2. ASSUME NEW c \in todo[w]
          PROVE  Roomy(Append(txSteps[w], ToolResult(c, TRUE)), txLedger[w])
      <3>1. /\ ToolResult(c, TRUE) \in Step /\ ToolResult(c, TRUE).kind = "tool_result"
            /\ ToolResult(c, TRUE).call \in Unresolved(txSteps[w])
        BY <2>1, StepTypes DEF ToolResult
      <3> QED BY <2>1, <3>1, RoomyAnswer
    <2> QED BY <1>5, <2>1, <2>2 DEF RecordCommitted
  <1> QED BY <1>1, <1>2, <1>3, <1>4, <1>5, RecordStep DEF RecordMoves

(* So does what a settling worker would commit.                              *)
LEMMA SettlerStaysRoomy ==
  ASSUME BInv, [Next]_vars, NEW w \in Workers, pc'[w] = "settling"
  PROVE  Roomy(txSteps'[w], txLedger'[w])
  <1>0. TypeOK /\ IInv /\ RInv
    BY DEF BInv, RInv, IInv
  <1>1. CASE BeginSettle(w)
    <2>1. run[w] \in Runs /\ txSteps'[w] = steps[run[w]] /\ txLedger'[w] = ledger[run[w]]
      BY <1>0, <1>1 DEF BeginSettle, TypeOK
    <2> QED BY <2>1 DEF BInv
  <1>2. CASE TxAnswered(w) \/ TxRan(w)
    <2>1. /\ txSteps[w] \in Seq(Step) /\ Roomy(txSteps[w], txLedger[w])
          /\ todo[w] \subseteq Unresolved(txSteps[w]) /\ todo[w] \subseteq CallIds
      BY <1>0, <1>2 DEF BInv, RInv, TypeOK, SettlerSound, TxAnswered, TxRan
    <2>2. ASSUME NEW c \in todo[w]
          PROVE  /\ \A ok \in BOOLEAN : /\ ToolResult(c, ok) \in Step
                                        /\ ToolResult(c, ok).kind = "tool_result"
                                        /\ ToolResult(c, ok).call \in Unresolved(txSteps[w])
                 /\ DenialStep(c) \in Step /\ DenialStep(c).kind = "approval"
                 /\ DenialStep(c).call \in Unresolved(txSteps[w])
      BY <2>1, StepTypes DEF ToolResult, DenialStep
    <2>3. CASE TxAnswered(w)
      <3>1. CASE txSteps'[w] = txSteps[w]
        BY <2>1, <2>3, <3>1 DEF TxAnswered
      <3>2. ASSUME NEW c \in todo[w], NEW s \in {ToolResult(c, FALSE), DenialStep(c)},
                   txSteps'[w] = Append(txSteps[w], s)
            PROVE  Roomy(txSteps'[w], txLedger'[w])
        <4>1. s \in Step /\ s.kind \in {"tool_result", "approval"} /\ s.call \in Unresolved(txSteps[w])
          BY <2>2
        <4> QED BY <2>1, <2>3, <3>2, <4>1, RoomyAnswer DEF TxAnswered
      <3> QED BY <2>3, <3>1, <3>2 DEF TxAnswered
    <2>4. CASE TxRan(w)
      BY <2>1, <2>2, <2>4, RoomyRun DEF TxRan
    <2> QED BY <1>2, <2>3, <2>4
  <1> QED BY <1>0, <1>1, <1>2, TxStep

(* A worker asks the model below the ceilings, and nobody else writes while  *)
(* it holds the run and waits.                                               *)
LEMMA AskerStaysBelow ==
  ASSUME BInv, [Next]_vars, NEW w \in Workers
  PROVE  AskedBelow(w)'
  <1>0. TypeOK /\ IInv /\ RInv
    BY DEF BInv, RInv, IInv
  <1>1. SUFFICES ASSUME pc'[w] = "model", owner'[run'[w]] = w
                 PROVE  /\ Len(steps'[run'[w]]) <= MaxSteps
                        /\ \A a \in Actions :
                             Cardinality(Alike(ledger'[run'[w]], a)) <= LoopThreshold - 1
    BY DEF AskedBelow
  <1>2. run'[w] = run[w] /\ run[w] \in Runs /\ steps[run[w]] \in Seq(Step)
    BY <1>0, <1>1, AskerStep DEF TypeOK
  <1>3. CASE AskModel(w)
    <2>1. /\ ~AtStepCap(steps[run[w]]) /\ ~Looping(ledger[run[w]]) /\ ledger' = ledger
          /\ \/ steps' = steps
             \/ steps' = [steps EXCEPT ![run[w]] = Append(steps[run[w]], Notice)]
      BY <1>3 DEF AskModel
    <2>2. Len(steps[run[w]]) < MaxSteps /\ Len(steps[run[w]]) \in Nat /\ MaxSteps \in Nat
      BY <1>2, <2>1, BoundsAssumption DEF AtStepCap
    <2>3. steps'[run[w]] \in {steps[run[w]], Append(steps[run[w]], Notice)}
      BY <1>0, <1>2, <2>1 DEF TypeOK
    <2>4. Notice \in Step
      BY StepTypes
    <2>5. Len(Append(steps[run[w]], Notice)) = Len(steps[run[w]]) + 1
      BY <1>2, <2>4
    <2>6. Len(steps'[run[w]]) <= MaxSteps
      BY <2>2, <2>3, <2>5
    <2>7. ASSUME NEW a \in Actions
          PROVE  Cardinality(Alike(ledger[run[w]], a)) <= LoopThreshold - 1
      <3>1. LoopThreshold \in Nat \ {0} /\ Cardinality(Alike(ledger[run[w]], a)) \in Nat
        BY <1>2, AlikeCounts, BoundsAssumption DEF BInv, Roomy
      <3>2. CASE \E row \in ledger[run[w]] : row.action = a
        <4>1. PICK row \in ledger[run[w]] : row.action = a
          BY <3>2
        <4>2. Alike(ledger[run[w]], a) = {other \in ledger[run[w]] : other.action = row.action}
          BY <4>1 DEF Alike
        <4>3. ~ (Cardinality({other \in ledger[run[w]] : other.action = row.action}) >= LoopThreshold)
          BY <2>1, <4>1 DEF Looping
        <4> QED BY <3>1, <4>2, <4>3
      <3>3. CASE ~ \E row \in ledger[run[w]] : row.action = a
        <4>1. Alike(ledger[run[w]], a) = {}
          BY <3>3 DEF Alike
        <4>2. Cardinality(Alike(ledger[run[w]], a)) = 0
          BY <4>1, FS_EmptySet
        <4> QED BY <3>1, <4>2
      <3> QED BY <3>2, <3>3
    <2> QED BY <1>2, <2>1, <2>6, <2>7
  <1>4. CASE pc[w] = "model" /\ owner[run[w]] = w
    <2>1. /\ Len(steps[run[w]]) <= MaxSteps
          /\ \A a \in Actions : Cardinality(Alike(ledger[run[w]], a)) <= LoopThreshold - 1
      BY <1>4 DEF BInv, AskedBelow
    <2>2. RecordKept(run[w])
      BY <1>0, <1>1, <1>2, <1>4, WaitingRecordKept
    <2> QED BY <1>2, <2>1, <2>2 DEF RecordKept
  <1> QED BY <1>0, <1>1, <1>3, <1>4, AskerStep

(* The bounds hold with the room they keep.                                  *)
THEOREM RoomIsKept == Spec => []BInv
  <1>1. BInv /\ [Next]_vars => BInv'
    <2> SUFFICES ASSUME BInv, [Next]_vars PROVE BInv'
      OBVIOUS
    <2>1. RInv'
      BY RInvStep DEF BInv
    <2>2. \A r \in Runs : Roomy(steps'[r], ledger'[r])
      BY CommittedStayRoomy
    <2> QED BY <2>1, <2>2, SettlerStaysRoomy, AskerStaysBelow DEF BInv
  <1> QED BY InitBInv, <1>1, PTL DEF Spec

(* A run's log passes the step cap by at most a notice and one turn          *)
(* (_bound_exceeded is looked at between turns only), for any cap and turns. *)
THEOREM StepOvershootHolds == Spec => []StepOvershoot
  <1>1. BInv => StepOvershoot
    <2> SUFFICES ASSUME BInv, NEW r \in Runs
                 PROVE  Len(steps[r]) <= MaxSteps + 1 + TurnRoom
      BY DEF StepOvershoot, TurnRoom
    <2>1. Roomy(steps[r], ledger[r]) /\ Len(steps[r]) \in Nat
      BY DEF BInv, RInv, IInv, TypeOK
    <2>2. Cardinality(Unresolved(steps[r])) \in Nat /\ MaxSteps \in Nat /\ TurnRoom \in Nat
      BY <2>1, FS_CardinalityType, LongestTurnBounds, BoundsAssumption DEF Roomy
    <2> QED BY <2>1, <2>2 DEF Roomy
  <1> QED BY RoomIsKept, <1>1, PTL

(* A run records the same call at most the threshold less one, and then one  *)
(* turn's worth (_looping is looked at between turns only).                  *)
THEOREM LoopIsCutHolds == Spec => []LoopIsCut
  <1>1. BInv => LoopIsCut
    <2> SUFFICES ASSUME BInv, NEW r \in Runs, NEW row \in ledger[r]
                 PROVE  Cardinality({x \in ledger[r] : x.action = row.action})
                          <= LoopThreshold - 1 + LongestTurn
      BY DEF LoopIsCut
    <2>1. Roomy(steps[r], ledger[r]) /\ row.action \in Actions
      BY DEF BInv, RInv, IInv, TypeOK, LedgerRow
    <2>2. /\ Cardinality(Unresolved(steps[r])) \in Nat
          /\ Cardinality(Alike(ledger[r], row.action)) \in Nat
          /\ LongestTurn \in Nat /\ LoopThreshold \in Nat
      BY <2>1, FS_CardinalityType, AlikeCounts, LongestTurnBounds, BoundsAssumption DEF Roomy
    <2>3. Cardinality(Alike(ledger[r], row.action)) + Cardinality(Unresolved(steps[r]))
            <= LoopThreshold - 1 + LongestTurn
      BY <2>1 DEF Roomy
    <2> QED BY <2>2, <2>3 DEF Alike
  <1> QED BY RoomIsKept, <1>1, PTL
=============================================================================
