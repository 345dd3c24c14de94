---------------------------- MODULE AgentRuntime ----------------------------
(***************************************************************************)
(* The agent runtime of deskhand: runs, the worker processes that lease    *)
(* and drive them, the turn-settling transaction, the approval gate and    *)
(* the requests people make (decide, cancel, list approvals).              *)
(*                                                                         *)
(* A worker drives a run in short transactions.  Settling a turn is one    *)
(* transaction over many tool calls, so here it is several steps: it opens *)
(* (the lease renewal locks the run's row), each call is settled against   *)
(* the approvals committed AT THAT MOMENT (READ COMMITTED), and it commits.*)
(* What it writes meanwhile is in the tx* variables of the worker and is   *)
(* lost if the worker dies.  Every other transaction touches a state no    *)
(* other transaction can change half-way, and is one step.                 *)
(***************************************************************************)
EXTENDS Naturals, Sequences, FiniteSets

CONSTANTS
  Runs,          \* run numbers, in order of creation (claim_next takes the oldest)
  Workers,       \* worker processes
  NoWorker,      \* the null lease owner
  Reads,         \* tool calls (tool and argument hash) of risk class read
  Hostile,       \* the reads whose result holds text addressed to the agent
  Reversible,    \* calls of risk class reversible
  Irreversible,  \* calls of risk class irreversible
  Invalid,       \* registered calls whose arguments fail the tool's schema
  Unregistered,  \* calls that name no registered tool
  Unstorable,    \* calls with an argument a jsonb column refuses (a NUL character)
  Replies,       \* what the model may answer: a sequence of calls, <<>> to finish
  MaxSteps,      \* max_steps of a run
  NoticeTurns,   \* NOTICE_TURNS
  LoopThreshold, \* loop_detection_threshold
  MaxCrashes     \* bound of the model: how many worker crashes are considered

Actions == Reads \cup Reversible \cup Irreversible \cup Unregistered

ASSUME RunsAssumption == Runs \subseteq Nat \ {0}
ASSUME OwnerAssumption == NoWorker \notin Workers
ASSUME BoundsAssumption ==
  /\ MaxSteps \in Nat \ {0}
  /\ NoticeTurns \in Nat
  /\ LoopThreshold \in Nat \ {0}
  /\ MaxCrashes \in Nat
ASSUME CallsAssumption ==
  /\ Hostile \subseteq Reads
  /\ Invalid \subseteq Reads \cup Reversible \cup Irreversible
  /\ Unstorable \subseteq (Reads \cup Reversible \cup Irreversible) \ Invalid
  /\ (Reads \cup Reversible \cup Irreversible) \cap Unregistered = {}
  /\ Irreversible \cap (Reads \cup Reversible) = {}
  /\ Replies \subseteq Seq(Actions)
(* max_tokens of a request (providers.py) bounds how many calls one answer holds. *)
ASSUME TurnsAssumption ==
  \E longest \in Replies : \A reply \in Replies : Len(reply) <= Len(longest)

VARIABLES
  status,     \* runs.status
  owner,      \* runs.lease_owner
  leaseLive,  \* lease_expires_at is in the future
  overdue,    \* a ceiling other than the step cap is reached (tokens, spend, deadline, budgets)
  steps,      \* the step log, by run
  ledger,     \* tool_invocations, by run
  approvals,  \* approvals, by run: a function on the calls that have one
  cancelling, \* a cancel request has read an open status and not yet written
  pc,         \* where each worker is in work_once / advance
  run,        \* the run a worker drives
  txSteps,    \* the step log as the worker's open transaction sees it
  txLedger,   \* and the ledger
  txAsks,     \* calls whose approval the open transaction has inserted
  todo,       \* calls of the turn the open transaction has still to settle
  waiting,    \* calls of the turn found pending (asked, in _settle)
  crashes     \* how many crashes so far

dbVars == <<status, owner, leaseLive, overdue, steps, ledger, approvals, cancelling>>
txVars == <<txSteps, txLedger, txAsks, todo, waiting>>
vars == <<status, owner, leaseLive, overdue, steps, ledger, approvals, cancelling,
          pc, run, txSteps, txLedger, txAsks, todo, waiting, crashes>>

Ended == {"succeeded", "failed", "exhausted", "cancelled"}
Statuses == {"queued", "running", "awaiting_approval"} \cup Ended

-----------------------------------------------------------------------------
(* The step log.  A call is named by the seq of the model_call step that   *)
(* proposed it and its position there: the model's tool_use id.            *)

NoRun == 0
CallIds == Nat \X Nat
NoCall == <<0, 0>>
Step == [kind: {"model_call", "tool_result", "approval", "final", "notice"},
         calls: Seq(Actions), call: CallIds, ok: BOOLEAN]

ModelCall(reply) == [kind |-> "model_call", calls |-> reply, call |-> NoCall, ok |-> TRUE]
ToolResult_NeverUpdated(c, ok) == [kind |-> "tool_result", calls |-> <<>>, call |-> c, ok |-> TRUE]
ToolResult(c, ok) == [kind |-> "tool_result", calls |-> <<>>, call |-> c, ok |-> ok]
DenialStep(c) == [kind |-> "approval", calls |-> <<>>, call |-> c, ok |-> FALSE]
Final == [kind |-> "final", calls |-> <<>>, call |-> NoCall, ok |-> TRUE]
Notice == [kind |-> "notice", calls |-> <<>>, call |-> NoCall, ok |-> TRUE]

ActionOf(log, c) == log[c[1]].calls[c[2]]

SettledIn(log) == {log[j].call : j \in {k \in DOMAIN log : log[k].kind \in {"tool_result", "approval"}}}

Turns(log) == {k \in DOMAIN log : log[k].kind = "model_call"}
CallsOf(log, k) == {<<k, i>> : i \in DOMAIN log[k].calls}

LastTurn(log) == {k \in Turns(log) : \A j \in Turns(log) : j <= k}

(* The calls of the latest turn that have neither run nor been refused. *)
Unresolved_ByResultsOnly(log) ==
  (UNION {CallsOf(log, k) : k \in LastTurn(log)})
    \ {log[j].call : j \in {k \in DOMAIN log : log[k].kind = "tool_result"}}
Unresolved(log) ==
  (UNION {CallsOf(log, k) : k \in LastTurn(log)}) \ SettledIn(log)

AtStepCap_OffByOne(log) == Len(log) > MaxSteps
AtStepCap(log) == Len(log) >= MaxSteps
Looping_OffByOne(rows) ==
  \E row \in rows :
    Cardinality({other \in rows : other.action = row.action}) > LoopThreshold
Looping(rows) ==
  \E row \in rows :
    Cardinality({other \in rows : other.action = row.action}) >= LoopThreshold
Told(log) == \E j \in DOMAIN log : log[j].kind = "notice"
ClosingIn(log) == (MaxSteps - Len(log)) \div 2 <= NoticeTurns

-----------------------------------------------------------------------------
(* Rows other transactions see.                                            *)

Approval == [action: Actions, status: {"pending", "approved", "denied", "expired"},
             stale: BOOLEAN]
LedgerRow == [seq: Nat, action: Actions, ok: BOOLEAN]

IsPending(r, c) == approvals[r][c].status = "pending"
IsStale(r, c) == IsPending(r, c) /\ approvals[r][c].stale

(* A worker inside the settling transaction holds the run's row lock. *)
Locked(r) == \E w \in Workers : pc[w] = "settling" /\ run[w] = r

(* renew_lease succeeds: it looks at the owner and the status, not at the clock. *)
Holds_AnyOwner(w, r) == status[r] = "running"
Holds(w, r) == owner[r] = w /\ status[r] = "running"

(* cancel_run closes every pending approval of the run. *)
Close_OnlyStale(f) ==
  [c \in DOMAIN f |-> IF f[c].status = "pending" /\ f[c].stale
                      THEN [f[c] EXCEPT !.status = "expired"] ELSE f[c]]
Close_AsCancelled(f) ==
  [c \in DOMAIN f |-> IF f[c].status = "pending" THEN [f[c] EXCEPT !.status = "cancelled"]
                      ELSE f[c]]
Close(f) ==
  [c \in DOMAIN f |-> IF f[c].status = "pending" THEN [f[c] EXCEPT !.status = "expired"]
                      ELSE f[c]]

(* expire_stale: every timed-out approval of every run, and the runs it wakes. *)
Swept_ParkedRunsOnly == [r \in Runs |-> [c \in DOMAIN approvals[r] |->
            IF IsStale(r, c) /\ status[r] = "awaiting_approval"
            THEN [approvals[r][c] EXCEPT !.status = "expired"]
            ELSE approvals[r][c]]]
Swept == [r \in Runs |-> [c \in DOMAIN approvals[r] |->
            IF IsStale(r, c) THEN [approvals[r][c] EXCEPT !.status = "expired"]
                             ELSE approvals[r][c]]]
Requeued_WhateverStatus(R) == [r \in Runs |-> IF r \in R THEN "queued" ELSE status[r]]
Requeued(R) == [r \in Runs |-> IF r \in R /\ status[r] = "awaiting_approval" THEN "queued"
                                                                           ELSE status[r]]
StaleRuns_NoneWoken == {}
StaleRuns == {r \in Runs : \E c \in DOMAIN approvals[r] : IsStale(r, c)}

Init ==
  /\ status = [r \in Runs |-> "queued"]
  /\ owner = [r \in Runs |-> NoWorker]
  /\ leaseLive = [r \in Runs |-> FALSE]
  /\ overdue = [r \in Runs |-> FALSE]
  /\ steps = [r \in Runs |-> <<>>]
  /\ ledger = [r \in Runs |-> {}]
  /\ approvals = [r \in Runs |-> [c \in {} |-> NoCall]]
  /\ cancelling = [r \in Runs |-> FALSE]
  /\ pc = [w \in Workers |-> "idle"]
  /\ run = [w \in Workers |-> NoRun]
  /\ txSteps = [w \in Workers |-> <<>>]
  /\ txLedger = [w \in Workers |-> {}]
  /\ txAsks = [w \in Workers |-> {}]
  /\ todo = [w \in Workers |-> {}]
  /\ waiting = [w \in Workers |-> {}]
  /\ crashes = 0

-----------------------------------------------------------------------------
(* Where a worker goes after a transaction.                                *)

ClearTx(w) ==
  /\ txSteps' = [txSteps EXCEPT ![w] = <<>>]
  /\ txLedger' = [txLedger EXCEPT ![w] = {}]
  /\ txAsks' = [txAsks EXCEPT ![w] = {}]
  /\ todo' = [todo EXCEPT ![w] = {}]
  /\ waiting' = [waiting EXCEPT ![w] = {}]

GoIdle(w) ==
  /\ pc' = [pc EXCEPT ![w] = "idle"]
  /\ run' = [run EXCEPT ![w] = NoRun]

GoTo(w, place) ==
  /\ pc' = [pc EXCEPT ![w] = place]
  /\ UNCHANGED run

(* runs.finish: sets the status whatever it was and drops the lease. *)
Finish(r, ending) ==
  /\ status' = [status EXCEPT ![r] = ending]
  /\ owner' = [owner EXCEPT ![r] = NoWorker]
  /\ leaseLive' = [leaseLive EXCEPT ![r] = FALSE]

(* runs.suspend_for_approval: parks the run and releases the lease. *)
Suspend(r) ==
  /\ status' = [status EXCEPT ![r] = "awaiting_approval"]
  /\ owner' = [owner EXCEPT ![r] = NoWorker]
  /\ leaseLive' = [leaseLive EXCEPT ![r] = FALSE]

(* runs.renew_lease, at the commit that makes it visible. *)
Renewed(r) ==
  /\ leaseLive' = [leaseLive EXCEPT ![r] = TRUE]
  /\ UNCHANGED <<status, owner>>

-----------------------------------------------------------------------------
(* work_once: sweep timed-out approvals, then claim the oldest run that is  *)
(* queued or whose lease has expired, skipping the locked ones.             *)

Claimable ==
  LET now == Requeued(StaleRuns) IN
  {r \in Runs : /\ ~Locked(r)
                /\ \/ now[r] = "queued"
                   \/ now[r] = "running" /\ ~leaseLive[r]}

Poll(w) ==
  /\ pc[w] = "idle"
  /\ approvals' = Swept
  /\ \/ /\ Claimable = {}
        /\ status' = Requeued(StaleRuns)
        /\ UNCHANGED <<owner, leaseLive, pc, run>>
     \/ \E r \in Claimable :
          /\ \A other \in Claimable : r <= other
          /\ status' = [Requeued(StaleRuns) EXCEPT ![r] = "running"]
          /\ owner' = [owner EXCEPT ![r] = w]
          /\ leaseLive' = [leaseLive EXCEPT ![r] = TRUE]
          /\ pc' = [pc EXCEPT ![w] = "top"]
          /\ run' = [run EXCEPT ![w] = r]
  /\ UNCHANGED <<overdue, steps, ledger, cancelling, txVars, crashes>>

(* renew_lease matched no row: LeaseLost, at the top of the loop or after  *)
(* the model has answered; the answer is dropped.                          *)
LoseLease(w) ==
  /\ pc[w] \in {"top", "model"}
  /\ ~Locked(run[w])
  /\ ~Holds(w, run[w])
  /\ GoIdle(w)
  /\ UNCHANGED <<dbVars, txVars, crashes>>

-----------------------------------------------------------------------------
(* advance, nothing outstanding.                                           *)

MayAskModel(w) ==
  /\ pc[w] = "top"
  /\ ~Locked(run[w])
  /\ Holds(w, run[w])
  /\ Unresolved(steps[run[w]]) = {}

(* _bound_exceeded or _looping ends the run before a model call is paid for. *)
Exhaust(w) ==
  LET r == run[w] IN
  /\ MayAskModel(w)
  /\ AtStepCap(steps[r]) \/ overdue[r] \/ Looping(ledger[r])
  /\ Finish(r, "exhausted")
  /\ GoIdle(w)
  /\ UNCHANGED <<overdue, steps, ledger, approvals, cancelling, txVars, crashes>>

(* No ceiling is reached: say once that one is near (`soon` stands for the  *)
(* clock and the bill, which the notice also looks at), commit, call.       *)
AskModel(w) ==
  LET r == run[w] IN
  /\ MayAskModel(w)
  /\ ~AtStepCap(steps[r]) /\ ~overdue[r] /\ ~Looping(ledger[r])
  /\ \E soon \in BOOLEAN :
       steps' = IF ~Told(steps[r]) /\ (ClosingIn(steps[r]) \/ soon)
                THEN [steps EXCEPT ![r] = Append(@, Notice)]
                ELSE steps
  /\ Renewed(r)
  /\ GoTo(w, "model")
  /\ UNCHANGED <<overdue, ledger, approvals, cancelling, txVars, crashes>>

(* _record_reply: the model called tools, or finished (an empty reply). *)
RecordReply(w) ==
  LET r == run[w] IN
  /\ pc[w] = "model"
  /\ ~Locked(r)
  /\ Holds(w, r)
  /\ \E reply \in Replies :
       \/ /\ reply # <<>>
          /\ steps' = [steps EXCEPT ![r] = Append(@, ModelCall(reply))]
          /\ Renewed(r)
          /\ GoTo(w, "top")
       \/ /\ reply = <<>>
          /\ steps' = [steps EXCEPT ![r] = @ \o <<ModelCall(reply), Final>>]
          /\ Finish(r, "succeeded")
          /\ GoIdle(w)
  /\ UNCHANGED <<overdue, ledger, approvals, cancelling, txVars, crashes>>

(* _record_reply: a refusal is recorded with what part of an answer it came *)
(* with, and ends the run.                                                  *)
RecordRefusal(w) ==
  LET r == run[w] IN
  /\ pc[w] = "model"
  /\ ~Locked(r)
  /\ Holds(w, r)
  /\ \E partial \in Replies \cup {<<>>} :
       steps' = [steps EXCEPT ![r] = Append(@, ModelCall(partial))]
  /\ Finish(r, "failed")
  /\ GoIdle(w)
  /\ UNCHANGED <<overdue, ledger, approvals, cancelling, txVars, crashes>>

(* The provider raised: work_once's handler finishes the run as failed,    *)
(* without looking at the lease or the status.                             *)
ProviderError(w) ==
  /\ pc[w] = "model"
  /\ ~Locked(run[w])
  /\ Finish(run[w], "failed")
  /\ GoIdle(w)
  /\ UNCHANGED <<overdue, steps, ledger, approvals, cancelling, txVars, crashes>>

-----------------------------------------------------------------------------
(* _settle: one transaction over the outstanding calls of the turn.        *)

BeginSettle(w) ==
  LET r == run[w] IN
  /\ pc[w] = "top"
  /\ ~Locked(r)
  /\ Holds(w, r)
  /\ Unresolved(steps[r]) # {}
  /\ todo' = [todo EXCEPT ![w] = Unresolved(steps[r])]
  /\ txSteps' = [txSteps EXCEPT ![w] = steps[r]]
  /\ txLedger' = [txLedger EXCEPT ![w] = ledger[r]]
  /\ GoTo(w, "settling")
  /\ UNCHANGED <<dbVars, txAsks, waiting, crashes>>

IsNext(w, c) ==
  /\ pc[w] = "settling"
  /\ c \in todo[w]
  /\ \A other \in todo[w] : c[2] <= other[2]

(* policy.after_text_addressed_to_the_agent: the text of a failed call holds *)
(* nothing addressed to the agent.                                          *)
Tainted(log) ==
  \E j \in DOMAIN log : /\ log[j].kind = "tool_result"
                        /\ log[j].ok
                        /\ ActionOf(log, log[j].call) \in Hostile

(* policy.already_declined: another call of the run, the same tool and arguments. *)
AlreadyDeclined(r, c, a) ==
  \E d \in DOMAIN approvals[r] \ {c} :
    approvals[r][d].action = a /\ approvals[r][d].status = "denied"

Gated_ByRegistryOnly(w, c) ==
  \/ ActionOf(txSteps[w], c) \in Irreversible
  \/ c \in DOMAIN approvals[run[w]]

(* policy.evaluate asks for a person, or an approval row is already there. *)
Gated(w, c) ==
  LET a == ActionOf(txSteps[w], c) IN
  \/ a \in Irreversible
  \/ Tainted(txSteps[w]) /\ a \notin Reads
  \/ c \in DOMAIN approvals[run[w]]

(* Settled with a failed result and nothing else: no such tool, a rule     *)
(* denies it, or it would have to be asked about and does not validate.    *)
Refusable(w, c) ==
  LET a == ActionOf(txSteps[w], c) IN
  \/ a \in Unregistered
  \/ AlreadyDeclined(run[w], c, a)
  \/ Gated(w, c) /\ a \in Invalid

Reaches(w, c) ==
  /\ IsNext(w, c)
  /\ ~Refusable(w, c)

Storable(w, c) == ActionOf(txSteps[w], c) \notin Unstorable

HasApproval(w, c, state) ==
  /\ c \in DOMAIN approvals[run[w]]
  /\ approvals[run[w]][c].status = state

Approved_OnceAsked(w, c) ==
  /\ c \in DOMAIN approvals[run[w]]
  /\ approvals[run[w]][c].action = ActionOf(txSteps[w], c)

(* Consent is for the arguments that were shown. *)
Approved(w, c) ==
  /\ HasApproval(w, c, "approved")
  /\ approvals[run[w]][c].action = ActionOf(txSteps[w], c)

Runnable(w, c) ==
  /\ Reaches(w, c)
  /\ Storable(w, c)
  /\ ~Gated(w, c) \/ Approved(w, c)

SettleWith(w, c, step) ==
  /\ txSteps' = [txSteps EXCEPT ![w] = Append(@, step)]
  /\ todo' = [todo EXCEPT ![w] = @ \ {c}]

RefuseCall(w) ==
  \E c \in todo[w] :
    /\ IsNext(w, c)
    /\ Refusable(w, c)
    /\ SettleWith(w, c, ToolResult(c, FALSE))
    /\ UNCHANGED <<dbVars, pc, run, txLedger, txAsks, waiting, crashes>>

(* approvals.request: insert unless there is a row, and find it pending. *)
AskPerson(w) ==
  \E c \in todo[w] :
    LET r == run[w] IN
    /\ Reaches(w, c)
    /\ Gated(w, c)
    /\ Storable(w, c)
    /\ \/ c \notin DOMAIN approvals[r]
       \/ HasApproval(w, c, "pending") /\ ~IsStale(r, c)
    /\ txAsks' = [txAsks EXCEPT ![w] = @ \cup ({c} \ DOMAIN approvals[r])]
    /\ waiting' = [waiting EXCEPT ![w] = @ \cup {c}]
    /\ todo' = [todo EXCEPT ![w] = @ \ {c}]
    /\ UNCHANGED <<dbVars, pc, run, txSteps, txLedger, crashes>>

RecordDenial(w) ==
  \E c \in todo[w] :
    /\ Reaches(w, c)
    /\ HasApproval(w, c, "denied")
    /\ SettleWith(w, c, DenialStep(c))
    /\ UNCHANGED <<dbVars, pc, run, txLedger, txAsks, waiting, crashes>>

(* invoke: a recorded key is not run again; else the handler runs in a      *)
(* savepoint and its row is written, failed if it raised a ToolError.       *)
Record(rows, row) ==
  IF \E old \in rows : old.seq = row.seq THEN rows ELSE rows \cup {row}

RunCall(w) ==
  \E c \in todo[w], ok \in BOOLEAN :
    LET a == ActionOf(txSteps[w], c) IN
    /\ Runnable(w, c)
    /\ a \in Invalid => ~ok
    /\ SettleWith(w, c, ToolResult(c, ok))
    /\ txLedger' = [txLedger EXCEPT ![w] =
         Record(@, [seq |-> Len(txSteps[w]) + 1, action |-> a, ok |-> ok])]
    /\ UNCHANGED <<dbVars, pc, run, txAsks, waiting, crashes>>

-----------------------------------------------------------------------------
(* How the settling transaction ends.                                      *)

WithAsks(w, table) ==
  [table EXCEPT ![run[w]] =
     [c \in DOMAIN @ \cup txAsks[w] |->
        IF c \in DOMAIN @ THEN @[c]
        ELSE [action |-> ActionOf(txSteps[w], c), status |-> "pending", stale |-> FALSE]]]

Commit(w, log) ==
  /\ steps' = [steps EXCEPT ![run[w]] = log]
  /\ ledger' = [ledger EXCEPT ![run[w]] = txLedger[w]]
  /\ UNCHANGED <<overdue, cancelling, crashes>>

(* Every call has been looked at: suspend if any waits for a person. *)
CommitTurn(w) ==
  LET r == run[w] IN
  /\ pc[w] = "settling"
  /\ todo[w] = {}
  /\ Commit(w, txSteps[w])
  /\ approvals' = WithAsks(w, approvals)
  /\ \/ /\ waiting[w] # {}
        /\ Suspend(r)
        /\ GoIdle(w)
     \/ /\ waiting[w] = {}
        /\ Renewed(r)
        /\ GoTo(w, "top")
  /\ ClearTx(w)

(* The approval timed out (found stale here, or expired by a sweep), or it  *)
(* is for other arguments: the run fails.  Finding it stale sweeps as well. *)
EndUnanswered(w) ==
  \E c \in todo[w] :
    LET r == run[w] IN
    /\ Reaches(w, c)
    /\ Storable(w, c)
    /\ c \in DOMAIN approvals[r]
    /\ \/ IsStale(r, c)
       \/ approvals[r][c].status = "expired"
       \/ HasApproval(w, c, "approved") /\ ~Approved(w, c)
    /\ Commit(w, txSteps[w])
    /\ approvals' = WithAsks(w, IF IsStale(r, c) THEN Swept ELSE approvals)
    /\ status' = [Requeued(IF IsStale(r, c) THEN StaleRuns ELSE {}) EXCEPT ![r] = "failed"]
    /\ owner' = [owner EXCEPT ![r] = NoWorker]
    /\ leaseLive' = [leaseLive EXCEPT ![r] = FALSE]
    /\ GoIdle(w)
    /\ ClearTx(w)

(* A handler raised something that is not a ToolError: its savepoint is     *)
(* undone, and work_once's handler fails the run ON THE SAME TRANSACTION,   *)
(* committing the step appended before the call.                            *)
HandlerError(w) ==
  \E c \in todo[w] :
    /\ Runnable(w, c)
    /\ ActionOf(txSteps[w], c) \notin Invalid
    /\ Commit(w, Append(txSteps[w], ToolResult(c, TRUE)))
    /\ approvals' = WithAsks(w, approvals)
    /\ Finish(run[w], "failed")
    /\ GoIdle(w)
    /\ ClearTx(w)

(* The database refused a statement outside the savepoint: the transaction  *)
(* is aborted, work_once's finish raises too, and everything rolls back.    *)
DatabaseError(w) ==
  \E c \in todo[w] :
    /\ Reaches(w, c)
    /\ ~Storable(w, c)
    /\ GoIdle(w)
    /\ ClearTx(w)
    /\ UNCHANGED <<dbVars, crashes>>

-----------------------------------------------------------------------------
(* The environment: crashes, clocks, people.                               *)

(* The process dies, or its connection does: the transaction is lost. *)
Crash(w) ==
  /\ pc[w] # "idle"
  /\ crashes < MaxCrashes
  /\ crashes' = crashes + 1
  /\ GoIdle(w)
  /\ ClearTx(w)
  /\ UNCHANGED dbVars

LeaseExpires(r) ==
  /\ leaseLive[r]
  /\ leaseLive' = [leaseLive EXCEPT ![r] = FALSE]
  /\ UNCHANGED <<status, owner, overdue, steps, ledger, approvals, cancelling,
                 pc, run, txVars, crashes>>

(* A ceiling other than the step cap is reached.  The wait for a person does *)
(* not count: requeue moves the deadline by the time spent suspended.        *)
CeilingReached(r) ==
  /\ status[r] \in {"queued", "running"}
  /\ overdue' = [overdue EXCEPT ![r] = TRUE]
  /\ UNCHANGED <<status, owner, leaseLive, steps, ledger, approvals, cancelling,
                 pc, run, txVars, crashes>>

ApprovalTimesOut(r) ==
  \E c \in DOMAIN approvals[r] :
    /\ IsPending(r, c)
    /\ approvals' = [approvals EXCEPT ![r][c].stale = TRUE]
    /\ UNCHANGED <<status, owner, leaseLive, overdue, steps, ledger, cancelling,
                   pc, run, txVars, crashes>>

(* approvals.decide: a pending, unexpired approval; then requeue the run.   *)
Decide(r) ==
  \E c \in DOMAIN approvals[r], decision \in {"approved", "denied"} :
    /\ IsPending(r, c) /\ ~IsStale(r, c)
    /\ approvals' = [approvals EXCEPT ![r][c].status = decision]
    /\ status' = Requeued({r})
    /\ UNCHANGED <<owner, leaseLive, overdue, steps, ledger, cancelling,
                   pc, run, txVars, crashes>>

(* list_approvals sweeps before it answers. *)
ListApprovals ==
  /\ StaleRuns # {}
  /\ approvals' = Swept
  /\ status' = Requeued(StaleRuns)
  /\ UNCHANGED <<owner, leaseLive, overdue, steps, ledger, cancelling,
                 pc, run, txVars, crashes>>

(* cancel_run reads the status in one transaction ...  *)
CancelRead(r) ==
  /\ status[r] \notin Ended
  /\ cancelling' = [cancelling EXCEPT ![r] = TRUE]
  /\ UNCHANGED <<status, owner, leaseLive, overdue, steps, ledger, approvals,
                 pc, run, txVars, crashes>>

(* ... and writes in another, which waits for the run's row. *)
CancelWrite(r) ==
  /\ cancelling[r]
  /\ ~Locked(r)
  /\ Finish(r, "cancelled")
  /\ approvals' = [approvals EXCEPT ![r] = Close(@)]
  /\ cancelling' = [cancelling EXCEPT ![r] = FALSE]
  /\ UNCHANGED <<overdue, steps, ledger, pc, run, txVars, crashes>>

-----------------------------------------------------------------------------
WorkerStep(w) ==
  \/ Poll(w) \/ LoseLease(w)
  \/ Exhaust(w) \/ AskModel(w)
  \/ RecordReply(w) \/ RecordRefusal(w) \/ ProviderError(w)
  \/ BeginSettle(w) \/ RefuseCall(w) \/ AskPerson(w) \/ RecordDenial(w) \/ RunCall(w)
  \/ CommitTurn(w) \/ EndUnanswered(w) \/ HandlerError(w) \/ DatabaseError(w)

Next ==
  \/ \E w \in Workers : WorkerStep(w) \/ Crash(w)
  \/ \E r \in Runs : \/ LeaseExpires(r) \/ CeilingReached(r) \/ ApprovalTimesOut(r)
                     \/ Decide(r) \/ CancelRead(r) \/ CancelWrite(r)
  \/ ListApprovals

Spec == Init /\ [][Next]_vars

(* What the code's scheduling gives.  Workers poll forever and finish what   *)
(* they began unless they die; a provider call returns or raises; a lease    *)
(* (60 s), the ceilings' clock and an approval (a day) run out.  A worker     *)
(* that takes the lease again and again gets to use it: at the top of the    *)
(* loop it is a few statements away from a transaction that locks the row.   *)
Fairness ==
  /\ \A w \in Workers :
       /\ WF_vars(Poll(w))
       /\ WF_vars(LoseLease(w) \/ RecordReply(w) \/ RecordRefusal(w) \/ ProviderError(w))
       /\ WF_vars(RefuseCall(w) \/ AskPerson(w) \/ RecordDenial(w) \/ RunCall(w)
                    \/ CommitTurn(w) \/ EndUnanswered(w) \/ HandlerError(w)
                    \/ DatabaseError(w))
       /\ SF_vars(BeginSettle(w) \/ Exhaust(w) \/ AskModel(w))
  /\ \A r \in Runs :
       /\ WF_vars(LeaseExpires(r))
       /\ WF_vars(CeilingReached(r))
       /\ WF_vars(ApprovalTimesOut(r))

FairSpec == Spec /\ Fairness

-----------------------------------------------------------------------------
(* Properties.                                                             *)

(* Every variable has its type. *)
TypeOK ==
  /\ status \in [Runs -> Statuses]
  /\ owner \in [Runs -> Workers \cup {NoWorker}]
  /\ leaseLive \in [Runs -> BOOLEAN]
  /\ overdue \in [Runs -> BOOLEAN]
  /\ steps \in [Runs -> Seq(Step)]
  /\ ledger \in [Runs -> SUBSET LedgerRow]
  /\ DOMAIN approvals = Runs
  /\ \A r \in Runs : /\ DOMAIN approvals[r] \subseteq CallIds
                     /\ \A c \in DOMAIN approvals[r] : approvals[r][c] \in Approval
  /\ cancelling \in [Runs -> BOOLEAN]
  /\ pc \in [Workers -> {"idle", "top", "model", "settling"}]
  /\ run \in [Workers -> Runs \cup {NoRun}]
  /\ \A w \in Workers : pc[w] # "idle" => run[w] \in Runs
  /\ txSteps \in [Workers -> Seq(Step)]
  /\ txLedger \in [Workers -> SUBSET LedgerRow]
  /\ txAsks \in [Workers -> SUBSET CallIds]
  /\ todo \in [Workers -> SUBSET CallIds]
  /\ waiting \in [Workers -> SUBSET CallIds]
  /\ crashes \in Nat

(* Invariant 2 of the runtime (approvals.py): whatever the ledger says ran   *)
(* and needed a person, because it is irreversible or because the run had    *)
(* read text addressed to the agent, has an approval of that very call, with *)
(* that action, that a person granted.                                       *)
NeededPerson(r, row) ==
  \/ row.action \in Irreversible
  \/ row.action \notin Reads /\ Tainted(SubSeq(steps[r], 1, row.seq - 1))

ConsentHolds ==
  \A r \in Runs : \A row \in ledger[r] :
    NeededPerson(r, row) =>
      LET c == steps[r][row.seq].call IN
      /\ c \in DOMAIN approvals[r]
      /\ approvals[r][c].status = "approved"
      /\ approvals[r][c].action = row.action

(* The conversation is well formed (transcript.py): a call is answered once, *)
(* after the turn that made it, and before the model is asked again.         *)
Answers(log) == {j \in DOMAIN log : log[j].kind \in {"tool_result", "approval"}}

TurnsAreAnswered ==
  \A r \in Runs :
    LET log == steps[r] IN
    /\ \A i, j \in Answers(log) : log[i].call = log[j].call => i = j
    /\ \A j \in Answers(log) : /\ log[j].call[1] \in Turns(log)
                               /\ log[j].call[1] < j
                               /\ log[j].call[2] \in DOMAIN log[log[j].call[1]].calls
    /\ \A k, m \in Turns(log) : m < k => CallsOf(log, m) \subseteq SettledIn(SubSeq(log, 1, k))

(* Exactly once (invoke.py): a ledger row belongs to the step with its seq,  *)
(* of the same call and outcome, and no two rows share a seq.                *)
LedgerFollowsLog ==
  \A r \in Runs : \A row \in ledger[r] :
    /\ row.seq \in DOMAIN steps[r]
    /\ steps[r][row.seq].kind = "tool_result"
    /\ steps[r][row.seq].ok = row.ok
    /\ ActionOf(steps[r], steps[r][row.seq].call) = row.action
    /\ \A other \in ledger[r] : other.seq = row.seq => other = row

(* A cancelled run leaves nobody a decision to make (cancel_run), even when  *)
(* a worker was settling a turn that asks while the request came in.         *)
CancelClosesTheQueue ==
  \A r \in Runs : status[r] = "cancelled" =>
    \A c \in DOMAIN approvals[r] : ~IsPending(r, c)

(* How far a run can pass its step cap (_bound_exceeded is checked before a  *)
(* model call only): the notice, the call, and the longest turn's answers.   *)
LongestTurn == CHOOSE n \in {Len(reply) : reply \in Replies} :
                 \A reply \in Replies : Len(reply) <= n
StepOvershoot ==
  \A r \in Runs : Len(steps[r]) <= MaxSteps + 1 + (IF LongestTurn > 1 THEN LongestTurn ELSE 1)

(* Identical calls are cut off (_looping is checked between turns only): a   *)
(* run records at most the threshold less one, and then one turn's worth.    *)
LoopIsCut ==
  \A r \in Runs : \A row \in ledger[r] :
    Cardinality({x \in ledger[r] : x.action = row.action}) <= LoopThreshold - 1 + LongestTurn

(* Nobody writes to the record of a run that has ended, and it never opens   *)
(* again: not a worker that was slow, crashed, or mid-call when it ended.    *)
NothingAfterTheEnd ==
  [][\A r \in Runs : status[r] \in Ended =>
       status'[r] \in Ended /\ steps'[r] = steps[r] /\ ledger'[r] = ledger[r]]_vars

(* "Continuing to write would be the error" (renew_lease): only the worker   *)
(* that holds the lease adds to the log, and the log only grows.             *)
OnlyTheHolderWrites ==
  [][\A r \in Runs : steps'[r] # steps[r] =>
       /\ \E w \in Workers : /\ run[w] = r /\ owner[r] = w /\ status[r] = "running"
                             /\ pc[w] # "idle" /\ pc'[w] # pc[w]
       /\ \A j \in DOMAIN steps[r] : j \in DOMAIN steps'[r] /\ steps'[r][j] = steps[r][j]]_vars

(* "Another worker took this run. Stop touching it immediately." (LeaseLost): *)
(* a worker ends a run only while it holds the run's lease.                   *)
OnlyTheHolderEnds ==
  [][\A r \in Runs, w \in Workers :
       /\ status'[r] # status[r]
       /\ status'[r] \in Ended \ {"cancelled"}
       /\ run[w] = r /\ pc'[w] = "idle"
       => owner[r] = w /\ status[r] = "running"]_vars

(* A run parked for a person has a question a person, or the clock, can      *)
(* still answer (expire_stale: a run left in awaiting_approval forever is    *)
(* indistinguishable from one waiting on an attentive human).                *)
ParkedRunHasAQuestion ==
  \A r \in Runs : status[r] = "awaiting_approval" =>
    \E c \in DOMAIN approvals[r] : IsPending(r, c)

(* The runtime implements the consent gate: an approval row is a request or  *)
(* its answer, a successful ledger row is the act (the handler's writes      *)
(* commit with it), an ending is for good.                                   *)
Gate == INSTANCE ConsentGate WITH
  consent <- [r \in Runs |-> [c \in DOMAIN approvals[r] |->
                IF IsPending(r, c) THEN "asked" ELSE approvals[r][c].status]],
  performed <- [r \in Runs |-> {<<steps[r][row.seq].call, row.action>> :
                                  row \in {x \in ledger[r] : x.ok}}],
  over <- {r \in Runs : status[r] \in Ended}

ImplementsConsentGate == Gate!Spec

(* A step that says a call succeeded is backed by the ledger: an error that  *)
(* is not the model's business leaves no ledger row and the step is retried  *)
(* intact (invoke).                                                          *)
OkStepsAreInTheLedger ==
  \A r \in Runs : \A j \in DOMAIN steps[r] :
    steps[r][j].kind = "tool_result" /\ steps[r][j].ok =>
      \E row \in ledger[r] : row.seq = j /\ row.ok

(* Every run ends, whatever the model answers, whoever dies and whether or   *)
(* not anybody looks at the approvals.                                       *)
EveryRunEnds == \A r \in Runs : <>(status[r] \in Ended)

(* Only a call whose arguments the database refuses keeps a run from ending: *)
(* its settling is rolled back and begun again (invoke, work_once).          *)
Unstored(r) == \E c \in Unresolved(steps[r]) : ActionOf(steps[r], c) \in Unstorable
EveryStorableRunEnds == \A r \in Runs : <>(status[r] \in Ended) \/ <>[]Unstored(r)

(* The approval queue drains: a request is answered or expires, the ones a   *)
(* run left behind when it ended included.                                   *)
HasPending(r) == \E c \in DOMAIN approvals[r] : IsPending(r, c)
QueueDrains == \A r \in Runs : HasPending(r) ~> ~HasPending(r)
=============================================================================
