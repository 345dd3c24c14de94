# deskhand in TLA+

deskhand runs a support agent: a model proposes tool calls, a runtime records
every step, asks a person before anything irreversible happens, and executes
what is allowed. Everything the system knows is in PostgreSQL; API processes
and worker processes share nothing else. This directory holds its formal
specifications, the TLC configurations that check them and the proofs TLAPS
checks.

    tlc -workers 2 -config RuntimeSafety.cfg MCAgentRuntime
    tlc -workers 2 -config Compensation.cfg MCCompensation
    tlapm AgentRuntimeProofs.tla

(The proof modules: `AgentRuntimeProofs`, `TranscriptProofs`, `MockRunProofs`,
`PayoutsProofs`, `CompensationProofs`, `TriggerPortProofs`, `AdmissionProofs`,
`EventStreamProofs`.)

(`PROJECT.json` names the module and the configuration of every run.)

## 1. The system

| component | state it keeps | operations | talks to |
|---|---|---|---|
| run lifecycle (`runtime/runs.py`) | `runs`: status, lease owner and expiry, bounds, attempt | create, claim_next, renew_lease, suspend_for_approval, requeue, finish | everything below |
| agent loop (`runtime/loop.py`) | `steps`, an append-only log by run; nothing in memory | advance, _record_reply, _settle, _bound_exceeded, _looping, _closing_in | provider, policy, approvals, invoke |
| worker (`worker.py`) | one run or one compensation in hand | work_once, compensate_once | loop, compensation |
| approvals (`runtime/approvals.py`) | `approvals`, at most one row for a call | request, lookup, decide, expire_stale, pending_for_org | runs.requeue |
| policy (`runtime/policy.py`) | none; reads `steps` and `approvals` | evaluate with two rules | loop |
| invocation (`tools/invoke.py`) | `tool_invocations`, unique by (run, seq) | invoke | tool handlers, inside the caller's transaction |
| refunds (`tools/irreversible.py`) | `refunds`; row locks on `orders` and `orgs` | _issue_refund, _ceilings, and e-mail and order cancellation | invoke |
| compensation (`runtime/compensation.py`, `tools/reversible.py`) | `compensations`, `compensation_items`, the inverses in the ledger | plan, create, claim_next, advance, _fail | worker, API |
| HTTP API (`main.py`) | none | start_run, cancel_run, decide_approval, list_approvals, stream_run, compensation requests, views | all of the above |
| transcript (`runtime/transcript.py`) | none; a function of `steps` | rebuild, quarantine | loop, replay |
| rate limiter (`ratelimit.py`) | in-memory windows, one per process | allow | API |
| providers, pricing, replay, auth, tracing, seed | clients, read-only commands, set-up | | |
| Trigger.dev port (`trigger/src`) | the same tables, position held by a durable task | advance, askHuman, appendStep | the task service |
| frontend, evals, demo | none of the system's | | the API |

Interaction is by rows. A worker claims a run (`for update skip locked`), and
then works in short transactions; between them it holds a lease, not a lock.
The model is called outside any transaction. A turn's tool calls are settled in
one transaction which holds the run's row lock from its first statement
(`renew_lease` updates the row). People act through the API at any moment. The
database runs READ COMMITTED, so each statement of a long transaction sees what
other transactions have committed by then.

What is hard, and what should hold:

* **Leases** (`loop.py`, `runs.py`). A worker that was slow is not dead. The log
  of a run must have one writer at a time, and none once the run has ended.
* **Consent** (`approvals.py`, `policy.py`). A decision, its expiry and a
  cancellation race with the transaction that looks the approval up. An act that
  needs a person must be backed by an approval of that very call.
* **Resuming** (`loop.py`, `invoke.py`). A worker may die anywhere. Each proposed
  call is answered once, and acted on at most once.
* **Waking up** (`approvals.py`). A parked run is woken by a decision or by the
  clock; a queue of approvals must drain.
* **Ending** (`loop.py`, `worker.py`). Ceilings, loops, refusals, errors and
  crashes must all lead to an ended run.
* **Money** (`irreversible.py`). Three ceilings at once, over several orders,
  several refunds in a transaction, several runs, and midnight.
* **Compensation**. Each inverse once, in order, by whichever worker holds it.
* **Streams and admission** (`main.py`). Reads in separate transactions that are
  used together; checks in one transaction and inserts in the next.

`PROJECT.json` lists the hazards one by one, with their lines.

## 2. Modules

| module | what it is |
|---|---|
| `AgentRuntime` | runs, workers, leases, the loop, settling, approvals, policy verdicts, the ledger and the requests that change a run |
| `ConsentGate` | the abstract promise: asking, answering, acting once, on consent, before the end |
| `MCAgentRuntime` | instances of `AgentRuntime`: the turns the model may propose |
| `AgentRuntimeProofs` | theorems about `AgentRuntime`: its types, who writes a run and when; the log, the ledger and the approvals; the refinement of `ConsentGate`; by how much ceilings are passed |
| `Payouts` | `issue_refund` and `_ceilings` by several runs, with row locks, savepoints and the day |
| `MCPayouts` | an instance: two runs, two orders, one merchant, two days |
| `PayoutsProofs` | the theorems about `Payouts` |
| `Transcript` | extends `AgentRuntime` with what it leaves out of a message: what the model is shown, what each recorded turn answered, and `approvals.step_seq`; rebuild, the fan-out for the second service, replay |
| `TranscriptProofs` | extends `AgentRuntimeProofs`: calls answered in their place, what a replay gives back, where a decision is shown |
| `MCTranscript` | `MCAgentRuntime`'s instance with these messages |
| `MockRun`, `MCMockRun` | `Transcript` with the keyless provider choosing the calls, over five worlds |
| `MockRunProofs` | extends `TranscriptProofs`: the turns taken are those of the plan of any later moment |
| `Compensation`, `MCCompensation` | the reversible tools, the plan, the request and the leased walk back of a run |
| `WalkBack` | the abstract promise of a compensation |
| `CompensationProofs` | theorems about `Compensation`: its types, inverses applied once, rows and outcome, the refinement of `WalkBack`, what the ticket shows |
| `Admission` | `POST /runs`, the rate limiter, the spend ceilings and the daily budgets |
| `AdmissionProofs` | theorems about `Admission`: the window, double runs, the budgets; sums over sets |
| `EventStream`, `MCEventStream` | extends `Admission`: the event stream of a run and the browser's view of it |
| `EventStreamProofs` | extends `AdmissionProofs`: the types, holes in the view, what `done` promises |
| `TriggerPort`, `MCTriggerPort` | the port of the loop to a task service, against the same `ConsentGate` |
| `TriggerPortProofs` | theorems about `TriggerPort`: types, ledger, bill, answers, the refinement of `ConsentGate` |

`Transcript` extends `AgentRuntime`, `MockRun` extends `Transcript`, `EventStream`
extends `Admission`: each adds variables and constrains or extends the steps of the
module below it. `AgentRuntime` and `TriggerPort` both instantiate `ConsentGate`;
`Compensation` instantiates `WalkBack`.

### AgentRuntime

A *call* is named by the step that proposed it and its place there (the
tool_use id); its *action* is the tool with its arguments, which is what the
ledger's and the approvals' `args_hash` tell apart. The sets `Reads`,
`Reversible`, `Irreversible`, `Hostile`, `Invalid`, `Unregistered` and
`Unstorable` say all that the runtime's control looks at.

| variable | in the code |
|---|---|
| `status`, `owner`, `leaseLive` | `runs.status`, `lease_owner`, whether `lease_expires_at` is in the future |
| `overdue` | one of the ceilings other than the step cap is reached |
| `steps`, `ledger`, `approvals` | the three tables, by run |
| `cancelling` | a cancel request between its read and its write |
| `pc`, `run` | where a worker is: idle, at the top of the loop, waiting for the model, settling |
| `txSteps`, `txLedger`, `txAsks`, `todo`, `waiting` | the open settling transaction |

Actions and code: `Poll` is `work_once` up to the claim, the sweep included.
`Exhaust`, `AskModel`, `RecordReply`, `RecordRefusal` and `LoseLease` are the
transactions of `advance`; `ProviderError` is the `except` of `work_once`.
Settling is one transaction but many steps, because what it reads of the
approvals is what is committed at each moment: `BeginSettle`, then for each call
in order one of `RefuseCall`, `AskPerson`, `RecordDenial`, `RunCall`, then
`CommitTurn`; or an ending inside it: `EndUnanswered`, `HandlerError`,
`DatabaseError`. `Decide`, `ListApprovals`, `CancelRead` and `CancelWrite` are
requests; `Crash`, `LeaseExpires`, `CeilingReached` and `ApprovalTimesOut` the
environment. While a worker settles, its run is locked: `renew_lease`,
`claim_next` and `finish` of others wait or skip, `requeue` does not (its `where`
no longer matches), and that is modelled.

Abstractions: the clock is three nondeterministic events; the bill is part of
`overdue`; whether text is addressed to the agent is the set `Hostile`; a tool
handler succeeds, fails with a `ToolError`, or raises. A call that both fails its
schema and cannot be stored is left out (`CallsAssumption`). Transactions that
only this worker can disturb are one step.

### Payouts

One worker drives a run, so a run's open transaction stands for the worker's.
`LockOrder`, `CheckRemaining`, `LockOrg`, `Pay` are the statements of the handler
in order; `Refuse` is a `ToolError` and returns to the handler's savepoint,
where PostgreSQL lets go of the locks taken since; `Commit`, `Fail` (an error of
another kind: the worker fails the run and commits what came before) and `Crash`
end the transaction. Sums over `refunds` are totals by order, by run and by
merchant-from-a-day-on, which is what the two queries of `_ceilings` read.
Refunds are dated by the start of their transaction (`now()`).

### Transcript and MockRun

`TNext` is `Next` of the runtime together with what the step does to the messages:
`asked` is what a worker gave its outstanding model call (the rebuild of the log it
had read before), `heard` what each recorded turn was an answer to, `gate` the
`step_seq` of an approval. A message is a role and blocks, a block names the call it
makes or answers; words are left out. `Rebuild`, `ToOpenAI`, `Diverge` and `Shown`
are `transcript.rebuild`, `_to_openai`, `replay.diverge` and `replay.show` on them.

`MockRun` lets `DefaultMockProvider` choose: a recorded turn is `Mock` of the
messages its worker was given. What a text holds is reduced to what the provider's
patterns look for: a word that asks for money, an order's reference, a figure, item
lines. Tools may fail and people may deny, so it also meets the transcripts it was
not written for.

### Compensation

| variable | in the code |
|---|---|
| `ticket`, `notes` | the fields the reversible tools write, and internal notes |
| `ledger`, `ended` | `tool_invocations` with their inverses; runs in a terminal status |
| `shown`, `drawn` | the plan whose hash a person holds; the plan a request computed before its insert |
| `comps` | `compensations` with their items, by act |
| `pc`, `comp`, `item` | where a worker is in `advance`, what it drives, the item in its hands |
| `undone` | history: the inverses committed, in order |

`Act` is a tool's handler and its ledger row, `Preview`, `DrawUp` and `Insert` the
two requests (`create` computes, the partial unique index decides), `Claim` to
`RecordFailure` the transactions of `advance`, `_fail` included. The transaction
that applies an inverse is two steps, since what it does depends on rows others may
change before; it holds the compensation's row lock meanwhile. `SlowFailures` says
whether a lease may run out between the rollback of a failed inverse and `_fail`.

### Admission and EventStream

A request is four steps: read the clock, pass the limiter (under its lock), look for
an open run, insert. The limiter keeps, by merchant and time, how many hits there
were: `allow` drops the old ones wherever they stand and compares a length, so their
order plays no part. A worker reads the sums, then calls the model outside any
transaction, then adds the cost. Leases and consent are `AgentRuntime`'s; here a
worker keeps its run, and the log is a number of steps. `EventStream` adds the
generator of `stream_run` (steps, status and approvals in a transaction each), the
events on their way, `get_run`'s three reads, and `RunView`'s state, including that
an answer to a reload replaces what newer events had put there. Statuses are
reduced to open and ended where the view shows them.

### TriggerPort

One run and one attempt at a time (the service does not run two). The position is
in variables; a failed attempt loses them and the next walks the run again from the
top. Steps are upserts by number, the ledger's key is the step number, tokens and
approval rows are created idempotently by call. `Decide` and `Deliver` are the two
steps of `approve.ts`, between which it may die. `CompleteToken` is anybody else who
holds a token's id: `consent.ts` says that such a person can complete it with any
answer, and it does so while the row is pending or after `approve.ts` has put the
opposite there (`direct` remembers it, as history). `Wake` is the rest of `askHuman`:
the run goes by the token, and `recordDecision` writes a pending row only. The provider is the scripted one, whose answer is a function
of the conversation (`said` remembers it): with a model that answers differently on
a retry the port's log would describe another run, and nothing in the port claims
otherwise.

## 3. Runs

| run | question | instance and bounds |
|---|---|---|
| `runtime_safety` | does the runtime keep the log, the ledger, consent and the lease in order, and are the messages made from the log right? | one run, two workers, one crash, step cap 4, loop threshold 2, turns that mix a hostile read with a write, two identical refunds, two identical writes, an unknown tool alone and beside a refund, and an unstorable call; 378,000 states with the messages |
| `runtime_liveness` | does every run end and the queue drain? | one run, two workers, one crash, step cap 3, at most one question in a turn, an unstorable call |
| `payouts` | do the three ceilings hold together? | two runs, two orders (3 and 2 units), run ceiling 3, daily ceiling 4, amounts 1 and 2, two days; 70,430 states |
| `mock_run` | does planning anew on every turn stay with the plan? | one run, one worker, one crash, five worlds, step cap 14, so that every plan is played to its end with the notice in it; 163,936 states |
| `compensation` | is a run walked back as promised, and to an end? | one run of two acts out of seven calls (`set_ticket_status`, the like of `set_priority`, is left out), two workers, two attempts, two compensations, people removing notes; 240,000 states |
| `port` | do retries keep the port consistent, where may row and token differ, and does it end? | one run, three attempts, step cap 4, turns with plain, irreversible, invalid and unknown calls, answers given twice, lost or late; 571,952 states |
| `api` | what do concurrent requests, budgets and a stream allow? | three scenarios: three requests at one ticket and a window of two ticks; two requests and two workers, two merchants, two days; one request, one worker and a browser with three reloads; 763,000 states |
| `late_failure` | (violation) is an inverse applied at most once? | one act, two workers, a lease that runs out before a failure is recorded |
| `lost_wakeup` | (violation) does a parked run always have a question open? | turns that ask twice |
| `handler_error` | (violation) is a successful step backed by the ledger? | mixed turns |
| `slow_worker` | (violation) does a worker end only the run it holds? | turns that ask once |
| `unstorable_call` | (violation) does every run end, also with arguments the database refuses? | one worker |

Why the bounds are enough for their questions. Nothing in the code relates two
runs of `AgentRuntime` except the order in which they are claimed, so one run
with two workers has the conflicts that exist: a slow worker and the one that
took over, each at every point of the loop. One crash can come at any point; a
second one finds a state the first could have left, since a worker keeps nothing.
A step cap of 4 lets a turn of two calls be followed by another, so that a
denial, a repetition or a hostile read is seen by a later turn. `payouts` needs
amounts that fit alone and not together, within every ceiling, and the day to
turn inside a transaction. `StepOvershoot` and `LoopIsCut` are reached exactly:
a turn of two calls on top of one call less than the cap or the threshold.
`MockRun` runs with one worker, since a second would only add the slow worker
that `runtime_safety` has, and the mock's answer depends on the messages alone. Two acts are enough for `compensation`: the order of two
inverses on one field, an act with no inverse beside one that has one, a failure
before or after a success; two compensations let a plan be stale and a second
request come after a blocked first. Its walk backs may crash for ever: crashes are
not bounded there, attempts are. `api` is three scenarios in one run because each
needs other actors: the limiter more requests than its limit, the budgets two
workers of two merchants and a midnight, the view a run and a browser. A reload
overtaken by a later one, and one more for `done`, need three. `MaxFetches`,
`MaxWire`, `MaxActs`, `MaxComps` and the scenarios bound the model only, and so do
`MaxCrashes` and `LastDay`, and `MaxCalls`, the calls in the longest turn of the port's
script;
`MaxSteps`, `NoticeTurns`, `LoopThreshold` are the code's own, made small.

What the passing runs show:

* `ConsentHolds`: what the ledger says ran, and needed a person, has an approval
  of that call and those arguments that a person granted, whoever raced.
* `TurnsAreAnswered`: every proposed call is answered once, after it was made and
  before the model is asked again, over crashes and lost leases.
* `LedgerFollowsLog`: a ledger row belongs to the step of its seq, with the same
  outcome and action, and no seq has two.
* `CancelClosesTheQueue`: a cancelled run leaves no decision open, also when the
  request waited for a turn that was just asking.
* `StepOvershoot`, `LoopIsCut`: by how much a run can pass its step cap and its
  loop threshold, both of which are looked at between turns only.
* `NothingAfterTheEnd`: an ended run gets no step and no ledger row and does not
  open again. (Its *kind* of ending may still be overwritten: a cancel request
  that read an open status, or the crash handler, writes over it.)
* `OnlyTheHolderWrites`: the log grows only, and only by the lease's holder.
* `ImplementsConsentGate`: the refinement. Consent is the approvals table, an act
  is a successful ledger row, an ending is a terminal status. The abstract module
  allows an act at most once, before the end, and an irreversible one only if its
  consent was there before the step.
* `EveryStorableRunEnds`, `QueueDrains` under the fairness below: a run ends unless
  it hangs, for ever, on a call the database refuses to store (a finding, below).
* `DraftsAreCovered`, `OrderNeverOverRefunded`, `RunCapHolds`, `DayCapHolds`.
* `CallsAreAnsweredInPlace`: what a model is sent answers every call in the place its
  service wants it, in both shapes, when a turn was settled in pieces by two workers.
* `ReplayFindsTheChange`: the log gives back what each turn was an answer to, however
  slow its worker was; a replay with the same decisions diverges nowhere and one with
  a single other decision exactly there.
* `DecisionsAreShown`: a replay shows the decision a call was settled on between the
  turn that made the call and the step it let through.
* `PlanKeepsItsPast`: the mock's plan of any moment begins with the turns taken.
* `RowsTellTheTruth`, `TicketMatchesRows`, `OutcomeIsHonest`: what the item rows, the
  ticket and the outcome of a compensation say of each other, at every moment.
* `ImplementsWalkBack`: only ended runs, only authorised acts, newest first, once.
* `EveryCompensationEnds`: also when every worker that claims it dies.
* `LedgerFollowsTheWalk`, `CostsAddUp`: the port's ledger, log and bill after retries.
* `AnswersAgree`: row and token *can* differ in what a person said, and the property
  names the four ways: the row is not written yet; `approve.ts` has not come to the
  token; the token had expired when it did; the call was answered twice, in the row by
  `approve.ts` and at the token by somebody else. In all of them acts and denials follow
  the token, with an answer in the row before, and a run one of whose tokens expired
  does not succeed in any attempt: a row that says `approved` beside a token that
  expired ends in a failed run, or in one that is stopped by a ceiling or left running,
  and the call it approved is not made.
* `ImplementsConsentGate` for the port: the gate of the runtime, with consent the answer
  at the token. Only the promise about ended runs is not claimed (the port never reads
  the status of its run, so a cancellation does not stop it).
* `PortRunEnds`: the port's run ends unless every attempt died.
* `WindowHolds`: the limiter's promise for requests that were not held up before its
  lock. `OnlyRacesDoubleUp`: two runs are open on one ticket only when both requests
  looked before either inserted. They can: `start_run`'s "One at a time" and
  `docs/WALKTHROUGH.md` (128) hold for requests that do not overlap.
* `BudgetOvershoot`: by how much concurrent workers pass a daily budget.
* `HolesComeFromReloads`, `DoneShowsEverything`, `ViewCatchesUp`: what a viewer may
  miss, and that it is all there once the stream has closed on an ended run. The
  excuses are the code's: a broken connection or a stream that timed out is not
  opened again, and a failed last reload is not repeated.

The violations are disagreements between the code and what it says of itself.

* `lost_wakeup`: a turn asks twice. One call is answered and the run requeued; while the
  turn is settled again the second call is found pending, then decided. The
  requeue matches nothing, and the turn parks the run for ever: no approval is
  pending, so neither a person nor `expire_stale` will wake it. A cancel request
  is the only way out.
* `handler_error`: the log of a failed run says that a call succeeded which was
  rolled back.
* `slow_worker`: a provider call that outlasts its lease and raises fails a run
  that another worker is driving, or one that a person has cancelled.
* `unstorable_call`: a turn that can never be settled is claimed again without bound.
* `late_failure`: the rollback of a failed inverse undoes the renewal of the lease as
  well. When the lease runs out before `_fail` writes, another worker reverts the
  item; `_fail` looks at nothing and overwrites `reverted` with `failed`; the next
  plan has the act again, and its inverse is applied twice. `compensation` therefore
  assumes `SlowFailures = FALSE`.

Two more disagreements show in `port` as exceptions its properties make, not as runs:

* `bounds.ts` (2) says "Every run terminates", and `work-ticket.ts` (11) that the crash
  path which fails a run "so it does not sit forever looking alive" has no counterpart
  in the port. When the last attempt the service allows dies, nothing ends the run: its
  row stays `running` for ever. `PortRunEnds` excepts this case.
* `consent.ts` (4) promises that nothing irreversible executes "without a recorded human
  approval". A token completed with an approval after `approve.ts` has put a denial in
  the row lets the call be made, since the run goes by the token and `recordDecision`
  leaves a decided row as it is: the call is in the ledger and the recorded answer is a
  denial. `ImplementsConsentGate` therefore speaks of the token. In the order the scripts
  of the repository work in, each call answered once, the two agree.

Liveness. The fairness of `FairSpec`: workers poll for ever and finish a
transaction they began, unless they die (`main` in `worker.py` is a loop); a
provider call returns or raises; leases, ceilings and approvals run out (they are
times). `BeginSettle`, `Exhaust` and `AskModel` have strong fairness: between a
claim and the statement that locks the row lie milliseconds, so a worker that
claims again and again is not for ever too late. Nothing is assumed of people:
nobody need decide or cancel. No fairness is assumed of a crash. Runs whose turns
ask twice are kept out of `runtime_liveness`, and a run that hangs on an unstorable
call is excepted in its property: the violations above are why.

`Compensation`'s `FairSpec` has weak fairness for each worker and for leases running
out, and strong fairness for `GiveUp`: a worker may die after each claim for ever, but
not for ever before the one transaction that says it has given up. `TriggerPort`'s has
weak fairness for the attempt, which the service runs, and for the tokens' time-outs.
`EventStream`'s has it for the server's polls, for the browser's reading and for the
reads of a reload; runs, users and the network owe nothing.

Deadlock is not checked: a run ends, and refunds may go no further.

## 4. Proofs

All theorems hold for every value of the constants that satisfies the assumptions
named with them; each is of the form `Spec => []Inv` or `Spec => [][A]_vars`, or says
that every step of a specification is a step of an abstract one or a stutter. The
assumptions are those of the modules, which TLC evaluates on every run.

### The runtime: `AgentRuntimeProofs`

For any sets of runs, workers and actions and any turns the model may propose
(`OwnerAssumption`, `CallsAssumption`):

* `SettlersHold`: `Spec => []IInv`, the invariant everything else rests on;
  `TypesHold`; `NothingAfterTheEndHolds` and `OnlyTheHolderWritesHolds`.

Neither action property can be read off the actions, since `CommitTurn` publishes
a log that was computed over many steps, during which people decide and cancel,
leases run out and other workers poll. `IInv` adds to the types that a worker which
settles still holds the lease of a *running* run (`SettlerHolds`: the row lock of
`renew_lease` keeps the others out), and that its transaction extends the
committed log and settles and asks about only what was proposed in it
(`SettlerExtends`). `RowStep` lists what a step can do to a run's row: nothing,
wake it, claim it, end it, or write it as the holder; `WorkerMovesStep` does the
same for a worker; `SettledRowIsQuiet` joins them: while one worker settles,
nobody else touches the run.

* `RecordsAreSound`: `Spec => []RInv`; from it `ConsentHoldsAlways`,
  `TurnsAreAnsweredAlways`, `LedgerFollowsLogAlways`, `CancelClosesTheQueueAlways`.

The three statements about log, ledger and approvals are made of the committed
record, and a commit replaces that by what a transaction computed. `Sound` therefore
makes them of any log, rows and table, and `RInv` demands it of the committed record
and of every open transaction *against the approvals committed now*, with the calls
left to settle being calls nobody has answered (`SettlerSound`). Consent is monotone:
an approval that was granted is not taken back, so a record that had its consent when
a call ran has it at the commit. `CancelClosesTheQueue` is part of `RInv` because its
argument is about requests: a request goes up only in an open run's transaction, and a
cancellation waits for that.

* `RuntimeImplementsTheGate`: `Spec => ImplementsConsentGate`. Requests move as the
  gate's do; a commit performs only acts of calls that were not answered before
  (a second act would be a second answer, against `Ordered`), of a run that is open,
  on consent that was there before the commit.
* `RoomIsKept`: `Spec => []BInv`, and from it `StepOvershootHolds` and
  `LoopIsCutHolds`, with `TurnsAssumption`: there is a longest turn. (A reply is
  bounded by the `max_tokens` the runtime asks for, `providers.py`, so turns are
  bounded, but nothing in the runtime limits the calls in one; without a longest turn
  there would be no number to state.) A record is not below its ceilings while a turn
  is settled; `Roomy` says it would be with all calls of its last turn answered.

### The transcript: `TranscriptProofs`

Under the assumptions of the runtime:

* `NumbersFit`: `TSpec => []GateInv`, and from it `DecisionsAreShownAlways`;
* `RecordsAreInPlace`: `TSpec => []TalkInv`, which contains `CallsAreAnsweredAlways`;
* `TurnsAreRemembered`: `TSpec => []HeardInv`, and from it `ReplayFindsTheChangeAlways`.

*Decisions.* `approvals.step_seq` is written in one transaction and the step the decision
leads to in a later one, which settles the turn again. `Timed` says that the number of a
request lies after the turn that made the call, is no later than the next step, and no
later than the call's answer; `GateInv` demands it of the committed log and of every open
transaction, both for the numbers it has written and for those that were there before.
A question is numbered when its call has no answer (`SettlerSound`), and only one
transaction can put it (`SettlerHolds`).

*Messages.* What `rebuild` makes of a log cannot be proved by induction over logs, which
the prover does not do. It need not be: a log grows one step at a time, so the induction
is the one over the steps of the specification, and all that is needed is what *one more*
step does. `Joined`, `Picked` and `Conversation` are functions of a place in a sequence;
their tables of values exist and are unique (`JoinTableExists`, `TalkTableExists`, by way
of `Climb`, the least number a claim fails at), and so appending a piece to the input
appends what it is worth to the output (`JoinedAppend`, `PickedAppend`,
`ConversationMoves`, `ToOpenAIMoves`, `TurnIndexMoves`).

`CallsAreAnsweredInPlace` speaks of the moment a provider is asked. `Open(ms, p, left)` is
what holds in between: `ms` is answered in place but for its last turn, the results
gathered in `p` answer a part of that turn, `left` are the calls still waiting, and no
notice has come while there are any. `Nearly` is the same in the other shape, in which the
last message still waits for its tool messages. A result or a denial takes one call from
`left` (`OpenAnswer`), a notice needs `left` empty (`OpenText`), and so does a turn, which
puts its calls there (`OpenFlushed`, `OpenTurn`). `TalkInv` demands
`Open(messages, pending, Unresolved(log))` of each committed log and of each log an open
transaction has written so far: that an answer is to an unresolved call and comes once,
and that a model is asked when there is none, are facts of the record, from `RInv`.

*Replay.* `Remembered(log, told)` says that `told` is what the log gives back of its turns,
that the i-th was shown i - 1 turns, and that only the last can have finished. `HeardInv`
demands it of each committed log with what was heard, and of each open transaction, which
adds no turn. A turn added was the answer to what its worker was given when it asked:
while the worker holds the lease the log has not moved since (`AskerRemembers`: only
the holder writes), and without the lease its reply is dropped. Only one worker moves
at a time (`OneMoves`), so the answer is to that worker's messages and no one else's. The
turns are numbered by what was shown before them, hence no two were shown the same: asked
again, the model that made the run answers as it did (`AgainTheSame`), and one that answers
a single turn differently does so there and not before (`ChangedAtOne`).

### The mock's plan: `MockRunProofs`

Under the assumptions of the runtime and `MockAssumption` (the mock's calls are what the
tool registry says they are, and notes and status changes are not reads), for any worlds:

* `RecordsGoByTheirPlan`: `MSpec => []PlanInv`, and from it `PlanKeepsItsPastAlways`.

The mock plans anew from the messages of every turn. `Grounded(log)` says that what it
finds in them is what the log holds: each call under its name, each answer to a call, and
some answer if there is one; a turn or an answer more adds one block more (`ReadMoves`).
So its plan is a function of the log (`PlanIn`, `ReadFromLog`), and `Planned(log)` says
that each turn taken is the one this plan has there. `PlanInv` demands it of each
committed log and of each log an open transaction has written so far.

A step that answers may change the plan, and `PlannedAnswered` shows that it does not
change the turns taken. All plans begin with the same turn. From the second turn on the
first answer is there (a turn is taken when the last one is answered, `RInv`), and which
plan it is rests on that answer alone: this is what `_brief` is for. What is paid back
rests on all answers, but is first said in the fourth turn, and from then on neither the
ticket nor the order is read again (`TrajectoryTurns`). A turn more is the next of the
plan, since its worker was given the messages of the log as it stands (`HeardInv`) and
they hold one message of the model for each turn (`TurnsTold`).

### Payouts: `PayoutsProofs`

For any finite or infinite sets of runs, orders, merchants and amounts and any ceilings
(`MoneyAssumption`, `NobodyAssumption`, `DaysAssumption`):

* `IInvHolds`: `Spec => []IInv`, with `IInv == TypeOK /\ DraftsAreCovered /\
  OrderNeverOverRefunded /\ DayCapHolds`;
* `TypesHold`, `DraftsCovered`, `OrderNeverOverRefundedHolds`, `RunCapTheorem`, `DayCapTheorem`.

The ceilings are about committed totals and are not inductive: whether a commit
keeps them depends on what the transaction has inserted. `DraftsAreCovered` is
the strengthening, and it is the reason the code is right: `DraftIsLocked` says
that a transaction with something unpublished on an order or for a merchant still
holds the lock on that row, also after a later refund of the same turn has been
rolled back to its savepoint; `DraftFits` that committed plus unpublished is
within each limit. A commit by another run changes only totals whose rows it
locks, hence none that an open draft depends on (lemma `OthersUndisturbed`).
`DayCapHolds` follows since what is dated on one day is part of what was paid from
that day on, and that sum is what was compared with the ceiling under the lock.

### Compensation: `CompensationProofs`

For any sets of runs, workers and calls and any bounds (`BoundsAssumption`,
`WorkersAssumption`), and *provided that* `~SlowFailures`:

* `TypeCorrect`, `InversesAreAppliedOnce`, `TheRowsTellTheTruth`, `OutcomesAreHonest`;
* `CompensationKeepsThePromise`: `Spec => ImplementsWalkBack`;
* `TheTicketMatchesItsRows`: `Spec => []TicketMatchesRows`, when one run works on
  the ticket (`\E r : Runs = {r}`).

The first proviso says that a failure is recorded before another worker may claim the
compensation. It cannot be dropped: `late_failure` violates `AppliedOnce` without it.
The second cannot be dropped either: of two runs on a ticket the older may be walked
back first (section 6).

A worker reads an item in one step and writes it in another. `InHand` is what must
hold in between: the worker still holds the lease and the item is still pending.
`WorkMoves` shows that a step of a worker changes only a compensation in nobody else's
hands (`HeldIsClear`; `ClaimableIsClear`, the one place where the proviso is used).
`WorkKeepsMarks` goes through the actions: all but `ApplyCommit` keep which acts are
marked reverted, `RecordFailure` since the item it overwrites is the pending one in
its hands. `CommitMarks` shows that `ApplyCommit` marks an act that had no mark,
which is where the once-key is used, so the history and the rows stay in agreement
(`Agrees`) and no act enters the history twice. For the outcome, `WellTold` adds what
a record says at each status; for the types, `OwnerTold` that a compensation has an
owner just while it is running, and `HandsEmpty` what a worker has in its hands where.

For the refinement, `WInv` adds that a plan holds every act that left an effect and is
not taken back (`PlansCover`, and `CompsCover` of the compensation made of it: a run
that may be planned has ended, so no act can be added), and that the item in a
worker's hands is the newest open one (`NewestInHand`); it follows that acts go newest
first (`NewestGoneFirst`), which is what `WalkBack` demands of a `TakeBack`. For the
ticket, `TInv` adds that an inverse holds what the acts before it left (`Captured`), so
that taking back the newest act that stands shows the one below it.

### The port: `TriggerPortProofs`

For any script, bounds and number of attempts (`CallsAssumption`, `BoundsAssumption`,
`TurnsAssumption`: `MaxCalls` bounds the turns of the script):

* `TypeCorrect`, `WalkFindsItsLedger`, `CostsAddUpAlways`, `AnswersAgreeAlways`;
* `PortImplementsTheGate`: `Spec => ImplementsConsentGate`.

An attempt that dies leaves its rows, and the next one walks over them with an empty
memory. `PInv` says that the log is the trace of one walk, whichever attempts took it:
there is a position after each step, each reached from the one before by what is on
record (`Walked`), and the attempt in progress stands on that walk (`Stands`). A retry
that comes to a step therefore comes to it with the same call, and finds its own
ledger row.

The answers rest on the same walk. `OnFile` says that an answer is at the token and no
longer pending in the row; the walk goes past a question only when a decision is on
file (`Walked`, by `Settles`), and what is on file stays so (`AloofKeeps`), so a retry
takes the same turn there as the attempt before it. `Seen` adds that every token was
asked for on the walk and that a run that succeeded walked to the end: had one of its
tokens expired, the walk could not have gone past that question (`ExpiryStops`). People
and time-outs move rows and tokens without touching the walk (`AloofSeen`), and
`Agreed` follows what they can do to both.

That the costs add up needs more than the fold of the library gives: the
running totals `g` are a witness in the invariant, and that there is only one such `g`
is shown by its least counterexample.

### Admission and the stream: `AdmissionProofs`, `EventStreamProofs`

For any limit, window, costs, budgets and scenarios, any number of workers and reloads
(`TicketsAssumption`, `LimitsAssumption`: there is a dearest call; `ScenesAssumption`:
a scenario has finitely many requests and workers; `ReloadsAssumption`):

* `AdmissionHolds`: `Spec => []AdmissionInv`, and from it `WindowHoldsAlways`,
  `OnlyRacesDoubleUpAlways`, `BudgetOvershootHolds`;
* `StreamsHold`: `Spec => []IInv`, and from it `TypeCorrect`,
  `HolesComeFromReloadsAlways`, `DoneShowsEverythingAlways`.

All of admission is a look at one moment and an act at a later one, and each part of
the invariant says what is known in between. `LookedUp`: of the runs a request saw,
none on its ticket is open any more, nor will be. `Counted`: the hits that still count
cover every admission of the window and are at most `Limit`. `Billing`: for each budget,
what is spent and one dearest call for everybody who is waiting for an answer
(`Headroom`) stay below the budget and one call for each worker; what was billed on a
past day no longer changes (`Past`). Sums are the library's folds over sets, whose
result might depend on the order in which a fold takes the members: the first part of
the module shows that there is one total only, and what it gains or leaves out when
a term or the set changes.

The stream needs of admission only that the run watched goes on (`RunGoesOn`). `InOrder`
says of every event on its way that the steps below it come before it or were seen;
`NoHoles` that what is missing in the view was dropped by a reload. `Closes` follows the
end: a stream that closed on an ended run has `done` as its last event, and when that is
read the reload it causes finds everything final (`IsFresh`), so that the last answer is
complete, whatever earlier ones are still on their way.

### How far it goes

`TLC` checks the same formulas in the runs of section 3, and checked each inductive
invariant before it was proved (`PlanInv` with a step cap of 10 and no crash). Every safety and action property a run checks is stated
by a theorem. What remains model-checked only:

* `EveryStorableRunEnds`, `QueueDrains`, `EveryCompensationEnds`, `PortRunEnds`,
  `ViewCatchesUp`: liveness under fairness is out of its reach.

In the models and proofs `(UNION X) \ Y` and `(SUBSET S) \ T` are written with
parentheses, since SANY and TLAPS bind these prefix operators differently.

## 5. Plan

Done: the runtime with its messages and the mock's runs, the consent gate and both of
its implementations, payouts, compensation and its promise, admission, the stream and
its view. Theorems about each of them; all three refinements.

Next: the lock orders of settling, deciding, cancelling and sweeping, and which cycles
they admit (the `deadlock` hazard).

## 6. Not modelled

* The words: fencing of untrusted text (`quarantine`), previews, the basis a refund is
  shown with, the mock's notes (which say "after human approval" also when the refund
  was denied), printing in `replay.py`.
* The clients of the two model services and their prices: external services. What
  they may answer is the constant `Replies`; that their messages are well formed is
  `CallsAreAnsweredInPlace`.
* The e-mail and the cancellation of an order: irreversible tools without ceilings of
  their own; to the runtime and to a compensation they are calls like a refund.
* A day's budget does not count what yesterday's runs spend today, and a model call
  whose worker lost its lease is billed and recorded nowhere; `BudgetOvershoot`
  speaks of recorded costs of the day's own runs.
* Two runs of one ticket walked back in the order oldest first: the ticket ends up at
  a value of the later run. The code plans run by run and promises nothing across
  runs; the instance has one run.
* A compensation that gives up leaves its items `pending`; they are no one's any more.
* The port with a model that answers a retry differently, and `cancel_run` on a run
  the port drives (it has no effect on the attempt).
* Three abstractions of detail in the runtime and the mock. Suspicion comes from
  successful hostile reads; `policy.py` looks at the text of every result, so the models
  take the text of a failed one to hold nothing addressed to the agent. `Unstorable`
  are arguments the server refuses, which aborts the transaction; those its client
  library refuses before the statement is sent only fail the run, as a raising handler
  does. The mock is never told a figure of
  zero, which it would not pay back.
* Authentication, the login limiter, configuration, tracing, migrations, seed data,
  usage, the rest of the frontend, fault injection, evaluations and demo: set-up,
  views and harnesses that hold no state another part depends on.
