------------------------------ MODULE Admission ------------------------------
(***************************************************************************)
(* Starting runs, and the bill they may run up.  A request reads the clock, *)
(* passes the limiter, looks for an open run on its ticket and inserts one, *)
(* each in a step of its own; a worker looks at the run's and the day's     *)
(* spend, calls the model outside any transaction, and adds the cost.       *)
(* Leases, consent and the step log's content are AgentRuntime's: here a    *)
(* run is what requests, bills and viewers can see of it, and a worker      *)
(* keeps its run.                                                           *)
(***************************************************************************)
EXTENDS Integers, Sequences, FiniteSetsExt, Functions

CONSTANTS
  Requests,       \* handler threads of POST /runs
  Workers,
  Tickets, NoTicket,
  OrgOf,          \* the merchant of each ticket
  Scenarios,      \* bounds of the model: [who, tickets, steps, time, days]: who is
                  \* around, with what max_steps_per_run, for how long
  Limit, Window,  \* run_limiter
  RunCap,         \* max_spend_micros of a run
  OrgBudget, PlatformBudget,  \* the daily budgets
  Costs           \* what one model call may cost

Orgs == {OrgOf[t] : t \in Tickets}

ASSUME TicketsAssumption == DOMAIN OrgOf = Tickets /\ NoTicket \notin Tickets
ASSUME LimitsAssumption ==
  /\ {Limit, Window, RunCap, OrgBudget, PlatformBudget} \subseteq Nat \ {0}
  /\ Costs \subseteq Nat \ {0} /\ \E c \in Costs : \A d \in Costs : d <= c
ASSUME ScenesAssumption ==
  /\ IsFiniteSet(Requests) /\ IsFiniteSet(Workers)
  /\ \A s \in Scenarios :
       s.tickets \subseteq Tickets /\ {s.steps, s.time} \subseteq Nat /\ s.days \in Nat \ {0}

VARIABLES
  scene,    \* the scenario of this behaviour
  clock,    \* time.monotonic()
  today,    \* the database's date
  hits,     \* run_limiter._hits: how many, by merchant and time (their order plays no part)
  admitted, \* history: admissions by merchant and time, of requests that did not wait for the lock
  req,      \* the requests' progress and local variables
  runs,     \* the runs table, in order of insertion
  busy      \* the run each worker drives, and whether it is waiting for the model

door == <<clock, hits, admitted, req>>
avars == <<scene, clock, today, hits, admitted, req, runs, busy>>

Open_WithoutParked == {"queued", "running"}
Open == {"queued", "running", "awaiting_approval"}
Ended == {"succeeded", "failed", "exhausted", "cancelled"}

Nobody == [at |-> "away", ticket |-> NoTicket, now |-> 0, saw |-> 0]
Idle == [run |-> 0, calling |-> FALSE]

AInit ==
  /\ scene \in Scenarios
  /\ clock = 0 /\ today = 1
  /\ hits = [o \in Orgs |-> [t \in 0..scene.time |-> 0]]
  /\ admitted = hits
  /\ req = [q \in Requests |-> Nobody]
  /\ runs = <<>>
  /\ busy = [w \in Workers |-> Idle]

-----------------------------------------------------------------------------
(* POST /runs. *)

(* The clock is read before the limiter's lock is taken. *)
Arrive(q) ==
  /\ q \in scene.who /\ req[q].at = "away"
  /\ \E t \in scene.tickets :
       req' = [req EXCEPT ![q] = [at |-> "clocked", ticket |-> t, now |-> clock, saw |-> 0]]
  /\ UNCHANGED <<scene, clock, today, hits, admitted, runs, busy>>

Answered(q) == req' = [req EXCEPT ![q] = [Nobody EXCEPT !.at = "answered"]]

(* Under the lock: hits out of the window go; a full window refuses. *)
Recent(o, now) == [t \in 0..scene.time |-> IF now - t < Window THEN hits[o][t] ELSE 0]
Full_OffByOne(recent) == SumFunction(recent) > Limit
Full(recent) == SumFunction(recent) >= Limit
Allow(q) ==
  LET o == OrgOf[req[q].ticket]
      now == req[q].now
      recent == Recent(o, now) IN
  /\ req[q].at = "clocked"
  /\ \/ /\ Full(recent)
        /\ hits' = [hits EXCEPT ![o] = recent]
        /\ Answered(q)
        /\ UNCHANGED admitted
     \/ /\ ~Full(recent)
        /\ hits' = [hits EXCEPT ![o] = [recent EXCEPT ![now] = @ + 1]]
        /\ req' = [req EXCEPT ![q].at = "admitted", ![q].now = 0]
        /\ admitted' = IF now = clock THEN [admitted EXCEPT ![o][now] = @ + 1] ELSE admitted
  /\ UNCHANGED <<scene, clock, today, runs, busy>>

OpenOn(t) == {r \in DOMAIN runs : runs[r].ticket = t /\ runs[r].status \in Open}

(* The look for an open run and the insert are transactions of their own. *)
LookUp(q) ==
  /\ req[q].at = "admitted"
  /\ \/ OpenOn(req[q].ticket) # {} /\ Answered(q)
     \/ /\ OpenOn(req[q].ticket) = {}
        /\ req' = [req EXCEPT ![q].at = "clear", ![q].saw = Len(runs)]
  /\ UNCHANGED <<scene, clock, today, hits, admitted, runs, busy>>

Fresh(q) ==
  [ticket |-> req[q].ticket, status |-> "queued", day |-> today, cost |-> 0, early |-> 0,
   steps |-> 0, owes |-> FALSE, cancelling |-> FALSE,
   saw |-> req[q].saw] \* early, saw: history
Insert(q) ==
  /\ req[q].at = "clear"
  /\ runs' = Append(runs, Fresh(q))
  /\ Answered(q)
  /\ UNCHANGED <<scene, clock, today, hits, admitted, busy>>

-----------------------------------------------------------------------------
(* Workers. *)

Claim(w) ==
  /\ w \in scene.who /\ busy[w] = Idle
  /\ \E r \in DOMAIN runs :
       /\ runs[r].status = "queued" /\ \A s \in 1..(r - 1) : runs[s].status # "queued"
       /\ runs' = [runs EXCEPT ![r].status = "running"]
       /\ busy' = [busy EXCEPT ![w] = [run |-> r, calling |-> FALSE]]
  /\ UNCHANGED <<scene, door, today>>

(* The spend of the runs that were created today, read under no lock. *)
Billed(o, d) == {r \in DOMAIN runs : OrgOf[runs[r].ticket] \in o /\ runs[r].day = d}
Bill == [r \in DOMAIN runs |-> runs[r].cost]
Spent_EndedOnly(o) ==
  SumFunctionOnSet(Bill, {r \in Billed(o, today) : runs[r].status \in Ended})
Spent(o) == SumFunctionOnSet(Bill, Billed(o, today))

Breach(r) ==
  \/ runs[r].steps >= scene.steps
  \/ runs[r].cost >= RunCap
  \/ Spent({OrgOf[runs[r].ticket]}) >= OrgBudget
  \/ Spent(Orgs) >= PlatformBudget

Turn(w) == LET r == busy[w].run IN r # 0 /\ ~busy[w].calling /\ runs[r].status = "running"
PutDown_StillItsOwner(w) == busy' = [busy EXCEPT ![w].calling = FALSE]
PutDown(w) == busy' = [busy EXCEPT ![w] = Idle]

Exhaust(w) ==
  LET r == busy[w].run IN
  /\ Turn(w) /\ ~runs[r].owes /\ Breach(r)
  /\ runs' = [runs EXCEPT ![r].status = "exhausted"]
  /\ PutDown(w)
  /\ UNCHANGED <<scene, door, today>>

AskModel(w) ==
  LET r == busy[w].run IN
  /\ Turn(w) /\ ~runs[r].owes /\ ~Breach(r)
  /\ busy' = [busy EXCEPT ![w].calling = TRUE]
  /\ UNCHANGED <<scene, door, today, runs>>

(* The reply is a turn of calls, the end, or a refusal: model_call, and a  *)
(* final step when it ends.                                                *)
Charged(r, c, status, logged) ==
  [r EXCEPT !.cost = @ + c, !.early = IF r.day = today THEN @ + c ELSE @,
            !.status = status, !.steps = @ + logged, !.owes = (status = "running")]
RecordReply(w) ==
  LET r == busy[w].run IN
  /\ r # 0 /\ busy[w].calling /\ runs[r].status = "running"
  /\ \E c \in Costs :
       \/ /\ runs' = [runs EXCEPT ![r] = Charged(@, c, "running", 1)]
          /\ busy' = [busy EXCEPT ![w].calling = FALSE]
       \/ /\ runs' = [runs EXCEPT ![r] = Charged(@, c, "succeeded", 2)]
          /\ PutDown(w)
       \/ /\ runs' = [runs EXCEPT ![r] = Charged(@, c, "failed", 1)]
          /\ PutDown(w)
  /\ UNCHANGED <<scene, door, today>>

(* A turn's calls are settled in a transaction, or it is parked on them. *)
Settle(w) ==
  LET r == busy[w].run IN
  /\ Turn(w) /\ runs[r].owes
  /\ \/ /\ runs' = [runs EXCEPT ![r].steps = @ + 1, ![r].owes = FALSE]
        /\ UNCHANGED busy
     \/ /\ runs' = [runs EXCEPT ![r].status = "awaiting_approval"]
        /\ PutDown(w)
  /\ UNCHANGED <<scene, door, today>>

(* The run was cancelled: renew_lease finds nothing to renew. *)
LeaseLost(w) ==
  /\ busy[w].run # 0 /\ runs[busy[w].run].status \in Ended
  /\ PutDown(w)
  /\ UNCHANGED <<scene, door, today, runs>>

-----------------------------------------------------------------------------
(* People. *)

(* An answer, or its expiry, wakes a parked run. *)
Decide(r) ==
  /\ runs[r].status = "awaiting_approval"
  /\ runs' = [runs EXCEPT ![r].status = "queued"]
  /\ UNCHANGED <<scene, door, today, busy>>

CancelRead(r) ==
  /\ runs[r].status \in Open /\ ~runs[r].cancelling
  /\ runs' = [runs EXCEPT ![r].cancelling = TRUE]
  /\ UNCHANGED <<scene, door, today, busy>>
CancelWrite(r) ==
  /\ runs[r].cancelling
  /\ runs' = [runs EXCEPT ![r].status = "cancelled", ![r].cancelling = FALSE]
  /\ UNCHANGED <<scene, door, today, busy>>

Tick ==
  /\ clock < scene.time /\ clock' = clock + 1
  /\ UNCHANGED <<scene, today, hits, admitted, req, runs, busy>>
Midnight ==
  /\ today < scene.days /\ today' = today + 1
  /\ UNCHANGED <<scene, door, runs, busy>>

Work(w) ==
  Claim(w) \/ Exhaust(w) \/ AskModel(w) \/ RecordReply(w) \/ Settle(w) \/ LeaseLost(w)

ANext ==
  \/ \E q \in Requests : Arrive(q) \/ Allow(q) \/ LookUp(q) \/ Insert(q)
  \/ \E w \in Workers : Work(w)
  \/ \E r \in DOMAIN runs : Decide(r) \/ CancelRead(r) \/ CancelWrite(r)
  \/ Tick \/ Midnight

-----------------------------------------------------------------------------
(* In any window a merchant gets at most Limit requests past the limiter,   *)
(* whoever waits for its lock; those who were held up between the clock and *)
(* the lock are not counted, and could be more (FixedWindowLimiter.allow).  *)
WindowHolds ==
  \A o \in Orgs, t \in 0..scene.time :
    SumFunctionOnSet(admitted[o], {u \in 0..t : t - u < Window}) <= Limit

(* Two open runs on a ticket are always two requests that overlapped: the   *)
(* later one had looked before the earlier one was inserted (start_run).    *)
OnlyRacesDoubleUp ==
  \A r \in DOMAIN runs : \A s \in OpenOn(runs[r].ticket) :
    (runs[r].status \in Open /\ r < s) => r > runs[s].saw

(* What is spent in a day by runs of that day passes a daily budget by less *)
(* than a model call for each worker, and a run passes its own cap by less  *)
(* than one call, though nothing is locked between the sum and the call     *)
(* (_bound_exceeded: "Checked before the call, never after").               *)
Dearest == Max(Costs)
EarlyBill == [r \in DOMAIN runs |-> runs[r].early]
Overshoot(o, budget) ==
  \A d \in 1..scene.days :
    SumFunctionOnSet(EarlyBill, Billed(o, d)) < budget + Cardinality(Workers) * Dearest
BudgetOvershoot ==
  /\ \A o \in Orgs : Overshoot({o}, OrgBudget)
  /\ Overshoot(Orgs, PlatformBudget)
  /\ \A r \in DOMAIN runs : runs[r].cost < RunCap + Dearest
=============================================================================
