----------------------------- MODULE EventStream -----------------------------
(***************************************************************************)
(* Watching a run.  The server's stream polls the steps, the status and the *)
(* pending approvals, each in a transaction of its own, and sends what is   *)
(* new; the browser's view merges the events with answers to the reloads it *)
(* asks for when it opens, when its user decides or cancels, and when the   *)
(* stream says `done`.  Reloads overtake events and one another.            *)
(* The run watched is the first of Admission's.                             *)
(***************************************************************************)
EXTENDS Admission

CONSTANTS
  Viewer,     \* the browser, around in some scenario
  MaxFetches, \* bound of the model: reloads
  MaxWire     \* bound of the model: events on their way

ASSUME ReloadsAssumption == MaxFetches \in Nat \ {0}

VARIABLES
  stream,  \* the generator: where it is, `sent` and `last_status`
  wire,    \* events on their way, in order
  fetches, \* reloads in the order asked for: how far each is, and what it has read
  view     \* RunView's state, and history: the reload it is from, the steps reloads took away

vars == <<avars, stream, wire, fetches, view>>

Watched == 1
Run == runs[Watched]
Exists == Watched \in DOMAIN runs

Init ==
  /\ AInit
  /\ stream = [at |-> "off", sent |-> 0, told |-> "none"]
  /\ wire = <<>>
  /\ fetches = <<>>
  /\ view = [status |-> "none", steps |-> {}, pending |-> FALSE, from |-> 0, dropped |-> {}]

-----------------------------------------------------------------------------
(* The server's side of the stream. *)

(* What RunView tells statuses apart by. *)
Shown(s) == IF s \in Open THEN "live" ELSE "over"

Step(n) == [kind |-> "step", n |-> n, status |-> "none", pending |-> FALSE]
StatusIs(s) == [kind |-> "status", n |-> 0, status |-> Shown(s), pending |-> FALSE]
Approvals(p) == [kind |-> "approval", n |-> 0, status |-> "none", pending |-> p]
Done == [kind |-> "done", n |-> 0, status |-> "none", pending |-> FALSE]

Sends(events) == wire' = wire \o events
Room == Len(wire) < MaxWire

NewSteps_LastOnly == IF Run.steps > stream.sent THEN <<Step(Run.steps)>> ELSE <<>>
NewSteps == [i \in 1..(Run.steps - stream.sent) |-> Step(stream.sent + i)]
PollSteps ==
  /\ stream.at = "steps" /\ Room
  /\ Sends(NewSteps)
  /\ stream' = [stream EXCEPT !.at = "status", !.sent = Run.steps]
  /\ UNCHANGED <<avars, fetches, view>>

Closing_NotCancelled(s) == s \in Ended \ {"cancelled"}
Closing(s) == s \in Ended
News(s) == IF s # stream.told THEN <<StatusIs(s)>> ELSE <<>>
PollStatus ==
  LET s == Run.status IN
  /\ stream.at = "status"
  /\ Sends(News(s) \o IF Closing(s) THEN <<Done>> ELSE <<>>)
  /\ stream' = [stream EXCEPT !.told = s,
                  !.at = IF s = "awaiting_approval" THEN "approvals"
                         ELSE IF Closing(s) THEN "closed" ELSE "steps"]
  /\ UNCHANGED <<avars, fetches, view>>

PollApprovals ==
  /\ stream.at = "approvals"
  /\ Sends(<<Approvals(Run.status = "awaiting_approval")>>)
  /\ stream' = [stream EXCEPT !.at = "steps"]
  /\ UNCHANGED <<avars, fetches, view>>

(* Fifteen minutes are over. *)
StreamTimesOut ==
  /\ stream.at = "steps"
  /\ Sends(<<Done>>)
  /\ stream' = [stream EXCEPT !.at = "closed"]
  /\ UNCHANGED <<avars, fetches, view>>

(* The connection breaks: streamRun logs it and does not come back. *)
ConnectionBreaks ==
  /\ stream.at # "off" /\ (stream.at # "closed" \/ wire # <<>>)
  /\ stream' = [stream EXCEPT !.at = "lost"]
  /\ wire' = <<>>
  /\ UNCHANGED <<avars, fetches, view>>

-----------------------------------------------------------------------------
(* Reloads: get_run reads run, steps and approvals one after the other. *)

Asked == [at |-> "run", status |-> "none", steps |-> 0, pending |-> FALSE]
Ask == fetches' = Append(fetches, Asked)

ReadRun(f) ==
  /\ fetches[f].at = "run"
  /\ fetches' = [fetches EXCEPT ![f].at = "steps", ![f].status = Shown(Run.status)]
  /\ UNCHANGED <<avars, stream, wire, view>>
ReadSteps(f) ==
  /\ fetches[f].at = "steps"
  /\ fetches' = [fetches EXCEPT ![f].at = "approvals", ![f].steps = Run.steps]
  /\ UNCHANGED <<avars, stream, wire, view>>
ReadApprovals(f) ==
  /\ fetches[f].at = "approvals"
  /\ fetches' = [fetches EXCEPT ![f].at = "answered", ![f].pending = Run.status = "awaiting_approval"]
  /\ UNCHANGED <<avars, stream, wire, view>>

(* The answer replaces what the view has. *)
Arrives(f) ==
  LET answer == fetches[f] IN
  /\ answer.at = "answered"
  /\ view' = [status |-> answer.status, steps |-> 1..answer.steps, pending |-> answer.pending,
              from |-> f, dropped |-> (view.dropped \cup view.steps) \ (1..answer.steps)]
  /\ fetches' = [fetches EXCEPT ![f] = [Asked EXCEPT !.at = "over"]]
  /\ UNCHANGED <<avars, stream, wire>>
Fails(f) ==
  /\ fetches[f].at # "over"
  /\ fetches' = [fetches EXCEPT ![f] = [Asked EXCEPT !.at = "over"]]
  /\ UNCHANGED <<avars, stream, wire, view>>

-----------------------------------------------------------------------------
(* The browser. *)

Watch ==
  /\ Viewer \in scene.who /\ Exists /\ stream.at = "off"
  /\ Ask
  /\ stream' = [stream EXCEPT !.at = "steps"]
  /\ UNCHANGED <<avars, wire, view>>

AfterDone_Nothing == UNCHANGED fetches
AfterDone == Len(fetches) < MaxFetches /\ Ask

(* A status is merged into a run that is there, a step is added once. *)
Receive ==
  /\ wire # <<>>
  /\ wire' = Tail(wire)
  /\ LET e == Head(wire) IN
     \/ e.kind = "step" /\ view' = [view EXCEPT !.steps = @ \cup {e.n}] /\ UNCHANGED fetches
     \/ /\ e.kind = "status"
        /\ view' = [view EXCEPT !.status = IF @ = "none" THEN @ ELSE e.status]
        /\ UNCHANGED fetches
     \/ e.kind = "approval" /\ view' = [view EXCEPT !.pending = e.pending] /\ UNCHANGED fetches
     \/ e.kind = "done" /\ AfterDone /\ UNCHANGED view
  /\ UNCHANGED <<avars, stream>>

(* The user answers, or cancels, and the view asks for the run again.  One  *)
(* reload is left for `done`.                                               *)
UserActs ==
  /\ Exists /\ Len(fetches) < MaxFetches - 1
  /\ \/ view.pending /\ Decide(Watched)
     \/ view.status = "live" /\ CancelWrite(Watched)
  /\ Ask
  /\ UNCHANGED <<stream, wire, view>>

Serve == PollSteps \/ PollStatus \/ PollApprovals
Deliver(f) == ReadRun(f) \/ ReadSteps(f) \/ ReadApprovals(f) \/ Arrives(f)

Next ==
  \/ ANext /\ UNCHANGED <<stream, wire, fetches, view>>
  \/ Watch \/ Serve \/ StreamTimesOut \/ ConnectionBreaks \/ Receive \/ UserActs
  \/ \E f \in DOMAIN fetches : Deliver(f) \/ Fails(f)

Spec == Init /\ [][Next]_vars

(* The server keeps polling and answering, and the browser reads what comes; *)
(* runs, users and the network owe nothing.                                  *)
FairSpec ==
  /\ Spec
  /\ WF_vars(Serve) /\ WF_vars(Receive)
  /\ \A f \in 1..MaxFetches : WF_vars(f \in DOMAIN fetches /\ Deliver(f))
-----------------------------------------------------------------------------
(* Every variable has its type; a request holds a ticket just while it is   *)
(* handled, and a worker a run that is running or was cancelled under it.   *)
Statuses == {"queued", "running", "awaiting_approval", "succeeded", "failed", "exhausted", "cancelled"}
RunRecord ==
  [ticket: Tickets, status: Statuses, day: 1..scene.days, cost: Nat, early: Nat,
   steps: 0..(scene.steps + 1), owes: BOOLEAN, cancelling: BOOLEAN, saw: 0..Cardinality(Requests)]
Event ==
  [kind: {"step", "status", "approval", "done"}, n: 0..(scene.steps + 1),
   status: {"none", "live", "over"}, pending: BOOLEAN]
TypeOK ==
  /\ clock \in 0..scene.time /\ today \in 1..scene.days
  /\ \A o \in Orgs : hits[o] \in [0..scene.time -> Nat]
  /\ \A q \in Requests :
       /\ req[q].at \in {"away", "clocked", "admitted", "clear", "answered"}
       /\ req[q].ticket \in Tickets <=> req[q].at \in {"clocked", "admitted", "clear"}
  /\ runs \in Seq(RunRecord)
  /\ \A w \in Workers : busy[w].run # 0 => runs[busy[w].run].status \in {"running"} \cup Ended
  /\ \A v, w \in Workers : busy[v].run = busy[w].run => v = w \/ busy[v].run = 0
  /\ stream.at \in {"off", "steps", "status", "approvals", "closed", "lost"}
  /\ stream.sent \in 0..(scene.steps + 1) /\ stream.told \in Statuses \cup {"none"}
  /\ wire \in Seq(Event)
  /\ Len(fetches) <= MaxFetches
  /\ view.status \in {"none", "live", "over"} /\ view.pending \in BOOLEAN

(* The view has no holes of the stream's making: a step missing below the   *)
(* newest one shown is one a late answer to a reload took away (stream_run's *)
(* `sent`, onStep, and reload's setSteps).                                  *)
HolesComeFromReloads ==
  \A n \in view.steps : 1..n \subseteq view.steps \cup view.dropped

Complete ==
  view.status = "over" /\ view.steps = 1..Run.steps /\ ~view.pending

(* When the stream has closed on an ended run, the view that has the answer *)
(* to its last reload is complete, whatever the stream missed between its   *)
(* two reads, and whatever reloads overtook (onDone reloads).               *)
DoneShowsEverything ==
  (stream.at = "closed" /\ stream.told \in Ended /\ wire = <<>>
     /\ view.from = Len(fetches)) => Complete

(* A run that ends is shown as ended, with all of its steps and nothing to  *)
(* answer, unless the stream was cut or timed out, or the last reload failed *)
(* or was answered before an older one.                                     *)
Excused ==
  \/ stream.at = "lost"
  \/ stream.at = "closed" /\ stream.told \notin Ended
  \/ view.from # Len(fetches) /\ \A f \in DOMAIN fetches : fetches[f].at = "over"
ViewCatchesUp ==
  (Exists /\ stream.at # "off" /\ Run.status \in Ended) ~> (Complete \/ Excused)
=============================================================================
