---------------------------- MODULE Compensation ----------------------------
(***************************************************************************)
(* Walking a finished run back.  Runs work one ticket, one after another,  *)
(* and every reversible tool records its inverse in the ledger; a person   *)
(* looks at the plan and authorises it; workers lease the compensation and *)
(* apply its inverses newest first, one transaction each.                  *)
(*                                                                         *)
(* Every transaction of a worker begins with renew_lease, whose update     *)
(* locks the compensation's row until the transaction ends.  The one that  *)
(* applies an inverse is two steps (BeginRevert, then ApplyCommit or       *)
(* ApplyFails); the others are one.                                        *)
(***************************************************************************)
EXTENDS Naturals, Sequences

CONSTANTS
  Runs,           \* run numbers; a later run starts when the earlier ones have ended
  Workers,
  NoWorker,       \* the null lease owner
  Calls,          \* tool calls the agent may make, as [tool, value]
  MaxAttempts,    \* settings.max_compensation_attempts
  SlowFailures,   \* another worker may claim between a rollback and the record of it
  PeopleEdit,     \* people may remove an internal note
  MaxActs,        \* bound of the model: ledger rows of a run
  MaxComps        \* bound of the model: compensations

Tools == {"tag_ticket", "set_priority", "set_ticket_status", "assign_ticket",
          "add_internal_note", "issue_refund", "get_ticket"}
Fields == {"tags", "priority", "status", "assignee"}

ASSUME RunsAssumption == Runs \subseteq Nat \ {0}
ASSUME WorkersAssumption == NoWorker \notin Workers
ASSUME CallsAssumption == \A call \in Calls : call.tool \in Tools
ASSUME BoundsAssumption == MaxAttempts \in Nat /\ MaxActs \in Nat /\ MaxComps \in Nat
ASSUME ModesAssumption == SlowFailures \in BOOLEAN /\ PeopleEdit \in BOOLEAN

VARIABLES
  ticket, \* the ticket's fields, each as a set of values (a single one but for tags)
  notes,  \* internal notes on the ticket, by the act that wrote them: <<run, number>>
  ledger, \* tool_invocations of each run, in step order
  ended,  \* runs in a terminal status
  shown,  \* the plan of each run as a person was last shown it
  drawn,  \* the plan a request has computed and not yet inserted
  comps,  \* compensations in order of creation
  pc,     \* where each worker is in compensate_once / advance
  comp,   \* the compensation it drives
  item,   \* the item its inverse failed on
  undone  \* history: the acts whose inverse was committed, by run, in order

people == <<shown, drawn>>
world == <<ticket, notes, ledger, ended>>
vars == <<ticket, notes, ledger, ended, shown, drawn, comps, pc, comp, item, undone>>

NoPlan == {}
Final == {"applied", "partial", "blocked"}
ItemStatuses == {"pending", "reverted", "unrevertable", "failed", "skipped"}

Initial == [tags |-> {}, priority |-> {"normal"}, status |-> {"open"}, assignee |-> {}]

Init ==
  /\ ticket = Initial
  /\ notes = {}
  /\ ledger = [r \in Runs |-> <<>>]
  /\ ended = {}
  /\ shown = [r \in Runs |-> NoPlan]
  /\ drawn = [r \in Runs |-> NoPlan]
  /\ comps = <<>>
  /\ pc = [w \in Workers |-> "idle"]
  /\ comp = [w \in Workers |-> 0]
  /\ item = [w \in Workers |-> 0]
  /\ undone = [r \in Runs |-> <<>>]

-----------------------------------------------------------------------------
(* The agent: the tools' handlers and the ledger rows invoke writes.  An    *)
(* inverse names a field and the value to put back; <<>> is null.           *)

Row(risk, ok, inverse, after) ==
  [risk |-> risk, ok |-> ok, inverse |-> inverse, after |-> after]
Puts(f, value) == <<[field |-> f, value |-> value]>>

Record(r, row) == ledger' = [ledger EXCEPT ![r] = Append(@, row)]
Me(r) == <<r, Len(ledger[r]) + 1>>

(* One open run to a ticket. *)
Working(r) == r \notin ended /\ \A q \in Runs : q < r => q \in ended

Did_AfterForBefore(f, before, after) == Row("reversible", TRUE, Puts(f, after), after)
Did(f, before, after) == Row("reversible", TRUE, Puts(f, before), after)

ChangeField(r, f, value) ==
  /\ ticket' = [ticket EXCEPT ![f] = value]
  /\ Record(r, Did(f, ticket[f], value))
  /\ UNCHANGED notes

ChangeNothing(r, risk, ok) ==
  /\ Record(r, Row(risk, ok, <<>>, {}))
  /\ UNCHANGED <<ticket, notes>>

(* tag_ticket, set_priority, set_ticket_status: no inverse for no change. *)
SetField(r, f, value) ==
  IF ticket[f] = value THEN ChangeNothing(r, "reversible", TRUE) ELSE ChangeField(r, f, value)

AddNote(r) ==
  /\ notes' = notes \cup {Me(r)}
  /\ Record(r, Row("reversible", TRUE, Puts("notes", {}), {}))
  /\ UNCHANGED ticket

Handle(r, call) ==
  \/ call.tool = "tag_ticket" /\ SetField(r, "tags", ticket.tags \cup call.value)
  \/ call.tool = "set_priority" /\ SetField(r, "priority", call.value)
  \/ call.tool = "set_ticket_status" /\ SetField(r, "status", call.value)
  \/ call.tool = "assign_ticket" /\ ChangeField(r, "assignee", call.value)
  \/ call.tool = "add_internal_note" /\ AddNote(r)
  \/ call.tool = "issue_refund" /\ ChangeNothing(r, "irreversible", TRUE)
  \/ call.tool = "get_ticket" /\ ChangeNothing(r, "read", TRUE)

(* A ToolError undoes the handler and is recorded as a failed row. *)
ToolFails(r) == ChangeNothing(r, "reversible", FALSE)

Act(r) ==
  /\ Working(r)
  /\ Len(ledger[r]) < MaxActs
  /\ ToolFails(r) \/ \E call \in Calls : Handle(r, call)
  /\ UNCHANGED <<ended, people, comps, pc, comp, item, undone>>

End(r) ==
  /\ Working(r)
  /\ ended' = ended \cup {r}
  /\ UNCHANGED <<ticket, notes, ledger, people, comps, pc, comp, item, undone>>

(* A person removes a note. *)
RemoveNote ==
  /\ PeopleEdit
  /\ \E n \in notes : notes' = notes \ {n}
  /\ UNCHANGED <<ticket, ledger, ended, people, comps, pc, comp, item, undone>>

-----------------------------------------------------------------------------
(* Planning and asking.  A plan is a set of acts; its order is newest first. *)

Reverted(r, n) ==
  \E c \in DOMAIN comps :
    comps[c].run = r /\ n \in DOMAIN comps[c].items /\ comps[c].items[n] = "reverted"

HasInverse(r, n) == ledger[r][n].inverse # <<>>

Plan(r) ==
  {n \in DOMAIN ledger[r] :
     /\ ledger[r][n].ok
     /\ ledger[r][n].risk # "read"
     /\ ledger[r][n].risk = "irreversible" \/ HasInverse(r, n)
     /\ ~Reverted(r, n)}

Preview(r) ==
  /\ shown' = [shown EXCEPT ![r] = Plan(r)]
  /\ UNCHANGED <<world, drawn, comps, pc, comp, item, undone>>

(* plan_hash covers which acts a plan names, and so the plan that was shown. *)
SamePlan(r) == Plan(r) = shown[r]

(* create() up to its insert ... *)
DrawUp(r) ==
  /\ drawn[r] = NoPlan
  /\ r \in ended
  /\ \E n \in Plan(r) : HasInverse(r, n)
  /\ SamePlan(r)
  /\ drawn' = [drawn EXCEPT ![r] = Plan(r)]
  /\ UNCHANGED <<world, shown, comps, pc, comp, item, undone>>

Active(c) == comps[c].status \in {"queued", "running"}
InFlight(r) == \E c \in DOMAIN comps : comps[c].run = r /\ Active(c)

Fresh(r, plan) ==
  [run |-> r, items |-> [n \in plan |-> "pending"], status |-> "queued",
   owner |-> NoWorker, live |-> FALSE, attempt |-> 0]

(* ... and the insert, which one active compensation per run lets through. *)
Insert(r) ==
  /\ drawn[r] # NoPlan
  /\ drawn' = [drawn EXCEPT ![r] = NoPlan]
  /\ IF InFlight(r) THEN UNCHANGED comps
     ELSE Len(comps) < MaxComps /\ comps' = Append(comps, Fresh(r, drawn[r]))
  /\ UNCHANGED <<world, shown, pc, comp, item, undone>>

-----------------------------------------------------------------------------
(* Workers.  A rollback undoes the renewal too: what is left is the lease as *)
(* it was before, which may have run out.                                   *)

Locked(c) == \E w \in Workers : pc[w] = "applying" /\ comp[w] = c
Claimable(c) ==
  /\ \/ comps[c].status = "queued"
     \/ comps[c].status = "running" /\ ~comps[c].live
  /\ ~Locked(c)
  /\ SlowFailures \/ \A w \in Workers : ~(pc[w] = "failing" /\ comp[w] = c)

GoTo(w, place) == pc' = [pc EXCEPT ![w] = place]
PutDown(w) ==
  /\ GoTo(w, "idle")
  /\ comp' = [comp EXCEPT ![w] = 0]
  /\ item' = [item EXCEPT ![w] = 0]

(* attempt is only compared with MaxAttempts: one above stands for all above. *)
NextAttempt_Never(c) == comps[c].attempt
NextAttempt(c) ==
  IF comps[c].attempt > MaxAttempts THEN comps[c].attempt ELSE comps[c].attempt + 1

Claim(w) ==
  /\ pc[w] = "idle"
  /\ \E c \in DOMAIN comps :
       /\ Claimable(c)
       /\ \A d \in 1..(c - 1) : ~Claimable(d)
       /\ comps' = [comps EXCEPT ![c].status = "running", ![c].owner = w,
                                 ![c].live = TRUE, ![c].attempt = NextAttempt(c)]
       /\ comp' = [comp EXCEPT ![w] = c]
  /\ GoTo(w, "driving")
  /\ UNCHANGED <<world, people, item, undone>>

Held(w) == comps[comp[w]].owner = w /\ comps[comp[w]].status = "running"

(* renew_lease got the row, or found it is somebody else's. *)
Renews(w) == pc[w] = "driving" /\ ~Locked(comp[w]) /\ Held(w)
LeaseLost(w) ==
  /\ pc[w] = "driving" /\ ~Locked(comp[w]) /\ ~Held(w)
  /\ PutDown(w)
  /\ UNCHANGED <<world, people, comps, undone>>

Finished_KeepsOwner(c, status) == [c EXCEPT !.status = status, !.live = FALSE]
Finished(c, status) == [c EXCEPT !.status = status, !.owner = NoWorker, !.live = FALSE]

WornOut(w) == comps[comp[w]].attempt > MaxAttempts
GiveUp(w) ==
  /\ Renews(w) /\ WornOut(w)
  /\ comps' = [comps EXCEPT ![comp[w]] = Finished(@, "blocked")]
  /\ PutDown(w)
  /\ UNCHANGED <<world, people, undone>>

Pending(c) == {n \in DOMAIN comps[c].items : comps[c].items[n] = "pending"}

Outcome_AllApplied(items) == "applied"
Outcome(items) ==
  IF \E n \in DOMAIN items : items[n] = "unrevertable" THEN "partial" ELSE "applied"

Complete(w) ==
  LET c == comp[w] IN
  /\ Renews(w) /\ ~WornOut(w)
  /\ Pending(c) = {}
  /\ comps' = [comps EXCEPT ![c] = Finished(@, Outcome(comps[c].items))]
  /\ PutDown(w)
  /\ UNCHANGED <<world, people, undone>>

NextPending(c) ==
  CHOOSE n \in Pending(c) : \A m \in Pending(c) : m <= n

(* The commit keeps the renewed lease. *)
Marked(c, n, status) ==
  comps' = [comps EXCEPT ![c].items[n] = status, ![c].live = TRUE]

Report(w) ==
  LET c == comp[w] IN
  /\ Renews(w) /\ ~WornOut(w)
  /\ Pending(c) # {} /\ ~HasInverse(comps[c].run, NextPending(c))
  /\ Marked(c, NextPending(c), "unrevertable")
  /\ UNCHANGED <<world, people, pc, comp, item, undone>>

(* Renewed, item read; its row is about to be claimed and its inverse run. *)
BeginRevert(w) ==
  LET c == comp[w] IN
  /\ Renews(w) /\ ~WornOut(w)
  /\ Pending(c) # {} /\ HasInverse(comps[c].run, NextPending(c))
  /\ GoTo(w, "applying")
  /\ item' = [item EXCEPT ![w] = NextPending(c)]
  /\ UNCHANGED <<world, people, comps, comp, undone>>

(* compensation_items_once_key refuses a second `reverted` of one act. *)
OnceKeyRefuses_NoIndex(r, n) == FALSE
OnceKeyRefuses(r, n) == Reverted(r, n)

(* The statement of apply_inverse finds the row it names. *)
RowThere(r, n) == ledger[r][n].inverse[1].field = "notes" => <<r, n>> \in notes
PutBack(r, n) ==
  LET inverse == ledger[r][n].inverse[1] IN
  IF inverse.field = "notes"
  THEN notes' = notes \ {<<r, n>>} /\ UNCHANGED ticket
  ELSE ticket' = [ticket EXCEPT ![inverse.field] = inverse.value] /\ UNCHANGED notes

ApplyCommit(w) ==
  LET c == comp[w]
      r == comps[c].run
      n == item[w] IN
  /\ pc[w] = "applying"
  /\ ~OnceKeyRefuses(r, n) /\ RowThere(r, n)
  /\ PutBack(r, n)
  /\ Marked(c, n, "reverted")
  /\ undone' = [undone EXCEPT ![r] = Append(@, n)]
  /\ GoTo(w, "driving")
  /\ item' = [item EXCEPT ![w] = 0]
  /\ UNCHANGED <<ledger, ended, people, comp>>

(* The once-key's violation is raised outside the try: compensate_once logs *)
(* it and leaves the lease to expire.                                       *)
ClaimRefused(w) ==
  /\ pc[w] = "applying"
  /\ OnceKeyRefuses(comps[comp[w]].run, item[w])
  /\ PutDown(w)
  /\ UNCHANGED <<world, people, comps, undone>>

(* The row is gone, or the statement fails: all of the transaction is undone. *)
AfterRollback_ItemCommitted(c, n) == Marked(c, n, "reverted")
AfterRollback(c, n) == UNCHANGED comps
ApplyFails(w) ==
  /\ pc[w] = "applying"
  /\ ~OnceKeyRefuses(comps[comp[w]].run, item[w])
  /\ AfterRollback(comp[w], item[w])
  /\ GoTo(w, "failing")
  /\ UNCHANGED <<world, people, comp, item, undone>>

(* _fail, in a transaction of its own that looks at no lease. *)
Skipping(items, failed) ==
  [n \in DOMAIN items |-> IF n = failed THEN "failed"
                          ELSE IF items[n] = "pending" THEN "skipped" ELSE items[n]]
Failed(c, n) == [Finished(comps[c], "blocked") EXCEPT !.items = Skipping(comps[c].items, n)]
RecordFailure(w) ==
  LET c == comp[w] IN
  /\ pc[w] = "failing" /\ ~Locked(c)
  /\ comps' = [comps EXCEPT ![c] = Failed(c, item[w])]
  /\ PutDown(w)
  /\ UNCHANGED <<world, people, undone>>

(* The worker or its connection dies; an open transaction leaves nothing. *)
Crash(w) ==
  /\ pc[w] # "idle"
  /\ PutDown(w)
  /\ UNCHANGED <<world, people, comps, undone>>

LeaseExpires(c) ==
  /\ c \in DOMAIN comps /\ comps[c].live
  /\ comps' = [comps EXCEPT ![c].live = FALSE]
  /\ UNCHANGED <<world, people, pc, comp, item, undone>>

Work(w) ==
  \/ Claim(w) \/ LeaseLost(w) \/ GiveUp(w) \/ Complete(w) \/ Report(w)
  \/ BeginRevert(w) \/ ApplyCommit(w) \/ ClaimRefused(w) \/ ApplyFails(w) \/ RecordFailure(w)

Next ==
  \/ \E r \in Runs : Act(r) \/ End(r) \/ Preview(r) \/ DrawUp(r) \/ Insert(r)
  \/ RemoveNote
  \/ \E w \in Workers : Work(w) \/ Crash(w)
  \/ \E c \in 1..MaxComps : LeaseExpires(c)

Spec == Init /\ [][Next]_vars

(* Workers keep polling and take their next step, leases run out, and a      *)
(* worker that has given up on a compensation manages, some time, the one    *)
(* transaction that says so.  Crashes may go on for ever.                    *)
Fairness ==
  /\ \A w \in Workers : WF_vars(Work(w)) /\ SF_vars(GiveUp(w))
  /\ \A c \in 1..MaxComps : WF_vars(LeaseExpires(c))
FairSpec == Spec /\ Fairness
-----------------------------------------------------------------------------
(* Every variable has its type, a compensation has an owner just while it is *)
(* running, and a worker inside a transaction has the item in hand.          *)
CompRecord ==
  [run: Runs, items: UNION {[S -> ItemStatuses] : S \in SUBSET (1..MaxActs)},
   status: {"queued", "running"} \cup Final, owner: Workers \cup {NoWorker},
   live: BOOLEAN, attempt: 0..(MaxAttempts + 1)]
TypeOK ==
  /\ DOMAIN ticket = Fields
  /\ notes \subseteq Runs \X (1..MaxActs)
  /\ DOMAIN ledger = Runs /\ \A r \in Runs : Len(ledger[r]) <= MaxActs
  /\ ended \subseteq Runs
  /\ shown \in [Runs -> SUBSET (1..MaxActs)]
  /\ drawn \in [Runs -> SUBSET (1..MaxActs)]
  /\ Len(comps) <= MaxComps
  /\ \A c \in DOMAIN comps :
       /\ comps[c] \in CompRecord
       /\ comps[c].owner # NoWorker <=> comps[c].status = "running"
  /\ pc \in [Workers -> {"idle", "driving", "applying", "failing"}]
  /\ comp \in [Workers -> 0..Len(comps)]
  /\ \A w \in Workers :
       /\ comp[w] = 0 <=> pc[w] = "idle"
       /\ item[w] = 0 <=> pc[w] \in {"idle", "driving"}
       /\ item[w] # 0 => item[w] \in DOMAIN comps[comp[w]].items

Undone(r) == {undone[r][i] : i \in DOMAIN undone[r]}

(* The item rows tell exactly what was taken back: an act is marked reverted *)
(* if and only if its inverse was committed (_claim_item and apply_inverse   *)
(* in one transaction, _fail after the rollback of it).                      *)
RowsTellTheTruth == \A r \in Runs : Undone(r) = {n \in DOMAIN ledger[r] : Reverted(r, n)}

(* An inverse is applied at most once, whatever crashes, stale plans, second *)
(* compensations and stolen leases do (compensation_items_once_key).         *)
AppliedOnce ==
  \A r \in Runs : \A i, j \in DOMAIN undone[r] : undone[r][i] = undone[r][j] => i = j

(* At every moment of a walk back the ticket shows exactly the acts that are *)
(* left: a field has the value the newest remaining act on it gave it, or    *)
(* the first one; a note is there if its act is (the inverses captured by    *)
(* the handlers, and the order of plan()).                                   *)
LeftOn(f) ==
  {rn \in Runs \X (1..MaxActs) :
     /\ rn[2] \in DOMAIN ledger[rn[1]] \ Undone(rn[1])
     /\ HasInverse(rn[1], rn[2])
     /\ ledger[rn[1]][rn[2]].inverse[1].field = f}
Later(a, b) == a[1] > b[1] \/ (a[1] = b[1] /\ a[2] >= b[2])
TicketMatchesRows ==
  /\ \A f \in Fields :
       \/ LeftOn(f) = {} /\ ticket[f] = Initial[f]
       \/ \E a \in LeftOn(f) :
            (\A b \in LeftOn(f) : Later(a, b)) /\ ticket[f] = ledger[a[1]][a[2]].after
  /\ notes \subseteq LeftOn("notes") /\ (PeopleEdit \/ notes = LeftOn("notes"))

(* `applied` is said only when every act of the plan was taken back and      *)
(* `partial` only when all that is left are acts without an inverse, also    *)
(* after several attempts by several workers (_outcome).                     *)
OutcomeIsHonest ==
  \A c \in DOMAIN comps :
    LET left == DOMAIN comps[c].items \ Undone(comps[c].run) IN
    /\ comps[c].status = "applied" => left = {}
    /\ comps[c].status = "partial" =>
         left # {} /\ \A n \in left : ~HasInverse(comps[c].run, n)

(* A run is walked back only once it has ended, only as far as somebody      *)
(* authorised, newest act first, each act once: WalkBack.                    *)
Effects(r) == {n \in DOMAIN ledger[r] : HasInverse(r, n)}
Authorised(r) ==
  Effects(r) \cap UNION {DOMAIN comps[c].items : c \in {d \in DOMAIN comps : comps[d].run = r}}
Promise == INSTANCE WalkBack WITH
  Steps <- 1..MaxActs,
  acts <- [r \in Runs |-> Effects(r)],
  closed <- ended,
  consented <- [r \in Runs |-> Authorised(r)],
  undone <- undone
ImplementsWalkBack == Promise!Spec

(* A compensation somebody authorised comes to an end, crashes or not: the   *)
(* attempts bound what the leases would repeat for ever (advance, GiveUp).   *)
EveryCompensationEnds ==
  \A c \in 1..MaxComps :
    (c \in DOMAIN comps) ~> (c \in DOMAIN comps /\ comps[c].status \in Final)
=============================================================================
