-------------------------------- MODULE MockRun --------------------------------
(***************************************************************************)
(* A whole run with the provider that needs no key: DefaultMockProvider    *)
(* picks one of three trajectories from what it is shown, and picks again  *)
(* on every turn, since it keeps nothing between turns so that another     *)
(* worker, or a replay, comes to the same decision.                        *)
(*                                                                         *)
(* What texts say is reduced to what the provider looks for in them: a     *)
(* word that asks for money back, an order's reference, a figure, and the  *)
(* item lines of an order.                                                 *)
(***************************************************************************)
EXTENDS Transcript

CONSTANTS
  GetTicket, SearchShipping, SearchPolicy, GetOrder,  \* the calls it makes
  NoteDelay, NoteRefund, SetPending, SetResolved,
  RefundFigure,   \* issue_refund of the figure the ticket names
  RefundGoods,    \* ... of what the goods of the order came to
  RefundNothing,  \* ... of zero cents, which the tool's schema refuses
  Worlds          \* what the texts of a ticket, its order and the articles may hold

ASSUME MockAssumption ==
  /\ {GetTicket, SearchShipping, SearchPolicy, GetOrder} \subseteq Reads
  /\ {NoteDelay, NoteRefund, SetPending, SetResolved} \subseteq Reversible
  /\ {RefundFigure, RefundGoods, RefundNothing} \subseteq Irreversible
  /\ RefundNothing \in Invalid
  /\ {GetTicket, GetOrder} \cap {NoteDelay, NoteRefund, SetPending, SetResolved} = {}
  /\ Worlds \subseteq [ticket: SUBSET {"money back", "order", "figure"},
                      order: SUBSET {"items"}, articles: SUBSET {"money back"}]

VARIABLE world  \* what the texts about the run's ticket hold

-----------------------------------------------------------------------------
(* The tools the mock reads: what it looks for in an answer of each.  A     *)
(* failed call answers with an error that holds none of it.                 *)

TicketText == world.ticket

(* An order's lines; one of shipping alone has no item the mock counts.  Its *)
(* reference is told in any case.                                           *)
OrderText == {"order"} \cup world.order

(* A search that finds nothing repeats its query.                           *)
ArticleText(action) == IF action = SearchPolicy THEN {"money back"} ELSE world.articles

TextOf(action) ==
  CASE action = GetTicket -> TicketText
    [] action = GetOrder -> OrderText
    [] action \in {SearchShipping, SearchPolicy} -> ArticleText(action)
    [] OTHER -> {}

Calls(messages) == Joined([m \in DOMAIN messages |-> ToolUses(messages[m])])
Answered(messages) == Joined([m \in DOMAIN messages |-> Results(messages[m])])

TextOfResult(messages, result) ==
  LET calls == Calls(messages) IN
  IF result.error THEN {}
  ELSE TextOf(calls[CHOOSE i \in DOMAIN calls : calls[i].id = result.id].action)

(* _results_of: the texts of the answers to one tool's calls, found by the   *)
(* calls' ids.                                                              *)
ResultsOf(action, messages) ==
  LET calls == Calls(messages)
      results == Answered(messages)
      ids == {calls[i].id : i \in {j \in DOMAIN calls : calls[j].action = action}}
  IN {IF results[i].error THEN {} ELSE TextOf(action) :
        i \in {j \in DOMAIN results : results[j].id \in ids}}

(* _brief: the prompt, which quotes nothing of the ticket, and the first    *)
(* result; a notice before it says nothing the mock looks for.              *)
Brief_WholeTranscript(messages) ==
  LET results == Answered(messages) IN
  UNION {TextOfResult(messages, results[i]) : i \in DOMAIN results}
Brief(messages) ==
  LET results == Answered(messages) IN
  IF results = <<>> THEN {} ELSE TextOfResult(messages, results[1])

(* _claimed and _refundable; a figure is one above zero. *)
Claimed(messages) == \E text \in ResultsOf(GetTicket, messages) : "figure" \in text
Refundable(messages) == \E text \in ResultsOf(GetOrder, messages) : "items" \in text

Refund(messages) ==
  IF Claimed(messages) THEN RefundFigure
  ELSE IF Refundable(messages) THEN RefundGoods ELSE RefundNothing

(* _plan: the turns of a run, the closing text left out.  Which they are     *)
(* depends on the brief, and what is paid back on all that was read.         *)
Trajectory(seen, refund) ==
  CASE "money back" \notin seen ->
         <<<<GetTicket>>, <<SearchShipping>>, <<NoteDelay>>, <<SetPending>>>>
    [] "money back" \in seen /\ "order" \notin seen ->
         <<<<GetTicket>>, <<SearchPolicy>>>>
    [] OTHER ->
         <<<<GetTicket>>, <<GetOrder>>, <<SearchPolicy>>, <<refund>>, <<NoteRefund>>, <<SetResolved>>>>
Plan(messages) == Trajectory(Brief(messages), Refund(messages))

Mock(messages) == Scripted(Plan(messages), messages)

-----------------------------------------------------------------------------
(* The runtime with this provider: it answers with what it plans, and does  *)
(* not decline.                                                             *)

MInit ==
  /\ TInit
  /\ world \in Worlds

MockAnswers ==
  \A w \in Workers, r \in Runs :
    pc[w] = "model" /\ pc'[w] # "model" /\ Turns(steps'[r]) # Turns(steps[r]) =>
      /\ steps'[r][Len(steps[r]) + 1].calls = Mock(asked[w])
      /\ status'[r] # "failed"

MNext ==
  /\ TNext
  /\ MockAnswers
  /\ UNCHANGED world

MSpec == MInit /\ [][MNext]_<<vars, historyVars, world>>

-----------------------------------------------------------------------------
(* Properties.                                                             *)

(* Planning again never takes back what was decided: whatever a run has     *)
(* read, failed at, been told or been denied since, the turns it has taken  *)
(* are those the plan of this moment begins with (_brief: the next turn     *)
(* would decide it had been working a refund all along).                    *)
PlanKeepsItsPast ==
  \A r \in Runs :
    LET log == steps[r]
        turns == RecordedTurns(log)
        plan == Plan(Rebuild(log))
    IN \A i \in DOMAIN turns :
         Signature(log, turns[i]) = IF i \in DOMAIN plan THEN plan[i] ELSE <<>>
=============================================================================
