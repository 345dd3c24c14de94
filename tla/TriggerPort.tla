----------------------------- MODULE TriggerPort -----------------------------
(***************************************************************************)
(* The port of the agent loop to a durable-task service.  A run's position *)
(* is in variables of the attempt that drives it; an attempt that dies is  *)
(* followed by one that starts at the top, walks the same trajectory again *)
(* and relies on upserted steps, a ledger keyed by step number, and tokens *)
(* created under an idempotency key.  One run, driven by one attempt at a  *)
(* time.  The provider is the scripted one: its reply is a function of the *)
(* conversation (said remembers which).                                    *)
(***************************************************************************)
EXTENDS Naturals, Sequences, FiniteSets

CONSTANTS
  Plain,         \* calls of tools that need no approval
  Irreversible,  \* calls of tools that do
  Invalid,       \* calls whose arguments fail the tool's schema
  Unregistered,  \* calls that name no tool
  Replies,       \* what the provider may say: the calls of a turn, <<>> to finish
  MaxSteps,      \* max_steps of the run
  LoopThreshold, \* loopDetectionThreshold
  MaxAttempts,   \* maxAttempts of the task's retry policy
  MaxCalls       \* calls in the longest turn of the script

Actions == Plain \cup Irreversible \cup Unregistered
Refusal == <<"refusal">>

ASSUME CallsAssumption ==
  /\ Invalid \subseteq Plain \cup Irreversible
  /\ Plain \cap Irreversible = {}
  /\ Unregistered \cap (Plain \cup Irreversible) = {}
  /\ Replies \subseteq Seq(Actions) \cup {Refusal}
ASSUME TurnsAssumption ==
  MaxCalls \in Nat /\ \A r \in Replies : Len(r) <= MaxCalls
ASSUME BoundsAssumption ==
  /\ MaxSteps \in Nat \ {0}
  /\ LoopThreshold \in Nat \ {0}
  /\ MaxAttempts \in Nat \ {0}

VARIABLES
  status,     \* runs.status
  cost,       \* runs.cost_micros, in model calls
  overdue,    \* a ceiling other than steps and repetition is reached (tokens, spend, deadline, budgets)
  steps,      \* the step log, by seq
  ledger,     \* tool_invocations, by the seq in their idempotency key
  rows,       \* approvals, by call
  tokens,     \* waitpoint tokens, by call
  undelivered,\* calls approve.ts has answered in the row and not yet at the token
  direct,     \* calls answered at the token by whoever holds it (history only)
  said,       \* the provider's replies, by conversation
  attempt,    \* attempts so far
  pc,         \* where the attempt is
  seq, messages, reply, results, \* its variables
  verdict     \* the status it is about to end the run with

position == <<seq, messages, reply, results, verdict>>
consent == <<rows, tokens, undelivered, direct>>
vars == <<status, cost, overdue, steps, ledger, rows, tokens, undelivered, direct, said,
          attempt, pc, seq, messages, reply, results, verdict>>

Ended == {"succeeded", "failed", "exhausted"}
Empty == [x \in {} |-> x]
Put(f, x, v) == [y \in DOMAIN f \cup {x} |-> IF y = x THEN v ELSE f[y]]

Init ==
  /\ status = "running" /\ cost = 0 /\ overdue = FALSE
  /\ steps = <<>> /\ ledger = Empty
  /\ rows = Empty /\ tokens = Empty /\ undelivered = {} /\ direct = {}
  /\ said = Empty
  /\ attempt = 0 /\ pc = "down"
  /\ seq = 0 /\ messages = <<>> /\ reply = <<>> /\ results = <<>> /\ verdict = "none"

GoTo(place) == pc' = place
Forget ==
  /\ seq' = 0 /\ messages' = <<>> /\ reply' = <<>> /\ results' = <<>> /\ verdict' = "none"

(* run() is entered from the top. *)
StartAttempt ==
  /\ pc = "down" /\ attempt < MaxAttempts
  /\ attempt' = attempt + 1
  /\ GoTo("bounds")
  /\ UNCHANGED <<status, cost, overdue, steps, ledger, consent, said, position>>

-----------------------------------------------------------------------------
(* Steps: an upsert describes its step anew and adds to what it has cost.   *)

StepOf(kind, call, ok, spent) == [kind |-> kind, call |-> call, ok |-> ok, cost |-> spent]
NoCall == <<0, 0>>

Upserted_CostOverwritten(step) == Put(steps, seq + 1, step)
Upserted(step) ==
  LET before == IF seq + 1 \in DOMAIN steps THEN steps[seq + 1].cost ELSE 0 IN
  Put(steps, seq + 1, [step EXCEPT !.cost = @ + before])

AppendStep(step) == steps' = Upserted(step) /\ seq' = seq + 1

EndWith(result) == verdict' = result /\ GoTo("ending")

-----------------------------------------------------------------------------
(* The bounds and the model. *)

Looping ==
  \E s \in DOMAIN ledger :
    Cardinality({t \in DOMAIN ledger : ledger[t].action = ledger[s].action}) >= LoopThreshold
Breach == overdue \/ seq >= MaxSteps \/ Looping

Exhaust ==
  /\ pc = "bounds" /\ Breach
  /\ EndWith("exhausted")
  /\ UNCHANGED <<status, cost, overdue, steps, ledger, consent, said, attempt,
                 seq, messages, reply, results>>

(* The reply of a provider that looks at nothing but the conversation. *)
Says_Anything(r) == TRUE
Says(r) == messages \in DOMAIN said => r = said[messages]

(* The model call, its step and the run's usage. *)
AskModel ==
  /\ pc = "bounds" /\ ~Breach
  /\ \E r \in Replies :
       /\ Says(r)
       /\ said' = Put(said, messages, r)
       /\ reply' = r
  /\ AppendStep(StepOf("model_call", NoCall, TRUE, 1))
  /\ cost' = cost + 1
  /\ results' = <<>>
  /\ GoTo("settling")
  /\ UNCHANGED <<status, overdue, ledger, consent, attempt, messages, verdict>>

Refused ==
  /\ pc = "settling" /\ reply = Refusal
  /\ EndWith("failed")
  /\ UNCHANGED <<status, cost, overdue, steps, ledger, consent, said, attempt,
                 seq, messages, reply, results>>

Conclude ==
  /\ pc = "settling" /\ reply = <<>>
  /\ AppendStep(StepOf("final", NoCall, TRUE, 0))
  /\ EndWith("succeeded")
  /\ UNCHANGED <<status, cost, overdue, ledger, consent, said, attempt, messages, reply, results>>

-----------------------------------------------------------------------------
(* Settling the calls of a turn in order.  The provider names a call by its *)
(* turn and its position.                                                   *)

CallInHand == <<Len(messages) + 1, Len(results) + 1>>
ActionInHand == reply[Len(results) + 1]
InHand == reply # Refusal /\ Len(results) < Len(reply)

(* A result becomes part of the turn's message to the model. *)
Answer(result) == results' = Append(results, result)

Unsound == ActionInHand \in Unregistered \cup (Irreversible \cap Invalid)

(* failedResult: a step, no ledger row. *)
FailedResult ==
  /\ pc = "settling" /\ InHand /\ Unsound
  /\ AppendStep(StepOf("tool_result", CallInHand, FALSE, 0))
  /\ Answer("failed")
  /\ UNCHANGED <<status, cost, overdue, ledger, consent, said, attempt, pc,
                 messages, reply, verdict>>

(* createToken, idempotent by run and call ... *)
Issued_Anew(c) == Put(tokens, c, "waiting")
Issued(c) == IF c \in DOMAIN tokens THEN tokens ELSE Put(tokens, c, "waiting")
CreateToken ==
  /\ pc = "settling" /\ InHand /\ ActionInHand \in Irreversible /\ ~Unsound
  /\ tokens' = Issued(CallInHand)
  /\ GoTo("asking")
  /\ UNCHANGED <<status, cost, overdue, steps, ledger, rows, undelivered, direct, said, attempt,
                 position>>

(* ... and the row, on conflict do nothing. *)
RequestApproval ==
  /\ pc = "asking"
  /\ rows' = IF CallInHand \in DOMAIN rows THEN rows
             ELSE Put(rows, CallInHand, [action |-> ActionInHand, status |-> "pending"])
  /\ GoTo("waiting")
  /\ UNCHANGED <<status, cost, overdue, steps, ledger, tokens, undelivered, direct, said, attempt,
                 position>>

(* recordDecision and recordExpiry: only a pending row. *)
Settled(c, answer) ==
  IF rows[c].status = "pending" THEN [rows EXCEPT ![c].status = answer] ELSE rows

(* assertConsentCovers: the request on record is of the call in hand.         *)
Covered == rows[CallInHand].action = ActionInHand

NextPlace_ExpiryIsDenial(answer) == IF answer = "approved" THEN "approved" ELSE "denied"
NextPlace(answer) ==
  IF answer = "expired" \/ (answer = "approved" /\ ~Covered) THEN "ending" ELSE answer

(* The run goes by the token's answer, whatever the row says. *)
Wake ==
  LET c == CallInHand IN
  /\ pc = "waiting" /\ tokens[c] # "waiting"
  /\ rows' = Settled(c, tokens[c])
  /\ GoTo(NextPlace(tokens[c]))
  /\ verdict' = IF NextPlace(tokens[c]) = "ending" THEN "failed" ELSE verdict
  /\ UNCHANGED <<status, cost, overdue, steps, ledger, tokens, undelivered, direct, said, attempt,
                 seq, messages, reply, results>>

RecordDenial ==
  /\ pc = "denied"
  /\ AppendStep(StepOf("approval", CallInHand, FALSE, 0))
  /\ Answer("denied")
  /\ GoTo("settling")
  /\ UNCHANGED <<status, cost, overdue, ledger, consent, said, attempt, messages, reply, verdict>>

(* invoke, the step it belongs to and the ledger row, in one transaction: a *)
(* key the ledger knows returns what is recorded there.                     *)
ToolStep(ok) == StepOf("tool_result", CallInHand, ok, 0)
Key_PerAttempt(n) == n + 10 * attempt
Key(n) == n
Invoke ==
  LET key == Key(seq + 1)
      known == key \in DOMAIN ledger IN
  /\ \/ pc = "settling" /\ InHand /\ ActionInHand \in Plain
     \/ pc = "approved"
  /\ \E ok \in BOOLEAN :
       /\ known => ok = ledger[key].ok
       /\ ActionInHand \in Invalid /\ ~known => ~ok
       /\ ledger' = IF known THEN ledger
                    ELSE Put(ledger, key, [call |-> CallInHand, action |-> ActionInHand, ok |-> ok])
       /\ AppendStep(ToolStep(ok))
       /\ Answer(IF ok THEN "ok" ELSE "failed")
  /\ GoTo("settling")
  /\ UNCHANGED <<status, cost, overdue, consent, said, attempt, messages, reply, verdict>>

(* The turn is settled: its results go to the model. *)
NextTurn ==
  /\ pc = "settling" /\ reply \notin {<<>>, Refusal} /\ ~InHand
  /\ messages' = Append(messages, [reply |-> reply, results |-> results])
  /\ GoTo("bounds")
  /\ UNCHANGED <<status, cost, overdue, steps, ledger, consent, said, attempt,
                 seq, reply, results, verdict>>

(* end: the status, whatever it was. *)
End ==
  /\ pc = "ending"
  /\ status' = verdict
  /\ GoTo("returning")
  /\ UNCHANGED <<cost, overdue, steps, ledger, consent, said, attempt, position>>

Return ==
  /\ pc = "returning"
  /\ GoTo("done")
  /\ Forget
  /\ UNCHANGED <<status, cost, overdue, steps, ledger, consent, said, attempt>>

(* The attempt fails anywhere: a thrown error, a lost process. *)
Crash ==
  /\ pc \notin {"down", "done"}
  /\ GoTo("down")
  /\ Forget
  /\ UNCHANGED <<status, cost, overdue, steps, ledger, consent, said, attempt>>

-----------------------------------------------------------------------------
(* Around the run. *)

(* approve.ts: the row first, then the token; it may die in between. *)
Undecided(c) == c \in DOMAIN rows /\ rows[c].status = "pending"
Decide(c) ==
  /\ Undecided(c)
  /\ \E answer \in {"approved", "denied"} : rows' = [rows EXCEPT ![c].status = answer]
  /\ undelivered' = undelivered \cup {c}
  /\ UNCHANGED <<status, cost, overdue, steps, ledger, tokens, direct, said, attempt, pc, position>>

Deliver(c) ==
  /\ c \in undelivered
  /\ undelivered' = undelivered \ {c}
  /\ tokens' = [tokens EXCEPT ![c] = IF @ = "waiting" THEN rows[c].status ELSE @]
  /\ UNCHANGED <<status, cost, overdue, steps, ledger, rows, direct, said, attempt, pc, position>>

(* A token's id is in its row, and whoever holds it can complete the token   *)
(* with any answer, whatever the row says by then.                           *)
CompleteToken(c) ==
  /\ c \in DOMAIN rows /\ tokens[c] = "waiting"
  /\ \E answer \in {"approved", "denied"} : tokens' = [tokens EXCEPT ![c] = answer]
  /\ direct' = direct \cup {c}
  /\ UNCHANGED <<status, cost, overdue, steps, ledger, rows, undelivered, said, attempt, pc, position>>

TokenTimesOut_Never(c) == FALSE /\ UNCHANGED vars
TokenTimesOut(c) ==
  /\ c \in DOMAIN tokens /\ tokens[c] = "waiting"
  /\ tokens' = [tokens EXCEPT ![c] = "expired"]
  /\ UNCHANGED <<status, cost, overdue, steps, ledger, rows, undelivered, direct, said, attempt, pc,
                 position>>

(* The daily budgets are used up, and there is a next day. *)
Ceiling ==
  /\ overdue' = ~overdue
  /\ UNCHANGED <<status, cost, steps, ledger, consent, said, attempt, pc, position>>

CallIds == (1..MaxSteps) \X (1..MaxCalls)

Attempt ==
  \/ StartAttempt \/ Exhaust \/ AskModel \/ Refused \/ Conclude \/ FailedResult
  \/ CreateToken \/ RequestApproval \/ Wake \/ RecordDenial \/ Invoke \/ NextTurn
  \/ End \/ Return

Next ==
  \/ Attempt \/ Crash \/ Ceiling
  \/ \E c \in CallIds : Decide(c) \/ Deliver(c) \/ CompleteToken(c) \/ TokenTimesOut(c)

Spec == Init /\ [][Next]_vars

(* The service runs the attempts and times the tokens out; nobody need       *)
(* answer, and an answer need not arrive.                                    *)
FairSpec == Spec /\ WF_vars(Attempt) /\ \A c \in CallIds : WF_vars(TokenTimesOut(c))
-----------------------------------------------------------------------------
(* Every variable has its type, the log has no gaps, and a run has a verdict *)
(* just while it is being ended.                                             *)
Answers == {"approved", "denied", "expired"}
TypeOK ==
  /\ status \in {"running"} \cup Ended
  /\ cost \in Nat /\ overdue \in BOOLEAN
  /\ DOMAIN steps = 1..Cardinality(DOMAIN steps)
  /\ DOMAIN ledger \subseteq DOMAIN steps
  /\ DOMAIN rows \subseteq DOMAIN tokens /\ DOMAIN tokens \subseteq CallIds
  /\ \A c \in DOMAIN rows : rows[c] \in [action: Irreversible, status: {"pending"} \cup Answers]
  /\ \A c \in DOMAIN tokens : tokens[c] \in {"waiting"} \cup Answers
  /\ undelivered \subseteq DOMAIN rows /\ direct \subseteq DOMAIN rows
  /\ attempt \in 0..MaxAttempts
  /\ pc \in {"down", "bounds", "settling", "asking", "waiting", "denied", "approved",
             "ending", "returning", "done"}
  /\ verdict \in Ended <=> pc \in {"ending", "returning"}
  /\ reply \in Replies \cup {<<>>} /\ Len(results) <= Len(reply)

(* A retry finds in the ledger what it is about to do, and tells of it again *)
(* as it was: the row under its next key, if there is one, is of the very    *)
(* call in hand (idempotencyKey is the step number, and the provider keeps   *)
(* no counter), and the step log still describes every act of the ledger     *)
(* however often the run was walked over it (appendStep overwrites).         *)
LedgerAnswersTheCall ==
  (pc \in {"settling", "asking", "waiting", "approved"} /\ InHand /\ seq + 1 \in DOMAIN ledger)
    => ledger[seq + 1].call = CallInHand /\ ledger[seq + 1].action = ActionInHand
LogTellsTheLedger ==
  \A n \in DOMAIN ledger :
    steps[n].kind = "tool_result" /\ steps[n].call = ledger[n].call /\ steps[n].ok = ledger[n].ok
LedgerFollowsTheWalk == LedgerAnswersTheCall /\ LogTellsTheLedger

(* What the steps have cost adds up to what the run has cost, retries        *)
(* included (appendStep: "the whole correctness of this function").          *)
Logged == Cardinality(DOMAIN steps)
CostsAddUp ==
  LET costUpTo[n \in 0..Logged] == IF n = 0 THEN 0 ELSE costUpTo[n - 1] + steps[n].cost
  IN costUpTo[Logged] = cost

(* What a person said, as the row, the token, the log and the run have it.   *)
(* Row and token may differ, in four ways and no other: the row is still to  *)
(* be written (recordDecision, recordExpiry), approve.ts has not come to the *)
(* token, the token had expired when it did, or the call was answered twice, *)
(* in the row by approve.ts and at the token by somebody else.               *)
Decided == {"approved", "denied"}
RowAndTokenDiffer(c) ==
  \/ rows[c].status = "pending"
  \/ rows[c].status \in Decided /\ tokens[c] = "waiting" /\ c \in undelivered
  \/ rows[c].status \in Decided /\ tokens[c] = "expired"
  \/ rows[c].status \in Decided /\ tokens[c] \in Decided /\ c \in direct
(* An irreversible act was approved at its token and a denial in the log     *)
(* denied there, and each had its answer in the row before.                  *)
SettledAs(c, answer) == tokens[c] = answer /\ rows[c].status # "pending"
LogFollowsTokens ==
  /\ \A n \in DOMAIN ledger :
       ledger[n].action \in Irreversible => SettledAs(ledger[n].call, "approved")
  /\ \A n \in DOMAIN steps : steps[n].kind = "approval" => SettledAs(steps[n].call, "denied")
(* A run one of whose tokens expired does not succeed in any attempt, even   *)
(* if its row says approved: nothing was done on the lost answer, nor after. *)
LostAnswersStop == (\E c \in DOMAIN tokens : tokens[c] = "expired") => status # "succeeded"
AnswersAgree ==
  /\ \A c \in DOMAIN rows : rows[c].status = tokens[c] \/ RowAndTokenDiffer(c)
  /\ LogFollowsTokens
  /\ LostAnswersStop

(* Acting on the world goes through consent that was there before, each act  *)
(* is performed once over all attempts, and a question is answered for good: *)
(* ConsentGate.  Consent is the answer the run goes by, the token's.         *)
(* Nothing is claimed of a run that has ended: the port never reads the      *)
(* status of its run.                                                        *)
Gate == INSTANCE ConsentGate WITH
  Runs <- {1},
  consent <- [r \in {1} |->
    [c \in DOMAIN tokens |-> IF tokens[c] = "waiting" THEN "asked" ELSE tokens[c]]],
  performed <- [r \in {1} |-> {<<ledger[n].call, ledger[n].action>> : n \in DOMAIN ledger}],
  over <- {}
ImplementsConsentGate == Gate!Spec

(* A run ends with the attempt that is not the last to fail: it is left      *)
(* `running` only when every attempt the service allows has died.            *)
PortRunEnds == <>(status \in Ended \/ (attempt = MaxAttempts /\ pc = "down"))
=============================================================================
