------------------------------ MODULE Transcript ------------------------------
(***************************************************************************)
(* What a model is shown, and what is read back of a run afterwards.       *)
(*                                                                         *)
(* Nothing keeps a run's messages between steps: a worker rebuilds them    *)
(* from the step log before every model call (transcript.rebuild), and a   *)
(* provider turns them into the shape its service takes.  A replay reads   *)
(* the same log later: the conversation before a step, the trajectory with *)
(* the decisions people took, and where another model would have differed. *)
(*                                                                         *)
(* This module adds to AgentRuntime what its steps leave out: the messages *)
(* a worker's outstanding model call was given, the messages each recorded *)
(* turn was an answer to, and approvals.step_seq.                          *)
(***************************************************************************)
EXTENDS AgentRuntime

VARIABLES
  asked,   \* the messages a worker's outstanding model call was given
  heard,   \* by run: the messages each of its recorded turns answered
  txGate,  \* step_seq of the approvals a worker's open transaction has inserted
  gate     \* approvals.step_seq, by run and call

historyVars == <<asked, heard, txGate, gate>>

-----------------------------------------------------------------------------
(* Messages.  A block names the call it makes or answers; its text is left *)
(* out.                                                                    *)

Prompt == [role |-> "user", content |-> <<[type |-> "text"]>>]

Assistant(log, k) ==
  [role |-> "assistant",
   content |-> [i \in DOMAIN log[k].calls |->
                  [type |-> "tool_use", id |-> <<k, i>>, action |-> log[k].calls[i]]]]

(* What a step adds to the user message being gathered.  A final step adds  *)
(* nothing.                                                                 *)
BlockOf(step) ==
  CASE step.kind \in {"tool_result", "approval"} ->
         <<[type |-> "tool_result", id |-> step.call, error |-> ~step.ok]>>
    [] step.kind = "notice" -> <<[type |-> "text"]>>
    [] OTHER -> <<>>

Flushed(conversation) ==
  IF conversation.pending = <<>> THEN conversation.messages
  ELSE Append(conversation.messages, [role |-> "user", content |-> conversation.pending])

(* The pieces one after the other. *)
Joined(pieces) ==
  LET joined[i \in 0..Len(pieces)] == IF i = 0 THEN <<>> ELSE joined[i - 1] \o pieces[i]
  IN joined[Len(pieces)]

(* transcript.rebuild: consecutive results and notices are one message.     *)
(* conversation[j] is what the loop has after step j.                        *)
Rebuild_OneMessageEach(log) ==
  <<Prompt>> \o Joined([j \in DOMAIN log |->
    IF log[j].kind = "model_call" THEN <<Assistant(log, j)>>
    ELSE [i \in DOMAIN BlockOf(log[j]) |-> [role |-> "user", content |-> BlockOf(log[j])]]])
Taken(conversation, log, j) ==
  IF log[j].kind = "model_call"
  THEN [messages |-> Append(Flushed(conversation), Assistant(log, j)), pending |-> <<>>]
  ELSE [messages |-> conversation.messages, pending |-> conversation.pending \o BlockOf(log[j])]
Conversation(log) ==
  LET conversation[j \in 0..Len(log)] ==
        IF j = 0 THEN [messages |-> <<Prompt>>, pending |-> <<>>]
        ELSE Taken(conversation[j - 1], log, j)
  IN conversation[Len(log)]
Rebuild(log) == Flushed(Conversation(log))

(* ... as it stood before step seq (before_seq). *)
Before(log, seq) == Rebuild(SubSeq(log, 1, seq - 1))

(* What stands at the places of s that are kept, in order: a loop with a    *)
(* test, or a comprehension.                                                *)
Picked(s, kept) == Joined([i \in DOMAIN s |-> IF i \in kept THEN <<s[i]>> ELSE <<>>])

Blocks(message, type) ==
  Picked(message.content, {i \in DOMAIN message.content : message.content[i].type = type})
ToolUses(message) == Blocks(message, "tool_use")
Results(message) == Blocks(message, "tool_result")
Texts(message) == Blocks(message, "text")
Ids(blocks) == [i \in DOMAIN blocks |-> blocks[i].id]

(* _to_openai: one assistant message with its calls, one tool message for   *)
(* each result, and a user message for what text is left.                   *)
Fan(message) ==
  IF message.role = "assistant"
  THEN <<[role |-> "assistant", ids |-> Ids(ToolUses(message))]>>
  ELSE [i \in DOMAIN Results(message) |->
          [role |-> "tool", ids |-> <<Results(message)[i].id>>]]
         \o (IF Texts(message) = <<>> THEN <<>> ELSE <<[role |-> "user", ids |-> <<>>]>>)
ToOpenAI(messages) == Joined([m \in DOMAIN messages |-> Fan(messages[m])])

-----------------------------------------------------------------------------
(* Reading a run back.                                                     *)

(* replay.load: the turns of a run, in order, and what each decided: tools  *)
(* and arguments, neither prose nor ids.                                    *)
RecordedTurns(log) == Picked([j \in DOMAIN log |-> j], Turns(log))
Signature(log, k) == log[k].calls

(* ScriptedProvider: the turn it gives is derived from the history.         *)
TurnIndex_OfMessages(messages) == Len(messages) \div 2
TurnIndex(messages) == Cardinality({m \in DOMAIN messages : messages[m].role = "assistant"})
Scripted(script, messages) ==
  IF TurnIndex(messages) < Len(script) THEN script[TurnIndex(messages) + 1] ELSE <<>>

NoDivergence == 0

(* The conversations that went before each recorded decision. *)
Observed(log) == [i \in DOMAIN RecordedTurns(log) |-> Before(log, RecordedTurns(log)[i])]

(* replay.diverge: ask for each decision again, replayed being what another *)
(* model answers to Observed; stop at the first that differs, or where both *)
(* finish.                                                                  *)
Diverge(log, replayed) ==
  LET turns == RecordedTurns(log)
      Differs(i) == replayed[i] # Signature(log, turns[i])
      Stops(i) == Differs(i) \/ Signature(log, turns[i]) = <<>>
      stops == {i \in DOMAIN turns : Stops(i) /\ \A j \in 1..i - 1 : ~Stops(j)}
  IN IF \E i \in stops : Differs(i)
     THEN [step |-> turns[CHOOSE i \in stops : TRUE], matched |-> (CHOOSE i \in stops : TRUE) - 1]
     ELSE [step |-> NoDivergence, matched |-> IF stops = {} THEN Len(turns) ELSE CHOOSE i \in stops : TRUE]

(* replay.show: the decisions printed above a step are those whose request  *)
(* carries its seq.                                                         *)
Shown(r) ==
  [j \in DOMAIN steps[r] |->
     [decisions |-> {c \in DOMAIN gate[r] : gate[r][c] = j}, step |-> steps[r][j]]]

-----------------------------------------------------------------------------
(* The runtime, with its messages.                                         *)

TInit ==
  /\ Init
  /\ asked = [w \in Workers |-> <<>>]
  /\ heard = [r \in Runs |-> <<>>]
  /\ txGate = [w \in Workers |-> <<>>]
  /\ gate = [r \in Runs |-> <<>>]

(* advance rebuilds on the transaction that renewed the lease, and hands    *)
(* the messages to the provider.                                            *)
Asks == asked' =
  [w \in Workers |->
     CASE pc'[w] # "model" -> <<>>
       [] pc[w] = "model" -> asked[w]
       [] OTHER -> Rebuild(steps'[run'[w]])]

(* _record_reply: a reply is the answer to what its worker was given. *)
Hears == heard' =
  [r \in Runs |->
     IF Turns(steps'[r]) = Turns(steps[r]) THEN heard[r]
     ELSE Append(heard[r],
                 asked[CHOOSE w \in Workers : pc[w] = "model" /\ pc'[w] # "model"])]

(* _settle asks with the seq the next step of the run would take. *)
StepSeq_OfTheLastStep(log) == Len(log)
StepSeq(log) == Len(log) + 1

Gates ==
  /\ txGate' = [w \in Workers |->
       [c \in txAsks'[w] |-> IF c \in txAsks[w] THEN txGate[w][c] ELSE StepSeq(txSteps[w])]]
  /\ gate' = [r \in Runs |->
       [c \in DOMAIN approvals'[r] |->
          IF c \in DOMAIN approvals[r] THEN gate[r][c]
          ELSE txGate[CHOOSE w \in Workers : run[w] = r /\ c \in txAsks[w]][c]]]

TNext == Next /\ Asks /\ Hears /\ Gates

TSpec == TInit /\ [][TNext]_<<vars, historyVars>>

-----------------------------------------------------------------------------
(* Properties.                                                             *)

(* The message after a turn answers its calls, each once, before anything   *)
(* else it says; and no result is anywhere else.                            *)
Named(blocks) == {blocks[i].id : i \in DOMAIN blocks}
AnsweredNext(messages) ==
  \A m \in DOMAIN messages :
    LET answered == IF m = 1 THEN <<>> ELSE ToolUses(messages[m - 1])
        results == Results(messages[m])
    IN /\ Named(results) = Named(answered)
       /\ Len(results) = Len(answered)
       /\ \A i \in DOMAIN results : messages[m].content[i].type = "tool_result"

(* The same in the other shape: each call has its tool message before the   *)
(* next message of any other role, and there are no more of them.           *)
AnsweredByTools(messages) ==
  \A m \in DOMAIN messages :
    LET ids == messages[m].ids
        tools == {n \in DOMAIN messages : n > m /\ \A l \in m + 1..n : messages[l].role = "tool"}
    IN messages[m].role # "tool" =>
         /\ {messages[n].ids[1] : n \in tools} = {ids[i] : i \in DOMAIN ids}
         /\ Cardinality(tools) = Len(ids)

(* "A tool message must follow the assistant message carrying the call it   *)
(* answers, or the API rejects the conversation" (_to_openai), and "an API  *)
(* requirement when a turn asked for several tools at once" (rebuild): what *)
(* a provider is sent answers every call in its place, in both shapes, when *)
(* a turn was settled in pieces, by several workers, or partly by a denial. *)
CallsAreAnsweredInPlace ==
  \A w \in Workers : pc[w] = "model" =>
    AnsweredNext(asked[w]) /\ AnsweredByTools(ToOpenAI(asked[w]))

(* "What did the model see when it decided" has one answer (rebuild): the   *)
(* log gives back, for every recorded turn, the very messages it answered,  *)
(* however slow its worker was.  So the model that made a run, replayed,    *)
(* diverges nowhere, and one that answers a single turn differently is said *)
(* to differ at that turn (diverge).                                        *)
ReplayFindsTheChange ==
  \A r \in Runs :
    LET log == steps[r]
        turns == RecordedTurns(log)
        script == [i \in DOMAIN turns |-> Signature(log, turns[i])]
        observed == Observed(log)
        Again(messages) == script[CHOOSE i \in DOMAIN turns : heard[r][i] = messages]
        Replayed(Complete(_)) == [i \in DOMAIN turns |-> Complete(observed[i])]
    IN /\ observed = heard[r]
       /\ Diverge(log, Replayed(Again)) = [step |-> NoDivergence, matched |-> Len(turns)]
       /\ \A i \in DOMAIN turns :
            \A other \in {<<>>, CHOOSE reply \in Replies : reply # script[i]} \ {script[i]} :
              LET Changed(messages) == Scripted([script EXCEPT ![i] = other], messages)
              IN Diverge(log, Replayed(Changed)) = [step |-> turns[i], matched |-> i - 1]

(* A decision a call was settled on is shown after the turn that made the   *)
(* call and no later than the step it let through or refused: a granted one *)
(* writes no step, and without it a run "would otherwise replay with no     *)
(* sign that the most consequential thing in it ever happened" (show).      *)
DecisionsAreShown ==
  \A r \in Runs : \A j \in Answers(steps[r]) :
    LET c == steps[r][j].call IN
    c \in DOMAIN approvals[r] =>
      \E i \in c[1] + 1..j : c \in Shown(r)[i].decisions
=============================================================================
