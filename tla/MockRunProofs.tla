----------------------------- MODULE MockRunProofs -----------------------------
(***************************************************************************)
(* Planning again never takes back what was decided.                       *)
(*                                                                         *)
(* The mock keeps nothing: on every turn it plans from the messages it is  *)
(* given. Grounded says that what it finds in them is what the log holds:  *)
(* each call under its name, each answer to a call. So its plan is a       *)
(* function of the log (PlanIn), and a log went by its plan if every turn  *)
(* of it is the one the plan has there (Planned).                          *)
(*                                                                         *)
(* An answer may change the plan. It does not change the turns taken:      *)
(* every plan begins with the same turn; from the second turn on the first *)
(* answer is there, and which plan it is rests on that one alone; and from *)
(* the fourth on nothing is read any more that the refund depends on. A    *)
(* turn is the next of the plan because its worker was given the messages  *)
(* of the log as it stands (HeardInv), with each call answered (RInv).     *)
(***************************************************************************)
EXTENDS MockRun, TranscriptProofs

(* What the messages rebuilt of a log call, and what they answer.            *)
Uses(log) == Calls(Rebuild(log))
Given(log) == Answered(Rebuild(log))

(* Each of its calls is one of the log, under the name it has there, and all *)
(* of them are there; what is answered was called; and the last turn a replay *)
(* finds is the last one.                                                    *)
Grounded(log) ==
  /\ \A i \in DOMAIN Uses(log) :
       /\ Uses(log)[i].id[1] \in Turns(log)
       /\ Uses(log)[i].action = ActionOf(log, Uses(log)[i].id)
       /\ Uses(log)[i].action \in Actions
  /\ \A k \in Turns(log) : \A i \in DOMAIN log[k].calls :
       \E j \in DOMAIN Uses(log) : Uses(log)[j].id = <<k, i>>
  /\ \A i \in DOMAIN Given(log) : \E j \in DOMAIN Uses(log) : Uses(log)[j].id = Given(log)[i].id
  /\ Answers(log) # {} => Given(log) # <<>>
  /\ \A k \in LastTurn(log) :
       Len(RecordedTurns(log)) # 0 /\ RecordedTurns(log)[Len(RecordedTurns(log))] = k

-----------------------------------------------------------------------------
(* The calls and the answers of one message more. *)

(* Calls and answers grow by those of the message.                           *)
LEMMA BlocksMove ==
  ASSUME NEW ms \in Seq(Message), NEW m \in Message
  PROVE  /\ Calls(ms) \in Seq(Block) /\ Answered(ms) \in Seq(Block)
         /\ Calls(Append(ms, m)) = Calls(ms) \o ToolUses(m)
         /\ Answered(Append(ms, m)) = Answered(ms) \o Results(m)
         /\ ms = <<>> => Calls(ms) = <<>> /\ Answered(ms) = <<>>
  <1> DEFINE Each(s, type) == [i \in DOMAIN s |-> Blocks(s[i], type)]
  <1>0. \A type : \A x \in Message : Blocks(x, type) \in Seq(Block)
    <2>1. ASSUME NEW x \in Message, NEW type PROVE Blocks(x, type) \in Seq(Block)
      <3>1. Blocks(x, type) \in Seq({b \in Block : b.type = type})
        BY BlocksTyped
      <3> QED BY <3>1
    <2> QED BY <2>1
  <1>1. ASSUME NEW s \in Seq(Message), NEW type
        PROVE  Each(s, type) \in Seq(Seq(Block)) /\ Len(Each(s, type)) = Len(s)
    <2>1. \A i \in 1..Len(s) : Blocks(s[i], type) \in Seq(Block)
      <3>1. \A i \in 1..Len(s) : s[i] \in Message
        OBVIOUS
      <3> QED BY <1>0, <3>1
    <2>2. Len(s) \in Nat /\ DOMAIN s = 1..Len(s)
      OBVIOUS
    <2> QED BY <2>1, <2>2
  <1>2. ASSUME NEW type PROVE Each(Append(ms, m), type) = Append(Each(ms, type), Blocks(m, type))
    <2>0. Append(ms, m) \in Seq(Message)
      OBVIOUS
    <2>1. PICK more : more = Append(ms, m) /\ more \in Seq(Message)
      BY <2>0, Zenon
    <2>2. PICK x \in Seq(Block) : x = Blocks(m, type)
      BY <1>0
    <2>3. PICK a \in Seq(Seq(Block)) : a = Each(ms, type)
      BY <1>1
    <2>4. PICK b \in Seq(Seq(Block)) : b = Each(more, type)
      <3>1. Each(more, type) \in Seq(Seq(Block))
        BY <1>1, <2>1
      <3> HIDE DEF Each
      <3> QED BY <3>1
    <2>5. PICK n \in Nat : n = Len(ms)
      OBVIOUS
    <2>6. /\ Append(a, x) \in Seq(Seq(Block)) /\ Len(Append(a, x)) = n + 1
          /\ (\A i \in 1..n : Append(a, x)[i] = a[i]) /\ Append(a, x)[n + 1] = x
      BY <1>1, <2>3, <2>5
    <2>7. Len(b) = n + 1
      BY <1>1, <2>1, <2>4, <2>5
    <2>8. ASSUME NEW i \in 1..n + 1 PROVE b[i] = Append(a, x)[i]
      <3>1. CASE i = n + 1
        <4>1. more[i] = m /\ i \in DOMAIN more
          BY <2>1, <2>5, <3>1
        <4> QED BY <2>2, <2>4, <2>6, <3>1, <4>1
      <3>2. CASE i \in 1..n
        <4>1. more[i] = ms[i] /\ i \in DOMAIN more /\ i \in DOMAIN ms
          BY <2>1, <2>5, <3>2
        <4> QED BY <2>3, <2>4, <2>6, <3>2, <4>1
      <3>3. i = n + 1 \/ i \in 1..n
        OBVIOUS
      <3> QED BY <3>1, <3>2, <3>3
    <2>9. b = Append(a, x)
      BY <2>6, <2>7, <2>8, SeqEqual
    <2> QED BY <2>1, <2>2, <2>3, <2>4, <2>9
  <1>3. \A type : ms = <<>> => Each(ms, type) = <<>>
    OBVIOUS
  <1> HIDE DEF Each
  <1>4. ASSUME NEW type
        PROVE  /\ Joined(Each(ms, type)) \in Seq(Block)
               /\ Joined(Each(Append(ms, m), type)) = Joined(Each(ms, type)) \o Blocks(m, type)
               /\ ms = <<>> => Joined(Each(ms, type)) = <<>>
    <2>1. Each(ms, type) \in Seq(Seq(Block)) /\ Blocks(m, type) \in Seq(Block)
      BY <1>0, <1>1
    <2> QED BY <1>2, <1>3, <2>1, JoinedAppend
  <1>5. \A s : Calls(s) = Joined(Each(s, "tool_use")) /\ Answered(s) = Joined(Each(s, "tool_result"))
    BY DEF Calls, Answered, Each, ToolUses, Results
  <1> QED BY <1>4, <1>5 DEF ToolUses, Results

(* A turn's message has its calls and answers nothing.                       *)
LEMMA TurnBlocks ==
  ASSUME NEW log, NEW k \in Nat, log[k].calls \in Seq(Actions)
  PROVE  /\ Assistant(log, k) \in Message
         /\ ToolUses(Assistant(log, k)) = Assistant(log, k).content
         /\ Results(Assistant(log, k)) = <<>>
  <1>1. PICK n \in Nat : n = Len(log[k].calls) /\ DOMAIN log[k].calls = 1..n /\ \A i \in 1..n : log[k].calls[i] \in Actions
    OBVIOUS
  <1>2. PICK c : c = [i \in 1..n |-> [type |-> "tool_use", id |-> <<k, i>>, action |-> log[k].calls[i]]]
    OBVIOUS
  <1>3. c \in Seq(Block) /\ Len(c) = n /\ \A i \in 1..n : c[i].type = "tool_use"
    <2>1. \A i \in 1..n : <<k, i>> \in CallIds
      BY DEF CallIds
    <2>2. \A i \in 1..n : [type |-> "tool_use", id |-> <<k, i>>, action |-> log[k].calls[i]] \in Block
      BY <1>1, <2>1 DEF Block
    <2> QED BY <1>2, <2>2
  <1>4. PICK m : m = Assistant(log, k)
    OBVIOUS
  <1>5. m = [role |-> "assistant", content |-> c]
    BY <1>1, <1>2, <1>4 DEF Assistant
  <1>6. m \in Message /\ m.content = c
    BY <1>3, <1>5 DEF Message
  <1>7. ToolUses(m) = c /\ Results(m) = <<>>
    <2>1. PICK uses : uses = {i \in DOMAIN c : c[i].type = "tool_use"}
      OBVIOUS
    <2>2. PICK results : results = {i \in DOMAIN c : c[i].type = "tool_result"}
      OBVIOUS
    <2>3. (\A i \in 1..Len(c) : i \in uses) /\ (\A i \in 1..Len(c) : i \notin results)
      BY <1>2, <1>3, <2>1, <2>2
    <2>4. Picked(c, uses) = c /\ Picked(c, results) = <<>>
      BY <1>3, <2>3, PickedAll
    <2> QED BY <1>6, <2>1, <2>2, <2>4 DEF ToolUses, Results, Blocks
  <1> QED BY <1>4, <1>6, <1>7

(* What has been gathered is among the answers once it is sent.              *)
LEMMA FlushedBlocks ==
  ASSUME NEW ms \in Seq(Message), NEW p \in Seq(Said),
         NEW sent, sent = Flushed([messages |-> ms, pending |-> p])
  PROVE  /\ sent \in Seq(Message)
         /\ Calls(sent) = Calls(ms)
         /\ Answered(sent) = Answered(ms) \o Results(Says(p))
  <1>1. Calls(ms) \in Seq(Block) /\ Answered(ms) \in Seq(Block)
    <2>1. Prompt \in Message
      BY PromptTyped
    <2> QED BY <2>1, BlocksMove
  <1>2. /\ Says(p) \in Message /\ ToolUses(Says(p)) = <<>>
        /\ p = <<>> => Results(Says(p)) = <<>>
    BY GatheredMoves
  <1>3. CASE p = <<>>
    <2>1. sent = ms
      BY <1>3 DEF Flushed
    <2>2. Answered(ms) \o <<>> = Answered(ms)
      BY <1>1
    <2> QED BY <1>2, <1>3, <2>1, <2>2
  <1>4. CASE p # <<>>
    <2>1. sent = Append(ms, Says(p))
      BY <1>4 DEF Flushed, Says
    <2>2. Append(ms, Says(p)) \in Seq(Message)
      BY <1>2
    <2>3. /\ Calls(Append(ms, Says(p))) = Calls(ms) \o <<>>
          /\ Answered(Append(ms, Says(p))) = Answered(ms) \o Results(Says(p))
      BY <1>2, BlocksMove
    <2>4. Calls(ms) \o <<>> = Calls(ms)
      BY <1>1
    <2> QED BY <2>1, <2>2, <2>3, <2>4
  <1> QED BY <1>3, <1>4

(* The block a result or a denial leaves.                                    *)
Answer(step) == [type |-> "tool_result", id |-> step.call, error |-> ~step.ok]

(* What a step adds to the calls and to the answers of a log.                *)
LEMMA ReadMoves ==
  ASSUME NEW log \in Seq(Step), InPlace(log), NEW s \in Step
  PROVE  /\ Uses(log) \in Seq(Block) /\ Given(log) \in Seq(Block)
         /\ s.kind = "model_call" =>
              /\ Uses(Append(log, s)) = Uses(log) \o Assistant(Append(log, s), Len(log) + 1).content
              /\ Given(Append(log, s)) = Given(log)
         /\ s.kind \in {"tool_result", "approval"} =>
              /\ Uses(Append(log, s)) = Uses(log)
              /\ Given(Append(log, s)) = Append(Given(log), Answer(s))
         /\ s.kind \in {"notice", "final"} =>
              Uses(Append(log, s)) = Uses(log) /\ Given(Append(log, s)) = Given(log)
  <1>1. PICK more : more = Append(log, s)
    OBVIOUS
  <1>2. PICK n \in Nat : n = Len(log) /\ n + 1 \in Nat /\ more[n + 1] = s
    BY <1>1
  <1>3. PICK ms, p : ms = Conversation(log).messages /\ p = Conversation(log).pending
    OBVIOUS
  <1>4. ms \in Seq(Message) /\ p \in Seq(Said)
    BY <1>3 DEF InPlace, Open
  <1>5. PICK sent : sent = Flushed([messages |-> ms, pending |-> p]) /\ sent = Rebuild(log)
    BY <1>3 DEF Flushed, Rebuild
  <1>6. PICK r : r = Results(Says(p)) /\ r \in Seq(Block)
    <2>1. Results(Says(p)) \in Seq({b \in Block : b.type = "tool_result"})
      BY <1>4, GatheredMoves
    <2>2. Results(Says(p)) \in Seq(Block)
      BY <2>1
    <2> QED BY <2>2
  <1>7. sent \in Seq(Message) /\ Uses(log) = Calls(ms) /\ Given(log) = Answered(ms) \o r
    BY <1>4, <1>5, <1>6, FlushedBlocks DEF Uses, Given
  <1>8. Calls(ms) \in Seq(Block) /\ Answered(ms) \in Seq(Block)
    BY <1>4, PromptTyped, BlocksMove
  <1>9. Uses(log) \in Seq(Block) /\ Given(log) \in Seq(Block)
    BY <1>6, <1>7, <1>8
  <1>10. Conversation(more) = Taken(Conversation(log), more, n + 1)
    BY <1>1, <1>2, ConversationMoves
  <1>11. ASSUME s.kind = "model_call"
         PROVE  Uses(more) = Uses(log) \o Assistant(more, n + 1).content /\ Given(more) = Given(log)
    <2>1. PICK m : m = Assistant(more, n + 1)
      OBVIOUS
    <2>2. m \in Message /\ ToolUses(m) = m.content /\ Results(m) = <<>>
      BY <1>2, <2>1, TurnBlocks DEF Step
    <2>3. Conversation(more) = [messages |-> Append(sent, m), pending |-> <<>>]
      BY <1>2, <1>5, <1>10, <1>11, <2>1 DEF Taken, Rebuild
    <2>4. Rebuild(more) = Append(sent, m)
      BY <2>3 DEF Rebuild, Flushed
    <2>5. Calls(Append(sent, m)) = Calls(sent) \o m.content /\ Answered(Append(sent, m)) = Answered(sent) \o <<>>
      BY <1>7, <2>2, BlocksMove
    <2>6. Calls(sent) = Uses(log) /\ Answered(sent) = Given(log)
      BY <1>5 DEF Uses, Given
    <2>7. Given(log) \o <<>> = Given(log)
      BY <1>9
    <2> QED BY <2>1, <2>4, <2>5, <2>6, <2>7 DEF Uses, Given
  <1>12. ASSUME s.kind # "model_call"
         PROVE  Rebuild(more) = Flushed([messages |-> ms, pending |-> p \o BlockOf(s)])
    BY <1>2, <1>3, <1>10, <1>12 DEF Taken, Rebuild, Flushed
  <1>13. ASSUME s.kind # "model_call", NEW b \in Said, BlockOf(s) = <<b>>
         PROVE  /\ Uses(more) = Uses(log)
                /\ Given(more) = IF b.type = "tool_result" THEN Append(Given(log), b) ELSE Given(log)
    <2>1. PICK q \in Seq(Said) : q = Append(p, b) /\ q = p \o <<b>>
      <3>1. Append(p, b) \in Seq(Said) /\ Append(p, b) = p \o <<b>>
        BY <1>4
      <3> QED BY <3>1
    <2>2. PICK next : next = Flushed([messages |-> ms, pending |-> q]) /\ next = Rebuild(more)
      BY <1>12, <1>13, <2>1
    <2>3. Calls(next) = Calls(ms) /\ Answered(next) = Answered(ms) \o Results(Says(q))
      BY <1>4, <2>1, <2>2, FlushedBlocks
    <2>4. Results(Says(q)) = IF b.type = "tool_result" THEN Append(r, b) ELSE r
      BY <1>4, <1>6, <2>1, GatheredMoves
    <2>5. b \in Block
      BY DEF Said
    <2>6. \A x, y \in Seq(Block) : x \o Append(y, b) = Append(x \o y, b)
      BY <2>5
    <2>7. Answered(ms) \o Append(r, b) = Append(Answered(ms) \o r, b)
      BY <1>6, <1>8, <2>6
    <2> QED BY <1>7, <2>2, <2>3, <2>4, <2>7 DEF Uses, Given
  <1>14. ASSUME s.kind \in {"tool_result", "approval"}
         PROVE  Uses(more) = Uses(log) /\ Given(more) = Append(Given(log), Answer(s))
    <2>1. PICK b : b = Answer(s)
      OBVIOUS
    <2>2. s.call \in CallIds /\ (~s.ok) \in BOOLEAN
      BY DEF Step
    <2>3. b \in Said /\ b.type = "tool_result"
      BY <2>1, <2>2 DEF Answer, Said, Block
    <2>4. BlockOf(s) = <<b>> /\ s.kind # "model_call"
      BY <1>14, <2>1 DEF BlockOf, Answer
    <2> QED BY <1>13, <2>1, <2>3, <2>4
  <1>15. ASSUME s.kind = "notice" PROVE Uses(more) = Uses(log) /\ Given(more) = Given(log)
    <2>1. PICK b : b = [type |-> "text"]
      OBVIOUS
    <2>2. b \in Said /\ b.type # "tool_result"
      BY <2>1 DEF Said, Block
    <2>3. BlockOf(s) = <<b>> /\ s.kind # "model_call"
      BY <1>15, <2>1 DEF BlockOf
    <2> QED BY <1>13, <2>2, <2>3
  <1>16. ASSUME s.kind = "final" PROVE Uses(more) = Uses(log) /\ Given(more) = Given(log)
    <2>1. BlockOf(s) = <<>> /\ s.kind # "model_call"
      BY <1>16 DEF BlockOf
    <2>2. p \o <<>> = p
      BY <1>4
    <2>3. Rebuild(more) = Rebuild(log)
      BY <1>5, <1>12, <2>1, <2>2
    <2> QED BY <2>3 DEF Uses, Given
  <1> QED BY <1>1, <1>2, <1>9, <1>11, <1>14, <1>15, <1>16

(* A step more leaves the calls that were made before as they were.          *)
LEMMA ActionsKept ==
  ASSUME NEW log \in Seq(Step), NEW s \in Step, NEW c, c[1] \in Turns(log)
  PROVE  ActionOf(Append(log, s), c) = ActionOf(log, c)
  <1>1. PICK n \in Nat : n = Len(log) /\ DOMAIN log = 1..n
    OBVIOUS
  <1>2. PICK more : more = Append(log, s)
    OBVIOUS
  <1>3. \A k \in 1..n : more[k] = log[k]
    BY <1>1, <1>2
  <1>4. c[1] \in 1..n
    BY <1>1 DEF Turns
  <1> QED BY <1>2, <1>3, <1>4 DEF ActionOf

(* The last turn moves with a reply, and with nothing else.                  *)
LEMMA LastTurnMoves ==
  ASSUME NEW log \in Seq(Step), NEW s \in Step,
         \A k \in LastTurn(log) :
           Len(RecordedTurns(log)) # 0 /\ RecordedTurns(log)[Len(RecordedTurns(log))] = k
  PROVE  \A k \in LastTurn(Append(log, s)) :
           /\ Len(RecordedTurns(Append(log, s))) # 0
           /\ RecordedTurns(Append(log, s))[Len(RecordedTurns(Append(log, s)))] = k
  <1>1. PICK more : more = Append(log, s)
    OBVIOUS
  <1>2. PICK turns \in Seq(Turns(log)) : turns = RecordedTurns(log)
    BY RecordedMoves
  <1>3. CASE s.kind = "model_call"
    <2>1. LastTurn(more) = {Len(log) + 1}
      BY <1>1, <1>3, ReplyMoves
    <2>2. RecordedTurns(more) = Append(turns, Len(log) + 1)
      BY <1>1, <1>2, <1>3, RecordedMoves
    <2>3. PICK place : place = Len(log) + 1
      OBVIOUS
    <2>4. Len(Append(turns, place)) # 0 /\ Append(turns, place)[Len(Append(turns, place))] = place
      BY <1>2
    <2> QED BY <1>1, <2>1, <2>2, <2>3, <2>4
  <1>4. CASE s.kind # "model_call"
    <2>1. RecordedTurns(more) = turns
      BY <1>1, <1>2, <1>4, RecordedMoves
    <2>2. Turns(more) = Turns(log)
      <3>1. s.kind \in {"notice", "final"} \/ s.kind \in {"tool_result", "approval"}
        BY <1>4 DEF Step
      <3> QED BY <1>1, <3>1, AsideMoves, AnswerMoves
    <2>3. LastTurn(more) = LastTurn(log)
      BY <2>2 DEF LastTurn
    <2> QED BY <1>1, <1>2, <2>1, <2>3
  <1> QED BY <1>3, <1>4

(* Nothing is called nor answered in an empty log.                           *)
LEMMA GroundedStarts ==
  Grounded(<<>>) /\ Given(<<>>) = <<>> /\ RecordedTurns(<<>>) = <<>>
  <1>1. PICK log : log = <<>> /\ log \in Seq(Step)
    <2>1. <<>> \in Seq(Step)
      OBVIOUS
    <2> QED BY <2>1, Zenon
  <1>2. PICK none : none = <<>> /\ none \in Seq(Message)
    <2>1. <<>> \in Seq(Message)
      OBVIOUS
    <2> QED BY <2>1, Zenon
  <1>3. PICK m \in Message : m = Prompt
    BY PromptTyped
  <1>4. Rebuild(log) = Append(none, m)
    <2>1. Conversation(log) = Start
      BY <1>1, ConversationMoves
    <2>2. Append(<<>>, m) = <<m>>
      OBVIOUS
    <2> QED BY <1>2, <1>3, <2>1, <2>2 DEF Rebuild, Flushed, Start
  <1>5. ToolUses(m) = <<>> /\ Results(m) = <<>>
    <2>1. PICK uses : uses = {i \in DOMAIN m.content : m.content[i].type = "tool_use"}
      OBVIOUS
    <2>2. PICK results : results = {i \in DOMAIN m.content : m.content[i].type = "tool_result"}
      OBVIOUS
    <2>3. m.content \in Seq(Block) /\ Len(m.content) = 1 /\ m.content[1].type = "text"
      BY <1>3 DEF Message, Prompt
    <2>4. (\A i \in 1..Len(m.content) : i \notin uses) /\ (\A i \in 1..Len(m.content) : i \notin results)
      BY <2>1, <2>2, <2>3
    <2>5. Picked(m.content, uses) = <<>> /\ Picked(m.content, results) = <<>>
      BY <2>3, <2>4, PickedAll
    <2> QED BY <2>1, <2>2, <2>5 DEF ToolUses, Results, Blocks
  <1>6. /\ Calls(none) = <<>> /\ Answered(none) = <<>>
        /\ Calls(Append(none, m)) = Calls(none) \o <<>> /\ Answered(Append(none, m)) = Answered(none) \o <<>>
    BY <1>2, <1>5, BlocksMove
  <1>7. Uses(log) = <<>> /\ Given(log) = <<>>
    <2>1. <<>> \o <<>> = <<>>
      OBVIOUS
    <2> QED BY <1>4, <1>6, <2>1 DEF Uses, Given
  <1>8. RecordedTurns(log) = <<>>
    BY <1>1, RecordedMoves
  <1>9. Turns(log) = {} /\ Answers(log) = {} /\ LastTurn(log) = {} /\ DOMAIN <<>> = {}
    BY <1>1 DEF Turns, Answers, LastTurn
  <1>10. DOMAIN Uses(log) = {} /\ DOMAIN Given(log) = {}
    BY <1>7
  <1> QED BY <1>1, <1>7, <1>8, <1>9, <1>10 DEF Grounded

(* What is called and answered stays what it is in a log.                    *)
LEMMA GroundedMoves ==
  ASSUME NEW log \in Seq(Step), InPlace(log), Grounded(log), NEW s \in Step,
         s.kind \in {"tool_result", "approval"} => s.call \in Unresolved(log)
  PROVE  Grounded(Append(log, s))
  <1>1. PICK more : more = Append(log, s)
    OBVIOUS
  <1>2. PICK n \in Nat : /\ n = Len(log) /\ DOMAIN log = 1..n /\ more[n + 1] = s
                         /\ \A k \in 1..n : more[k] = log[k]
    BY <1>1
  <1>3. PICK uses \in Seq(Block) : uses = Uses(log)
    BY ReadMoves
  <1>4. PICK given \in Seq(Block) : given = Given(log)
    BY ReadMoves
  <1>5. /\ \A i \in DOMAIN uses : uses[i].id[1] \in Turns(log) /\ uses[i].action \in Actions
                                  /\ uses[i].action = ActionOf(more, uses[i].id)
        /\ \A k \in Turns(log) : \A i \in DOMAIN log[k].calls : \E j \in DOMAIN uses : uses[j].id = <<k, i>>
        /\ \A i \in DOMAIN given : \E j \in DOMAIN uses : uses[j].id = given[i].id
        /\ Answers(log) # {} => given # <<>>
    <2>1. /\ \A i \in DOMAIN uses : uses[i].id[1] \in Turns(log) /\ uses[i].action \in Actions
                                    /\ uses[i].action = ActionOf(log, uses[i].id)
          /\ \A k \in Turns(log) : \A i \in DOMAIN log[k].calls : \E j \in DOMAIN uses : uses[j].id = <<k, i>>
          /\ \A i \in DOMAIN given : \E j \in DOMAIN uses : uses[j].id = given[i].id
          /\ Answers(log) # {} => given # <<>>
      BY <1>3, <1>4, Zenon DEF Grounded
    <2>2. \A i \in DOMAIN uses : ActionOf(more, uses[i].id) = ActionOf(log, uses[i].id)
      BY <1>1, <2>1, ActionsKept
    <2> QED BY <2>1, <2>2, Zenon
  <1>6. \A k \in LastTurn(more) :
          Len(RecordedTurns(more)) # 0 /\ RecordedTurns(more)[Len(RecordedTurns(more))] = k
    BY <1>1, LastTurnMoves DEF Grounded
  <1>7. \A k \in Turns(log) : k \in 1..n /\ more[k] = log[k]
    BY <1>2 DEF Turns
  <1>8. CASE s.kind = "model_call"
    <2>1. PICK c : c = Assistant(more, n + 1).content
      OBVIOUS
    <2>2. PICK k \in Nat : k = Len(s.calls) /\ DOMAIN s.calls = 1..k /\ \A i \in 1..k : s.calls[i] \in Actions
      BY DEF Step
    <2>3. c = [i \in 1..k |-> [type |-> "tool_use", id |-> <<n + 1, i>>, action |-> s.calls[i]]]
      BY <1>2, <2>1, <2>2 DEF Assistant
    <2>4. c \in Seq(Block) /\ Len(c) = k /\ DOMAIN c = 1..k
      <3>1. \A i \in 1..k : <<n + 1, i>> \in CallIds
        BY DEF CallIds
      <3>2. \A i \in 1..k : [type |-> "tool_use", id |-> <<n + 1, i>>, action |-> s.calls[i]] \in Block
        BY <2>2, <3>1 DEF Block
      <3>3. DOMAIN c = 1..k /\ \A i \in 1..k : c[i] \in Block
        BY <2>3, <3>2
      <3>4. c \in [1..k -> Block]
        BY <2>3, <3>3
      <3>5. c \in Seq(Block)
        BY <3>4, SeqDef
      <3>6. Len(c) \in Nat /\ DOMAIN c = 1..Len(c)
        BY <3>5
      <3>7. Len(c) = k
        BY <3>3, <3>6
      <3> QED BY <3>3, <3>5, <3>7
    <2>5. PICK all \in Seq(Block) : all = uses \o c
      <3>1. uses \o c \in Seq(Block)
        BY <2>4
      <3> QED BY <3>1, Zenon
    <2>6. Uses(more) = all /\ Given(more) = given
      BY <1>1, <1>2, <1>3, <1>4, <1>8, <2>1, <2>5, ReadMoves
    <2>7. PICK m \in Nat : m = Len(uses) /\ DOMAIN uses = 1..m
      OBVIOUS
    <2>8. /\ DOMAIN all = 1..m + k /\ (\A i \in 1..m : all[i] = uses[i])
          /\ \A i \in 1..k : all[m + i] = c[i]
      <3>1. \A x, y \in Seq(Block) :
              /\ Len(x \o y) = Len(x) + Len(y)
              /\ \A i \in 1..Len(x) : (x \o y)[i] = x[i]
              /\ \A i \in 1..Len(y) : (x \o y)[Len(x) + i] = y[i]
        OBVIOUS
      <3>2. Len(all) = m + k
        BY <2>4, <2>5, <2>7, <3>1
      <3>3. DOMAIN all = 1..m + k
        BY <3>2
      <3> QED BY <2>4, <2>5, <2>7, <3>1, <3>3
    <2>9. Turns(more) = Turns(log) \cup {n + 1} /\ Answers(more) = Answers(log)
      BY <1>1, <1>2, <1>8, ReplyMoves
    <2>10. ASSUME NEW i \in 1..k
           PROVE  c[i].id = <<n + 1, i>> /\ c[i].action = s.calls[i] /\ ActionOf(more, c[i].id) = s.calls[i]
                  /\ s.calls[i] \in Actions
      BY <1>2, <2>2, <2>3 DEF ActionOf
    <2>11. ASSUME NEW i \in 1..m + k
           PROVE  all[i].id[1] \in Turns(more) /\ all[i].action \in Actions
                  /\ all[i].action = ActionOf(more, all[i].id)
      <3>1. CASE i \in 1..m
        BY <1>5, <2>7, <2>8, <2>9, <3>1
      <3>2. CASE i \notin 1..m
        <4>1. PICK j \in 1..k : i = m + j
          <5>1. i - m \in 1..k /\ i = m + (i - m)
            BY <3>2
          <5> QED BY <5>1
        <4>2. all[i] = c[j]
          BY <2>8, <4>1
        <4>3. c[j].id[1] = n + 1
          <5>1. c[j].id = <<n + 1, j>>
            BY <2>10
          <5> QED BY <5>1
        <4> QED BY <2>9, <2>10, <4>2, <4>3
      <3> QED BY <3>1, <3>2
    <2>12. ASSUME NEW t \in Turns(more), NEW i \in DOMAIN more[t].calls
           PROVE  \E j \in DOMAIN all : all[j].id = <<t, i>>
      <3>1. CASE t \in Turns(log)
        <4>1. i \in DOMAIN log[t].calls
          BY <1>7, <3>1
        <4>2. PICK j \in 1..m : uses[j].id = <<t, i>>
          BY <1>5, <2>7, <3>1, <4>1
        <4>3. j \in 1..m + k
          OBVIOUS
        <4> QED BY <2>8, <4>2, <4>3
      <3>2. CASE t = n + 1
        <4>1. i \in 1..k
          BY <1>2, <2>2, <3>2
        <4>2. m + i \in 1..m + k /\ all[m + i].id = <<n + 1, i>>
          BY <2>8, <2>10, <4>1
        <4> QED BY <2>8, <3>2, <4>2
      <3> QED BY <2>9, <3>1, <3>2
    <2>13. ASSUME NEW i \in DOMAIN given PROVE \E j \in DOMAIN all : all[j].id = given[i].id
      <3>1. PICK j \in 1..m : uses[j].id = given[i].id
        BY <1>5, <2>7
      <3>2. j \in 1..m + k
        OBVIOUS
      <3> QED BY <2>8, <3>1, <3>2
    <2> HIDE DEF ActionOf
    <2> QED BY <1>1, <1>5, <1>6, <2>6, <2>8, <2>9, <2>11, <2>12, <2>13 DEF Grounded
  <1>9. CASE s.kind \in {"tool_result", "approval"}
    <2>1. Uses(more) = uses /\ Given(more) = Append(given, Answer(s))
      BY <1>1, <1>3, <1>4, <1>9, ReadMoves
    <2>2. Turns(more) = Turns(log)
      BY <1>1, <1>9, AnswerMoves
    <2>3. Answer(s).id = s.call
      BY DEF Answer
    <2>4. PICK k \in LastTurn(log) : s.call \in CallsOf(log, k)
      BY <1>9, UnresolvedCalls
    <2>5. PICK i \in DOMAIN log[k].calls : s.call = <<k, i>>
      BY <2>4 DEF CallsOf
    <2>6. k \in Turns(log)
      BY <2>4 DEF LastTurn
    <2>7. PICK j \in DOMAIN uses : uses[j].id = s.call
      BY <1>5, <2>5, <2>6
    <2>8. PICK last : last = Answer(s) /\ last.id = s.call
      BY <2>3
    <2>9. PICK m \in Nat : m = Len(given) /\ DOMAIN given = 1..m
      OBVIOUS
    <2>10. PICK all : all = Append(given, last)
      OBVIOUS
    <2>11. DOMAIN all = 1..m + 1 /\ (\A x \in 1..m : all[x] = given[x]) /\ all[m + 1] = last /\ all # <<>>
      <3>1. /\ Len(all) = m + 1 /\ DOMAIN all = 1..m + 1 /\ all[m + 1] = last
            /\ \A x \in 1..m : all[x] = given[x]
        BY <2>9, <2>10
      <3>2. m + 1 # 0 /\ Len(<<>>) = 0
        OBVIOUS
      <3> QED BY <3>1, <3>2
    <2>12. ASSUME NEW x \in 1..m + 1 PROVE \E y \in DOMAIN uses : uses[y].id = all[x].id
      <3>1. CASE x \in 1..m
        BY <1>5, <2>9, <2>11, <3>1
      <3>2. CASE x = m + 1
        BY <2>7, <2>8, <2>11, <3>2
      <3>3. x \in 1..m \/ x = m + 1
        OBVIOUS
      <3> QED BY <3>1, <3>2, <3>3
    <2>13. \A t \in Turns(more) : \A x \in DOMAIN more[t].calls : \E y \in DOMAIN uses : uses[y].id = <<t, x>>
      BY <1>5, <1>7, <2>2
    <2>14. Given(more) = all
      BY <2>1, <2>8, <2>10
    <2> QED BY <1>1, <1>5, <1>6, <2>1, <2>2, <2>11, <2>12, <2>13, <2>14 DEF Grounded
  <1>10. CASE s.kind \in {"notice", "final"}
    <2>1. Uses(more) = uses /\ Given(more) = given
      BY <1>1, <1>3, <1>4, <1>10, ReadMoves
    <2>2. Turns(more) = Turns(log) /\ Answers(more) = Answers(log)
      BY <1>1, <1>10, AsideMoves
    <2>3. \A t \in Turns(more) : \A x \in DOMAIN more[t].calls : \E y \in DOMAIN uses : uses[y].id = <<t, x>>
      BY <1>5, <1>7, <2>2
    <2> QED BY <1>1, <1>5, <1>6, <2>1, <2>2, <2>3 DEF Grounded
  <1>11. s.kind = "model_call" \/ s.kind \in {"tool_result", "approval"} \/ s.kind \in {"notice", "final"}
    BY DEF Step
  <1> QED BY <1>8, <1>9, <1>10, <1>11

-----------------------------------------------------------------------------
(* The plan a log leads to, what the texts tell being given: text[action] is *)
(* what is looked for in an answer to that call.                             *)

(* What an answer tells, what the first one does, and what one of all does.  *)
Content(text, log, b) == IF b.error THEN {} ELSE text[ActionOf(log, b.id)]
FirstSeen(text, log) == IF Given(log) = <<>> THEN {} ELSE Content(text, log, Given(log)[1])
Tells(text, log, action, word) ==
  \E i \in DOMAIN Given(log) :
    ActionOf(log, Given(log)[i].id) = action /\ word \in Content(text, log, Given(log)[i])

(* What is paid back, and the plan.                                          *)
RefundIn(text, log) ==
  IF Tells(text, log, GetTicket, "figure") THEN RefundFigure
  ELSE IF Tells(text, log, GetOrder, "items") THEN RefundGoods ELSE RefundNothing
PlanIn(text, log) == Trajectory(FirstSeen(text, log), RefundIn(text, log))

(* What a plan does at a turn: nothing once it is over.                      *)
At(plan, i) == IF i \in DOMAIN plan THEN plan[i] ELSE <<>>

(* The turns taken are those of the plan.                                    *)
Agrees(text, log) ==
  \A i \in DOMAIN RecordedTurns(log) :
    Signature(log, RecordedTurns(log)[i]) = At(PlanIn(text, log), i)

(* A log that went by the plan it leads to: from the second turn on there is *)
(* an answer, the first, on which the choice of a plan rests.                *)
Planned(text, log) ==
  /\ Grounded(log)
  /\ Agrees(text, log)
  /\ Len(RecordedTurns(log)) >= 2 => Given(log) # <<>>

(* The refunds and the reads among the calls.                                *)
LEMMA RefundsAreCalls ==
  \A refund \in {RefundFigure, RefundGoods, RefundNothing} : refund \notin {GetTicket, GetOrder}
  <1>1. {GetTicket, GetOrder} \subseteq Reads /\ {RefundFigure, RefundGoods, RefundNothing} \subseteq Irreversible
    BY MockAssumption
  <1>2. Irreversible \cap (Reads \cup Reversible) = {}
    BY CallsAssumption
  <1> QED BY <1>1, <1>2

(* Every plan begins alike; what is paid back is no part of the first three  *)
(* turns; and after them nothing is read that it depends on.                 *)
LEMMA TrajectoryTurns ==
  ASSUME NEW seen, NEW refund \in {RefundFigure, RefundGoods, RefundNothing}, NEW i \in Nat
  PROVE  /\ At(Trajectory(seen, refund), 1) = <<GetTicket>>
         /\ \A other : i <= 3 => At(Trajectory(seen, other), i) = At(Trajectory(seen, refund), i)
         /\ i > 3 => \A j \in DOMAIN At(Trajectory(seen, refund), i) :
                       At(Trajectory(seen, refund), i)[j] \notin {GetTicket, GetOrder}
  <1>1. CASE "money back" \notin seen
    <2>1. \A other : Trajectory(seen, other) = <<<<GetTicket>>, <<SearchShipping>>, <<NoteDelay>>, <<SetPending>>>>
      BY <1>1 DEF Trajectory
    <2>2. PICK plan : plan = <<<<GetTicket>>, <<SearchShipping>>, <<NoteDelay>>, <<SetPending>>>>
      OBVIOUS
    <2>3. At(plan, 1) = <<GetTicket>>
      BY <2>2 DEF At
    <2>4. i > 3 => \A j \in DOMAIN At(plan, i) : At(plan, i)[j] \notin {GetTicket, GetOrder}
      <3>1. SetPending \notin {GetTicket, GetOrder}
        BY MockAssumption
      <3>2. CASE i = 4
        BY <2>2, <3>1, <3>2 DEF At
      <3>3. CASE i > 4
        <4>1. At(plan, i) = <<>>
          BY <2>2, <3>3 DEF At
        <4> QED BY <4>1
      <3> QED BY <3>2, <3>3
    <2> QED BY <2>1, <2>2, <2>3, <2>4
  <1>2. CASE "money back" \in seen /\ "order" \notin seen
    <2>1. \A other : Trajectory(seen, other) = <<<<GetTicket>>, <<SearchPolicy>>>>
      BY <1>2 DEF Trajectory
    <2>2. PICK plan : plan = <<<<GetTicket>>, <<SearchPolicy>>>>
      OBVIOUS
    <2>3. At(plan, 1) = <<GetTicket>>
      BY <2>2 DEF At
    <2>4. i > 3 => \A j \in DOMAIN At(plan, i) : At(plan, i)[j] \notin {GetTicket, GetOrder}
      <3>1. ASSUME i > 3 PROVE At(plan, i) = <<>>
        BY <2>2, <3>1 DEF At
      <3> QED BY <3>1
    <2> QED BY <2>1, <2>2, <2>3, <2>4
  <1>3. CASE "money back" \in seen /\ "order" \in seen
    <2> DEFINE Paying(other) ==
          <<<<GetTicket>>, <<GetOrder>>, <<SearchPolicy>>, <<other>>, <<NoteRefund>>, <<SetResolved>>>>
    <2>1. \A other : Trajectory(seen, other) = Paying(other)
      BY <1>3 DEF Trajectory
    <2>2. At(Paying(refund), 1) = <<GetTicket>>
      BY DEF At
    <2>3. \A other : i <= 3 => At(Paying(other), i) = At(Paying(refund), i)
      <3>1. ASSUME NEW other PROVE DOMAIN Paying(other) = 1..6
        OBVIOUS
      <3>2. ASSUME NEW other, i <= 3 PROVE At(Paying(other), i) = At(Paying(refund), i)
        <4>1. CASE i = 0
          BY <3>1, <4>1 DEF At
        <4>2. CASE i = 1
          BY <4>2 DEF At
        <4>3. CASE i = 2
          BY <4>3 DEF At
        <4>4. CASE i = 3
          BY <4>4 DEF At
        <4> QED BY <3>2, <4>1, <4>2, <4>3, <4>4
      <3> QED BY <3>2
    <2>4. i > 3 => \A j \in DOMAIN At(Paying(refund), i) : At(Paying(refund), i)[j] \notin {GetTicket, GetOrder}
      <3>1. NoteRefund \notin {GetTicket, GetOrder} /\ SetResolved \notin {GetTicket, GetOrder}
        BY MockAssumption
      <3>2. refund \notin {GetTicket, GetOrder}
        BY RefundsAreCalls
      <3>3. CASE i = 4
        BY <3>2, <3>3 DEF At
      <3>4. CASE i = 5
        BY <3>1, <3>4 DEF At
      <3>5. CASE i = 6
        BY <3>1, <3>5 DEF At
      <3>6. CASE i > 6
        <4>1. At(Paying(refund), i) = <<>>
          BY <3>6 DEF At
        <4> QED BY <4>1
      <3> QED BY <3>3, <3>4, <3>5, <3>6
    <2> HIDE DEF Paying
    <2> QED BY <2>1, <2>2, <2>3, <2>4
  <1> QED BY <1>1, <1>2, <1>3

(* The answers are blocks, with a first one if there is any.                 *)
LEMMA GivenTyped ==
  ASSUME NEW log \in Seq(Step), InPlace(log)
  PROVE  Given(log) \in Seq(Block) /\ (Given(log) # <<>> => 1 \in DOMAIN Given(log))
  <1>1. PICK s \in Step : s = Notice
    BY StepKinds
  <1>2. Given(log) \in Seq(Block)
    BY ReadMoves
  <1> QED BY <1>2

(* The provider plans what its log leads to.                                 *)
LEMMA ReadFromLog ==
  ASSUME NEW log \in Seq(Step), InPlace(log), Grounded(log), NEW text, \A a \in Actions : text[a] = TextOf(a)
  PROVE  Plan(Rebuild(log)) = PlanIn(text, log)
  <1>1. PICK ms : ms = Rebuild(log)
    OBVIOUS
  <1>2. PICK uses : uses = Uses(log) /\ uses = Calls(ms)
    BY <1>1 DEF Uses
  <1>3. PICK given : given = Given(log) /\ given = Answered(ms)
    BY <1>1 DEF Given
  <1>4. /\ \A i \in DOMAIN uses : uses[i].action = ActionOf(log, uses[i].id) /\ uses[i].action \in Actions
        /\ \A i \in DOMAIN given : \E j \in DOMAIN uses : uses[j].id = given[i].id
        /\ given # <<>> => 1 \in DOMAIN given
    <2>1. given # <<>> => 1 \in DOMAIN given
      BY <1>3, GivenTyped
    <2> QED BY <1>2, <1>3, <2>1 DEF Grounded
  <1>5. ASSUME NEW i \in DOMAIN given
        PROVE  TextOfResult(ms, given[i]) = Content(text, log, given[i])
    <2>1. PICK b : b = given[i]
      OBVIOUS
    <2>2. PICK j : j = CHOOSE k \in DOMAIN uses : uses[k].id = b.id
      OBVIOUS
    <2>3. j \in DOMAIN uses /\ uses[j].id = b.id
      BY <1>4, <2>1, <2>2
    <2>4. uses[j].action = ActionOf(log, b.id) /\ text[uses[j].action] = TextOf(uses[j].action)
      BY <1>4, <2>3
    <2> HIDE DEF ActionOf
    <2> QED BY <1>2, <2>1, <2>2, <2>4 DEF TextOfResult, Content
  <1>6. Brief(ms) = FirstSeen(text, log)
    BY <1>3, <1>4, <1>5 DEF Brief, FirstSeen
  <1>7. ASSUME NEW action, NEW word
        PROVE  (\E t \in ResultsOf(action, ms) : word \in t) <=> Tells(text, log, action, word)
    <2>1. PICK ids : ids = {uses[i].id : i \in {j \in DOMAIN uses : uses[j].action = action}}
      OBVIOUS
    <2>2. \A i \in DOMAIN given : given[i].id \in ids <=> ActionOf(log, given[i].id) = action
      BY <1>4, <2>1
    <2>3. ResultsOf(action, ms) =
            {IF given[i].error THEN {} ELSE TextOf(action) : i \in {j \in DOMAIN given : given[j].id \in ids}}
      BY <1>2, <1>3, <2>1 DEF ResultsOf
    <2>4. \A i \in DOMAIN given :
            given[i].id \in ids => (IF given[i].error THEN {} ELSE TextOf(action)) = Content(text, log, given[i])
      <3>1. ASSUME NEW i \in DOMAIN given, given[i].id \in ids PROVE text[action] = TextOf(action)
        BY <1>4, <2>1, <3>1
      <3> QED BY <2>2, <3>1 DEF Content
    <2>5. (\E t \in ResultsOf(action, ms) : word \in t)
            <=> \E i \in DOMAIN given : given[i].id \in ids /\ word \in Content(text, log, given[i])
      BY <2>3, <2>4
    <2> QED BY <1>3, <2>2, <2>5 DEF Tells
  <1>8. Refund(ms) = RefundIn(text, log)
    BY <1>7 DEF Refund, RefundIn, Claimed, Refundable
  <1> QED BY <1>1, <1>6, <1>8 DEF Plan, PlanIn

-----------------------------------------------------------------------------
(* A log that went by its plan, after one step more. *)

(* The turns taken are what they were.                                       *)
LEMMA TurnsKept ==
  ASSUME NEW log \in Seq(Step), NEW s \in Step, NEW k \in Turns(log)
  PROVE  Signature(Append(log, s), k) = Signature(log, k)
  <1>1. PICK n \in Nat : n = Len(log) /\ DOMAIN log = 1..n
    OBVIOUS
  <1>2. PICK more : more = Append(log, s)
    OBVIOUS
  <1>3. \A i \in 1..n : more[i] = log[i]
    BY <1>1, <1>2
  <1> QED BY <1>1, <1>2, <1>3 DEF Turns, Signature

(* So is what the answers told.                                              *)
LEMMA ContentKept ==
  ASSUME NEW log \in Seq(Step), Grounded(log), NEW s \in Step, NEW i \in DOMAIN Given(log)
  PROVE  /\ ActionOf(Append(log, s), Given(log)[i].id) = ActionOf(log, Given(log)[i].id)
         /\ \A text : Content(text, Append(log, s), Given(log)[i]) = Content(text, log, Given(log)[i])
  <1>1. Given(log)[i].id[1] \in Turns(log)
    BY DEF Grounded
  <1>2. ActionOf(Append(log, s), Given(log)[i].id) = ActionOf(log, Given(log)[i].id)
    BY <1>1, ActionsKept
  <1> HIDE DEF ActionOf
  <1> QED BY <1>2 DEF Content

(* Without an answer more it leads to the same plan.                         *)
LEMMA PlanStays ==
  ASSUME NEW log \in Seq(Step), InPlace(log), Grounded(log), NEW s \in Step, Given(Append(log, s)) = Given(log), NEW text
  PROVE  PlanIn(text, Append(log, s)) = PlanIn(text, log)
  <1>1. PICK more : more = Append(log, s) /\ Given(more) = Given(log)
    OBVIOUS
  <1>2. \A i \in DOMAIN Given(log) :
          /\ ActionOf(more, Given(log)[i].id) = ActionOf(log, Given(log)[i].id)
          /\ Content(text, more, Given(log)[i]) = Content(text, log, Given(log)[i])
    BY <1>1, ContentKept
  <1>3. Given(log) # <<>> => 1 \in DOMAIN Given(log)
    BY GivenTyped
  <1>4. FirstSeen(text, more) = FirstSeen(text, log)
    BY <1>1, <1>2, <1>3 DEF FirstSeen
  <1>5. \A action, word : Tells(text, more, action, word) <=> Tells(text, log, action, word)
    BY <1>1, <1>2 DEF Tells
  <1>6. RefundIn(text, more) = RefundIn(text, log)
    BY <1>5 DEF RefundIn
  <1> QED BY <1>1, <1>4, <1>6 DEF PlanIn

(* The first answer stays the first.                                         *)
LEMMA FirstKept ==
  ASSUME NEW log \in Seq(Step), InPlace(log), Grounded(log), NEW s \in Step, Given(log) # <<>>,
         NEW b \in Block, Given(Append(log, s)) = Append(Given(log), b), NEW text
  PROVE  FirstSeen(text, Append(log, s)) = FirstSeen(text, log)
  <1>1. PICK given \in Seq(Block) : given = Given(log) /\ 1 \in DOMAIN given
    BY GivenTyped
  <1>2. PICK all : all = Append(given, b) /\ all = Given(Append(log, s))
    BY <1>1
  <1>3. all[1] = given[1] /\ all # <<>>
    <2>1. Len(all) = Len(given) + 1 /\ Len(given) >= 1 /\ all[1] = given[1]
      BY <1>1, <1>2
    <2>2. Len(<<>>) = 0
      OBVIOUS
    <2> QED BY <2>1, <2>2
  <1>4. Content(text, Append(log, s), given[1]) = Content(text, log, given[1])
    BY <1>1, ContentKept
  <1> QED BY <1>1, <1>2, <1>3, <1>4 DEF FirstSeen

(* What is paid back does not depend on the answers to other calls.          *)
LEMMA RefundKept ==
  ASSUME NEW log \in Seq(Step), InPlace(log), Grounded(log), NEW s \in Step,
         NEW b \in Block, Given(Append(log, s)) = Append(Given(log), b), b.id[1] \in Turns(log),
         ActionOf(log, b.id) \notin {GetTicket, GetOrder}, NEW text
  PROVE  RefundIn(text, Append(log, s)) = RefundIn(text, log)
  <1>1. PICK given \in Seq(Block) : given = Given(log)
    BY GivenTyped
  <1>2. PICK n \in Nat : n = Len(given) /\ DOMAIN given = 1..n
    OBVIOUS
  <1>3. PICK all : all = Append(given, b) /\ all = Given(Append(log, s))
    BY <1>1
  <1>4. DOMAIN all = 1..n + 1 /\ (\A i \in 1..n : all[i] = given[i]) /\ all[n + 1] = b
    <2>1. \A x \in Seq(Block) : \A y \in Block :
            /\ DOMAIN Append(x, y) = 1..Len(x) + 1 /\ Append(x, y)[Len(x) + 1] = y
            /\ \A i \in 1..Len(x) : Append(x, y)[i] = x[i]
      OBVIOUS
    <2>2. /\ DOMAIN Append(given, b) = 1..Len(given) + 1 /\ Append(given, b)[Len(given) + 1] = b
          /\ \A i \in 1..Len(given) : Append(given, b)[i] = given[i]
      BY <2>1, Zenon
    <2>3. all = Append(given, b) /\ n = Len(given)
      BY <1>2, <1>3
    <2> QED BY <2>2, <2>3, Zenon
  <1>5. PICK more : more = Append(log, s)
    OBVIOUS
  <1>6. ActionOf(more, b.id) = ActionOf(log, b.id)
    BY <1>5, ActionsKept
  <1>7. \A i \in 1..n : /\ ActionOf(more, given[i].id) = ActionOf(log, given[i].id)
                        /\ Content(text, more, given[i]) = Content(text, log, given[i])
    BY <1>1, <1>2, <1>5, ContentKept
  <1> HIDE DEF ActionOf, Content
  <1>8. ASSUME NEW action \in {GetTicket, GetOrder}, NEW word
        PROVE  Tells(text, more, action, word) <=> Tells(text, log, action, word)
    <2> DEFINE BeforeIt(i) == ActionOf(log, given[i].id) = action /\ word \in Content(text, log, given[i])
               AfterIt(i) == ActionOf(more, all[i].id) = action /\ word \in Content(text, more, all[i])
    <2>1. \A i \in 1..n : BeforeIt(i) <=> AfterIt(i)
      BY <1>4, <1>7
    <2>2. ~AfterIt(n + 1)
      BY <1>4, <1>6
    <2>3. \A i : i \in 1..n + 1 <=> (i \in 1..n \/ i = n + 1)
      OBVIOUS
    <2>4. Tells(text, more, action, word) <=> \E i \in 1..n + 1 : AfterIt(i)
      BY <1>3, <1>4, <1>5 DEF Tells
    <2>5. Tells(text, log, action, word) <=> \E i \in 1..n : BeforeIt(i)
      BY <1>1, <1>2 DEF Tells
    <2> HIDE DEF BeforeIt, AfterIt
    <2> QED BY <2>1, <2>2, <2>3, <2>4, <2>5
  <1> QED BY <1>5, <1>8 DEF RefundIn

(* Nothing was planned of an empty log.                                      *)
LEMMA PlannedStarts == \A text : Planned(text, <<>>)
  <1>1. DOMAIN <<>> = {} /\ Len(<<>>) = 0
    OBVIOUS
  <1> QED BY <1>1, GroundedStarts DEF Planned, Agrees

(* A step that is no answer and no turn changes nothing of it.               *)
LEMMA PlannedAside ==
  ASSUME NEW text, NEW log \in Seq(Step), InPlace(log), Planned(text, log),
         NEW s \in Step, s.kind \in {"notice", "final"}
  PROVE  Planned(text, Append(log, s))
  <1>1. PICK more : more = Append(log, s)
    OBVIOUS
  <1>2. Grounded(log) /\ Grounded(more)
    BY <1>1, GroundedMoves DEF Planned
  <1>3. Given(more) = Given(log)
    BY <1>1, ReadMoves
  <1>4. PlanIn(text, more) = PlanIn(text, log)
    BY <1>1, <1>2, <1>3, PlanStays
  <1>5. RecordedTurns(more) = RecordedTurns(log)
    BY <1>1, RecordedMoves
  <1>6. \A i \in DOMAIN RecordedTurns(log) :
          Signature(more, RecordedTurns(log)[i]) = Signature(log, RecordedTurns(log)[i])
    <2>1. \A i \in DOMAIN RecordedTurns(log) : RecordedTurns(log)[i] \in Turns(log)
      BY RecordedPlaces
    <2> QED BY <1>1, <2>1, TurnsKept
  <1>7. Planned(text, more)
    BY <1>2, <1>3, <1>4, <1>5, <1>6 DEF Planned, Agrees
  <1> QED BY <1>1, <1>7

(* An answer leaves the turns taken as the plan has them: the first turn is  *)
(* the same in every plan; later the first answer is there, so the choice    *)
(* stands; and from the fourth turn on nothing the refund depends on is read.*)
LEMMA PlannedAnswered ==
  ASSUME NEW text, NEW log \in Seq(Step), InPlace(log), Planned(text, log),
         NEW s \in Step, s.kind \in {"tool_result", "approval"}, s.call \in Unresolved(log)
  PROVE  Planned(text, Append(log, s))
  <1>1. PICK more : more = Append(log, s)
    OBVIOUS
  <1>2. Grounded(log) /\ Grounded(more)
    BY <1>1, GroundedMoves DEF Planned
  <1>3. PICK b \in Block : b = Answer(s) /\ b.id = s.call
    <2>1. s.call \in CallIds /\ (~s.ok) \in BOOLEAN
      BY DEF Step
    <2>2. Answer(s) \in Block /\ Answer(s).id = s.call
      BY <2>1 DEF Answer, Block
    <2> QED BY <2>2
  <1>4. Given(more) = Append(Given(log), b) /\ Given(more) # <<>>
    <2>1. Given(more) = Append(Given(log), b) /\ Given(log) \in Seq(Block)
      BY <1>1, <1>3, ReadMoves
    <2>2. Len(Given(more)) = Len(Given(log)) + 1 /\ Len(Given(log)) \in Nat /\ Len(<<>>) = 0
      BY <2>1
    <2> QED BY <2>1, <2>2
  <1>5. PICK turns : turns = RecordedTurns(log) /\ turns = RecordedTurns(more)
    BY <1>1, RecordedMoves
  <1>6. PICK l \in Nat : l = Len(turns) /\ DOMAIN turns = 1..l /\ \A i \in 1..l : turns[i] \in Turns(log)
    BY <1>5, RecordedPlaces
  <1>7. \A i \in 1..l : Signature(more, turns[i]) = Signature(log, turns[i])
    BY <1>1, <1>6, TurnsKept
  <1>8. \A i \in 1..l : Signature(log, turns[i]) = At(PlanIn(text, log), i)
    BY <1>5, <1>6 DEF Planned, Agrees
  <1>9. PICK k \in LastTurn(log) : s.call \in CallsOf(log, k)
    BY UnresolvedCalls
  <1>10. PICK c \in DOMAIN log[k].calls : s.call = <<k, c>>
    BY <1>9 DEF CallsOf
  <1>11. l # 0 /\ turns[l] = k /\ k \in Turns(log)
    BY <1>2, <1>5, <1>6 DEF Grounded, LastTurn
  <1>12. ActionOf(log, b.id) = Signature(log, k)[c] /\ c \in DOMAIN Signature(log, k) /\ b.id[1] \in Turns(log)
    BY <1>3, <1>10, <1>11 DEF ActionOf, Signature
  <1>13. PICK seen : seen = FirstSeen(text, log)
    OBVIOUS
  <1>14. PICK refund \in {RefundFigure, RefundGoods, RefundNothing} : refund = RefundIn(text, log)
    <2>1. RefundIn(text, log) \in {RefundFigure, RefundGoods, RefundNothing}
      BY DEF RefundIn
    <2> QED BY <2>1, Zenon
  <1>15. PICK seen2 : seen2 = FirstSeen(text, more)
    OBVIOUS
  <1>16. PICK refund2 \in {RefundFigure, RefundGoods, RefundNothing} : refund2 = RefundIn(text, more)
    <2>1. RefundIn(text, more) \in {RefundFigure, RefundGoods, RefundNothing}
      BY DEF RefundIn
    <2> QED BY <2>1, Zenon
  <1>17. PlanIn(text, log) = Trajectory(seen, refund) /\ PlanIn(text, more) = Trajectory(seen2, refund2)
    BY <1>13, <1>15, <1>14, <1>16 DEF PlanIn
  <1>18. \A i \in 1..l : At(PlanIn(text, more), i) = At(PlanIn(text, log), i)
    <2>1. CASE l = 1
      <3>1. At(Trajectory(seen, refund), 1) = <<GetTicket>> /\ At(Trajectory(seen2, refund2), 1) = <<GetTicket>>
        BY TrajectoryTurns
      <3>2. \A i \in 1..l : i = 1
        BY <2>1
      <3> QED BY <1>17, <3>1, <3>2
    <2>2. CASE l # 1
      <3>1. Given(log) # <<>>
        BY <1>5, <1>6, <1>11, <2>2 DEF Planned
      <3>2. seen2 = seen
        BY <1>1, <1>2, <1>3, <1>4, <1>13, <1>15, <3>1, FirstKept
      <3>3. CASE l <= 3
        <4>1. ASSUME NEW i \in 1..l PROVE At(Trajectory(seen, refund2), i) = At(Trajectory(seen, refund), i)
          <5>1. i \in Nat /\ i <= 3
            BY <3>3
          <5> QED BY <5>1, TrajectoryTurns
        <4> QED BY <1>17, <3>2, <4>1
      <3>4. CASE l > 3
        <4>1. Signature(log, k) = At(Trajectory(seen, refund), l)
          <5>1. l \in 1..l
            BY <3>4
          <5> QED BY <1>8, <1>11, <1>17, <5>1
        <4>2. Signature(log, k)[c] \notin {GetTicket, GetOrder}
          BY <1>12, <3>4, <4>1, TrajectoryTurns
        <4>3. refund2 = refund
          BY <1>1, <1>2, <1>3, <1>4, <1>12, <1>14, <1>16, <4>2, RefundKept
        <4> QED BY <1>17, <3>2, <4>3
      <3> QED BY <3>3, <3>4
    <2> QED BY <2>1, <2>2
  <1>19. Agrees(text, more)
    BY <1>5, <1>6, <1>7, <1>8, <1>18 DEF Agrees
  <1> QED BY <1>1, <1>2, <1>4, <1>19 DEF Planned

(* A turn taken by the plan is one of the plan.                              *)
LEMMA PlannedReplied ==
  ASSUME NEW text, NEW log \in Seq(Step), InPlace(log), Planned(text, log), Unresolved(log) = {},
         NEW s \in Step, s.kind = "model_call",
         s.calls = At(PlanIn(text, log), Len(RecordedTurns(log)) + 1)
  PROVE  Planned(text, Append(log, s))
  <1>1. PICK more : more = Append(log, s)
    OBVIOUS
  <1>2. Grounded(log) /\ Grounded(more)
    BY <1>1, GroundedMoves DEF Planned
  <1>3. Given(more) = Given(log)
    BY <1>1, ReadMoves
  <1>4. PlanIn(text, more) = PlanIn(text, log)
    BY <1>1, <1>2, <1>3, PlanStays
  <1>5. PICK turns \in Seq(Turns(log)) : turns = RecordedTurns(log)
    BY RecordedMoves
  <1>6. PICK l \in Nat : l = Len(turns) /\ DOMAIN turns = 1..l /\ \A i \in 1..l : turns[i] \in Turns(log)
    BY <1>5
  <1>7. PICK n \in Nat : n = Len(log) /\ n + 1 \in Nat /\ DOMAIN log = 1..n
    OBVIOUS
  <1>8. PICK all : all = RecordedTurns(more) /\ all = Append(turns, n + 1)
    BY <1>1, <1>5, <1>7, RecordedMoves
  <1>9. Len(all) = l + 1 /\ DOMAIN all = 1..l + 1 /\ (\A i \in 1..l : all[i] = turns[i]) /\ all[l + 1] = n + 1
    BY <1>5, <1>6, <1>8
  <1>10. ASSUME NEW i \in 1..l + 1 PROVE Signature(more, all[i]) = At(PlanIn(text, more), i)
    <2>1. CASE i = l + 1
      <3>1. more[n + 1] = s
        BY <1>1, <1>7
      <3>2. Signature(more, n + 1) = At(PlanIn(text, log), l + 1)
        BY <1>5, <1>6, <3>1 DEF Signature
      <3> QED BY <1>4, <1>9, <2>1, <3>2
    <2>2. CASE i \in 1..l
      <3>1. Signature(more, turns[i]) = Signature(log, turns[i])
        BY <1>1, <1>6, <2>2, TurnsKept
      <3>2. Signature(log, turns[i]) = At(PlanIn(text, log), i)
        BY <1>5, <1>6, <2>2 DEF Planned, Agrees
      <3> QED BY <1>4, <1>9, <2>2, <3>1, <3>2
    <2>3. i = l + 1 \/ i \in 1..l
      OBVIOUS
    <2> QED BY <2>1, <2>2, <2>3
  <1>11. Agrees(text, more)
    BY <1>8, <1>9, <1>10 DEF Agrees
  <1>12. ASSUME Len(all) >= 2 PROVE Given(more) # <<>>
    <2>1. CASE l >= 2
      BY <1>3, <1>5, <1>6, <2>1 DEF Planned
    <2>2. CASE l = 1
      <3>1. Signature(log, turns[1]) = At(PlanIn(text, log), 1)
        BY <1>5, <1>6, <2>2 DEF Planned, Agrees
      <3>2. At(PlanIn(text, log), 1) = <<GetTicket>>
        <4>1. RefundIn(text, log) \in {RefundFigure, RefundGoods, RefundNothing}
          BY DEF RefundIn
        <4>2. 1 \in Nat
          OBVIOUS
        <4> QED BY <4>1, <4>2, TrajectoryTurns DEF PlanIn
      <3>3. turns[1] \in Turns(log)
        BY <1>6, <2>2
      <3>4. PICK k \in LastTurn(log) : turns[1] <= k
        BY <3>3, SomeTurnIsLast
      <3>5. k = turns[1]
        BY <1>2, <1>5, <1>6, <2>2 DEF Grounded
      <3>6. log[k].calls = <<GetTicket>>
        BY <3>1, <3>2, <3>5 DEF Signature
      <3>7. <<k, 1>> \in CallsOf(log, k)
        <4>1. 1 \in DOMAIN log[k].calls
          BY <3>6
        <4> QED BY <4>1 DEF CallsOf
      <3>8. <<k, 1>> \in SettledIn(log)
        BY <3>7, UnresolvedCalls
      <3>9. Answers(log) # {}
        BY <3>8 DEF SettledIn, Answers
      <3> QED BY <1>2, <1>3, <3>9 DEF Grounded
    <2> QED BY <1>9, <1>12, <2>1, <2>2
  <1> QED BY <1>1, <1>2, <1>8, <1>11, <1>12 DEF Planned

-----------------------------------------------------------------------------
(* The plan in every reachable state. *)

(* What the texts of the run's ticket hold, by the call that reads them.     *)
Wording == [a \in Actions |-> TextOf(a)]

(* The inductive invariant of a plan: every record, and every record that a  *)
(* transaction would commit, went by the plan it leads to.                   *)
PlanInv ==
  /\ HeardInv
  /\ \A r \in Runs : Planned(Wording, steps[r])
  /\ \A w \in Workers : pc[w] = "settling" => Planned(Wording, txSteps[w])

(* The messages rebuilt of a log hold one message of the model for each turn.*)
LEMMA TurnsTold ==
  ASSUME NEW log \in Seq(Step), InPlace(log), NEW told, Remembered(log, told)
  PROVE  TurnIndex(Rebuild(log)) = Len(RecordedTurns(log))
  <1>1. PICK ms, p : ms = Conversation(log).messages /\ p = Conversation(log).pending
    OBVIOUS
  <1>2. ms \in Seq(Message) /\ p \in Seq(Said)
    BY <1>1 DEF InPlace, Open
  <1>3. TurnIndex(ms) = Len(RecordedTurns(log))
    BY <1>1 DEF Remembered
  <1>4. CASE p = <<>>
    <2>1. Rebuild(log) = ms
      BY <1>1, <1>4 DEF Rebuild, Flushed
    <2> QED BY <1>3, <2>1
  <1>5. CASE p # <<>>
    <2>1. Rebuild(log) = Append(ms, Says(p))
      BY <1>1, <1>5 DEF Rebuild, Flushed, Says
    <2>2. Says(p) \in Message /\ Says(p).role = "user"
      BY <1>2, GatheredMoves DEF Says
    <2>3. TurnIndex(Append(ms, Says(p))) = TurnIndex(ms)
      BY <1>2, <2>2, TurnIndexMoves
    <2> QED BY <1>3, <2>1, <2>3
  <1> QED BY <1>4, <1>5

(* Plans are sequences.                                                      *)
LEMMA TupleDomains ==
  ASSUME NEW a, NEW b, NEW c, NEW d, NEW e, NEW f
  PROVE  /\ Len(<<a, b>>) = 2 /\ DOMAIN <<a, b>> = 1..2
         /\ Len(<<a, b, c, d>>) = 4 /\ DOMAIN <<a, b, c, d>> = 1..4
         /\ Len(<<a, b, c, d, e, f>>) = 6 /\ DOMAIN <<a, b, c, d, e, f>> = 1..6
  OBVIOUS

(* The next turn of a scripted plan.                                         *)
LEMMA NextOfPlan ==
  ASSUME NEW seen, NEW refund, NEW ms, TurnIndex(ms) \in Nat
  PROVE  Scripted(Trajectory(seen, refund), ms) = At(Trajectory(seen, refund), TurnIndex(ms) + 1)
  <1>1. PICK plan : plan = Trajectory(seen, refund)
    OBVIOUS
  <1>2. PICK i \in Nat : i = TurnIndex(ms)
    OBVIOUS
  <1>3. DOMAIN plan = 1..Len(plan) /\ Len(plan) \in Nat
    <2>1. CASE "money back" \notin seen
      <3>1. plan = <<<<GetTicket>>, <<SearchShipping>>, <<NoteDelay>>, <<SetPending>>>>
        BY <1>1, <2>1 DEF Trajectory
      <3> QED BY <3>1, TupleDomains
    <2>2. CASE "money back" \in seen /\ "order" \notin seen
      <3>1. plan = <<<<GetTicket>>, <<SearchPolicy>>>>
        BY <1>1, <2>2 DEF Trajectory
      <3> QED BY <3>1, TupleDomains
    <2>3. CASE "money back" \in seen /\ "order" \in seen
      <3>1. plan = <<<<GetTicket>>, <<GetOrder>>, <<SearchPolicy>>, <<refund>>, <<NoteRefund>>, <<SetResolved>>>>
        BY <1>1, <2>3 DEF Trajectory
      <3> QED BY <3>1, TupleDomains
    <2> QED BY <2>1, <2>2, <2>3
  <1>4. i < Len(plan) <=> i + 1 \in DOMAIN plan
    BY <1>3
  <1> QED BY <1>1, <1>2, <1>4 DEF Scripted, At

(* So the mock answers what its record leads to.                             *)
LEMMA MockGoesByTheRecord ==
  ASSUME NEW log \in Seq(Step), InPlace(log), NEW told, Remembered(log, told), Grounded(log)
  PROVE  Mock(Rebuild(log)) = At(PlanIn(Wording, log), Len(RecordedTurns(log)) + 1)
  <1>1. \A a \in Actions : Wording[a] = TextOf(a)
    BY DEF Wording
  <1>2. Plan(Rebuild(log)) = PlanIn(Wording, log)
    BY <1>1, ReadFromLog
  <1>3. PICK ms : ms = Rebuild(log)
    OBVIOUS
  <1>4. TurnIndex(ms) = Len(RecordedTurns(log))
    BY <1>3, TurnsTold
  <1>5. TurnIndex(ms) \in Nat
    BY <1>4, RecordedPlaces
  <1>6. Mock(ms) = Scripted(PlanIn(Wording, log), ms)
    BY <1>2, <1>3 DEF Mock
  <1> QED BY <1>3, <1>4, <1>5, <1>6, NextOfPlan DEF PlanIn

(* Nothing is planned at first.                                              *)
LEMMA PlanInvInit == MInit => PlanInv
  <1> SUFFICES ASSUME MInit PROVE PlanInv
    OBVIOUS
  <1>1. HeardInv
    BY HeardInvInit DEF MInit
  <1>2. (\A r \in Runs : steps[r] = <<>>) /\ (\A w \in Workers : pc[w] = "idle")
    BY DEF MInit, TInit, Init
  <1>3. \A r \in Runs : Planned(Wording, steps[r])
    BY <1>2, PlannedStarts
  <1> QED BY <1>1, <1>2, <1>3 DEF PlanInv

(* What is on record goes by its plan after every step.                      *)
LEMMA CommittedPlanned ==
  ASSUME PlanInv, Next, MockAnswers, NEW r \in Runs
  PROVE  Planned(Wording, steps'[r])
  <1>1. /\ HeardInv /\ TalkInv /\ RInv /\ IInv /\ TypeOK /\ steps[r] \in Seq(Step)
        /\ Remembered(steps[r], heard[r]) /\ InPlace(steps[r]) /\ Planned(Wording, steps[r])
    BY DEF PlanInv, HeardInv, TalkInv, RInv, IInv, TypeOK
  <1>2. PICK text : text = Wording
    OBVIOUS
  <1>3. ASSUME RecordKept(r) PROVE Planned(text, steps'[r])
    BY <1>1, <1>2, <1>3 DEF RecordKept
  <1>4. ASSUME NEW w \in Workers, RecordNoted(r, w) PROVE Planned(text, steps'[r])
    <2>1. steps'[r] = Append(steps[r], Notice)
      BY <1>4 DEF RecordNoted
    <2>2. Notice \in Step /\ Notice.kind = "notice"
      BY StepKinds
    <2> QED BY <1>1, <1>2, <2>1, <2>2, PlannedAside
  <1>5. ASSUME NEW w \in Workers, RecordReplied(r, w) PROVE Planned(text, steps'[r])
    <2>1. PICK reply \in Replies \cup {<<>>} :
            \/ steps'[r] = Append(steps[r], ModelCall(reply))
            \/ steps'[r] = Append(Append(steps[r], ModelCall(reply)), Final)
      BY <1>5 DEF RecordReplied
    <2>2. /\ pc[w] = "model" /\ pc'[w] # "model" /\ asked[w] = Rebuild(steps[r])
          /\ Unresolved(steps[r]) = {}
      BY <1>1, <1>5 DEF RecordReplied, HeardInv, AskerRemembers, RInv, AskerWaits
    <2>3. PICK s \in Step : s = ModelCall(reply) /\ s.kind = "model_call"
      BY StepKinds
    <2>4. PICK log : log = Append(steps[r], s) /\ log \in Seq(Step)
      <3>1. Append(steps[r], s) \in Seq(Step)
        BY <1>1
      <3> QED BY <3>1, Zenon
    <2>5. PICK end \in Step : end = Final /\ end.kind = "final"
      BY StepKinds
    <2>6. steps'[r] = log \/ steps'[r] = Append(log, end)
      BY <2>1, <2>3, <2>4, <2>5
    <2>7. PICK n \in Nat : n = Len(steps[r]) /\ log[n + 1] = s /\ Len(log) = n + 1
      BY <1>1, <2>4
    <2>8. steps'[r][n + 1] = s
      <3>1. CASE steps'[r] = log
        BY <2>7, <3>1
      <3>2. CASE steps'[r] = Append(log, end)
        <4>1. Append(log, end)[n + 1] = log[n + 1]
          BY <2>4, <2>7
        <4> QED BY <2>7, <3>2, <4>1
      <3> QED BY <2>6, <3>1, <3>2
    <2>9. Turns(steps'[r]) # Turns(steps[r])
      <3>1. n + 1 \in DOMAIN steps'[r]
        <4>1. CASE steps'[r] = log
          BY <2>4, <2>7, <4>1
        <4>2. CASE steps'[r] = Append(log, end)
          BY <2>4, <2>7, <4>2
        <4> QED BY <2>6, <4>1, <4>2
      <3>2. n + 1 \in Turns(steps'[r])
        BY <2>3, <2>8, <3>1 DEF Turns
      <3>3. n + 1 \notin Turns(steps[r])
        BY <1>1, <2>7 DEF Turns
      <3> QED BY <3>2, <3>3
    <2>10. s.calls = Mock(Rebuild(steps[r]))
      BY <2>2, <2>7, <2>8, <2>9 DEF MockAnswers
    <2>11. s.calls = At(PlanIn(text, steps[r]), Len(RecordedTurns(steps[r])) + 1)
      BY <1>1, <1>2, <2>10, MockGoesByTheRecord DEF Planned
    <2>12. Planned(text, log)
      BY <1>1, <1>2, <2>2, <2>3, <2>4, <2>11, PlannedReplied
    <2>13. InPlace(log)
      <3>1. InPlace(Append(steps[r], s))
        <4>1. Ordered(steps[r])
          BY <1>1 DEF RInv, Sound
        <4> QED BY <1>1, <2>2, <2>3, <4>1, InPlaceReplies
      <3> QED BY <2>4, <3>1
    <2>14. Planned(text, Append(log, end))
      BY <2>4, <2>5, <2>12, <2>13, PlannedAside
    <2> QED BY <2>6, <2>12, <2>14
  <1>6. ASSUME NEW w \in Workers, RecordCommitted(r, w) PROVE Planned(text, steps'[r])
    <2>1. /\ txSteps[w] \in Seq(Step) /\ InPlace(txSteps[w]) /\ Planned(text, txSteps[w])
          /\ todo[w] \subseteq Unresolved(txSteps[w]) /\ todo[w] \subseteq CallIds
      BY <1>1, <1>2, <1>6 DEF RecordCommitted, PlanInv, TalkInv, RInv, TypeOK, SettlerSound
    <2>2. ASSUME NEW c \in todo[w] PROVE Planned(text, Append(txSteps[w], ToolResult(c, TRUE)))
      <3>1. c \in CallIds /\ c \in Unresolved(txSteps[w])
        BY <2>1
      <3>2. /\ ToolResult(c, TRUE) \in Step /\ ToolResult(c, TRUE).kind = "tool_result"
            /\ ToolResult(c, TRUE).call = c
        BY <3>1, StepKinds
      <3> QED BY <2>1, <3>1, <3>2, PlannedAnswered
    <2> QED BY <1>6, <2>1, <2>2 DEF RecordCommitted
  <1>7. RecordMoves(r)
    BY <1>1, RecordStep
  <1> QED BY <1>2, <1>3, <1>4, <1>5, <1>6, <1>7 DEF RecordMoves

(* So does what a transaction would commit.                                  *)
LEMMA SettlerPlanned ==
  ASSUME PlanInv, [Next]_vars, NEW w \in Workers, pc'[w] = "settling"
  PROVE  Planned(Wording, txSteps'[w])
  <1>1. TalkInv /\ RInv /\ IInv /\ TypeOK
    BY DEF PlanInv, HeardInv, TalkInv, RInv, IInv
  <1>2. PICK text : text = Wording
    OBVIOUS
  <1>3. CASE BeginSettle(w)
    <2>1. run[w] \in Runs /\ txSteps'[w] = steps[run[w]]
      BY <1>1, <1>3 DEF BeginSettle, TypeOK
    <2> QED BY <2>1 DEF PlanInv
  <1>4. ASSUME pc[w] = "settling", NEW c \in todo[w],
               NEW s \in {ToolResult(c, FALSE), ToolResult(c, TRUE), DenialStep(c)},
               txSteps'[w] = Append(txSteps[w], s)
        PROVE  Planned(text, txSteps'[w])
    <2>1. /\ txSteps[w] \in Seq(Step) /\ InPlace(txSteps[w]) /\ Planned(text, txSteps[w])
          /\ c \in CallIds /\ c \in Unresolved(txSteps[w])
      BY <1>1, <1>2, <1>4 DEF PlanInv, TalkInv, RInv, TypeOK, SettlerSound
    <2>2. s \in Step /\ s.call = c /\ s.kind \in {"tool_result", "approval"}
      <3>1. CASE s = DenialStep(c)
        BY <2>1, <3>1, StepKinds
      <3>2. CASE s = ToolResult(c, FALSE)
        BY <2>1, <3>2, StepKinds
      <3>3. CASE s = ToolResult(c, TRUE)
        BY <2>1, <3>3, StepKinds
      <3> QED BY <3>1, <3>2, <3>3
    <2> QED BY <1>4, <2>1, <2>2, PlannedAnswered
  <1>5. CASE TxAnswered(w)
    <2>1. pc[w] = "settling" /\ Planned(text, txSteps[w])
      BY <1>2, <1>5 DEF TxAnswered, PlanInv
    <2> QED BY <1>2, <1>4, <1>5, <2>1 DEF TxAnswered
  <1>6. CASE TxRan(w)
    <2>1. pc[w] = "settling"
      BY <1>6 DEF TxRan
    <2>2. PICK c \in todo[w], ok \in BOOLEAN : txSteps'[w] = Append(txSteps[w], ToolResult(c, ok))
      BY <1>6 DEF TxRan
    <2>3. ok = TRUE \/ ok = FALSE
      BY <2>2
    <2> QED BY <1>2, <1>4, <2>1, <2>2, <2>3
  <1> QED BY <1>1, <1>3, <1>5, <1>6, TxStep

(* Every step keeps to the plans.                                            *)
LEMMA PlanInvStep == PlanInv /\ [MNext]_<<vars, historyVars, world>> => PlanInv'
  <1> SUFFICES ASSUME PlanInv, [MNext]_<<vars, historyVars, world>> PROVE PlanInv'
    OBVIOUS
  <1>1. HeardInv'
    BY HeardInvStep DEF PlanInv, MNext
  <1>2. Wording' = Wording
    <2>1. world' = world
      BY DEF MNext
    <2> QED BY <2>1 DEF Wording, TextOf, TicketText, OrderText, ArticleText
  <1>3. CASE UNCHANGED <<vars, historyVars, world>>
    <2>1. steps' = steps /\ pc' = pc /\ txSteps' = txSteps
      BY <1>3 DEF vars, dbVars, txVars
    <2>2. (\A r \in Runs : Planned(Wording', steps'[r]))
          /\ \A w \in Workers : pc'[w] = "settling" => Planned(Wording', txSteps'[w])
      BY <1>2, <2>1, Zenon DEF PlanInv
    <2> QED BY <1>1, <2>2, Zenon DEF PlanInv
  <1>4. CASE MNext
    <2>1. Next /\ MockAnswers
      BY <1>4 DEF MNext, TNext
    <2>2. \A r \in Runs : Planned(Wording', steps'[r])
      BY <1>2, <2>1, CommittedPlanned
    <2>3. \A w \in Workers : pc'[w] = "settling" => Planned(Wording', txSteps'[w])
      BY <1>2, <2>1, SettlerPlanned
    <2> QED BY <1>1, <2>2, <2>3 DEF PlanInv
  <1> QED BY <1>3, <1>4

(* Every record leads to a plan it has kept to, in every reachable state of  *)
(* every world, whatever workers lose the run and find it again.             *)
THEOREM RecordsGoByTheirPlan == MSpec => []PlanInv
  BY PlanInvInit, PlanInvStep, PTL DEF MSpec

(* Such a record shows what PlanKeepsItsPast says.                           *)
LEMMA PlanIsKept == PlanInv => PlanKeepsItsPast
  <1> SUFFICES ASSUME PlanInv, NEW r \in Runs, NEW i \in DOMAIN RecordedTurns(steps[r])
               PROVE  Signature(steps[r], RecordedTurns(steps[r])[i])
                        = IF i \in DOMAIN Plan(Rebuild(steps[r])) THEN Plan(Rebuild(steps[r]))[i] ELSE <<>>
    BY DEF PlanKeepsItsPast
  <1>1. steps[r] \in Seq(Step) /\ InPlace(steps[r]) /\ Planned(Wording, steps[r])
    BY DEF PlanInv, HeardInv, TalkInv, RInv, IInv, TypeOK
  <1>2. \A a \in Actions : Wording[a] = TextOf(a)
    BY DEF Wording
  <1>3. Plan(Rebuild(steps[r])) = PlanIn(Wording, steps[r])
    BY <1>1, <1>2, ReadFromLog DEF Planned
  <1>4. Signature(steps[r], RecordedTurns(steps[r])[i]) = At(PlanIn(Wording, steps[r]), i)
    BY <1>1 DEF Planned, Agrees
  <1> QED BY <1>3, <1>4 DEF At

(* Planning again never takes back what was decided, whatever a run has read,*)
(* failed at, been told or been denied since (_brief, _plan).                *)
THEOREM PlanKeepsItsPastAlways == MSpec => []PlanKeepsItsPast
  BY RecordsGoByTheirPlan, PlanIsKept, PTL
=============================================================================
