--------------------------- MODULE TriggerPortProofs ---------------------------
(***************************************************************************)
(* Theorems about the durable-task port.  An attempt that dies leaves the  *)
(* step log, the ledger and the tokens behind, and the next one walks over *)
(* them from the top; what is to be shown is that it finds there, under    *)
(* every number, what it is about to do itself.                            *)
(*                                                                         *)
(* The inductive invariant says that the log is the trace of one walk,     *)
(* whichever attempts took it: there is a sequence T of positions, one     *)
(* after every step, each reached from the one before by a reply that is   *)
(* on record, by the end of the work, or by the one answer that its call   *)
(* can get (Walked); and the attempt in progress stands on that walk       *)
(* (Stands).                                                               *)
(***************************************************************************)
EXTENDS TriggerPort, TLAPS, FiniteSetTheorems, WellFoundedInduction

(* What the port carries in its variables when a step has been recorded.     *)
Outcomes == {"ok", "failed", "denied"}
Turns == [reply : Replies \cup {<<>>}, results : Seq(Outcomes)]
Positions == [messages : Seq(Turns), reply : Replies \cup {<<>>}, results : Seq(Outcomes)]
Here == [messages |-> messages, reply |-> reply, results |-> results]

(* A position has a call to settle, or a turn to send back.                  *)
Calling(p) == p.reply \notin {<<>>, Refusal} /\ Len(p.results) < Len(p.reply)
TurnOver(p) == p.reply \notin {<<>>, Refusal} /\ ~ (Len(p.results) < Len(p.reply))
AfterTurn(p) == Append(p.messages, [reply |-> p.reply, results |-> p.results])
CallAt(p) == <<Len(p.messages) + 1, Len(p.results) + 1>>
ActionAt(p) == p.reply[Len(p.results) + 1]
Wrong(a) == a \in Unregistered \cup (Irreversible \cap Invalid)

(* The calls a position has behind it.                                       *)
Behind(c, p) ==
  \/ c[1] <= Len(p.messages)
  \/ c[1] = Len(p.messages) + 1 /\ c[2] <= Len(p.results)

(* An answer the run has been woken with and that is in the row.             *)
OnFile(c, answer) == c \in DOMAIN tokens /\ c \in DOMAIN rows /\ SettledAs(c, answer)

(* The n-th step of the walk T took it to p: a reply that is on record,      *)
Opened(T, n, p) ==
  /\ IF n = 1 THEN p.messages = <<>>
     ELSE TurnOver(T[n - 1]) /\ p.messages = AfterTurn(T[n - 1])
  /\ p.results = <<>>
  /\ p.messages \in DOMAIN said /\ said[p.messages] = p.reply
  /\ n \notin DOMAIN ledger
(* the end of the work,                                                      *)
Closed(T, n, p) ==
  /\ n # 1 /\ T[n - 1].reply = <<>> /\ p = T[n - 1]
  /\ n \notin DOMAIN ledger
(* or the answer to a call: it failed before it was tried, was denied, or is *)
(* in the ledger under the number of the step.                               *)
Settles(n, c, a, result) ==
  \/ Wrong(a) /\ result = "failed" /\ n \notin DOMAIN ledger
  \/ /\ a \in Irreversible /\ ~Wrong(a) /\ result = "denied" /\ n \notin DOMAIN ledger
     /\ OnFile(c, "denied")
  \/ /\ ~Wrong(a) /\ n \in DOMAIN ledger
     /\ ledger[n].call = c /\ ledger[n].action = a
     /\ result = IF ledger[n].ok THEN "ok" ELSE "failed"
     /\ a \in Irreversible => OnFile(c, "approved")
Answered(T, n, p) ==
  /\ n # 1 /\ Calling(T[n - 1])
  /\ p.messages = T[n - 1].messages /\ p.reply = T[n - 1].reply
  /\ \E result \in Outcomes :
       /\ p.results = Append(T[n - 1].results, result)
       /\ Settles(n, CallAt(T[n - 1]), ActionAt(T[n - 1]), result)
Moved(T, n, p) == Opened(T, n, p) \/ Closed(T, n, p) \/ Answered(T, n, p)

(* The end of the work is the end of the walk, a token was asked for on the  *)
(* walk, and a run that succeeded walked to the end.                         *)
Asks(p, c) ==
  Calling(p) /\ CallAt(p) = c /\ ActionAt(p) \in Irreversible /\ ~Wrong(ActionAt(p))
Seen(T) ==
  /\ \A n, m \in DOMAIN T : n <= m /\ T[n].reply = <<>> => T[m].reply = <<>>
  /\ \A c \in DOMAIN tokens : \E n \in DOMAIN T : Asks(T[n], c)
  /\ "succeeded" \in {status, verdict} => \E n \in DOMAIN T : T[n].reply = <<>>

(* The step log is one walk, whichever attempts took it: T has its position  *)
(* after every step.                                                         *)
Walked(T) ==
  /\ DOMAIN T = DOMAIN steps
  /\ \A n \in DOMAIN T :
       /\ T[n] \in Positions /\ Len(T[n].results) <= Len(T[n].reply)
       /\ Len(T[n].messages) < n /\ Len(T[n].messages) < MaxSteps
       /\ Moved(T, n, T[n])
  /\ \A n \in DOMAIN ledger : \A m \in DOMAIN T : n <= m => Behind(ledger[n].call, T[m])
  /\ Seen(T)

(* The attempt stands on the walk.                                           *)
Asking == pc \in {"asking", "waiting", "denied", "approved"}
Stands(T) ==
  /\ pc \in {"down", "done"} => seq = 0 /\ messages = <<>>
  /\ pc = "bounds" =>
       \/ seq = 0 /\ messages = <<>>
       \/ seq \in DOMAIN T /\ TurnOver(T[seq]) /\ messages = AfterTurn(T[seq])
  /\ pc = "settling" \/ Asking => seq \in DOMAIN T /\ T[seq] = Here
  /\ Asking => InHand /\ ActionInHand \in Irreversible /\ ~Unsound /\ CallInHand \in DOMAIN tokens
  /\ pc \in {"waiting", "denied", "approved"} => CallInHand \in DOMAIN rows
  /\ pc \in {"denied", "approved"} => OnFile(CallInHand, pc)

(* The row and the token agree or differ for a reason, an answer that is on  *)
(* its way to the token is an answer, and one that came to the token first   *)
(* did not come by approve.ts.                                               *)
Agreed ==
  /\ \A c \in DOMAIN tokens : tokens[c] \in Decided => c \in DOMAIN rows
  /\ \A c \in DOMAIN rows :
       /\ rows[c].status = tokens[c] \/ RowAndTokenDiffer(c)
       /\ rows[c].status = "pending" /\ tokens[c] \in Decided => c \in direct
  /\ \A c \in undelivered : rows[c].status \in Decided
Denials ==
  \A n \in DOMAIN steps : steps[n].kind = "approval" => OnFile(steps[n].call, "denied")

Kinds == {"model_call", "final", "tool_result", "approval"}
Entries == [kind : Kinds, call : Nat \X Nat, ok : BOOLEAN, cost : Nat]
Typed ==
  /\ TypeOK
  /\ Logged \in Nat
  /\ \A n \in DOMAIN steps : steps[n] \in Entries
  /\ \A n \in DOMAIN ledger : ledger[n].ok \in BOOLEAN /\ ledger[n].call \in Nat \X Nat
  /\ seq \in Nat /\ messages \in Seq(Turns) /\ results \in Seq(Outcomes)
  /\ verdict \in {"none"} \cup Ended

(* What the log costs, step by step.                                         *)
Sums(g, k, log) ==
  DOMAIN g = 0..k /\ g[0] = 0 /\ \A n \in 1..k : g[n] = g[n - 1] + log[n].cost
Summed(g) ==
  g \in [0..Logged -> Nat] /\ Sums(g, Logged, steps) /\ g[Logged] = cost

(* The inductive invariant.                                                  *)
PInv ==
  /\ Typed /\ Agreed /\ Denials /\ LogTellsTheLedger
  /\ \E g : Summed(g)
  /\ \E T : Walked(T) /\ Stands(T)

(* What no step takes away: replies on record, answers on file, and what     *)
(* the ledger has under the numbers of the log.                         *)
Kept ==
  /\ \A c \in DOMAIN said : c \in DOMAIN said' /\ said'[c] = said[c]
  /\ \A c : \A answer \in Decided : OnFile(c, answer) => OnFile(c, answer)'
  /\ \A n \in DOMAIN steps :
       /\ n \in DOMAIN ledger <=> n \in DOMAIN ledger'
       /\ n \in DOMAIN ledger => ledger'[n] = ledger[n]

-----------------------------------------------------------------------------
(* The walk. *)

(* Put sets one value and keeps the others.                                  *)
LEMMA PutFacts ==
  ASSUME NEW f, NEW x, NEW v
  PROVE  /\ DOMAIN Put(f, x, v) = DOMAIN f \cup {x}
         /\ Put(f, x, v)[x] = v
         /\ \A y \in DOMAIN f : y # x => Put(f, x, v)[y] = f[y]
  BY DEF Put

(* A position is its three parts.                                            *)
LEMMA SamePosition ==
  ASSUME NEW p \in Positions, NEW q \in Positions,
         p.messages = q.messages, p.reply = q.reply, p.results = q.results
  PROVE  p = q
  BY DEF Positions

(* The variables of an attempt make a position.                              *)
LEMMA HereTyped ==
  ASSUME Typed
  PROVE  /\ Here \in Positions /\ Len(Here.results) <= Len(Here.reply)
         /\ Len(messages) \in Nat /\ Len(results) \in Nat
         /\ reply \in Replies \cup {<<>>} /\ Len(reply) \in Nat
  <1>1. messages \in Seq(Turns) /\ results \in Seq(Outcomes) /\ reply \in Replies \cup {<<>>}
    BY DEF Typed, TypeOK
  <1>2. Len(results) <= Len(reply)
    BY DEF Typed, TypeOK
  <1>3. Len(reply) \in Nat
    BY <1>1, CallsAssumption DEF Refusal
  <1> QED BY <1>1, <1>2, <1>3 DEF Here, Positions

(* A walk looks one step back and at no more.                                *)
LEMMA MovedSame ==
  ASSUME NEW T, NEW T2, NEW n, NEW p, n # 1 => T2[n - 1] = T[n - 1], Moved(T, n, p)'
  PROVE  Moved(T2, n, p)'
  <1>1. Opened(T, n, p)' => Opened(T2, n, p)'
    BY DEF Opened
  <1>2. Closed(T, n, p)' => Closed(T2, n, p)'
    BY DEF Closed
  <1>3. Answered(T, n, p)' => Answered(T2, n, p)'
    BY DEF Answered
  <1> QED BY <1>1, <1>2, <1>3 DEF Moved

(* And it stays a walk while replies, answers and rows stay.                 *)
LEMMA MovedKept ==
  ASSUME Kept, NEW T, NEW n \in DOMAIN steps, NEW p, Moved(T, n, p)
  PROVE  Moved(T, n, p)'
  <1>1. /\ n \in DOMAIN ledger <=> n \in DOMAIN ledger'
        /\ n \in DOMAIN ledger => ledger'[n] = ledger[n]
    BY DEF Kept
  <1>2. Opened(T, n, p) => Opened(T, n, p)'
    BY <1>1 DEF Opened, Kept
  <1>3. Closed(T, n, p) => Closed(T, n, p)'
    BY <1>1 DEF Closed
  <1>4. ASSUME NEW c, NEW a, NEW result, Settles(n, c, a, result)
        PROVE  Settles(n, c, a, result)'
    <2>1. /\ OnFile(c, "denied") => OnFile(c, "denied")'
          /\ OnFile(c, "approved") => OnFile(c, "approved")'
      BY DEF Kept, Decided
    <2> QED BY <1>1, <1>4, <2>1 DEF Settles
  <1>5. Answered(T, n, p) => Answered(T, n, p)'
    BY <1>4 DEF Answered
  <1> QED BY <1>2, <1>3, <1>5 DEF Moved

(* A step aside of the log leaves the walk as it is.                         *)
LEMMA Aside ==
  ASSUME Typed, NEW T, Walked(T), Kept, DOMAIN steps' = DOMAIN steps, ledger' = ledger, Seen(T)'
  PROVE  Walked(T)'
  <1>1. ASSUME NEW n \in DOMAIN T PROVE Moved(T, n, T[n])'
    <2>1. n \in DOMAIN steps /\ Moved(T, n, T[n])
      BY DEF Walked
    <2> QED BY <2>1, MovedKept
  <1> QED BY <1>1 DEF Walked

(* A new step takes the walk on by a position; one that was taken before     *)
(* leads where it led.                                                       *)
LEMMA WalkOn ==
  ASSUME Typed, NEW T, Walked(T), Kept, NEW n, n = seq + 1, seq = 0 \/ seq \in DOMAIN T,
         NEW p \in Positions, DOMAIN steps' = DOMAIN steps \cup {n},
         Len(p.results) <= Len(p.reply), Len(p.messages) < n, Len(p.messages) < MaxSteps,
         n \in DOMAIN T => T[n] = p,
         Moved(T, n, p)', tokens' = tokens,
         "succeeded" \in {status', verdict'} => "succeeded" \in {status, verdict} \/ p.reply = <<>>,
         \A c \in Nat \X Nat : seq \in DOMAIN T /\ Behind(c, T[seq]) => Behind(c, p),
         \A m \in DOMAIN ledger' :
           \/ m \in DOMAIN ledger /\ ledger'[m] = ledger[m]
           \/ m = n /\ n \notin DOMAIN T /\ Behind(ledger'[n].call, p)
  PROVE  \E T2 : Walked(T2)' /\ n \in DOMAIN T2 /\ T2[n] = p
  <1>1. PICK T2 : T2 = Put(T, n, p)
    OBVIOUS
  <1>2. /\ DOMAIN T2 = DOMAIN T \cup {n} /\ T2[n] = p
        /\ \A m \in DOMAIN T : T2[m] = T[m]
    <2>1. /\ DOMAIN T2 = DOMAIN T \cup {n} /\ T2[n] = p
          /\ \A m \in DOMAIN T : m # n => T2[m] = T[m]
      BY <1>1 DEF Put
    <2> QED BY <2>1
  <1>3. PICK k \in Nat : k = Logged
    BY DEF Typed
  <1>4. DOMAIN T = 1..k /\ DOMAIN steps = 1..k /\ DOMAIN ledger \subseteq 1..k
    BY <1>3 DEF Typed, TypeOK, Walked, Logged
  <1>5. seq \in 0..k /\ n \in 1..(k + 1) /\ (n \notin DOMAIN T => n = k + 1 /\ seq = k)
    BY <1>4 DEF Typed
  <1>6. ASSUME NEW m \in DOMAIN T2
        PROVE  /\ T2[m] \in Positions /\ Len(T2[m].results) <= Len(T2[m].reply)
               /\ Len(T2[m].messages) < m /\ Len(T2[m].messages) < MaxSteps
    BY <1>2 DEF Walked
  <1>7. ASSUME NEW m \in DOMAIN T2 PROVE Moved(T2, m, T2[m])'
    <2>1. m \in 1..(k + 1) /\ (m # 1 => m - 1 \in DOMAIN T)
      BY <1>2, <1>4, <1>5
    <2>2. m # 1 => T2[m - 1] = T[m - 1]
      BY <1>2, <2>1
    <2>3. CASE m = n
      <3>1. Moved(T, m, T2[m])'
        BY <1>2, <2>3
      <3> QED BY <2>2, <3>1, MovedSame
    <2>4. CASE m # n
      <3>1. m \in DOMAIN T /\ m \in DOMAIN steps /\ T2[m] = T[m] /\ Moved(T, m, T[m])
        BY <1>2, <2>4 DEF Walked
      <3>2. Moved(T, m, T2[m])'
        BY <3>1, MovedKept
      <3> QED BY <2>2, <3>2, MovedSame
    <2> QED BY <2>3, <2>4
  <1>8. ASSUME NEW m \in DOMAIN ledger', NEW j \in DOMAIN T2, m <= j
        PROVE  Behind(ledger'[m].call, T2[j])
    <2>1. CASE j \in DOMAIN T
      <3>1. m \in DOMAIN ledger /\ ledger'[m] = ledger[m]
        BY <1>4, <1>5, <1>8, <2>1
      <3> QED BY <1>2, <1>8, <2>1, <3>1 DEF Walked
    <2>2. CASE j \notin DOMAIN T
      <3>1. j = n /\ n = k + 1 /\ seq = k
        BY <1>2, <1>5, <2>2
      <3>2. CASE m \in DOMAIN ledger /\ ledger'[m] = ledger[m]
        <4>1. m \in 1..k /\ seq \in DOMAIN T /\ m <= seq
          BY <1>4, <3>1, <3>2
        <4>2. Behind(ledger[m].call, T[seq])
          BY <3>2, <4>1 DEF Walked
        <4>3. ledger[m].call \in Nat \X Nat
          BY <3>2 DEF Typed
        <4> QED BY <1>2, <3>1, <3>2, <4>1, <4>2, <4>3
      <3>3. CASE m = n /\ Behind(ledger'[n].call, p)
        BY <1>2, <3>1, <3>3
      <3> QED BY <3>2, <3>3
    <2> QED BY <2>1, <2>2
  <1>9. DOMAIN T2 = DOMAIN steps'
    BY <1>2 DEF Walked
  <1>10. Seen(T2)'
    <2>1. ASSUME NEW m \in DOMAIN T2, NEW j \in DOMAIN T2, m <= j, T2[m].reply = <<>>
          PROVE  T2[j].reply = <<>>
      <3>1. CASE j \in DOMAIN T
        <4>1. m \in DOMAIN T
          BY <1>2, <1>4, <1>5, <2>1, <3>1
        <4> QED BY <1>2, <2>1, <3>1, <4>1 DEF Walked, Seen
      <3>2. CASE j \notin DOMAIN T /\ m = n
        BY <1>2, <2>1, <3>2
      <3>3. CASE j \notin DOMAIN T /\ m # n
        <4>1. j = n /\ n = k + 1 /\ seq = k /\ m \in DOMAIN T
          BY <1>2, <1>5, <3>3
        <4>2. seq \in DOMAIN T /\ m <= seq /\ n - 1 = seq /\ n # 1
          BY <1>4, <4>1
        <4>3. T[n - 1].reply = <<>>
          BY <1>2, <2>1, <4>1, <4>2 DEF Walked, Seen
        <4>4. Closed(T, n, p)'
          BY <4>2, <4>3 DEF Moved, Opened, Answered, TurnOver, Calling
        <4> QED BY <1>2, <4>1, <4>3, <4>4 DEF Closed
      <3> QED BY <3>1, <3>2, <3>3
    <2>2. \A c \in DOMAIN tokens' : \E m \in DOMAIN T2 : Asks(T2[m], c)
      BY <1>2 DEF Walked, Seen
    <2>3. "succeeded" \in {status', verdict'} => \E m \in DOMAIN T2 : T2[m].reply = <<>>
      BY <1>2 DEF Walked, Seen
    <2> QED BY <2>1, <2>2, <2>3 DEF Seen
  <1>11. Walked(T2)'
    BY <1>6, <1>7, <1>8, <1>9, <1>10 DEF Walked
  <1> QED BY <1>2, <1>11

(* The next step on record answers the call in hand.                         *)
LEMMA OnRecord ==
  ASSUME Typed, NEW T, Walked(T), seq \in DOMAIN T, T[seq] = Here, InHand,
         NEW n \in DOMAIN T, n = seq + 1, NEW c, c = CallInHand, NEW a, a = ActionInHand
  PROVE  /\ T[n].messages = messages /\ T[n].reply = reply
         /\ \E other \in Outcomes : T[n].results = Append(results, other) /\ Settles(n, c, a, other)
  <1>1. /\ Len(results) < Len(reply) /\ reply \notin {<<>>, Refusal}
    BY HereTyped DEF InHand
  <1>2. Calling(T[seq]) /\ CallAt(T[seq]) = c /\ ActionAt(T[seq]) = a /\ n - 1 = seq /\ n # 1
    <2>1. seq # 0
      BY DEF Walked, Typed, TypeOK
    <2>2. /\ T[seq].messages = messages /\ T[seq].reply = reply /\ T[seq].results = results
      BY DEF Here
    <2>3. Calling(T[seq])
      BY <1>1, <2>2 DEF Calling
    <2>4. CallAt(T[seq]) = c /\ ActionAt(T[seq]) = a
      BY <2>2 DEF CallAt, ActionAt, CallInHand, ActionInHand
    <2>5. n - 1 = seq /\ n # 1
      BY <2>1 DEF Typed
    <2> QED BY <2>3, <2>4, <2>5
  <1>3. Moved(T, n, T[n])
    BY DEF Walked
  <1>4. Answered(T, n, T[n])
    BY <1>2, <1>3 DEF Moved, Opened, Closed, Calling, TurnOver
  <1> QED BY <1>2, <1>4 DEF Answered, Here

(* The answer to the call in hand takes the walk on.                         *)
LEMMA AnswerWalks ==
  ASSUME Typed, NEW T, Walked(T), Kept, seq \in DOMAIN T, T[seq] = Here, InHand,
         NEW n, n = seq + 1, NEW c, c = CallInHand, NEW a, a = ActionInHand,
         NEW result \in Outcomes,
         DOMAIN steps' = DOMAIN steps \cup {n}, seq' = n, messages' = messages, reply' = reply,
         results' = Append(results, result), pc' = "settling",
         tokens' = tokens, status' = status, verdict' = verdict,
         Settles(n, c, a, result)',
         \A other : n \in DOMAIN T /\ Settles(n, c, a, other) => other = result,
         \A m \in DOMAIN ledger' :
           \/ m \in DOMAIN ledger /\ ledger'[m] = ledger[m]
           \/ m = n /\ n \notin DOMAIN T /\ ledger'[n].call = c
  PROVE  \E T2 : Walked(T2)' /\ Stands(T2)'
  <1>1. /\ Here \in Positions /\ Len(messages) \in Nat /\ Len(results) \in Nat
        /\ reply \in Replies \cup {<<>>} /\ Len(reply) \in Nat
    BY HereTyped
  <1>2. /\ messages \in Seq(Turns) /\ results \in Seq(Outcomes) /\ seq \in Nat
        /\ Len(results) < Len(reply) /\ reply \notin {<<>>, Refusal}
    BY <1>1 DEF Typed, InHand
  <1>3. PICK p : p = Here'
    OBVIOUS
  <1>4. p = [messages |-> messages, reply |-> reply, results |-> Append(results, result)]
    BY <1>3 DEF Here
  <1>5. /\ p \in Positions /\ p.messages = messages /\ p.reply = reply
        /\ p.results = Append(results, result) /\ Len(p.results) = Len(results) + 1
    BY <1>1, <1>2, <1>4 DEF Positions
  <1>6. Len(p.results) <= Len(p.reply) /\ Len(p.messages) < n /\ Len(p.messages) < MaxSteps
    <2>1. Len(messages) < seq /\ Len(messages) < MaxSteps
      BY DEF Walked, Here
    <2> QED BY <1>1, <1>2, <1>5, <2>1
  <1>7. Calling(T[seq]) /\ CallAt(T[seq]) = c /\ ActionAt(T[seq]) = a /\ n - 1 = seq /\ n # 1
    <2>1. seq # 0
      BY DEF Walked, Typed, TypeOK
    <2> QED BY <1>2, <2>1 DEF Here, Calling, CallAt, ActionAt, CallInHand, ActionInHand
  <1>8. n \in DOMAIN T => T[n] = p
    <2> SUFFICES ASSUME n \in DOMAIN T PROVE T[n] = p
      OBVIOUS
    <2>1. Moved(T, n, T[n]) /\ T[n] \in Positions
      BY DEF Walked
    <2>2. /\ T[n].messages = messages /\ T[n].reply = reply
          /\ \E other \in Outcomes : T[n].results = Append(results, other) /\ Settles(n, c, a, other)
      BY OnRecord
    <2>4. PICK other \in Outcomes : /\ T[n].results = Append(results, other)
                                    /\ Settles(n, c, a, other)
      BY <2>2
    <2>5. other = result
      BY <2>4
    <2> QED BY <1>5, <2>1, <2>2, <2>4, <2>5, SamePosition
  <1>9. Moved(T, n, p)'
    <2>1. Answered(T, n, p)'
      <3>1. /\ n # 1 /\ Calling(T[n - 1])
            /\ p.messages = T[n - 1].messages /\ p.reply = T[n - 1].reply
        BY <1>5, <1>7 DEF Here
      <3>2. p.results = Append(T[n - 1].results, result)
        BY <1>5, <1>7 DEF Here
      <3>3. Settles(n, CallAt(T[n - 1]), ActionAt(T[n - 1]), result)'
        BY <1>7
      <3> QED BY <3>1, <3>2, <3>3 DEF Answered
    <2> QED BY <2>1 DEF Moved
  <1>10. \A d \in Nat \X Nat : Behind(d, T[seq]) => Behind(d, p)
    <2>1. T[seq].messages = messages /\ T[seq].results = results
      BY DEF Here
    <2>2. SUFFICES ASSUME NEW d \in Nat \X Nat, d[1] = Len(messages) + 1, d[2] <= Len(results)
                   PROVE  d[2] <= Len(p.results)
      BY <1>5, <2>1 DEF Behind
    <2> QED BY <1>1, <1>5, <2>2
  <1>11. Behind(c, p)
    BY <1>1, <1>5 DEF Behind, CallInHand
  <1>12. \E T2 : Walked(T2)' /\ n \in DOMAIN T2 /\ T2[n] = p
    <2>1. \A m \in DOMAIN ledger' :
            \/ m \in DOMAIN ledger /\ ledger'[m] = ledger[m]
            \/ m = n /\ n \notin DOMAIN T /\ Behind(ledger'[n].call, p)
      BY <1>11
    <2> QED BY <1>5, <1>6, <1>8, <1>9, <1>10, <2>1, WalkOn
  <1>13. PICK T2 : Walked(T2)' /\ n \in DOMAIN T2 /\ T2[n] = p
    BY <1>12
  <1>14. Stands(T2)'
    BY <1>3, <1>13 DEF Stands, Asking
  <1> QED BY <1>13, <1>14

(* An upsert is at the next number.                                          *)
LEMMA UpsertNumbers ==
  ASSUME NEW step, AppendStep(step)
  PROVE  DOMAIN steps' = DOMAIN steps \cup {seq + 1} /\ seq' = seq + 1
  BY PutFacts DEF AppendStep, Upserted

(* A model call opens the turn that is on record for its conversation.       *)
LEMMA AskWalks ==
  ASSUME Typed, NEW T, Walked(T), Stands(T), AskModel
  PROVE  Kept /\ seq + 1 \notin DOMAIN ledger /\ \E T2 : Walked(T2)' /\ Stands(T2)'
  <1>1. PICK r \in Replies : Says(r) /\ said' = Put(said, messages, r) /\ reply' = r
    BY DEF AskModel
  <1>2. PICK n : n = seq + 1
    OBVIOUS
  <1>3. /\ pc = "bounds" /\ pc' = "settling" /\ results' = <<>> /\ messages' = messages
        /\ ledger' = ledger /\ tokens' = tokens /\ seq' = n /\ DOMAIN steps' = DOMAIN steps \cup {n}
        /\ ~(seq >= MaxSteps) /\ rows' = rows /\ status' = status /\ verdict' = verdict
    BY <1>2, UpsertNumbers DEF AskModel, GoTo, consent, Breach
  <1>4. /\ \A c \in DOMAIN said : c \in DOMAIN said' /\ said'[c] = said[c]
        /\ messages \in DOMAIN said' /\ said'[messages] = r
    BY <1>1 DEF Says, Put
  <1>5. Kept
    BY <1>3, <1>4 DEF Kept, OnFile, SettledAs
  <1>6. /\ seq \in Nat /\ messages \in Seq(Turns) /\ Len(messages) \in Nat /\ MaxSteps \in Nat
        /\ Len(r) \in Nat
    BY HereTyped, BoundsAssumption, CallsAssumption DEF Typed, Refusal
  <1>7. PICK p : p = Here'
    OBVIOUS
  <1>8. p = [messages |-> messages, reply |-> r, results |-> <<>>]
    BY <1>1, <1>3, <1>7 DEF Here
  <1>9. /\ p \in Positions /\ p.messages = messages /\ p.reply = r
        /\ p.results = <<>> /\ Len(p.results) <= Len(p.reply)
    <2>1. <<>> \in Seq(Outcomes) /\ Len(<<>>) = 0
      OBVIOUS
    <2> QED BY <1>6, <1>8, <2>1 DEF Positions
  <1>10. \/ seq = 0 /\ messages = <<>>
         \/ /\ seq \in DOMAIN T /\ TurnOver(T[seq]) /\ messages = AfterTurn(T[seq])
            /\ T[seq] \in Positions /\ Len(T[seq].messages) < seq
    BY <1>3 DEF Stands, Walked
  <1>11. Len(p.messages) < n /\ Len(p.messages) < MaxSteps
    <2>1. CASE seq = 0 /\ messages = <<>>
      BY <1>2, <1>3, <1>6, <1>9, <2>1
    <2>2. CASE /\ seq \in DOMAIN T /\ TurnOver(T[seq]) /\ messages = AfterTurn(T[seq])
               /\ T[seq] \in Positions /\ Len(T[seq].messages) < seq
      <3>1. Len(messages) = Len(T[seq].messages) + 1 /\ Len(T[seq].messages) \in Nat
        BY <2>2 DEF Positions, AfterTurn
      <3> QED BY <1>2, <1>3, <1>6, <1>9, <2>2, <3>1
    <2> QED BY <1>10, <2>1, <2>2
  <1>12. n = 1 <=> seq = 0
    BY <1>2, <1>6
  <1>13. seq # 0 => seq \in DOMAIN T /\ n # 1 /\ n - 1 = seq /\ TurnOver(T[n - 1]) /\ messages = AfterTurn(T[n - 1])
    BY <1>2, <1>6, <1>10
  <1>14. n \in DOMAIN T => Opened(T, n, T[n])
    <2>1. n \in DOMAIN T => Moved(T, n, T[n])
      BY DEF Walked
    <2> QED BY <1>12, <1>13, <2>1 DEF Moved, Closed, Answered, TurnOver, Calling
  <1>15. n \in DOMAIN T => T[n] = p
    <2> SUFFICES ASSUME n \in DOMAIN T PROVE T[n] = p
      OBVIOUS
    <2>1. /\ T[n].messages = messages /\ T[n].results = <<>>
          /\ messages \in DOMAIN said /\ said[messages] = T[n].reply
      BY <1>10, <1>12, <1>13, <1>14 DEF Opened
    <2>2. T[n].reply = r /\ T[n] \in Positions
      BY <1>1, <2>1 DEF Says, Walked
    <2> QED BY <1>9, <2>1, <2>2, SamePosition
  <1>16. n \notin DOMAIN ledger
    <2>1. CASE n \in DOMAIN T
      BY <1>14, <2>1 DEF Opened
    <2>2. CASE n \notin DOMAIN T
      BY <2>2 DEF Walked, Typed, TypeOK
    <2> QED BY <2>1, <2>2
  <1>17. Moved(T, n, p)'
    <2>1. Opened(T, n, p)'
      BY <1>3, <1>4, <1>9, <1>10, <1>12, <1>13, <1>16 DEF Opened
    <2> QED BY <2>1 DEF Moved
  <1>18. \A c \in Nat \X Nat : seq \in DOMAIN T /\ Behind(c, T[seq]) => Behind(c, p)
    <2>1. ASSUME seq \in DOMAIN T
          PROVE  Len(messages) = Len(T[seq].messages) + 1 /\ Len(T[seq].messages) \in Nat
      <3>1. seq # 0
        BY <2>1 DEF Walked, Typed, TypeOK
      <3>2. messages = AfterTurn(T[seq]) /\ T[seq] \in Positions
        BY <1>10, <3>1
      <3> QED BY <3>2 DEF Positions, AfterTurn
    <2> QED BY <1>9, <2>1 DEF Behind
  <1>19. seq = 0 \/ seq \in DOMAIN T
    BY <1>10
  <1>20. \E T2 : Walked(T2)' /\ n \in DOMAIN T2 /\ T2[n] = p
    BY <1>2, <1>3, <1>5, <1>9, <1>11, <1>15, <1>17, <1>18, <1>19, WalkOn
  <1>21. PICK T2 : Walked(T2)' /\ n \in DOMAIN T2 /\ T2[n] = p
    BY <1>20
  <1>22. Stands(T2)'
    BY <1>3, <1>7, <1>21 DEF Stands, Asking
  <1> QED BY <1>2, <1>5, <1>16, <1>21, <1>22

(* The work ends where it ended.                                             *)
LEMMA ConcludeWalks ==
  ASSUME Typed, NEW T, Walked(T), Stands(T), Conclude
  PROVE  Kept /\ seq + 1 \notin DOMAIN ledger /\ \E T2 : Walked(T2)' /\ Stands(T2)'
  <1>1. PICK n : n = seq + 1
    OBVIOUS
  <1>2. /\ pc = "settling" /\ pc' = "ending" /\ results' = results /\ messages' = messages
        /\ reply = <<>> /\ reply' = reply /\ said' = said
        /\ ledger' = ledger /\ tokens' = tokens /\ seq' = n /\ DOMAIN steps' = DOMAIN steps \cup {n}
        /\ rows' = rows
    BY <1>1, UpsertNumbers DEF Conclude, EndWith, GoTo, consent
  <1>3. Kept
    BY <1>2 DEF Kept, OnFile, SettledAs
  <1>4. PICK p : p = Here
    OBVIOUS
  <1>5. seq \in DOMAIN T /\ T[seq] = p /\ p.reply = <<>>
    BY <1>2, <1>4 DEF Stands, Here
  <1>6. /\ p \in Positions /\ Len(p.results) <= Len(p.reply) /\ Len(p.messages) < seq
        /\ Len(p.messages) < MaxSteps /\ seq \in Nat /\ seq # 0 /\ Len(p.messages) \in Nat
    BY <1>5 DEF Walked, Typed, TypeOK, Positions
  <1>7. Len(p.messages) < n /\ n # 1 /\ n - 1 = seq
    BY <1>1, <1>6
  <1>8. n \in DOMAIN T => Closed(T, n, T[n])
    <2>1. n \in DOMAIN T => Moved(T, n, T[n])
      BY DEF Walked
    <2> QED BY <1>5, <1>7, <2>1 DEF Moved, Opened, Answered, TurnOver, Calling
  <1>9. n \notin DOMAIN ledger
    <2>1. CASE n \in DOMAIN T
      BY <1>8, <2>1 DEF Closed
    <2>2. CASE n \notin DOMAIN T
      BY <2>2 DEF Walked, Typed, TypeOK
    <2> QED BY <2>1, <2>2
  <1>10. n \in DOMAIN T => T[n] = p
    BY <1>5, <1>7, <1>8 DEF Closed
  <1>11. Moved(T, n, p)'
    BY <1>2, <1>5, <1>7, <1>9 DEF Moved, Closed
  <1>12. \E T2 : Walked(T2)' /\ n \in DOMAIN T2 /\ T2[n] = p
    <2>1. \A c \in Nat \X Nat : seq \in DOMAIN T /\ Behind(c, T[seq]) => Behind(c, p)
      BY <1>5
    <2> QED BY <1>1, <1>2, <1>3, <1>5, <1>6, <1>7, <1>10, <1>11, <2>1, WalkOn
  <1>13. PICK T2 : Walked(T2)' /\ n \in DOMAIN T2 /\ T2[n] = p
    BY <1>12
  <1>14. Stands(T2)'
    BY <1>2 DEF Stands, Asking
  <1> QED BY <1>1, <1>3, <1>9, <1>13, <1>14

(* A call that cannot be tried fails again.                                  *)
LEMMA FailureWalks ==
  ASSUME Typed, NEW T, Walked(T), Stands(T), FailedResult
  PROVE  Kept /\ seq + 1 \notin DOMAIN ledger /\ \E T2 : Walked(T2)' /\ Stands(T2)'
  <1>1. PICK n : n = seq + 1
    OBVIOUS
  <1>2. PICK c : c = CallInHand
    OBVIOUS
  <1>3. PICK a : a = ActionInHand
    OBVIOUS
  <1>4. /\ pc = "settling" /\ pc' = "settling" /\ results' = Append(results, "failed")
        /\ messages' = messages /\ reply' = reply /\ said' = said /\ InHand /\ Wrong(a)
        /\ ledger' = ledger /\ tokens' = tokens /\ seq' = n /\ DOMAIN steps' = DOMAIN steps \cup {n}
        /\ rows' = rows /\ status' = status /\ verdict' = verdict
    BY <1>1, <1>3, UpsertNumbers DEF FailedResult, Answer, consent, Unsound, Wrong
  <1>5. Kept
    BY <1>4 DEF Kept, OnFile, SettledAs
  <1>6. seq \in DOMAIN T /\ T[seq] = Here
    BY <1>4 DEF Stands
  <1>7. ASSUME n \in DOMAIN T
        PROVE  \E other \in Outcomes : Settles(n, c, a, other)
    BY <1>1, <1>2, <1>3, <1>4, <1>6, <1>7, OnRecord
  <1>8. n \notin DOMAIN ledger
    <2>1. CASE n \in DOMAIN T
      BY <1>4, <1>7, <2>1 DEF Settles
    <2>2. CASE n \notin DOMAIN T
      BY <2>2 DEF Walked, Typed, TypeOK
    <2> QED BY <2>1, <2>2
  <1>9. Settles(n, c, a, "failed")'
    BY <1>4, <1>8 DEF Settles
  <1>10. \A other : Settles(n, c, a, other) => other = "failed"
    BY <1>4 DEF Settles
  <1>11. "failed" \in Outcomes
    BY DEF Outcomes
  <1>12. \E T2 : Walked(T2)' /\ Stands(T2)'
    BY <1>1, <1>2, <1>3, <1>4, <1>5, <1>6, <1>9, <1>10, <1>11, AnswerWalks
  <1> QED BY <1>1, <1>5, <1>8, <1>12

(* A call that was denied is denied again.                                   *)
LEMMA DenialWalks ==
  ASSUME Typed, NEW T, Walked(T), Stands(T), RecordDenial
  PROVE  Kept /\ seq + 1 \notin DOMAIN ledger /\ \E T2 : Walked(T2)' /\ Stands(T2)'
  <1>1. PICK n : n = seq + 1
    OBVIOUS
  <1>2. PICK c : c = CallInHand
    OBVIOUS
  <1>3. PICK a : a = ActionInHand
    OBVIOUS
  <1>4. /\ pc = "denied" /\ pc' = "settling" /\ results' = Append(results, "denied")
        /\ messages' = messages /\ reply' = reply /\ said' = said
        /\ ledger' = ledger /\ tokens' = tokens /\ seq' = n /\ DOMAIN steps' = DOMAIN steps \cup {n}
        /\ rows' = rows /\ status' = status /\ verdict' = verdict
    BY <1>1, UpsertNumbers DEF RecordDenial, Answer, GoTo, consent
  <1>5. Kept
    BY <1>4 DEF Kept, OnFile, SettledAs
  <1>6. /\ seq \in DOMAIN T /\ T[seq] = Here /\ InHand /\ a \in Irreversible /\ ~Wrong(a)
        /\ OnFile(c, "denied")
    BY <1>2, <1>3, <1>4 DEF Stands, Asking, Unsound, Wrong
  <1>7. ASSUME n \in DOMAIN T
        PROVE  \E other \in Outcomes : Settles(n, c, a, other)
    BY <1>1, <1>2, <1>3, <1>6, <1>7, OnRecord
  <1>8. n \notin DOMAIN ledger
    <2>1. CASE n \in DOMAIN T
      BY <1>6, <1>7, <2>1 DEF Settles, OnFile, SettledAs
    <2>2. CASE n \notin DOMAIN T
      BY <2>2 DEF Walked, Typed, TypeOK
    <2> QED BY <2>1, <2>2
  <1>9. Settles(n, c, a, "denied")'
    BY <1>4, <1>6, <1>8 DEF Settles, OnFile, SettledAs
  <1>10. \A other : Settles(n, c, a, other) => other = "denied"
    BY <1>6, <1>8 DEF Settles
  <1>11. "denied" \in Outcomes
    BY DEF Outcomes
  <1>12. \E T2 : Walked(T2)' /\ Stands(T2)'
    BY <1>1, <1>2, <1>3, <1>4, <1>5, <1>6, <1>9, <1>10, <1>11, AnswerWalks
  <1> QED BY <1>1, <1>5, <1>8, <1>12

(* A call that was carried out is found in the ledger; one that was not is   *)
(* the next of the log.                                                      *)
LEMMA InvokeWalks ==
  ASSUME Typed, NEW T, Walked(T), Stands(T), Invoke
  PROVE  /\ Kept /\ \E T2 : Walked(T2)' /\ Stands(T2)'
         /\ seq \in DOMAIN T /\ T[seq] = Here /\ InHand
         /\ ActionInHand \in Irreversible => pc = "approved"
         /\ seq + 1 \in DOMAIN ledger' /\ ledger'[seq + 1].call = CallInHand
         /\ ledger'[seq + 1].action = ActionInHand
         /\ seq + 1 \in DOMAIN ledger => ledger' = ledger
         /\ seq + 1 \notin DOMAIN ledger =>
               /\ seq + 1 \notin DOMAIN steps
               /\ \E ok \in BOOLEAN :
                    ledger' = Put(ledger, seq + 1, [call |-> CallInHand, action |-> ActionInHand, ok |-> ok])
         /\ ledger'[seq + 1].ok \in BOOLEAN /\ AppendStep(ToolStep(ledger'[seq + 1].ok))
  <1>1. PICK n : n = seq + 1
    OBVIOUS
  <1>2. PICK c : c = CallInHand
    OBVIOUS
  <1>3. PICK a : a = ActionInHand
    OBVIOUS
  <1>4. PICK ok \in BOOLEAN :
          /\ n \in DOMAIN ledger => ok = ledger[n].ok
          /\ ledger' = IF n \in DOMAIN ledger THEN ledger
                       ELSE Put(ledger, n, [call |-> c, action |-> a, ok |-> ok])
          /\ AppendStep(ToolStep(ok))
          /\ results' = Append(results, IF ok THEN "ok" ELSE "failed")
    BY <1>1, <1>2, <1>3 DEF Invoke, Key, Answer
  <1>5. /\ pc' = "settling" /\ messages' = messages /\ reply' = reply /\ said' = said
        /\ tokens' = tokens /\ seq' = n /\ DOMAIN steps' = DOMAIN steps \cup {n}
        /\ rows' = rows /\ status' = status /\ verdict' = verdict
    BY <1>1, <1>4, UpsertNumbers DEF Invoke, GoTo, consent
  <1>6. /\ seq \in DOMAIN T /\ T[seq] = Here /\ InHand /\ ~Wrong(a)
        /\ \/ pc = "settling" /\ a \in Plain
           \/ pc = "approved"
        /\ a \in Irreversible => pc = "approved" /\ OnFile(c, "approved")
    <2>1. CASE pc = "settling" /\ InHand /\ ActionInHand \in Plain
      BY <1>2, <1>3, <2>1, CallsAssumption DEF Stands, Wrong
    <2>2. CASE pc = "approved"
      BY <1>2, <1>3, <2>2 DEF Stands, Asking, Unsound, Wrong
    <2> QED BY <2>1, <2>2 DEF Invoke
  <1>7. ASSUME n \in DOMAIN T
        PROVE  \E other \in Outcomes : Settles(n, c, a, other)
    BY <1>1, <1>2, <1>3, <1>6, <1>7, OnRecord
  <1>8. n \in DOMAIN ledger => ledger[n].call = c /\ ledger[n].action = a
    <2> SUFFICES ASSUME n \in DOMAIN ledger PROVE ledger[n].call = c /\ ledger[n].action = a
      OBVIOUS
    <2>1. n \in DOMAIN T
      BY DEF Walked, Typed, TypeOK
    <2> QED BY <1>6, <1>7, <2>1 DEF Settles
  <1>9. n \notin DOMAIN ledger => n \notin DOMAIN T /\ n \notin DOMAIN steps
    <2>1. ASSUME n \notin DOMAIN ledger, n \in DOMAIN T PROVE FALSE
      <3>1. PICK other \in Outcomes : Settles(n, c, a, other)
        BY <1>7, <2>1
      <3> QED BY <1>6, <2>1, <3>1 DEF Settles, OnFile, SettledAs
    <2> QED BY <2>1 DEF Walked
  <1>10. /\ n \in DOMAIN ledger' /\ ledger'[n].call = c /\ ledger'[n].action = a /\ ledger'[n].ok = ok
         /\ \A m \in DOMAIN ledger' : \/ m \in DOMAIN ledger /\ ledger'[m] = ledger[m]
                                      \/ m = n /\ n \notin DOMAIN T /\ ledger'[n].call = c
         /\ \A m \in DOMAIN ledger : m \in DOMAIN ledger' /\ ledger'[m] = ledger[m]
    <2>1. CASE n \in DOMAIN ledger
      BY <1>4, <1>8, <2>1
    <2>2. CASE n \notin DOMAIN ledger
      BY <1>4, <1>9, <2>2 DEF Put
    <2> QED BY <2>1, <2>2
  <1>11. Kept
    <2>1. \A m \in DOMAIN steps : /\ m \in DOMAIN ledger <=> m \in DOMAIN ledger'
                                  /\ m \in DOMAIN ledger => ledger'[m] = ledger[m]
      BY <1>10 DEF Walked
    <2> QED BY <1>5, <2>1 DEF Kept, OnFile, SettledAs
  <1>12. PICK result : result = IF ok THEN "ok" ELSE "failed"
    OBVIOUS
  <1>13. Settles(n, c, a, result)'
    BY <1>5, <1>6, <1>10, <1>12 DEF Settles, OnFile, SettledAs
  <1>14. \A other : n \in DOMAIN T /\ Settles(n, c, a, other) => other = result
    BY <1>4, <1>9, <1>12 DEF Settles
  <1>15. result \in Outcomes
    BY <1>12 DEF Outcomes
  <1>16. \E T2 : Walked(T2)' /\ Stands(T2)'
    BY <1>1, <1>2, <1>3, <1>4, <1>5, <1>6, <1>10, <1>11, <1>12, <1>13, <1>14, <1>15, AnswerWalks
  <1>17. AppendStep(ToolStep(ledger'[n].ok)) /\ ledger'[n].ok \in BOOLEAN
    BY <1>4, <1>10
  <1>18. n \notin DOMAIN ledger =>
           \E okay \in BOOLEAN : ledger' = Put(ledger, n, [call |-> c, action |-> a, ok |-> okay])
    BY <1>4
  <1> QED BY <1>1, <1>2, <1>3, <1>4, <1>6, <1>9, <1>10, <1>11, <1>16, <1>17, <1>18

(* The steps that leave the log alone.                                       *)
Aloof ==
  \/ StartAttempt \/ Exhaust \/ Refused \/ CreateToken \/ RequestApproval \/ Wake
  \/ NextTurn \/ End \/ Return \/ Crash \/ Ceiling
  \/ \E c \in CallIds : Decide(c) \/ Deliver(c) \/ CompleteToken(c) \/ TokenTimesOut(c)

(* They leave the walk alone, and the attempt stands on it.                  *)
LEMMA AloofKeeps ==
  ASSUME Typed, Aloof \/ UNCHANGED vars
  PROVE  Kept /\ steps' = steps /\ ledger' = ledger /\ said' = said /\ cost' = cost
  <1>1. steps' = steps /\ ledger' = ledger /\ said' = said /\ cost' = cost
    BY DEF Aloof, StartAttempt, Exhaust, Refused, CreateToken, RequestApproval, Wake, NextTurn, End,
           Return, Crash, Ceiling, Decide, Deliver, CompleteToken, TokenTimesOut, vars
  <1> DEFINE AnswersKept ==
        \A c \in DOMAIN tokens : tokens[c] \in Decided => c \in DOMAIN tokens' /\ tokens'[c] = tokens[c]
  <1> DEFINE RowsKept ==
        \A c \in DOMAIN rows : rows[c].status # "pending" => c \in DOMAIN rows' /\ rows'[c] = rows[c]
  <1>2. AnswersKept
    <2>1. CASE tokens' = tokens
      BY <2>1
    <2>2. CASE CreateToken
      BY <2>2 DEF CreateToken, Issued, Put
    <2>3. ASSUME NEW c \in CallIds, Deliver(c) PROVE AnswersKept
      BY <2>3 DEF Deliver, Decided
    <2>4. ASSUME NEW c \in CallIds, TokenTimesOut(c) PROVE AnswersKept
      BY <2>4 DEF TokenTimesOut, Decided
    <2>5. ASSUME NEW c \in CallIds, CompleteToken(c) PROVE AnswersKept
      BY <2>5 DEF CompleteToken, Decided
    <2> QED BY <2>1, <2>2, <2>3, <2>4, <2>5 DEF Aloof, StartAttempt, Exhaust, Refused,
               RequestApproval, Wake, NextTurn, End, Return, Crash, Ceiling, Decide, vars, consent
  <1>3. RowsKept
    <2>1. CASE rows' = rows
      BY <2>1
    <2>2. CASE RequestApproval
      BY <2>2 DEF RequestApproval, Put
    <2>3. CASE Wake
      <3>1. PICK c : c = CallInHand
        OBVIOUS
      <3>2. rows' = rows \/ (rows[c].status = "pending" /\ rows' = [rows EXCEPT ![c].status = tokens[c]])
        BY <2>3, <3>1 DEF Wake, Settled
      <3> QED BY <3>2
    <2>4. ASSUME NEW c \in CallIds, Decide(c) PROVE RowsKept
      BY <2>4 DEF Decide, Undecided
    <2> QED BY <2>1, <2>2, <2>3, <2>4 DEF Aloof, StartAttempt, Exhaust, Refused, CreateToken,
               NextTurn, End, Return, Crash, Ceiling, Deliver, CompleteToken, TokenTimesOut, vars, consent
  <1>4. ASSUME NEW c, NEW answer \in Decided, OnFile(c, answer) PROVE OnFile(c, answer)'
    BY <1>2, <1>3, <1>4 DEF OnFile, SettledAs
  <1> QED BY <1>1, <1>4 DEF Kept

(* An attempt that has a call in hand and does nothing keeps it.             *)
LEMMA StandsStill ==
  ASSUME Typed, NEW T, Stands(T), Kept, UNCHANGED <<pc, seq, messages, reply, results>>,
         DOMAIN tokens \subseteq DOMAIN tokens', DOMAIN rows \subseteq DOMAIN rows'
  PROVE  Stands(T)'
  <1>1. Here' = Here /\ CallInHand' = CallInHand /\ ActionInHand' = ActionInHand
        /\ (InHand <=> InHand') /\ (Unsound <=> Unsound') /\ (Asking <=> Asking')
    BY DEF Here, CallInHand, ActionInHand, InHand, Unsound, Asking
  <1>2. pc \in {"denied", "approved"} => OnFile(CallInHand, pc)'
    <2> SUFFICES ASSUME pc \in {"denied", "approved"} PROVE OnFile(CallInHand, pc)'
      OBVIOUS
    <2>1. PICK c : c = CallInHand
      OBVIOUS
    <2>2. PICK answer \in Decided : answer = pc
      BY DEF Decided
    <2>3. OnFile(c, answer)'
      BY <2>1, <2>2 DEF Stands, Kept
    <2> QED BY <1>1, <2>1, <2>2, <2>3 DEF OnFile, SettledAs
  <1>3. pc \in {"down", "done"} => seq' = 0 /\ messages' = <<>>
    BY DEF Stands
  <1>4. pc = "bounds" =>
          \/ seq' = 0 /\ messages' = <<>>
          \/ seq' \in DOMAIN T /\ TurnOver(T[seq']) /\ messages' = AfterTurn(T[seq'])
    BY DEF Stands
  <1>5. pc = "settling" \/ Asking => seq' \in DOMAIN T /\ T[seq'] = Here'
    BY <1>1 DEF Stands
  <1>6. Asking => /\ InHand' /\ ActionInHand' \in Irreversible /\ ~Unsound'
                  /\ CallInHand' \in DOMAIN tokens'
    BY <1>1 DEF Stands
  <1>7. pc \in {"waiting", "denied", "approved"} => CallInHand' \in DOMAIN rows'
    BY <1>1 DEF Stands
  <1>8. pc' = pc
    OBVIOUS
  <1> QED BY <1>1, <1>2, <1>3, <1>4, <1>5, <1>6, <1>7, <1>8 DEF Stands

(* The steps aside of the log leave the attempt on the walk.                 *)
LEMMA AloofStands ==
  ASSUME Typed, NEW T, Stands(T), Aloof \/ UNCHANGED vars
  PROVE  Stands(T)'
  <1>0. Kept
    BY AloofKeeps
  <1>1. CASE StartAttempt
    BY <1>1 DEF StartAttempt, GoTo, position, Stands, Asking
  <1>2. CASE Exhaust \/ Refused \/ End
    BY <1>2 DEF Exhaust, Refused, End, EndWith, GoTo, Stands, Asking
  <1>3. CASE Return \/ Crash
    BY <1>3 DEF Return, Crash, Forget, GoTo, Stands, Asking
  <1>4. CASE NextTurn
    <2>1. /\ seq' = seq /\ pc' = "bounds" /\ seq \in DOMAIN T /\ T[seq] = Here
          /\ messages' = AfterTurn(Here) /\ reply \notin {<<>>, Refusal} /\ ~InHand
      BY <1>4 DEF NextTurn, GoTo, Stands, Here, AfterTurn
    <2>2. TurnOver(Here)
      BY <2>1 DEF TurnOver, Here, InHand
    <2> QED BY <2>1, <2>2 DEF Stands, Asking
  <1>5. CASE CreateToken
    <2>1. /\ pc' = "asking" /\ UNCHANGED <<seq, messages, reply, results>>
          /\ InHand /\ ActionInHand \in Irreversible /\ ~Unsound
          /\ seq \in DOMAIN T /\ T[seq] = Here
      BY <1>5 DEF CreateToken, GoTo, position, Stands
    <2>2. CallInHand \in DOMAIN tokens'
      BY <1>5 DEF CreateToken, Issued, Put
    <2>3. Here' = Here /\ CallInHand' = CallInHand /\ ActionInHand' = ActionInHand
          /\ InHand' /\ ~Unsound'
      BY <2>1 DEF Here, CallInHand, ActionInHand, InHand, Unsound
    <2> QED BY <2>1, <2>2, <2>3 DEF Stands, Asking
  <1>6. CASE RequestApproval
    <2>1. /\ pc' = "waiting" /\ UNCHANGED <<seq, messages, reply, results, tokens>>
          /\ InHand /\ ActionInHand \in Irreversible /\ ~Unsound
          /\ seq \in DOMAIN T /\ T[seq] = Here /\ CallInHand \in DOMAIN tokens
      BY <1>6 DEF RequestApproval, GoTo, position, Stands, Asking
    <2>2. CallInHand \in DOMAIN rows'
      BY <1>6 DEF RequestApproval, Put
    <2>3. Here' = Here /\ CallInHand' = CallInHand /\ ActionInHand' = ActionInHand
          /\ InHand' /\ ~Unsound'
      BY <2>1 DEF Here, CallInHand, ActionInHand, InHand, Unsound
    <2> QED BY <2>1, <2>2, <2>3 DEF Stands, Asking
  <1>7. CASE Wake
    <2>1. /\ pc = "waiting" /\ pc' = NextPlace(tokens[CallInHand])
          /\ UNCHANGED <<seq, messages, reply, results, tokens>>
          /\ tokens[CallInHand] # "waiting"
          /\ InHand /\ ActionInHand \in Irreversible /\ ~Unsound
          /\ seq \in DOMAIN T /\ T[seq] = Here
          /\ CallInHand \in DOMAIN tokens /\ CallInHand \in DOMAIN rows
      BY <1>7 DEF Wake, GoTo, Stands, Asking
    <2>2. tokens[CallInHand] \in Answers
      BY <2>1 DEF Typed, TypeOK
    <2>3. DOMAIN rows' = DOMAIN rows
      BY <1>7 DEF Wake, Settled
    <2>4. Here' = Here /\ CallInHand' = CallInHand /\ ActionInHand' = ActionInHand
          /\ InHand' /\ ~Unsound'
      BY <2>1 DEF Here, CallInHand, ActionInHand, InHand, Unsound
    <2>5. CASE NextPlace(tokens[CallInHand]) = "ending"
      BY <2>1, <2>5 DEF Stands, Asking
    <2>6. CASE NextPlace(tokens[CallInHand]) # "ending"
      <3>1. pc' = tokens[CallInHand] /\ tokens[CallInHand] \in {"approved", "denied"}
        BY <2>1, <2>2, <2>6 DEF NextPlace, Answers
      <3>2. PICK c \in DOMAIN rows : c = CallInHand
        BY <2>1
      <3>3. rows'[c].status # "pending"
        BY <1>7, <2>1, <3>1, <3>2 DEF Wake, Settled, Typed, TypeOK
      <3>4. OnFile(CallInHand, pc)'
        BY <2>1, <2>3, <2>4, <3>1, <3>2, <3>3 DEF OnFile, SettledAs
      <3> QED BY <2>1, <2>3, <2>4, <3>1, <3>4 DEF Stands, Asking
    <2> QED BY <2>5, <2>6
  <1>8. CASE Ceiling \/ UNCHANGED vars
    <2>1. UNCHANGED <<pc, seq, messages, reply, results, tokens, rows>>
      BY <1>8 DEF Ceiling, position, consent, vars
    <2> QED BY <1>0, <2>1, StandsStill
  <1>9. ASSUME NEW c \in CallIds, Decide(c) \/ Deliver(c) \/ CompleteToken(c) \/ TokenTimesOut(c)
        PROVE  Stands(T)'
    <2>1. UNCHANGED <<pc, seq, messages, reply, results>>
          /\ DOMAIN tokens \subseteq DOMAIN tokens' /\ DOMAIN rows \subseteq DOMAIN rows'
      BY <1>9 DEF Decide, Deliver, CompleteToken, TokenTimesOut, position
    <2> QED BY <1>0, <2>1, StandsStill
  <1> QED BY <1>1, <1>2, <1>3, <1>4, <1>5, <1>6, <1>7, <1>8, <1>9 DEF Aloof

(* They ask where the attempt stands, and let no run succeed that did not    *)
(* walk to the end.                                                          *)
LEMMA AloofSeen ==
  ASSUME Typed, NEW T, Walked(T), Stands(T), Aloof \/ UNCHANGED vars
  PROVE  Seen(T)'
  <1>1. Seen(T)
    BY DEF Walked
  <1>2. ASSUME NEW c \in DOMAIN tokens' PROVE \E n \in DOMAIN T : Asks(T[n], c)
    <2>1. CASE c \in DOMAIN tokens
      BY <1>1, <2>1 DEF Seen
    <2>2. CASE c \notin DOMAIN tokens
      <3>1. CreateToken
        BY <1>2, <2>2 DEF Aloof, StartAttempt, Exhaust, Refused, RequestApproval, Wake, NextTurn,
           End, Return, Crash, Ceiling, Decide, Deliver, CompleteToken, TokenTimesOut, vars, consent
      <3>2. c = CallInHand
        BY <1>2, <2>2, <3>1 DEF CreateToken, Issued, Put
      <3>3. /\ seq \in DOMAIN T /\ T[seq] = Here
            /\ InHand /\ ActionInHand \in Irreversible /\ ~Unsound
        BY <3>1 DEF CreateToken, Stands
      <3>4. Len(results) < Len(reply) /\ reply \notin {<<>>, Refusal}
        BY <3>3, HereTyped DEF InHand
      <3>5. Asks(Here, c)
        BY <3>2, <3>3, <3>4 DEF Asks, Here, Calling, CallAt, ActionAt, CallInHand, ActionInHand,
           Wrong, Unsound
      <3> QED BY <3>3, <3>5
    <2> QED BY <2>1, <2>2
  <1>3. "succeeded" \in {status', verdict'} => "succeeded" \in {status, verdict}
    BY DEF Aloof, StartAttempt, Exhaust, Refused, CreateToken, RequestApproval, Wake, NextTurn, End,
       Return, Crash, Ceiling, Decide, Deliver, CompleteToken, TokenTimesOut, vars, position,
       EndWith, Forget
  <1> QED BY <1>1, <1>2, <1>3 DEF Seen

(* Every step is one aside of the log or one of its own.                     *)
LEMMA Steps ==
  ASSUME [Next]_vars
  PROVE  \/ Aloof \/ UNCHANGED vars
         \/ AskModel \/ Conclude \/ FailedResult \/ RecordDenial \/ Invoke
  BY DEF Next, Attempt, Aloof

(* The log is one walk.                                                      *)
LEMMA NextWalked ==
  ASSUME Typed, \E T : Walked(T) /\ Stands(T), [Next]_vars
  PROVE  Kept /\ \E T : Walked(T)' /\ Stands(T)'
  <1>1. PICK T : Walked(T) /\ Stands(T)
    OBVIOUS
  <1>2. CASE Aloof \/ UNCHANGED vars
    <2>1. Kept /\ steps' = steps /\ ledger' = ledger
      BY <1>2, AloofKeeps
    <2>2. Walked(T)'
      BY <1>1, <1>2, <2>1, Aside, AloofSeen
    <2>3. Stands(T)'
      BY <1>1, <1>2, AloofStands
    <2> QED BY <2>1, <2>2, <2>3
  <1>3. CASE AskModel
    BY <1>1, <1>3, AskWalks
  <1>4. CASE Conclude
    BY <1>1, <1>4, ConcludeWalks
  <1>5. CASE FailedResult
    BY <1>1, <1>5, FailureWalks
  <1>6. CASE RecordDenial
    BY <1>1, <1>6, DenialWalks
  <1>7. CASE Invoke
    BY <1>1, <1>7, InvokeWalks
  <1> QED BY <1>2, <1>3, <1>4, <1>5, <1>6, <1>7, Steps

-----------------------------------------------------------------------------
(* The log. *)

(* Two ways of adding up the same costs agree.                               *)
LEMMA SumsAgree ==
  ASSUME NEW k \in Nat, NEW f, NEW g, NEW s, Sums(f, k, s), Sums(g, k, s)
  PROVE  f[k] = g[k]
  <1> DEFINE Bad == {n \in 0..k : f[n] # g[n]}
  <1>1. Bad = {}
    <2> SUFFICES ASSUME Bad # {} PROVE FALSE
      OBVIOUS
    <2>1. PICK n \in Bad : \A m \in Bad : ~(<<m, n>> \in OpToRel(<, Nat))
      <3>1. Bad \in SUBSET Nat
        OBVIOUS
      <3> HIDE DEF Bad
      <3> QED BY <3>1, NatLessThanWellFounded, WFMin
    <2>2. n \in 0..k /\ f[n] # g[n] /\ n # 0
      BY DEF Sums
    <2>3. n - 1 \in 0..k /\ n \in 1..k /\ <<n - 1, n>> \in OpToRel(<, Nat)
      BY <2>2 DEF OpToRel
    <2>4. f[n - 1] = g[n - 1]
      BY <2>1, <2>3
    <2> QED BY <2>2, <2>3, <2>4 DEF Sums
  <1> QED BY <1>1

(* What the costs add up to is what the run has cost.                        *)
LEMMA CostsRead ==
  ASSUME Logged \in Nat, NEW g, Summed(g)
  PROVE  CostsAddUp
  <1> DEFINE f == CHOOSE f : f = [n \in 0..Logged |-> IF n = 0 THEN 0 ELSE f[n - 1] + steps[n].cost]
  <1>1. g = [n \in 0..Logged |-> IF n = 0 THEN 0 ELSE g[n - 1] + steps[n].cost]
    BY DEF Summed, Sums
  <1>2. f = [n \in 0..Logged |-> IF n = 0 THEN 0 ELSE f[n - 1] + steps[n].cost]
    BY <1>1
  <1> HIDE DEF f
  <1>3. Sums(f, Logged, steps)
    BY <1>2 DEF Sums
  <1>4. Sums(g, Logged, steps)
    BY DEF Summed
  <1>5. f[Logged] = g[Logged]
    BY <1>3, <1>4, SumsAgree
  <1>6. f[Logged] = cost
    BY <1>5 DEF Summed
  <1> QED BY <1>6 DEF CostsAddUp, f

(* An upsert extends the log by its step or describes an old one anew.       *)
LEMMA UpsertLog ==
  ASSUME Typed, seq \in 0..Logged, NEW step \in Entries, AppendStep(step)
  PROVE  /\ Logged' \in Nat /\ DOMAIN steps' = 1..Logged'
         /\ DOMAIN steps' = DOMAIN steps \cup {seq + 1}
         /\ Logged' = IF seq + 1 \in 1..Logged THEN Logged ELSE Logged + 1
         /\ \A n \in DOMAIN steps' : steps'[n] \in Entries
         /\ \A n \in DOMAIN steps : n # seq + 1 => steps'[n] = steps[n]
         /\ steps'[seq + 1].kind = step.kind /\ steps'[seq + 1].call = step.call
         /\ steps'[seq + 1].ok = step.ok
         /\ steps'[seq + 1].cost =
              step.cost + (IF seq + 1 \in DOMAIN steps THEN steps[seq + 1].cost ELSE 0)
  <1>1. PICK n : n = seq + 1
    OBVIOUS
  <1>2. PICK before : before = IF n \in DOMAIN steps THEN steps[n].cost ELSE 0
    OBVIOUS
  <1>3. PICK e : e = [step EXCEPT !.cost = @ + before]
    OBVIOUS
  <1>4. before \in Nat
    BY <1>2 DEF Typed, Entries
  <1>5. /\ e \in Entries /\ e.kind = step.kind /\ e.call = step.call /\ e.ok = step.ok
        /\ e.cost = step.cost + before
    BY <1>3, <1>4 DEF Entries
  <1>6. steps' = Put(steps, n, e)
    BY <1>1, <1>2, <1>3 DEF AppendStep, Upserted
  <1>7. /\ DOMAIN steps' = DOMAIN steps \cup {n} /\ steps'[n] = e
        /\ \A m \in DOMAIN steps : m # n => steps'[m] = steps[m]
    BY <1>6 DEF Put
  <1>8. PICK k \in Nat : k = Logged
    BY DEF Typed
  <1>9. DOMAIN steps = 1..k
    BY <1>8 DEF Typed, TypeOK, Logged
  <1>10. PICK k2 \in Nat : k2 = IF n \in 1..k THEN k ELSE k + 1
    OBVIOUS
  <1>11. DOMAIN steps' = 1..k2
    BY <1>1, <1>7, <1>8, <1>9, <1>10
  <1>12. Logged' = k2
    <2>1. Cardinality(1..k2) = k2
      BY FS_Interval
    <2> QED BY <1>11, <2>1 DEF Logged
  <1>13. \A m \in DOMAIN steps' : steps'[m] \in Entries
    BY <1>5, <1>7 DEF Typed
  <1> QED BY <1>1, <1>2, <1>5, <1>7, <1>8, <1>10, <1>11, <1>12, <1>13

(* And its cost is added to the sum.                                         *)
LEMMA UpsertSums ==
  ASSUME Typed, seq \in 0..Logged, NEW step \in Entries, AppendStep(step),
         cost' = cost + step.cost, NEW g, Summed(g)
  PROVE  cost' \in Nat /\ \E h : Summed(h)'
  <1>1. PICK n : n = seq + 1
    OBVIOUS
  <1>2. PICK k \in Nat : k = Logged
    BY DEF Typed
  <1>3. PICK k2 \in Nat : k2 = Logged'
    BY UpsertLog
  <1>4. /\ DOMAIN steps = 1..k /\ n \in 1..(k + 1) /\ k2 = IF n \in 1..k THEN k ELSE k + 1
        /\ \A m \in 1..k : m # n => steps'[m] = steps[m]
        /\ steps'[n].cost = step.cost + (IF n \in 1..k THEN steps[n].cost ELSE 0)
    <2>1. DOMAIN steps = 1..k /\ n \in 1..(k + 1)
      BY <1>1, <1>2 DEF Typed, TypeOK, Logged
    <2> QED BY <1>1, <1>2, <1>3, <2>1, UpsertLog
  <1>5. /\ g \in [0..k -> Nat] /\ g[0] = 0 /\ g[k] = cost
        /\ \A m \in 1..k : g[m] = g[m - 1] + steps[m].cost
    BY <1>2 DEF Summed, Sums
  <1>6. step.cost \in Nat /\ \A m \in 1..k : steps[m].cost \in Nat
    BY <1>4 DEF Typed, Entries
  <1>7. PICK h : h = [m \in 0..k2 |-> IF m < n THEN g[m]
                                     ELSE IF m <= k THEN g[m] + step.cost ELSE g[k] + step.cost]
    OBVIOUS
  <1>8. k \in 0..k /\ g[k] \in Nat
    BY <1>5
  <1>9. h \in [0..k2 -> Nat]
    <2>1. ASSUME NEW m \in 0..k2
          PROVE  (IF m < n THEN g[m] ELSE IF m <= k THEN g[m] + step.cost ELSE g[k] + step.cost) \in Nat
      <3>1. m < n => m \in 0..k
        BY <1>4
      <3>2. m \in 0..k => g[m] \in Nat
        BY <1>5
      <3> QED BY <1>6, <1>8, <3>1, <3>2
    <2> QED BY <1>7, <2>1
  <1>10. h[0] = 0
    BY <1>4, <1>5, <1>7
  <1>11. h[k2] = cost'
    BY <1>4, <1>5, <1>6, <1>7
  <1>12. ASSUME NEW m \in 1..k2 PROVE h[m] = h[m - 1] + steps'[m].cost
    <2>1. m - 1 \in 0..k /\ m - 1 \in 0..k2 /\ m \in 0..k2 /\ g[m - 1] \in Nat
      BY <1>4, <1>5
    <2>2. CASE m < n
      <3>1. m \in 1..k /\ m # n /\ m - 1 < n
        BY <1>4, <2>2
      <3> QED BY <1>4, <1>5, <1>7, <2>1, <2>2, <3>1
    <2>3. CASE m = n /\ n \in 1..k
      <3>1. h[m] = g[m] + step.cost /\ h[m - 1] = g[m - 1]
        BY <1>7, <2>1, <2>3
      <3>2. g[m] = g[m - 1] + steps[m].cost /\ steps[m].cost \in Nat
        BY <1>5, <1>6, <2>3
      <3>3. steps'[m].cost = step.cost + steps[m].cost
        BY <1>4, <2>3
      <3> QED BY <1>6, <2>1, <3>1, <3>2, <3>3
    <2>4. CASE m = n /\ n \notin 1..k
      <3>1. m = k + 1 /\ h[m] = g[k] + step.cost /\ h[m - 1] = g[k]
        BY <1>4, <1>7, <2>1, <2>4
      <3>2. steps'[m].cost = step.cost
        BY <1>4, <1>6, <2>4
      <3> QED BY <3>1, <3>2
    <2>5. CASE m > n
      <3>1. m \in 1..k /\ m # n /\ ~(m - 1 < n) /\ m - 1 <= k
        BY <1>4, <2>5
      <3>2. h[m] = g[m] + step.cost /\ h[m - 1] = g[m - 1] + step.cost
        <4>1. ~(m < n) /\ m <= k
          BY <1>4, <2>5, <3>1
        <4>2. h[m] = g[m] + step.cost
          BY <1>7, <2>1, <4>1
        <4>3. h[m - 1] = g[m - 1] + step.cost
          BY <1>7, <2>1, <3>1
        <4> QED BY <4>2, <4>3
      <3>3. g[m] = g[m - 1] + steps[m].cost /\ steps[m].cost \in Nat /\ steps'[m] = steps[m]
        BY <1>4, <1>5, <1>6, <3>1
      <3> QED BY <1>6, <2>1, <3>2, <3>3
    <2> QED BY <1>4, <2>2, <2>3, <2>4, <2>5
  <1>13. Sums(h, k2, steps')
    BY <1>9, <1>10, <1>12 DEF Sums
  <1>14. Summed(h)'
    BY <1>3, <1>9, <1>11, <1>13 DEF Summed
  <1>15. cost' \in Nat
    BY <1>5, <1>6, <1>8
  <1> QED BY <1>14, <1>15

(* What the types say of the log.                                            *)
LogTyped ==
  /\ cost \in Nat /\ Logged \in Nat /\ DOMAIN steps = 1..Logged
  /\ DOMAIN ledger \subseteq DOMAIN steps
  /\ \A n \in DOMAIN steps : steps[n] \in Entries
  /\ \A n \in DOMAIN ledger : ledger[n].ok \in BOOLEAN /\ ledger[n].call \in Nat \X Nat

(* The call in hand is one of those a run can make.                          *)
LEMMA HandTyped ==
  ASSUME Typed, NEW T, Walked(T), seq \in DOMAIN T, T[seq] = Here, InHand
  PROVE  CallInHand \in CallIds /\ CallInHand \in Nat \X Nat
  <1>1. /\ Len(messages) \in Nat /\ Len(results) \in Nat /\ Len(reply) \in Nat
        /\ reply \in Replies \cup {<<>>} /\ Len(results) < Len(reply)
    BY HereTyped DEF InHand
  <1>2. Len(messages) < MaxSteps
    BY DEF Walked, Here
  <1>3. Len(reply) <= MaxCalls /\ MaxCalls \in Nat /\ MaxSteps \in Nat
    BY <1>1, TurnsAssumption, BoundsAssumption
  <1> QED BY <1>1, <1>2, <1>3 DEF CallInHand, CallIds

(* The log keeps its types, its sum, and what it says of the ledger and of   *)
(* denials.                                                                  *)
LEMMA NextLog ==
  ASSUME PInv, [Next]_vars
  PROVE  LogTyped' /\ (\E g : Summed(g)') /\ LogTellsTheLedger' /\ Denials'
  <1>1. PICK T : Walked(T) /\ Stands(T)
    BY DEF PInv
  <1>2. PICK g : Summed(g)
    BY DEF PInv
  <1>3. Typed /\ Denials /\ LogTellsTheLedger
    BY DEF PInv
  <1>4. /\ cost \in Nat /\ Logged \in Nat /\ DOMAIN steps = 1..Logged
        /\ DOMAIN ledger \subseteq DOMAIN steps
        /\ \A n \in DOMAIN steps : steps[n] \in Entries
        /\ \A n \in DOMAIN ledger : ledger[n].ok \in BOOLEAN /\ ledger[n].call \in Nat \X Nat
    BY <1>3 DEF Typed, TypeOK, Logged
  <1>5. Kept
    BY <1>1, <1>3, NextWalked
  <1>6. CASE Aloof \/ UNCHANGED vars
    <2>1. steps' = steps /\ ledger' = ledger /\ cost' = cost
      BY <1>3, <1>6, AloofKeeps
    <2>2. Logged' = Logged
      BY <2>1 DEF Logged
    <2>3. LogTyped'
      BY <1>4, <2>1, <2>2 DEF LogTyped
    <2>4. Summed(g)'
      BY <1>2, <2>1, <2>2 DEF Summed
    <2>5. LogTellsTheLedger'
      BY <1>3, <2>1 DEF LogTellsTheLedger
    <2>6. Denials'
      BY <1>3, <1>5, <2>1 DEF Denials, Kept, Decided
    <2> QED BY <2>3, <2>4, <2>5, <2>6
  <1>7. ASSUME NEW step \in Entries, AppendStep(step), seq \in 0..Logged, cost' = cost + step.cost,
               seq + 1 \notin DOMAIN ledger \/ step.kind = "tool_result",
               \A n \in DOMAIN ledger' :
                 \/ n \in DOMAIN ledger /\ n # seq + 1 /\ ledger'[n] = ledger[n]
                 \/ /\ n = seq + 1 /\ step.kind = "tool_result"
                    /\ ledger'[n].call = step.call /\ ledger'[n].ok = step.ok
                    /\ step.call \in Nat \X Nat /\ step.ok \in BOOLEAN,
               step.kind = "approval" =>
                 OnFile(step.call, "denied")
        PROVE  LogTyped' /\ (\E h : Summed(h)') /\ LogTellsTheLedger' /\ Denials'
    <2>1. /\ Logged' \in Nat /\ DOMAIN steps' = 1..Logged' /\ DOMAIN steps' = DOMAIN steps \cup {seq + 1}
          /\ \A n \in DOMAIN steps' : steps'[n] \in Entries
          /\ \A n \in DOMAIN steps : n # seq + 1 => steps'[n] = steps[n]
          /\ steps'[seq + 1].kind = step.kind /\ steps'[seq + 1].call = step.call
          /\ steps'[seq + 1].ok = step.ok
      BY <1>3, <1>7, UpsertLog
    <2>2. cost' \in Nat /\ \E h : Summed(h)'
      BY <1>2, <1>3, <1>7, UpsertSums
    <2>3. DOMAIN ledger' \subseteq DOMAIN steps'
      BY <1>4, <1>7, <2>1
    <2>4. \A n \in DOMAIN ledger' : ledger'[n].ok \in BOOLEAN /\ ledger'[n].call \in Nat \X Nat
      BY <1>4, <1>7
    <2>5. LogTyped'
      BY <2>1, <2>2, <2>3, <2>4 DEF LogTyped
    <2>6. LogTellsTheLedger'
      <3> SUFFICES ASSUME NEW n \in DOMAIN ledger'
                   PROVE  /\ steps'[n].kind = "tool_result" /\ steps'[n].call = ledger'[n].call
                          /\ steps'[n].ok = ledger'[n].ok
        BY DEF LogTellsTheLedger
      <3>1. CASE n \in DOMAIN ledger /\ n # seq + 1 /\ ledger'[n] = ledger[n]
        <4>1. n \in DOMAIN steps /\ steps'[n] = steps[n]
          BY <1>4, <2>1, <3>1
        <4> QED BY <1>3, <3>1, <4>1 DEF LogTellsTheLedger
      <3>2. CASE n = seq + 1 /\ step.kind = "tool_result" /\ ledger'[n].call = step.call
                 /\ ledger'[n].ok = step.ok
        BY <2>1, <3>2
      <3> QED BY <1>7, <3>1, <3>2
    <2>7. Denials'
      <3> SUFFICES ASSUME NEW n \in DOMAIN steps', steps'[n].kind = "approval"
                   PROVE  OnFile(steps[n].call, "denied")'
        BY DEF Denials
      <3>1. OnFile(steps'[n].call, "denied")
        <4>1. CASE n = seq + 1
          BY <1>7, <2>1, <4>1
        <4>2. CASE n # seq + 1
          BY <1>3, <2>1, <4>2 DEF Denials
        <4> QED BY <4>1, <4>2
      <3>2. PICK c : c = steps'[n].call
        OBVIOUS
      <3>3. OnFile(c, "denied")'
        BY <1>5, <3>1, <3>2 DEF Kept, Decided
      <3> QED BY <3>2, <3>3 DEF OnFile, SettledAs
    <2> QED BY <2>2, <2>5, <2>6, <2>7
  <1>8. seq \in DOMAIN T \/ seq = 0 => seq \in 0..Logged
    BY <1>1, <1>4 DEF Walked
  <1>9. /\ NoCall \in Nat \X Nat /\ 0 \in Nat /\ 1 \in Nat /\ TRUE \in BOOLEAN /\ FALSE \in BOOLEAN
        /\ "model_call" \in Kinds /\ "final" \in Kinds /\ "tool_result" \in Kinds
        /\ "approval" \in Kinds
    BY DEF NoCall, Kinds
  <1>10. CASE AskModel
    <2>1. PICK step : step = StepOf("model_call", NoCall, TRUE, 1) /\ AppendStep(step)
      BY <1>10, Zenon DEF AskModel
    <2>2. step \in Entries /\ step.kind = "model_call" /\ step.cost = 1
      <3>1. step = [kind |-> "model_call", call |-> NoCall, ok |-> TRUE, cost |-> 1]
        BY <2>1, Zenon DEF StepOf
      <3> QED BY <1>9, <3>1 DEF Entries
    <2>3. AppendStep(step) /\ cost' = cost + step.cost /\ ledger' = ledger /\ pc = "bounds"
      BY <1>10, <2>1, <2>2 DEF AskModel
    <2>4. seq \in 0..Logged
      BY <1>1, <1>8, <2>3 DEF Stands
    <2>5. seq + 1 \notin DOMAIN ledger
      BY <1>1, <1>3, <1>10, AskWalks
    <2>6. \A n \in DOMAIN ledger' : n \in DOMAIN ledger /\ n # seq + 1 /\ ledger'[n] = ledger[n]
      BY <2>3, <2>5
    <2> QED BY <1>7, <2>2, <2>3, <2>4, <2>5, <2>6
  <1>11. CASE Conclude
    <2>1. PICK step : step = StepOf("final", NoCall, TRUE, 0) /\ AppendStep(step)
      BY <1>11, Zenon DEF Conclude
    <2>2. step \in Entries /\ step.kind = "final" /\ step.cost = 0
      <3>1. step = [kind |-> "final", call |-> NoCall, ok |-> TRUE, cost |-> 0]
        BY <2>1, Zenon DEF StepOf
      <3> QED BY <1>9, <3>1 DEF Entries
    <2>3. AppendStep(step) /\ cost' = cost + step.cost /\ ledger' = ledger /\ pc = "settling"
      <3>1. cost' = cost /\ ledger' = ledger /\ pc = "settling"
        BY <1>11 DEF Conclude
      <3>2. cost' = cost + step.cost
        <4>1. cost \in Nat
          BY <1>4
        <4> QED BY <3>1, <2>2, <4>1
      <3> QED BY <2>1, <3>1, <3>2
    <2>4. seq \in 0..Logged
      BY <1>1, <1>8, <2>3 DEF Stands
    <2>5. seq + 1 \notin DOMAIN ledger
      BY <1>1, <1>3, <1>11, ConcludeWalks
    <2>6. \A n \in DOMAIN ledger' : n \in DOMAIN ledger /\ n # seq + 1 /\ ledger'[n] = ledger[n]
      BY <2>3, <2>5
    <2> QED BY <1>7, <2>2, <2>3, <2>4, <2>5, <2>6
  <1>12. CASE FailedResult
    <2>1. PICK step : step = StepOf("tool_result", CallInHand, FALSE, 0) /\ AppendStep(step)
      BY <1>12, Zenon DEF FailedResult
    <2>2. pc = "settling" /\ InHand /\ seq \in DOMAIN T /\ T[seq] = Here
      BY <1>1, <1>12 DEF FailedResult, Stands
    <2>3. CallInHand \in Nat \X Nat
      BY <1>1, <1>3, <2>2, HandTyped
    <2>4. step \in Entries /\ step.kind = "tool_result" /\ step.cost = 0
      <3>1. step = [kind |-> "tool_result", call |-> CallInHand, ok |-> FALSE, cost |-> 0]
        BY <2>1, Zenon DEF StepOf
      <3> QED BY <1>9, <2>3, <3>1 DEF Entries
    <2>5. AppendStep(step) /\ cost' = cost + step.cost /\ ledger' = ledger
      <3>1. cost' = cost /\ ledger' = ledger
        BY <1>12 DEF FailedResult
      <3>2. cost' = cost + step.cost
        <4>1. cost \in Nat
          BY <1>4
        <4> QED BY <3>1, <2>4, <4>1
      <3> QED BY <2>1, <3>1, <3>2
    <2>6. seq + 1 \notin DOMAIN ledger
      BY <1>1, <1>3, <1>12, FailureWalks
    <2>7. \A n \in DOMAIN ledger' : n \in DOMAIN ledger /\ n # seq + 1 /\ ledger'[n] = ledger[n]
      BY <2>5, <2>6
    <2> QED BY <1>7, <1>8, <2>2, <2>4, <2>5, <2>6, <2>7
  <1>13. CASE RecordDenial
    <2>1. PICK step : step = StepOf("approval", CallInHand, FALSE, 0) /\ AppendStep(step)
      BY <1>13, Zenon DEF RecordDenial
    <2>2. /\ InHand /\ seq \in DOMAIN T /\ T[seq] = Here
          /\ OnFile(CallInHand, "denied")
      BY <1>1, <1>13 DEF RecordDenial, Stands, Asking
    <2>3. CallInHand \in Nat \X Nat
      BY <1>1, <1>3, <2>2, HandTyped
    <2>4. step \in Entries /\ step.call = CallInHand /\ step.cost = 0
      <3>1. step = [kind |-> "approval", call |-> CallInHand, ok |-> FALSE, cost |-> 0]
        BY <2>1, Zenon DEF StepOf
      <3> QED BY <1>9, <2>3, <3>1 DEF Entries
    <2>5. AppendStep(step) /\ cost' = cost + step.cost /\ ledger' = ledger
      <3>1. cost' = cost /\ ledger' = ledger
        BY <1>13 DEF RecordDenial
      <3>2. cost' = cost + step.cost
        <4>1. cost \in Nat
          BY <1>4
        <4> QED BY <3>1, <2>4, <4>1
      <3> QED BY <2>1, <3>1, <3>2
    <2>6. seq + 1 \notin DOMAIN ledger
      BY <1>1, <1>3, <1>13, DenialWalks
    <2>7. \A n \in DOMAIN ledger' : n \in DOMAIN ledger /\ n # seq + 1 /\ ledger'[n] = ledger[n]
      BY <2>5, <2>6
    <2> QED BY <1>7, <1>8, <2>2, <2>4, <2>5, <2>6, <2>7
  <1>14. CASE Invoke
    <2>1. /\ seq \in DOMAIN T /\ T[seq] = Here /\ InHand
          /\ seq + 1 \in DOMAIN ledger' /\ ledger'[seq + 1].call = CallInHand
          /\ seq + 1 \in DOMAIN ledger => ledger' = ledger
          /\ seq + 1 \notin DOMAIN ledger =>
               \E ok \in BOOLEAN :
                 ledger' = Put(ledger, seq + 1, [call |-> CallInHand, action |-> ActionInHand, ok |-> ok])
          /\ ledger'[seq + 1].ok \in BOOLEAN /\ AppendStep(ToolStep(ledger'[seq + 1].ok))
      BY <1>1, <1>3, <1>14, InvokeWalks
    <2>2. PICK step : step = ToolStep(ledger'[seq + 1].ok) /\ AppendStep(step)
      BY <2>1, Zenon
    <2>3. CallInHand \in Nat \X Nat
      BY <1>1, <1>3, <2>1, HandTyped
    <2>4. /\ step \in Entries /\ step.kind = "tool_result" /\ step.cost = 0
          /\ step.call = CallInHand /\ step.ok = ledger'[seq + 1].ok
      <3>1. PICK ok \in BOOLEAN : ok = ledger'[seq + 1].ok
        BY <2>1
      <3>2. step = [kind |-> "tool_result", call |-> CallInHand, ok |-> ok, cost |-> 0]
        BY <2>2, <3>1, Zenon DEF ToolStep, StepOf
      <3> QED BY <1>9, <2>3, <3>1, <3>2 DEF Entries
    <2>5. AppendStep(step) /\ cost' = cost + step.cost
      BY <1>4, <1>14, <2>1, <2>2, <2>4 DEF Invoke
    <2>6. ASSUME NEW n \in DOMAIN ledger', n # seq + 1
          PROVE  n \in DOMAIN ledger /\ ledger'[n] = ledger[n]
      BY <2>1, <2>6 DEF Put
    <2> QED BY <1>7, <1>8, <2>1, <2>3, <2>4, <2>5, <2>6
  <1> QED BY <1>6, <1>10, <1>11, <1>12, <1>13, <1>14, Steps

-----------------------------------------------------------------------------
(* Consent, and the rest. *)

(* What the types say of requests and answers.                               *)
ConsentTyped ==
  /\ DOMAIN rows \subseteq DOMAIN tokens /\ DOMAIN tokens \subseteq CallIds
  /\ \A c \in DOMAIN rows : rows[c] \in [action: Irreversible, status: {"pending"} \cup Answers]
  /\ \A c \in DOMAIN tokens : tokens[c] \in {"waiting"} \cup Answers
  /\ undelivered \subseteq DOMAIN rows /\ direct \subseteq DOMAIN rows

(* A question is put, stays, and is answered at its token at most once.      *)
TokensMoved ==
  /\ DOMAIN tokens \subseteq DOMAIN tokens'
  /\ \A c \in DOMAIN tokens' :
       IF c \in DOMAIN tokens
       THEN tokens'[c] = tokens[c] \/ (tokens[c] = "waiting" /\ tokens'[c] \in Answers)
       ELSE tokens'[c] = "waiting"

(* An answer to a row.                                                       *)
LEMMA AnswerRow ==
  ASSUME ConsentTyped, NEW c \in DOMAIN rows, NEW answer \in Answers,
         rows[c].status = "pending", rows' = [rows EXCEPT ![c].status = answer]
  PROVE  /\ DOMAIN rows' = DOMAIN rows
         /\ rows'[c].status = answer
         /\ \A d \in DOMAIN rows : d # c => rows'[d] = rows[d]
         /\ \A d \in DOMAIN rows' :
              rows'[d] \in [action: Irreversible, status: {"pending"} \cup Answers]
  <1>1. /\ DOMAIN rows' = DOMAIN rows
        /\ rows'[c] = [rows[c] EXCEPT !.status = answer]
        /\ \A d \in DOMAIN rows : d # c => rows'[d] = rows[d]
    OBVIOUS
  <1>2. rows[c] \in [action: Irreversible, status: {"pending"} \cup Answers]
    BY DEF ConsentTyped
  <1>3. /\ rows'[c].status = answer
        /\ rows'[c] \in [action: Irreversible, status: {"pending"} \cup Answers]
    BY <1>1, <1>2
  <1> QED BY <1>1, <1>3 DEF ConsentTyped

(* Consent keeps its types, row and token differ for the same reasons only,  *)
(* and nobody's answer is changed.                                           *)
LEMMA NextConsent ==
  ASSUME Typed, Agreed, NEW T, Walked(T), Stands(T), [Next]_vars
  PROVE  ConsentTyped' /\ Agreed' /\ TokensMoved
  <1>1. ConsentTyped
    BY DEF Typed, TypeOK, ConsentTyped
  <1>2. CallIds' = CallIds
    BY DEF CallIds
  <1>3. CASE UNCHANGED <<rows, tokens, undelivered, direct>>
    <2>1. TokensMoved
      BY <1>3 DEF TokensMoved
    <2>2. Agreed'
      BY <1>3 DEF Agreed, RowAndTokenDiffer
    <2> QED BY <1>1, <1>3, <2>1, <2>2 DEF ConsentTyped
  <1>4. CASE CreateToken
    <2>1. seq \in DOMAIN T /\ T[seq] = Here /\ InHand
      BY <1>4 DEF CreateToken, Stands
    <2>2. CallInHand \in CallIds
      BY <2>1, HandTyped
    <2>3. UNCHANGED <<rows, undelivered, direct>>
      BY <1>4 DEF CreateToken
    <2>4. CASE CallInHand \in DOMAIN tokens
      <3>1. tokens' = tokens
        BY <1>4, <2>4 DEF CreateToken, Issued
      <3> QED BY <1>3, <2>3, <3>1
    <2>5. CASE CallInHand \notin DOMAIN tokens
      <3>1. tokens' = Put(tokens, CallInHand, "waiting")
        BY <1>4, <2>5 DEF CreateToken, Issued
      <3>2. /\ DOMAIN tokens' = DOMAIN tokens \cup {CallInHand} /\ tokens'[CallInHand] = "waiting"
            /\ \A c \in DOMAIN tokens : tokens'[c] = tokens[c]
        BY <2>5, <3>1 DEF Put
      <3>3. TokensMoved
        BY <3>2 DEF TokensMoved
      <3>4. Agreed'
        BY <1>1, <2>3, <2>5, <3>2 DEF Agreed, RowAndTokenDiffer, Decided, ConsentTyped
      <3>5. ConsentTyped'
        BY <1>1, <2>2, <2>3, <3>2 DEF ConsentTyped
      <3> QED BY <3>3, <3>4, <3>5
    <2> QED BY <2>4, <2>5
  <1>5. CASE RequestApproval
    <2>1. /\ CallInHand \in DOMAIN tokens /\ ActionInHand \in Irreversible
          /\ UNCHANGED <<tokens, undelivered, direct>>
      BY <1>5 DEF RequestApproval, Stands, Asking
    <2>2. CASE CallInHand \in DOMAIN rows
      <3>1. rows' = rows
        BY <1>5, <2>2 DEF RequestApproval
      <3> QED BY <1>3, <2>1, <3>1
    <2>3. CASE CallInHand \notin DOMAIN rows
      <3>1. rows' = Put(rows, CallInHand, [action |-> ActionInHand, status |-> "pending"])
        BY <1>5, <2>3 DEF RequestApproval
      <3>2. /\ DOMAIN rows' = DOMAIN rows \cup {CallInHand}
            /\ rows'[CallInHand] = [action |-> ActionInHand, status |-> "pending"]
            /\ \A c \in DOMAIN rows : rows'[c] = rows[c]
        BY <2>3, <3>1 DEF Put
      <3>3. /\ rows'[CallInHand].status = "pending"
            /\ rows'[CallInHand] \in [action: Irreversible, status: {"pending"} \cup Answers]
        BY <2>1, <3>2
      <3>4. TokensMoved
        BY <2>1 DEF TokensMoved
      <3>5. Agreed'
        BY <1>1, <2>1, <2>3, <3>2, <3>3 DEF Agreed, RowAndTokenDiffer, ConsentTyped
      <3>6. ConsentTyped'
        BY <1>1, <2>1, <3>2, <3>3 DEF ConsentTyped
      <3> QED BY <3>4, <3>5, <3>6
    <2> QED BY <2>2, <2>3
  <1>6. CASE Wake
    <2>1. /\ CallInHand \in DOMAIN tokens /\ CallInHand \in DOMAIN rows
          /\ tokens[CallInHand] # "waiting" /\ UNCHANGED <<tokens, undelivered, direct>>
          /\ rows' = Settled(CallInHand, tokens[CallInHand])
      BY <1>6 DEF Wake, Stands, Asking
    <2>2. PICK c \in DOMAIN rows : c = CallInHand
      BY <2>1
    <2>3. PICK answer \in Answers : answer = tokens[c]
      BY <1>1, <2>1, <2>2 DEF ConsentTyped
    <2>4. CASE rows[c].status = "pending"
      <3>1. rows' = [rows EXCEPT ![c].status = answer]
        BY <2>1, <2>2, <2>3, <2>4 DEF Settled
      <3>2. /\ DOMAIN rows' = DOMAIN rows /\ rows'[c].status = answer
            /\ \A d \in DOMAIN rows : d # c => rows'[d] = rows[d]
            /\ \A d \in DOMAIN rows' :
                 rows'[d] \in [action: Irreversible, status: {"pending"} \cup Answers]
        BY <1>1, <2>4, <3>1, AnswerRow
      <3>3. \A d \in undelivered : d # c
        BY <2>4 DEF Agreed, Decided
      <3>4. Agreed'
        BY <1>1, <2>1, <2>3, <3>2, <3>3 DEF Agreed, RowAndTokenDiffer, ConsentTyped, Answers
      <3>5. ConsentTyped'
        BY <1>1, <2>1, <3>2 DEF ConsentTyped
      <3>6. TokensMoved
        BY <2>1 DEF TokensMoved
      <3> QED BY <3>4, <3>5, <3>6
    <2>5. CASE rows[c].status # "pending"
      <3>1. rows' = rows
        BY <2>1, <2>2, <2>5 DEF Settled
      <3> QED BY <1>3, <2>1, <3>1
    <2> QED BY <2>4, <2>5
  <1>7. ASSUME NEW c \in CallIds, Decide(c)
        PROVE  ConsentTyped' /\ Agreed' /\ TokensMoved
    <2>1. PICK answer \in {"approved", "denied"} : rows' = [rows EXCEPT ![c].status = answer]
      BY <1>7 DEF Decide
    <2>2. /\ c \in DOMAIN rows /\ rows[c].status = "pending" /\ tokens' = tokens /\ direct' = direct
          /\ undelivered' = undelivered \cup {c} /\ answer \in Answers /\ answer \in Decided
      BY <1>7 DEF Decide, Undecided, Answers, Decided
    <2>3. /\ DOMAIN rows' = DOMAIN rows /\ rows'[c].status = answer
          /\ \A d \in DOMAIN rows : d # c => rows'[d] = rows[d]
          /\ \A d \in DOMAIN rows' :
               rows'[d] \in [action: Irreversible, status: {"pending"} \cup Answers]
      BY <1>1, <2>1, <2>2, AnswerRow
    <2>4. /\ tokens[c] \in {"waiting"} \cup Answers
          /\ tokens[c] \in Decided => c \in direct
      BY <1>1, <2>2 DEF Agreed, ConsentTyped
    <2>5. RowAndTokenDiffer(c)'
      BY <2>2, <2>3, <2>4 DEF RowAndTokenDiffer, Decided, Answers
    <2>6. ASSUME NEW d \in DOMAIN rows'
          PROVE  /\ rows'[d].status = tokens'[d] \/ RowAndTokenDiffer(d)'
                 /\ rows'[d].status = "pending" /\ tokens'[d] \in Decided => d \in direct'
      <3>1. CASE d = c
        BY <2>2, <2>3, <2>5, <3>1 DEF Decided
      <3>2. CASE d # c
        BY <2>2, <2>3, <3>2 DEF Agreed, RowAndTokenDiffer
      <3> QED BY <3>1, <3>2
    <2>7. Agreed'
      BY <1>1, <2>2, <2>3, <2>6 DEF Agreed, ConsentTyped
    <2>8. ConsentTyped'
      BY <1>1, <2>2, <2>3 DEF ConsentTyped
    <2>9. TokensMoved
      BY <2>2 DEF TokensMoved
    <2> QED BY <2>7, <2>8, <2>9
  <1>8. ASSUME NEW c \in CallIds, Deliver(c) \/ CompleteToken(c) \/ TokenTimesOut(c)
        PROVE  ConsentTyped' /\ Agreed' /\ TokensMoved
    <2>1. /\ c \in DOMAIN tokens /\ rows' = rows
          /\ DOMAIN tokens' = DOMAIN tokens
          /\ \A d \in DOMAIN tokens : d # c => tokens'[d] = tokens[d]
      BY <1>1, <1>8 DEF Deliver, CompleteToken, TokenTimesOut, ConsentTyped
    <2>2. CASE Deliver(c)
      <3>1. /\ c \in DOMAIN rows /\ rows[c].status \in Decided
            /\ tokens'[c] = IF tokens[c] = "waiting" THEN rows[c].status ELSE tokens[c]
            /\ undelivered' = undelivered \ {c} /\ direct' = direct
        BY <1>1, <2>1, <2>2 DEF Deliver, ConsentTyped, Agreed
      <3>2. /\ rows'[c].status = tokens'[c] \/ RowAndTokenDiffer(c)'
            /\ rows'[c].status # "pending"
        BY <2>1, <3>1 DEF Agreed, RowAndTokenDiffer, Decided
      <3>3. tokens'[c] = tokens[c] \/ (tokens[c] = "waiting" /\ tokens'[c] \in Answers)
        BY <3>1 DEF Decided, Answers
      <3> QED BY <1>1, <2>1, <3>1, <3>2, <3>3
          DEF ConsentTyped, Agreed, TokensMoved, RowAndTokenDiffer
    <2>3. CASE CompleteToken(c)
      <3>1. /\ c \in DOMAIN rows /\ tokens[c] = "waiting" /\ tokens'[c] \in Decided
            /\ undelivered' = undelivered /\ direct' = direct \cup {c}
        BY <2>1, <2>3 DEF CompleteToken, Decided
      <3>2. RowAndTokenDiffer(c)'
        BY <1>1, <2>1, <3>1 DEF Agreed, RowAndTokenDiffer, Decided, ConsentTyped, Answers
      <3>3. tokens'[c] \in Answers
        BY <3>1 DEF Decided, Answers
      <3> QED BY <1>1, <2>1, <3>1, <3>2, <3>3
          DEF ConsentTyped, Agreed, TokensMoved, RowAndTokenDiffer
    <2>4. CASE TokenTimesOut(c)
      <3>1. /\ tokens[c] = "waiting" /\ tokens'[c] = "expired"
            /\ undelivered' = undelivered /\ direct' = direct
        BY <2>1, <2>4 DEF TokenTimesOut
      <3>2. c \in DOMAIN rows => RowAndTokenDiffer(c)'
        BY <1>1, <2>1, <3>1 DEF Agreed, RowAndTokenDiffer, Decided, ConsentTyped, Answers
      <3>3. tokens'[c] \in Answers /\ tokens'[c] \notin Decided
        BY <3>1 DEF Decided, Answers
      <3> QED BY <1>1, <2>1, <3>1, <3>2, <3>3
          DEF ConsentTyped, Agreed, TokensMoved, RowAndTokenDiffer
    <2> QED BY <1>8, <2>2, <2>3, <2>4
  <1>9. ASSUME AskModel \/ Conclude \/ FailedResult \/ RecordDenial \/ Invoke
               \/ StartAttempt \/ Exhaust \/ Refused \/ NextTurn \/ End \/ Return \/ Crash
               \/ Ceiling \/ UNCHANGED vars
        PROVE  UNCHANGED <<rows, tokens, undelivered, direct>>
    BY <1>9 DEF AskModel, Conclude, FailedResult, RecordDenial, Invoke, StartAttempt, Exhaust,
         Refused, NextTurn, End, Return, Crash, Ceiling, vars, consent
  <1> QED BY <1>3, <1>4, <1>5, <1>6, <1>7, <1>8, <1>9 DEF Next, Attempt

(* What the types say of the run and the attempt.                            *)
Places == {"down", "bounds", "settling", "asking", "waiting", "denied", "approved",
           "ending", "returning", "done"}
RunTyped ==
  /\ status \in {"running"} \cup Ended /\ overdue \in BOOLEAN /\ attempt \in 0..MaxAttempts
  /\ pc \in Places /\ verdict \in {"none"} \cup Ended
  /\ verdict \in Ended <=> pc \in {"ending", "returning"}
PlaceTyped ==
  /\ seq \in Nat /\ messages \in Seq(Turns) /\ results \in Seq(Outcomes)
  /\ reply \in Replies \cup {<<>>} /\ Len(results) <= Len(reply)

(* The types are those of the three parts.                                   *)
LEMMA TypedParts ==
  /\ Typed => LogTyped /\ ConsentTyped /\ RunTyped /\ PlaceTyped
  /\ LogTyped' /\ ConsentTyped' /\ RunTyped' /\ PlaceTyped' => Typed'
  <1>1. Typed => LogTyped /\ ConsentTyped /\ RunTyped /\ PlaceTyped
    BY DEF Typed, TypeOK, LogTyped, ConsentTyped, RunTyped, PlaceTyped, Places, Logged
  <1>2. LogTyped' /\ ConsentTyped' /\ RunTyped' /\ PlaceTyped' => Typed'
    BY DEF Typed, TypeOK, LogTyped, ConsentTyped, RunTyped, PlaceTyped, Places, Logged
  <1> QED BY <1>1, <1>2

(* The run keeps its types, and has a verdict just while it is being ended.  *)
LEMMA NextRun ==
  ASSUME Typed, NEW T, Stands(T), [Next]_vars
  PROVE  RunTyped'
  <1>1. RunTyped
    BY TypedParts
  <1>2. MaxAttempts \in Nat
    BY BoundsAssumption
  <1>3. CASE UNCHANGED <<status, overdue, attempt, pc, verdict>>
    BY <1>1, <1>3 DEF RunTyped
  <1>4. CASE StartAttempt
    BY <1>1, <1>2, <1>4 DEF StartAttempt, GoTo, position, RunTyped, Places
  <1>5. CASE Exhaust \/ Refused \/ Conclude
    BY <1>1, <1>5 DEF Exhaust, Refused, Conclude, EndWith, GoTo, RunTyped, Places, Ended
  <1>6. CASE AskModel \/ RecordDenial \/ CreateToken \/ RequestApproval \/ NextTurn
    BY <1>1, <1>6 DEF AskModel, RecordDenial, CreateToken, RequestApproval, NextTurn,
         position, GoTo, RunTyped, Places
  <1>7. CASE Invoke
    BY <1>1, <1>7 DEF Invoke, GoTo, RunTyped, Places
  <1>8. CASE Wake
    <2>1. /\ pc = "waiting" /\ pc' = NextPlace(tokens[CallInHand])
          /\ verdict' = IF NextPlace(tokens[CallInHand]) = "ending" THEN "failed" ELSE verdict
          /\ UNCHANGED <<status, overdue, attempt>> /\ tokens[CallInHand] \in Answers
      BY <1>8 DEF Wake, GoTo, Stands, Asking, Typed, TypeOK
    <2>2. CASE NextPlace(tokens[CallInHand]) = "ending"
      BY <1>1, <2>1, <2>2 DEF RunTyped, Places, Ended
    <2>3. CASE NextPlace(tokens[CallInHand]) # "ending"
      <3>1. pc' \in {"approved", "denied"} /\ verdict' = verdict
        BY <2>1, <2>3 DEF NextPlace, Answers
      <3> QED BY <1>1, <2>1, <3>1 DEF RunTyped, Places, Ended
    <2> QED BY <2>2, <2>3
  <1>9. CASE End
    BY <1>1, <1>9 DEF End, position, GoTo, RunTyped, Places
  <1>10. CASE Return \/ Crash
    BY <1>1, <1>10 DEF Return, Crash, Forget, GoTo, RunTyped, Places, Ended
  <1>11. CASE Ceiling
    BY <1>1, <1>11 DEF Ceiling, position, RunTyped, Places
  <1>12. ASSUME \/ FailedResult \/ UNCHANGED vars
                \/ \E c \in CallIds : Decide(c) \/ Deliver(c) \/ CompleteToken(c) \/ TokenTimesOut(c)
         PROVE  UNCHANGED <<status, overdue, attempt, pc, verdict>>
    BY <1>12 DEF FailedResult, Decide, Deliver, CompleteToken, TokenTimesOut, position, vars
  <1> QED BY <1>3, <1>4, <1>5, <1>6, <1>7, <1>8, <1>9, <1>10, <1>11, <1>12 DEF Next, Attempt

(* The variables of the attempt keep their types.                            *)
LEMMA NextPosition ==
  ASSUME Typed, NEW T, Stands(T), Walked(T), [Next]_vars
  PROVE  PlaceTyped'
  <1>1. /\ seq \in Nat /\ messages \in Seq(Turns) /\ results \in Seq(Outcomes)
        /\ reply \in Replies \cup {<<>>} /\ Len(results) <= Len(reply)
        /\ Len(results) \in Nat /\ Len(reply) \in Nat
    BY HereTyped DEF Typed, TypeOK
  <1>2. <<>> \in Seq(Turns) /\ <<>> \in Seq(Outcomes) /\ Len(<<>>) = 0
    OBVIOUS
  <1>3. CASE UNCHANGED <<seq, messages, reply, results>>
    BY <1>1, <1>3 DEF PlaceTyped
  <1>4. CASE AskModel
    <2>1. /\ reply' \in Replies /\ results' = <<>> /\ messages' = messages /\ seq' = seq + 1
      BY <1>4, UpsertNumbers DEF AskModel
    <2>2. Len(reply') \in Nat
      BY <2>1, CallsAssumption DEF Refusal
    <2> QED BY <1>1, <1>2, <2>1, <2>2 DEF PlaceTyped
  <1>5. CASE Conclude
    <2>1. UNCHANGED <<messages, reply, results>> /\ seq' = seq + 1
      BY <1>5, UpsertNumbers DEF Conclude
    <2> QED BY <1>1, <2>1 DEF PlaceTyped
  <1>6. CASE FailedResult \/ RecordDenial \/ Invoke
    <2>1. \E result \in Outcomes : results' = Append(results, result)
      BY <1>6 DEF FailedResult, RecordDenial, Invoke, Answer, Outcomes
    <2>2. UNCHANGED <<messages, reply>> /\ seq' = seq + 1
      BY <1>6, UpsertNumbers DEF FailedResult, RecordDenial, Invoke
    <2>3. InHand
      <3>1. CASE FailedResult
        BY <3>1 DEF FailedResult
      <3>2. CASE RecordDenial
        BY <3>2 DEF RecordDenial, Stands, Asking
      <3>3. CASE Invoke
        BY <3>3, InvokeWalks
      <3> QED BY <1>6, <3>1, <3>2, <3>3
    <2>4. Len(results') = Len(results) + 1 /\ results' \in Seq(Outcomes)
      BY <1>1, <2>1
    <2> QED BY <1>1, <2>2, <2>3, <2>4 DEF PlaceTyped, InHand
  <1>7. CASE NextTurn
    <2>1. /\ messages' = Append(messages, [reply |-> reply, results |-> results])
          /\ UNCHANGED <<seq, reply, results>>
      BY <1>7 DEF NextTurn
    <2>2. [reply |-> reply, results |-> results] \in Turns
      BY <1>1 DEF Turns
    <2> QED BY <1>1, <2>1, <2>2 DEF PlaceTyped
  <1>8. CASE Return \/ Crash
    <2>1. seq' = 0 /\ messages' = <<>> /\ reply' = <<>> /\ results' = <<>>
      BY <1>8 DEF Return, Crash, Forget
    <2>2. Len(results') = 0 /\ Len(reply') = 0
      BY <1>2, <2>1
    <2> QED BY <1>2, <2>1, <2>2 DEF PlaceTyped
  <1>9. ASSUME \/ StartAttempt \/ Exhaust \/ Refused \/ CreateToken \/ RequestApproval \/ Wake
               \/ End \/ Ceiling \/ UNCHANGED vars
               \/ \E c \in CallIds : Decide(c) \/ Deliver(c) \/ CompleteToken(c) \/ TokenTimesOut(c)
        PROVE  UNCHANGED <<seq, messages, reply, results>>
    BY <1>9 DEF StartAttempt, Exhaust, Refused, CreateToken, RequestApproval, Wake, End, Ceiling,
         Decide, Deliver, CompleteToken, TokenTimesOut, position, vars
  <1> QED BY <1>3, <1>4, <1>5, <1>6, <1>7, <1>8, <1>9 DEF Next, Attempt

-----------------------------------------------------------------------------
(* The invariant and what follows. *)

(* Nothing has happened yet.                                                 *)
LEMMA InitPInv == Init => PInv
  <1> SUFFICES ASSUME Init PROVE PInv
    OBVIOUS
  <1>1. DOMAIN <<>> = {} /\ <<>> \in Seq(Turns) /\ <<>> \in Seq(Outcomes) /\ Len(<<>>) = 0
    OBVIOUS
  <1>2. DOMAIN Empty = {}
    BY DEF Empty
  <1>3. Logged = 0 /\ DOMAIN steps = {}
    <2>1. DOMAIN steps = {}
      BY <1>1 DEF Init
    <2> QED BY <2>1, FS_EmptySet DEF Logged
  <1>4. MaxAttempts \in Nat
    BY BoundsAssumption
  <1>5. Typed
    <2>1. /\ status \in {"running"} \cup Ended /\ cost \in Nat /\ overdue \in BOOLEAN
          /\ attempt \in 0..MaxAttempts /\ verdict \in {"none"} \cup Ended
          /\ verdict \in Ended <=> pc \in {"ending", "returning"}
      <3>1. overdue \in BOOLEAN
        BY Zenon DEF Init
      <3>2. attempt \in 0..MaxAttempts /\ cost \in Nat
        BY <1>4 DEF Init
      <3>3. /\ status \in {"running"} \cup Ended /\ verdict \in {"none"} \cup Ended
            /\ verdict \notin Ended /\ pc \notin {"ending", "returning"}
        BY DEF Init, Ended
      <3> QED BY <3>1, <3>2, <3>3
    <2>2. /\ DOMAIN steps = 1..Cardinality(DOMAIN steps) /\ Logged \in Nat
          /\ DOMAIN ledger = {} /\ DOMAIN rows = {} /\ DOMAIN tokens = {}
          /\ undelivered = {} /\ direct = {}
      BY <1>2, <1>3 DEF Init, Logged
    <2>3. /\ seq \in Nat /\ messages \in Seq(Turns) /\ results \in Seq(Outcomes)
          /\ reply \in Replies \cup {<<>>} /\ Len(results) <= Len(reply) /\ pc = "down"
      BY <1>1 DEF Init
    <2> QED BY <1>3, <2>1, <2>2, <2>3 DEF Typed, TypeOK
  <1>6. Agreed /\ Denials /\ LogTellsTheLedger
    BY <1>2, <1>3 DEF Init, Agreed, Denials, LogTellsTheLedger
  <1>7. \E g : Summed(g)
    <2>1. PICK g : g = [n \in 0..0 |-> 0]
      OBVIOUS
    <2>2. Summed(g)
      BY <1>3, <2>1 DEF Summed, Sums, Init
    <2> QED BY <2>2
  <1>8. Walked(<<>>) /\ Stands(<<>>)
    BY <1>1, <1>2, <1>3 DEF Init, Walked, Seen, Stands, Asking
  <1> QED BY <1>5, <1>6, <1>7, <1>8 DEF PInv

(* Every step keeps the invariant.                                           *)
LEMMA NextPInv == PInv /\ [Next]_vars => PInv'
  <1> SUFFICES ASSUME PInv, [Next]_vars PROVE PInv'
    OBVIOUS
  <1>1. Typed /\ Agreed
    BY DEF PInv
  <1>2. PICK T : Walked(T) /\ Stands(T)
    BY DEF PInv
  <1>3. \E T2 : Walked(T2)' /\ Stands(T2)'
    BY <1>1, <1>2, NextWalked
  <1>4. LogTyped' /\ (\E g : Summed(g)') /\ LogTellsTheLedger' /\ Denials'
    BY NextLog
  <1>5. ConsentTyped' /\ Agreed'
    BY <1>1, <1>2, NextConsent
  <1>6. RunTyped' /\ PlaceTyped'
    BY <1>1, <1>2, NextRun, NextPosition
  <1>7. Typed'
    BY <1>4, <1>5, <1>6, TypedParts
  <1> QED BY <1>3, <1>4, <1>5, <1>7 DEF PInv

(* The log is one walk in every reachable state.                             *)
LEMMA PInvHolds == Spec => []PInv
  BY InitPInv, NextPInv, PTL DEF Spec

(* Every variable has its type, the log has no gaps, and a run has a verdict *)
(* just while it is being ended (run, end).                                  *)
THEOREM TypeCorrect == Spec => []TypeOK
  <1>1. PInv => TypeOK
    BY DEF PInv, Typed
  <1> QED BY <1>1, PInvHolds, PTL

(* A retry finds in the ledger, under the number of its next step, the call  *)
(* it is about to make, and the log describes every act of the ledger        *)
(* however often it was written anew (idempotencyKey, appendStep).           *)
THEOREM WalkFindsItsLedger == Spec => []LedgerFollowsTheWalk
  <1>1. PInv => LedgerFollowsTheWalk
    <2> SUFFICES ASSUME PInv PROVE LedgerAnswersTheCall
      BY DEF PInv, LedgerFollowsTheWalk
    <2> SUFFICES ASSUME pc \in {"settling", "asking", "waiting", "approved"}, InHand,
                        seq + 1 \in DOMAIN ledger
                 PROVE  ledger[seq + 1].call = CallInHand /\ ledger[seq + 1].action = ActionInHand
      BY DEF LedgerAnswersTheCall
    <2>1. Typed
      BY DEF PInv
    <2>2. PICK T : Walked(T) /\ Stands(T)
      BY DEF PInv
    <2>3. seq \in DOMAIN T /\ T[seq] = Here
      BY <2>2 DEF Stands, Asking
    <2>4. PICK n \in DOMAIN T : n = seq + 1
      BY <2>1, <2>2 DEF Walked, Typed, TypeOK
    <2>5. PICK c : c = CallInHand
      OBVIOUS
    <2>6. PICK a : a = ActionInHand
      OBVIOUS
    <2>7. \E other \in Outcomes : Settles(n, c, a, other)
      BY <2>1, <2>2, <2>3, <2>4, <2>5, <2>6, OnRecord
    <2> QED BY <2>4, <2>5, <2>6, <2>7 DEF Settles
  <1> QED BY <1>1, PInvHolds, PTL

(* What the steps have cost adds up to what the run has cost, retries        *)
(* included (appendStep).                                                    *)
THEOREM CostsAddUpAlways == Spec => []CostsAddUp
  <1>1. PInv => CostsAddUp
    BY CostsRead DEF PInv, Typed
  <1> QED BY <1>1, PInvHolds, PTL

(* A call whose token expired is the last of the walk, so no attempt got to  *)
(* the end of the work.                                                      *)
LEMMA ExpiryStops ==
  ASSUME Typed, NEW T, Walked(T), NEW c \in DOMAIN tokens, tokens[c] = "expired"
  PROVE  status # "succeeded"
  <1> SUFFICES ASSUME status = "succeeded" PROVE FALSE
    OBVIOUS
  <1>1. PICK n \in DOMAIN T : Asks(T[n], c)
    BY DEF Walked, Seen
  <1>2. PICK e \in DOMAIN T : T[e].reply = <<>>
    BY DEF Walked, Seen
  <1>3. PICK k \in Nat : k = Logged
    BY DEF Typed
  <1>4. DOMAIN T = 1..k
    BY <1>3 DEF Typed, TypeOK, Walked, Logged
  <1>5. T[n].reply # <<>>
    BY <1>1 DEF Asks, Calling
  <1>6. ~(e <= n)
    BY <1>2, <1>5 DEF Walked, Seen
  <1>7. PICK m \in DOMAIN T : m = n + 1
    BY <1>4, <1>6
  <1>8. m # 1 /\ m - 1 = n
    BY <1>4, <1>7
  <1>9. Moved(T, m, T[m])
    BY DEF Walked
  <1>10. Answered(T, m, T[m])
    BY <1>1, <1>5, <1>8, <1>9 DEF Moved, Opened, Closed, Asks, Calling, TurnOver
  <1>11. PICK result \in Outcomes : Settles(m, CallAt(T[n]), ActionAt(T[n]), result)
    BY <1>8, <1>10 DEF Answered
  <1>12. OnFile(c, "denied") \/ OnFile(c, "approved")
    <2>1. PICK a : a = ActionAt(T[n])
      OBVIOUS
    <2>2. Settles(m, c, a, result) /\ a \in Irreversible /\ ~Wrong(a)
      BY <1>1, <1>11, <2>1 DEF Asks
    <2> QED BY <2>2 DEF Settles
  <1> QED BY <1>12 DEF OnFile, SettledAs

(* Row and token differ only while one of them is still to be written, when  *)
(* the token had expired, or when a call was answered twice; an act and a    *)
(* denial follow the token, with the answer in the row before; and no run    *)
(* succeeds past a token that expired (askHuman, recordDecision,             *)
(* recordExpiry, approve.ts).                                                *)
THEOREM AnswersAgreeAlways == Spec => []AnswersAgree
  <1>1. PInv => AnswersAgree
    <2> SUFFICES ASSUME PInv PROVE AnswersAgree
      OBVIOUS
    <2>1. Typed /\ Agreed /\ Denials
      BY DEF PInv
    <2>2. PICK T : Walked(T)
      BY DEF PInv
    <2>3. ASSUME NEW n \in DOMAIN ledger, ledger[n].action \in Irreversible
          PROVE  SettledAs(ledger[n].call, "approved")
      <3>1. n \in DOMAIN T /\ Moved(T, n, T[n])
        BY <2>1, <2>2 DEF Walked, Typed, TypeOK
      <3>2. \E c, a, result : Settles(n, c, a, result)
        BY <3>1 DEF Moved, Opened, Closed, Answered
      <3>3. OnFile(ledger[n].call, "approved")
        BY <2>3, <3>2 DEF Settles
      <3> QED BY <3>3 DEF OnFile
    <2>4. \A n \in DOMAIN steps : steps[n].kind = "approval" => SettledAs(steps[n].call, "denied")
      BY <2>1 DEF Denials, OnFile
    <2>5. LostAnswersStop
      BY <2>1, <2>2, ExpiryStops DEF LostAnswersStop
    <2>6. \A c \in DOMAIN rows : rows[c].status = tokens[c] \/ RowAndTokenDiffer(c)
      BY <2>1 DEF Agreed
    <2> QED BY <2>3, <2>4, <2>5, <2>6 DEF AnswersAgree, LogFollowsTokens
  <1> QED BY <1>1, PInvHolds, PTL

-----------------------------------------------------------------------------
(* The port implements the gate. *)

(* Requests and acts, as Gate maps them.                                     *)
Asked == [c \in DOMAIN tokens |-> IF tokens[c] = "waiting" THEN "asked" ELSE tokens[c]]
Acted == {<<ledger[n].call, ledger[n].action>> : n \in DOMAIN ledger}

(* Requests move as the gate's do.                                           *)
LEMMA AskedMoves ==
  ASSUME PInv, [Next]_vars
  PROVE  /\ DOMAIN Asked \subseteq DOMAIN Asked'
         /\ \A c \in DOMAIN Asked' :
              IF c \in DOMAIN Asked
              THEN \/ Asked'[c] = Asked[c]
                   \/ Asked[c] = "asked" /\ Asked'[c] \in Answers
              ELSE Asked'[c] = "asked"
  <1>1. TokensMoved
    BY NextConsent DEF PInv
  <1>2. /\ DOMAIN Asked = DOMAIN tokens
        /\ \A c \in DOMAIN tokens :
             Asked[c] = IF tokens[c] = "waiting" THEN "asked" ELSE tokens[c]
    BY DEF Asked
  <1>3. /\ DOMAIN Asked' = DOMAIN tokens'
        /\ \A c \in DOMAIN tokens' :
             Asked'[c] = IF tokens'[c] = "waiting" THEN "asked" ELSE tokens'[c]
    BY DEF Asked
  <1>4. "waiting" \notin Answers
    BY DEF Answers
  <1> QED BY <1>1, <1>2, <1>3, <1>4 DEF TokensMoved

(* An act of the ledger stays; a new one is of a call that none was of, and  *)
(* irreversible only if it was approved before.                              *)
LEMMA ActedMoves ==
  ASSUME PInv, [Next]_vars
  PROVE  /\ Acted \subseteq Acted'
         /\ \A act \in Acted' \ Acted :
              /\ \A done \in Acted : done[1] # act[1]
              /\ act[2] \in Irreversible => act[1] \in DOMAIN Asked /\ Asked[act[1]] = "approved"
  <1>1. Typed /\ Agreed
    BY DEF PInv
  <1>2. PICK T : Walked(T) /\ Stands(T)
    BY DEF PInv
  <1>3. CASE ledger' = ledger
    BY <1>3 DEF Acted
  <1>4. CASE Invoke /\ seq + 1 \notin DOMAIN ledger
    <2>1. /\ seq \in DOMAIN T /\ T[seq] = Here /\ InHand
          /\ ActionInHand \in Irreversible => pc = "approved"
          /\ seq + 1 \notin DOMAIN steps
          /\ \E ok \in BOOLEAN :
               ledger' = Put(ledger, seq + 1, [call |-> CallInHand, action |-> ActionInHand, ok |-> ok])
      BY <1>1, <1>2, <1>4, InvokeWalks
    <2>2. /\ DOMAIN ledger' = DOMAIN ledger \cup {seq + 1}
          /\ \A n \in DOMAIN ledger : ledger'[n] = ledger[n]
          /\ ledger'[seq + 1].call = CallInHand /\ ledger'[seq + 1].action = ActionInHand
      BY <1>4, <2>1 DEF Put
    <2>3. ASSUME NEW n \in DOMAIN ledger PROVE ledger[n].call # CallInHand
      <3>1. n <= seq
        <4>1. PICK k \in Nat : k = Logged
          BY <1>1 DEF Typed
        <4>2. DOMAIN steps = 1..k /\ n \in 1..k /\ seq \in 1..k
          BY <1>1, <1>2, <2>1, <4>1 DEF Walked, Typed, TypeOK, Logged
        <4> QED BY <2>1, <4>2
      <3>2. Behind(ledger[n].call, Here)
        BY <1>2, <2>1, <3>1 DEF Walked
      <3>3. Len(messages) \in Nat /\ Len(results) \in Nat
        BY <1>1, HereTyped
      <3> QED BY <3>2, <3>3 DEF Behind, Here, CallInHand
    <2>4. ActionInHand \in Irreversible =>
            CallInHand \in DOMAIN Asked /\ Asked[CallInHand] = "approved"
      <3>1. ActionInHand \in Irreversible =>
              CallInHand \in DOMAIN tokens /\ tokens[CallInHand] = "approved"
        BY <1>2, <2>1 DEF Stands, Asking, OnFile, SettledAs
      <3> QED BY <3>1 DEF Asked
    <2>5. Acted' = Acted \cup {<<CallInHand, ActionInHand>>}
      BY <2>2 DEF Acted
    <2>6. ASSUME NEW done \in Acted PROVE done[1] # CallInHand
      BY <2>3 DEF Acted
    <2> QED BY <2>4, <2>5, <2>6
  <1>5. CASE Invoke /\ seq + 1 \in DOMAIN ledger
    BY <1>1, <1>2, <1>3, <1>5, InvokeWalks
  <1>6. ASSUME Aloof \/ UNCHANGED vars \/ AskModel \/ Conclude \/ FailedResult \/ RecordDenial
        PROVE  ledger' = ledger
    BY <1>1, <1>6, AloofKeeps DEF AskModel, Conclude, FailedResult, RecordDenial
  <1> QED BY <1>3, <1>4, <1>5, <1>6, Steps

(* The port implements the consent gate: each act once over all attempts, an *)
(* irreversible one on consent that was there before, an answer for good.    *)
THEOREM PortImplementsTheGate == Spec => ImplementsConsentGate
  <1>1. Init => Gate!Init
    <2> SUFFICES ASSUME Init PROVE Gate!Init
      OBVIOUS
    <2>1. DOMAIN tokens = {} /\ DOMAIN ledger = {}
      BY DEF Init, Empty
    <2>2. Asked = [c \in {} |-> "asked"] /\ Acted = {}
      BY <2>1 DEF Asked, Acted
    <2> QED BY <2>2 DEF Gate!Init, Asked, Acted
  <1>2. PInv /\ [Next]_vars => [Gate!Next]_Gate!vars
    <2> SUFFICES ASSUME PInv, [Next]_vars PROVE Gate!Next
      OBVIOUS
    <2>1. \A r \in {1} : Gate!ConsentMoves(r)
      BY AskedMoves DEF Gate!ConsentMoves, Gate!Answer, Answers, Asked
    <2>2. \A r \in {1} : Gate!Performs(r)
      BY ActedMoves DEF Gate!Performs, Acted, Asked
    <2> QED BY <2>1, <2>2 DEF Gate!Next
  <1> QED BY <1>1, <1>2, PInvHolds, PTL DEF Spec, ImplementsConsentGate, Gate!Spec
=============================================================================
