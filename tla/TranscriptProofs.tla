--------------------------- MODULE TranscriptProofs ---------------------------
(***************************************************************************)
(* What a provider is sent answers every call in its place; what the log   *)
(* gives back of a turn is what its worker was given; and a replay shows   *)
(* every decision where it took effect.                                    *)
(*                                                                         *)
(* Decisions. An approval's step_seq is written while a turn is being      *)
(* settled, in a transaction that may go on, end the run or be lost, and   *)
(* the step the decision leads to is written by a later one, which settles *)
(* the rest of the turn again. Timed relates the numbers a record holds to *)
(* its log; it is demanded of what is committed, and of what an open       *)
(* transaction would commit, with the numbers it has written itself and    *)
(* with those that were there before.                                      *)
(*                                                                         *)
(* Messages. A log grows by one step at a time. Its conversation is a      *)
(* function of its places, so a step more is one application more of       *)
(* Taken; and what has been joined, picked or sent grows likewise. Open    *)
(* says how far a conversation has come in answering its last turn; a step *)
(* leads from one Open to the next, since a record answers a call only     *)
(* once and takes a turn only when the last one is answered (RInv).        *)
(*                                                                         *)
(* Replay. Before a turn stands what its worker was given when it asked,   *)
(* since nobody else writes while it holds the lease, and without the      *)
(* lease its reply is dropped. The turns are numbered by what went before  *)
(* them, so no two were shown the same, and a reply given by what was      *)
(* shown is given at one turn only.                                        *)
(***************************************************************************)
EXTENDS Transcript, AgentRuntimeProofs

(* What g says of calls fits the log: a number after the turn that made the  *)
(* call, no later than the next step, and no later than the call's answer.   *)
Timed(log, g) ==
  \A c \in DOMAIN g :
    /\ g[c] \in Nat /\ c[1] < g[c] /\ g[c] <= Len(log) + 1
    /\ \A j \in Answers(log) : log[j].call = c => g[c] <= j

(* What w would commit fits, with new numbers and with old ones.             *)
SettlerTimed(w) ==
  pc[w] = "settling" => Timed(txSteps[w], txGate[w]) /\ Timed(txSteps[w], gate[run[w]])

(* The inductive invariant: every request has its number, and they fit.      *)
GateInv ==
  /\ RInv
  /\ \A r \in Runs : DOMAIN gate[r] = DOMAIN approvals[r] /\ Timed(steps[r], gate[r])
  /\ \A w \in Workers : DOMAIN txGate[w] = txAsks[w] /\ SettlerTimed(w)

-----------------------------------------------------------------------------
(* Where a decision is shown. *)

(* Numbers that fit a log fit a longer one.                                  *)
LEMMA TimedLater ==
  ASSUME NEW a \in Seq(Step), NEW b \in Seq(Step), Extends(a, b), NEW g, Timed(a, g)
  PROVE  Timed(b, g)
  <1>1. Len(a) \in Nat /\ Len(b) \in Nat /\ DOMAIN a = 1..Len(a) /\ DOMAIN b = 1..Len(b)
    OBVIOUS
  <1>2. Len(a) <= Len(b) /\ \A j \in 1..Len(a) : b[j] = a[j]
    BY DEF Extends
  <1>3. ASSUME NEW c \in DOMAIN g
        PROVE  /\ g[c] \in Nat /\ c[1] < g[c] /\ g[c] <= Len(b) + 1
               /\ \A j \in Answers(b) : b[j].call = c => g[c] <= j
    <2>1. /\ g[c] \in Nat /\ c[1] < g[c] /\ g[c] <= Len(a) + 1
          /\ \A j \in Answers(a) : a[j].call = c => g[c] <= j
      BY DEF Timed
    <2>2. g[c] <= Len(b) + 1
      BY <1>1, <1>2, <2>1
    <2>3. ASSUME NEW j \in Answers(b), b[j].call = c PROVE g[c] <= j
      <3>1. j \in 1..Len(b) /\ b[j].kind \in {"tool_result", "approval"}
        BY <1>1 DEF Answers
      <3>2. CASE j \in 1..Len(a)
        <4>1. j \in Answers(a) /\ a[j].call = c
          BY <1>1, <1>2, <2>3, <3>1, <3>2 DEF Answers
        <4> QED BY <2>1, <4>1
      <3>3. CASE j \notin 1..Len(a)
        BY <1>1, <2>1, <3>1, <3>3
      <3> QED BY <3>2, <3>3
    <2> QED BY <2>1, <2>2, <2>3
  <1> QED BY <1>3 DEF Timed

(* Fewer numbers fit as well.                                                *)
LEMMA TimedAmong ==
  ASSUME NEW log, NEW g, NEW h, Timed(log, g), DOMAIN h \subseteq DOMAIN g,
         \A c \in DOMAIN h : h[c] = g[c]
  PROVE  Timed(log, h)
  BY DEF Timed

(* A request has the number its transaction gave it, or had one already.     *)
LEMMA NumbersMove ==
  ASSUME GateInv, Next, Gates, NEW r \in Runs
  PROVE  /\ DOMAIN gate'[r] = DOMAIN approvals'[r]
         /\ \A c \in DOMAIN approvals[r] : c \in DOMAIN approvals'[r] /\ gate'[r][c] = gate[r][c]
         /\ \A c \in DOMAIN approvals'[r] \ DOMAIN approvals[r] :
              \E w \in Workers :
                /\ pc[w] = "settling" /\ run[w] = r /\ pc'[w] # "settling"
                /\ c \in txAsks[w] /\ Extends(txSteps[w], steps'[r])
                /\ gate'[r][c] = txGate[w][c]
  <1>1. IInv /\ TypeOK
    BY DEF GateInv, RInv, IInv
  <1>2. RequestsKept(r) /\ RequestsOpen(r)
    BY <1>1, RequestStep
  <1>3. gate'[r] = [c \in DOMAIN approvals'[r] |->
          IF c \in DOMAIN approvals[r] THEN gate[r][c]
          ELSE txGate[CHOOSE w \in Workers : run[w] = r /\ c \in txAsks[w]][c]]
    BY DEF Gates
  <1>4. \A c \in DOMAIN approvals[r] : c \in DOMAIN approvals'[r] /\ gate'[r][c] = gate[r][c]
    BY <1>2, <1>3 DEF RequestsKept
  <1>5. ASSUME NEW c \in DOMAIN approvals'[r] \ DOMAIN approvals[r]
        PROVE  \E w \in Workers :
                 /\ pc[w] = "settling" /\ run[w] = r /\ pc'[w] # "settling"
                 /\ c \in txAsks[w] /\ Extends(txSteps[w], steps'[r])
                 /\ gate'[r][c] = txGate[w][c]
    <2>1. PICK w \in Workers : /\ pc[w] = "settling" /\ run[w] = r /\ pc'[w] # "settling"
                               /\ c \in txAsks[w] /\ Extends(txSteps[w], steps'[r])
      BY <1>2 DEF RequestsOpen
    <2>2. ASSUME NEW v \in Workers, run[v] = r, c \in txAsks[v] PROVE v = w
      <3>1. pc[v] = "settling"
        BY <1>1, <2>2 DEF IInv, SettlerExtends
      <3>2. owner[r] = v /\ owner[r] = w
        BY <1>1, <2>1, <2>2, <3>1 DEF IInv, SettlerHolds, Holds
      <3> QED BY <3>2
    <2>3. (CHOOSE v \in Workers : run[v] = r /\ c \in txAsks[v]) = w
      BY <2>1, <2>2
    <2>4. gate'[r][c] = txGate[w][c]
      BY <1>3, <2>3
    <2> QED BY <2>1, <2>4
  <1> QED BY <1>3, <1>4, <1>5

(* What is committed fits after every step.                                  *)
LEMMA CommittedTimed ==
  ASSUME GateInv, Next, Gates, NEW r \in Runs
  PROVE  DOMAIN gate'[r] = DOMAIN approvals'[r] /\ Timed(steps'[r], gate'[r])
  <1>1. RInv /\ RInv' /\ steps[r] \in Seq(Step) /\ steps'[r] \in Seq(Step)
    <2>1. RInv /\ RInv'
      BY RInvStep DEF GateInv
    <2> QED BY <2>1 DEF RInv, IInv, TypeOK
  <1>2. Timed(steps'[r], gate[r])
    <2>1. Extends(steps[r], steps'[r])
      BY <1>1, LedgerMoves
    <2> QED BY <1>1, <2>1, TimedLater DEF GateInv
  <1>3. ASSUME NEW c \in DOMAIN gate'[r]
        PROVE  /\ gate'[r][c] \in Nat /\ c[1] < gate'[r][c] /\ gate'[r][c] <= Len(steps'[r]) + 1
               /\ \A j \in Answers(steps'[r]) : steps'[r][j].call = c => gate'[r][c] <= j
    <2>1. c \in DOMAIN approvals'[r]
      BY NumbersMove
    <2>2. CASE c \in DOMAIN approvals[r]
      <3>1. gate'[r][c] = gate[r][c] /\ c \in DOMAIN gate[r]
        BY <2>2, NumbersMove DEF GateInv
      <3> QED BY <1>2, <3>1 DEF Timed
    <2>3. CASE c \notin DOMAIN approvals[r]
      <3>1. PICK w \in Workers :
              /\ pc[w] = "settling" /\ c \in txAsks[w]
              /\ Extends(txSteps[w], steps'[r]) /\ gate'[r][c] = txGate[w][c]
        BY <2>1, <2>3, NumbersMove
      <3>2. txSteps[w] \in Seq(Step) /\ Timed(txSteps[w], txGate[w]) /\ c \in DOMAIN txGate[w]
        BY <1>1, <3>1 DEF GateInv, SettlerTimed, RInv, IInv, TypeOK
      <3>3. Timed(steps'[r], txGate[w])
        BY <1>1, <3>1, <3>2, TimedLater
      <3> QED BY <3>1, <3>2, <3>3 DEF Timed
    <2> QED BY <2>2, <2>3
  <1> QED BY <1>3, NumbersMove DEF Timed

(* What an open transaction asks about changes by a question put to a person *)
(* about a call that has no answer.                                          *)
AsksMove(w) ==
  \/ txAsks'[w] = txAsks[w]
  \/ \E c \in todo[w] : txAsks'[w] \in {txAsks[w], txAsks[w] \cup {c}} /\ txSteps'[w] = txSteps[w]

(* All that a step can do to the questions of a transaction that stays open. *)
LEMMA AsksStep ==
  ASSUME IInv, Next, NEW w \in Workers, pc[w] = "settling", pc'[w] = "settling"
  PROVE  AsksMove(w)
  <1>0. TypeOK
    BY DEF IInv
  <1> USE <1>0 DEF dbVars, txVars
  <1>k. txAsks'[w] = txAsks[w] => AsksMove(w)
    BY DEF AsksMove
  <1>1. ASSUME NEW v \in Workers, Poll(v) PROVE AsksMove(w)
    BY <1>1, <1>k DEF Poll
  <1>2. ASSUME NEW v \in Workers, LoseLease(v) PROVE AsksMove(w)
    BY <1>2, <1>k DEF LoseLease
  <1>3. ASSUME NEW v \in Workers, Exhaust(v) PROVE AsksMove(w)
    BY <1>3, <1>k DEF Exhaust
  <1>4. ASSUME NEW v \in Workers, AskModel(v) PROVE AsksMove(w)
    BY <1>4, <1>k DEF AskModel
  <1>5. ASSUME NEW v \in Workers, RecordReply(v) PROVE AsksMove(w)
    BY <1>5, <1>k DEF RecordReply
  <1>6. ASSUME NEW v \in Workers, RecordRefusal(v) PROVE AsksMove(w)
    BY <1>6, <1>k DEF RecordRefusal
  <1>7. ASSUME NEW v \in Workers, ProviderError(v) PROVE AsksMove(w)
    BY <1>7, <1>k DEF ProviderError
  <1>8. ASSUME NEW v \in Workers, BeginSettle(v) PROVE AsksMove(w)
    BY <1>8, <1>k DEF BeginSettle
  <1>9. ASSUME NEW v \in Workers, RefuseCall(v) PROVE AsksMove(w)
    BY <1>9, <1>k DEF RefuseCall
  <1>10. ASSUME NEW v \in Workers, AskPerson(v) PROVE AsksMove(w)
    <2>1. CASE v # w
      <3>1. txAsks'[w] = txAsks[w]
        BY <1>10, <2>1 DEF AskPerson, TypeOK
      <3> QED BY <3>1, <1>k
    <2>2. CASE v = w
      <3>1. PICK c \in todo[w] :
              /\ txAsks' = [txAsks EXCEPT ![w] = @ \cup ({c} \ DOMAIN approvals[run[w]])]
              /\ txSteps' = txSteps
        BY <1>10, <2>2 DEF AskPerson
      <3>2. txAsks'[w] = txAsks[w] \cup ({c} \ DOMAIN approvals[run[w]])
        BY <3>1 DEF TypeOK
      <3>3. txAsks'[w] = txAsks[w] \/ txAsks'[w] = txAsks[w] \cup {c}
        BY <3>2
      <3> QED BY <3>1, <3>3 DEF AsksMove
    <2> QED BY <2>1, <2>2
  <1>11. ASSUME NEW v \in Workers, RecordDenial(v) PROVE AsksMove(w)
    BY <1>11, <1>k DEF RecordDenial
  <1>12. ASSUME NEW v \in Workers, RunCall(v) PROVE AsksMove(w)
    BY <1>12, <1>k DEF RunCall
  <1>13. ASSUME NEW v \in Workers, ClearTx(v), v # w PROVE AsksMove(w)
    BY <1>13, <1>k DEF ClearTx, TypeOK
  <1>14. ASSUME NEW v \in Workers, GoIdle(v) \/ GoTo(v, "top") PROVE v # w
    BY <1>14 DEF GoIdle, GoTo, TypeOK
  <1>15. ASSUME NEW v \in Workers,
                CommitTurn(v) \/ EndUnanswered(v) \/ HandlerError(v) \/ DatabaseError(v) \/ Crash(v)
         PROVE  AsksMove(w)
    <2>1. ClearTx(v) /\ (GoIdle(v) \/ GoTo(v, "top"))
      BY <1>15 DEF CommitTurn, EndUnanswered, HandlerError, DatabaseError, Crash
    <2> QED BY <2>1, <1>13, <1>14
  <1>18. ASSUME NEW x \in Runs, LeaseExpires(x) PROVE AsksMove(w)
    BY <1>18, <1>k DEF LeaseExpires
  <1>19. ASSUME NEW x \in Runs, CeilingReached(x) PROVE AsksMove(w)
    BY <1>19, <1>k DEF CeilingReached
  <1>20. ASSUME NEW x \in Runs, ApprovalTimesOut(x) PROVE AsksMove(w)
    BY <1>20, <1>k DEF ApprovalTimesOut
  <1>21. ASSUME NEW x \in Runs, Decide(x) PROVE AsksMove(w)
    BY <1>21, <1>k DEF Decide
  <1>22. ASSUME NEW x \in Runs, CancelRead(x) PROVE AsksMove(w)
    BY <1>22, <1>k DEF CancelRead
  <1>23. ASSUME NEW x \in Runs, CancelWrite(x) PROVE AsksMove(w)
    BY <1>23, <1>k DEF CancelWrite
  <1>24. CASE ListApprovals
    BY <1>24, <1>k DEF ListApprovals
  <1> QED
    BY <1>1, <1>2, <1>3, <1>4, <1>5, <1>6, <1>7, <1>8, <1>9, <1>10, <1>11, <1>12,
       <1>15, <1>18, <1>19, <1>20, <1>21, <1>22, <1>23, <1>24
    DEF Next, WorkerStep

(* The log of a transaction that stays open only grows.                      *)
LEMMA TxGrows ==
  ASSUME IInv, Next, NEW w \in Workers, pc[w] = "settling", pc'[w] = "settling"
  PROVE  /\ run'[w] = run[w] /\ txSteps[w] \in Seq(Step) /\ txSteps'[w] \in Seq(Step)
         /\ Extends(txSteps[w], txSteps'[w])
  <1>1. TypeOK /\ TypeOK'
    BY TypeStep DEF IInv
  <1>2. txSteps[w] \in Seq(Step) /\ txSteps'[w] \in Seq(Step)
    BY <1>1 DEF TypeOK
  <1>3. ~BeginSettle(w)
    BY DEF BeginSettle
  <1>4. TxAnswered(w) \/ TxRan(w)
    BY <1>3, TxStep
  <1>5. run'[w] = run[w]
    BY <1>4 DEF TxAnswered, TxRan
  <1>6. txSteps'[w] = txSteps[w] \/ \E s \in Step : txSteps'[w] = Append(txSteps[w], s)
    <2>1. \A c \in todo[w] : c \in CallIds
      BY <1>1 DEF TypeOK
    <2> QED BY <1>4, <2>1, StepTypes DEF TxAnswered, TxRan
  <1>7. Extends(txSteps[w], txSteps'[w])
    <2>1. CASE txSteps'[w] = txSteps[w]
      BY <1>2, <2>1 DEF Extends
    <2>2. CASE \E s \in Step : txSteps'[w] = Append(txSteps[w], s)
      BY <1>2, <2>2, AppendExtends
    <2> QED BY <1>6, <2>1, <2>2
  <1> QED BY <1>2, <1>5, <1>7

(* The numbers of a transaction fit when it begins: it has none of its own.  *)
LEMMA BeginTimed ==
  ASSUME GateInv, Next, Gates, NEW w \in Workers, BeginSettle(w), pc'[w] = "settling"
  PROVE  SettlerTimed(w)'
  <1>1. IInv /\ TypeOK
    BY DEF GateInv, RInv, IInv
  <1>2. /\ pc[w] # "settling" /\ run'[w] = run[w] /\ run[w] \in Runs
        /\ txSteps'[w] = steps[run[w]] /\ txAsks'[w] = txAsks[w] /\ approvals' = approvals
    BY <1>1 DEF BeginSettle, GoTo, dbVars, TypeOK
  <1>3. txAsks[w] = {}
    BY <1>1, <1>2 DEF IInv, SettlerExtends
  <1>4. DOMAIN txGate'[w] = {}
    BY <1>2, <1>3 DEF Gates
  <1>5. Timed(steps[run[w]], gate[run[w]])
    BY <1>2 DEF GateInv
  <1>6. /\ DOMAIN gate'[run[w]] \subseteq DOMAIN gate[run[w]]
        /\ \A c \in DOMAIN gate'[run[w]] : gate'[run[w]][c] = gate[run[w]][c]
    BY <1>2, NumbersMove DEF GateInv
  <1>7. Timed(steps[run[w]], gate'[run[w]])
    BY <1>5, <1>6, TimedAmong
  <1>8. Timed(steps[run[w]], txGate'[w])
    BY <1>4 DEF Timed
  <1> QED BY <1>2, <1>7, <1>8 DEF SettlerTimed

(* They fit as long as it goes on: a question gets the number of the next    *)
(* step, and the call it is about has no answer yet.                         *)
LEMMA OpenTimed ==
  ASSUME GateInv, Next, Gates, NEW w \in Workers, pc[w] = "settling", pc'[w] = "settling"
  PROVE  SettlerTimed(w)'
  <1>1. /\ IInv /\ TypeOK /\ todo[w] \subseteq Unresolved(txSteps[w]) /\ run[w] \in Runs
        /\ DOMAIN txGate[w] = txAsks[w]
    BY DEF GateInv, RInv, IInv, SettlerSound, TypeOK
  <1>2. /\ run'[w] = run[w] /\ txSteps[w] \in Seq(Step) /\ txSteps'[w] \in Seq(Step)
        /\ Extends(txSteps[w], txSteps'[w])
    BY <1>1, TxGrows
  <1>3. Timed(txSteps'[w], txGate[w]) /\ Timed(txSteps'[w], gate[run[w]])
    BY <1>2, TimedLater DEF GateInv, SettlerTimed
  <1>4. Timed(txSteps'[w], gate'[run'[w]])
    <2>1. ASSUME NEW c \in DOMAIN approvals'[run[w]] \ DOMAIN approvals[run[w]] PROVE FALSE
      <3>1. PICK v \in Workers : pc[v] = "settling" /\ run[v] = run[w] /\ pc'[v] # "settling"
        BY <1>1, NumbersMove
      <3>2. owner[run[w]] = v /\ owner[run[w]] = w
        BY <1>1, <3>1 DEF IInv, SettlerHolds, Holds
      <3> QED BY <3>1, <3>2
    <2>2. /\ DOMAIN gate'[run[w]] \subseteq DOMAIN gate[run[w]]
          /\ \A c \in DOMAIN gate'[run[w]] : gate'[run[w]][c] = gate[run[w]][c]
      BY <1>1, <2>1, NumbersMove DEF GateInv
    <2> QED BY <1>2, <1>3, <2>2, TimedAmong
  <1>5. txGate'[w] = [c \in txAsks'[w] |-> IF c \in txAsks[w] THEN txGate[w][c]
                                           ELSE Len(txSteps[w]) + 1]
    BY DEF Gates, StepSeq
  <1>7. ASSUME NEW e \in todo[w], txAsks'[w] \in {txAsks[w], txAsks[w] \cup {e}},
               txSteps'[w] = txSteps[w]
        PROVE  Timed(txSteps'[w], txGate'[w])
    <2>1. e \in CallIds /\ Proposed(txSteps[w], e) /\ e \notin SettledIn(txSteps[w])
      BY <1>1, <1>2, UnresolvedProposed, UnresolvedCalls
    <2>2. Len(txSteps[w]) \in Nat /\ e[1] \in 1..Len(txSteps[w])
      BY <1>2, <2>1 DEF Proposed
    <2>3. \A j \in Answers(txSteps[w]) : txSteps[w][j].call # e
      BY <2>1 DEF SettledIn, Answers
    <2>4. ASSUME NEW c \in DOMAIN txGate'[w]
          PROVE  /\ txGate'[w][c] \in Nat /\ c[1] < txGate'[w][c]
                 /\ txGate'[w][c] <= Len(txSteps[w]) + 1
                 /\ \A j \in Answers(txSteps[w]) : txSteps[w][j].call = c => txGate'[w][c] <= j
      <3>1. c \in txAsks[w] \cup {e}
        BY <1>5, <1>7
      <3>2. CASE c \in txAsks[w]
        <4>1. txGate'[w][c] = txGate[w][c] /\ c \in DOMAIN txGate[w]
          BY <1>1, <1>5, <3>2
        <4> QED BY <1>3, <1>7, <4>1 DEF Timed
      <3>3. CASE c \notin txAsks[w]
        <4>1. c = e /\ txGate'[w][c] = Len(txSteps[w]) + 1
          BY <1>5, <3>1, <3>3
        <4> QED BY <2>2, <2>3, <4>1
      <3> QED BY <3>2, <3>3
    <2> QED BY <1>7, <2>4 DEF Timed
  <1>8. Timed(txSteps'[w], txGate'[w])
    <2>1. CASE txAsks'[w] = txAsks[w]
      BY <1>1, <1>3, <1>5, <2>1, TimedAmong
    <2>2. CASE \E e \in todo[w] :
                 txAsks'[w] \in {txAsks[w], txAsks[w] \cup {e}} /\ txSteps'[w] = txSteps[w]
      BY <1>7, <2>2
    <2> QED BY <1>1, <2>1, <2>2, AsksStep DEF AsksMove
  <1> QED BY <1>4, <1>8 DEF SettlerTimed

(* Nothing is asked at first.                                                *)
LEMMA GateInvInit == TInit => GateInv
  <1> SUFFICES ASSUME TInit PROVE GateInv
    OBVIOUS
  <1>1. RInv
    BY InitRInv DEF TInit
  <1>2. \A r \in Runs : DOMAIN gate[r] = DOMAIN approvals[r] /\ DOMAIN gate[r] = {}
    BY DEF TInit, Init
  <1>3. \A w \in Workers : DOMAIN txGate[w] = {} /\ txAsks[w] = {} /\ pc[w] = "idle"
    BY DEF TInit, Init
  <1> QED BY <1>1, <1>2, <1>3 DEF GateInv, Timed, SettlerTimed

(* Every step keeps the numbers in their places.                             *)
LEMMA GateInvStep == GateInv /\ [TNext]_<<vars, historyVars>> => GateInv'
  <1> SUFFICES ASSUME GateInv, [TNext]_<<vars, historyVars>> PROVE GateInv'
    OBVIOUS
  <1>1. RInv'
    BY RInvStep DEF GateInv, TNext
  <1>2. CASE UNCHANGED <<vars, historyVars>>
    BY <1>1, <1>2 DEF GateInv, SettlerTimed, vars, dbVars, txVars, historyVars
  <1>3. CASE TNext
    <2>1. Next /\ Gates
      BY <1>3 DEF TNext
    <2>2. \A r \in Runs : DOMAIN gate'[r] = DOMAIN approvals'[r] /\ Timed(steps'[r], gate'[r])
      BY <2>1, CommittedTimed
    <2>3. \A w \in Workers : DOMAIN txGate'[w] = txAsks'[w]
      BY <2>1 DEF Gates
    <2>4. ASSUME NEW w \in Workers PROVE SettlerTimed(w)'
      <3>1. CASE pc'[w] # "settling"
        BY <3>1 DEF SettlerTimed
      <3>2. CASE pc'[w] = "settling" /\ pc[w] = "settling"
        BY <2>1, <3>2, OpenTimed
      <3>3. CASE pc'[w] = "settling" /\ pc[w] # "settling"
        <4>1. BeginSettle(w)
          BY <2>1, <3>3, TxStep DEF GateInv, RInv, TxAnswered, TxRan
        <4> QED BY <2>1, <3>3, <4>1, BeginTimed
      <3> QED BY <3>1, <3>2, <3>3
    <2> QED BY <1>1, <2>2, <2>3, <2>4 DEF GateInv
  <1> QED BY <1>2, <1>3

(* Every approval has a step_seq that fits the log it was asked in, whoever  *)
(* settles the turn, and however often (_settle).                            *)
THEOREM NumbersFit == TSpec => []GateInv
  BY GateInvInit, GateInvStep, PTL DEF TSpec

(* A decision a call was settled on is shown after the turn that made the    *)
(* call and no later than the step it let through or refused (show).         *)
THEOREM DecisionsAreShownAlways == TSpec => []DecisionsAreShown
  <1>1. GateInv => DecisionsAreShown
    <2> SUFFICES ASSUME GateInv, NEW r \in Runs, NEW j \in Answers(steps[r]),
                        steps[r][j].call \in DOMAIN approvals[r]
                 PROVE  \E i \in steps[r][j].call[1] + 1..j : steps[r][j].call \in Shown(r)[i].decisions
      BY DEF DecisionsAreShown
    <2> DEFINE c == steps[r][j].call
               i == gate[r][c]
    <2>1. c \in CallIds /\ steps[r] \in Seq(Step) /\ Timed(steps[r], gate[r]) /\ c \in DOMAIN gate[r]
      BY DEF GateInv, RInv, IInv, TypeOK
    <2>2. i \in Nat /\ c[1] < i /\ i <= j
      BY <2>1 DEF Timed
    <2>3. c[1] \in Nat /\ j \in 1..Len(steps[r]) /\ Len(steps[r]) \in Nat /\ DOMAIN steps[r] = 1..Len(steps[r])
      BY <2>1 DEF CallIds, Answers
    <2>4. i \in c[1] + 1..j /\ i \in DOMAIN steps[r]
      BY <2>2, <2>3
    <2>5. c \in Shown(r)[i].decisions
      BY <2>1, <2>4 DEF Shown
    <2> QED BY <2>4, <2>5
  <1> QED BY <1>1, NumbersFit, PTL

-----------------------------------------------------------------------------
(* Sequences: what is joined and picked, one piece at a time. *)

(* What holds at zero and at the successor of a number below n holds up to n. *)
LEMMA Climb ==
  ASSUME NEW n \in Nat, NEW Good, 0 \in Good, \A i \in 0..n : i # n /\ i \in Good => i + 1 \in Good
  PROVE  \A i \in 0..n : i \in Good
  <1> DEFINE Bad == {i \in 0..n : i \notin Good}
  <1>1. SUFFICES ASSUME Bad # {} PROVE FALSE
    OBVIOUS
  <1>2. Bad \subseteq Nat
    OBVIOUS
  <1>3. PICK i \in Bad : \A j \in Bad : ~(<<j, i>> \in OpToRel(<, Nat))
    BY <1>1, <1>2, WFMin, NatLessThanWellFounded
  <1>4. i \in Nat /\ i <= n /\ i # 0 /\ i - 1 \in 0..n
    OBVIOUS
  <1>5. ASSUME NEW j \in Nat, j < i PROVE <<j, i>> \in OpToRel(<, Nat)
    BY <1>4, <1>5 DEF OpToRel
  <1>6. i - 1 \notin Bad
    <2>1. i - 1 \in Nat /\ i - 1 < i
      BY <1>4
    <2>2. <<i - 1, i>> \in OpToRel(<, Nat)
      BY <1>5, <2>1
    <2> HIDE DEF Bad
    <2> QED BY <1>3, <2>2
  <1> QED BY <1>4, <1>6

(* p says what has been joined after each of the pieces.                     *)
JoinTable(pieces, n, p) ==
  p = [i \in 0..n |->
         IF i = 0 THEN <<>>
         ELSE p[i - 1] \o pieces[i]]

(* Such a table exists.                                                      *)
LEMMA JoinTableExists ==
  ASSUME NEW pieces, NEW n \in Nat
  PROVE  \E p : JoinTable(pieces, n, p)
  <1> DEFINE Good == {m \in Nat : \E p : JoinTable(pieces, m, p)}
  <1>1. 0 \in Good
    <2> DEFINE p == [i \in 0..0 |-> <<>>]
    <2>1. p = [i \in 0..0 |-> IF i = 0 THEN <<>>
                ELSE p[i - 1] \o pieces[i]]
      OBVIOUS
    <2>2. JoinTable(pieces, 0, p)
      <3> HIDE DEF p
      <3> QED BY <2>1 DEF JoinTable
    <2> QED BY <2>2
  <1>2. ASSUME NEW m \in 0..n, m \in Good PROVE m + 1 \in Good
    <2>1. PICK p : JoinTable(pieces, m, p)
      BY <1>2
    <2> DEFINE last == p[m] \o pieces[m + 1]
               q == [i \in 0..(m + 1) |-> IF i = m + 1 THEN last ELSE p[i]]
               h == [i \in 0..(m + 1) |-> IF i = 0 THEN <<>>
                       ELSE q[i - 1] \o pieces[i]]
    <2>2. ASSUME NEW i \in 0..(m + 1) PROVE q[i] = h[i]
      <3>1. CASE i = m + 1
        <4>1. q[m] = p[m]
          OBVIOUS
        <4>2. q[i] = last
          <5> HIDE DEF last
          <5> QED BY <3>1
        <4>3. i # 0 /\ i - 1 = m
          BY <3>1
        <4> HIDE DEF q
        <4> QED BY <3>1, <4>1, <4>2, <4>3
      <3>2. CASE i # m + 1
        <4>1. q[i] = p[i] /\ (i # 0 => q[i - 1] = p[i - 1])
          BY <3>2
        <4>2. p[i] = IF i = 0 THEN <<>>
                     ELSE p[i - 1] \o pieces[i]
          <5>1. i \in 0..m
            BY <3>2
          <5> QED BY <2>1, <5>1 DEF JoinTable
        <4> HIDE DEF q
        <4> QED BY <4>1, <4>2
      <3> QED BY <3>1, <3>2
    <2>3. q = h
      <3> HIDE DEF last
      <3> QED BY <2>2
    <2>4. JoinTable(pieces, m + 1, q)
      <3> HIDE DEF q
      <3> QED BY <2>3 DEF JoinTable
    <2>5. m + 1 \in Nat
      OBVIOUS
    <2> QED BY <2>4, <2>5
  <1>3. n \in Good
    <2> HIDE DEF Good
    <2> QED BY <1>1, <1>2, Climb
  <1> QED BY <1>3

(* Joined is the last entry of a table.                                      *)
LEMMA JoinedIs ==
  ASSUME NEW pieces, Len(pieces) \in Nat
  PROVE  \E p : JoinTable(pieces, Len(pieces), p) /\ Joined(pieces) = p[Len(pieces)]
  <1> DEFINE p == CHOOSE q : JoinTable(pieces, Len(pieces), q)
  <1>1. JoinTable(pieces, Len(pieces), p)
    BY JoinTableExists
  <1>2. Joined(pieces) = p[Len(pieces)]
    BY Zenon DEF Joined, JoinTable
  <1> QED BY <1>1, <1>2

(* What a table of joins holds after each of the pieces.                     *)
LEMMA JoinSteps ==
  ASSUME NEW S, NEW pieces \in Seq(Seq(S)), NEW n \in 0..Len(pieces), NEW p, JoinTable(pieces, n, p)
  PROVE  /\ p[0] = <<>>
         /\ \A i \in 1..n : p[i] = p[i - 1] \o pieces[i]
         /\ \A i \in 0..n : p[i] \in Seq(S)
  <1>1. p[0] = <<>>
    BY DEF JoinTable
  <1>2. ASSUME NEW i \in 1..n PROVE p[i] = p[i - 1] \o pieces[i]
    <2>1. i \in 0..n /\ i # 0
      OBVIOUS
    <2> QED BY <2>1 DEF JoinTable
  <1> DEFINE Good == {i \in 0..n : p[i] \in Seq(S)}
  <1>3. 0 \in Good
    <2>1. <<>> \in Seq(S) /\ 0 \in 0..n
      OBVIOUS
    <2>2. p[0] \in Seq(S)
      BY <1>1, <2>1
    <2> QED BY <2>1, <2>2
  <1>4. ASSUME NEW i \in 0..n, i # n, i \in Good PROVE i + 1 \in Good
    <2>1. i + 1 \in 1..n /\ (i + 1) - 1 = i /\ pieces[i + 1] \in Seq(S)
      BY <1>4
    <2>2. p[i + 1] = p[i] \o pieces[i + 1]
      BY <1>2, <2>1
    <2>3. p[i] \in Seq(S)
      BY <1>4
    <2>4. p[i + 1] \in Seq(S)
      BY <2>1, <2>2, <2>3
    <2> QED BY <2>1, <2>4
  <1>5. \A i \in 0..n : i \in Good
    <2> HIDE DEF Good
    <2>1. n \in Nat
      OBVIOUS
    <2> QED BY <1>3, <1>4, <2>1, Climb
  <1> QED BY <1>1, <1>2, <1>5

(* Tables agree as far as the pieces do.                                     *)
LEMMA JoinsAgree ==
  ASSUME NEW a, NEW b, NEW k \in Nat, NEW n \in Nat, k <= n, \A i \in 1..k : a[i] = b[i],
         NEW p, NEW q, JoinTable(a, k, p), JoinTable(b, n, q)
  PROVE  p[k] = q[k]
  <1> DEFINE Good == {i \in 0..k : p[i] = q[i]}
  <1>1. 0 \in Good
    BY DEF JoinTable
  <1>2. ASSUME NEW i \in 0..k, i # k, i \in Good PROVE i + 1 \in Good
    <2>1. i + 1 \in 0..k /\ i + 1 \in 0..n /\ i + 1 \in 1..k /\ (i + 1) - 1 = i /\ i + 1 # 0
      BY <1>2
    <2>2. p[i + 1] = p[i] \o a[i + 1]
      BY <2>1 DEF JoinTable
    <2>3. q[i + 1] = q[i] \o b[i + 1]
      BY <2>1 DEF JoinTable
    <2>4. p[i] = q[i] /\ a[i + 1] = b[i + 1]
      BY <1>2, <2>1
    <2>5. p[i + 1] = q[i + 1]
      BY <2>2, <2>3, <2>4
    <2> QED BY <2>1, <2>5
  <1>3. k \in Good
    <2> HIDE DEF Good
    <2> QED BY <1>1, <1>2, Climb
  <1> QED BY <1>3

(* A piece more is joined at the end.                                        *)
LEMMA JoinedGrows ==
  ASSUME NEW a, NEW b, NEW k \in Nat, Len(a) = k, Len(b) = k + 1, \A i \in 1..k : a[i] = b[i]
  PROVE  Joined(b) = Joined(a) \o b[k + 1]
  <1>1. PICK p : JoinTable(a, k, p) /\ Joined(a) = p[k]
    BY JoinedIs
  <1>2. PICK q : JoinTable(b, k + 1, q) /\ Joined(b) = q[k + 1]
    BY JoinedIs
  <1>3. k + 1 \in Nat /\ k <= k + 1
    OBVIOUS
  <1>4. p[k] = q[k]
    BY <1>1, <1>2, <1>3, JoinsAgree
  <1>5. k + 1 \in 0..k + 1 /\ k + 1 # 0 /\ (k + 1) - 1 = k
    OBVIOUS
  <1>6. q[k + 1] = q[k] \o b[k + 1]
    BY <1>2, <1>5 DEF JoinTable
  <1> QED BY <1>1, <1>2, <1>4, <1>6

(* Nothing joined is nothing; what is joined of sequences is a sequence.     *)
LEMMA JoinedAppend ==
  ASSUME NEW S, NEW pieces \in Seq(Seq(S)), NEW piece \in Seq(S)
  PROVE  /\ Joined(pieces) \in Seq(S)
         /\ Joined(Append(pieces, piece)) = Joined(pieces) \o piece
         /\ pieces = <<>> => Joined(pieces) = <<>>
  <1>1. PICK k \in Nat : k = Len(pieces) /\ k \in 0..Len(pieces)
    OBVIOUS
  <1>2. PICK p : JoinTable(pieces, k, p) /\ Joined(pieces) = p[k]
    BY <1>1, JoinedIs
  <1>3. Joined(pieces) \in Seq(S)
    <2>1. \A i \in 0..k : p[i] \in Seq(S)
      BY <1>1, <1>2, JoinSteps
    <2>2. k \in 0..k
      OBVIOUS
    <2> QED BY <1>2, <2>1, <2>2
  <1>4. pieces = <<>> => Joined(pieces) = <<>>
    <2>1. pieces = <<>> => k = 0
      BY <1>1
    <2> QED BY <1>1, <1>2, <2>1, JoinSteps
  <1>5. PICK more : more = Append(pieces, piece)
    OBVIOUS
  <1>6. Len(more) = k + 1 /\ (\A i \in 1..k : pieces[i] = more[i]) /\ more[k + 1] = piece
    BY <1>1, <1>5
  <1>7. Joined(more) = Joined(pieces) \o more[k + 1]
    BY <1>1, <1>6, JoinedGrows
  <1> QED BY <1>3, <1>4, <1>5, <1>6, <1>7

(* What a pick keeps of each place.                                          *)
Pieces(s, kept) == [i \in DOMAIN s |-> IF i \in kept THEN <<s[i]>> ELSE <<>>]

(* An element more is picked or not, and the rest as before.                 *)
LEMMA PickedAppend ==
  ASSUME NEW S, NEW s \in Seq(S), NEW x \in S, NEW kept, NEW taken,
         \A i \in 1..Len(s) : i \in kept <=> i \in taken
  PROVE  /\ Picked(s, kept) \in Seq(S)
         /\ Picked(Append(s, x), taken) =
              IF Len(s) + 1 \in taken THEN Append(Picked(s, kept), x) ELSE Picked(s, kept)
  <1> DEFINE piece == IF Len(s) + 1 \in taken THEN <<x>> ELSE <<>>
  <1>1. /\ Pieces(s, kept) \in Seq(Seq(S)) /\ Len(Pieces(s, kept)) = Len(s)
        /\ piece \in Seq(S)
    <2>1. \A i \in 1..Len(s) : <<s[i]>> \in Seq(S)
      OBVIOUS
    <2>2. <<>> \in Seq(S) /\ Len(s) \in Nat /\ DOMAIN s = 1..Len(s) /\ <<x>> \in Seq(S)
      OBVIOUS
    <2>3. \A i \in 1..Len(s) : (IF i \in kept THEN <<s[i]>> ELSE <<>>) \in Seq(S)
      BY <2>1, <2>2
    <2> QED BY <2>2, <2>3 DEF Pieces
  <1>2. /\ Pieces(Append(s, x), taken) \in Seq(Seq(S))
        /\ Len(Pieces(Append(s, x), taken)) = Len(s) + 1
    BY DEF Pieces
  <1>3. Pieces(Append(s, x), taken) = Append(Pieces(s, kept), piece)
    <2>1. /\ Append(Pieces(s, kept), piece) \in Seq(Seq(S))
          /\ Len(Append(Pieces(s, kept), piece)) = Len(s) + 1
      BY <1>1
    <2>2. ASSUME NEW i \in 1..Len(s) + 1
          PROVE  Pieces(Append(s, x), taken)[i] = Append(Pieces(s, kept), piece)[i]
      <3>1. CASE i = Len(s) + 1
        <4>1. Append(Pieces(s, kept), piece)[i] = piece
          BY <1>1, <3>1
        <4>2. Append(s, x)[i] = x /\ i \in DOMAIN Append(s, x)
          BY <3>1
        <4>3. Pieces(Append(s, x), taken)[i] = piece
          BY <3>1, <4>2 DEF Pieces
        <4> QED BY <4>1, <4>3
      <3>2. CASE i \in 1..Len(s)
        <4>1. Append(Pieces(s, kept), piece)[i] = Pieces(s, kept)[i]
          <5> HIDE DEF piece
          <5> QED BY <1>1, <3>2
        <4>2. Append(s, x)[i] = s[i] /\ i \in DOMAIN Append(s, x) /\ i \in DOMAIN s
          BY <3>2
        <4>3. Pieces(Append(s, x), taken)[i] = Pieces(s, kept)[i]
          BY <3>2, <4>2 DEF Pieces
        <4> QED BY <4>1, <4>3
      <3>3. i = Len(s) + 1 \/ i \in 1..Len(s)
        OBVIOUS
      <3> HIDE DEF piece
      <3> QED BY <3>1, <3>2, <3>3
    <2> HIDE DEF piece
    <2> QED BY <1>2, <2>1, <2>2, SeqEqual
  <1> DEFINE pieces == Pieces(s, kept)
  <1>4. Joined(pieces) \in Seq(S) /\ Joined(Append(pieces, piece)) = Joined(pieces) \o piece
    <2> HIDE DEF pieces, piece
    <2> QED BY <1>1, JoinedAppend DEF pieces
  <1>5. Joined(pieces) \o piece = IF Len(s) + 1 \in taken THEN Append(Joined(pieces), x) ELSE Joined(pieces)
    <2>1. \A a \in Seq(S) : a \o <<x>> = Append(a, x) /\ a \o <<>> = a
      OBVIOUS
    <2> HIDE DEF pieces
    <2> QED BY <1>4, <2>1
  <1> QED BY <1>3, <1>4, <1>5 DEF Picked, Pieces

(* Of nothing nothing is picked; with everything kept all is, and with       *)
(* nothing kept nothing.                                                     *)
LEMMA PickedAll ==
  ASSUME NEW S, NEW s \in Seq(S), NEW kept
  PROVE  /\ s = <<>> => Picked(s, kept) = <<>>
         /\ (\A i \in 1..Len(s) : i \in kept) => Picked(s, kept) = s
         /\ (\A i \in 1..Len(s) : i \notin kept) => Picked(s, kept) = <<>>
  <1>1. PICK n \in Nat : n = Len(s) /\ DOMAIN s = 1..n
    OBVIOUS
  <1>2. PICK pieces : pieces = Pieces(s, kept)
    OBVIOUS
  <1>3. Len(pieces) = n /\ \A i \in 1..n : pieces[i] = IF i \in kept THEN <<s[i]>> ELSE <<>>
    BY <1>1, <1>2 DEF Pieces
  <1>4. PICK p : JoinTable(pieces, n, p) /\ Picked(s, kept) = p[n]
    BY <1>2, <1>3, JoinedIs DEF Picked, Pieces
  <1>5. p[0] = <<>>
    BY <1>4 DEF JoinTable
  <1>6. ASSUME NEW i \in 0..n, i # n PROVE p[i + 1] = p[i] \o pieces[i + 1]
    <2>1. i + 1 \in 0..n /\ i + 1 # 0 /\ (i + 1) - 1 = i
      BY <1>6
    <2> QED BY <1>4, <2>1 DEF JoinTable
  <1>7. s = <<>> => Picked(s, kept) = <<>>
    BY <1>1, <1>4, <1>5
  <1>8. ASSUME \A i \in 1..n : i \in kept PROVE Picked(s, kept) = s
    <2> DEFINE Good == {i \in 0..n : p[i] = SubSeq(s, 1, i)}
    <2>1. 0 \in Good
      <3>1. SubSeq(s, 1, 0) = <<>> /\ 0 \in 0..n
        OBVIOUS
      <3> QED BY <1>5, <3>1
    <2>2. ASSUME NEW i \in 0..n, i # n, i \in Good PROVE i + 1 \in Good
      <3>1. i + 1 \in 1..n /\ i + 1 \in 0..n /\ s[i + 1] \in S
        BY <1>1, <2>2
      <3>2. p[i + 1] = p[i] \o pieces[i + 1]
        BY <1>6, <2>2
      <3>3. pieces[i + 1] = <<s[i + 1]>> /\ p[i] = SubSeq(s, 1, i)
        BY <1>3, <1>8, <2>2, <3>1
      <3>4. SubSeq(s, 1, i) \o <<s[i + 1]>> = SubSeq(s, 1, i + 1)
        <4>1. /\ SubSeq(s, 1, i) \in Seq(S) /\ Len(SubSeq(s, 1, i)) = i
              /\ \A j \in 1..i : SubSeq(s, 1, i)[j] = s[j]
          BY <1>1, <3>1
        <4>2. /\ SubSeq(s, 1, i + 1) \in Seq(S) /\ Len(SubSeq(s, 1, i + 1)) = i + 1
              /\ \A j \in 1..i + 1 : SubSeq(s, 1, i + 1)[j] = s[j]
          BY <1>1, <3>1
        <4>3. PICK a \in Seq(S) : a = SubSeq(s, 1, i)
          BY <4>1
        <4>4. PICK b \in Seq(S) : b = SubSeq(s, 1, i + 1)
          BY <4>2
        <4>5. PICK x \in S : x = s[i + 1]
          BY <3>1
        <4>6. /\ a \o <<x>> \in Seq(S) /\ Len(a \o <<x>>) = i + 1
              /\ \A j \in 1..i + 1 : (a \o <<x>>)[j] = s[j]
          BY <3>1, <4>1, <4>3, <4>5
        <4>7. a \o <<x>> = b
          BY <4>2, <4>4, <4>6, SeqEqual
        <4> QED BY <4>3, <4>4, <4>5, <4>7
      <3>5. p[i + 1] = SubSeq(s, 1, i + 1)
        BY <3>2, <3>3, <3>4
      <3> QED BY <3>1, <3>5
    <2>3. n \in Good
      <3>1. n \in 0..n
        OBVIOUS
      <3>2. \A i \in 0..n : i \in Good
        <4> HIDE DEF Good
        <4> QED BY <2>1, <2>2, Climb
      <3> HIDE DEF Good
      <3> QED BY <3>1, <3>2
    <2>4. SubSeq(s, 1, n) = s
      BY <1>1
    <2> QED BY <1>4, <2>3, <2>4
  <1>9. ASSUME \A i \in 1..n : i \notin kept PROVE Picked(s, kept) = <<>>
    <2> DEFINE Good == {i \in 0..n : p[i] = <<>>}
    <2>1. 0 \in Good
      BY <1>5
    <2>2. ASSUME NEW i \in 0..n, i # n, i \in Good PROVE i + 1 \in Good
      <3>1. i + 1 \in 1..n /\ i + 1 \in 0..n
        BY <2>2
      <3>2. p[i + 1] = p[i] \o pieces[i + 1]
        BY <1>6, <2>2
      <3>3. pieces[i + 1] = <<>> /\ p[i] = <<>>
        BY <1>3, <1>9, <2>2, <3>1
      <3>4. <<>> \o <<>> = <<>>
        OBVIOUS
      <3>5. p[i + 1] = <<>>
        BY <3>2, <3>3, <3>4
      <3> QED BY <3>1, <3>5
    <2>3. n \in Good
      <3>1. n \in 0..n
        OBVIOUS
      <3>2. \A i \in 0..n : i \in Good
        <4> HIDE DEF Good
        <4> QED BY <2>1, <2>2, Climb
      <3> HIDE DEF Good
      <3> QED BY <3>1, <3>2
    <2> QED BY <1>4, <2>3
  <1> QED BY <1>1, <1>7, <1>8, <1>9

-----------------------------------------------------------------------------
(* The conversation, one step at a time. *)

(* The conversation before the first step; p says how it stands after each.  *)
Start == [messages |-> <<Prompt>>, pending |-> <<>>]

TalkTable(log, n, p) ==
  p = [i \in 0..n |->
         IF i = 0 THEN Start
         ELSE Taken(p[i - 1], log, i)]

(* Such a table exists, too.                                                 *)
LEMMA TalkTableExists ==
  ASSUME NEW log, NEW n \in Nat
  PROVE  \E p : TalkTable(log, n, p)
  <1> DEFINE Good == {m \in Nat : \E p : TalkTable(log, m, p)}
  <1>1. 0 \in Good
    <2> DEFINE p == [i \in 0..0 |-> Start]
    <2>1. p = [i \in 0..0 |-> IF i = 0 THEN Start
                ELSE Taken(p[i - 1], log, i)]
      OBVIOUS
    <2>2. TalkTable(log, 0, p)
      <3> HIDE DEF p
      <3> QED BY <2>1 DEF TalkTable
    <2> QED BY <2>2
  <1>2. ASSUME NEW m \in 0..n, m \in Good PROVE m + 1 \in Good
    <2>1. PICK p : TalkTable(log, m, p)
      BY <1>2
    <2> DEFINE last == Taken(p[m], log, m + 1)
               q == [i \in 0..(m + 1) |-> IF i = m + 1 THEN last ELSE p[i]]
               h == [i \in 0..(m + 1) |-> IF i = 0 THEN Start
                       ELSE Taken(q[i - 1], log, i)]
    <2>2. ASSUME NEW i \in 0..(m + 1) PROVE q[i] = h[i]
      <3>1. CASE i = m + 1
        <4>1. q[m] = p[m]
          OBVIOUS
        <4>2. q[i] = last
          <5> HIDE DEF last
          <5> QED BY <3>1
        <4>3. i # 0 /\ i - 1 = m
          BY <3>1
        <4> HIDE DEF q
        <4> QED BY <3>1, <4>1, <4>2, <4>3
      <3>2. CASE i # m + 1
        <4>1. q[i] = p[i] /\ (i # 0 => q[i - 1] = p[i - 1])
          BY <3>2
        <4>2. p[i] = IF i = 0 THEN Start
                     ELSE Taken(p[i - 1], log, i)
          <5>1. i \in 0..m
            BY <3>2
          <5> QED BY <2>1, <5>1 DEF TalkTable
        <4> HIDE DEF q
        <4> QED BY <4>1, <4>2
      <3> QED BY <3>1, <3>2
    <2>3. q = h
      <3> HIDE DEF last
      <3> QED BY <2>2
    <2>4. TalkTable(log, m + 1, q)
      <3> HIDE DEF q
      <3> QED BY <2>3 DEF TalkTable
    <2>5. m + 1 \in Nat
      OBVIOUS
    <2> QED BY <2>4, <2>5
  <1>3. n \in Good
    <2> HIDE DEF Good
    <2> QED BY <1>1, <1>2, Climb
  <1> QED BY <1>3

(* Conversation is the last entry of a table.                                      *)
LEMMA ConversationIs ==
  ASSUME NEW log, Len(log) \in Nat
  PROVE  \E p : TalkTable(log, Len(log), p) /\ Conversation(log) = p[Len(log)]
  <1> DEFINE p == CHOOSE q : TalkTable(log, Len(log), q)
  <1>1. TalkTable(log, Len(log), p)
    BY TalkTableExists
  <1>2. Conversation(log) = p[Len(log)]
    BY Zenon DEF Conversation, Start, TalkTable
  <1> QED BY <1>1, <1>2

(* They agree as far as the logs do.                                          *)
LEMMA TalksAgree ==
  ASSUME NEW a, NEW b, NEW k \in Nat, NEW n \in Nat, k <= n, \A i \in 1..k : a[i] = b[i],
         NEW p, NEW q, TalkTable(a, k, p), TalkTable(b, n, q)
  PROVE  p[k] = q[k]
  <1> DEFINE Good == {i \in 0..k : p[i] = q[i]}
  <1>1. 0 \in Good
    BY DEF TalkTable
  <1>2. ASSUME NEW i \in 0..k, i # k, i \in Good PROVE i + 1 \in Good
    <2>1. i + 1 \in 0..k /\ i + 1 \in 0..n /\ i + 1 \in 1..k /\ (i + 1) - 1 = i /\ i + 1 # 0
      BY <1>2
    <2>2. p[i + 1] = Taken(p[i], a, i + 1)
      BY <2>1 DEF TalkTable
    <2>3. q[i + 1] = Taken(q[i], b, i + 1)
      BY <2>1 DEF TalkTable
    <2>4. p[i] = q[i] /\ a[i + 1] = b[i + 1]
      BY <1>2, <2>1
    <2>5. Taken(p[i], a, i + 1) = Taken(p[i], b, i + 1)
      BY <2>4 DEF Taken, Assistant
    <2>6. p[i + 1] = q[i + 1]
      BY <2>2, <2>3, <2>4, <2>5
    <2> QED BY <2>1, <2>6
  <1>3. k \in Good
    <2> HIDE DEF Good
    <2> QED BY <1>1, <1>2, Climb
  <1> QED BY <1>3

(* A step more is taken at the end.                                          *)
LEMMA ConversationGrows ==
  ASSUME NEW a, NEW b, NEW k \in Nat, Len(a) = k, Len(b) = k + 1, \A i \in 1..k : a[i] = b[i]
  PROVE  Conversation(b) = Taken(Conversation(a), b, k + 1)
  <1>1. PICK p : TalkTable(a, k, p) /\ Conversation(a) = p[k]
    BY ConversationIs
  <1>2. PICK q : TalkTable(b, k + 1, q) /\ Conversation(b) = q[k + 1]
    BY ConversationIs
  <1>3. k + 1 \in Nat /\ k <= k + 1
    OBVIOUS
  <1>4. p[k] = q[k]
    BY <1>1, <1>2, <1>3, TalksAgree
  <1>5. k + 1 \in 0..k + 1 /\ k + 1 # 0 /\ (k + 1) - 1 = k
    OBVIOUS
  <1>6. q[k + 1] = Taken(q[k], b, k + 1)
    BY <1>2, <1>5 DEF TalkTable
  <1> QED BY <1>1, <1>2, <1>4, <1>6

(* How the conversation of a log moves when the log does.                    *)
LEMMA ConversationMoves ==
  /\ Conversation(<<>>) = Start
  /\ \A log \in Seq(Step), s \in Step :
       Conversation(Append(log, s)) = Taken(Conversation(log), Append(log, s), Len(log) + 1)
  <1>1. Conversation(<<>>) = Start
    <2>1. PICK n : n = 0 /\ n \in Nat /\ n = Len(<<>>)
      OBVIOUS
    <2>2. PICK p : TalkTable(<<>>, n, p) /\ Conversation(<<>>) = p[n]
      BY <2>1, ConversationIs
    <2> QED BY <2>1, <2>2 DEF TalkTable
  <1>2. ASSUME NEW log \in Seq(Step), NEW s \in Step
        PROVE  Conversation(Append(log, s)) = Taken(Conversation(log), Append(log, s), Len(log) + 1)
    <2>1. PICK more : more = Append(log, s)
      OBVIOUS
    <2>2. PICK k \in Nat : k = Len(log)
      OBVIOUS
    <2>3. Len(more) = k + 1 /\ \A i \in 1..k : log[i] = more[i]
      BY <2>1, <2>2
    <2> QED BY <2>1, <2>2, <2>3, ConversationGrows
  <1> QED BY <1>1, <1>2

-----------------------------------------------------------------------------
(* The messages and what is sent of each. *)

(* The blocks and messages of a conversation, and a message of the other     *)
(* shape.                                                                    *)
Block == [type: {"text"}] \cup [type: {"tool_use"}, id: CallIds, action: Actions]
           \cup [type: {"tool_result"}, id: CallIds, error: BOOLEAN]
Message == [role: {"user", "assistant"}, content: Seq(Block)]
OutMessage == [role: {"assistant", "tool", "user"}, ids: Seq(CallIds)]

(* What is picked is from the places that are kept.                          *)
LEMMA PickedWithin ==
  ASSUME NEW S, NEW s \in Seq(S), NEW kept
  PROVE  Picked(s, kept) \in Seq({s[i] : i \in kept \cap DOMAIN s})
  <1>1. PICK T : T = {s[i] : i \in kept \cap DOMAIN s}
    OBVIOUS
  <1>2. \A i \in 1..Len(s) : (IF i \in kept THEN <<s[i]>> ELSE <<>>) \in Seq(T)
    <2>1. ASSUME NEW i \in 1..Len(s) PROVE (IF i \in kept THEN <<s[i]>> ELSE <<>>) \in Seq(T)
      <3>1. CASE i \in kept
        <4>1. s[i] \in T
          BY <1>1, <3>1
        <4>2. \A x \in T : <<x>> \in Seq(T)
          OBVIOUS
        <4> QED BY <3>1, <4>1, <4>2
      <3>2. CASE i \notin kept
        BY <3>2
      <3> QED BY <3>1, <3>2
    <2> QED BY <2>1
  <1>3. Pieces(s, kept) \in Seq(Seq(T))
    <2>1. Len(s) \in Nat /\ DOMAIN s = 1..Len(s)
      OBVIOUS
    <2> QED BY <1>2, <2>1 DEF Pieces
  <1>4. \A pieces \in Seq(Seq(T)) : Joined(pieces) \in Seq(T)
    <2>1. <<>> \in Seq(T)
      OBVIOUS
    <2> QED BY <2>1, JoinedAppend
  <1> QED BY <1>1, <1>3, <1>4 DEF Picked, Pieces

(* The blocks of one type, and their ids.                                    *)
LEMMA BlocksTyped ==
  ASSUME NEW m \in Message, NEW type
  PROVE  /\ Blocks(m, type) \in Seq({b \in Block : b.type = type})
         /\ type \in {"tool_use", "tool_result"} => Ids(Blocks(m, type)) \in Seq(CallIds)
         /\ Len(Ids(Blocks(m, type))) = Len(Blocks(m, type))
  <1> DEFINE T == {b \in Block : b.type = type}
  <1>1. PICK s : s = m.content /\ s \in Seq(Block)
    BY DEF Message
  <1>2. PICK kept : kept = {i \in DOMAIN s : s[i].type = type}
    OBVIOUS
  <1>3. PICK within : within = {s[i] : i \in kept \cap DOMAIN s}
    OBVIOUS
  <1>4. Picked(s, kept) \in Seq(within)
    BY <1>1, <1>3, PickedWithin
  <1>5. \A x \in within : x \in T
    BY <1>1, <1>2, <1>3
  <1>6. \A q \in Seq(within) : q \in Seq(T)
    <2> HIDE DEF T
    <2> QED BY <1>5
  <1>7. Blocks(m, type) \in Seq(T)
    BY <1>1, <1>2, <1>4, <1>6 DEF Blocks
  <1>8. PICK q : q = Blocks(m, type) /\ q \in Seq(T)
    BY <1>7
  <1>9. ASSUME type \in {"tool_use", "tool_result"} PROVE Ids(q) \in Seq(CallIds)
    <2>1. \A b \in T : b.id \in CallIds
      BY <1>9 DEF Block
    <2> HIDE DEF T
    <2>2. \A i \in 1..Len(q) : q[i].id \in CallIds
      BY <1>8, <2>1
    <2> QED BY <1>8, <2>2 DEF Ids
  <1>10. Len(Ids(q)) = Len(q)
    <2> HIDE DEF T
    <2> QED BY <1>8 DEF Ids
  <1> QED BY <1>8, <1>9, <1>10

(* A fanned message is in the other shape: calls, or results and what text   *)
(* there is.                                                                 *)
LEMMA FanTyped ==
  ASSUME NEW m \in Message
  PROVE  /\ Fan(m) \in Seq(OutMessage)
         /\ m.role = "assistant" => Fan(m) = <<[role |-> "assistant", ids |-> Ids(ToolUses(m))]>>
         /\ m.role # "assistant" =>
              \E tail \in {<<>>, <<[role |-> "user", ids |-> <<>>]>>} :
                Fan(m) = [i \in DOMAIN Results(m) |->
                            [role |-> "tool", ids |-> <<Results(m)[i].id>>]] \o tail
  <1>1. CASE m.role = "assistant"
    <2>1. PICK ids : ids = Ids(ToolUses(m)) /\ ids \in Seq(CallIds)
      BY BlocksTyped DEF ToolUses
    <2>2. [role |-> "assistant", ids |-> ids] \in OutMessage
      BY <2>1 DEF OutMessage
    <2>3. Fan(m) = <<[role |-> "assistant", ids |-> ids]>>
      BY <1>1, <2>1 DEF Fan
    <2> QED BY <1>1, <2>1, <2>2, <2>3
  <1>2. CASE m.role # "assistant"
    <2>1. PICK s : s = Results(m) /\ s \in Seq({b \in Block : b.type = "tool_result"})
      BY BlocksTyped DEF Results
    <2>2. PICK told : told = [i \in DOMAIN s |-> [role |-> "tool", ids |-> <<s[i].id>>]]
      OBVIOUS
    <2>3. told \in Seq(OutMessage)
      <3>1. \A b \in {x \in Block : x.type = "tool_result"} : <<b.id>> \in Seq(CallIds)
        BY DEF Block
      <3>2. \A i \in 1..Len(s) : [role |-> "tool", ids |-> <<s[i].id>>] \in OutMessage
        BY <2>1, <3>1 DEF OutMessage
      <3> QED BY <2>1, <2>2, <3>2
    <2>4. PICK tail : /\ tail \in {<<>>, <<[role |-> "user", ids |-> <<>>]>>}
                      /\ Fan(m) = told \o tail
      BY <1>2, <2>1, <2>2 DEF Fan
    <2>5. tail \in Seq(OutMessage)
      <3>1. [role |-> "user", ids |-> <<>>] \in OutMessage
        BY DEF OutMessage
      <3>2. <<>> \in Seq(OutMessage) /\ \A x \in OutMessage : <<x>> \in Seq(OutMessage)
        OBVIOUS
      <3> QED BY <2>4, <3>1, <3>2
    <2>6. Fan(m) \in Seq(OutMessage)
      BY <2>3, <2>4, <2>5
    <2> QED BY <1>2, <2>1, <2>2, <2>4, <2>6
  <1> QED BY <1>1, <1>2

(* A message more is fanned at the end.                                      *)
LEMMA ToOpenAIMoves ==
  ASSUME NEW ms \in Seq(Message), NEW m \in Message
  PROVE  /\ ToOpenAI(ms) \in Seq(OutMessage)
         /\ ToOpenAI(Append(ms, m)) = ToOpenAI(ms) \o Fan(m)
         /\ ms = <<>> => ToOpenAI(ms) = <<>>
  <1> DEFINE Fans(s) == [i \in DOMAIN s |-> Fan(s[i])]
  <1>1. ASSUME NEW s \in Seq(Message)
        PROVE  Fans(s) \in Seq(Seq(OutMessage)) /\ Len(Fans(s)) = Len(s)
    <2>1. \A i \in 1..Len(s) : Fan(s[i]) \in Seq(OutMessage)
      <3>1. \A i \in 1..Len(s) : s[i] \in Message
        OBVIOUS
      <3> QED BY <3>1, FanTyped
    <2>2. Len(s) \in Nat /\ DOMAIN s = 1..Len(s)
      OBVIOUS
    <2> QED BY <2>1, <2>2
  <1>2. Fans(Append(ms, m)) = Append(Fans(ms), Fan(m))
    <2>0. Append(ms, m) \in Seq(Message)
      OBVIOUS
    <2>1. PICK more : more = Append(ms, m) /\ more \in Seq(Message)
      BY <2>0, Zenon
    <2>2. PICK x \in Seq(OutMessage) : x = Fan(m)
      BY FanTyped
    <2>3. PICK a \in Seq(Seq(OutMessage)) : a = Fans(ms)
      BY <1>1
    <2>4. PICK b \in Seq(Seq(OutMessage)) : b = Fans(more)
      <3>1. Fans(more) \in Seq(Seq(OutMessage))
        BY <1>1, <2>1
      <3> HIDE DEF Fans
      <3> QED BY <3>1
    <2>5. PICK n \in Nat : n = Len(ms)
      OBVIOUS
    <2>6. /\ Append(a, x) \in Seq(Seq(OutMessage)) /\ Len(Append(a, x)) = n + 1
          /\ (\A i \in 1..n : Append(a, x)[i] = a[i]) /\ Append(a, x)[n + 1] = x
      BY <1>1, <2>3, <2>5
    <2>7. Len(b) = n + 1
      BY <1>1, <2>1, <2>4, <2>5
    <2>8. ASSUME NEW i \in 1..n + 1 PROVE b[i] = Append(a, x)[i]
      <3>1. CASE i = n + 1
        <4>1. more[i] = m /\ i \in DOMAIN more
          BY <2>1, <2>5, <3>1
        <4> QED BY <2>2, <2>4, <2>6, <3>1, <4>1
      <3>2. CASE i \in 1..n
        <4>1. more[i] = ms[i] /\ i \in DOMAIN more /\ i \in DOMAIN ms
          BY <2>1, <2>5, <3>2
        <4> QED BY <2>3, <2>4, <2>6, <3>2, <4>1
      <3>3. i = n + 1 \/ i \in 1..n
        OBVIOUS
      <3> QED BY <3>1, <3>2, <3>3
    <2>9. b = Append(a, x)
      BY <2>6, <2>7, <2>8, SeqEqual
    <2> QED BY <2>1, <2>2, <2>3, <2>4, <2>9
  <1> HIDE DEF Fans
  <1>3. Fans(ms) \in Seq(Seq(OutMessage)) /\ Fan(m) \in Seq(OutMessage)
    BY <1>1, FanTyped
  <1>4. /\ Joined(Fans(ms)) \in Seq(OutMessage)
        /\ Joined(Append(Fans(ms), Fan(m))) = Joined(Fans(ms)) \o Fan(m)
        /\ Fans(ms) = <<>> => Joined(Fans(ms)) = <<>>
    BY <1>3, JoinedAppend
  <1>5. ms = <<>> => Fans(ms) = <<>>
    BY DEF Fans
  <1>6. ToOpenAI(ms) = Joined(Fans(ms)) /\ ToOpenAI(Append(ms, m)) = Joined(Fans(Append(ms, m)))
    BY DEF ToOpenAI, Fans
  <1> QED BY <1>2, <1>4, <1>5, <1>6

-----------------------------------------------------------------------------
(* The shape in which every result is a message of its own. *)

(* The tool messages right after message m, and AnsweredByTools of it alone. *)
ToolsAfter(out, m) == {n \in DOMAIN out : n > m /\ \A l \in m + 1..n : out[l].role = "tool"}
Served(out, m) ==
  out[m].role # "tool" =>
    /\ {out[n].ids[1] : n \in ToolsAfter(out, m)} = {out[m].ids[i] : i \in DOMAIN out[m].ids}
    /\ Cardinality(ToolsAfter(out, m)) = Len(out[m].ids)

(* Every message has its tool messages but the last one, which still waits   *)
(* for those of ids.                                                         *)
Nearly(out, ids) ==
  /\ \A m \in DOMAIN out : m # Len(out) => Served(out, m)
  /\ out[Len(out)].role # "tool" => out[Len(out)].ids = ids
  /\ ids # <<>> => out[Len(out)].role # "tool"

(* What is sent later leaves a message served, if some message that is not a *)
(* tool's comes between.                                                     *)
LEMMA ServedKept ==
  ASSUME NEW out, NEW more, NEW n \in Nat, NEW k \in Nat, n <= k, DOMAIN out = 1..n, DOMAIN more = 1..k,
         \A i \in 1..n : more[i] = out[i], NEW m \in 1..n, Served(out, m),
         \A j \in n + 1..k : \E l \in m + 1..j : more[l].role # "tool"
  PROVE  Served(more, m)
  <1>1. ASSUME NEW j PROVE j \in ToolsAfter(more, m) <=> j \in ToolsAfter(out, m)
    <2>1. CASE j \in 1..n
      <3>1. \A l \in m + 1..j : l \in 1..n
        BY <2>1
      <3>2. j \in 1..k
        BY <2>1
      <3> QED BY <2>1, <3>1, <3>2 DEF ToolsAfter
    <2>2. CASE j \notin 1..n
      <3>1. j \notin ToolsAfter(out, m)
        BY <2>2 DEF ToolsAfter
      <3>2. ASSUME j \in ToolsAfter(more, m) PROVE FALSE
        <4>1. j \in n + 1..k
          BY <2>2, <3>2 DEF ToolsAfter
        <4> QED BY <3>2, <4>1 DEF ToolsAfter
      <3> QED BY <3>1, <3>2
    <2> QED BY <2>1, <2>2
  <1>2. ToolsAfter(more, m) = ToolsAfter(out, m)
    BY <1>1
  <1>3. \A j \in ToolsAfter(out, m) : more[j] = out[j]
    BY DEF ToolsAfter
  <1>4. {more[j].ids[1] : j \in ToolsAfter(out, m)} = {out[j].ids[1] : j \in ToolsAfter(out, m)}
    BY <1>3
  <1>5. more[m] = out[m]
    OBVIOUS
  <1>6. ASSUME out[m].role # "tool"
        PROVE  /\ {more[j].ids[1] : j \in ToolsAfter(more, m)} = {more[m].ids[i] : i \in DOMAIN more[m].ids}
               /\ Cardinality(ToolsAfter(more, m)) = Len(more[m].ids)
    <2>1. /\ {out[j].ids[1] : j \in ToolsAfter(out, m)} = {out[m].ids[i] : i \in DOMAIN out[m].ids}
          /\ Cardinality(ToolsAfter(out, m)) = Len(out[m].ids)
      BY <1>6 DEF Served
    <2>2. {more[j].ids[1] : j \in ToolsAfter(more, m)} = {out[j].ids[1] : j \in ToolsAfter(out, m)}
      BY <1>2, <1>4
    <2>3. {more[m].ids[i] : i \in DOMAIN more[m].ids} = {out[m].ids[i] : i \in DOMAIN out[m].ids}
      BY <1>5
    <2>4. Cardinality(ToolsAfter(more, m)) = Len(more[m].ids)
      BY <1>2, <1>5, <2>1
    <2> QED BY <2>1, <2>2, <2>3, <2>4, Zenon
  <1> QED BY <1>5, <1>6 DEF Served

(* A message without calls is served by what is not a tool's.                *)
LEMMA NothingToServe ==
  ASSUME NEW out, NEW n \in Nat, DOMAIN out = 1..n, NEW m \in 1..n,
         out[m].role # "tool" => out[m].ids = <<>>,
         m # n => out[m + 1].role # "tool"
  PROVE  Served(out, m)
  <1>1. ToolsAfter(out, m) = {}
    <2>1. ASSUME NEW j \in ToolsAfter(out, m) PROVE FALSE
      <3>1. j \in 1..n /\ j > m /\ m # n /\ m + 1 \in m + 1..j
        BY DEF ToolsAfter
      <3> QED BY <3>1 DEF ToolsAfter
    <2> QED BY <2>1
  <1>2. Cardinality(ToolsAfter(out, m)) = 0
    BY <1>1, FS_EmptySet
  <1>3. ASSUME out[m].ids = <<>> PROVE Len(out[m].ids) = 0 /\ DOMAIN out[m].ids = {}
    BY <1>3
  <1> QED BY <1>1, <1>2, <1>3 DEF Served

(* Nothing waited for: every message has its tool messages.                  *)
LEMMA AllServed ==
  ASSUME NEW out \in Seq(OutMessage), out # <<>>, Nearly(out, <<>>)
  PROVE  AnsweredByTools(out) /\ \A m \in DOMAIN out : Served(out, m)
  <1>1. PICK n \in Nat : n = Len(out) /\ DOMAIN out = 1..n /\ n \in 1..n
    OBVIOUS
  <1>2. ASSUME NEW m \in 1..n PROVE Served(out, m)
    <2>1. CASE m # n
      BY <1>1, <2>1 DEF Nearly
    <2>2. CASE m = n
      <3>1. out[m].role # "tool" => out[m].ids = <<>>
        BY <1>1, <2>2 DEF Nearly
      <3> QED BY <1>1, <2>2, <3>1, NothingToServe
    <2> QED BY <2>1, <2>2
  <1>3. \A m \in DOMAIN out : Served(out, m)
    BY <1>1, <1>2
  <1> QED BY <1>3 DEF AnsweredByTools, Served, ToolsAfter

(* A turn is sent when nothing is waited for: then its calls are.            *)
LEMMA TurnSent ==
  ASSUME NEW out \in Seq(OutMessage), out # <<>>, Nearly(out, <<>>), NEW ids \in Seq(CallIds)
  PROVE  Nearly(out \o <<[role |-> "assistant", ids |-> ids]>>, ids)
  <1>1. PICK n \in Nat : n = Len(out) /\ DOMAIN out = 1..n
    OBVIOUS
  <1>2. PICK x : x = [role |-> "assistant", ids |-> ids] /\ x \in OutMessage
    <2>1. [role |-> "assistant", ids |-> ids] \in OutMessage
      BY DEF OutMessage
    <2> QED BY <2>1
  <1>3. PICK more : more = out \o <<x>>
    OBVIOUS
  <1>4. /\ Len(more) = n + 1 /\ DOMAIN more = 1..n + 1
        /\ (\A i \in 1..n : more[i] = out[i]) /\ more[n + 1] = x
    BY <1>1, <1>2, <1>3
  <1>5. ASSUME NEW m \in 1..n PROVE Served(more, m)
    <2>1. Served(out, m)
      BY <1>1, AllServed
    <2>2. \A j \in n + 1..n + 1 : \E l \in m + 1..j : more[l].role # "tool"
      BY <1>2, <1>4
    <2>3. n + 1 \in Nat /\ n <= n + 1
      OBVIOUS
    <2> QED BY <1>1, <1>4, <2>1, <2>2, <2>3, ServedKept
  <1>6. Nearly(more, ids)
    BY <1>2, <1>4, <1>5 DEF Nearly
  <1> QED BY <1>2, <1>3, <1>6

(* Where a place is: before the results, among them, or the text after them. *)
LEMMA Places ==
  ASSUME NEW n \in Nat, NEW k \in Nat, NEW t \in {0, 1}, NEW m \in 1..n + k + t
  PROVE  m \in 1..n \/ m \in n + 1..n + k \/ (t = 1 /\ m = n + k + t)
  <1>1. CASE t = 0
    BY <1>1
  <1>2. CASE t = 1
    BY <1>2
  <1> QED BY <1>1, <1>2

(* The results, and what text there is after them, sent after out.           *)
SentAfter(out, ids, more, n, k, t) ==
  /\ n \in Nat /\ n # 0 /\ n = Len(out) /\ DOMAIN out = 1..n
  /\ ids \in Seq(CallIds) /\ k \in Nat /\ k = Len(ids) /\ Nearly(out, ids)
  /\ t \in {0, 1} /\ DOMAIN more = 1..n + k + t /\ Len(more) = n + k + t
  /\ \A i \in 1..n : more[i] = out[i]
  /\ \A i \in n + 1..n + k : more[i].role = "tool"
  /\ {more[i].ids[1] : i \in n + 1..n + k} = {ids[i] : i \in DOMAIN ids}
  /\ t = 1 => more[n + k + t] = [role |-> "user", ids |-> <<>>]

(* The results are sent in their place, and what text there is after them.   *)
LEMMA ResultsSent ==
  ASSUME NEW out, NEW ids, NEW more, NEW n, NEW k, NEW t, SentAfter(out, ids, more, n, k, t)
  PROVE  Nearly(more, <<>>)
  <1> SUFFICES ASSUME n \in Nat, n # 0, n = Len(out), DOMAIN out = 1..n,
         ids \in Seq(CallIds), k \in Nat, k = Len(ids), Nearly(out, ids),
         t \in {0, 1},
         DOMAIN more = 1..n + k + t, Len(more) = n + k + t, \A i \in 1..n : more[i] = out[i],
         \A i \in n + 1..n + k : more[i].role = "tool",
         {more[i].ids[1] : i \in n + 1..n + k} = {ids[i] : i \in DOMAIN ids},
         t = 1 => more[n + k + t] = [role |-> "user", ids |-> <<>>]
       PROVE Nearly(more, <<>>)
    BY DEF SentAfter
  <1>1. DOMAIN out = 1..n /\ n >= 1 /\ n + k + t \in Nat /\ n <= n + k + t /\ k >= 0
    OBVIOUS
  <1>2. ASSUME NEW m \in 1..n, m # n PROVE Served(more, m)
    <2>1. Served(out, m)
      BY <1>1, <1>2 DEF Nearly
    <2>2. ASSUME NEW j \in n + 1..n + k + t PROVE \E l \in m + 1..j : more[l].role # "tool"
      <3>1. CASE out[n].role # "tool"
        <4>1. n \in m + 1..j /\ more[n] = out[n]
          BY <1>1, <1>2
        <4> QED BY <3>1, <4>1
      <3>2. CASE out[n].role = "tool"
        <4>1. ids = <<>>
          BY <3>2 DEF Nearly
        <4>2. k = 0
          BY <4>1
        <4>3. t = 1 /\ j = n + k + t /\ j \in m + 1..j
          BY <1>2, <4>2
        <4> QED BY <4>3
      <3> QED BY <3>1, <3>2
    <2>3. PICK size \in Nat : size = n + k + t
      BY <1>1
    <2>4. n <= size /\ DOMAIN more = 1..size /\ \A j \in n + 1..size : \E l \in m + 1..j : more[l].role # "tool"
      BY <1>1, <2>2, <2>3
    <2> QED BY <1>1, <2>1, <2>4, ServedKept
  <1>3. Served(more, n)
    <2>1. CASE out[n].role = "tool"
      <3>1. more[n] = out[n]
        BY <1>1
      <3> QED BY <2>1, <3>1 DEF Served
    <2>2. CASE out[n].role # "tool"
      <3>1. more[n].ids = ids
        BY <1>1, <2>2 DEF Nearly
      <3>2. ToolsAfter(more, n) = n + 1..n + k
        <4>1. ASSUME NEW j \in n + 1..n + k PROVE j \in ToolsAfter(more, n)
          BY <1>1 DEF ToolsAfter
        <4>2. ASSUME NEW j \in ToolsAfter(more, n), j \notin n + 1..n + k PROVE FALSE
          <5>1. j \in 1..n + k + t /\ j > n /\ j \in n + 1..j
            BY <1>1, <4>2 DEF ToolsAfter
          <5>2. t = 1 /\ j = n + k + t
            <6>1. j \notin 1..n
              BY <5>1
            <6>2. j \in 1..n + k + t /\ j \notin n + 1..n + k
              BY <4>2, <5>1
            <6>3. j \in 1..n \/ j \in n + 1..n + k \/ (t = 1 /\ j = n + k + t)
              BY <6>2, Places
            <6> QED BY <6>1, <6>2, <6>3
          <5>3. more[j].role = "tool"
            BY <4>2, <5>1 DEF ToolsAfter
          <5> QED BY <5>2, <5>3
        <4> QED BY <4>1, <4>2
      <3>3. Cardinality(n + 1..n + k) = k
        <4>1. n + 1 \in Int /\ n + k \in Int
          OBVIOUS
        <4>2. Cardinality(n + 1..n + k) = IF n + 1 > n + k THEN 0 ELSE (n + k) - (n + 1) + 1
          BY <4>1, FS_Interval
        <4> QED BY <4>2
      <3>4. {more[i].ids[1] : i \in ToolsAfter(more, n)} = {more[n].ids[i] : i \in DOMAIN more[n].ids}
        <4>1. {more[i].ids[1] : i \in ToolsAfter(more, n)} = {more[i].ids[1] : i \in n + 1..n + k}
          BY <3>2
        <4>2. {more[n].ids[i] : i \in DOMAIN more[n].ids} = {ids[i] : i \in DOMAIN ids}
          BY <3>1
        <4> QED BY <4>1, <4>2, Zenon
      <3>5. Cardinality(ToolsAfter(more, n)) = Len(more[n].ids)
        BY <3>1, <3>2, <3>3
      <3> QED BY <3>4, <3>5 DEF Served
    <2> QED BY <2>1, <2>2
  <1>4. ASSUME NEW m \in n + 1..n + k PROVE Served(more, m)
    BY <1>4 DEF Served
  <1>5. \A m \in DOMAIN more : m # Len(more) => Served(more, m)
    <2>1. ASSUME NEW m \in 1..n + k + t, m # n + k + t PROVE Served(more, m)
      <3>1. (m \in 1..n /\ m # n) \/ m = n \/ m \in n + 1..n + k
        BY <2>1, Places
      <3> QED BY <1>2, <1>3, <1>4, <3>1
    <2> QED BY <2>1
  <1>6. more[Len(more)].role # "tool" => more[Len(more)].ids = <<>>
    <2>1. CASE t = 1
      BY <2>1
    <2>2. CASE t = 0 /\ k # 0
      <3>1. Len(more) \in n + 1..n + k
        BY <1>1, <2>2
      <3> QED BY <3>1
    <2>3. CASE t = 0 /\ k = 0
      <3>1. Len(more) = n /\ ids = <<>> /\ more[n] = out[n]
        <4>1. \A s \in Seq(CallIds) : Len(s) = 0 => s = <<>>
          OBVIOUS
        <4>2. Len(ids) = 0 /\ Len(more) = n
          BY <2>3
        <4>3. ids = <<>>
          BY <4>1, <4>2
        <4>4. more[n] = out[n]
          BY <1>1
        <4> QED BY <4>2, <4>3, <4>4
      <3> QED BY <3>1 DEF Nearly
    <2> QED BY <2>1, <2>2, <2>3
  <1> QED BY <1>5, <1>6 DEF Nearly

-----------------------------------------------------------------------------
(* How far a conversation has come. *)

(* What a user message says: no calls.  What has been gathered of results.   *)
Said == {b \in Block : b.type # "tool_use"}
Says(p) == [role |-> "user", content |-> p]

(* A conversation of messages ms, with p gathered for the next one and the   *)
(* calls of left still to be answered: everything is in place so far.        *)
Open(ms, p, left) ==
  LET uses == ToolUses(ms[Len(ms)])
      results == Results(Says(p))
  IN /\ ms \in Seq(Message) /\ ms # <<>> /\ p \in Seq(Said)
     /\ AnsweredNext(ms)
     /\ ToOpenAI(ms) # <<>> /\ Nearly(ToOpenAI(ms), Ids(uses))
     /\ Named(results) \cup left = Named(uses)
     /\ IsFiniteSet(left) /\ Len(results) + Cardinality(left) = Len(uses)
     /\ Len(results) <= Len(p) /\ \A i \in DOMAIN results : p[i].type = "tool_result"
     /\ left # {} => Len(results) = Len(p)

(* Nothing is left to be answered, nor gathered.                             *)
SettledTalk(ms) ==
  /\ ms \in Seq(Message) /\ ms # <<>>
  /\ AnsweredNext(ms)
  /\ ToOpenAI(ms) # <<>> /\ Nearly(ToOpenAI(ms), <<>>)
  /\ ToolUses(ms[Len(ms)]) = <<>>

(* What is gathered is a message; its results grow by the results added.     *)
LEMMA GatheredMoves ==
  ASSUME NEW p \in Seq(Said)
  PROVE  /\ Says(p) \in Message
         /\ Results(Says(p)) \in Seq({b \in Block : b.type = "tool_result"})
         /\ ToolUses(Says(p)) = <<>>
         /\ \A b \in Said : Results(Says(Append(p, b))) =
              IF b.type = "tool_result" THEN Append(Results(Says(p)), b) ELSE Results(Says(p))
         /\ p = <<>> => Results(Says(p)) = <<>>
  <1>1. p \in Seq(Block) /\ \A i \in 1..Len(p) : p[i] \in Said
    BY DEF Said
  <1>2. Says(p) \in Message
    BY <1>1 DEF Says, Message
  <1>3. Results(Says(p)) \in Seq({b \in Block : b.type = "tool_result"})
    BY <1>2, BlocksTyped DEF Results
  <1>4. ToolUses(Says(p)) = <<>>
    <2>1. PICK kept : kept = {i \in DOMAIN p : p[i].type = "tool_use"}
      OBVIOUS
    <2>2. \A i \in 1..Len(p) : i \notin kept
      BY <1>1, <2>1 DEF Said
    <2>3. Picked(p, kept) = <<>>
      BY <2>2, PickedAll
    <2> QED BY <2>1, <2>3 DEF ToolUses, Blocks, Says
  <1>5. ASSUME NEW b \in Said
        PROVE  Results(Says(Append(p, b))) =
                 IF b.type = "tool_result" THEN Append(Results(Says(p)), b) ELSE Results(Says(p))
    <2>1. PICK kept : kept = {i \in DOMAIN p : p[i].type = "tool_result"}
      OBVIOUS
    <2>2. PICK more : more = Append(p, b)
      OBVIOUS
    <2>3. PICK taken : taken = {i \in DOMAIN more : more[i].type = "tool_result"}
      OBVIOUS
    <2>4. PICK n \in Nat : n = Len(p) /\ DOMAIN p = 1..n
      OBVIOUS
    <2>5. DOMAIN more = 1..n + 1 /\ (\A i \in 1..n : more[i] = p[i]) /\ more[n + 1] = b
      BY <2>2, <2>4
    <2>6. \A i \in 1..n : i \in kept <=> i \in taken
      BY <2>1, <2>3, <2>4, <2>5
    <2>7. n + 1 \in taken <=> b.type = "tool_result"
      BY <2>3, <2>5
    <2>8. Picked(more, taken) = IF n + 1 \in taken THEN Append(Picked(p, kept), b) ELSE Picked(p, kept)
      BY <2>2, <2>4, <2>6, PickedAppend
    <2>9. Results(Says(p)) = Picked(p, kept) /\ Results(Says(more)) = Picked(more, taken)
      BY <2>1, <2>3 DEF Results, Blocks, Says
    <2> QED BY <2>2, <2>7, <2>8, <2>9
  <1>6. p = <<>> => Results(Says(p)) = <<>>
    BY PickedAll DEF Results, Blocks, Says
  <1> QED BY <1>2, <1>3, <1>4, <1>5, <1>6

(* A message that answers the last one keeps everything in place.            *)
LEMMA AnsweredNextMoves ==
  ASSUME NEW ms \in Seq(Message), ms # <<>>, AnsweredNext(ms), NEW m \in Message,
         Named(Results(m)) = Named(ToolUses(ms[Len(ms)])),
         Len(Results(m)) = Len(ToolUses(ms[Len(ms)])),
         \A i \in DOMAIN Results(m) : m.content[i].type = "tool_result"
  PROVE  AnsweredNext(Append(ms, m))
  <1>1. PICK n \in Nat : n = Len(ms) /\ DOMAIN ms = 1..n /\ n # 0
    OBVIOUS
  <1>2. PICK more : more = Append(ms, m)
    OBVIOUS
  <1>3. DOMAIN more = 1..n + 1 /\ (\A i \in 1..n : more[i] = ms[i]) /\ more[n + 1] = m
    BY <1>1, <1>2
  <1>4. ASSUME NEW i \in 1..n + 1
        PROVE LET answered == IF i = 1 THEN <<>> ELSE ToolUses(more[i - 1])
                  results == Results(more[i])
              IN /\ Named(results) = Named(answered)
                 /\ Len(results) = Len(answered)
                 /\ \A j \in DOMAIN results : more[i].content[j].type = "tool_result"
    <2>1. CASE i = n + 1
      <3>1. i # 1 /\ i - 1 = n /\ more[i - 1] = ms[Len(ms)] /\ more[i] = m
        BY <1>1, <1>3, <2>1
      <3> QED BY <3>1
    <2>2. CASE i \in 1..n
      <3>1. more[i] = ms[i] /\ (i # 1 => more[i - 1] = ms[i - 1])
        BY <1>3, <2>2
      <3>2. /\ Named(Results(ms[i])) = Named(IF i = 1 THEN <<>> ELSE ToolUses(ms[i - 1]))
            /\ Len(Results(ms[i])) = Len(IF i = 1 THEN <<>> ELSE ToolUses(ms[i - 1]))
            /\ \A j \in DOMAIN Results(ms[i]) : ms[i].content[j].type = "tool_result"
        BY <1>1, <2>2 DEF AnsweredNext
      <3> QED BY <3>1, <3>2
    <2>3. i = n + 1 \/ i \in 1..n
      OBVIOUS
    <2> QED BY <2>1, <2>2, <2>3
  <1>5. AnsweredNext(more)
    BY <1>3, <1>4 DEF AnsweredNext
  <1> QED BY <1>2, <1>5

(* One sequence after another.                                               *)
LEMMA Concatenated ==
  ASSUME NEW a, NEW b, a \in Seq(OutMessage), b \in Seq(OutMessage)
  PROVE  /\ a \o b \in Seq(OutMessage) /\ Len(a \o b) = Len(a) + Len(b)
         /\ (\A i \in 1..Len(a) : (a \o b)[i] = a[i])
         /\ (\A i \in 1..Len(b) : (a \o b)[Len(a) + i] = b[i])
  OBVIOUS

(* Text may be gathered when nothing is left to be answered.                 *)
LEMMA OpenText ==
  ASSUME NEW ms, NEW p, Open(ms, p, {}), NEW b \in Said, b.type # "tool_result"
  PROVE  Open(ms, Append(p, b), {})
  <1>1. p \in Seq(Said) /\ Append(p, b) \in Seq(Said)
    BY DEF Open
  <1>2. Results(Says(Append(p, b))) = Results(Says(p))
    BY <1>1, GatheredMoves
  <1>3. Results(Says(p)) \in Seq({x \in Block : x.type = "tool_result"})
    BY <1>1, GatheredMoves
  <1>4. PICK k \in Nat : k = Len(Results(Says(p))) /\ DOMAIN Results(Says(p)) = 1..k
    BY <1>3
  <1>5. PICK n \in Nat : n = Len(p) /\ k <= n
    BY <1>1, <1>4 DEF Open
  <1>6. Len(Append(p, b)) = n + 1 /\ k <= n + 1
    BY <1>1, <1>5
  <1>7. ASSUME NEW i \in 1..k PROVE Append(p, b)[i].type = "tool_result"
    <2>1. p[i].type = "tool_result"
      BY <1>4 DEF Open
    <2>2. Append(p, b)[i] = p[i]
      BY <1>1, <1>5
    <2> QED BY <2>1, <2>2
  <1> QED BY <1>1, <1>2, <1>4, <1>6, <1>7 DEF Open

(* So may the result of a call that was left.                                *)
LEMMA OpenAnswer ==
  ASSUME NEW ms, NEW p, NEW left, Open(ms, p, left), NEW b \in Said, b.type = "tool_result",
         b.id \in left
  PROVE  Open(ms, Append(p, b), left \ {b.id})
  <1>1. p \in Seq(Said) /\ Append(p, b) \in Seq(Said)
    BY DEF Open
  <1>2. PICK r : r = Results(Says(p)) /\ r \in Seq({x \in Block : x.type = "tool_result"})
    BY <1>1, GatheredMoves
  <1>3. Results(Says(Append(p, b))) = Append(r, b)
    BY <1>1, <1>2, GatheredMoves
  <1>4. PICK k \in Nat : k = Len(r) /\ DOMAIN r = 1..k
    BY <1>2
  <1>5. Len(p) = k /\ left # {}
    BY <1>2, <1>4 DEF Open
  <1>6. /\ Len(Append(r, b)) = k + 1 /\ DOMAIN Append(r, b) = 1..k + 1
        /\ (\A i \in 1..k : Append(r, b)[i] = r[i]) /\ Append(r, b)[k + 1] = b
    BY <1>2, <1>4
  <1>7. /\ Len(Append(p, b)) = k + 1
        /\ (\A i \in 1..k : Append(p, b)[i] = p[i]) /\ Append(p, b)[k + 1] = b
    BY <1>1, <1>5
  <1>8. Named(Append(r, b)) = Named(r) \cup {b.id}
    <2>1. 1..k + 1 = 1..k \cup {k + 1}
      OBVIOUS
    <2>2. PICK more : more = Append(r, b)
      OBVIOUS
    <2>3. {more[i].id : i \in 1..k + 1} = {r[i].id : i \in 1..k} \cup {b.id}
      BY <1>6, <2>1, <2>2
    <2> QED BY <1>4, <1>6, <2>2, <2>3 DEF Named
  <1>9. Named(Append(r, b)) \cup (left \ {b.id}) = Named(r) \cup left
    BY <1>8
  <1>10. /\ IsFiniteSet(left \ {b.id}) /\ Cardinality(left) \in Nat
         /\ Cardinality(left \ {b.id}) = Cardinality(left) - 1
    <2>1. IsFiniteSet(left)
      BY DEF Open
    <2> QED BY <2>1, FS_RemoveElement, FS_CardinalityType
  <1>11. ASSUME NEW i \in 1..k + 1 PROVE Append(p, b)[i].type = "tool_result"
    <2>1. CASE i = k + 1
      BY <1>7, <2>1
    <2>2. CASE i \in 1..k
      <3>1. p[i].type = "tool_result"
        BY <1>2, <1>4, <2>2 DEF Open
      <3> QED BY <1>7, <2>2, <3>1
    <2>3. i = k + 1 \/ i \in 1..k
      OBVIOUS
    <2> QED BY <2>1, <2>2, <2>3
  <1>12. PICK uses : uses = ToolUses(ms[Len(ms)])
    OBVIOUS
  <1>13. k + Cardinality(left) = Len(uses) /\ Named(r) \cup left = Named(uses)
    BY <1>2, <1>4, <1>12 DEF Open
  <1>14. (k + 1) + Cardinality(left \ {b.id}) = Len(uses)
    BY <1>10, <1>13
  <1>15. Named(Append(r, b)) \cup (left \ {b.id}) = Named(uses)
    BY <1>9, <1>13
  <1> QED BY <1>1, <1>3, <1>6, <1>7, <1>10, <1>11, <1>12, <1>14, <1>15 DEF Open

(* When nothing is left the message gathered, if any, may be sent.           *)
LEMMA OpenFlushed ==
  ASSUME NEW ms, NEW p, Open(ms, p, {})
  PROVE  SettledTalk(Flushed([messages |-> ms, pending |-> p]))
  <1>1. PICK uses : uses = ToolUses(ms[Len(ms)])
    OBVIOUS
  <1>2. PICK r : r = Results(Says(p)) /\ r \in Seq({x \in Block : x.type = "tool_result"})
    BY GatheredMoves DEF Open
  <1>3. /\ ms \in Seq(Message) /\ ms # <<>> /\ p \in Seq(Said) /\ AnsweredNext(ms)
        /\ ToOpenAI(ms) # <<>> /\ Nearly(ToOpenAI(ms), Ids(uses))
        /\ Named(r) = Named(uses)
        /\ \A i \in DOMAIN r : p[i].type = "tool_result"
    BY <1>1, <1>2 DEF Open
  <1>4. Len(r) = Len(uses)
    <2>1. Cardinality({}) = 0 /\ Len(r) \in Nat
      BY <1>2, FS_EmptySet
    <2> QED BY <1>1, <1>2, <2>1 DEF Open
  <1>5. ms[Len(ms)] \in Message
    BY <1>3
  <1>6. uses \in Seq({b \in Block : b.type = "tool_use"}) /\ Ids(uses) \in Seq(CallIds) /\ Len(Ids(uses)) = Len(uses)
    BY <1>1, <1>5, BlocksTyped DEF ToolUses
  <1>7. CASE p = <<>>
    <2>1. Flushed([messages |-> ms, pending |-> p]) = ms
      BY <1>7 DEF Flushed
    <2>2. r = <<>>
      BY <1>2, <1>3, <1>7, GatheredMoves
    <2>3. uses = <<>>
      <3>1. Len(uses) = 0
        BY <1>4, <2>2
      <3>2. \A s \in Seq({b \in Block : b.type = "tool_use"}) : Len(s) = 0 => s = <<>>
        OBVIOUS
      <3> QED BY <1>6, <3>1, <3>2
    <2>4. Ids(uses) = <<>>
      BY <2>3 DEF Ids
    <2> QED BY <1>1, <1>3, <2>1, <2>3, <2>4 DEF SettledTalk
  <1>8. CASE p # <<>>
    <2>1. PICK m \in Message : m = Says(p) /\ Results(m) = r /\ ToolUses(m) = <<>> /\ m.role = "user" /\ m.content = p
      BY <1>2, <1>3, GatheredMoves DEF Says
    <2>2. PICK more : more = Append(ms, m)
      OBVIOUS
    <2>3. Flushed([messages |-> ms, pending |-> p]) = more
      BY <1>8, <2>1, <2>2 DEF Flushed, Says
    <2>4. AnsweredNext(more)
      BY <1>1, <1>3, <1>4, <2>1, <2>2, AnsweredNextMoves
    <2>5. more \in Seq(Message) /\ more # <<>> /\ more[Len(more)] = m
      BY <1>3, <2>2
    <2>6. PICK out : out = ToOpenAI(ms) /\ out \in Seq(OutMessage) /\ ToOpenAI(more) = out \o Fan(m)
      BY <1>3, <2>2, ToOpenAIMoves
    <2>7. PICK told : told = [i \in DOMAIN r |-> [role |-> "tool", ids |-> <<r[i].id>>]]
      OBVIOUS
    <2>8. PICK tail \in {<<>>, <<[role |-> "user", ids |-> <<>>]>>} : Fan(m) = told \o tail
      BY <2>1, <2>7, FanTyped
    <2>9. ToOpenAI(more) # <<>> /\ Nearly(ToOpenAI(more), <<>>)
      <3>1. PICK ids \in Seq(CallIds) : ids = Ids(uses) /\ Len(ids) = Len(r) /\ Nearly(out, ids)
        BY <1>3, <1>4, <1>6, <2>6
      <3>2. PICK k \in Nat : k = Len(r) /\ DOMAIN r = 1..k
        BY <1>2
      <3>3. PICK n \in Nat : n = Len(out) /\ DOMAIN out = 1..n /\ n # 0
        BY <1>3, <2>6
      <3>4. told \in Seq(OutMessage) /\ Len(told) = k
        <4>1. \A b \in {x \in Block : x.type = "tool_result"} : <<b.id>> \in Seq(CallIds)
          BY DEF Block
        <4>2. \A i \in 1..k : r[i] \in {x \in Block : x.type = "tool_result"}
          BY <1>2, <3>2
        <4>3. \A i \in 1..k : [role |-> "tool", ids |-> <<r[i].id>>] \in OutMessage
          BY <4>1, <4>2 DEF OutMessage
        <4> QED BY <2>7, <3>2, <4>3
      <3>5. \A i \in 1..k : told[i].role = "tool" /\ told[i].ids[1] = r[i].id
        BY <2>7, <3>2
      <3>6. PICK t \in {0, 1} : /\ Len(tail) = t /\ tail \in Seq(OutMessage)
                                /\ t = 1 => tail[1] = [role |-> "user", ids |-> <<>>]
        <4>1. [role |-> "user", ids |-> <<>>] \in OutMessage
          BY DEF OutMessage
        <4>2. \A x \in OutMessage : <<x>> \in Seq(OutMessage) /\ Len(<<x>>) = 1 /\ <<x>>[1] = x
          OBVIOUS
        <4>3. <<>> \in Seq(OutMessage) /\ Len(<<>>) = 0
          OBVIOUS
        <4>4. CASE tail = <<>>
          BY <4>3, <4>4
        <4>5. CASE tail = <<[role |-> "user", ids |-> <<>>]>>
          BY <4>1, <4>2, <4>5
        <4> QED BY <4>4, <4>5
      <3>7. PICK sent : sent = out \o (told \o tail)
        OBVIOUS
      <3>8. PICK body : body = told \o tail
        OBVIOUS
      <3>9. /\ body \in Seq(OutMessage) /\ Len(body) = k + t
            /\ (\A i \in 1..k : body[i] = told[i])
            /\ (t = 1 => body[k + t] = [role |-> "user", ids |-> <<>>])
        BY <3>4, <3>6, <3>8
      <3>10. /\ sent \in Seq(OutMessage) /\ Len(sent) = n + (k + t)
             /\ (\A i \in 1..n : sent[i] = out[i])
             /\ (\A i \in 1..k + t : sent[n + i] = body[i])
        <4>1. out \in Seq(OutMessage) /\ body \in Seq(OutMessage)
          BY <2>6, <3>9
        <4>2. /\ out \o body \in Seq(OutMessage) /\ Len(out \o body) = Len(out) + Len(body)
              /\ (\A i \in 1..Len(out) : (out \o body)[i] = out[i])
              /\ (\A i \in 1..Len(body) : (out \o body)[Len(out) + i] = body[i])
          BY <4>1, Concatenated
        <4>3. Len(out) = n /\ Len(body) = k + t /\ sent = out \o body
          BY <3>3, <3>7, <3>8, <3>9
        <4> QED BY <4>2, <4>3
      <3>11. DOMAIN sent = 1..n + k + t /\ Len(sent) = n + k + t
        BY <3>10
      <3>12. \A i \in 1..k : sent[n + i].role = "tool" /\ sent[n + i].ids[1] = r[i].id
        <4>1. \A i \in 1..k : i \in 1..k + t
          OBVIOUS
        <4> QED BY <3>5, <3>9, <3>10, <4>1
      <3>13. \A i \in n + 1..n + k : sent[i].role = "tool" /\ sent[i].ids[1] = r[i - n].id
        <4>1. \A i \in n + 1..n + k : i - n \in 1..k /\ n + (i - n) = i
          OBVIOUS
        <4> QED BY <3>12, <4>1
      <3>14. {sent[i].ids[1] : i \in n + 1..n + k} = Named(r)
        <4>1. \A i \in n + 1..n + k : i - n \in 1..k
          OBVIOUS
        <4>2. \A i \in 1..k : n + i \in n + 1..n + k
          OBVIOUS
        <4>3. ASSUME NEW i \in n + 1..n + k PROVE sent[i].ids[1] \in Named(r)
          BY <3>2, <3>13, <4>1 DEF Named
        <4>4. ASSUME NEW i \in 1..k PROVE r[i].id \in {sent[j].ids[1] : j \in n + 1..n + k}
          BY <3>12, <4>2
        <4>5. Named(r) = {r[i].id : i \in 1..k}
          BY <3>2 DEF Named
        <4> HIDE DEF Named
        <4> QED BY <4>3, <4>4, <4>5
      <3>15. {ids[i] : i \in DOMAIN ids} = Named(uses)
        BY <3>1 DEF Ids, Named
      <3>16. {sent[i].ids[1] : i \in n + 1..n + k} = {ids[i] : i \in DOMAIN ids}
        BY <1>3, <3>14, <3>15
      <3>17. t = 1 => sent[n + k + t] = [role |-> "user", ids |-> <<>>]
        <4>1. t = 1 => k + t \in 1..k + t /\ n + (k + t) = n + k + t
          OBVIOUS
        <4> QED BY <3>9, <3>10, <4>1
      <3>18. /\ out # <<>> /\ k = Len(ids)
             /\ \A i \in n + 1..n + k : sent[i].role = "tool"
        BY <1>3, <2>6, <3>1, <3>2, <3>13
      <3>19. Nearly(sent, <<>>)
        <4>1. DOMAIN sent = 1..n + k + t /\ Len(sent) = n + k + t /\ \A i \in 1..n : sent[i] = out[i]
          BY <3>10, <3>11
        <4>2. k = Len(ids) /\ Nearly(out, ids)
          BY <3>1, <3>18
        <4>3. SentAfter(out, ids, sent, n, k, t)
          BY <3>3, <3>16, <3>17, <3>18, <4>1, <4>2 DEF SentAfter
        <4> QED BY <4>3, ResultsSent, Zenon
      <3>20. sent # <<>>
        BY <3>3, <3>10
      <3> QED BY <2>6, <2>8, <3>7, <3>19, <3>20
    <2> QED BY <2>1, <2>3, <2>4, <2>5, <2>9 DEF SettledTalk
  <1> QED BY <1>7, <1>8

(* A turn follows what is settled: its calls are what is left.               *)
LEMMA OpenTurn ==
  ASSUME NEW ms, SettledTalk(ms), NEW m \in Message, m.role = "assistant",
         \A i \in DOMAIN m.content : m.content[i].type = "tool_use",
         IsFiniteSet(Named(m.content)), Cardinality(Named(m.content)) = Len(m.content)
  PROVE  Open(Append(ms, m), <<>>, Named(m.content))
  <1>1. PICK more : more = Append(ms, m)
    OBVIOUS
  <1>2. /\ ms \in Seq(Message) /\ ms # <<>> /\ AnsweredNext(ms)
        /\ ToOpenAI(ms) # <<>> /\ Nearly(ToOpenAI(ms), <<>>)
        /\ ToolUses(ms[Len(ms)]) = <<>>
    BY DEF SettledTalk
  <1>3. more \in Seq(Message) /\ more # <<>> /\ more[Len(more)] = m
    BY <1>1, <1>2
  <1>4. m.content \in Seq(Block) /\ DOMAIN m.content = 1..Len(m.content)
    BY DEF Message
  <1>5. ToolUses(m) = m.content /\ Results(m) = <<>>
    <2>1. PICK uses : uses = {i \in DOMAIN m.content : m.content[i].type = "tool_use"}
      OBVIOUS
    <2>2. PICK results : results = {i \in DOMAIN m.content : m.content[i].type = "tool_result"}
      OBVIOUS
    <2>3. (\A i \in 1..Len(m.content) : i \in uses) /\ (\A i \in 1..Len(m.content) : i \notin results)
      BY <1>4, <2>1, <2>2
    <2>4. Picked(m.content, uses) = m.content
      BY <1>4, <2>3, PickedAll
    <2>5. Picked(m.content, results) = <<>>
      BY <1>4, <2>3, PickedAll
    <2> QED BY <2>1, <2>2, <2>4, <2>5 DEF ToolUses, Results, Blocks
  <1>6. AnsweredNext(more)
    <2>1. Named(Results(m)) = Named(ToolUses(ms[Len(ms)])) /\ Len(Results(m)) = Len(ToolUses(ms[Len(ms)]))
      BY <1>2, <1>5
    <2>2. \A i \in DOMAIN Results(m) : m.content[i].type = "tool_result"
      BY <1>5
    <2> QED BY <1>1, <1>2, <2>1, <2>2, AnsweredNextMoves
  <1>7. PICK ids : ids = Ids(ToolUses(m)) /\ ids \in Seq(CallIds)
    BY BlocksTyped DEF ToolUses
  <1>8. PICK out : /\ out = ToOpenAI(ms) /\ out \in Seq(OutMessage)
                   /\ ToOpenAI(more) = out \o <<[role |-> "assistant", ids |-> ids]>>
    BY <1>1, <1>2, <1>7, ToOpenAIMoves, FanTyped
  <1>9. Nearly(ToOpenAI(more), ids)
    <2>1. out \in Seq(OutMessage) /\ out # <<>> /\ Nearly(out, <<>>)
      BY <1>2, <1>8
    <2> QED BY <1>7, <1>8, <2>1, TurnSent
  <1>10. ToOpenAI(more) # <<>>
    <2>1. \A x : out \o <<x>> # <<>>
      BY <1>8
    <2> QED BY <1>8, <2>1
  <1>11. Results(Says(<<>>)) = <<>> /\ <<>> \in Seq(Said)
    <2>1. PICK p : p = <<>> /\ p \in Seq(Said)
      <3>1. <<>> \in Seq(Said)
        OBVIOUS
      <3> QED BY <3>1, Zenon
    <2> QED BY <2>1, GatheredMoves
  <1>12. Named(<<>>) = {} /\ Len(<<>>) = 0 /\ DOMAIN <<>> = {}
    BY DEF Named
  <1>13. Named(m.content) # {} => Len(<<>>) = Len(<<>>)
    OBVIOUS
  <1>14. 0 + Cardinality(Named(m.content)) = Len(m.content)
    BY <1>4
  <1> QED BY <1>1, <1>3, <1>5, <1>6, <1>7, <1>9, <1>10, <1>11, <1>12, <1>14 DEF Open

(* The prompt is a message.                                                  *)
LEMMA PromptTyped == Prompt \in Message
  <1>1. PICK b : b = [type |-> "text"] /\ b \in Block
    <2>1. [type |-> "text"] \in Block
      BY DEF Block
    <2> QED BY <2>1, Zenon
  <1>2. <<b>> \in Seq(Block)
    BY <1>1
  <1> QED BY <1>1, <1>2 DEF Prompt, Message

(* The prompt alone is in place.                                             *)
LEMMA OpenStart ==
  Open(<<Prompt>>, <<>>, {})
  <1>1. PICK m \in Message : m = Prompt
    BY PromptTyped, Zenon
  <1>2. m.role = "user" /\ m.content = <<[type |-> "text"]>> /\ Len(m.content) = 1 /\ DOMAIN m.content = 1..1
    BY <1>1 DEF Prompt
  <1>3. ToolUses(m) = <<>> /\ Results(m) = <<>>
    <2>1. PICK uses : uses = {i \in DOMAIN m.content : m.content[i].type = "tool_use"}
      OBVIOUS
    <2>2. PICK results : results = {i \in DOMAIN m.content : m.content[i].type = "tool_result"}
      OBVIOUS
    <2>3. (\A i \in 1..Len(m.content) : i \notin uses) /\ (\A i \in 1..Len(m.content) : i \notin results)
      BY <1>2, <2>1, <2>2
    <2>4. m.content \in Seq(Block)
      BY DEF Message
    <2>5. Picked(m.content, uses) = <<>>
      BY <2>3, <2>4, PickedAll
    <2>6. Picked(m.content, results) = <<>>
      BY <2>3, <2>4, PickedAll
    <2> QED BY <2>1, <2>2, <2>5, <2>6 DEF ToolUses, Results, Blocks
  <1>4. PICK ms : ms = <<Prompt>> /\ ms = <<m>> /\ ms \in Seq(Message) /\ ms # <<>> /\ Len(ms) = 1 /\ DOMAIN ms = 1..1 /\ ms[1] = m
    <2>1. <<m>> \in Seq(Message) /\ <<m>> # <<>> /\ Len(<<m>>) = 1 /\ DOMAIN <<m>> = 1..1 /\ <<m>>[1] = m
      OBVIOUS
    <2> QED BY <1>1, <2>1, Zenon
  <1>5. AnsweredNext(ms)
    <2>1. ASSUME NEW i \in DOMAIN ms PROVE i = 1 /\ ms[i] = m
      BY <1>4
    <2>2. Named(<<>>) = Named(<<>>) /\ DOMAIN <<>> = {}
      OBVIOUS
    <2> QED BY <1>3, <2>1, <2>2 DEF AnsweredNext
  <1>6. PICK tail \in {<<>>, <<[role |-> "user", ids |-> <<>>]>>} : Fan(m) = tail /\ Fan(m) \in Seq(OutMessage)
    <2>1. PICK tail \in {<<>>, <<[role |-> "user", ids |-> <<>>]>>} :
            Fan(m) = [i \in DOMAIN Results(m) |-> [role |-> "tool", ids |-> <<Results(m)[i].id>>]] \o tail
      BY <1>2, FanTyped
    <2>2. \A f : DOMAIN f = {} => [i \in DOMAIN f |-> [role |-> "tool", ids |-> <<f[i].id>>]] = <<>>
      OBVIOUS
    <2>3. [i \in DOMAIN Results(m) |-> [role |-> "tool", ids |-> <<Results(m)[i].id>>]] = <<>>
      BY <1>3, <2>2
    <2>4. <<>> \o tail = tail
      OBVIOUS
    <2> QED BY <2>1, <2>3, <2>4, FanTyped
  <1>7. tail # <<>>
    <2>1. PICK texts : texts = {i \in DOMAIN m.content : m.content[i].type = "text"}
      OBVIOUS
    <2>2. \A i \in 1..Len(m.content) : i \in texts
      BY <1>2, <2>1
    <2>3. m.content \in Seq(Block)
      BY DEF Message
    <2>4. Texts(m) = m.content
      BY <2>1, <2>2, <2>3, PickedAll DEF Texts, Blocks
    <2>5. Texts(m) # <<>>
      BY <1>2, <2>4
    <2>6. PICK told : told = [i \in DOMAIN Results(m) |-> [role |-> "tool", ids |-> <<Results(m)[i].id>>]]
      OBVIOUS
    <2>7. told = <<>>
      <3>1. \A f : DOMAIN f = {} => [i \in DOMAIN f |-> [role |-> "tool", ids |-> <<f[i].id>>]] = <<>>
        OBVIOUS
      <3> QED BY <1>3, <2>6, <3>1
    <2>8. Fan(m) = told \o <<[role |-> "user", ids |-> <<>>]>>
      BY <1>2, <2>5, <2>6 DEF Fan
    <2>9. <<>> \o <<[role |-> "user", ids |-> <<>>]>> # <<>>
      OBVIOUS
    <2> QED BY <1>6, <2>7, <2>8, <2>9
  <1>8. ToOpenAI(ms) = tail
    <2>1. PICK none : none = <<>> /\ none \in Seq(Message)
      <3>1. <<>> \in Seq(Message)
        OBVIOUS
      <3> QED BY <3>1, Zenon
    <2>2. Append(none, m) = ms
      BY <1>4, <2>1
    <2>3. ToOpenAI(Append(none, m)) = ToOpenAI(none) \o Fan(m) /\ ToOpenAI(none) = <<>>
      BY <2>1, ToOpenAIMoves
    <2>4. <<>> \o tail = tail
      BY <1>6
    <2> QED BY <1>6, <2>2, <2>3, <2>4
  <1>9. Len(tail) = 1 /\ tail[1] = [role |-> "user", ids |-> <<>>] /\ DOMAIN tail = 1..1
    BY <1>6, <1>7
  <1>10. Nearly(tail, <<>>)
    BY <1>9 DEF Nearly
  <1>11. Results(Says(<<>>)) = <<>> /\ <<>> \in Seq(Said)
    <2>1. PICK p : p = <<>> /\ p \in Seq(Said)
      <3>1. <<>> \in Seq(Said)
        OBVIOUS
      <3> QED BY <3>1, Zenon
    <2> QED BY <2>1, GatheredMoves
  <1>12. Ids(<<>>) = <<>> /\ Named(<<>>) = {} /\ Cardinality({}) = 0 /\ IsFiniteSet({})
    BY FS_EmptySet DEF Ids, Named
  <1>13. Open(ms, <<>>, {})
    <2>1. Len(<<>>) + Cardinality({}) = Len(<<>>) /\ Len(<<>>) <= Len(<<>>) /\ DOMAIN <<>> = {}
      BY <1>12
    <2> QED BY <1>3, <1>4, <1>5, <1>7, <1>8, <1>10, <1>11, <1>12, <2>1 DEF Open
  <1> QED BY <1>4, <1>13

(* What is settled is what a provider may be sent.                           *)
LEMMA SettledIsAnswered ==
  ASSUME NEW ms, SettledTalk(ms)
  PROVE  AnsweredNext(ms) /\ AnsweredByTools(ToOpenAI(ms))
  <1>1. ms \in Seq(Message) /\ AnsweredNext(ms) /\ ToOpenAI(ms) # <<>> /\ Nearly(ToOpenAI(ms), <<>>)
    BY DEF SettledTalk
  <1>2. Prompt \in Message
    BY PromptTyped
  <1>3. ToOpenAI(ms) \in Seq(OutMessage)
    BY <1>1, <1>2, ToOpenAIMoves
  <1>4. AnsweredByTools(ToOpenAI(ms))
    BY <1>1, <1>3, AllServed
  <1> QED BY <1>1, <1>4

-----------------------------------------------------------------------------
(* The log and its conversation. *)

(* The calls of a turn of k calls that is recorded at n.                     *)
TurnCalls(n, k) == {<<n, i>> : i \in 1..k}

(* They are k.                                                               *)
LEMMA CallsCounted ==
  ASSUME NEW n, NEW k \in Nat
  PROVE  IsFiniteSet(TurnCalls(n, k)) /\ Cardinality(TurnCalls(n, k)) = k
  <1>1. PICK f : f = [i \in 1..k |-> <<n, i>>]
    OBVIOUS
  <1>2. f \in Surjection(1..k, TurnCalls(n, k))
    BY <1>1 DEF Surjection, Range, TurnCalls
  <1>3. f \in Injection(1..k, TurnCalls(n, k))
    BY <1>1 DEF Injection, IsInjective, TurnCalls
  <1>4. IsFiniteSet(1..k) /\ Cardinality(1..k) = k
    BY FS_Interval
  <1> QED BY <1>2, <1>3, <1>4, FS_Surjection

(* All the calls of a reply are unresolved when it is recorded: no answer is *)
(* to a turn to come.                                                        *)
LEMMA ReplyOpens ==
  ASSUME NEW log \in Seq(Step), NEW s \in Step, s.kind = "model_call", Ordered(log)
  PROVE  Unresolved(Append(log, s)) = {<<Len(log) + 1, i>> : i \in DOMAIN s.calls}
  <1>1. PICK n \in Nat : n = Len(log) /\ DOMAIN log = 1..n
    OBVIOUS
  <1>2. PICK more : more = Append(log, s)
    OBVIOUS
  <1>3. /\ LastTurn(more) = {n + 1} /\ SettledIn(more) = SettledIn(log)
        /\ Unresolved(more) \subseteq {<<n + 1, i>> : i \in DOMAIN s.calls}
    BY <1>1, <1>2, ReplyMoves
  <1>4. more[n + 1] = s
    BY <1>1, <1>2
  <1>5. ASSUME NEW i \in DOMAIN s.calls PROVE <<n + 1, i>> \in Unresolved(more)
    <2>1. <<n + 1, i>> \in CallsOf(more, n + 1)
      BY <1>4 DEF CallsOf
    <2>2. ASSUME <<n + 1, i>> \in SettledIn(log) PROVE FALSE
      <3>1. PICK j \in Answers(log) : log[j].call = <<n + 1, i>>
        BY <2>2 DEF SettledIn, Answers
      <3>2. j \in 1..n
        BY <1>1 DEF Answers
      <3>3. log[j].call[1] < j
        BY DEF Ordered
      <3>4. log[j].call[1] = n + 1
        BY <3>1
      <3> QED BY <3>2, <3>3, <3>4
    <2> QED BY <1>3, <2>1, <2>2, UnresolvedCalls
  <1> QED BY <1>1, <1>2, <1>3, <1>5

(* So far everything in the conversation of a log is in place.               *)
InPlace(log) == Open(Conversation(log).messages, Conversation(log).pending, Unresolved(log))

(* Of an empty log it is.                                                    *)
LEMMA InPlaceStarts == InPlace(<<>>)
  <1>1. Conversation(<<>>) = Start /\ Start.messages = <<Prompt>> /\ Start.pending = <<>>
    BY ConversationMoves DEF Start
  <1>2. Unresolved(<<>>) = {}
    BY DEF Unresolved, LastTurn, Turns, SettledIn
  <1> QED BY <1>1, <1>2, OpenStart DEF InPlace

(* What is sent when every call is answered is in place.                     *)
LEMMA InPlaceSettles ==
  ASSUME NEW log, InPlace(log), Unresolved(log) = {}
  PROVE  SettledTalk(Rebuild(log))
  <1>1. PICK ms, p : ms = Conversation(log).messages /\ p = Conversation(log).pending
    OBVIOUS
  <1>2. Open(ms, p, {})
    BY <1>1 DEF InPlace
  <1>3. SettledTalk(Flushed([messages |-> ms, pending |-> p]))
    BY <1>2, OpenFlushed
  <1>4. Flushed([messages |-> ms, pending |-> p]) = Rebuild(log)
    BY <1>1 DEF Flushed, Rebuild
  <1> QED BY <1>3, <1>4

(* An ending changes nothing, a notice is text, a denial or a result is the  *)
(* answer of a call that was left.                                           *)
LEMMA InPlaceGathers ==
  ASSUME NEW log \in Seq(Step), NEW s \in Step, InPlace(log),
         \/ s.kind = "final"
         \/ s.kind = "notice" /\ Unresolved(log) = {}
         \/ s.kind \in {"tool_result", "approval"} /\ s.call \in Unresolved(log)
  PROVE  InPlace(Append(log, s))
  <1>1. PICK more : more = Append(log, s)
    OBVIOUS
  <1>2. PICK n \in Nat : n = Len(log) /\ more[n + 1] = s
    BY <1>1
  <1>3. Conversation(more) = Taken(Conversation(log), more, n + 1)
    BY <1>1, <1>2, ConversationMoves
  <1>4. PICK ms, p : ms = Conversation(log).messages /\ p = Conversation(log).pending
    OBVIOUS
  <1>5. Open(ms, p, Unresolved(log)) /\ p \in Seq(Said)
    BY <1>4 DEF InPlace, Open
  <1>6. s.kind # "model_call"
    OBVIOUS
  <1>7. Conversation(more).messages = ms /\ Conversation(more).pending = p \o BlockOf(s)
    BY <1>2, <1>3, <1>4, <1>6 DEF Taken
  <1>8. CASE s.kind = "final"
    <2>1. BlockOf(s) = <<>>
      BY <1>8 DEF BlockOf
    <2>2. p \o <<>> = p
      BY <1>5
    <2>3. Unresolved(more) = Unresolved(log)
      BY <1>1, <1>8, AsideMoves
    <2> QED BY <1>1, <1>5, <1>7, <2>1, <2>2, <2>3 DEF InPlace
  <1>9. CASE s.kind = "notice" /\ Unresolved(log) = {}
    <2>1. PICK b : b = [type |-> "text"]
      OBVIOUS
    <2>2. b \in Said /\ b.type # "tool_result"
      BY <2>1 DEF Said, Block
    <2>3. BlockOf(s) = <<b>>
      BY <1>9, <2>1 DEF BlockOf
    <2>4. p \o <<b>> = Append(p, b)
      BY <1>5, <2>2
    <2>5. Unresolved(more) = {}
      BY <1>1, <1>9, AsideMoves
    <2>6. Open(ms, Append(p, b), {})
      BY <1>5, <1>9, <2>2, OpenText
    <2> QED BY <1>1, <1>7, <2>3, <2>4, <2>5, <2>6 DEF InPlace
  <1>10. CASE s.kind \in {"tool_result", "approval"} /\ s.call \in Unresolved(log)
    <2>1. PICK b : b = [type |-> "tool_result", id |-> s.call, error |-> ~s.ok]
      OBVIOUS
    <2>2. s.call \in CallIds /\ (~s.ok) \in BOOLEAN
      BY DEF Step
    <2>3. b \in Said /\ b.type = "tool_result" /\ b.id = s.call
      BY <2>1, <2>2 DEF Said, Block
    <2>4. BlockOf(s) = <<b>>
      BY <1>10, <2>1 DEF BlockOf
    <2>5. p \o <<b>> = Append(p, b)
      BY <1>5, <2>3
    <2>6. Unresolved(more) = Unresolved(log) \ {b.id}
      BY <1>1, <1>10, <2>3, AnswerMoves
    <2>7. Open(ms, Append(p, b), Unresolved(log) \ {b.id})
      BY <1>5, <1>10, <2>3, OpenAnswer
    <2> QED BY <1>1, <1>7, <2>4, <2>5, <2>6, <2>7 DEF InPlace
  <1> QED BY <1>8, <1>9, <1>10

(* A reply to what is settled opens a turn.                                  *)
LEMMA InPlaceReplies ==
  ASSUME NEW log \in Seq(Step), NEW s \in Step, s.kind = "model_call", InPlace(log), Ordered(log),
         Unresolved(log) = {}
  PROVE  InPlace(Append(log, s))
  <1>1. PICK more : more = Append(log, s)
    OBVIOUS
  <1>2. PICK n \in Nat : n = Len(log) /\ more[n + 1] = s
    BY <1>1
  <1>3. Conversation(more) = Taken(Conversation(log), more, n + 1)
    BY <1>1, <1>2, ConversationMoves
  <1>4. PICK ms : ms = Rebuild(log) /\ SettledTalk(ms)
    BY InPlaceSettles
  <1>5. PICK m : m = Assistant(more, n + 1)
    OBVIOUS
  <1>6. Conversation(more).messages = Append(ms, m) /\ Conversation(more).pending = <<>>
    BY <1>2, <1>3, <1>4, <1>5 DEF Taken, Rebuild
  <1>7. PICK k \in Nat : k = Len(s.calls) /\ DOMAIN s.calls = 1..k /\ \A i \in 1..k : s.calls[i] \in Actions
    BY DEF Step
  <1>8. PICK c : c = [i \in 1..k |-> [type |-> "tool_use", id |-> <<n + 1, i>>, action |-> s.calls[i]]]
    OBVIOUS
  <1>9. m = [role |-> "assistant", content |-> c]
    BY <1>2, <1>5, <1>7, <1>8 DEF Assistant
  <1>10. c \in Seq(Block) /\ Len(c) = k /\ DOMAIN c = 1..k
    <2>1. \A i \in 1..k : <<n + 1, i>> \in CallIds
      BY DEF CallIds
    <2>2. \A i \in 1..k : [type |-> "tool_use", id |-> <<n + 1, i>>, action |-> s.calls[i]] \in Block
      BY <1>7, <2>1 DEF Block
    <2> QED BY <1>8, <2>2
  <1>11. m \in Message /\ m.role = "assistant" /\ m.content = c
    BY <1>9, <1>10 DEF Message
  <1>12. \A i \in 1..k : c[i].type = "tool_use" /\ c[i].id = <<n + 1, i>>
    BY <1>8
  <1>13. PICK T : T = TurnCalls(n + 1, k)
    OBVIOUS
  <1>14. Named(c) = T
    BY <1>10, <1>12, <1>13 DEF Named, TurnCalls
  <1>15. IsFiniteSet(T) /\ Cardinality(T) = k
    BY <1>13, CallsCounted
  <1>16. Unresolved(more) = T
    BY <1>1, <1>2, <1>7, <1>13, ReplyOpens DEF TurnCalls
  <1>17. Open(Append(ms, m), <<>>, Named(c))
    <2>1. \A i \in DOMAIN m.content : m.content[i].type = "tool_use"
      BY <1>10, <1>11, <1>12
    <2>2. IsFiniteSet(Named(m.content)) /\ Cardinality(Named(m.content)) = Len(m.content)
      BY <1>10, <1>11, <1>14, <1>15
    <2> QED BY <1>4, <1>11, <2>1, <2>2, OpenTurn
  <1> QED BY <1>1, <1>6, <1>14, <1>16, <1>17 DEF InPlace

-----------------------------------------------------------------------------
(* What is sent is in place, in every reachable state. *)

(* One worker moves at a time, and to a wait for the model only by asking.   *)
PlaceMoves ==
  \/ pc' = pc
  \/ \E v \in Workers :
       \/ AskModel(v)
       \/ \E place \in {"idle", "top", "settling"} : pc' = [pc EXCEPT ![v] = place]

(* Every step does one of these to where the workers are.                    *)
LEMMA PlacesMove ==
  ASSUME [Next]_vars
  PROVE  PlaceMoves
  <1> DEFINE Moves(v) == \/ AskModel(v)
                         \/ \E place \in {"idle", "top", "settling"} : pc' = [pc EXCEPT ![v] = place]
  <1>1. ASSUME NEW v \in Workers, WorkerStep(v) PROVE pc' = pc \/ Moves(v)
    <2>1. ASSUME Poll(v) PROVE pc' = pc \/ Moves(v)
      BY <2>1 DEF Poll
    <2>2. ASSUME LoseLease(v) \/ Exhaust(v) \/ RecordReply(v) \/ RecordRefusal(v) \/ ProviderError(v)
          PROVE  Moves(v)
      BY <2>2 DEF LoseLease, Exhaust, RecordReply, RecordRefusal, ProviderError, GoIdle, GoTo
    <2>3. ASSUME BeginSettle(v) PROVE Moves(v)
      BY <2>3 DEF BeginSettle, GoTo
    <2>4. ASSUME RefuseCall(v) \/ AskPerson(v) \/ RecordDenial(v) \/ RunCall(v) PROVE pc' = pc
      BY <2>4 DEF RefuseCall, AskPerson, RecordDenial, RunCall
    <2>5. ASSUME CommitTurn(v) PROVE Moves(v)
      BY <2>5 DEF CommitTurn, GoIdle, GoTo
    <2>6. ASSUME EndUnanswered(v) \/ HandlerError(v) \/ DatabaseError(v) PROVE Moves(v)
      BY <2>6 DEF EndUnanswered, HandlerError, DatabaseError, GoIdle
    <2> QED BY <1>1, <2>1, <2>2, <2>3, <2>4, <2>5, <2>6 DEF WorkerStep
  <1>2. ASSUME NEW v \in Workers, Crash(v) PROVE Moves(v)
    BY <1>2 DEF Crash, GoIdle
  <1>3. ASSUME NEW r \in Runs, LeaseExpires(r) \/ CeilingReached(r) \/ ApprovalTimesOut(r)
                               \/ Decide(r) \/ CancelRead(r) \/ CancelWrite(r)
        PROVE  pc' = pc
    BY <1>3 DEF LeaseExpires, CeilingReached, ApprovalTimesOut, Decide, CancelRead, CancelWrite
  <1>4. ASSUME ListApprovals PROVE pc' = pc
    BY <1>4 DEF ListApprovals
  <1>5. ASSUME UNCHANGED vars PROVE pc' = pc
    BY <1>5 DEF vars
  <1> HIDE DEF Moves
  <1>6. (\E v \in Workers : Moves(v)) \/ pc' = pc
    BY <1>1, <1>2, <1>3, <1>4, <1>5 DEF Next
  <1> QED BY <1>6 DEF PlaceMoves, Moves

(* So a worker that waits has asked in this step or waited before it, and    *)
(* when one stops waiting nobody else begins or stops.                       *)
LEMMA OneMoves ==
  ASSUME TypeOK, [Next]_vars, NEW w \in Workers
  PROVE  /\ pc'[w] = "model" => AskModel(w) \/ pc[w] = "model"
         /\ pc'[w] # pc[w] => \A v \in Workers : v # w => pc'[v] = pc[v]
  <1>1. ASSUME NEW v \in Workers, AskModel(v) PROVE pc' = [pc EXCEPT ![v] = "model"]
    BY <1>1 DEF AskModel, GoTo
  <1>2. ASSUME pc'[w] = "model" PROVE AskModel(w) \/ pc[w] = "model"
    BY <1>1, <1>2, PlacesMove DEF PlaceMoves, TypeOK
  <1>3. ASSUME pc'[w] # pc[w], NEW v \in Workers, v # w PROVE pc'[v] = pc[v]
    BY <1>1, <1>3, PlacesMove DEF PlaceMoves, TypeOK
  <1> QED BY <1>2, <1>3

(* The inductive invariant of what a provider is sent: whatever is on record *)
(* and whatever a transaction would commit is in place so far, and so is all *)
(* that has been sent.                                                       *)
TalkInv ==
  /\ RInv
  /\ \A r \in Runs : InPlace(steps[r])
  /\ \A w \in Workers : pc[w] = "settling" => InPlace(txSteps[w])
  /\ CallsAreAnsweredInPlace

(* Nothing has been said at first.                                           *)
LEMMA TalkInvInit == TInit => TalkInv
  <1> SUFFICES ASSUME TInit PROVE TalkInv
    OBVIOUS
  <1>1. RInv
    BY InitRInv DEF TInit
  <1>2. \A r \in Runs : steps[r] = <<>>
    BY DEF TInit, Init
  <1>3. \A w \in Workers : pc[w] = "idle"
    BY DEF TInit, Init
  <1>4. \A r \in Runs : InPlace(steps[r])
    BY <1>2, InPlaceStarts
  <1> QED BY <1>1, <1>3, <1>4 DEF TalkInv, CallsAreAnsweredInPlace

(* The steps the loop appends, by what they are.                             *)
LEMMA StepKinds ==
  /\ \A reply \in Replies \cup {<<>>} : ModelCall(reply) \in Step /\ ModelCall(reply).kind = "model_call"
                                          /\ ModelCall(reply).calls = reply
  /\ \A c \in CallIds, ok \in BOOLEAN : /\ ToolResult(c, ok) \in Step
                                        /\ ToolResult(c, ok).kind = "tool_result"
                                        /\ ToolResult(c, ok).call = c
  /\ \A c \in CallIds : /\ DenialStep(c) \in Step
                        /\ DenialStep(c).kind = "approval"
                        /\ DenialStep(c).call = c
  /\ Final \in Step /\ Final.kind = "final"
  /\ Notice \in Step /\ Notice.kind = "notice"
  <1>1. ASSUME NEW reply \in Replies \cup {<<>>} PROVE reply \in Seq(Actions)
    <2>1. <<>> \in Seq(Actions)
      OBVIOUS
    <2> QED BY <2>1, CallsAssumption
  <1> QED BY <1>1, StepTypes DEF ModelCall, ToolResult, DenialStep, Final, Notice

(* A worker asks when every call is answered, and notes something or nothing.*)
LEMMA AskingKeepsPlace ==
  ASSUME TalkInv, NEW w \in Workers, AskModel(w)
  PROVE  /\ run[w] \in Runs /\ run' = run
         /\ InPlace(steps'[run[w]]) /\ Unresolved(steps'[run[w]]) = {}
  <1>0. TypeOK
    BY DEF TalkInv, RInv, IInv
  <1>1. pc[w] = "top" /\ Unresolved(steps[run[w]]) = {} /\ run' = run
    BY DEF AskModel, MayAskModel, GoTo
  <1>2. run[w] \in Runs /\ steps[run[w]] \in Seq(Step) /\ InPlace(steps[run[w]])
    BY <1>0, <1>1 DEF TypeOK, TalkInv
  <1>3. CASE steps' = steps
    BY <1>1, <1>2, <1>3
  <1>4. CASE steps' = [steps EXCEPT ![run[w]] = Append(steps[run[w]], Notice)]
    <2>1. steps'[run[w]] = Append(steps[run[w]], Notice)
      BY <1>0, <1>2, <1>4 DEF TypeOK
    <2>2. Notice \in Step /\ Notice.kind = "notice"
      BY StepKinds
    <2>3. InPlace(Append(steps[run[w]], Notice))
      BY <1>1, <1>2, <2>2, InPlaceGathers
    <2>4. Unresolved(Append(steps[run[w]], Notice)) = {}
      BY <1>1, <1>2, <2>2, AsideMoves
    <2> QED BY <1>1, <1>2, <2>1, <2>3, <2>4
  <1> QED BY <1>3, <1>4 DEF AskModel

(* What is on record stays in place.                                         *)
LEMMA CommittedStayInPlace ==
  ASSUME TalkInv, [Next]_vars, NEW r \in Runs
  PROVE  InPlace(steps'[r])
  <1>1. /\ RInv /\ IInv /\ steps[r] \in Seq(Step) /\ InPlace(steps[r]) /\ Ordered(steps[r])
    BY DEF TalkInv, RInv, IInv, TypeOK, Sound
  <1>2. ASSUME RecordKept(r) PROVE InPlace(steps'[r])
    BY <1>1, <1>2 DEF RecordKept
  <1>3. ASSUME NEW w \in Workers, RecordNoted(r, w) PROVE InPlace(steps'[r])
    BY <1>3, AskingKeepsPlace DEF RecordNoted
  <1>4. ASSUME NEW w \in Workers, RecordReplied(r, w) PROVE InPlace(steps'[r])
    <2>1. Unresolved(steps[r]) = {}
      BY <1>1, <1>4 DEF RecordReplied, RInv, AskerWaits
    <2>2. ASSUME NEW reply \in Replies \cup {<<>>}
          PROVE  InPlace(Append(steps[r], ModelCall(reply))) /\ ModelCall(reply) \in Step
      <3>1. ModelCall(reply) \in Step /\ ModelCall(reply).kind = "model_call"
        BY StepKinds
      <3> QED BY <1>1, <2>1, <3>1, InPlaceReplies
    <2>3. ASSUME NEW reply \in Replies \cup {<<>>}
          PROVE  InPlace(Append(Append(steps[r], ModelCall(reply)), Final))
      <3>1. Append(steps[r], ModelCall(reply)) \in Seq(Step)
        BY <1>1, <2>2
      <3>2. Final \in Step /\ Final.kind = "final"
        BY StepKinds
      <3> QED BY <2>2, <3>1, <3>2, InPlaceGathers
    <2> QED BY <1>4, <2>2, <2>3 DEF RecordReplied
  <1>5. ASSUME NEW w \in Workers, RecordCommitted(r, w) PROVE InPlace(steps'[r])
    <2>1. /\ txSteps[w] \in Seq(Step) /\ InPlace(txSteps[w])
          /\ todo[w] \subseteq Unresolved(txSteps[w]) /\ todo[w] \subseteq CallIds
      BY <1>1, <1>5 DEF RecordCommitted, TalkInv, RInv, IInv, TypeOK, SettlerSound
    <2>2. ASSUME NEW c \in todo[w] PROVE InPlace(Append(txSteps[w], ToolResult(c, TRUE)))
      <3>1. c \in CallIds /\ c \in Unresolved(txSteps[w])
        BY <2>1
      <3>2. /\ ToolResult(c, TRUE) \in Step /\ ToolResult(c, TRUE).kind = "tool_result"
            /\ ToolResult(c, TRUE).call = c
        BY <3>1, StepKinds
      <3> QED BY <2>1, <3>1, <3>2, InPlaceGathers
    <2> QED BY <1>5, <2>1, <2>2 DEF RecordCommitted
  <1>6. RecordMoves(r)
    BY <1>1, RecordStep
  <1> QED BY <1>2, <1>3, <1>4, <1>5, <1>6 DEF RecordMoves

(* So does what a transaction would commit.                                  *)
LEMMA SettlerStaysInPlace ==
  ASSUME TalkInv, [Next]_vars, NEW w \in Workers, pc'[w] = "settling"
  PROVE  InPlace(txSteps'[w])
  <1>1. IInv /\ TypeOK /\ RInv
    BY DEF TalkInv, RInv, IInv
  <1>2. CASE BeginSettle(w)
    <2>1. run[w] \in Runs /\ txSteps'[w] = steps[run[w]]
      BY <1>1, <1>2 DEF BeginSettle, TypeOK
    <2> QED BY <2>1 DEF TalkInv
  <1>3. ASSUME pc[w] = "settling", NEW c \in todo[w],
               NEW s \in {ToolResult(c, FALSE), ToolResult(c, TRUE), DenialStep(c)},
               txSteps'[w] = Append(txSteps[w], s)
        PROVE  InPlace(txSteps'[w])
    <2>1. /\ txSteps[w] \in Seq(Step) /\ InPlace(txSteps[w])
          /\ c \in CallIds /\ c \in Unresolved(txSteps[w])
      BY <1>1, <1>3 DEF TalkInv, RInv, TypeOK, SettlerSound
    <2>2. s \in Step /\ s.call = c /\ s.kind \in {"tool_result", "approval"}
      <3>1. CASE s = DenialStep(c)
        BY <2>1, <3>1, StepKinds
      <3>2. CASE s = ToolResult(c, FALSE)
        BY <2>1, <3>2, StepKinds
      <3>3. CASE s = ToolResult(c, TRUE)
        BY <2>1, <3>3, StepKinds
      <3> QED BY <3>1, <3>2, <3>3
    <2> QED BY <1>3, <2>1, <2>2, InPlaceGathers
  <1>4. CASE TxAnswered(w)
    <2>1. pc[w] = "settling" /\ InPlace(txSteps[w])
      BY <1>4 DEF TxAnswered, TalkInv
    <2> QED BY <1>3, <1>4, <2>1 DEF TxAnswered
  <1>5. CASE TxRan(w)
    <2>1. pc[w] = "settling"
      BY <1>5 DEF TxRan
    <2>2. PICK c \in todo[w], ok \in BOOLEAN : txSteps'[w] = Append(txSteps[w], ToolResult(c, ok))
      BY <1>5 DEF TxRan
    <2>3. ok = TRUE \/ ok = FALSE
      BY <2>2
    <2> QED BY <1>3, <2>1, <2>2, <2>3
  <1> QED BY <1>1, <1>2, <1>4, <1>5, TxStep

(* What a worker sends is rebuilt from a record in place with every call     *)
(* answered.                                                                 *)
LEMMA SentInPlace ==
  ASSUME TalkInv, Next, Asks
  PROVE  CallsAreAnsweredInPlace'
  <1>0. TypeOK
    BY DEF TalkInv, RInv, IInv
  <1> SUFFICES ASSUME NEW w \in Workers, pc'[w] = "model"
               PROVE  AnsweredNext(asked'[w]) /\ AnsweredByTools(ToOpenAI(asked'[w]))
    BY DEF CallsAreAnsweredInPlace
  <1>1. CASE pc[w] = "model"
    <2>1. asked'[w] = asked[w]
      BY <1>1 DEF Asks
    <2> QED BY <1>1, <2>1 DEF TalkInv, CallsAreAnsweredInPlace
  <1>2. CASE pc[w] # "model"
    <2>1. AskModel(w)
      BY <1>0, <1>2, OneMoves
    <2>2. asked'[w] = Rebuild(steps'[run'[w]])
      BY <1>2 DEF Asks
    <2>3. /\ run' = run /\ InPlace(steps'[run[w]]) /\ Unresolved(steps'[run[w]]) = {}
      BY <2>1, AskingKeepsPlace
    <2>4. SettledTalk(Rebuild(steps'[run[w]]))
      BY <2>3, InPlaceSettles
    <2> QED BY <2>2, <2>3, <2>4, SettledIsAnswered
  <1> QED BY <1>1, <1>2

(* Every step keeps everything in place.                                     *)
LEMMA TalkInvStep == TalkInv /\ [TNext]_<<vars, historyVars>> => TalkInv'
  <1> SUFFICES ASSUME TalkInv, [TNext]_<<vars, historyVars>> PROVE TalkInv'
    OBVIOUS
  <1>1. RInv'
    BY RInvStep DEF TalkInv, TNext
  <1>2. CASE UNCHANGED <<vars, historyVars>>
    BY <1>1, <1>2 DEF TalkInv, CallsAreAnsweredInPlace, vars, dbVars, txVars, historyVars
  <1>3. CASE TNext
    <2>1. Next /\ Asks
      BY <1>3 DEF TNext
    <2>2. \A r \in Runs : InPlace(steps'[r])
      BY <2>1, CommittedStayInPlace
    <2>3. \A w \in Workers : pc'[w] = "settling" => InPlace(txSteps'[w])
      BY <2>1, SettlerStaysInPlace
    <2>4. CallsAreAnsweredInPlace'
      BY <2>1, SentInPlace
    <2> QED BY <1>1, <2>2, <2>3, <2>4 DEF TalkInv
  <1> QED BY <1>2, <1>3

(* Records are in place at all times.                                        *)
THEOREM RecordsAreInPlace == TSpec => []TalkInv
  BY TalkInvInit, TalkInvStep, PTL DEF TSpec

(* What a provider is sent answers every call in its place, in both shapes.  *)
THEOREM CallsAreAnsweredAlways == TSpec => []CallsAreAnsweredInPlace
  <1>1. TalkInv => CallsAreAnsweredInPlace
    BY DEF TalkInv
  <1> QED BY <1>1, RecordsAreInPlace, PTL

-----------------------------------------------------------------------------
(* What the log gives back of each turn. *)

(* The turns a replay finds are turns of the log; a reply is one more.       *)
LEMMA RecordedMoves ==
  ASSUME NEW log \in Seq(Step)
  PROVE  /\ RecordedTurns(log) \in Seq(Turns(log))
         /\ log = <<>> => RecordedTurns(log) = <<>>
         /\ \A s \in Step :
              RecordedTurns(Append(log, s)) =
                IF s.kind = "model_call" THEN Append(RecordedTurns(log), Len(log) + 1)
                ELSE RecordedTurns(log)
  <1>1. PICK n \in Nat : n = Len(log) /\ DOMAIN log = 1..n
    OBVIOUS
  <1>2. PICK places : places = [j \in 1..n |-> j]
    OBVIOUS
  <1>3. places \in Seq(Nat) /\ Len(places) = n /\ DOMAIN places = 1..n /\ \A j \in 1..n : places[j] = j
    BY <1>2
  <1>4. RecordedTurns(log) = Picked(places, Turns(log))
    BY <1>1, <1>2 DEF RecordedTurns
  <1>5. RecordedTurns(log) \in Seq(Turns(log))
    <2>1. PICK T : T = {places[i] : i \in Turns(log) \cap DOMAIN places}
      OBVIOUS
    <2>2. Picked(places, Turns(log)) \in Seq(T)
      BY <1>3, <2>1, PickedWithin
    <2>3. T = Turns(log)
      BY <1>1, <1>3, <2>1 DEF Turns
    <2> QED BY <1>4, <2>2, <2>3
  <1>6. log = <<>> => RecordedTurns(log) = <<>>
    <2>1. ASSUME log = <<>> PROVE places = <<>>
      <3>1. n = 0
        BY <1>1, <2>1
      <3> QED BY <1>3, <3>1
    <2> QED BY <1>3, <1>4, <2>1, PickedAll
  <1>7. ASSUME NEW s \in Step
        PROVE  RecordedTurns(Append(log, s)) =
                 IF s.kind = "model_call" THEN Append(RecordedTurns(log), n + 1) ELSE RecordedTurns(log)
    <2>1. PICK more : more = Append(log, s)
      OBVIOUS
    <2>2. DOMAIN more = 1..n + 1 /\ (\A j \in 1..n : more[j] = log[j]) /\ more[n + 1] = s
      BY <1>1, <2>1
    <2>3. Append(places, n + 1) = [j \in 1..n + 1 |-> j]
      BY <1>2, <1>3
    <2>4. RecordedTurns(more) = Picked(Append(places, n + 1), Turns(more))
      BY <2>2, <2>3 DEF RecordedTurns
    <2>5. \A j \in 1..n : j \in Turns(log) <=> j \in Turns(more)
      BY <1>1, <2>2 DEF Turns
    <2>6. n + 1 \in Turns(more) <=> s.kind = "model_call"
      BY <2>2 DEF Turns
    <2>7. PICK x : x = n + 1 /\ x \in Nat
      <3>1. n + 1 \in Nat
        OBVIOUS
      <3> QED BY <3>1, Zenon
    <2>8. Picked(Append(places, x), Turns(more)) =
            IF n + 1 \in Turns(more) THEN Append(Picked(places, Turns(log)), x) ELSE Picked(places, Turns(log))
      <3>1. \A j \in 1..Len(places) : j \in Turns(log) <=> j \in Turns(more)
        BY <1>3, <2>5
      <3>2. places \in Seq(Nat) /\ x \in Nat
        BY <1>3, <2>7
      <3>3. Len(places) + 1 \in Turns(more) <=> n + 1 \in Turns(more)
        BY <1>3
      <3>4. Picked(Append(places, x), Turns(more)) =
              IF Len(places) + 1 \in Turns(more) THEN Append(Picked(places, Turns(log)), x)
              ELSE Picked(places, Turns(log))
        BY <3>1, <3>2, PickedAppend
      <3> QED BY <3>3, <3>4
    <2> QED BY <1>4, <2>1, <2>4, <2>6, <2>7, <2>8
  <1> QED BY <1>1, <1>5, <1>6, <1>7

(* The turns found, as places.                                               *)
LEMMA RecordedPlaces ==
  ASSUME NEW log \in Seq(Step)
  PROVE  \E k \in Nat :
           /\ k = Len(RecordedTurns(log)) /\ DOMAIN RecordedTurns(log) = 1..k
           /\ \A i \in 1..k : /\ RecordedTurns(log)[i] \in Turns(log)
                              /\ RecordedTurns(log)[i] \in Int
                              /\ RecordedTurns(log)[i] >= 1 /\ RecordedTurns(log)[i] <= Len(log)
  <1>1. RecordedTurns(log) \in Seq(Turns(log))
    BY RecordedMoves
  <1>2. \A t \in Turns(log) : t \in Int /\ t >= 1 /\ t <= Len(log)
    BY DEF Turns
  <1>3. PICK k \in Nat : k = Len(RecordedTurns(log)) /\ DOMAIN RecordedTurns(log) = 1..k
    BY <1>1
  <1>4. \A i \in 1..k : RecordedTurns(log)[i] \in Turns(log)
    BY <1>1, <1>3
  <1> QED BY <1>2, <1>3, <1>4

(* What a turn was shown is read from before it, whatever came later.        *)
LEMMA BeforeKept ==
  ASSUME NEW log \in Seq(Step), NEW s \in Step, NEW k \in Int, k <= Len(log) + 1
  PROVE  Before(Append(log, s), k) = Before(log, k)
  <1>1. PICK more \in Seq(Step) : more = Append(log, s) /\ Extends(log, more)
    BY Appended, Zenon
  <1>2. PICK m \in Int : m = k - 1 /\ m <= Len(log)
    OBVIOUS
  <1>3. SubSeq(more, 1, m) = SubSeq(log, 1, m)
    BY <1>1, <1>2, PrefixKept
  <1> QED BY <1>1, <1>2, <1>3 DEF Before

(* A step that is not a reply was shown to nobody yet; a reply was an answer *)
(* to all that was said.                                                     *)
LEMMA ObservedMoves ==
  ASSUME NEW log \in Seq(Step), NEW s \in Step
  PROVE  /\ DOMAIN Observed(log) = DOMAIN RecordedTurns(log)
         /\ Observed(Append(log, s)) =
              IF s.kind = "model_call" THEN Append(Observed(log), Rebuild(log)) ELSE Observed(log)
  <1>1. PICK more : more = Append(log, s)
    OBVIOUS
  <1>2. PICK turns : turns = RecordedTurns(log)
    OBVIOUS
  <1>3. PICK k \in Nat : /\ k = Len(turns) /\ DOMAIN turns = 1..k
                         /\ \A i \in 1..k : turns[i] \in Int /\ turns[i] <= Len(log)
    BY <1>2, RecordedPlaces
  <1>4. PICK n \in Nat : n = Len(log)
    OBVIOUS
  <1>5. \A i \in 1..k : Before(more, turns[i]) = Before(log, turns[i])
    <2>1. ASSUME NEW i \in 1..k PROVE Before(more, turns[i]) = Before(log, turns[i])
      <3>1. turns[i] \in Int /\ turns[i] <= Len(log) + 1
        BY <1>3, <1>4
      <3> QED BY <1>1, <3>1, BeforeKept
    <2> QED BY <2>1
  <1>6. Observed(log) = [i \in 1..k |-> Before(log, turns[i])]
    BY <1>2, <1>3 DEF Observed
  <1>7. CASE s.kind # "model_call"
    <2>1. RecordedTurns(more) = turns
      BY <1>1, <1>2, <1>7, RecordedMoves
    <2>2. Observed(more) = [i \in 1..k |-> Before(more, turns[i])]
      BY <1>3, <2>1 DEF Observed
    <2>3. Observed(more) = Observed(log)
      BY <1>5, <1>6, <2>2
    <2> QED BY <1>1, <1>2, <1>3, <1>6, <1>7, <2>3
  <1>8. CASE s.kind = "model_call"
    <2>1. RecordedTurns(more) = Append(turns, n + 1)
      BY <1>1, <1>2, <1>4, <1>8, RecordedMoves
    <2>2. turns \in Seq(Turns(log))
      BY <1>2, RecordedMoves
    <2>3. PICK found : found = Append(turns, n + 1)
      OBVIOUS
    <2>4. DOMAIN found = 1..k + 1 /\ (\A i \in 1..k : found[i] = turns[i]) /\ found[k + 1] = n + 1
      BY <1>3, <2>2, <2>3
    <2>5. Before(more, n + 1) = Rebuild(log)
      <3>1. n + 1 \in Int /\ n + 1 <= Len(log) + 1
        BY <1>4
      <3>2. Before(more, n + 1) = Before(log, n + 1)
        BY <1>1, <3>1, BeforeKept
      <3>3. (n + 1) - 1 = Len(log)
        BY <1>4
      <3>4. SubSeq(log, 1, Len(log)) = log
        BY WholePrefix
      <3> QED BY <3>2, <3>3, <3>4 DEF Before
    <2>6. Observed(more) = [i \in 1..k + 1 |-> Before(more, found[i])]
      BY <2>1, <2>3, <2>4 DEF Observed
    <2>7. PICK new : new = Observed(more)
      OBVIOUS
    <2>8. DOMAIN new = 1..k + 1 /\ new[k + 1] = Rebuild(log)
      <3>1. k + 1 \in 1..k + 1
        OBVIOUS
      <3> QED BY <2>4, <2>5, <2>6, <2>7, <3>1
    <2>9. PICK old : old = Observed(log)
      OBVIOUS
    <2>10. DOMAIN old = 1..k /\ \A i \in 1..k : new[i] = old[i]
      <3>1. ASSUME NEW i \in 1..k PROVE new[i] = old[i]
        <4>1. i \in 1..k + 1
          OBVIOUS
        <4>2. new[i] = Before(more, found[i])
          BY <2>6, <2>7, <4>1
        <4>3. old[i] = Before(log, turns[i])
          BY <1>6, <2>9
        <4> QED BY <1>5, <2>4, <4>2, <4>3
      <3> QED BY <1>6, <2>9, <3>1
    <2>11. Append(old, Rebuild(log)) = new
      <3>1. Len(old) = k
        BY <2>10
      <3>2. Append(old, Rebuild(log)) = [i \in 1..k + 1 |-> IF i = k + 1 THEN Rebuild(log) ELSE old[i]]
        <4>1. PICK S : S = {old[i] : i \in 1..k} \cup {Rebuild(log)}
          OBVIOUS
        <4>2. PICK x : x = Rebuild(log) /\ x \in S
          BY <4>1
        <4>3. old = [i \in 1..k |-> old[i]] /\ \A i \in 1..k : old[i] \in S
          BY <1>6, <2>9, <2>10, <4>1
        <4>4. old \in Seq(S)
          BY <4>3
        <4>5. PICK app : app = Append(old, x)
          OBVIOUS
        <4>6. app \in Seq(S) /\ DOMAIN app = 1..k + 1 /\ app[k + 1] = x /\ \A i \in 1..k : app[i] = old[i]
          BY <3>1, <4>2, <4>4, <4>5
        <4>7. app = [i \in 1..k + 1 |-> app[i]]
          BY <4>6
        <4>8. \A i \in 1..k + 1 : app[i] = IF i = k + 1 THEN x ELSE old[i]
          <5>1. ASSUME NEW i \in 1..k + 1, i # k + 1 PROVE i \in 1..k
            BY <5>1
          <5> QED BY <4>6, <5>1
        <4> QED BY <4>2, <4>5, <4>7, <4>8
      <3>3. new = [i \in 1..k + 1 |-> new[i]]
        BY <2>6, <2>7, <2>8
      <3>4. \A i \in 1..k + 1 : new[i] = IF i = k + 1 THEN Rebuild(log) ELSE old[i]
        <4>1. ASSUME NEW i \in 1..k + 1, i # k + 1 PROVE i \in 1..k
          BY <4>1
        <4> QED BY <2>8, <2>10, <4>1
      <3> QED BY <3>2, <3>3, <3>4
    <2> QED BY <1>1, <1>2, <1>3, <1>6, <1>8, <2>7, <2>9, <2>11
  <1> QED BY <1>7, <1>8

(* A message more is a turn more if the model said it.                       *)
LEMMA TurnIndexMoves ==
  ASSUME NEW ms \in Seq(Message), NEW m \in Message
  PROVE  /\ TurnIndex(ms) \in Nat
         /\ TurnIndex(Append(ms, m)) = IF m.role = "assistant" THEN TurnIndex(ms) + 1 ELSE TurnIndex(ms)
  <1>1. PICK n \in Nat : n = Len(ms) /\ DOMAIN ms = 1..n
    OBVIOUS
  <1>2. PICK more : more = Append(ms, m)
    OBVIOUS
  <1>3. DOMAIN more = 1..n + 1 /\ (\A i \in 1..n : more[i] = ms[i]) /\ more[n + 1] = m
    BY <1>1, <1>2
  <1>4. PICK S : S = {i \in DOMAIN ms : ms[i].role = "assistant"}
    OBVIOUS
  <1>5. PICK T : T = {i \in DOMAIN more : more[i].role = "assistant"}
    OBVIOUS
  <1>6. T = IF m.role = "assistant" THEN S \cup {n + 1} ELSE S
    <2>1. \A i : i \in T <=> (i \in S \/ (i = n + 1 /\ m.role = "assistant"))
      <3>1. ASSUME NEW i \in 1..n PROVE i \in T <=> i \in S
        <4>1. i \in 1..n + 1
          OBVIOUS
        <4> QED BY <1>1, <1>3, <1>4, <1>5, <4>1
      <3>2. n + 1 \in 1..n + 1
        OBVIOUS
      <3>3. n + 1 \in T <=> m.role = "assistant"
        BY <1>3, <1>5, <3>2
      <3>4. \A i : i \in 1..n + 1 <=> (i \in 1..n \/ i = n + 1)
        OBVIOUS
      <3>5. S \subseteq 1..n /\ T \subseteq 1..n + 1
        BY <1>1, <1>3, <1>4, <1>5
      <3> QED BY <3>1, <3>3, <3>4, <3>5
    <2> QED BY <2>1
  <1>7. IsFiniteSet(S) /\ n + 1 \notin S
    <2>1. IsFiniteSet(1..n) /\ S \subseteq 1..n
      BY <1>1, <1>4, FS_Interval
    <2>2. n + 1 \notin 1..n
      OBVIOUS
    <2> QED BY <2>1, <2>2, FS_Subset
  <1>8. Cardinality(S) \in Nat /\ Cardinality(S \cup {n + 1}) = Cardinality(S) + 1
    BY <1>7, FS_CardinalityType, FS_AddElement
  <1>9. TurnIndex(ms) = Cardinality(S) /\ TurnIndex(more) = Cardinality(T)
    BY <1>4, <1>5 DEF TurnIndex
  <1> QED BY <1>2, <1>6, <1>8, <1>9

(* told is what was said before each turn of the log: the turns are numbered *)
(* by what they were shown, and only the last one can have finished.         *)
Remembered(log, told) ==
  /\ Observed(log) = told
  /\ TurnIndex(Conversation(log).messages) = Len(RecordedTurns(log))
  /\ \A i \in DOMAIN RecordedTurns(log) :
       /\ TurnIndex(told[i]) = i - 1
       /\ Signature(log, RecordedTurns(log)[i]) = <<>> => i = Len(RecordedTurns(log))

(* No turn has finished.                                                     *)
Talks(log) == \A k \in Turns(log) : Signature(log, k) # <<>>

(* Nothing is remembered of an empty log.                                    *)
LEMMA NothingRemembered == Remembered(<<>>, <<>>) /\ Talks(<<>>)
  <1>1. PICK log : log = <<>> /\ log \in Seq(Step)
    <2>1. <<>> \in Seq(Step)
      OBVIOUS
    <2> QED BY <2>1, Zenon
  <1>2. RecordedTurns(log) = <<>> /\ DOMAIN RecordedTurns(log) = {} /\ Len(RecordedTurns(log)) = 0
    <2>1. RecordedTurns(log) = <<>>
      BY <1>1, RecordedMoves
    <2> QED BY <2>1
  <1>3. Observed(log) = <<>>
    <2>1. \A f : DOMAIN f = {} => [i \in DOMAIN f |-> Before(log, f[i])] = <<>>
      OBVIOUS
    <2> QED BY <1>2, <2>1 DEF Observed
  <1>4. Conversation(log).messages = <<Prompt>>
    BY <1>1, ConversationMoves DEF Start
  <1>5. TurnIndex(<<Prompt>>) = 0
    <2>1. {m \in DOMAIN <<Prompt>> : <<Prompt>>[m].role = "assistant"} = {}
      BY DEF Prompt
    <2> QED BY <2>1, FS_EmptySet DEF TurnIndex
  <1>6. Turns(log) = {}
    BY <1>1 DEF Turns
  <1> QED BY <1>1, <1>2, <1>3, <1>4, <1>5, <1>6 DEF Remembered, Talks

(* What a step that is not a reply adds changes nothing of that.             *)
LEMMA RememberedKept ==
  ASSUME NEW log \in Seq(Step), NEW s \in Step, s.kind # "model_call", NEW told, Remembered(log, told)
  PROVE  /\ Remembered(Append(log, s), told)
         /\ Turns(Append(log, s)) = Turns(log)
         /\ Talks(log) => Talks(Append(log, s))
  <1>1. PICK more : more = Append(log, s)
    OBVIOUS
  <1>2. PICK n \in Nat : /\ n = Len(log) /\ DOMAIN log = 1..n /\ DOMAIN more = 1..n + 1
                         /\ (\A i \in 1..n : more[i] = log[i]) /\ more[n + 1] = s
    BY <1>1
  <1>3. RecordedTurns(more) = RecordedTurns(log)
    BY <1>1, RecordedMoves
  <1>4. Observed(more) = told
    BY <1>1, ObservedMoves DEF Remembered
  <1>5. Conversation(more).messages = Conversation(log).messages
    <2>1. Conversation(more) = Taken(Conversation(log), more, n + 1)
      BY <1>1, <1>2, ConversationMoves
    <2>2. more[n + 1].kind # "model_call"
      BY <1>2
    <2> QED BY <2>1, <2>2 DEF Taken
  <1>6. \A i \in DOMAIN RecordedTurns(log) : RecordedTurns(log)[i] \in Turns(log)
    BY RecordedPlaces
  <1>7. \A k \in Turns(log) : Signature(more, k) = Signature(log, k)
    BY <1>2 DEF Turns, Signature
  <1>8. Turns(more) = Turns(log)
    BY <1>2 DEF Turns
  <1>9. Remembered(more, told)
    BY <1>3, <1>4, <1>5, <1>6, <1>7 DEF Remembered
  <1>10. Talks(log) => Talks(more)
    BY <1>7, <1>8 DEF Talks
  <1> QED BY <1>1, <1>8, <1>9, <1>10

(* A reply is remembered with all that was said before it.                   *)
LEMMA RememberedGrows ==
  ASSUME NEW log \in Seq(Step), NEW s \in Step, s.kind = "model_call", NEW told, Remembered(log, told),
         Talks(log), InPlace(log)
  PROVE  /\ Remembered(Append(log, s), Append(told, Rebuild(log)))
         /\ s.calls # <<>> => Talks(Append(log, s))
  <1>1. PICK more : more = Append(log, s)
    OBVIOUS
  <1>2. PICK n \in Nat : /\ n = Len(log) /\ DOMAIN log = 1..n /\ DOMAIN more = 1..n + 1
                         /\ (\A i \in 1..n : more[i] = log[i]) /\ more[n + 1] = s
    BY <1>1
  <1>3. PICK turns : turns = RecordedTurns(log) /\ turns \in Seq(Turns(log))
    BY RecordedMoves
  <1>4. PICK k \in Nat : k = Len(turns) /\ DOMAIN turns = 1..k
    BY <1>3
  <1>5. PICK found : found = RecordedTurns(more) /\ found = Append(turns, n + 1)
    BY <1>1, <1>2, <1>3, RecordedMoves
  <1>6. /\ Len(found) = k + 1 /\ DOMAIN found = 1..k + 1
        /\ (\A i \in 1..k : found[i] = turns[i]) /\ found[k + 1] = n + 1
    BY <1>3, <1>4, <1>5
  <1>7. PICK ms, p : ms = Conversation(log).messages /\ p = Conversation(log).pending
    OBVIOUS
  <1>8. ms \in Seq(Message) /\ p \in Seq(Said)
    BY <1>7 DEF InPlace, Open
  <1>9. TurnIndex(ms) = k
    BY <1>3, <1>4, <1>7 DEF Remembered
  <1>10. PICK all : /\ all = Rebuild(log) /\ all \in Seq(Message) /\ TurnIndex(all) = k
    <2>1. CASE p = <<>>
      <3>1. Rebuild(log) = ms
        BY <1>7, <2>1 DEF Rebuild, Flushed
      <3> QED BY <1>8, <1>9, <3>1, Zenon
    <2>2. CASE p # <<>>
      <3>1. Rebuild(log) = Append(ms, Says(p))
        BY <1>7, <2>2 DEF Rebuild, Flushed, Says
      <3>2. Says(p) \in Message /\ Says(p).role = "user"
        BY <1>8, GatheredMoves DEF Says
      <3>3. TurnIndex(Append(ms, Says(p))) = TurnIndex(ms)
        BY <1>8, <3>2, TurnIndexMoves
      <3>4. Append(ms, Says(p)) \in Seq(Message)
        BY <1>8, <3>2
      <3> QED BY <1>9, <3>1, <3>3, <3>4, Zenon
    <2> QED BY <2>1, <2>2
  <1>11. PICK m : m = Assistant(more, n + 1) /\ m \in Message /\ m.role = "assistant"
    <2>1. PICK j \in Nat : j = Len(s.calls) /\ DOMAIN s.calls = 1..j /\ \A i \in 1..j : s.calls[i] \in Actions
      BY DEF Step
    <2>2. PICK c : c = [i \in 1..j |-> [type |-> "tool_use", id |-> <<n + 1, i>>, action |-> s.calls[i]]]
      OBVIOUS
    <2>3. Assistant(more, n + 1) = [role |-> "assistant", content |-> c]
      BY <1>2, <2>1, <2>2 DEF Assistant
    <2>4. \A i \in 1..j : <<n + 1, i>> \in CallIds
      BY DEF CallIds
    <2>5. \A i \in 1..j : [type |-> "tool_use", id |-> <<n + 1, i>>, action |-> s.calls[i]] \in Block
      BY <2>1, <2>4 DEF Block
    <2>6. c \in Seq(Block)
      BY <2>2, <2>5
    <2>7. [role |-> "assistant", content |-> c] \in Message
      BY <2>6 DEF Message
    <2> QED BY <2>3, <2>7
  <1>12. Conversation(more).messages = Append(all, m)
    <2>1. Conversation(more) = Taken(Conversation(log), more, n + 1)
      BY <1>1, <1>2, ConversationMoves
    <2> QED BY <1>2, <1>10, <1>11, <2>1 DEF Taken, Rebuild
  <1>13. TurnIndex(Conversation(more).messages) = k + 1
    BY <1>10, <1>11, <1>12, TurnIndexMoves
  <1>14. PICK new : new = Append(told, all) /\ Observed(more) = new
    BY <1>1, <1>10, ObservedMoves DEF Remembered
  <1>15. DOMAIN told = 1..k
    BY <1>3, <1>4, ObservedMoves DEF Remembered
  <1>16. (\A i \in 1..k : new[i] = told[i]) /\ new[k + 1] = all
    <2>1. PICK S : S = {told[i] : i \in 1..k} \cup {all}
      OBVIOUS
    <2>2. told = [i \in 1..k |-> told[i]]
      <3>1. Observed(log) = told
        BY DEF Remembered
      <3> QED BY <1>3, <1>4, <3>1 DEF Observed
    <2>3. told \in Seq(S) /\ Len(told) = k /\ all \in S
      BY <1>15, <2>1, <2>2
    <2> QED BY <1>14, <2>3
  <1>17. \A t \in Turns(log) : Signature(more, t) = Signature(log, t)
    BY <1>2 DEF Turns, Signature
  <1>18. ASSUME NEW i \in 1..k + 1
         PROVE  /\ TurnIndex(new[i]) = i - 1
                /\ Signature(more, found[i]) = <<>> => i = k + 1
    <2>1. CASE i = k + 1
      BY <1>10, <1>16, <2>1
    <2>2. CASE i \in 1..k
      <3>1. turns[i] \in Turns(log)
        BY <1>3, <1>4, <2>2
      <3>2. TurnIndex(told[i]) = i - 1
        BY <1>3, <1>4, <2>2 DEF Remembered
      <3>3. Signature(more, found[i]) # <<>>
        BY <1>6, <1>17, <2>2, <3>1 DEF Talks
      <3> QED BY <1>16, <2>2, <3>2, <3>3
    <2>3. i = k + 1 \/ i \in 1..k
      OBVIOUS
    <2> QED BY <2>1, <2>2, <2>3
  <1>19. Remembered(more, new)
    BY <1>5, <1>6, <1>13, <1>14, <1>18 DEF Remembered
  <1>20. ASSUME s.calls # <<>> PROVE Talks(more)
    <2>1. ASSUME NEW t \in Turns(more) PROVE Signature(more, t) # <<>>
      <3>1. t \in Turns(log) \/ t = n + 1
        BY <1>2 DEF Turns
      <3>2. Signature(more, n + 1) # <<>>
        BY <1>2, <1>20 DEF Signature
      <3> QED BY <1>17, <3>1, <3>2 DEF Talks
    <2> QED BY <2>1 DEF Talks
  <1> QED BY <1>1, <1>10, <1>14, <1>19, <1>20

-----------------------------------------------------------------------------
(* It is what was heard, in every reachable state. *)

(* Of w's transaction the run's turns are remembered, and nobody finished.   *)
SettlerRemembers(w) ==
  pc[w] = "settling" =>
    /\ Remembered(txSteps[w], heard[run[w]]) /\ Talks(txSteps[w])
    /\ Turns(txSteps[w]) = Turns(steps[run[w]])

(* While w holds the run it waits with all that is on record.                *)
AskerRemembers(w) ==
  pc[w] = "model" /\ owner[run[w]] = w => asked[w] = Rebuild(steps[run[w]])

(* The inductive invariant of a replay: what the log gives back of each turn *)
(* is what its worker was given, and an open run has not finished.           *)
HeardInv ==
  /\ TalkInv
  /\ \A r \in Runs : /\ Remembered(steps[r], heard[r])
                     /\ status[r] \notin Ended => Talks(steps[r])
  /\ \A w \in Workers : SettlerRemembers(w) /\ AskerRemembers(w)

(* Nothing was heard at first.                                               *)
LEMMA HeardInvInit == TInit => HeardInv
  <1> SUFFICES ASSUME TInit PROVE HeardInv
    OBVIOUS
  <1>1. TalkInv
    BY TalkInvInit
  <1>2. \A r \in Runs : steps[r] = <<>> /\ heard[r] = <<>>
    BY DEF TInit, Init
  <1>3. \A w \in Workers : pc[w] = "idle"
    BY DEF TInit, Init
  <1>4. \A r \in Runs : Remembered(steps[r], heard[r]) /\ Talks(steps[r])
    BY <1>2, NothingRemembered
  <1> QED BY <1>1, <1>3, <1>4 DEF HeardInv, SettlerRemembers, AskerRemembers

(* Without a turn more nothing more was heard; a turn answers what its       *)
(* worker was given.                                                         *)
LEMMA HeardMoves ==
  ASSUME TypeOK, Next, Hears, NEW r \in Runs
  PROVE  /\ Turns(steps'[r]) = Turns(steps[r]) => heard'[r] = heard[r]
         /\ \A w \in Workers :
              pc[w] = "model" /\ pc'[w] # "model" /\ Turns(steps'[r]) # Turns(steps[r]) =>
                heard'[r] = Append(heard[r], asked[w])
  <1>1. heard'[r] = IF Turns(steps'[r]) = Turns(steps[r]) THEN heard[r]
                    ELSE Append(heard[r], asked[CHOOSE w \in Workers : pc[w] = "model" /\ pc'[w] # "model"])
    BY DEF Hears
  <1>2. ASSUME NEW w \in Workers, pc[w] = "model", pc'[w] # "model"
        PROVE  (CHOOSE v \in Workers : pc[v] = "model" /\ pc'[v] # "model") = w
    <2>1. \A v \in Workers : pc[v] = "model" /\ pc'[v] # "model" => v = w
      BY <1>2, OneMoves
    <2> QED BY <1>2, <2>1
  <1> QED BY <1>1, <1>2

(* What is on record of r is remembered after every step.                    *)
LEMMA CommittedRemembered ==
  ASSUME HeardInv, Next, Hears, NEW r \in Runs
  PROVE  /\ Remembered(steps'[r], heard'[r])
         /\ status'[r] \notin Ended => Talks(steps'[r])
  <1>1. /\ TalkInv /\ RInv /\ IInv /\ TypeOK /\ steps[r] \in Seq(Step)
        /\ Remembered(steps[r], heard[r]) /\ InPlace(steps[r])
    BY DEF HeardInv, TalkInv, RInv, IInv, TypeOK
  <1>2. status'[r] \notin Ended => Talks(steps[r])
    BY <1>1, ClosedGrows DEF Closed, HeardInv
  <1>3. ASSUME RecordKept(r)
        PROVE  Remembered(steps'[r], heard'[r]) /\ (status'[r] \notin Ended => Talks(steps'[r]))
    <2>1. steps'[r] = steps[r]
      BY <1>3 DEF RecordKept
    <2>2. heard'[r] = heard[r]
      BY <1>1, <2>1, HeardMoves
    <2> QED BY <1>1, <1>2, <2>1, <2>2
  <1>4. ASSUME NEW w \in Workers, RecordNoted(r, w)
        PROVE  Remembered(steps'[r], heard'[r]) /\ (status'[r] \notin Ended => Talks(steps'[r]))
    <2>1. steps'[r] = Append(steps[r], Notice)
      BY <1>4 DEF RecordNoted
    <2>2. Notice \in Step /\ Notice.kind # "model_call"
      BY StepKinds
    <2>3. /\ Remembered(Append(steps[r], Notice), heard[r])
          /\ Turns(Append(steps[r], Notice)) = Turns(steps[r])
          /\ Talks(steps[r]) => Talks(Append(steps[r], Notice))
      BY <1>1, <2>2, RememberedKept
    <2>4. heard'[r] = heard[r]
      BY <1>1, <2>1, <2>3, HeardMoves
    <2> QED BY <1>2, <2>1, <2>3, <2>4
  <1>5. ASSUME NEW w \in Workers, RecordReplied(r, w)
        PROVE  Remembered(steps'[r], heard'[r]) /\ (status'[r] \notin Ended => Talks(steps'[r]))
    <2>1. PICK reply \in Replies \cup {<<>>} :
            /\ reply = <<>> => status'[r] \in Ended
            /\ \/ steps'[r] = Append(steps[r], ModelCall(reply))
               \/ steps'[r] = Append(Append(steps[r], ModelCall(reply)), Final)
      BY <1>5 DEF RecordReplied
    <2>2. /\ pc[w] = "model" /\ pc'[w] # "model"
          /\ asked[w] = Rebuild(steps[r]) /\ Talks(steps[r])
      BY <1>5 DEF RecordReplied, HeardInv, AskerRemembers, Ended
    <2>3. PICK s \in Step : s = ModelCall(reply) /\ s.kind = "model_call" /\ s.calls = reply
      BY StepKinds
    <2>4. PICK log : log = Append(steps[r], s) /\ log \in Seq(Step)
      <3>1. Append(steps[r], s) \in Seq(Step)
        BY <1>1
      <3> QED BY <3>1, Zenon
    <2>5. PICK told : told = Append(heard[r], asked[w])
      OBVIOUS
    <2>6. Remembered(log, told) /\ (reply # <<>> => Talks(log))
      BY <1>1, <2>2, <2>3, <2>4, <2>5, RememberedGrows
    <2>7. Turns(log) = Turns(steps[r]) \cup {Len(steps[r]) + 1}
      BY <1>1, <2>3, <2>4, ReplyMoves
    <2>8. Turns(log) # Turns(steps[r])
      BY <1>1, <2>7 DEF Turns
    <2>9. CASE steps'[r] = log
      <3>1. heard'[r] = told
        BY <1>1, <2>2, <2>5, <2>8, <2>9, HeardMoves
      <3> QED BY <2>1, <2>6, <2>9, <3>1
    <2>10. CASE steps'[r] = Append(log, Final)
      <3>1. Final \in Step /\ Final.kind # "model_call"
        BY StepKinds
      <3>2. /\ Remembered(Append(log, Final), told) /\ Turns(Append(log, Final)) = Turns(log)
            /\ Talks(log) => Talks(Append(log, Final))
        BY <2>4, <2>6, <3>1, RememberedKept
      <3>3. heard'[r] = told
        BY <1>1, <2>2, <2>5, <2>8, <2>10, <3>2, HeardMoves
      <3> QED BY <2>1, <2>6, <2>10, <3>2, <3>3
    <2> QED BY <2>1, <2>3, <2>4, <2>9, <2>10
  <1>6. ASSUME NEW w \in Workers, RecordCommitted(r, w)
        PROVE  Remembered(steps'[r], heard'[r]) /\ (status'[r] \notin Ended => Talks(steps'[r]))
    <2>1. /\ txSteps[w] \in Seq(Step) /\ Remembered(txSteps[w], heard[r]) /\ Talks(txSteps[w])
          /\ Turns(txSteps[w]) = Turns(steps[r]) /\ todo[w] \subseteq CallIds
      BY <1>1, <1>6 DEF RecordCommitted, HeardInv, SettlerRemembers, TypeOK
    <2>2. CASE steps'[r] = txSteps[w]
      <3>1. heard'[r] = heard[r]
        BY <1>1, <2>1, <2>2, HeardMoves
      <3> QED BY <2>1, <2>2, <3>1
    <2>3. ASSUME NEW c \in todo[w], steps'[r] = Append(txSteps[w], ToolResult(c, TRUE))
          PROVE  Remembered(steps'[r], heard'[r]) /\ Talks(steps'[r])
      <3>1. PICK s \in Step : s = ToolResult(c, TRUE) /\ s.kind # "model_call"
        <4>1. c \in CallIds
          BY <2>1
        <4> QED BY <4>1, StepKinds
      <3>2. /\ Remembered(Append(txSteps[w], s), heard[r])
            /\ Turns(Append(txSteps[w], s)) = Turns(txSteps[w])
            /\ Talks(Append(txSteps[w], s))
        BY <2>1, <3>1, RememberedKept
      <3>3. heard'[r] = heard[r]
        BY <1>1, <2>1, <2>3, <3>1, <3>2, HeardMoves
      <3> QED BY <2>3, <3>1, <3>2, <3>3
    <2> QED BY <1>6, <2>2, <2>3 DEF RecordCommitted
  <1>7. RecordMoves(r)
    BY <1>1, RecordStep
  <1> QED BY <1>3, <1>4, <1>5, <1>6, <1>7 DEF RecordMoves

(* So is what a transaction would commit.                                    *)
LEMMA SettlerStillRemembers ==
  ASSUME HeardInv, Next, Hears, NEW w \in Workers
  PROVE  SettlerRemembers(w)'
  <1>1. /\ TalkInv /\ RInv /\ IInv /\ TypeOK
    BY DEF HeardInv, TalkInv, RInv, IInv
  <1> SUFFICES ASSUME pc'[w] = "settling"
               PROVE  /\ Remembered(txSteps'[w], heard'[run'[w]]) /\ Talks(txSteps'[w])
                      /\ Turns(txSteps'[w]) = Turns(steps'[run'[w]])
    BY DEF SettlerRemembers
  <1>2. CASE BeginSettle(w)
    <2>1. /\ run[w] \in Runs /\ run' = run /\ steps' = steps /\ txSteps'[w] = steps[run[w]]
          /\ status[run[w]] = "running"
      BY <1>1, <1>2 DEF BeginSettle, GoTo, Holds, dbVars, TypeOK
    <2>2. heard'[run[w]] = heard[run[w]]
      BY <1>1, <2>1, HeardMoves
    <2>3. Remembered(steps[run[w]], heard[run[w]]) /\ Talks(steps[run[w]])
      BY <2>1 DEF HeardInv, Ended
    <2> QED BY <2>1, <2>2, <2>3
  <1>3. CASE TxAnswered(w) \/ TxRan(w)
    <2>1. pc[w] = "settling" /\ run'[w] = run[w]
      BY <1>3 DEF TxAnswered, TxRan
    <2>2. /\ run[w] \in Runs /\ txSteps[w] \in Seq(Step) /\ todo[w] \subseteq CallIds
          /\ Remembered(txSteps[w], heard[run[w]]) /\ Talks(txSteps[w])
          /\ Turns(txSteps[w]) = Turns(steps[run[w]])
      BY <1>1, <2>1 DEF HeardInv, SettlerRemembers, TypeOK
    <2>3. steps'[run[w]] = steps[run[w]]
      BY <1>1, <2>1, SettledRowIsQuiet DEF Quiet
    <2>4. heard'[run[w]] = heard[run[w]]
      BY <1>1, <2>2, <2>3, HeardMoves
    <2>5. CASE txSteps'[w] = txSteps[w]
      BY <2>1, <2>2, <2>3, <2>4, <2>5
    <2>6. ASSUME NEW c \in todo[w], NEW ok \in BOOLEAN,
                 NEW s \in {ToolResult(c, ok), DenialStep(c)}, txSteps'[w] = Append(txSteps[w], s)
          PROVE  /\ Remembered(txSteps'[w], heard[run[w]]) /\ Talks(txSteps'[w])
                 /\ Turns(txSteps'[w]) = Turns(txSteps[w])
      <3>1. s \in Step /\ s.kind # "model_call"
        <4>1. c \in CallIds
          BY <2>2
        <4>2. CASE s = ToolResult(c, ok)
          BY <4>1, <4>2, StepKinds
        <4>3. CASE s = DenialStep(c)
          BY <4>1, <4>3, StepKinds
        <4> QED BY <4>2, <4>3
      <3> QED BY <2>2, <2>6, <3>1, RememberedKept
    <2>7. \/ txSteps'[w] = txSteps[w]
          \/ \E c \in todo[w], ok \in BOOLEAN : \E s \in {ToolResult(c, ok), DenialStep(c)} :
               txSteps'[w] = Append(txSteps[w], s)
      <3>1. FALSE \in BOOLEAN
        OBVIOUS
      <3>2. CASE TxAnswered(w)
        BY <3>1, <3>2 DEF TxAnswered
      <3>3. CASE TxRan(w)
        BY <3>3 DEF TxRan
      <3> QED BY <1>3, <3>2, <3>3
    <2> QED BY <2>1, <2>2, <2>3, <2>4, <2>5, <2>6, <2>7
  <1> QED BY <1>1, <1>2, <1>3, TxStep

(* Who holds a run and waits was given all that is on record.                *)
LEMMA AskerStillRemembers ==
  ASSUME HeardInv, Next, Asks, NEW w \in Workers
  PROVE  AskerRemembers(w)'
  <1>1. /\ TalkInv /\ RInv /\ IInv /\ TypeOK
    BY DEF HeardInv, TalkInv, RInv, IInv
  <1> SUFFICES ASSUME pc'[w] = "model", owner'[run'[w]] = w
               PROVE  asked'[w] = Rebuild(steps'[run'[w]])
    BY DEF AskerRemembers
  <1>2. /\ run'[w] = run[w] /\ run[w] \in Runs
        /\ AskModel(w) \/ (pc[w] = "model" /\ owner[run[w]] = w)
    BY <1>1, AskerStep
  <1>3. CASE AskModel(w)
    <2>1. pc[w] # "model"
      BY <1>3 DEF AskModel, MayAskModel
    <2> QED BY <2>1 DEF Asks
  <1>4. CASE pc[w] = "model" /\ owner[run[w]] = w
    <2>1. asked'[w] = asked[w]
      BY <1>4 DEF Asks
    <2>2. steps'[run[w]] = steps[run[w]]
      BY <1>1, <1>2, <1>4, WaitingRecordKept DEF RecordKept
    <2> QED BY <1>2, <1>4, <2>1, <2>2 DEF HeardInv, AskerRemembers
  <1> QED BY <1>2, <1>3, <1>4

(* Every step keeps what was heard.                                          *)
LEMMA HeardInvStep == HeardInv /\ [TNext]_<<vars, historyVars>> => HeardInv'
  <1> SUFFICES ASSUME HeardInv, [TNext]_<<vars, historyVars>> PROVE HeardInv'
    OBVIOUS
  <1>1. TalkInv'
    BY TalkInvStep DEF HeardInv
  <1>2. CASE UNCHANGED <<vars, historyVars>>
    BY <1>1, <1>2 DEF HeardInv, SettlerRemembers, AskerRemembers, vars, dbVars, txVars, historyVars
  <1>3. CASE TNext
    <2>1. Next /\ Asks /\ Hears
      BY <1>3 DEF TNext
    <2>2. \A r \in Runs : /\ Remembered(steps'[r], heard'[r])
                          /\ status'[r] \notin Ended => Talks(steps'[r])
      BY <2>1, CommittedRemembered
    <2>3. \A w \in Workers : SettlerRemembers(w)' /\ AskerRemembers(w)'
      BY <2>1, SettlerStillRemembers, AskerStillRemembers
    <2> QED BY <1>1, <2>2, <2>3 DEF HeardInv
  <1> QED BY <1>2, <1>3

(* A log gives back what each of its turns was shown.                        *)
THEOREM TurnsAreRemembered == TSpec => []HeardInv
  BY HeardInvInit, HeardInvStep, PTL DEF TSpec

-----------------------------------------------------------------------------
(* What a replay says of it. *)

(* The decisions of a log, as a replay compares them.                        *)
Decided(log) == [i \in DOMAIN RecordedTurns(log) |-> Signature(log, RecordedTurns(log)[i])]

(* The same decisions differ nowhere.                                        *)
LEMMA SameDecisions ==
  ASSUME NEW log \in Seq(Step), NEW told, Remembered(log, told)
  PROVE  Diverge(log, Decided(log)) = [step |-> NoDivergence, matched |-> Len(RecordedTurns(log))]
  <1>1. PICK turns : turns = RecordedTurns(log)
    OBVIOUS
  <1>2. PICK k \in Nat : k = Len(turns) /\ DOMAIN turns = 1..k
    BY <1>1, RecordedPlaces
  <1>3. PICK script : script = Decided(log)
    OBVIOUS
  <1>4. \A i \in 1..k : script[i] = Signature(log, turns[i])
    BY <1>1, <1>2, <1>3 DEF Decided
  <1>5. \A i \in 1..k : script[i] = <<>> => i = k
    BY <1>1, <1>2, <1>4 DEF Remembered
  <1>6. PICK stops : stops = {i \in 1..k : /\ script[i] # Signature(log, turns[i]) \/ Signature(log, turns[i]) = <<>>
                                           /\ \A j \in 1..i - 1 :
                                                ~(script[j] # Signature(log, turns[j]) \/ Signature(log, turns[j]) = <<>>)}
    OBVIOUS
  <1>7. \A i \in stops : i = k /\ script[i] = Signature(log, turns[i])
    BY <1>4, <1>5, <1>6
  <1>8. (IF stops = {} THEN k ELSE CHOOSE i \in stops : TRUE) = k
    <2>1. CASE stops # {}
      <3>1. (CHOOSE i \in stops : TRUE) \in stops
        BY <2>1
      <3> QED BY <1>7, <2>1, <3>1
    <2> QED BY <2>1
  <1>9. Diverge(log, script) = [step |-> NoDivergence, matched |-> IF stops = {} THEN k ELSE CHOOSE i \in stops : TRUE]
    <2>1. ~ \E i \in stops : script[i] # Signature(log, turns[i])
      BY <1>7
    <2>2. Diverge(log, script) =
            IF \E i \in stops : script[i] # Signature(log, turns[i])
            THEN [step |-> turns[CHOOSE i \in stops : TRUE], matched |-> (CHOOSE i \in stops : TRUE) - 1]
            ELSE [step |-> NoDivergence, matched |-> IF stops = {} THEN k ELSE CHOOSE i \in stops : TRUE]
      BY <1>1, <1>2, <1>6 DEF Diverge
    <2> QED BY <2>1, <2>2
  <1> QED BY <1>1, <1>2, <1>3, <1>8, <1>9

(* A decision that is another at one turn differs there and nowhere before.  *)
LEMMA OneOther ==
  ASSUME NEW log \in Seq(Step), NEW told, Remembered(log, told),
         NEW i \in DOMAIN RecordedTurns(log), NEW other, other # Decided(log)[i]
  PROVE  Diverge(log, [Decided(log) EXCEPT ![i] = other]) = [step |-> RecordedTurns(log)[i], matched |-> i - 1]
  <1>1. PICK turns : turns = RecordedTurns(log)
    OBVIOUS
  <1>2. PICK k \in Nat : k = Len(turns) /\ DOMAIN turns = 1..k /\ i \in 1..k
    BY <1>1, RecordedPlaces
  <1>3. PICK script : script = [Decided(log) EXCEPT ![i] = other]
    OBVIOUS
  <1>4. /\ \A j \in 1..k : j # i => script[j] = Signature(log, turns[j])
        /\ script[i] = other /\ script[i] # Signature(log, turns[i])
    BY <1>1, <1>2, <1>3 DEF Decided
  <1>5. \A j \in 1..k : Signature(log, turns[j]) = <<>> => j = k
    BY <1>1, <1>2 DEF Remembered
  <1>6. PICK stops : stops = {m \in 1..k : /\ script[m] # Signature(log, turns[m]) \/ Signature(log, turns[m]) = <<>>
                                           /\ \A j \in 1..m - 1 :
                                                ~(script[j] # Signature(log, turns[j]) \/ Signature(log, turns[j]) = <<>>)}
    OBVIOUS
  <1>7. i \in stops
    <2>1. \A j \in 1..i - 1 : j \in 1..k /\ j # i /\ j # k
      BY <1>2
    <2> QED BY <1>2, <1>4, <1>5, <1>6, <2>1
  <1>8. ASSUME NEW m \in stops PROVE m = i
    <2>1. CASE m < i
      <3>1. m \in 1..i - 1
        BY <1>2, <1>6, <2>1
      <3> QED BY <1>6, <1>7, <1>8, <3>1
    <2>2. CASE m > i
      <3>1. i \in 1..m - 1
        BY <1>2, <1>6, <2>2
      <3> QED BY <1>4, <1>6, <3>1
    <2>3. m \in 1..k /\ i \in 1..k
      BY <1>2, <1>6
    <2> QED BY <2>1, <2>2, <2>3
  <1>9. (CHOOSE m \in stops : TRUE) = i
    BY <1>7, <1>8
  <1>10. Diverge(log, script) = [step |-> turns[CHOOSE m \in stops : TRUE], matched |-> (CHOOSE m \in stops : TRUE) - 1]
    BY <1>1, <1>2, <1>4, <1>6, <1>7 DEF Diverge
  <1> QED BY <1>1, <1>3, <1>9, <1>10

(* What is shown before two turns is not the same.                           *)
LEMMA ShownOnce ==
  ASSUME NEW log \in Seq(Step), NEW told, Remembered(log, told),
         NEW i \in DOMAIN RecordedTurns(log), NEW messages, messages = told[i]
  PROVE  (CHOOSE j \in DOMAIN RecordedTurns(log) : told[j] = messages) = i
  <1>1. \A j \in DOMAIN RecordedTurns(log) : TurnIndex(told[j]) = j - 1 /\ j \in Nat
    BY RecordedPlaces DEF Remembered
  <1>2. ASSUME NEW j \in DOMAIN RecordedTurns(log), told[j] = messages PROVE j = i
    <2>1. j - 1 = i - 1 /\ j \in Nat /\ i \in Nat
      BY <1>1, <1>2
    <2> QED BY <2>1
  <1> QED BY <1>2

(* The model that made the log, and a script with one decision changed, when *)
(* they are shown what was shown before each turn.                           *)
Again(log, told) ==
  [i \in DOMAIN RecordedTurns(log) |->
     Decided(log)[CHOOSE j \in DOMAIN RecordedTurns(log) : told[j] = Observed(log)[i]]]
Changed(log, i, other) ==
  [j \in DOMAIN RecordedTurns(log) |-> Scripted([Decided(log) EXCEPT ![i] = other], Observed(log)[j])]

(* The model decides as it did.                                              *)
LEMMA AgainTheSame ==
  ASSUME NEW log \in Seq(Step), NEW told, Remembered(log, told)
  PROVE  Again(log, told) = Decided(log)
  <1>1. ASSUME NEW i \in DOMAIN RecordedTurns(log)
        PROVE  (CHOOSE j \in DOMAIN RecordedTurns(log) : told[j] = Observed(log)[i]) = i
    <2>1. PICK messages : messages = Observed(log)[i]
      OBVIOUS
    <2>2. messages = told[i]
      BY <2>1 DEF Remembered
    <2> QED BY <2>1, <2>2, ShownOnce
  <1>2. Decided(log) = [i \in DOMAIN RecordedTurns(log) |-> Decided(log)[i]]
    BY DEF Decided
  <1> HIDE DEF Decided
  <1> QED BY <1>1, <1>2 DEF Again

(* The script decides as it is written.                                      *)
LEMMA ChangedAtOne ==
  ASSUME NEW log \in Seq(Step), NEW told, Remembered(log, told),
         NEW i \in DOMAIN RecordedTurns(log), NEW other
  PROVE  Changed(log, i, other) = [Decided(log) EXCEPT ![i] = other]
  <1>1. PICK k \in Nat : k = Len(RecordedTurns(log)) /\ DOMAIN RecordedTurns(log) = 1..k
    BY RecordedPlaces
  <1>2. PICK changed : changed = [Decided(log) EXCEPT ![i] = other]
    OBVIOUS
  <1>3. DOMAIN changed = 1..k /\ changed = [j \in 1..k |-> changed[j]]
    BY <1>1, <1>2 DEF Decided
  <1>4. Len(changed) = k
    BY <1>3
  <1>5. ASSUME NEW j \in 1..k PROVE Scripted(changed, Observed(log)[j]) = changed[j]
    <2>1. TurnIndex(Observed(log)[j]) = j - 1
      BY <1>1 DEF Remembered
    <2>2. TurnIndex(Observed(log)[j]) < Len(changed) /\ TurnIndex(Observed(log)[j]) + 1 = j
      BY <1>4, <2>1
    <2> QED BY <2>2 DEF Scripted
  <1>6. Changed(log, i, other) = [j \in 1..k |-> Scripted(changed, Observed(log)[j])]
    BY <1>1, <1>2 DEF Changed
  <1> QED BY <1>2, <1>3, <1>5, <1>6

(* What a replay makes of a log that is remembered.                          *)
LEMMA ReplayOfLog ==
  ASSUME NEW log \in Seq(Step), NEW told, Remembered(log, told)
  PROVE  /\ Observed(log) = told
         /\ Diverge(log, Again(log, told)) = [step |-> NoDivergence, matched |-> Len(RecordedTurns(log))]
         /\ \A i \in DOMAIN RecordedTurns(log) : \A other :
              other # Decided(log)[i] =>
                Diverge(log, Changed(log, i, other)) = [step |-> RecordedTurns(log)[i], matched |-> i - 1]
  <1>1. Observed(log) = told
    BY DEF Remembered
  <1>2. Diverge(log, Again(log, told)) = [step |-> NoDivergence, matched |-> Len(RecordedTurns(log))]
    BY AgainTheSame, SameDecisions
  <1>3. ASSUME NEW i \in DOMAIN RecordedTurns(log), NEW other, other # Decided(log)[i]
        PROVE  Diverge(log, Changed(log, i, other)) = [step |-> RecordedTurns(log)[i], matched |-> i - 1]
    <2>1. Changed(log, i, other) = [Decided(log) EXCEPT ![i] = other]
      BY ChangedAtOne
    <2>2. Diverge(log, [Decided(log) EXCEPT ![i] = other]) = [step |-> RecordedTurns(log)[i], matched |-> i - 1]
      BY <1>3, OneOther
    <2> QED BY <2>1, <2>2
  <1> QED BY <1>1, <1>2, <1>3

(* So what is heard decides every replay.                                    *)
LEMMA ReplayIsTrue ==
  ASSUME HeardInv
  PROVE  ReplayFindsTheChange
  <1>1. ASSUME NEW r \in Runs
        PROVE  /\ Observed(steps[r]) = heard[r]
               /\ Diverge(steps[r], Again(steps[r], heard[r]))
                    = [step |-> NoDivergence, matched |-> Len(RecordedTurns(steps[r]))]
               /\ \A i \in DOMAIN RecordedTurns(steps[r]) : \A other :
                    other # Decided(steps[r])[i] =>
                      Diverge(steps[r], Changed(steps[r], i, other))
                        = [step |-> RecordedTurns(steps[r])[i], matched |-> i - 1]
    <2>1. steps[r] \in Seq(Step) /\ Remembered(steps[r], heard[r])
      BY DEF HeardInv, TalkInv, RInv, IInv, TypeOK
    <2> QED BY <2>1, ReplayOfLog
  <1> QED BY <1>1 DEF ReplayFindsTheChange, Again, Changed, Decided

(* The log of a run gives back, for every recorded turn, the very messages   *)
(* it answered, and a replay finds a change where it is.                     *)
THEOREM ReplayFindsTheChangeAlways == TSpec => []ReplayFindsTheChange
  BY TurnsAreRemembered, ReplayIsTrue, PTL

=============================================================================
