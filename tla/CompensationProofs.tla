-------------------------- MODULE CompensationProofs --------------------------
(***************************************************************************)
(* Theorems about Compensation, for any runs, workers, calls and bounds,   *)
(* provided that a failure is recorded before another worker may claim the *)
(* compensation: an inverse is applied at most once, the item rows tell    *)
(* what was applied, the outcome is honest; and, in the second half, a     *)
(* walk back keeps the promise of WalkBack and the ticket shows it.        *)
(*                                                                         *)
(* The argument: a worker with an item in its hands still holds the lease  *)
(* of its compensation and the item is still pending (InHand), so what it  *)
(* writes to the item overwrites nobody's outcome (WorkKeepsMarks); and    *)
(* the once-key lets an inverse be committed only while no row says it     *)
(* was.  The outcome is read off the items, and they say only what the     *)
(* ledger bears out (WellTold).                                            *)
(***************************************************************************)
EXTENDS Compensation, SequenceTheorems, WellFoundedInduction, TLAPS

Places == {"idle", "driving", "applying", "failing"}
WithItem == {"applying", "failing"}
IsSeq(s) == \E S : s \in Seq(S)

(* The types the argument needs, of the ledger only that its rows are numbered. *)
LedgerTypes ==
  /\ ledger = [r \in Runs |-> ledger[r]]
  /\ \A r \in Runs : IsSeq(ledger[r]) /\ Len(ledger[r]) <= MaxActs
PlanTypes ==
  /\ drawn = [r \in Runs |-> drawn[r]]
  /\ \A r \in Runs : drawn[r] \subseteq DOMAIN ledger[r]
CompTypes ==
  /\ comps \in Seq(CompRecord)
  /\ \A c \in DOMAIN comps : DOMAIN comps[c].items \subseteq DOMAIN ledger[comps[c].run]
WorkerTypes ==
  /\ pc \in [Workers -> Places]
  /\ comp \in [Workers -> Nat]
  /\ item \in [Workers -> Nat]
  /\ \A w \in Workers : pc[w] # "idle" => comp[w] \in DOMAIN comps
  /\ \A w \in Workers : pc[w] \in WithItem => item[w] \in DOMAIN comps[comp[w]].items
UndoneType == undone \in [Runs -> Seq(Nat)]
Types == LedgerTypes /\ PlanTypes /\ CompTypes /\ WorkerTypes /\ UndoneType

(* A worker with an item in its hands holds the lease, and the item is open. *)
InHand ==
  \A w \in Workers : pc[w] \in WithItem =>
    Held(w) /\ comps[comp[w]].items[item[w]] = "pending"

(* The history is what the rows say. *)
Agrees == \A r \in Runs : \A n \in Nat : n \in Undone(r) <=> Reverted(r, n)

IInv == Types /\ InHand /\ Agrees /\ AppliedOnce

-----------------------------------------------------------------------------
(* Appending to a sequence gives a sequence that is one longer. *)
LEMMA AppendIsSeq ==
  ASSUME NEW s, NEW e, IsSeq(s)
  PROVE  /\ IsSeq(Append(s, e)) /\ Len(s) \in Nat /\ Len(Append(s, e)) = Len(s) + 1
         /\ DOMAIN s \subseteq DOMAIN Append(s, e)
  <1>1. PICK S : s \in Seq(S)
    BY DEF IsSeq
  <1>2. s \in Seq(S \cup {e}) /\ e \in S \cup {e}
    BY <1>1
  <1>3. Append(s, e) \in Seq(S \cup {e}) /\ Len(Append(s, e)) = Len(s) + 1 /\ Len(s) \in Nat
    BY <1>2, AppendProperties
  <1>4. DOMAIN s = 1..Len(s) /\ DOMAIN Append(s, e) = 1..(Len(s) + 1)
    BY <1>2, <1>3, LenProperties
  <1> QED BY <1>3, <1>4 DEF IsSeq

(* Putting another record in the place of a compensation's. *)
LEMMA OneChanged ==
  ASSUME comps \in Seq(CompRecord), NEW c \in DOMAIN comps, NEW x \in CompRecord,
         comps' = [comps EXCEPT ![c] = x]
  PROVE  /\ comps' \in Seq(CompRecord) /\ DOMAIN comps' = DOMAIN comps
         /\ comps'[c] = x /\ \A d \in DOMAIN comps \ {c} : comps'[d] = comps[d]
  BY ExceptSeq, LenProperties

(* What a compensation's record is made of. *)
LEMMA Parts ==
  ASSUME NEW x \in CompRecord
  PROVE  /\ x.run \in Runs /\ x.items \in [DOMAIN x.items -> ItemStatuses]
         /\ DOMAIN x.items \subseteq 1..MaxActs
         /\ x.status \in {"queued", "running"} \cup Final
         /\ x.owner \in Workers \cup {NoWorker} /\ x.live \in BOOLEAN
         /\ x.attempt \in 0..(MaxAttempts + 1)
  BY DEF CompRecord

(* Setting a field of a compensation's record, one after another. *)
LEMMA RecordPut ==
  ASSUME NEW x \in CompRecord
  PROVE  /\ \A v \in {"queued", "running"} \cup Final : [x EXCEPT !.status = v] \in CompRecord
         /\ \A v \in Workers \cup {NoWorker} : [x EXCEPT !.owner = v] \in CompRecord
         /\ \A v \in BOOLEAN : [x EXCEPT !.live = v] \in CompRecord
         /\ \A v \in 0..(MaxAttempts + 1) : [x EXCEPT !.attempt = v] \in CompRecord
         /\ \A v \in [DOMAIN x.items -> ItemStatuses] : [x EXCEPT !.items = v] \in CompRecord
  <1>1. \A v \in {"queued", "running"} \cup Final : [x EXCEPT !.status = v] \in CompRecord
    BY DEF CompRecord
  <1>2. \A v \in Workers \cup {NoWorker} : [x EXCEPT !.owner = v] \in CompRecord
    BY DEF CompRecord
  <1>3. \A v \in BOOLEAN : [x EXCEPT !.live = v] \in CompRecord
    BY DEF CompRecord
  <1>4. \A v \in 0..(MaxAttempts + 1) : [x EXCEPT !.attempt = v] \in CompRecord
    BY DEF CompRecord
  <1>5. \A v \in [DOMAIN x.items -> ItemStatuses] : [x EXCEPT !.items = v] \in CompRecord
    <2> TAKE v \in [DOMAIN x.items -> ItemStatuses]
    <2>1. v \in UNION {[S -> ItemStatuses] : S \in SUBSET (1..MaxActs)}
      BY Parts
    <2> QED BY <2>1 DEF CompRecord
  <1> QED BY <1>1, <1>2, <1>3, <1>4, <1>5

(* A compensation in the state a step leaves it in: same run, same acts. *)
Follows(c, x) ==
  /\ x \in CompRecord /\ x.run = comps[c].run
  /\ DOMAIN x.items = DOMAIN comps[c].items

(* Setting status, owner, lease and attempt. *)
LEMMA FinishedFollows ==
  ASSUME CompTypes, NEW c \in DOMAIN comps, NEW status \in Final
  PROVE  /\ Follows(c, Finished(comps[c], status))
         /\ Finished(comps[c], status).items = comps[c].items
         /\ Finished(comps[c], status).status = status
         /\ Finished(comps[c], status).owner = NoWorker
  <1>1. comps[c] \in CompRecord
    BY ElementOfSeq, LenProperties DEF CompTypes
  <1> DEFINE a == [comps[c] EXCEPT !.status = status]
             b == [a EXCEPT !.owner = NoWorker]
  <1>2. /\ a \in CompRecord /\ a.run = comps[c].run /\ a.items = comps[c].items
        /\ a.status = status
    BY <1>1, RecordPut DEF CompRecord
  <1>3. /\ b \in CompRecord /\ b.run = a.run /\ b.items = a.items /\ b.status = a.status
        /\ b.owner = NoWorker
    BY <1>2, RecordPut DEF CompRecord
  <1>4. [b EXCEPT !.live = FALSE] \in CompRecord
        /\ [b EXCEPT !.live = FALSE].run = b.run /\ [b EXCEPT !.live = FALSE].items = b.items
        /\ [b EXCEPT !.live = FALSE].status = b.status
        /\ [b EXCEPT !.live = FALSE].owner = b.owner
    BY <1>3, RecordPut DEF CompRecord
  <1> QED BY <1>2, <1>3, <1>4 DEF Follows, Finished

(* Marking an item: the compensation keeps its owner and its status. *)
LEMMA MarkedFollows ==
  ASSUME CompTypes, NEW c \in DOMAIN comps, NEW n \in DOMAIN comps[c].items,
         NEW status \in ItemStatuses, Marked(c, n, status)
  PROVE  /\ comps' = [comps EXCEPT ![c] = comps'[c]] /\ Follows(c, comps'[c])
         /\ comps'[c].items = [comps[c].items EXCEPT ![n] = status]
         /\ comps'[c].owner = comps[c].owner /\ comps'[c].status = comps[c].status
  <1> DEFINE a == [comps[c] EXCEPT !.items = [comps[c].items EXCEPT ![n] = status]]
             b == [a EXCEPT !.live = TRUE]
  <1>1. comps[c] \in CompRecord
    BY ElementOfSeq, LenProperties DEF CompTypes
  <1>2. [comps[c].items EXCEPT ![n] = status] \in [DOMAIN comps[c].items -> ItemStatuses]
    BY <1>1, Parts
  <1>3. /\ a \in CompRecord /\ a.run = comps[c].run
        /\ a.items = [comps[c].items EXCEPT ![n] = status]
        /\ a.owner = comps[c].owner /\ a.status = comps[c].status
    BY <1>1, <1>2, RecordPut DEF CompRecord
  <1>4. /\ b \in CompRecord /\ b.run = a.run /\ b.items = a.items
        /\ b.owner = a.owner /\ b.status = a.status
    BY <1>3, RecordPut DEF CompRecord
  <1>5. comps' = [comps EXCEPT ![c] = b]
    <2>1. comps \in [1..Len(comps) -> CompRecord] /\ c \in 1..Len(comps)
      BY LenProperties DEF CompTypes
    <2> QED BY <2>1 DEF Marked
  <1>6. comps'[c] = b
    BY <1>5
  <1>7. DOMAIN a.items = DOMAIN comps[c].items
    BY <1>3
  <1> HIDE DEF a, b
  <1> QED BY <1>3, <1>4, <1>5, <1>6, <1>7 DEF Follows

(* Claiming: the compensation is running, and no item changes. *)
LEMMA ClaimedFollows ==
  ASSUME CompTypes, NEW c \in DOMAIN comps, NEW w \in Workers,
         comps' = [comps EXCEPT ![c].status = "running", ![c].owner = w,
                                ![c].live = TRUE, ![c].attempt = NextAttempt(c)]
  PROVE  /\ comps' = [comps EXCEPT ![c] = comps'[c]] /\ Follows(c, comps'[c])
         /\ comps'[c].items = comps[c].items
         /\ comps'[c].status = "running" /\ comps'[c].owner = w
  <1> DEFINE s == [comps[c] EXCEPT !.status = "running"]
             o == [s EXCEPT !.owner = w]
             l == [o EXCEPT !.live = TRUE]
             x == [l EXCEPT !.attempt = NextAttempt(c)]
  <1>1. comps[c] \in CompRecord
    BY ElementOfSeq, LenProperties DEF CompTypes
  <1>2. NextAttempt(c) \in 0..(MaxAttempts + 1)
    BY <1>1, Parts, BoundsAssumption DEF NextAttempt
  <1>3. /\ s \in CompRecord /\ s.run = comps[c].run /\ s.items = comps[c].items
        /\ s.status = "running"
    BY <1>1, RecordPut DEF CompRecord
  <1>4. /\ o \in CompRecord /\ o.run = s.run /\ o.items = s.items /\ o.status = s.status
        /\ o.owner = w
    BY <1>3, RecordPut DEF CompRecord
  <1>5. /\ l \in CompRecord /\ l.run = o.run /\ l.items = o.items /\ l.status = o.status
        /\ l.owner = o.owner
    BY <1>4, RecordPut DEF CompRecord
  <1>6. /\ x \in CompRecord /\ x.run = l.run /\ x.items = l.items /\ x.status = l.status
        /\ x.owner = l.owner
    BY <1>2, <1>5, RecordPut DEF CompRecord
  <1>7. comps' = [comps EXCEPT ![c] = x]
    <2>1. comps \in [1..Len(comps) -> CompRecord] /\ c \in 1..Len(comps)
      BY LenProperties DEF CompTypes
    <2> QED BY <2>1
  <1>8. comps'[c] = x
    BY <1>7
  <1> HIDE DEF s, o, l, x
  <1> QED BY <1>3, <1>4, <1>5, <1>6, <1>7, <1>8 DEF Follows

(* The lease running out: the owner and the status stay. *)
LEMMA ExpiredFollows ==
  ASSUME CompTypes, NEW c \in DOMAIN comps, comps' = [comps EXCEPT ![c].live = FALSE]
  PROVE  /\ comps' = [comps EXCEPT ![c] = comps'[c]] /\ Follows(c, comps'[c])
         /\ comps'[c].items = comps[c].items
         /\ comps'[c].owner = comps[c].owner /\ comps'[c].status = comps[c].status
  <1> DEFINE x == [comps[c] EXCEPT !.live = FALSE]
  <1>1. comps[c] \in CompRecord
    BY ElementOfSeq, LenProperties DEF CompTypes
  <1>2. /\ x \in CompRecord /\ x.run = comps[c].run /\ x.items = comps[c].items
        /\ x.owner = comps[c].owner /\ x.status = comps[c].status
    BY <1>1, RecordPut DEF CompRecord
  <1>3. comps' = [comps EXCEPT ![c] = x]
    <2>1. comps \in [1..Len(comps) -> CompRecord] /\ c \in 1..Len(comps)
      BY LenProperties DEF CompTypes
    <2> QED BY <2>1
  <1>4. comps'[c] = x
    BY <1>3
  <1> HIDE DEF x
  <1> QED BY <1>2, <1>3, <1>4 DEF Follows

(* Recording a failure: the item is failed, the pending ones are skipped. *)
LEMMA FailedFollows ==
  ASSUME CompTypes, NEW c \in DOMAIN comps, NEW n
  PROVE  /\ Follows(c, Failed(c, n)) /\ Failed(c, n).items = Skipping(comps[c].items, n)
         /\ Failed(c, n).status = "blocked" /\ Failed(c, n).owner = NoWorker
  <1> DEFINE f == Finished(comps[c], "blocked")
             s == Skipping(comps[c].items, n)
  <1>1. comps[c] \in CompRecord
    BY ElementOfSeq, LenProperties DEF CompTypes
  <1>2. /\ f \in CompRecord /\ f.run = comps[c].run /\ f.items = comps[c].items
        /\ f.status = "blocked" /\ f.owner = NoWorker
    BY FinishedFollows DEF Follows, Final
  <1>3. s \in [DOMAIN f.items -> ItemStatuses]
    BY <1>1, <1>2, Parts DEF Skipping, ItemStatuses
  <1> HIDE DEF f, s
  <1>4. [f EXCEPT !.items = s] \in CompRecord
        /\ [f EXCEPT !.items = s].run = f.run /\ [f EXCEPT !.items = s].items = s
        /\ [f EXCEPT !.items = s].status = f.status /\ [f EXCEPT !.items = s].owner = f.owner
    BY <1>2, <1>3, RecordPut DEF CompRecord
  <1>5. Failed(c, n) = [f EXCEPT !.items = s]
    BY DEF Failed, f, s
  <1> QED BY <1>2, <1>3, <1>4, <1>5 DEF Follows, s

-----------------------------------------------------------------------------
(* A step that changes the compensation c and no other. *)
Changes(c) == comps' = [comps EXCEPT ![c] = comps'[c]] /\ Follows(c, comps'[c])
SameMarks(c) ==
  \A n \in DOMAIN comps[c].items :
    comps'[c].items[n] = "reverted" <=> comps[c].items[n] = "reverted"

(* It leaves the others, and every run and every plan, as they are. *)
LEMMA ChangesEffect ==
  ASSUME CompTypes, NEW c \in DOMAIN comps, Changes(c), UNCHANGED ledger
  PROVE  /\ CompTypes' /\ DOMAIN comps' = DOMAIN comps
         /\ \A d \in DOMAIN comps : /\ comps'[d].run = comps[d].run
                                    /\ DOMAIN comps'[d].items = DOMAIN comps[d].items
         /\ \A d \in DOMAIN comps \ {c} : comps'[d] = comps[d]
  <1>1. /\ comps' \in Seq(CompRecord) /\ DOMAIN comps' = DOMAIN comps
        /\ \A d \in DOMAIN comps \ {c} : comps'[d] = comps[d]
    BY OneChanged DEF CompTypes, Changes, Follows
  <1>2. \A d \in DOMAIN comps : /\ comps'[d].run = comps[d].run
                                /\ DOMAIN comps'[d].items = DOMAIN comps[d].items
    BY <1>1 DEF Changes, Follows
  <1>3. CompTypes'
    BY <1>1, <1>2 DEF CompTypes
  <1> QED BY <1>1, <1>2, <1>3

(* What is marked reverted stays so, and nothing else becomes so. *)
LEMMA SameMarksEffect ==
  ASSUME CompTypes, NEW c \in DOMAIN comps, Changes(c), UNCHANGED ledger, SameMarks(c)
  PROVE  \A r, n : Reverted(r, n)' <=> Reverted(r, n)
  BY ChangesEffect DEF Reverted, SameMarks

-----------------------------------------------------------------------------
(* A set of acts that is not empty has a newest one. *)
LEMMA Newest ==
  ASSUME NEW S \in SUBSET (1..MaxActs), S # {}
  PROVE  \E n \in S : \A m \in S : m <= n
  <1> DEFINE T == {MaxActs - n : n \in S}
  <1>1. T \subseteq Nat /\ T # {}
    <2>1. \A n \in S : n \in Nat /\ n <= MaxActs
      OBVIOUS
    <2>2. \A n \in S : MaxActs - n \in Nat
      BY <2>1, BoundsAssumption
    <2>3. PICK n \in S : TRUE
      OBVIOUS
    <2>4. MaxActs - n \in T
      BY <2>3
    <2> QED BY <2>2, <2>4
  <1>2. PICK x \in T : \A y \in T : ~(<<y, x>> \in OpToRel(<, Nat))
    BY <1>1, WFMin, NatLessThanWellFounded
  <1>3. \A y \in T : x <= y
    <2> SUFFICES ASSUME NEW y \in T, ~(x <= y) PROVE FALSE
      OBVIOUS
    <2>1. x \in Nat /\ y \in Nat
      BY <1>1, <1>2
    <2> HIDE DEF T
    <2>2. <<y, x>> \in Nat \X Nat /\ <<y, x>>[1] < <<y, x>>[2]
      BY <2>1
    <2>3. <<y, x>> \in {ss \in Nat \X Nat : ss[1] < ss[2]}
      BY <2>2
    <2> QED BY <1>2, <2>3 DEF OpToRel
  <1>4. PICK n \in S : x = MaxActs - n
    BY <1>2
  <1>5. \A m \in S : MaxActs - n <= MaxActs - m
    BY <1>3, <1>4
  <1> QED BY <1>5, BoundsAssumption

(* The item a worker takes next is a pending one. *)
LEMMA NextPendingIsPending ==
  ASSUME CompTypes, NEW c \in DOMAIN comps, Pending(c) # {}
  PROVE  NextPending(c) \in DOMAIN comps[c].items /\ comps[c].items[NextPending(c)] = "pending"
  <1>1. comps[c] \in CompRecord
    BY ElementOfSeq, LenProperties DEF CompTypes
  <1>2. Pending(c) \in SUBSET (1..MaxActs)
    BY <1>1, Parts DEF Pending
  <1>3. \E n \in Pending(c) : \A m \in Pending(c) : m <= n
    BY <1>2, Newest
  <1>4. NextPending(c) \in Pending(c)
    BY <1>3 DEF NextPending
  <1> QED BY <1>4 DEF Pending

(* A worker's step leaves alone what other workers have in their hands: it   *)
(* moves a compensation it holds, or one it may claim.                       *)
Clear(w, c) == \A v \in Workers \ {w} : pc[v] \in WithItem => comp[v] # c

(* Nobody else has an item of a compensation whose lease is held ... *)
LEMMA HeldIsClear ==
  ASSUME InHand, NEW w \in Workers, Held(w)
  PROVE  Clear(w, comp[w])
  BY DEF InHand, Held, Clear

(* ... or of one that may be claimed. *)
LEMMA ClaimableIsClear ==
  ASSUME ~SlowFailures, NEW w \in Workers, NEW c, Claimable(c)
  PROVE  Clear(w, c)
  BY DEF Claimable, Locked, Clear, WithItem

(* What a step of w may do to the workers and the compensations. *)
ItsOwn(w) ==
  /\ pc' \in [Workers -> Places] /\ comp' \in [Workers -> Nat] /\ item' \in [Workers -> Nat]
  /\ \A v \in Workers \ {w} : pc'[v] = pc[v] /\ comp'[v] = comp[v] /\ item'[v] = item[v]
  /\ pc'[w] # "idle" => comp'[w] \in DOMAIN comps
InItsHand(w) ==
  LET c == comp'[w] IN
  /\ item'[w] \in DOMAIN comps[c].items
  /\ comps[c].owner = w /\ comps[c].status = "running"
  /\ comps[c].items[item'[w]] = "pending"
Moves(w) ==
  /\ UNCHANGED <<ledger, drawn>>
  /\ ItsOwn(w)
  /\ \/ UNCHANGED comps /\ (pc'[w] \in WithItem => InItsHand(w))
     \/ pc'[w] \notin WithItem /\ \E c \in DOMAIN comps : Changes(c) /\ Clear(w, c)

(* Putting a compensation down is within those bounds. *)
LEMMA PutDownIsItsOwn ==
  ASSUME Types, NEW w \in Workers, PutDown(w)
  PROVE  ItsOwn(w) /\ pc'[w] \notin WithItem
  BY DEF PutDown, GoTo, ItsOwn, WithItem, Places, Types, WorkerTypes

(* Each step of a worker is within those bounds. *)
LEMMA WorkMoves ==
  ASSUME Types, InHand, ~SlowFailures, NEW w \in Workers, Work(w) \/ Crash(w)
  PROVE  Moves(w)
  <1> DEFINE c == comp[w]
  <1> USE DEF world, people
  <1>a. CompTypes /\ WorkerTypes /\ (pc[w] # "idle" => c \in DOMAIN comps)
    BY DEF Types, WorkerTypes
  <1>1. CASE Claim(w)
    <2>1. PICK d \in DOMAIN comps :
            /\ Claimable(d)
            /\ comps' = [comps EXCEPT ![d].status = "running", ![d].owner = w,
                                      ![d].live = TRUE, ![d].attempt = NextAttempt(d)]
            /\ comp' = [comp EXCEPT ![w] = d]
      BY <1>1 DEF Claim
    <2>2. Changes(d) /\ Clear(w, d)
      BY <1>a, <2>1, ClaimedFollows, ClaimableIsClear DEF Changes
    <2>3. d \in Nat
      BY LenProperties, <1>a DEF CompTypes
    <2>4. ItsOwn(w) /\ pc'[w] \notin WithItem
      BY <1>1, <1>a, <2>1, <2>3 DEF Claim, GoTo, ItsOwn, Places, WithItem, WorkerTypes
    <2> QED BY <1>1, <2>2, <2>4 DEF Claim, Moves
  <1>2. CASE LeaseLost(w) \/ ClaimRefused(w) \/ Crash(w)
    BY <1>2, PutDownIsItsOwn DEF LeaseLost, ClaimRefused, Crash, Moves
  <1>3. CASE GiveUp(w)
    <2>1. c \in DOMAIN comps /\ Held(w)
      BY <1>3, <1>a DEF GiveUp, Renews
    <2>2. Changes(c)
      <3>1. comps' = [comps EXCEPT ![c] = Finished(comps[c], "blocked")]
        BY <1>3 DEF GiveUp
      <3>2. comps'[c] = Finished(comps[c], "blocked")
        BY <1>a, <2>1, <3>1, LenProperties DEF CompTypes
      <3> QED BY <1>a, <2>1, <3>1, <3>2, FinishedFollows DEF Changes, Final
    <2> QED BY <1>3, <2>1, <2>2, HeldIsClear, PutDownIsItsOwn DEF GiveUp, Moves
  <1>4. CASE Complete(w)
    <2>1. c \in DOMAIN comps /\ Held(w)
      BY <1>4, <1>a DEF Complete, Renews
    <2>2. Changes(c)
      <3> DEFINE x == Finished(comps[c], Outcome(comps[c].items))
      <3>1. comps' = [comps EXCEPT ![c] = x]
        BY <1>4 DEF Complete
      <3>2. Outcome(comps[c].items) \in Final
        BY DEF Outcome, Final
      <3>3. Follows(c, x)
        BY <1>a, <2>1, <3>2, FinishedFollows
      <3> HIDE DEF x
      <3>4. comps'[c] = x
        BY <1>a, <2>1, <3>1, LenProperties DEF CompTypes
      <3> QED BY <3>1, <3>3, <3>4 DEF Changes
    <2> QED BY <1>4, <2>1, <2>2, HeldIsClear, PutDownIsItsOwn DEF Complete, Moves
  <1>5. CASE Report(w)
    <2>1. c \in DOMAIN comps /\ Held(w) /\ NextPending(c) \in DOMAIN comps[c].items
      BY <1>5, <1>a, NextPendingIsPending DEF Report, Renews
    <2>2. Changes(c)
      BY <1>5, <1>a, <2>1, MarkedFollows DEF Report, Changes, ItemStatuses
    <2>3. ItsOwn(w) /\ pc'[w] \notin WithItem
      BY <1>5, <1>a DEF Report, Renews, ItsOwn, WithItem, WorkerTypes
    <2> QED BY <1>5, <2>1, <2>2, <2>3, HeldIsClear DEF Report, Moves
  <1>6. CASE BeginRevert(w)
    <2>1. /\ c \in DOMAIN comps /\ Held(w) /\ NextPending(c) \in DOMAIN comps[c].items
          /\ comps[c].items[NextPending(c)] = "pending"
      BY <1>6, <1>a, NextPendingIsPending DEF BeginRevert, Renews
    <2>2. NextPending(c) \in Nat
      <3>1. comps[c] \in CompRecord
        BY <1>a, <2>1, ElementOfSeq, LenProperties DEF CompTypes
      <3> QED BY <2>1, <3>1, Parts
    <2>3. ItsOwn(w)
      BY <1>6, <1>a, <2>1, <2>2 DEF BeginRevert, GoTo, ItsOwn, Places, WorkerTypes
    <2>4. comp'[w] = c /\ item'[w] = NextPending(c)
      BY <1>6, <1>a DEF BeginRevert, WorkerTypes
    <2>5. InItsHand(w)
      BY <2>1, <2>4 DEF InItsHand, Held
    <2> QED BY <1>6, <2>3, <2>5 DEF BeginRevert, Moves
  <1>7. CASE ApplyCommit(w)
    <2>1. c \in DOMAIN comps /\ Held(w) /\ item[w] \in DOMAIN comps[c].items
      BY <1>7, <1>a DEF ApplyCommit, InHand, WithItem, WorkerTypes
    <2>2. Changes(c)
      BY <1>7, <1>a, <2>1, MarkedFollows DEF ApplyCommit, Changes, ItemStatuses
    <2>3. ItsOwn(w) /\ pc'[w] \notin WithItem
      BY <1>7, <1>a, <2>1 DEF ApplyCommit, GoTo, ItsOwn, Places, WithItem, WorkerTypes
    <2> QED BY <1>7, <2>1, <2>2, <2>3, HeldIsClear DEF ApplyCommit, Moves
  <1>8. CASE ApplyFails(w)
    <2>1. /\ c \in DOMAIN comps /\ item[w] \in DOMAIN comps[c].items
          /\ Held(w) /\ comps[c].items[item[w]] = "pending"
      BY <1>8, <1>a DEF ApplyFails, InHand, WithItem, WorkerTypes
    <2>2. ItsOwn(w) /\ comp'[w] = c /\ item'[w] = item[w] /\ UNCHANGED comps
      BY <1>8, <1>a, <2>1
      DEF ApplyFails, AfterRollback, GoTo, ItsOwn, Places, WorkerTypes
    <2>3. InItsHand(w)
      BY <2>1, <2>2 DEF InItsHand, Held
    <2> QED BY <1>8, <2>2, <2>3 DEF ApplyFails, Moves
  <1>9. CASE RecordFailure(w)
    <2>1. c \in DOMAIN comps /\ Held(w)
      BY <1>9, <1>a DEF RecordFailure, InHand, WithItem
    <2>2. Changes(c)
      <3>1. comps' = [comps EXCEPT ![c] = Failed(c, item[w])]
        BY <1>9 DEF RecordFailure
      <3>2. comps'[c] = Failed(c, item[w])
        BY <1>a, <2>1, <3>1, LenProperties DEF CompTypes
      <3> QED BY <1>a, <2>1, <3>1, <3>2, FailedFollows DEF Changes
    <2> QED BY <1>9, <2>1, <2>2, HeldIsClear, PutDownIsItsOwn DEF RecordFailure, Moves
  <1> QED BY <1>1, <1>2, <1>3, <1>4, <1>5, <1>6, <1>7, <1>8, <1>9 DEF Work

(* A step within those bounds keeps the types and what is in hand. *)
LEMMA MovesKeepTypes ==
  ASSUME Types, InHand, NEW w \in Workers, Moves(w), UndoneType'
  PROVE  Types' /\ InHand'
  <1>1. LedgerTypes' /\ PlanTypes'
    BY DEF Moves, Types, LedgerTypes, PlanTypes
  <1>2. CASE UNCHANGED comps /\ (pc'[w] \in WithItem => InItsHand(w))
    <2>1. CompTypes'
      BY <1>2 DEF Moves, Types, CompTypes
    <2>2. WorkerTypes'
      BY <1>2 DEF Moves, ItsOwn, InItsHand, Types, WorkerTypes
    <2>3. InHand'
      BY <1>2 DEF Moves, ItsOwn, InItsHand, InHand, Held
    <2> QED BY <1>1, <2>1, <2>2, <2>3 DEF Types
  <1>3. ASSUME NEW c \in DOMAIN comps, Changes(c), Clear(w, c), pc'[w] \notin WithItem
        PROVE  Types' /\ InHand'
    <2>1. /\ CompTypes' /\ DOMAIN comps' = DOMAIN comps
          /\ \A d \in DOMAIN comps : DOMAIN comps'[d].items = DOMAIN comps[d].items
          /\ \A d \in DOMAIN comps \ {c} : comps'[d] = comps[d]
      BY <1>3, ChangesEffect DEF Moves, Types
    <2>2. WorkerTypes'
      BY <1>3, <2>1 DEF Moves, ItsOwn, Types, WorkerTypes, WithItem
    <2>3. InHand'
      <3> SUFFICES ASSUME NEW v \in Workers, pc'[v] \in WithItem
                   PROVE  Held(v)' /\ comps'[comp'[v]].items[item'[v]] = "pending"
        BY DEF InHand
      <3>1. /\ v # w /\ pc[v] \in WithItem /\ comp'[v] = comp[v] /\ item'[v] = item[v]
            /\ comp[v] \in DOMAIN comps \ {c}
        BY <1>3 DEF Moves, ItsOwn, Clear, Types, WorkerTypes, WithItem
      <3>2. comps'[comp[v]] = comps[comp[v]]
        BY <2>1, <3>1
      <3> QED BY <3>1, <3>2 DEF InHand, Held
    <2> QED BY <1>1, <2>1, <2>2, <2>3 DEF Types
  <1> QED BY <1>2, <1>3 DEF Moves

(* Only committing an inverse marks an item reverted, and nothing unmarks one. *)
MarksKept == UNCHANGED undone /\ \A r, n : Reverted(r, n)' <=> Reverted(r, n)

(* In particular a step that leaves the items alone keeps the marks. *)
LEMMA SameItemsKeepMarks ==
  ASSUME CompTypes, NEW c \in DOMAIN comps, Changes(c), UNCHANGED ledger,
         comps'[c].items = comps[c].items
  PROVE  \A r, n : Reverted(r, n)' <=> Reverted(r, n)
  BY SameMarksEffect DEF SameMarks

(* All other steps of a worker keep the marks. *)
LEMMA WorkKeepsMarks ==
  ASSUME Types, InHand, NEW w \in Workers, Work(w) \/ Crash(w), ~ApplyCommit(w)
  PROVE  MarksKept
  <1> DEFINE c == comp[w]
  <1> USE DEF world, people, MarksKept
  <1>a. CompTypes /\ WorkerTypes /\ (pc[w] # "idle" => c \in DOMAIN comps)
    BY DEF Types, WorkerTypes
  <1>1. CASE Claim(w)
    <2>1. PICK d \in DOMAIN comps :
            comps' = [comps EXCEPT ![d].status = "running", ![d].owner = w,
                                   ![d].live = TRUE, ![d].attempt = NextAttempt(d)]
      BY <1>1 DEF Claim
    <2>2. Changes(d) /\ comps'[d].items = comps[d].items
      BY <1>a, <2>1, ClaimedFollows DEF Changes
    <2> QED BY <1>1, <1>a, <2>2, SameItemsKeepMarks DEF Claim
  <1>2. CASE UNCHANGED <<comps, undone>>
    BY <1>2 DEF Reverted
  <1>3. CASE GiveUp(w)
    <2>1. c \in DOMAIN comps /\ comps' = [comps EXCEPT ![c] = Finished(comps[c], "blocked")]
      BY <1>3, <1>a DEF GiveUp, Renews
    <2>2. comps'[c] = Finished(comps[c], "blocked")
      BY <1>a, <2>1, LenProperties DEF CompTypes
    <2>3. Changes(c) /\ comps'[c].items = comps[c].items
      BY <1>a, <2>1, <2>2, FinishedFollows DEF Changes, Final
    <2> QED BY <1>3, <1>a, <2>1, <2>3, SameItemsKeepMarks DEF GiveUp
  <1>4. CASE Complete(w)
    <2> DEFINE x == Finished(comps[c], Outcome(comps[c].items))
    <2>1. c \in DOMAIN comps /\ comps' = [comps EXCEPT ![c] = x]
      BY <1>4, <1>a DEF Complete, Renews
    <2>2. Follows(c, x) /\ x.items = comps[c].items
      <3>1. Outcome(comps[c].items) \in Final
        BY DEF Outcome, Final
      <3> QED BY <1>a, <2>1, <3>1, FinishedFollows
    <2> HIDE DEF x
    <2>3. comps'[c] = x
      BY <1>a, <2>1, LenProperties DEF CompTypes
    <2>4. Changes(c) /\ comps'[c].items = comps[c].items
      BY <2>1, <2>2, <2>3 DEF Changes
    <2> QED BY <1>4, <1>a, <2>1, <2>4, SameItemsKeepMarks DEF Complete
  <1>5. CASE Report(w)
    <2> DEFINE n == NextPending(c)
    <2>1. /\ c \in DOMAIN comps /\ n \in DOMAIN comps[c].items
          /\ comps[c].items[n] = "pending"
      BY <1>5, <1>a, NextPendingIsPending DEF Report, Renews
    <2>2. Changes(c) /\ comps'[c].items = [comps[c].items EXCEPT ![n] = "unrevertable"]
      BY <1>5, <1>a, <2>1, MarkedFollows DEF Report, Changes, ItemStatuses
    <2> HIDE DEF n
    <2>3. SameMarks(c)
      BY <2>1, <2>2 DEF SameMarks
    <2> QED BY <1>5, <1>a, <2>1, <2>2, <2>3, SameMarksEffect DEF Report
  <1>6. CASE RecordFailure(w)
    <2>1. /\ c \in DOMAIN comps /\ item[w] \in DOMAIN comps[c].items
          /\ comps[c].items[item[w]] = "pending"
      BY <1>6, <1>a DEF RecordFailure, InHand, WithItem, WorkerTypes
    <2>2. comps' = [comps EXCEPT ![c] = Failed(c, item[w])]
      BY <1>6 DEF RecordFailure
    <2>3. comps'[c] = Failed(c, item[w])
      BY <1>a, <2>1, <2>2, LenProperties DEF CompTypes
    <2>4. Changes(c) /\ comps'[c].items = Skipping(comps[c].items, item[w])
      BY <1>a, <2>1, <2>2, <2>3, FailedFollows DEF Changes
    <2>5. SameMarks(c)
      BY <2>1, <2>4 DEF SameMarks, Skipping
    <2> QED BY <1>6, <1>a, <2>1, <2>4, <2>5, SameMarksEffect DEF RecordFailure
  <1> QED
    BY <1>1, <1>2, <1>3, <1>4, <1>5, <1>6
    DEF Work, Crash, LeaseLost, BeginRevert, ClaimRefused, ApplyFails, AfterRollback

(* Taking an act back adds it to the history of its run. *)
TakenBack(r, n) == undone' = [undone EXCEPT ![r] = Append(@, n)]

(* Committing an inverse marks that act and records it, once. *)
LEMMA CommitMarks ==
  ASSUME Types, InHand, NEW w \in Workers, ApplyCommit(w)
  PROVE  \E r \in Runs, n \in Nat :
           /\ ~Reverted(r, n) /\ TakenBack(r, n)
           /\ \A q, m : Reverted(q, m)' <=> Reverted(q, m) \/ (q = r /\ m = n)
  <1> DEFINE c == comp[w]
             r == comps[c].run
             n == item[w]
  <1>1. c \in DOMAIN comps /\ n \in DOMAIN comps[c].items /\ CompTypes
    BY DEF ApplyCommit, WithItem, Types, WorkerTypes
  <1>2. r \in Runs /\ n \in Nat
    <2>1. comps[c] \in CompRecord
      BY <1>1, ElementOfSeq, LenProperties DEF CompTypes
    <2> QED BY <1>1, <2>1, Parts
  <1>3. ~Reverted(r, n) /\ TakenBack(r, n) /\ UNCHANGED ledger
    BY DEF ApplyCommit, OnceKeyRefuses, TakenBack
  <1>4. Changes(c) /\ comps'[c].items = [comps[c].items EXCEPT ![n] = "reverted"]
    BY <1>1, MarkedFollows DEF ApplyCommit, Changes, ItemStatuses
  <1>5. /\ DOMAIN comps' = DOMAIN comps
        /\ \A d \in DOMAIN comps : /\ comps'[d].run = comps[d].run
                                   /\ DOMAIN comps'[d].items = DOMAIN comps[d].items
        /\ \A d \in DOMAIN comps \ {c} : comps'[d] = comps[d]
    BY <1>1, <1>3, <1>4, ChangesEffect
  <1>6. ASSUME NEW q, NEW m
        PROVE  Reverted(q, m)' <=> Reverted(q, m) \/ (q = r /\ m = n)
    <2>1. ASSUME NEW d \in DOMAIN comps, m \in DOMAIN comps[d].items
          PROVE  comps'[d].items[m] = "reverted"
                 <=> comps[d].items[m] = "reverted" \/ (d = c /\ m = n)
      BY <1>1, <1>4, <1>5, <2>1
    <2>2. Reverted(q, m)' => Reverted(q, m) \/ (q = r /\ m = n)
      BY <1>5, <2>1 DEF Reverted
    <2>3. Reverted(q, m) => Reverted(q, m)'
      BY <1>5, <2>1 DEF Reverted
    <2>4. q = r /\ m = n => Reverted(q, m)'
      BY <1>1, <1>5, <2>1 DEF Reverted
    <2> QED BY <2>2, <2>3, <2>4
  <1> QED BY <1>2, <1>3, <1>6

(* While no mark and no inverse is added, the history agrees with the rows. *)
LEMMA KeptMarksAgree ==
  ASSUME Agrees, AppliedOnce, UndoneType, MarksKept
  PROVE  Agrees' /\ AppliedOnce' /\ UndoneType'
  BY DEF Agrees, AppliedOnce, UndoneType, MarksKept, Undone

(* The history after that. *)
LEMMA UndoneAdds ==
  ASSUME UndoneType, NEW r \in Runs, NEW n \in Nat, TakenBack(r, n)
  PROVE  /\ UndoneType'
         /\ undone'[r] = Append(undone[r], n) /\ \A q \in Runs \ {r} : undone'[q] = undone[q]
         /\ \A i \in DOMAIN undone'[r] :
              \/ i \in DOMAIN undone[r] /\ undone'[r][i] = undone[r][i]
              \/ i = Len(undone[r]) + 1 /\ undone'[r][i] = n
         /\ Undone(r)' = Undone(r) \cup {n} /\ \A q \in Runs \ {r} : Undone(q)' = Undone(q)
  <1> DEFINE s == undone[r]
             t == Append(s, n)
  <1>1. undone \in [Runs -> Seq(Nat)] /\ s \in Seq(Nat)
    BY DEF UndoneType
  <1>2. /\ t \in Seq(Nat) /\ Len(s) \in Nat
        /\ DOMAIN s = 1..Len(s) /\ DOMAIN t = 1..(Len(s) + 1)
        /\ \A i \in 1..Len(s) : t[i] = s[i]
        /\ t[Len(s) + 1] = n
    BY <1>1, AppendProperties, LenProperties
  <1>3. /\ \A i \in DOMAIN t : (i \in DOMAIN s /\ t[i] = s[i]) \/ (i = Len(s) + 1 /\ t[i] = n)
        /\ \A i \in DOMAIN s : i \in DOMAIN t /\ t[i] = s[i]
        /\ Len(s) + 1 \in DOMAIN t /\ t[Len(s) + 1] = n
    <2> HIDE DEF s, t
    <2>1. \A i \in 1..(Len(s) + 1) : i \in 1..Len(s) \/ i = Len(s) + 1
      BY <1>2
    <2>2. \A i \in 1..Len(s) : i \in 1..(Len(s) + 1)
      BY <1>2
    <2>3. Len(s) + 1 \in 1..(Len(s) + 1)
      BY <1>2
    <2> QED BY <1>2, <2>1, <2>2, <2>3
  <1>4. undone'[r] = t /\ \A q \in Runs \ {r} : undone'[q] = undone[q]
    BY <1>1 DEF TakenBack
  <1>5. UndoneType'
    BY <1>1, <1>2 DEF UndoneType, TakenBack
  <1>6. Undone(r)' = Undone(r) \cup {n} /\ \A q \in Runs \ {r} : Undone(q)' = Undone(q)
    <2>1. {t[i] : i \in DOMAIN t} = {s[i] : i \in DOMAIN s} \cup {n}
      <3> HIDE DEF s, t
      <3>1. \A e \in {t[i] : i \in DOMAIN t} : e \in {s[i] : i \in DOMAIN s} \cup {n}
        BY <1>3
      <3>2. \A e \in {s[i] : i \in DOMAIN s} \cup {n} : e \in {t[i] : i \in DOMAIN t}
        BY <1>3
      <3> QED BY <3>1, <3>2
    <2> HIDE DEF t
    <2> QED BY <1>4, <2>1 DEF Undone
  <1> HIDE DEF t
  <1>7. \A i \in DOMAIN undone'[r] :
          \/ i \in DOMAIN s /\ undone'[r][i] = s[i]
          \/ i = Len(s) + 1 /\ undone'[r][i] = n
    BY <1>3, <1>4
  <1> QED BY <1>4, <1>5, <1>6, <1>7 DEF t

(* The history and the rows move together. *)
LEMMA CommitAgrees ==
  ASSUME Types, InHand, Agrees, AppliedOnce, NEW w \in Workers, ApplyCommit(w)
  PROVE  Agrees' /\ AppliedOnce' /\ UndoneType'
  <1>1. PICK r \in Runs, n \in Nat :
           /\ ~Reverted(r, n) /\ TakenBack(r, n)
           /\ \A q, m : Reverted(q, m)' <=> Reverted(q, m) \/ (q = r /\ m = n)
    BY CommitMarks
  <1> DEFINE s == undone[r]
             t == undone'[r]
  <1>2. /\ UndoneType'
        /\ \A q \in Runs \ {r} : undone'[q] = undone[q]
        /\ \A i \in DOMAIN t : (i \in DOMAIN s /\ t[i] = s[i]) \/ (i = Len(s) + 1 /\ t[i] = n)
        /\ Undone(r)' = Undone(r) \cup {n} /\ \A q \in Runs \ {r} : Undone(q)' = Undone(q)
    BY <1>1, UndoneAdds DEF Types
  <1>3. Agrees'
    BY <1>1, <1>2 DEF Agrees
  <1>4. n \notin Undone(r)
    BY <1>1 DEF Agrees
  <1>5. AppliedOnce'
    <2>1. ASSUME NEW i \in DOMAIN t, NEW j \in DOMAIN t, t[i] = t[j] PROVE i = j
      <3>1. \A k \in DOMAIN s : s[k] # n
        BY <1>4 DEF Undone
      <3>2. \A k, l \in DOMAIN s : s[k] = s[l] => k = l
        BY DEF AppliedOnce
      <3> HIDE DEF s, t
      <3> QED BY <1>2, <2>1, <3>1, <3>2
    <2> QED BY <1>2, <2>1 DEF AppliedOnce
  <1> QED BY <1>2, <1>3, <1>5

-----------------------------------------------------------------------------
(* The other steps: the agent's, people's, and the lease's clock. *)

(* An act records one row.                                                  *)
LEMMA ActAppends ==
  ASSUME NEW r \in Runs, Act(r)
  PROVE  \E row : Record(r, row)
  BY DEF Act, ToolFails, ChangeNothing, Handle, SetField, ChangeField, AddNote

(* An act lengthens a ledger; plans and items still name rows of it. *)
LEMMA ActKeeps ==
  ASSUME Types, InHand, NEW r \in Runs, Act(r)
  PROVE  Types' /\ InHand' /\ MarksKept
  <1>1. PICK row : ledger' = [ledger EXCEPT ![r] = Append(@, row)]
    BY ActAppends DEF Record
  <1>2. IsSeq(ledger[r]) /\ Len(ledger[r]) < MaxActs
    BY DEF Act, Types, LedgerTypes
  <1>3. /\ IsSeq(Append(ledger[r], row)) /\ Len(Append(ledger[r], row)) <= MaxActs
        /\ DOMAIN ledger[r] \subseteq DOMAIN Append(ledger[r], row)
    BY <1>2, AppendIsSeq, BoundsAssumption
  <1>4. /\ ledger' = [q \in Runs |-> ledger'[q]]
        /\ ledger'[r] = Append(ledger[r], row)
        /\ \A q \in Runs \ {r} : ledger'[q] = ledger[q]
    BY <1>1 DEF Types, LedgerTypes
  <1>5. LedgerTypes' /\ \A q \in Runs : DOMAIN ledger[q] \subseteq DOMAIN ledger'[q]
    BY <1>3, <1>4 DEF Types, LedgerTypes
  <1>6. PlanTypes'
    BY <1>5 DEF Act, people, Types, PlanTypes
  <1>7. CompTypes'
    <2>1. \A c \in DOMAIN comps : comps[c].run \in Runs
      <3> TAKE c \in DOMAIN comps
      <3>1. comps[c] \in CompRecord
        BY ElementOfSeq, LenProperties DEF Types, CompTypes
      <3> QED BY <3>1, Parts
    <2> QED BY <1>5, <2>1 DEF Act, people, Types, CompTypes
  <1>8. WorkerTypes' /\ UndoneType' /\ InHand'
    BY DEF Act, Types, WorkerTypes, UndoneType, InHand, Held
  <1>9. MarksKept
    BY DEF Act, MarksKept, Reverted
  <1> QED BY <1>5, <1>6, <1>7, <1>8, <1>9 DEF Types

(* Drawing up a plan names rows of the ledger. *)
LEMMA DrawUpKeeps ==
  ASSUME Types, InHand, NEW r \in Runs, DrawUp(r)
  PROVE  Types' /\ InHand' /\ MarksKept
  <1>1. Plan(r) \subseteq DOMAIN ledger[r]
    BY DEF Plan
  <1>2. PlanTypes'
    BY <1>1 DEF DrawUp, world, Types, PlanTypes
  <1> QED BY <1>2 DEF DrawUp, world, Types, LedgerTypes, CompTypes, WorkerTypes,
                      UndoneType, InHand, Held, MarksKept, Reverted

(* A new compensation has only pending items, which are rows of the ledger. *)
LEMMA InsertKeeps ==
  ASSUME Types, InHand, NEW r \in Runs, Insert(r)
  PROVE  Types' /\ InHand' /\ MarksKept
  <1> DEFINE x == Fresh(r, drawn[r])
  <1>1. drawn[r] \subseteq DOMAIN ledger[r] /\ drawn[r] \subseteq 1..MaxActs
    <2>1. drawn[r] \subseteq DOMAIN ledger[r] /\ IsSeq(ledger[r]) /\ Len(ledger[r]) <= MaxActs
      BY DEF Types, PlanTypes, LedgerTypes
    <2>2. DOMAIN ledger[r] = 1..Len(ledger[r]) /\ Len(ledger[r]) \in Nat
      BY <2>1, LenProperties DEF IsSeq
    <2> QED BY <2>1, <2>2, BoundsAssumption
  <1>2. /\ x \in CompRecord /\ x.run = r /\ DOMAIN x.items = drawn[r]
        /\ \A n \in DOMAIN x.items : x.items[n] = "pending"
    <2> DEFINE items == [n \in drawn[r] |-> "pending"]
    <2>1. items \in UNION {[S -> ItemStatuses] : S \in SUBSET (1..MaxActs)}
      BY <1>1 DEF ItemStatuses
    <2> QED BY <2>1, BoundsAssumption DEF Fresh, CompRecord
  <1> HIDE DEF x
  <1>3. PlanTypes'
    <2>1. \A q \in Runs : drawn'[q] = IF q = r THEN {} ELSE drawn[q]
      BY DEF Insert, NoPlan, Types, PlanTypes
    <2>2. drawn' = [q \in Runs |-> drawn'[q]]
      BY DEF Insert, Types, PlanTypes
    <2> QED BY <2>1, <2>2 DEF Insert, world, Types, PlanTypes
  <1>4. LedgerTypes' /\ UndoneType'
    BY DEF Insert, world, Types, LedgerTypes, UndoneType
  <1>5. CASE UNCHANGED comps
    <2>1. CompTypes' /\ WorkerTypes' /\ InHand' /\ MarksKept
      BY <1>5 DEF Insert, world, Types, CompTypes, WorkerTypes, InHand, Held, MarksKept,
                  Reverted
    <2> QED BY <1>3, <1>4, <2>1 DEF Types
  <1>6. CASE comps' = Append(comps, x)
    <2>1. /\ comps' \in Seq(CompRecord) /\ DOMAIN comps \subseteq DOMAIN comps'
          /\ \A c \in DOMAIN comps : comps'[c] = comps[c]
          /\ \A c \in DOMAIN comps' \ DOMAIN comps : comps'[c] = x
      <3>1. comps \in Seq(CompRecord) /\ Len(comps) \in Nat /\ DOMAIN comps = 1..Len(comps)
        BY LenProperties DEF Types, CompTypes
      <3>2. /\ comps' \in Seq(CompRecord) /\ Len(comps') = Len(comps) + 1
            /\ \A i \in 1..Len(comps) : comps'[i] = comps[i]
            /\ comps'[Len(comps) + 1] = x
        BY <1>2, <1>6, <3>1, AppendProperties
      <3>3. DOMAIN comps' = 1..(Len(comps) + 1)
        BY <3>2, LenProperties
      <3> QED BY <3>1, <3>2, <3>3
    <2>2. CompTypes'
      BY <1>1, <1>2, <2>1 DEF Insert, world, Types, CompTypes
    <2>3. WorkerTypes' /\ InHand'
      <3>1. \A w \in Workers : pc[w] # "idle" =>
              comp[w] \in DOMAIN comps /\ comp[w] \in DOMAIN comps'
              /\ comps'[comp[w]] = comps[comp[w]]
        BY <2>1 DEF Types, WorkerTypes
      <3>2. WorkerTypes'
        BY <3>1 DEF Insert, Types, WorkerTypes, WithItem
      <3>3. InHand'
        BY <3>1 DEF Insert, InHand, Held, WithItem
      <3> QED BY <3>2, <3>3
    <2>4. MarksKept
      BY <1>2, <2>1 DEF Insert, MarksKept, Reverted
    <2> QED BY <1>3, <1>4, <2>2, <2>3, <2>4 DEF Types
  <1> QED BY <1>5, <1>6 DEF Insert, x

(* A lease that runs out leaves its owner in place. *)
LEMMA LeaseExpiresKeeps ==
  ASSUME Types, InHand, NEW c, LeaseExpires(c)
  PROVE  Types' /\ InHand' /\ MarksKept
  <1>1. c \in DOMAIN comps /\ CompTypes /\ UNCHANGED ledger
    BY DEF LeaseExpires, world, Types
  <1>2. /\ Changes(c) /\ comps'[c].items = comps[c].items
        /\ comps'[c].owner = comps[c].owner /\ comps'[c].status = comps[c].status
    BY <1>1, ExpiredFollows DEF LeaseExpires, Changes
  <1>3. /\ CompTypes' /\ DOMAIN comps' = DOMAIN comps
        /\ \A d \in DOMAIN comps : DOMAIN comps'[d].items = DOMAIN comps[d].items
        /\ \A d \in DOMAIN comps \ {c} : comps'[d] = comps[d]
    BY <1>1, <1>2, ChangesEffect
  <1>4. LedgerTypes' /\ PlanTypes' /\ UndoneType' /\ WorkerTypes'
    BY <1>3 DEF LeaseExpires, world, people, Types, LedgerTypes, PlanTypes, UndoneType,
                WorkerTypes
  <1>5. InHand'
    BY <1>2, <1>3 DEF LeaseExpires, Types, WorkerTypes, InHand, Held, WithItem
  <1>6. MarksKept
    BY <1>1, <1>2, SameItemsKeepMarks DEF LeaseExpires, MarksKept
  <1> QED BY <1>3, <1>4, <1>5, <1>6 DEF Types

(* Steps that touch neither the ledger nor the compensations. *)
LEMMA AsideKeeps ==
  ASSUME Types, InHand, UNCHANGED <<ledger, drawn, comps, pc, comp, item, undone>>
  PROVE  Types' /\ InHand' /\ MarksKept
  BY DEF Types, LedgerTypes, PlanTypes, CompTypes, WorkerTypes, UndoneType, InHand, Held,
         MarksKept, Reverted

-----------------------------------------------------------------------------
(* Nothing is recorded, planned or taken back at first. *)
LEMMA InitIInv == Init => IInv
  <1> SUFFICES ASSUME Init PROVE IInv
    OBVIOUS
  <1>1. LedgerTypes /\ PlanTypes
    <2>1. IsSeq(<<>>) /\ Len(<<>>) = 0
      BY EmptySeq DEF IsSeq
    <2> QED BY <2>1, BoundsAssumption DEF Init, NoPlan, LedgerTypes, PlanTypes
  <1>2. comps = <<>> /\ DOMAIN comps = {}
    BY DEF Init
  <1>3. CompTypes /\ WorkerTypes /\ UndoneType /\ InHand
    BY <1>2 DEF Init, CompTypes, WorkerTypes, UndoneType, InHand, WithItem, Places
  <1>4. Agrees /\ AppliedOnce
    BY <1>2 DEF Init, Agrees, AppliedOnce, Undone, Reverted
  <1> QED BY <1>1, <1>3, <1>4 DEF IInv, Types

(* Every step keeps the invariant, one case to an action. *)
LEMMA NextIInv == ~SlowFailures /\ IInv /\ [Next]_vars => IInv'
  <1> SUFFICES ASSUME ~SlowFailures, IInv, [Next]_vars PROVE IInv'
    OBVIOUS
  <1> USE DEF IInv
  <1>1. ASSUME Types' /\ InHand' /\ MarksKept PROVE IInv'
    BY <1>1, KeptMarksAgree DEF Types
  <1>2. ASSUME NEW w \in Workers, Work(w) \/ Crash(w) PROVE IInv'
    <2>1. Agrees' /\ AppliedOnce' /\ UndoneType'
      <3>1. CASE ApplyCommit(w)
        BY <3>1, CommitAgrees
      <3>2. CASE ~ApplyCommit(w)
        BY <1>2, <3>2, WorkKeepsMarks, KeptMarksAgree DEF Types
      <3> QED BY <3>1, <3>2
    <2>2. Types' /\ InHand'
      BY <1>2, <2>1, WorkMoves, MovesKeepTypes
    <2> QED BY <2>1, <2>2
  <1>3. ASSUME NEW r \in Runs, Act(r) PROVE IInv'
    BY <1>1, <1>3, ActKeeps
  <1>4. ASSUME NEW r \in Runs, DrawUp(r) PROVE IInv'
    BY <1>1, <1>4, DrawUpKeeps
  <1>5. ASSUME NEW r \in Runs, Insert(r) PROVE IInv'
    BY <1>1, <1>5, InsertKeeps
  <1>6. ASSUME NEW c \in 1..MaxComps, LeaseExpires(c) PROVE IInv'
    BY <1>1, <1>6, LeaseExpiresKeeps
  <1>7. ASSUME NEW r \in Runs, End(r) \/ Preview(r) PROVE IInv'
    BY <1>1, <1>7, AsideKeeps DEF End, Preview, world, people
  <1>8. CASE RemoveNote
    BY <1>1, <1>8, AsideKeeps DEF RemoveNote, people
  <1>9. CASE UNCHANGED vars
    BY <1>1, <1>9, AsideKeeps DEF vars
  <1> QED BY <1>2, <1>3, <1>4, <1>5, <1>6, <1>7, <1>8, <1>9 DEF Next

(* So it holds always. *)
LEMMA IInvHolds == ~SlowFailures => (Spec => []IInv)
  <1> SUFFICES ASSUME ~SlowFailures PROVE Spec => []IInv
    OBVIOUS
  <1>1. IInv /\ [Next]_vars => IInv'
    BY NextIInv
  <1> QED BY InitIInv, <1>1, PTL DEF Spec

(* An inverse is applied at most once, for any runs, workers and bounds, if  *)
(* every failure is recorded before the lease that went with it runs out     *)
(* (compensation_items_once_key, and a worker's lease over what it holds).   *)
THEOREM InversesAreAppliedOnce == ~SlowFailures => (Spec => []AppliedOnce)
  <1>1. IInv => AppliedOnce
    BY DEF IInv
  <1> QED BY IInvHolds, <1>1, PTL

(* Under the same condition the item rows tell exactly which inverses were   *)
(* committed (_claim_item and apply_inverse in one transaction).             *)
THEOREM TheRowsTellTheTruth == ~SlowFailures => (Spec => []RowsTellTheTruth)
  <1>1. IInv => RowsTellTheTruth
    <2> SUFFICES ASSUME IInv, NEW r \in Runs
                 PROVE  Undone(r) = {n \in DOMAIN ledger[r] : Reverted(r, n)}
      BY DEF RowsTellTheTruth
    <2>1. Undone(r) \subseteq Nat
      BY LenProperties, ElementOfSeq DEF IInv, Types, UndoneType, Undone
    <2>2. \A n : Reverted(r, n) => n \in DOMAIN ledger[r]
      BY DEF IInv, Types, CompTypes, Reverted
    <2>3. DOMAIN ledger[r] \subseteq Nat
      BY LenProperties DEF IInv, Types, LedgerTypes, IsSeq
    <2> QED BY <2>1, <2>2, <2>3 DEF IInv, Agrees
  <1> QED BY IInvHolds, <1>1, PTL

-----------------------------------------------------------------------------
(* The types that the argument above had no use for.                         *)
OwnerTold(x) == x.owner # NoWorker <=> x.status = "running"
HandsEmpty ==
  \A w \in Workers :
    /\ pc[w] = "idle" => comp[w] = 0
    /\ pc[w] \in {"idle", "driving"} => item[w] = 0
TicketTypes == DOMAIN ticket = Fields /\ notes \subseteq Runs \X (1..MaxActs)
RunTypes == ended \subseteq Runs /\ shown \in [Runs -> SUBSET (1..MaxActs)]
OwnerTypes == Len(comps) <= MaxComps /\ \A c \in DOMAIN comps : OwnerTold(comps[c])
MInv == IInv /\ HandsEmpty /\ TicketTypes /\ RunTypes /\ OwnerTypes

(* Rows of a ledger are numbered by its bound. *)
LEMMA RowNumbers ==
  ASSUME Types, NEW r \in Runs
  PROVE  DOMAIN ledger[r] \subseteq 1..MaxActs
  <1>1. DOMAIN ledger[r] = 1..Len(ledger[r]) /\ Len(ledger[r]) \in Nat /\ Len(ledger[r]) <= MaxActs
    BY LenProperties DEF Types, LedgerTypes, IsSeq
  <1> QED BY <1>1, BoundsAssumption

(* Together they are the type invariant. *)
LEMMA TypesSuffice == MInv => TypeOK
  <1> SUFFICES ASSUME MInv PROVE TypeOK
    OBVIOUS
  <1>1. Types
    BY DEF MInv, IInv
  <1>2. /\ comps \in Seq(CompRecord) /\ Len(comps) \in Nat /\ DOMAIN comps = 1..Len(comps)
        /\ \A c \in DOMAIN comps : comps[c] \in CompRecord
    BY <1>1, ElementOfSeq, LenProperties DEF Types, CompTypes
  <1>3. DOMAIN ledger = Runs /\ \A r \in Runs : Len(ledger[r]) <= MaxActs
    BY <1>1 DEF Types, LedgerTypes
  <1>4. drawn \in [Runs -> SUBSET (1..MaxActs)]
    BY <1>1, RowNumbers DEF Types, PlanTypes
  <1>5. comp \in [Workers -> 0..Len(comps)]
    <2>1. \A w \in Workers : comp[w] \in 0..Len(comps)
      BY <1>1, <1>2 DEF MInv, HandsEmpty, Types, WorkerTypes
    <2> QED BY <1>1, <2>1 DEF Types, WorkerTypes
  <1>6. \A w \in Workers : comp[w] = 0 <=> pc[w] = "idle"
    BY <1>1, <1>2 DEF MInv, HandsEmpty, Types, WorkerTypes
  <1>7. ASSUME NEW w \in Workers
        PROVE  /\ item[w] = 0 <=> pc[w] \in {"idle", "driving"}
               /\ item[w] # 0 => item[w] \in DOMAIN comps[comp[w]].items
    <2>1. CASE pc[w] \in {"idle", "driving"}
      BY <2>1 DEF MInv, HandsEmpty
    <2>2. CASE pc[w] \in WithItem
      <3>1. comp[w] \in DOMAIN comps /\ item[w] \in DOMAIN comps[comp[w]].items
        BY <1>1, <2>2 DEF Types, WorkerTypes, WithItem
      <3>2. DOMAIN comps[comp[w]].items \subseteq 1..MaxActs
        BY <1>2, <3>1, Parts
      <3>3. item[w] # 0
        BY <3>1, <3>2
      <3> QED BY <2>2, <3>1, <3>3 DEF WithItem
    <2> QED BY <1>1, <2>1, <2>2 DEF Types, WorkerTypes, Places, WithItem
  <1>8. pc \in [Workers -> {"idle", "driving", "applying", "failing"}]
    BY <1>1 DEF Types, WorkerTypes, Places
  <1> QED BY <1>2, <1>3, <1>4, <1>5, <1>6, <1>7, <1>8
      DEF MInv, TicketTypes, RunTypes, OwnerTypes, OwnerTold, TypeOK

(* A step on one compensation keeps the owners right if that one's is. *)
LEMMA OwnersStay ==
  ASSUME CompTypes, OwnerTypes, NEW c \in DOMAIN comps, Changes(c), UNCHANGED ledger,
         OwnerTold(comps'[c])
  PROVE  OwnerTypes'
  <1>1. /\ DOMAIN comps' = DOMAIN comps /\ comps' \in Seq(CompRecord)
        /\ \A d \in DOMAIN comps \ {c} : comps'[d] = comps[d]
    BY ChangesEffect DEF CompTypes
  <1>2. Len(comps') = Len(comps)
    BY <1>1, LenProperties DEF CompTypes
  <1> QED BY <1>1, <1>2 DEF OwnerTypes, OwnerTold

(* Each step of a worker does. *)
LEMMA WorkOwners ==
  ASSUME Types, InHand, OwnerTypes, NEW w \in Workers, Work(w) \/ Crash(w)
  PROVE  OwnerTypes'
  <1>c. PICK c : c = comp[w]
    OBVIOUS
  <1> USE <1>c DEF world, people
  <1>a. CompTypes /\ WorkerTypes /\ (pc[w] # "idle" => c \in DOMAIN comps)
    BY DEF Types, WorkerTypes
  <1>1. CASE Claim(w)
    <2>1. PICK d \in DOMAIN comps :
            comps' = [comps EXCEPT ![d].status = "running", ![d].owner = w,
                                   ![d].live = TRUE, ![d].attempt = NextAttempt(d)]
      BY <1>1 DEF Claim
    <2>2. Changes(d) /\ comps'[d].owner = w /\ comps'[d].status = "running"
      BY <1>a, <2>1, ClaimedFollows DEF Changes
    <2>3. OwnerTold(comps'[d])
      BY <2>2, WorkersAssumption DEF OwnerTold
    <2> QED BY <1>1, <1>a, <2>2, <2>3, OwnersStay DEF Claim
  <1>2. CASE UNCHANGED <<comps, ledger>>
    BY <1>2 DEF OwnerTypes, OwnerTold
  <1>3. ASSUME NEW status \in Final, c \in DOMAIN comps, UNCHANGED ledger,
               comps' = [comps EXCEPT ![c] = Finished(comps[c], status)]
        PROVE  OwnerTypes'
    <2>1. comps'[c] = Finished(comps[c], status)
      BY <1>a, <1>3, LenProperties DEF CompTypes
    <2>2. Changes(c) /\ OwnerTold(comps'[c])
      BY <1>a, <1>3, <2>1, FinishedFollows DEF Changes, OwnerTold, Final
    <2> QED BY <1>a, <1>3, <2>2, OwnersStay
  <1>4. CASE GiveUp(w)
    BY <1>3, <1>4, <1>a DEF GiveUp, Renews, Final
  <1>5. CASE Complete(w)
    <2>1. Outcome(comps[c].items) \in Final
      BY DEF Outcome, Final
    <2> QED BY <1>3, <1>5, <1>a, <2>1 DEF Complete, Renews
  <1>6. ASSUME NEW n, NEW status \in ItemStatuses, c \in DOMAIN comps, UNCHANGED ledger,
               n \in DOMAIN comps[c].items, Marked(c, n, status)
        PROVE  OwnerTypes'
    <2>1. Changes(c) /\ OwnerTold(comps'[c])
      BY <1>a, <1>6, MarkedFollows DEF Changes, OwnerTypes, OwnerTold
    <2> QED BY <1>a, <1>6, <2>1, OwnersStay
  <1>7. CASE Report(w)
    BY <1>6, <1>7, <1>a, NextPendingIsPending DEF Report, Renews, ItemStatuses
  <1>8. CASE ApplyCommit(w)
    BY <1>6, <1>8, <1>a DEF ApplyCommit, ItemStatuses, WorkerTypes, WithItem
  <1>9. CASE RecordFailure(w)
    <2>1. comps' = [comps EXCEPT ![c] = Failed(c, item[w])] /\ c \in DOMAIN comps /\ UNCHANGED ledger
      BY <1>9, <1>a DEF RecordFailure
    <2>2. comps'[c] = Failed(c, item[w])
      BY <1>a, <2>1, LenProperties DEF CompTypes
    <2>3. Changes(c) /\ OwnerTold(comps'[c])
      BY <1>a, <2>1, <2>2, FailedFollows DEF Changes, OwnerTold
    <2> QED BY <1>a, <2>1, <2>3, OwnersStay
  <1> QED
    BY <1>1, <1>2, <1>4, <1>5, <1>7, <1>8, <1>9
    DEF Work, Crash, LeaseLost, BeginRevert, ClaimRefused, ApplyFails, AfterRollback

(* A worker's hands are empty where nothing is in them. *)
LEMMA WorkHands ==
  ASSUME Types, HandsEmpty, NEW w \in Workers, Work(w) \/ Crash(w)
  PROVE  HandsEmpty'
  <1>1. WorkerTypes
    BY DEF Types
  <1>2. CASE PutDown(w)
    BY <1>1, <1>2 DEF PutDown, GoTo, HandsEmpty, WorkerTypes
  <1>3. CASE Claim(w) \/ Report(w) \/ BeginRevert(w) \/ ApplyCommit(w) \/ ApplyFails(w)
    BY <1>1, <1>3 DEF Claim, Report, BeginRevert, ApplyCommit, ApplyFails, Renews, GoTo,
                      HandsEmpty, WorkerTypes
  <1> QED BY <1>2, <1>3
      DEF Work, Crash, LeaseLost, GiveUp, Complete, ClaimRefused, RecordFailure

(* Every step keeps the types. *)
LEMMA NextMInv == ~SlowFailures /\ MInv /\ [Next]_vars => MInv'
  <1> SUFFICES ASSUME ~SlowFailures, MInv, [Next]_vars
               PROVE  HandsEmpty' /\ TicketTypes' /\ RunTypes' /\ OwnerTypes'
    BY NextIInv DEF MInv
  <1>1. Types /\ InHand /\ CompTypes
    BY DEF MInv, IInv, Types
  <1>2. ASSUME UNCHANGED <<pc, comp, item>> PROVE HandsEmpty'
    BY <1>2 DEF MInv, HandsEmpty
  <1>3. ASSUME UNCHANGED <<ticket, notes>> PROVE TicketTypes'
    BY <1>3 DEF MInv, TicketTypes
  <1>4. ASSUME UNCHANGED <<ended, shown>> PROVE RunTypes'
    BY <1>4 DEF MInv, RunTypes
  <1>5. ASSUME UNCHANGED comps PROVE OwnerTypes'
    BY <1>5 DEF MInv, OwnerTypes, OwnerTold
  <1>6. ASSUME NEW r \in Runs, Act(r)
        PROVE  HandsEmpty' /\ TicketTypes' /\ RunTypes' /\ OwnerTypes'
    <2>1. Me(r) \in Runs \X (1..MaxActs)
      <3>1. Len(ledger[r]) \in Nat /\ Len(ledger[r]) < MaxActs
        BY <1>1, <1>6, LenProperties DEF Act, Types, LedgerTypes, IsSeq
      <3> QED BY <3>1, BoundsAssumption DEF Me
    <2>2. ASSUME NEW f \in Fields, NEW value, SetField(r, f, value) PROVE TicketTypes'
      BY <1>3, <2>2 DEF SetField, ChangeNothing, ChangeField, MInv, TicketTypes
    <2>3. ASSUME NEW call, Handle(r, call) PROVE TicketTypes'
      BY <1>3, <2>1, <2>2, <2>3
      DEF Handle, ChangeNothing, ChangeField, AddNote, MInv, TicketTypes, Fields
    <2>4. TicketTypes'
      BY <1>3, <1>6, <2>3 DEF Act, ToolFails, ChangeNothing
    <2> QED BY <1>2, <1>4, <1>5, <1>6, <2>4 DEF Act, people
  <1>7. ASSUME NEW r \in Runs, End(r) PROVE RunTypes'
    BY <1>7 DEF End, people, MInv, RunTypes
  <1>8. ASSUME NEW r \in Runs, Preview(r) PROVE RunTypes'
    <2>1. Plan(r) \subseteq 1..MaxActs
      BY <1>1, RowNumbers DEF Plan
    <2> QED BY <1>8, <2>1 DEF Preview, world, MInv, RunTypes
  <1>9. ASSUME NEW r \in Runs, Insert(r), ~UNCHANGED comps PROVE OwnerTypes'
    <2> DEFINE x == Fresh(r, drawn[r])
    <2>1. comps' = Append(comps, x) /\ Len(comps) < MaxComps
      BY <1>9 DEF Insert
    <2>2. OwnerTold(x)
      BY DEF Fresh, OwnerTold
    <2> HIDE DEF x
    <2>3. comps \in Seq(CompRecord \cup {x}) /\ x \in CompRecord \cup {x}
      BY <1>1 DEF CompTypes
    <2>4. /\ Len(comps) \in Nat /\ DOMAIN comps = 1..Len(comps)
          /\ Len(comps') = Len(comps) + 1 /\ DOMAIN comps' = 1..Len(comps')
          /\ \A c \in 1..Len(comps) : comps'[c] = comps[c]
          /\ comps'[Len(comps) + 1] = x
      BY <2>1, <2>3, AppendProperties, LenProperties
    <2>5. \A c \in DOMAIN comps' : c \in DOMAIN comps \/ comps'[c] = x
      BY <2>4
    <2> QED BY <2>1, <2>2, <2>4, <2>5, BoundsAssumption DEF MInv, OwnerTypes, OwnerTold
  <1>10. ASSUME NEW w \in Workers, Work(w) \/ Crash(w)
         PROVE  HandsEmpty' /\ TicketTypes' /\ RunTypes' /\ OwnerTypes'
    <2>1. HandsEmpty' /\ OwnerTypes'
      BY <1>1, <1>10, WorkHands, WorkOwners DEF MInv
    <2>2. CASE ApplyCommit(w)
      <3>1. UNCHANGED <<ended, shown>>
        BY <2>2 DEF ApplyCommit, people
      <3>2. TicketTypes'
        BY <2>2 DEF ApplyCommit, PutBack, MInv, TicketTypes
      <3> QED BY <1>4, <2>1, <3>1, <3>2
    <2>3. CASE ~ApplyCommit(w)
      <3>1. UNCHANGED <<ticket, notes, ended, shown>>
        BY <1>10, <2>3 DEF Work, Crash, Claim, LeaseLost, GiveUp, Complete, Report, BeginRevert,
                           ClaimRefused, ApplyFails, RecordFailure, world, people
      <3> QED BY <1>3, <1>4, <2>1, <3>1
    <2> QED BY <2>2, <2>3
  <1>11. ASSUME NEW c \in 1..MaxComps, LeaseExpires(c) PROVE OwnerTypes'
    <2>1. c \in DOMAIN comps /\ UNCHANGED ledger
      BY <1>11 DEF LeaseExpires, world
    <2>2. Changes(c) /\ OwnerTold(comps'[c])
      BY <1>1, <1>11, <2>1, ExpiredFollows DEF LeaseExpires, Changes, MInv, OwnerTypes, OwnerTold
    <2> QED BY <1>1, <2>1, <2>2, OwnersStay DEF MInv
  <1>12. CASE RemoveNote
    <2>1. TicketTypes'
      BY <1>12 DEF RemoveNote, MInv, TicketTypes
    <2> QED BY <1>2, <1>4, <1>5, <1>12, <2>1 DEF RemoveNote, people
  <1>13. ASSUME NEW r \in Runs, End(r) \/ Preview(r) \/ DrawUp(r) \/ Insert(r)
         PROVE  HandsEmpty' /\ TicketTypes' /\ RunTypes' /\ OwnerTypes'
    BY <1>2, <1>3, <1>4, <1>5, <1>7, <1>8, <1>9, <1>13
    DEF End, Preview, DrawUp, Insert, world, people
  <1>14. ASSUME NEW c \in 1..MaxComps, LeaseExpires(c)
         PROVE  HandsEmpty' /\ TicketTypes' /\ RunTypes' /\ OwnerTypes'
    BY <1>2, <1>3, <1>4, <1>11, <1>14 DEF LeaseExpires, world, people
  <1>15. CASE UNCHANGED vars
    BY <1>2, <1>3, <1>4, <1>5, <1>15 DEF vars
  <1> QED BY <1>6, <1>10, <1>12, <1>13, <1>14, <1>15 DEF Next

(* Every variable keeps its type, a compensation has an owner just while it  *)
(* is running, and a worker inside a transaction has the item in hand, for   *)
(* any runs, workers, calls and bounds, if every failure is recorded before  *)
(* the lease that went with it runs out.                                     *)
THEOREM TypeCorrect == ~SlowFailures => (Spec => []TypeOK)
  <1> SUFFICES ASSUME ~SlowFailures PROVE Spec => []TypeOK
    OBVIOUS
  <1>1. Init => MInv
    <2> SUFFICES ASSUME Init PROVE HandsEmpty /\ TicketTypes /\ RunTypes /\ OwnerTypes
      BY InitIInv DEF MInv
    <2>1. comps = <<>> /\ Len(comps) = 0 /\ DOMAIN comps = {}
      BY DEF Init
    <2> QED BY <2>1, BoundsAssumption
        DEF Init, Initial, Fields, NoPlan, HandsEmpty, TicketTypes, RunTypes, OwnerTypes
  <1>2. MInv /\ [Next]_vars => MInv'
    BY NextMInv
  <1> QED BY <1>1, <1>2, TypesSuffice, PTL DEF Spec

-----------------------------------------------------------------------------
(* The outcome.  What a compensation's record says is kept in step with what *)
(* the ledger holds an inverse for.                                          *)
WellTold(x) ==
  /\ \A n \in DOMAIN x.items :
       /\ x.items[n] = "reverted" => HasInverse(x.run, n)
       /\ x.items[n] = "unrevertable" => ~HasInverse(x.run, n)
       /\ x.status # "blocked" => x.items[n] \notin {"failed", "skipped"}
       /\ x.status = "applied" => x.items[n] = "reverted"
       /\ x.status = "partial" => x.items[n] # "pending"
  /\ x.status = "partial" => \E n \in DOMAIN x.items : x.items[n] = "unrevertable"
WellToldAll == \A c \in DOMAIN comps : WellTold(comps[c])
InverseInHand ==
  \A w \in Workers : pc[w] = "applying" => HasInverse(comps[comp[w]].run, item[w])

OInv == IInv /\ WellToldAll /\ InverseInHand

(* An item has one of its statuses. *)
LEMMA ItemStatus ==
  ASSUME CompTypes, NEW c \in DOMAIN comps, NEW n \in DOMAIN comps[c].items
  PROVE  comps[c].items[n] \in ItemStatuses
  <1>1. comps[c] \in CompRecord
    BY ElementOfSeq, LenProperties DEF CompTypes
  <1> QED BY <1>1, Parts

(* A step on one compensation need only keep what that one says. *)
LEMMA OneRetold ==
  ASSUME CompTypes, NEW c \in DOMAIN comps, Changes(c), UNCHANGED ledger, WellToldAll,
         WellTold(comps[c])'
  PROVE  WellToldAll'
  <1>1. DOMAIN comps' = DOMAIN comps /\ \A d \in DOMAIN comps \ {c} : comps'[d] = comps[d]
    BY ChangesEffect
  <1>2. \A d \in DOMAIN comps \ {c} : WellTold(comps[d])'
    BY <1>1 DEF WellToldAll, WellTold, HasInverse
  <1> QED BY <1>1, <1>2 DEF WellToldAll

(* Each step of a worker keeps what the records say. *)
LEMMA WorkTells ==
  ASSUME Types, InHand, WellToldAll, InverseInHand, NEW w \in Workers, Work(w) \/ Crash(w)
  PROVE  WellToldAll'
  <1>c. PICK c : c = comp[w]
    OBVIOUS
  <1> USE <1>c DEF world, people
  <1>a. CompTypes /\ WorkerTypes /\ (pc[w] # "idle" => c \in DOMAIN comps)
    BY DEF Types, WorkerTypes
  <1>1. CASE Claim(w)
    <2>1. PICK d \in DOMAIN comps :
            /\ Claimable(d)
            /\ comps' = [comps EXCEPT ![d].status = "running", ![d].owner = w,
                                      ![d].live = TRUE, ![d].attempt = NextAttempt(d)]
      BY <1>1 DEF Claim
    <2>2. /\ Changes(d) /\ comps'[d].items = comps[d].items
          /\ comps'[d].run = comps[d].run /\ comps'[d].status = "running"
      BY <1>a, <2>1, ClaimedFollows DEF Changes, Follows
    <2>3. WellTold(comps[d]) /\ comps[d].status \in {"queued", "running"}
      BY <2>1 DEF WellToldAll, Claimable
    <2>4. WellTold(comps[d])'
      BY <1>1, <2>2, <2>3 DEF Claim, WellTold, HasInverse
    <2> QED BY <1>1, <1>a, <2>2, <2>4, OneRetold DEF Claim
  <1>2. CASE UNCHANGED <<comps, ledger>>
    BY <1>2 DEF WellToldAll, WellTold, HasInverse
  <1>3. CASE GiveUp(w)
    <2>1. c \in DOMAIN comps /\ comps' = [comps EXCEPT ![c] = Finished(comps[c], "blocked")]
      BY <1>3, <1>a DEF GiveUp, Renews
    <2>2. comps'[c] = Finished(comps[c], "blocked")
      BY <1>a, <2>1, LenProperties DEF CompTypes
    <2>3. /\ Changes(c) /\ comps'[c].items = comps[c].items
          /\ comps'[c].run = comps[c].run /\ comps'[c].status = "blocked"
      BY <1>a, <2>1, <2>2, FinishedFollows DEF Changes, Follows, Final
    <2>4. WellTold(comps[c])'
      BY <1>3, <2>1, <2>3 DEF GiveUp, WellToldAll, WellTold, HasInverse
    <2> QED BY <1>3, <1>a, <2>1, <2>3, <2>4, OneRetold DEF GiveUp
  <1>4. CASE Complete(w)
    <2> DEFINE o == Outcome(comps[c].items)
               x == Finished(comps[c], o)
    <2>1. /\ c \in DOMAIN comps /\ comps' = [comps EXCEPT ![c] = x]
          /\ Pending(c) = {} /\ comps[c].status = "running"
      BY <1>4, <1>a DEF Complete, Renews, Held
    <2>2. o \in Final
      BY DEF Outcome, Final
    <2>3. Follows(c, x) /\ x.items = comps[c].items /\ x.status = o
      BY <1>a, <2>1, <2>2, FinishedFollows
    <2>4. o = IF \E n \in DOMAIN comps[c].items : comps[c].items[n] = "unrevertable"
              THEN "partial" ELSE "applied"
      BY DEF Outcome
    <2> HIDE DEF x, o
    <2>5. comps'[c] = x
      BY <1>a, <2>1, LenProperties DEF CompTypes
    <2>6. Changes(c) /\ x.run = comps[c].run
      BY <2>1, <2>3, <2>5 DEF Changes, Follows
    <2>7. \A n \in DOMAIN comps[c].items : comps[c].items[n] \in {"reverted", "unrevertable"}
      BY <1>a, <2>1, ItemStatus DEF Pending, ItemStatuses, WellToldAll, WellTold
    <2>8. WellTold(comps[c])'
      BY <1>4, <2>1, <2>3, <2>4, <2>5, <2>6, <2>7
      DEF Complete, WellToldAll, WellTold, HasInverse
    <2> QED BY <1>4, <1>a, <2>1, <2>6, <2>8, OneRetold DEF Complete
  <1>5. CASE Report(w)
    <2> DEFINE n == NextPending(c)
    <2>1. /\ c \in DOMAIN comps /\ n \in DOMAIN comps[c].items
          /\ comps[c].status = "running" /\ ~HasInverse(comps[c].run, n)
      BY <1>5, <1>a, NextPendingIsPending DEF Report, Renews, Held
    <2>2. /\ Changes(c) /\ comps'[c].items = [comps[c].items EXCEPT ![n] = "unrevertable"]
          /\ comps'[c].status = "running" /\ comps'[c].run = comps[c].run
      BY <1>5, <1>a, <2>1, MarkedFollows DEF Report, Changes, Follows, ItemStatuses
    <2> HIDE DEF n
    <2>3. WellTold(comps[c])'
      BY <1>5, <2>1, <2>2 DEF Report, WellToldAll, WellTold, HasInverse
    <2> QED BY <1>5, <1>a, <2>1, <2>2, <2>3, OneRetold DEF Report
  <1>6. CASE ApplyCommit(w)
    <2> DEFINE n == item[w]
    <2>1. /\ c \in DOMAIN comps /\ n \in DOMAIN comps[c].items
          /\ comps[c].status = "running" /\ HasInverse(comps[c].run, n)
      BY <1>6, <1>a DEF ApplyCommit, InHand, Held, InverseInHand, WithItem, WorkerTypes
    <2>2. /\ Changes(c) /\ comps'[c].items = [comps[c].items EXCEPT ![n] = "reverted"]
          /\ comps'[c].status = "running" /\ comps'[c].run = comps[c].run
      BY <1>6, <1>a, <2>1, MarkedFollows DEF ApplyCommit, Changes, Follows, ItemStatuses
    <2> HIDE DEF n
    <2>3. WellTold(comps[c])'
      BY <1>6, <2>1, <2>2 DEF ApplyCommit, WellToldAll, WellTold, HasInverse
    <2> QED BY <1>6, <1>a, <2>1, <2>2, <2>3, OneRetold DEF ApplyCommit
  <1>7. CASE RecordFailure(w)
    <2>1. c \in DOMAIN comps /\ comps' = [comps EXCEPT ![c] = Failed(c, item[w])]
      BY <1>7, <1>a DEF RecordFailure
    <2>2. comps'[c] = Failed(c, item[w])
      BY <1>a, <2>1, LenProperties DEF CompTypes
    <2>3. /\ Changes(c) /\ comps'[c].items = Skipping(comps[c].items, item[w])
          /\ comps'[c].status = "blocked" /\ comps'[c].run = comps[c].run
      BY <1>a, <2>1, <2>2, FailedFollows DEF Changes, Follows
    <2>4. WellTold(comps[c])'
      BY <1>7, <2>1, <2>3 DEF RecordFailure, WellToldAll, WellTold, HasInverse, Skipping
    <2> QED BY <1>7, <1>a, <2>1, <2>3, <2>4, OneRetold DEF RecordFailure
  <1> QED
    BY <1>1, <1>2, <1>3, <1>4, <1>5, <1>6, <1>7
    DEF Work, Crash, LeaseLost, BeginRevert, ClaimRefused, ApplyFails, AfterRollback

(* Only an item with an inverse is taken in hand. *)
LEMMA WorkKeepsInverseInHand ==
  ASSUME Types, InHand, ~SlowFailures, InverseInHand, NEW w \in Workers, Work(w) \/ Crash(w)
  PROVE  InverseInHand'
  <1> SUFFICES ASSUME NEW v \in Workers, pc'[v] = "applying"
               PROVE  HasInverse(comps[comp[v]].run, item[v])'
    BY DEF InverseInHand
  <1>1. Moves(w) /\ UNCHANGED ledger
    BY WorkMoves DEF Moves
  <1>2. CASE v # w
    <2>1. pc[v] = "applying" /\ comp'[v] = comp[v] /\ item'[v] = item[v]
      BY <1>1, <1>2 DEF Moves, ItsOwn
    <2>2. comp[v] \in DOMAIN comps
      BY <2>1 DEF Types, WorkerTypes
    <2>3. comps'[comp[v]].run = comps[comp[v]].run
      BY <1>1, <2>2, ChangesEffect DEF Moves, Types
    <2> QED BY <1>1, <2>1, <2>3 DEF InverseInHand, HasInverse
  <1>3. CASE v = w
    <2>1. BeginRevert(w)
      BY <1>3
      DEF Work, Crash, Claim, LeaseLost, GiveUp, Complete, Report, ApplyCommit, ClaimRefused,
          ApplyFails, RecordFailure, Renews, PutDown, GoTo, Types, WorkerTypes
    <2>2. /\ comp'[w] = comp[w] /\ item'[w] = NextPending(comp[w]) /\ UNCHANGED comps
          /\ HasInverse(comps[comp[w]].run, NextPending(comp[w]))
      BY <2>1 DEF BeginRevert, Types, WorkerTypes
    <2> QED BY <1>1, <1>3, <2>2 DEF HasInverse
  <1> QED BY <1>2, <1>3

(* The agent's later rows leave the inverses of the earlier ones alone. *)
LEMMA ActKeepsInverses ==
  ASSUME Types, NEW r \in Runs, Act(r), NEW q \in Runs, NEW n \in DOMAIN ledger[q]
  PROVE  HasInverse(q, n)' <=> HasInverse(q, n)
  <1>1. PICK row : ledger' = [ledger EXCEPT ![r] = Append(@, row)]
    BY ActAppends DEF Record
  <1>2. CASE q # r
    BY <1>1, <1>2 DEF Types, LedgerTypes, HasInverse
  <1>3. CASE q = r
    <2>1. ledger'[r] = Append(ledger[r], row)
      BY <1>1 DEF Types, LedgerTypes
    <2>2. PICK S : ledger[r] \in Seq(S)
      BY DEF Types, LedgerTypes, IsSeq
    <2>3. ledger[r] \in Seq(S \cup {row}) /\ n \in 1..Len(ledger[r])
      BY <1>3, <2>2, LenProperties
    <2>4. Append(ledger[r], row)[n] = ledger[r][n]
      BY <2>3, AppendProperties
    <2> QED BY <1>3, <2>1, <2>4 DEF HasInverse
  <1> QED BY <1>2, <1>3

(* So what the records say of the acts stays true while the agent goes on. *)
LEMMA ActTells ==
  ASSUME Types, WellToldAll, InverseInHand, NEW r \in Runs, Act(r)
  PROVE  WellToldAll' /\ InverseInHand'
  <1>1. \A c \in DOMAIN comps : comps[c].run \in Runs
    <2> TAKE c \in DOMAIN comps
    <2>1. comps[c] \in CompRecord
      BY ElementOfSeq, LenProperties DEF Types, CompTypes
    <2> QED BY <2>1, Parts
  <1>2. \A c \in DOMAIN comps : \A n \in DOMAIN comps[c].items :
          HasInverse(comps[c].run, n)' <=> HasInverse(comps[c].run, n)
    BY <1>1, ActKeepsInverses DEF Act, Types, CompTypes
  <1>3. UNCHANGED <<comps, pc, comp, item>>
    BY DEF Act
  <1>4. WellToldAll'
    <2> SUFFICES ASSUME NEW c \in DOMAIN comps PROVE WellTold(comps[c])'
      BY <1>3 DEF WellToldAll
    <2>1. WellTold(comps[c]) /\ comps'[c] = comps[c]
      BY <1>3 DEF WellToldAll
    <2> QED BY <1>2, <2>1 DEF WellTold
  <1>5. InverseInHand'
    <2> SUFFICES ASSUME NEW w \in Workers, pc[w] = "applying"
                 PROVE  HasInverse(comps[comp[w]].run, item[w])'
      BY <1>3 DEF InverseInHand
    <2>1. comp[w] \in DOMAIN comps /\ item[w] \in DOMAIN comps[comp[w]].items
      BY DEF Types, WorkerTypes, WithItem
    <2>2. HasInverse(comps[comp[w]].run, item[w])
      BY DEF InverseInHand
    <2> QED BY <1>2, <1>3, <2>1, <2>2
  <1> QED BY <1>4, <1>5

(* A new compensation says nothing yet. *)
LEMMA InsertTells ==
  ASSUME Types, WellToldAll, InverseInHand, NEW r \in Runs, Insert(r)
  PROVE  WellToldAll' /\ InverseInHand'
  <1>1. UNCHANGED <<ledger, pc, comp, item>>
    BY DEF Insert, world
  <1>2. CASE UNCHANGED comps
    BY <1>1, <1>2 DEF WellToldAll, WellTold, InverseInHand, HasInverse
  <1>3. CASE comps' = Append(comps, Fresh(r, drawn[r]))
    <2> DEFINE x == Fresh(r, drawn[r])
    <2>1. x \in CompRecord /\ x.status = "queued" /\ \A n \in DOMAIN x.items : x.items[n] = "pending"
      <3>1. drawn[r] \subseteq 1..MaxActs
        <4>1. drawn[r] \subseteq DOMAIN ledger[r] /\ IsSeq(ledger[r]) /\ Len(ledger[r]) <= MaxActs
          BY DEF Types, PlanTypes, LedgerTypes
        <4>2. DOMAIN ledger[r] = 1..Len(ledger[r]) /\ Len(ledger[r]) \in Nat
          BY <4>1, LenProperties DEF IsSeq
        <4> QED BY <4>1, <4>2, BoundsAssumption
      <3>2. [n \in drawn[r] |-> "pending"] \in
              UNION {[S -> ItemStatuses] : S \in SUBSET (1..MaxActs)}
        BY <3>1 DEF ItemStatuses
      <3> QED BY <3>2, BoundsAssumption DEF Fresh, CompRecord
    <2> HIDE DEF x
    <2>2. /\ DOMAIN comps = 1..Len(comps) /\ Len(comps) \in Nat
          /\ DOMAIN comps' = 1..(Len(comps) + 1)
          /\ \A i \in 1..Len(comps) : comps'[i] = comps[i]
          /\ comps'[Len(comps) + 1] = x
      <3>1. comps \in Seq(CompRecord) /\ comps' = Append(comps, x)
        BY <1>3 DEF Types, CompTypes, x
      <3> QED BY <2>1, <3>1, AppendProperties, LenProperties
    <2>3. \A c \in DOMAIN comps : comps'[c] = comps[c]
      BY <2>2
    <2>4. \A c \in DOMAIN comps' : c \in DOMAIN comps \/ comps'[c] = x
      BY <2>2
    <2>5. WellToldAll'
      <3> SUFFICES ASSUME NEW c \in DOMAIN comps' PROVE WellTold(comps[c])'
        BY DEF WellToldAll
      <3>1. CASE c \in DOMAIN comps
        BY <1>1, <2>3, <3>1 DEF WellToldAll, WellTold, HasInverse
      <3>2. CASE comps'[c] = x
        BY <2>1, <3>2 DEF WellTold
      <3> QED BY <2>4, <3>1, <3>2
    <2>6. InverseInHand'
      BY <1>1, <2>3 DEF Types, WorkerTypes, InverseInHand, HasInverse
    <2> QED BY <2>5, <2>6
  <1> QED BY <1>2, <1>3 DEF Insert

(* A lease that runs out changes nothing a record says. *)
LEMMA LeaseExpiresTells ==
  ASSUME Types, WellToldAll, InverseInHand, NEW c, LeaseExpires(c)
  PROVE  WellToldAll' /\ InverseInHand'
  <1>1. c \in DOMAIN comps /\ CompTypes /\ UNCHANGED <<ledger, pc, comp, item>>
    BY DEF LeaseExpires, world, Types
  <1>2. /\ Changes(c) /\ comps'[c].items = comps[c].items
        /\ comps'[c].run = comps[c].run /\ comps'[c].status = comps[c].status
    BY <1>1, ExpiredFollows DEF LeaseExpires, Changes, Follows
  <1>3. WellTold(comps[c])'
    BY <1>1, <1>2 DEF WellToldAll, WellTold, HasInverse
  <1>4. \A d \in DOMAIN comps : comps'[d].run = comps[d].run
    BY <1>1, <1>2, ChangesEffect
  <1>5. InverseInHand'
    BY <1>1, <1>4 DEF Types, WorkerTypes, InverseInHand, HasInverse
  <1> QED BY <1>1, <1>2, <1>3, <1>5, OneRetold

(* So every step keeps all of it. *)
LEMMA NextOInv == ~SlowFailures /\ OInv /\ [Next]_vars => OInv'
  <1> SUFFICES ASSUME ~SlowFailures, OInv, [Next]_vars PROVE WellToldAll' /\ InverseInHand'
    BY NextIInv DEF OInv
  <1>1. Types /\ InHand /\ WellToldAll /\ InverseInHand
    BY DEF OInv, IInv
  <1>2. ASSUME NEW w \in Workers, Work(w) \/ Crash(w) PROVE WellToldAll' /\ InverseInHand'
    BY <1>1, <1>2, WorkTells, WorkKeepsInverseInHand
  <1>3. ASSUME NEW r \in Runs, Act(r) PROVE WellToldAll' /\ InverseInHand'
    BY <1>1, <1>3, ActTells
  <1>4. ASSUME NEW r \in Runs, Insert(r) PROVE WellToldAll' /\ InverseInHand'
    BY <1>1, <1>4, InsertTells
  <1>5. ASSUME NEW c \in 1..MaxComps, LeaseExpires(c) PROVE WellToldAll' /\ InverseInHand'
    BY <1>1, <1>5, LeaseExpiresTells
  <1>6. CASE UNCHANGED <<ledger, comps, pc, comp, item>>
    BY <1>1, <1>6 DEF WellToldAll, WellTold, InverseInHand, HasInverse
  <1>7. ASSUME NEW r \in Runs, End(r) \/ Preview(r) \/ DrawUp(r)
        PROVE  WellToldAll' /\ InverseInHand'
    BY <1>6, <1>7 DEF End, Preview, DrawUp, world, people
  <1>8. CASE RemoveNote \/ UNCHANGED vars
    BY <1>6, <1>8 DEF RemoveNote, vars
  <1> QED BY <1>2, <1>3, <1>4, <1>5, <1>7, <1>8 DEF Next

(* So all of it holds always. *)
LEMMA OInvHolds == ~SlowFailures => (Spec => []OInv)
  <1> SUFFICES ASSUME ~SlowFailures PROVE Spec => []OInv
    OBVIOUS
  <1>1. Init => OInv
    <2>1. ASSUME Init PROVE WellToldAll /\ InverseInHand
      BY <2>1 DEF Init, WellToldAll, InverseInHand
    <2> QED BY <2>1, InitIInv DEF OInv
  <1>2. OInv /\ [Next]_vars => OInv'
    BY NextOInv
  <1> QED BY <1>1, <1>2, PTL DEF Spec

(* What a finished compensation says of itself is so, under the same         *)
(* condition: `applied` if and only if nothing of its plan is left, `partial`*)
(* when all that is left has no inverse (_outcome).                          *)
THEOREM OutcomesAreHonest == ~SlowFailures => (Spec => []OutcomeIsHonest)
  <1>1. OInv => OutcomeIsHonest
    <2> SUFFICES ASSUME OInv, NEW c \in DOMAIN comps
                 PROVE  LET left == DOMAIN comps[c].items \ Undone(comps[c].run) IN
                        /\ comps[c].status = "applied" => left = {}
                        /\ comps[c].status = "partial" =>
                             left # {} /\ \A n \in left : ~HasInverse(comps[c].run, n)
      BY DEF OutcomeIsHonest
    <2> DEFINE r == comps[c].run
    <2>1. comps[c] \in CompRecord /\ CompTypes
      BY ElementOfSeq, LenProperties DEF OInv, IInv, Types, CompTypes
    <2>2. r \in Runs /\ DOMAIN comps[c].items \subseteq Nat
      BY <2>1, Parts
    <2>3. \A n \in DOMAIN comps[c].items : n \in Undone(r) <=> Reverted(r, n)
      BY <2>2 DEF OInv, IInv, Agrees
    <2>4. \A n \in DOMAIN comps[c].items :
            /\ comps[c].items[n] = "reverted" => Reverted(r, n)
            /\ Reverted(r, n) => HasInverse(r, n)
      BY DEF Reverted, OInv, WellToldAll, WellTold
    <2>5. WellTold(comps[c])
      BY DEF OInv, WellToldAll
    <2>6. \A n \in DOMAIN comps[c].items : comps[c].items[n] \in ItemStatuses
      BY <2>1, ItemStatus
    <2> HIDE DEF r
    <2>7. comps[c].run = r
      BY DEF r
    <2> QED BY <2>3, <2>4, <2>5, <2>6, <2>7 DEF WellTold, ItemStatuses
  <1> QED BY OInvHolds, <1>1, PTL

-----------------------------------------------------------------------------
(* Walking a run back keeps its promise, and the ticket shows it.            *)
(*                                                                           *)
(* A plan holds every act that left an effect and is not taken back yet, and *)
(* no act can be added once it may be drawn up (PlansCover); so does the     *)
(* compensation made of it (CompsCover).  A worker has the newest open item  *)
(* in its hands (NewestInHand), so that what is newer was taken back         *)
(* already: acts are taken back newest first (NewestGoneFirst), and each     *)
(* such step is a TakeBack of WalkBack.                                      *)
(*                                                                           *)
(* The ticket: an inverse holds the value the acts before it left            *)
(* (Captured), and what is taken back is always the newest that is left.     *)

(* Acts with an inverse are ones that went well and change something. *)
LedgerSound ==
  \A r \in Runs : \A n \in Effects(r) : ledger[r][n].ok /\ ledger[r][n].risk = "reversible"
CompsCover ==
  \A c \in DOMAIN comps :
    LET r == comps[c].run IN
    r \in ended /\ Effects(r) \subseteq DOMAIN comps[c].items \cup Undone(r)
PlansCover ==
  \A r \in Runs : drawn[r] # NoPlan =>
    r \in ended /\ Effects(r) \subseteq drawn[r] \cup Undone(r)
NewestInHand ==
  \A w \in Workers : pc[w] \in WithItem => \A m \in Pending(comp[w]) : m <= item[w]
NewestGoneFirst ==
  \A r \in Runs : \A n \in Undone(r) : \A m \in Effects(r) : m > n => m \in Undone(r)

WInv == OInv /\ LedgerSound /\ CompsCover /\ PlansCover /\ NewestInHand /\ NewestGoneFirst

-----------------------------------------------------------------------------
(* What one step does to the ledger, the plans and the compensations.        *)

(* A row of the agent: without an inverse, with a field's, or a note's.      *)
AddsNothing(r) ==
  \E row : row.inverse = <<>> /\ Record(r, row) /\ UNCHANGED <<ticket, notes>>
AddsField(r) == \E f \in Fields : \E value : ChangeField(r, f, value)
(* An act of the agent adds one of the three kinds of row.                  *)
LEMMA ActKinds ==
  ASSUME NEW r \in Runs, Act(r)
  PROVE  AddsNothing(r) \/ AddsField(r) \/ AddNote(r)
  <1>1. ASSUME NEW risk, NEW ok, ChangeNothing(r, risk, ok) PROVE AddsNothing(r)
    <2>1. Row(risk, ok, <<>>, {}).inverse = <<>>
      BY DEF Row
    <2> QED BY <1>1, <2>1 DEF ChangeNothing, AddsNothing
  <1>2. ASSUME NEW f \in Fields, NEW value, SetField(r, f, value)
        PROVE  AddsNothing(r) \/ AddsField(r)
    BY <1>1, <1>2 DEF SetField, AddsField
  <1>3. ASSUME ToolFails(r) PROVE AddsNothing(r)
    BY <1>1, <1>3 DEF ToolFails
  <1>4. ASSUME NEW call, Handle(r, call) PROVE AddsNothing(r) \/ AddsField(r) \/ AddNote(r)
    BY <1>1, <1>2, <1>4 DEF Handle, AddsField, Fields
  <1> QED BY <1>3, <1>4 DEF Act

(* One more row leaves the earlier ones and the other runs alone.            *)
LEMMA OneMoreRow ==
  ASSUME Types, NEW r \in Runs, NEW row, Record(r, row), Len(ledger[r]) < MaxActs,
         NEW n, n = Len(ledger[r]) + 1
  PROVE  /\ n \in 1..MaxActs /\ \A m \in DOMAIN ledger[r] : m \in Nat /\ m < n
         /\ DOMAIN ledger'[r] = DOMAIN ledger[r] \cup {n} /\ ledger'[r][n] = row
         /\ \A m \in DOMAIN ledger[r] : ledger'[r][m] = ledger[r][m]
         /\ \A q \in Runs \ {r} : ledger'[q] = ledger[q]
         /\ \A q \in Runs \ {r} : Effects(q)' = Effects(q)
         /\ Effects(r)' = Effects(r) \cup (IF row.inverse = <<>> THEN {} ELSE {n})
  <1>1. /\ ledger'[r] = Append(ledger[r], row) /\ \A q \in Runs \ {r} : ledger'[q] = ledger[q]
    BY DEF Record, Types, LedgerTypes
  <1>2. PICK S : ledger[r] \in Seq(S)
    BY DEF Types, LedgerTypes, IsSeq
  <1>3. ledger[r] \in Seq(S \cup {row}) /\ row \in S \cup {row}
    BY <1>2
  <1>4. /\ Len(ledger[r]) \in Nat /\ DOMAIN ledger[r] = 1..Len(ledger[r])
        /\ Len(ledger'[r]) = Len(ledger[r]) + 1 /\ DOMAIN ledger'[r] = 1..Len(ledger'[r])
        /\ \A m \in 1..Len(ledger[r]) : ledger'[r][m] = ledger[r][m]
        /\ ledger'[r][Len(ledger[r]) + 1] = row
    BY <1>1, <1>3, AppendProperties, LenProperties
  <1>5. DOMAIN ledger'[r] = DOMAIN ledger[r] \cup {n}
    BY <1>4
  <1>6. n \in 1..MaxActs /\ \A m \in DOMAIN ledger[r] : m \in Nat /\ m < n
    BY <1>4, BoundsAssumption
  <1>7. \A q \in Runs \ {r} : Effects(q)' = Effects(q)
    BY <1>1 DEF Effects, HasInverse
  <1>8. Effects(r)' = Effects(r) \cup (IF row.inverse = <<>> THEN {} ELSE {n})
    BY <1>4, <1>5 DEF Effects, HasInverse
  <1> QED BY <1>1, <1>4, <1>5, <1>6, <1>7, <1>8

(* Compensations keep their run and their acts; one is added of a plan.      *)
CompsFixed ==
  /\ DOMAIN comps' = DOMAIN comps
  /\ \A c \in DOMAIN comps : /\ comps'[c].run = comps[c].run
                             /\ DOMAIN comps'[c].items = DOMAIN comps[c].items
CompAdded(r) ==
  /\ drawn[r] # NoPlan
  /\ \E new : /\ new \notin DOMAIN comps /\ DOMAIN comps' = DOMAIN comps \cup {new}
              /\ comps'[new].run = r /\ DOMAIN comps'[new].items = drawn[r]
  /\ \A c \in DOMAIN comps : comps'[c] = comps[c]
PlansDropped == \A r \in Runs : drawn'[r] \in {drawn[r], NoPlan}
LedgerAside == UNCHANGED <<ledger, ended, undone>>

(* A worker's steps change no run's plan and no compensation's acts.         *)
LEMMA WorkFixes ==
  ASSUME Types, InHand, ~SlowFailures, NEW w \in Workers, Work(w) \/ Crash(w)
  PROVE  /\ CompsFixed /\ UNCHANGED <<ledger, ended, drawn>>
         /\ ~ApplyCommit(w) => UNCHANGED undone
  <1>1. Moves(w)
    BY WorkMoves
  <1>2. CompsFixed /\ UNCHANGED <<ledger, drawn>>
    BY <1>1, ChangesEffect DEF Moves, CompsFixed, Types
  <1>3. UNCHANGED ended
    BY DEF Work, Crash, Claim, LeaseLost, GiveUp, Complete, Report, BeginRevert, ApplyCommit,
           ClaimRefused, ApplyFails, RecordFailure, world
  <1>4. ~ApplyCommit(w) => UNCHANGED undone
    BY WorkKeepsMarks DEF MarksKept
  <1> QED BY <1>2, <1>3, <1>4

(* A request that loses the race for the run's one compensation changes      *)
(* nothing; the winner's compensation has the acts of its plan.              *)
LEMMA InsertKinds ==
  ASSUME Types, NEW r \in Runs, Insert(r)
  PROVE  /\ CompAdded(r) \/ CompsFixed
         /\ PlansDropped /\ LedgerAside
  <1>1. PlansDropped /\ LedgerAside
    BY DEF Insert, world, PlansDropped, LedgerAside, Types, PlanTypes
  <1>2. CASE UNCHANGED comps
    BY <1>1, <1>2 DEF CompsFixed
  <1>3. CASE comps' = Append(comps, Fresh(r, drawn[r]))
    <2> DEFINE x == Fresh(r, drawn[r])
               new == Len(comps) + 1
    <2>1. x.run = r /\ DOMAIN x.items = drawn[r]
      BY DEF Fresh
    <2> HIDE DEF x
    <2>2. comps \in Seq(CompRecord \cup {x}) /\ x \in CompRecord \cup {x}
      BY DEF Types, CompTypes
    <2>3. /\ Len(comps) \in Nat /\ DOMAIN comps = 1..Len(comps)
          /\ Len(comps') = Len(comps) + 1 /\ DOMAIN comps' = 1..Len(comps')
          /\ \A c \in 1..Len(comps) : comps'[c] = comps[c]
          /\ comps'[Len(comps) + 1] = x
      BY <1>3, <2>2, AppendProperties, LenProperties DEF x
    <2>4. new \notin DOMAIN comps /\ DOMAIN comps' = DOMAIN comps \cup {new} /\ comps'[new] = x
      BY <2>3
    <2> HIDE DEF new
    <2> QED BY <1>1, <2>1, <2>3, <2>4 DEF CompAdded, Insert
  <1> QED BY <1>1, <1>2, <1>3 DEF Insert

(* The kinds of steps the argument tells apart.                              *)
LEMMA StepKinds ==
  ASSUME OInv, ~SlowFailures, [Next]_vars
  PROVE  \/ \E r \in Runs : Act(r)
         \/ \E r \in Runs : End(r)
         \/ \E r \in Runs : DrawUp(r)
         \/ \E r \in Runs : CompAdded(r) /\ PlansDropped /\ LedgerAside
         \/ \E w \in Workers : ApplyCommit(w)
         \/ CompsFixed /\ PlansDropped /\ LedgerAside
  <1>1. Types /\ InHand
    BY DEF OInv, IInv
  <1>2. CASE UNCHANGED <<ledger, ended, drawn, comps, undone>>
    BY <1>2 DEF CompsFixed, PlansDropped, LedgerAside
  <1>3. ASSUME NEW w \in Workers, Work(w) \/ Crash(w)
        PROVE  ApplyCommit(w) \/ (CompsFixed /\ PlansDropped /\ LedgerAside)
    BY <1>1, <1>3, WorkFixes DEF PlansDropped, LedgerAside
  <1>4. ASSUME NEW c \in 1..MaxComps, LeaseExpires(c)
        PROVE  CompsFixed /\ PlansDropped /\ LedgerAside
    <2>1. c \in DOMAIN comps /\ CompTypes /\ UNCHANGED <<ledger, ended, drawn, undone>>
      BY <1>1, <1>4 DEF LeaseExpires, world, people, Types
    <2>2. Changes(c)
      BY <1>4, <2>1, ExpiredFollows DEF LeaseExpires, Changes
    <2> QED BY <2>1, <2>2, ChangesEffect DEF CompsFixed, PlansDropped, LedgerAside
  <1>5. ASSUME NEW r \in Runs, Preview(r) PROVE UNCHANGED <<ledger, ended, drawn, comps, undone>>
    BY <1>5 DEF Preview, world
  <1>6. CASE RemoveNote \/ UNCHANGED vars
    BY <1>2, <1>6 DEF RemoveNote, vars, people
  <1> QED BY <1>1, <1>2, <1>3, <1>4, <1>5, <1>6, InsertKinds DEF Next

-----------------------------------------------------------------------------
(* What a run's marks say of it.                                             *)
LEMMA UndoneSaid ==
  ASSUME OInv, NEW r \in Runs, NEW n \in Undone(r)
  PROVE  \E c \in DOMAIN comps :
           comps[c].run = r /\ n \in DOMAIN comps[c].items /\ HasInverse(r, n)
  <1>1. n \in Nat
    BY DEF OInv, IInv, Types, UndoneType, Undone
  <1>2. Reverted(r, n)
    BY <1>1 DEF OInv, IInv, Agrees
  <1> QED BY <1>2 DEF Reverted, OInv, WellToldAll, WellTold

(* A run that has not ended has nothing taken back.                          *)
LEMMA NothingGoneBefore ==
  ASSUME OInv, CompsCover, NEW r \in Runs, r \notin ended
  PROVE  Undone(r) = {} /\ \A c \in DOMAIN comps : comps[c].run # r
  BY UndoneSaid DEF CompsCover

(* Acts are numbers, and rows of the ledger.                                 *)
LEMMA ActNumbers ==
  ASSUME Types, NEW r \in Runs
  PROVE  /\ DOMAIN ledger[r] \subseteq 1..MaxActs
         /\ Effects(r) \subseteq DOMAIN ledger[r] /\ Effects(r) \subseteq 1..MaxActs
  BY RowNumbers DEF Effects

(* What a worker commits is the newest act that is left, authorised and not  *)
(* taken back yet.                                                           *)
LEMMA CommitTakesNewest ==
  ASSUME WInv, NEW w \in Workers, ApplyCommit(w)
  PROVE  \E r \in Runs : \E n \in Authorised(r) \ Undone(r) :
           /\ \A m \in Effects(r) : m > n => m \in Undone(r)
           /\ r \in ended /\ n \in 1..MaxActs
           /\ TakenBack(r, n) /\ PutBack(r, n) /\ RowThere(r, n)
           /\ Undone(r)' = Undone(r) \cup {n} /\ \A q \in Runs \ {r} : Undone(q)' = Undone(q)
  <1>1. Types /\ InHand /\ Agrees /\ WellToldAll /\ InverseInHand
    BY DEF WInv, OInv, IInv
  <1>c. PICK c : c = comp[w]
    OBVIOUS
  <1>r. PICK r : r = comps[c].run
    OBVIOUS
  <1>n. PICK n : n = item[w]
    OBVIOUS
  <1> USE <1>c, <1>r, <1>n
  <1>2. pc[w] = "applying" /\ ~Reverted(r, n) /\ TakenBack(r, n) /\ PutBack(r, n) /\ RowThere(r, n)
    BY DEF ApplyCommit, OnceKeyRefuses, TakenBack
  <1>3. c \in DOMAIN comps /\ n \in DOMAIN comps[c].items
    BY <1>1, <1>2 DEF Types, WorkerTypes, WithItem
  <1>4. r \in Runs /\ n \in Nat
    <2>1. comps[c] \in CompRecord
      BY <1>1, <1>3, ElementOfSeq, LenProperties DEF Types, CompTypes
    <2> QED BY <1>3, <2>1, Parts
  <1>5. n \in DOMAIN ledger[r] /\ HasInverse(r, n)
    BY <1>1, <1>2, <1>3 DEF Types, CompTypes, InverseInHand
  <1>6. n \in Authorised(r)
    BY <1>3, <1>5 DEF Authorised, Effects
  <1>7. n \notin Undone(r) /\ n \in 1..MaxActs
    BY <1>1, <1>2, <1>4, <1>5, ActNumbers DEF Agrees
  <1>8. r \in ended
    BY <1>3 DEF WInv, CompsCover
  <1>9. ASSUME NEW m \in Effects(r), m > n, m \notin Undone(r) PROVE FALSE
    <2>1. m \in DOMAIN comps[c].items /\ m \in Nat
      BY <1>1, <1>3, <1>4, <1>9, ActNumbers DEF WInv, CompsCover
    <2>2. comps[c].items[m] # "pending"
      BY <1>2, <1>4, <1>9, <2>1 DEF WInv, NewestInHand, Pending, WithItem
    <2>3. comps[c].status = "running"
      BY <1>1, <1>2 DEF InHand, Held, WithItem
    <2>4. comps[c].items[m] \in {"reverted", "unrevertable"}
      BY <1>1, <1>3, <2>1, <2>2, <2>3, ItemStatus
      DEF Types, WellToldAll, WellTold, ItemStatuses
    <2>5. comps[c].items[m] = "reverted"
      BY <1>1, <1>3, <1>9, <2>1, <2>4 DEF WellToldAll, WellTold, Effects
    <2>6. Reverted(r, m)
      BY <1>3, <2>1, <2>5 DEF Reverted
    <2> QED BY <1>1, <1>4, <1>9, <2>1, <2>6 DEF Agrees
  <1>10. Undone(r)' = Undone(r) \cup {n} /\ \A q \in Runs \ {r} : Undone(q)' = Undone(q)
    BY <1>1, <1>2, <1>4, UndoneAdds DEF Types
  <1> QED BY <1>2, <1>4, <1>6, <1>7, <1>8, <1>9, <1>10

-----------------------------------------------------------------------------
(* The invariant is inductive, conjunct by conjunct.                         *)

(* Every step keeps the ledger sound.                                       *)
LEMMA LedgerSoundKept ==
  ASSUME WInv, ~SlowFailures, [Next]_vars
  PROVE  LedgerSound'
  <1>1. OInv /\ Types
    BY DEF WInv, OInv, IInv
  <1>2. CASE UNCHANGED ledger
    BY <1>2 DEF WInv, LedgerSound, Effects, HasInverse
  <1>3. ASSUME NEW r \in Runs, Act(r) PROVE LedgerSound'
    <2>1. PICK row : /\ Record(r, row)
                     /\ row.inverse # <<>> => row.ok /\ row.risk = "reversible"
      <3>1. \A f, before, value : /\ Did(f, before, value).ok
                                  /\ Did(f, before, value).risk = "reversible"
        BY DEF Did, Row
      <3>2. Row("reversible", TRUE, Puts("notes", {}), {}).ok
            /\ Row("reversible", TRUE, Puts("notes", {}), {}).risk = "reversible"
        BY DEF Row
      <3> QED BY <1>3, <3>1, <3>2, ActKinds DEF AddsNothing, AddsField, ChangeField, AddNote
    <2>2. Len(ledger[r]) < MaxActs
      BY <1>3 DEF Act
    <2> DEFINE n == Len(ledger[r]) + 1
    <2>3. /\ ledger'[r][n] = row
          /\ \A m \in DOMAIN ledger[r] : ledger'[r][m] = ledger[r][m]
          /\ \A q \in Runs \ {r} : ledger'[q] = ledger[q] /\ Effects(q)' = Effects(q)
          /\ Effects(r)' = Effects(r) \cup (IF row.inverse = <<>> THEN {} ELSE {n})
      BY <1>1, <2>1, <2>2, OneMoreRow
    <2> HIDE DEF n
    <2>4. ASSUME NEW q \in Runs, NEW m \in Effects(q)'
          PROVE  ledger'[q][m].ok /\ ledger'[q][m].risk = "reversible"
      <3>1. CASE q # r
        BY <2>3, <3>1 DEF WInv, LedgerSound
      <3>2. CASE q = r /\ m \in Effects(r)
        BY <2>3, <3>2 DEF WInv, LedgerSound, Effects
      <3>3. CASE q = r /\ m \notin Effects(r)
        BY <2>1, <2>3, <2>4, <3>3
      <3> QED BY <3>1, <3>2, <3>3
    <2> QED BY <2>4 DEF LedgerSound
  <1>4. ASSUME NEW w \in Workers, ApplyCommit(w) PROVE UNCHANGED ledger
    BY <1>4 DEF ApplyCommit
  <1> QED BY <1>1, <1>2, <1>3, <1>4, StepKinds DEF LedgerAside, End, DrawUp, world

(* What is covered stays covered while the agent's acts stay as they are and *)
(* more is taken back.                                                       *)
LEMMA StaysCovered ==
  ASSUME WInv, CompsFixed, UNCHANGED ledger, ended \subseteq ended',
         \A r \in Runs : Undone(r) \subseteq Undone(r)'
  PROVE  CompsCover' /\ (PlansDropped => PlansCover')
  <1>1. \A r : Effects(r)' = Effects(r)
    BY DEF Effects, HasInverse
  <1>2. \A c \in DOMAIN comps : comps[c].run \in Runs
    <2> TAKE c \in DOMAIN comps
    <2>1. comps[c] \in CompRecord
      BY ElementOfSeq, LenProperties DEF WInv, OInv, IInv, Types, CompTypes
    <2> QED BY <2>1, Parts
  <1>3. CompsCover'
    BY <1>1, <1>2 DEF WInv, CompsCover, CompsFixed
  <1>4. PlansDropped => PlansCover'
    BY <1>1 DEF WInv, PlansCover, PlansDropped
  <1> QED BY <1>3, <1>4

(* Every step keeps compensations and plans over what was done since.       *)
LEMMA CoversKept ==
  ASSUME WInv, ~SlowFailures, [Next]_vars
  PROVE  CompsCover' /\ PlansCover'
  <1>1. OInv /\ Types /\ InHand /\ Agrees
    BY DEF WInv, OInv, IInv
  <1>2. \A c \in DOMAIN comps : comps[c].run \in Runs
    <2> TAKE c \in DOMAIN comps
    <2>1. comps[c] \in CompRecord
      BY <1>1, ElementOfSeq, LenProperties DEF Types, CompTypes
    <2> QED BY <2>1, Parts
  <1>3. ASSUME NEW r \in Runs, Act(r) PROVE CompsCover' /\ PlansCover'
    <2>1. r \notin ended /\ UNCHANGED <<ended, drawn, comps, undone>> /\ Len(ledger[r]) < MaxActs
      BY <1>3 DEF Act, Working, people
    <2>2. \A q \in Runs \ {r} : Effects(q)' = Effects(q)
      BY <1>1, <1>3, <2>1, ActAppends, OneMoreRow
    <2>3. \A q \in Runs : Undone(q)' = Undone(q)
      BY <2>1 DEF Undone
    <2>4. CompsCover'
      BY <1>2, <2>1, <2>2, <2>3 DEF WInv, CompsCover
    <2>5. PlansCover'
      BY <2>1, <2>2, <2>3 DEF WInv, PlansCover
    <2> QED BY <2>4, <2>5
  <1>4. ASSUME NEW r \in Runs, End(r) PROVE CompsCover' /\ PlansCover'
    <2>1. /\ CompsFixed /\ PlansDropped /\ UNCHANGED <<ledger, undone>> /\ ended \subseteq ended'
      BY <1>4 DEF End, people, CompsFixed, PlansDropped
    <2>2. \A q \in Runs : Undone(q)' = Undone(q)
      BY <2>1 DEF Undone
    <2> QED BY <2>1, <2>2, StaysCovered
  <1>5. ASSUME NEW r \in Runs, DrawUp(r) PROVE CompsCover' /\ PlansCover'
    <2>1. /\ UNCHANGED <<ledger, ended, comps, undone>> /\ r \in ended
          /\ drawn' = [drawn EXCEPT ![r] = Plan(r)]
      BY <1>5 DEF DrawUp, world
    <2>2. \A q \in Runs : Undone(q)' = Undone(q) /\ Effects(q)' = Effects(q)
      BY <2>1 DEF Undone, Effects, HasInverse
    <2>3. CompsCover'
      BY <2>1, <2>2, StaysCovered DEF CompsFixed
    <2>4. Effects(r) \subseteq Plan(r) \cup Undone(r)
      <3> SUFFICES ASSUME NEW n \in Effects(r), n \notin Undone(r) PROVE n \in Plan(r)
        OBVIOUS
      <3>1. n \in DOMAIN ledger[r] /\ HasInverse(r, n) /\ n \in Nat
        BY <1>1, ActNumbers DEF Effects
      <3>2. ~Reverted(r, n)
        BY <1>1, <3>1 DEF Agrees
      <3>3. ledger[r][n].ok /\ ledger[r][n].risk = "reversible"
        BY DEF WInv, LedgerSound
      <3> QED BY <3>1, <3>2, <3>3 DEF Plan
    <2>5. drawn'[r] = Plan(r) /\ \A q \in Runs \ {r} : drawn'[q] = drawn[q]
      BY <1>1, <2>1 DEF Types, PlanTypes
    <2>6. PlansCover'
      BY <2>1, <2>2, <2>4, <2>5 DEF WInv, PlansCover
    <2> QED BY <2>3, <2>6
  <1>6. ASSUME NEW r \in Runs, CompAdded(r), PlansDropped, LedgerAside
        PROVE  CompsCover' /\ PlansCover'
    <2>1. \A q \in Runs : Undone(q)' = Undone(q) /\ Effects(q)' = Effects(q)
      BY <1>6 DEF LedgerAside, Undone, Effects, HasInverse
    <2>2. PlansCover'
      BY <1>6, <2>1 DEF WInv, PlansCover, PlansDropped, LedgerAside
    <2>3. r \in ended /\ Effects(r) \subseteq drawn[r] \cup Undone(r)
      BY <1>6 DEF WInv, PlansCover, CompAdded
    <2>4. CompsCover'
      BY <1>2, <1>6, <2>1, <2>3 DEF WInv, CompsCover, CompAdded, LedgerAside
    <2> QED BY <2>2, <2>4
  <1>7. ASSUME NEW w \in Workers, ApplyCommit(w) PROVE CompsCover' /\ PlansCover'
    <2>1. CompsFixed /\ UNCHANGED <<ledger, ended, drawn>>
      BY <1>1, <1>7, WorkFixes DEF Work
    <2>2. \A q \in Runs : Undone(q) \subseteq Undone(q)'
      BY <1>7, CommitTakesNewest
    <2> QED BY <2>1, <2>2, StaysCovered DEF PlansDropped
  <1>8. ASSUME CompsFixed, PlansDropped, LedgerAside PROVE CompsCover' /\ PlansCover'
    <2>1. \A q \in Runs : Undone(q)' = Undone(q)
      BY <1>8 DEF LedgerAside, Undone
    <2> QED BY <1>8, <2>1, StaysCovered DEF LedgerAside
  <1> QED BY <1>1, <1>3, <1>4, <1>5, <1>6, <1>7, <1>8, StepKinds

(* Every step leaves the newest acts gone first.                            *)
LEMMA NewestGoneFirstKept ==
  ASSUME WInv, ~SlowFailures, [Next]_vars
  PROVE  NewestGoneFirst'
  <1>1. OInv /\ Types /\ InHand
    BY DEF WInv, OInv, IInv
  <1>2. CASE UNCHANGED <<ledger, undone>>
    BY <1>2 DEF WInv, NewestGoneFirst, Undone, Effects, HasInverse
  <1>3. ASSUME NEW r \in Runs, Act(r) PROVE NewestGoneFirst'
    <2>1. r \notin ended /\ UNCHANGED undone /\ Len(ledger[r]) < MaxActs
      BY <1>3 DEF Act, Working
    <2>2. \A q \in Runs \ {r} : Effects(q)' = Effects(q)
      BY <1>1, <1>3, <2>1, ActAppends, OneMoreRow
    <2>3. \A q \in Runs : Undone(q)' = Undone(q)
      BY <2>1 DEF Undone
    <2>4. Undone(r) = {}
      BY <1>1, <2>1, NothingGoneBefore DEF WInv
    <2> QED BY <2>2, <2>3, <2>4 DEF WInv, NewestGoneFirst
  <1>4. ASSUME NEW w \in Workers, ApplyCommit(w) PROVE NewestGoneFirst'
    <2>1. PICK r \in Runs : \E n \in Authorised(r) \ Undone(r) :
            /\ \A m \in Effects(r) : m > n => m \in Undone(r)
            /\ Undone(r)' = Undone(r) \cup {n} /\ \A q \in Runs \ {r} : Undone(q)' = Undone(q)
      BY <1>4, CommitTakesNewest
    <2>2. \A q \in Runs : Effects(q)' = Effects(q)
      BY <1>4 DEF ApplyCommit, Effects, HasInverse
    <2> QED BY <2>1, <2>2 DEF WInv, NewestGoneFirst
  <1> QED BY <1>1, <1>2, <1>3, <1>4, StepKinds DEF LedgerAside, End, DrawUp, world

(* The newest of the pending items is the one a worker takes next.           *)
LEMMA NextPendingIsNewest ==
  ASSUME CompTypes, NEW c \in DOMAIN comps, Pending(c) # {}
  PROVE  \A m \in Pending(c) : m <= NextPending(c)
  <1>1. comps[c] \in CompRecord
    BY ElementOfSeq, LenProperties DEF CompTypes
  <1>2. Pending(c) \in SUBSET (1..MaxActs)
    BY <1>1, Parts DEF Pending
  <1>3. \E n \in Pending(c) : \A m \in Pending(c) : m <= n
    BY <1>2, Newest
  <1> QED BY <1>3 DEF NextPending

(* The item in hand stays the newest that is left.                          *)
LEMMA NewestInHandKept ==
  ASSUME WInv, ~SlowFailures, [Next]_vars
  PROVE  NewestInHand'
  <1>1. Types /\ InHand /\ CompTypes
    BY DEF WInv, OInv, IInv, Types
  <1>2. ASSUME UNCHANGED <<pc, comp, item>>,
               \A c \in DOMAIN comps : comps'[c].items = comps[c].items
        PROVE  NewestInHand'
    BY <1>1, <1>2 DEF WInv, NewestInHand, Pending, WithItem, Types, WorkerTypes
  <1>3. ASSUME NEW w \in Workers, Work(w) \/ Crash(w) PROVE NewestInHand'
    <2>1. Moves(w)
      BY <1>1, <1>3, WorkMoves
    <2> SUFFICES ASSUME NEW v \in Workers, pc'[v] \in WithItem
                 PROVE  \A m \in Pending(comp[v])' : m <= item'[v]
      BY DEF NewestInHand
    <2>2. CASE v # w
      <3>1. /\ pc[v] \in WithItem /\ comp'[v] = comp[v] /\ item'[v] = item[v]
            /\ comp[v] \in DOMAIN comps
        BY <1>1, <2>1, <2>2 DEF Moves, ItsOwn, Types, WorkerTypes, WithItem
      <3>2. comps'[comp[v]] = comps[comp[v]]
        BY <1>1, <2>1, <2>2, <3>1, ChangesEffect DEF Moves, Clear
      <3> QED BY <3>1, <3>2 DEF WInv, NewestInHand, Pending
    <2>3. CASE v = w
      <3>1. BeginRevert(w) \/ ApplyFails(w)
        BY <1>1, <1>3, <2>3
        DEF Work, Crash, Claim, LeaseLost, GiveUp, Complete, Report, ApplyCommit, ClaimRefused,
            RecordFailure, Renews, PutDown, GoTo, WithItem, Types, WorkerTypes
      <3>2. CASE BeginRevert(w)
        <4>1. /\ UNCHANGED comps /\ comp'[w] = comp[w] /\ item'[w] = NextPending(comp[w])
              /\ comp[w] \in DOMAIN comps /\ Pending(comp[w]) # {}
          BY <1>1, <3>2 DEF BeginRevert, Renews, Types, WorkerTypes
        <4> QED BY <1>1, <2>3, <4>1, NextPendingIsNewest DEF Pending
      <3>3. CASE ApplyFails(w)
        BY <2>3, <3>3
        DEF ApplyFails, AfterRollback, WInv, NewestInHand, Pending, WithItem
      <3> QED BY <3>1, <3>2, <3>3
    <2> QED BY <2>2, <2>3
  <1>4. ASSUME NEW c \in 1..MaxComps, LeaseExpires(c) PROVE NewestInHand'
    <2>1. c \in DOMAIN comps /\ UNCHANGED <<ledger, pc, comp, item>>
      BY <1>4 DEF LeaseExpires, world
    <2>2. Changes(c) /\ comps'[c].items = comps[c].items
      BY <1>1, <1>4, <2>1, ExpiredFollows DEF LeaseExpires, Changes
    <2> QED BY <1>1, <1>2, <2>1, <2>2, ChangesEffect
  <1>5. ASSUME NEW r \in Runs, Insert(r) PROVE NewestInHand'
    <2>1. UNCHANGED <<pc, comp, item>>
      BY <1>5 DEF Insert
    <2>2. \A c \in DOMAIN comps : comps'[c] = comps[c]
      <3>1. comps \in Seq(CompRecord \cup {Fresh(r, drawn[r])})
        BY <1>1 DEF CompTypes
      <3> QED BY <1>5, <3>1, AppendProperties, LenProperties DEF Insert
    <2> QED BY <1>2, <2>1, <2>2
  <1>6. ASSUME NEW r \in Runs, Act(r) \/ End(r) \/ Preview(r) \/ DrawUp(r)
        PROVE  NewestInHand'
    BY <1>2, <1>6 DEF Act, End, Preview, DrawUp, people, world
  <1>7. CASE RemoveNote \/ UNCHANGED vars
    BY <1>2, <1>7 DEF RemoveNote, vars, people
  <1> QED BY <1>3, <1>4, <1>5, <1>6, <1>7 DEF Next

(* Nothing was done and nothing is asked for at the start.                  *)
LEMMA InitWInv == Init => WInv
  <1> SUFFICES ASSUME Init PROVE WInv
    OBVIOUS
  <1>1. OInv
    BY InitIInv DEF Init, OInv, WellToldAll, InverseInHand
  <1>2. \A r \in Runs : Effects(r) = {} /\ Undone(r) = {}
    <2>1. \A r \in Runs : ledger[r] = <<>> /\ undone[r] = <<>>
      BY DEF Init
    <2>2. DOMAIN <<>> = {}
      OBVIOUS
    <2> QED BY <2>1, <2>2 DEF Effects, Undone
  <1>3. comps = <<>> /\ \A r \in Runs : drawn[r] = NoPlan
    BY DEF Init
  <1> QED BY <1>1, <1>2, <1>3
      DEF WInv, LedgerSound, CompsCover, PlansCover, NewestInHand, NewestGoneFirst, Init, WithItem

(* The invariant holds in every reachable state.                            *)
LEMMA WInvHolds == ~SlowFailures => (Spec => []WInv)
  <1> SUFFICES ASSUME ~SlowFailures PROVE Spec => []WInv
    OBVIOUS
  <1>1. WInv /\ [Next]_vars => WInv'
    BY NextOInv, LedgerSoundKept, CoversKept, NewestInHandKept, NewestGoneFirstKept DEF WInv
  <1> QED BY InitWInv, <1>1, PTL DEF Spec

-----------------------------------------------------------------------------
(* The promise of WalkBack, step by step.                                    *)

(* An act is authorised by a compensation that has it.                      *)
LEMMA AuthorisedActs ==
  ASSUME NEW r, NEW n
  PROVE  n \in Authorised(r) <=>
           n \in Effects(r) /\ \E c \in DOMAIN comps :
                                 comps[c].run = r /\ n \in DOMAIN comps[c].items
  BY DEF Authorised

(* While acts and plans stay as they are, so does what is authorised.        *)
LEMMA AuthorisedKept ==
  ASSUME NEW r, CompsFixed, Effects(r)' = Effects(r)
  PROVE  Authorised(r)' = Authorised(r)
  BY DEF Authorised, CompsFixed

(* An empty ledger promises nothing yet.                                    *)
LEMMA PromiseInit == Init => Promise!Init
  <1> SUFFICES ASSUME Init PROVE Promise!Init
    OBVIOUS
  <1>1. \A r \in Runs : Effects(r) = {}
    <2>1. \A r \in Runs : ledger[r] = <<>>
      BY DEF Init
    <2>2. DOMAIN <<>> = {}
      OBVIOUS
    <2> QED BY <2>1, <2>2 DEF Effects
  <1>2. \A r \in Runs : Authorised(r) = {}
    BY <1>1 DEF Authorised
  <1> QED BY <1>1, <1>2 DEF Init, Promise!Init

(* An act with an inverse is an act of WalkBack; one without is none.        *)
LEMMA ActPromised ==
  ASSUME WInv, NEW r \in Runs, Act(r)
  PROVE  Promise!Act(r) \/ UNCHANGED Promise!vars
  <1>1. OInv /\ Types /\ CompsCover
    BY DEF WInv, OInv, IInv
  <1>2. r \notin ended /\ UNCHANGED <<ended, comps, undone>> /\ Len(ledger[r]) < MaxActs
    BY DEF Act, Working
  <1>3. PICK row : Record(r, row)
    BY ActAppends
  <1>n. PICK n : n = Len(ledger[r]) + 1
    OBVIOUS
  <1>4. /\ n \in 1..MaxActs /\ \A m \in DOMAIN ledger[r] : m < n
        /\ \A q \in Runs \ {r} : Effects(q)' = Effects(q)
        /\ Effects(r)' = Effects(r) \cup (IF row.inverse = <<>> THEN {} ELSE {n})
    BY <1>1, <1>2, <1>3, <1>n, OneMoreRow
  <1>5. \A q \in Runs : Authorised(q)' = Authorised(q)
    <2>1. Authorised(r) = {} /\ Authorised(r)' = {}
      BY <1>1, <1>2, NothingGoneBefore DEF Authorised
    <2> QED BY <1>2, <1>4, <2>1, AuthorisedKept DEF CompsFixed
  <1>6. [q \in Runs |-> Authorised(q)]' = [q \in Runs |-> Authorised(q)]
    BY <1>5
  <1>7. CASE row.inverse = <<>>
    <2>1. [q \in Runs |-> Effects(q)]' = [q \in Runs |-> Effects(q)]
      BY <1>4, <1>7
    <2> QED BY <1>2, <1>6, <2>1 DEF Promise!vars
  <1>8. CASE row.inverse # <<>>
    <2>1. [q \in Runs |-> Effects(q)]' = [[q \in Runs |-> Effects(q)] EXCEPT ![r] = @ \cup {n}]
      BY <1>4, <1>8
    <2>2. \A m \in [q \in Runs |-> Effects(q)][r] : m < n
      BY <1>4 DEF Effects
    <2> QED BY <1>2, <1>4, <1>6, <2>1, <2>2 DEF Promise!Act
  <1> QED BY <1>7, <1>8

(* A new compensation is a consent to the acts of its plan.                  *)
LEMMA InsertPromised ==
  ASSUME WInv, NEW r \in Runs, CompAdded(r), LedgerAside
  PROVE  Promise!Consent(r)
  <1>1. r \in ended
    BY DEF WInv, PlansCover, CompAdded
  <1>2. \A q \in Runs : Effects(q)' = Effects(q)
    BY DEF LedgerAside, Effects, HasInverse
  <1>S. PICK S : S = Effects(r) \cap drawn[r]
    OBVIOUS
  <1>3. Authorised(r)' = Authorised(r) \cup S
    <2>1. ASSUME NEW n
          PROVE  (n \in Effects(r)' /\ \E c \in DOMAIN comps' :
                    comps'[c].run = r /\ n \in DOMAIN comps'[c].items)
                 <=> n \in Authorised(r) \/ n \in S
      BY <1>2, <1>S, AuthorisedActs DEF CompAdded
    <2>2. \A n : n \in Authorised(r)' <=> n \in Authorised(r) \/ n \in S
      BY <2>1 DEF Authorised
    <2> QED BY <2>2
  <1>4. \A q \in Runs \ {r} : Authorised(q)' = Authorised(q)
    <2> TAKE q \in Runs \ {r}
    <2>1. \A n : n \in Authorised(q)' <=> n \in Authorised(q)
      BY <1>2 DEF Authorised, CompAdded
    <2> QED BY <2>1
  <1>5. [q \in Runs |-> Authorised(q)]' = [[q \in Runs |-> Authorised(q)] EXCEPT ![r] = @ \cup S]
    BY <1>3, <1>4
  <1>6. S \in SUBSET ([q \in Runs |-> Effects(q)][r])
    BY <1>S
  <1>7. [q \in Runs |-> Effects(q)]' = [q \in Runs |-> Effects(q)]
    BY <1>2
  <1> QED BY <1>1, <1>5, <1>6, <1>7 DEF Promise!Consent, LedgerAside

(* A committed inverse takes back the newest act that is left.               *)
LEMMA CommitPromised ==
  ASSUME WInv, ~SlowFailures, NEW w \in Workers, ApplyCommit(w)
  PROVE  \E r \in Runs : Promise!TakeBack(r)
  <1>1. Types /\ InHand
    BY DEF WInv, OInv, IInv
  <1>2. CompsFixed /\ UNCHANGED <<ledger, ended, drawn>>
    BY <1>1, WorkFixes DEF Work
  <1>3. \A q \in Runs : Effects(q)' = Effects(q)
    BY <1>2 DEF Effects, HasInverse
  <1>4. [q \in Runs |-> Effects(q)]' = [q \in Runs |-> Effects(q)]
    BY <1>3
  <1>5. [q \in Runs |-> Authorised(q)]' = [q \in Runs |-> Authorised(q)]
    BY <1>2, <1>3, AuthorisedKept
  <1>6. PICK r \in Runs : \E n \in Authorised(r) \ Undone(r) :
          (\A m \in Effects(r) : m > n => m \in Undone(r)) /\ TakenBack(r, n)
    BY CommitTakesNewest
  <1>7. Promise!Done(r) = Undone(r)
    BY DEF Promise!Done, Undone
  <1>8. Promise!TakeBack(r)
    BY <1>2, <1>4, <1>5, <1>6, <1>7 DEF Promise!TakeBack, TakenBack
  <1> QED BY <1>8

(* A run is walked back only once it has ended, only as far as somebody      *)
(* authorised, newest act first, each act once, for any runs, workers, calls *)
(* and bounds: every step is one of WalkBack's or none (plan, advance and    *)
(* compensation_items_once_key), if every failure is recorded before the     *)
(* lease that went with it runs out.                                         *)
THEOREM CompensationKeepsThePromise == ~SlowFailures => (Spec => ImplementsWalkBack)
  <1> SUFFICES ASSUME ~SlowFailures PROVE Spec => ImplementsWalkBack
    OBVIOUS
  <1>1. WInv /\ [Next]_vars => [Promise!Next]_Promise!vars
    <2> SUFFICES ASSUME WInv, [Next]_vars PROVE [Promise!Next]_Promise!vars
      OBVIOUS
    <2>1. ASSUME CompsFixed, UNCHANGED <<ledger, undone>>
          PROVE  /\ [q \in Runs |-> Effects(q)]' = [q \in Runs |-> Effects(q)]
                 /\ [q \in Runs |-> Authorised(q)]' = [q \in Runs |-> Authorised(q)]
      <3>1. \A q \in Runs : Effects(q)' = Effects(q)
        BY <2>1 DEF Effects, HasInverse
      <3> QED BY <2>1, <3>1, AuthorisedKept
    <2>2. ASSUME NEW r \in Runs, End(r) PROVE Promise!Close(r)
      <3>1. CompsFixed /\ UNCHANGED <<ledger, undone>> /\ ended' = ended \cup {r}
        BY <2>2 DEF End, CompsFixed
      <3> QED BY <2>1, <3>1 DEF Promise!Close
    <2>3. ASSUME NEW r \in Runs, DrawUp(r) PROVE UNCHANGED Promise!vars
      <3>1. CompsFixed /\ UNCHANGED <<ledger, undone, ended>>
        BY <2>3 DEF DrawUp, world, CompsFixed
      <3> QED BY <2>1, <3>1 DEF Promise!vars
    <2>4. ASSUME CompsFixed, LedgerAside PROVE UNCHANGED Promise!vars
      BY <2>1, <2>4 DEF Promise!vars, LedgerAside
    <2> QED
      BY <2>2, <2>3, <2>4, StepKinds, ActPromised, InsertPromised, CommitPromised
      DEF WInv, Promise!Next
  <1> QED BY PromiseInit, WInvHolds, <1>1, PTL DEF Spec, ImplementsWalkBack, Promise!Spec

-----------------------------------------------------------------------------
(* The ticket, when all its acts are one run's.                              *)

(* The acts on a field, those that are left, and those before an act; what a *)
(* field shows after a set of acts.                                          *)
On(r, f) == {n \in Effects(r) : ledger[r][n].inverse[1].field = f}
Left(r, f) == On(r, f) \ Undone(r)
Before(r, f, n) == {m \in On(r, f) : m < n}
Shows(rows, acts, f, value) ==
  \/ acts = {} /\ value = Initial[f]
  \/ \E n \in acts : (\A m \in acts : m <= n) /\ value = rows[n].after

Captured(r) ==
  \A f \in Fields : \A n \in On(r, f) :
    Shows(ledger[r], Before(r, f, n), f, ledger[r][n].inverse[1].value)
TicketShows(r) ==
  /\ ticket = [f \in Fields |-> ticket[f]]
  /\ \A f \in Fields : Shows(ledger[r], Left(r, f), f, ticket[f])
NotesOf(r) == {<<r, n>> : n \in Left(r, "notes")}
NotesShow(r) == notes \subseteq NotesOf(r) /\ (PeopleEdit \/ notes = NotesOf(r))
TInv == WInv /\ \A r \in Runs : Captured(r) /\ TicketShows(r) /\ NotesShow(r)

(* The newest act is what a field shows.                                     *)
LEMMA NewestShows ==
  ASSUME NEW rows, NEW acts \in SUBSET Nat, NEW n \in Nat, NEW f, \A m \in acts : m < n
  PROVE  Shows(rows, acts \cup {n}, f, rows[n].after)
  <1>1. n \in acts \cup {n} /\ \A m \in acts \cup {n} : m <= n
    OBVIOUS
  <1> QED BY <1>1 DEF Shows

(* Later rows do not change what earlier acts show.                          *)
LEMMA ShowsStill ==
  ASSUME NEW rows, NEW more, NEW acts, NEW f, NEW value,
         \A n \in acts : more[n] = rows[n], Shows(rows, acts, f, value)
  PROVE  Shows(more, acts, f, value)
  BY DEF Shows

(* An act with an inverse joins the acts on its field, and no other's.       *)
LEMMA OneMoreAct ==
  ASSUME Types, NEW r \in Runs, NEW row, Record(r, row), Len(ledger[r]) < MaxActs,
         NEW n, n = Len(ledger[r]) + 1, row.inverse # <<>>,
         NEW f, f = row.inverse[1].field
  PROVE  /\ On(r, f)' = On(r, f) \cup {n} /\ \A g : g # f => On(r, g)' = On(r, g)
         /\ \A g : \A m \in On(r, g) : m \in Nat /\ m < n /\ ledger'[r][m] = ledger[r][m]
         /\ n \in 1..MaxActs /\ ledger'[r][n] = row
  <1>1. /\ n \in 1..MaxActs /\ \A m \in DOMAIN ledger[r] : m \in Nat /\ m < n
        /\ ledger'[r][n] = row
        /\ \A m \in DOMAIN ledger[r] : ledger'[r][m] = ledger[r][m]
        /\ Effects(r)' = Effects(r) \cup {n}
    BY OneMoreRow
  <1>2. \A m \in Effects(r) : m \in DOMAIN ledger[r]
    BY DEF Effects
  <1>3. \A g : \A m : m \in On(r, g)' <=> m \in On(r, g) \/ (m = n /\ g = f)
    BY <1>1, <1>2 DEF On
  <1>4. On(r, f)' = On(r, f) \cup {n}
    BY <1>3
  <1>5. \A g : g # f => On(r, g)' = On(r, g)
    <2> SUFFICES ASSUME NEW g, g # f PROVE On(r, g)' = On(r, g)
      OBVIOUS
    <2>1. \A m : m \in On(r, g)' <=> m \in On(r, g)
      BY <1>3
    <2> QED BY <2>1
  <1>6. \A g : \A m \in On(r, g) : m \in Nat /\ m < n /\ ledger'[r][m] = ledger[r][m]
    BY <1>1, <1>2 DEF On
  <1> QED BY <1>1, <1>4, <1>5, <1>6

(* A row without an inverse joins none.                                      *)
LEMMA OneMoreRead ==
  ASSUME Types, NEW r \in Runs, AddsNothing(r), Len(ledger[r]) < MaxActs
  PROVE  /\ \A g : On(r, g)' = On(r, g)
         /\ \A m \in Effects(r) : ledger'[r][m] = ledger[r][m]
         /\ UNCHANGED <<ticket, notes>>
  <1>1. PICK row : row.inverse = <<>> /\ Record(r, row) /\ UNCHANGED <<ticket, notes>>
    BY DEF AddsNothing
  <1>n. PICK n : n = Len(ledger[r]) + 1
    OBVIOUS
  <1>2. /\ \A m \in DOMAIN ledger[r] : ledger'[r][m] = ledger[r][m]
        /\ Effects(r)' = Effects(r)
    <2>1. Record(r, row)
      BY <1>1
    <2>2. /\ \A m \in DOMAIN ledger[r] : ledger'[r][m] = ledger[r][m]
          /\ Effects(r)' = Effects(r) \cup (IF row.inverse = <<>> THEN {} ELSE {n})
      BY <1>n, <2>1, OneMoreRow
    <2> QED BY <1>1, <2>2
  <1>3. \A m \in Effects(r) : ledger'[r][m] = ledger[r][m]
    BY <1>2 DEF Effects
  <1>4. \A g : On(r, g)' = On(r, g)
    BY <1>2, <1>3 DEF On
  <1> QED BY <1>1, <1>3, <1>4

(* What the inverses hold stays captured when an act on f captures what the  *)
(* field shows.                                                              *)
LEMMA CapturedByAct ==
  ASSUME TInv, NEW r \in Runs, NEW row, Record(r, row), Len(ledger[r]) < MaxActs,
         row.inverse # <<>>, NEW f, f = row.inverse[1].field, Undone(r) = {},
         f \in Fields => row.inverse[1].value = ticket[f]
  PROVE  Captured(r)'
  <1>1. Types
    BY DEF TInv, WInv, OInv, IInv
  <1>n. PICK n : n = Len(ledger[r]) + 1
    OBVIOUS
  <1>2. /\ On(r, f)' = On(r, f) \cup {n} /\ \A g : g # f => On(r, g)' = On(r, g)
        /\ \A g : \A m \in On(r, g) : m \in Nat /\ m < n /\ ledger'[r][m] = ledger[r][m]
        /\ n \in 1..MaxActs /\ ledger'[r][n] = row
    BY <1>1, <1>n, OneMoreAct
  <1> SUFFICES ASSUME NEW g \in Fields, NEW m \in On(r, g)'
               PROVE  Shows(ledger'[r], Before(r, g, m)', g, ledger'[r][m].inverse[1].value)
    BY DEF Captured
  <1>3. CASE m \in On(r, g)
    <2>1. Shows(ledger[r], Before(r, g, m), g, ledger[r][m].inverse[1].value)
      BY <1>3 DEF TInv, Captured
    <2>2. \A k \in Before(r, g, m) : ledger'[r][k] = ledger[r][k]
      BY <1>2 DEF Before
    <2>3. Before(r, g, m)' = Before(r, g, m)
      <3>1. \A k \in On(r, g)' : k < m => k \in On(r, g)
        BY <1>2, <1>3
      <3>2. \A k \in On(r, g) : k \in On(r, g)'
        BY <1>2
      <3> QED BY <3>1, <3>2 DEF Before
    <2> QED BY <1>2, <1>3, <2>1, <2>2, <2>3, ShowsStill
  <1>4. CASE m \notin On(r, g)
    <2>1. g = f /\ m = n /\ ledger'[r][m].inverse[1].value = ticket[f]
      BY <1>2, <1>4
    <2>2. Before(r, g, m)' = On(r, f)
      <3>1. \A k \in On(r, f)' : k < n => k \in On(r, f)
        BY <1>2
      <3>2. \A k \in On(r, f) : k \in On(r, f)' /\ k < n
        BY <1>2
      <3> QED BY <2>1, <3>1, <3>2 DEF Before
    <2>3. Shows(ledger[r], On(r, f), f, ticket[f])
      BY <2>1 DEF TInv, TicketShows, Left
    <2> QED BY <1>2, <2>1, <2>2, <2>3, ShowsStill
  <1> QED BY <1>3, <1>4

(* The agent's steps.                                                        *)
LEMMA TicketAct ==
  ASSUME TInv, NEW r \in Runs, Act(r)
  PROVE  Captured(r)' /\ TicketShows(r)' /\ NotesShow(r)'
  <1>1. Types /\ OInv /\ CompsCover
    BY DEF TInv, WInv, OInv, IInv
  <1>2. r \notin ended /\ UNCHANGED undone /\ Len(ledger[r]) < MaxActs
    BY DEF Act, Working
  <1>3. Undone(r) = {} /\ Undone(r)' = {}
    BY <1>1, <1>2, NothingGoneBefore DEF Undone
  <1>n. PICK n : n = Len(ledger[r]) + 1
    OBVIOUS
  <1>4. \A g : Left(r, g) = On(r, g) /\ Left(r, g)' = On(r, g)'
    BY <1>3 DEF Left
  <1>5. CASE AddsNothing(r)
    <2>1. /\ \A g : On(r, g)' = On(r, g) /\ \A m \in On(r, g) : ledger'[r][m] = ledger[r][m]
          /\ UNCHANGED <<ticket, notes>>
      BY <1>1, <1>2, <1>5, OneMoreRead DEF On
    <2>2. ASSUME NEW f \in Fields, NEW m \in On(r, f)'
          PROVE  Shows(ledger'[r], Before(r, f, m)', f, ledger'[r][m].inverse[1].value)
      <3>1. Before(r, f, m)' = Before(r, f, m) /\ m \in On(r, f)
        BY <2>1, <2>2 DEF Before
      <3>2. Shows(ledger[r], Before(r, f, m), f, ledger[r][m].inverse[1].value)
        BY <3>1 DEF TInv, Captured
      <3>3. \A k \in Before(r, f, m) : ledger'[r][k] = ledger[r][k]
        BY <2>1 DEF Before
      <3> QED BY <2>1, <3>1, <3>2, <3>3, ShowsStill
    <2>3. ASSUME NEW f \in Fields PROVE Shows(ledger'[r], Left(r, f)', f, ticket'[f])
      <3>1. Shows(ledger[r], On(r, f), f, ticket[f])
        BY <1>4 DEF TInv, TicketShows
      <3> QED BY <1>4, <2>1, <3>1, ShowsStill
    <2>4. NotesOf(r)' = NotesOf(r)
      BY <1>4, <2>1 DEF NotesOf
    <2> QED BY <2>1, <2>2, <2>3, <2>4 DEF Captured, TicketShows, NotesShow, TInv
  <1>6. ASSUME NEW f \in Fields, NEW value, ChangeField(r, f, value)
        PROVE  Captured(r)' /\ TicketShows(r)' /\ NotesShow(r)'
    <2>r. PICK row : row = Did(f, ticket[f], value)
      OBVIOUS
    <2>1. /\ Record(r, row) /\ UNCHANGED notes /\ ticket' = [ticket EXCEPT ![f] = value]
          /\ row.inverse # <<>> /\ row.inverse[1].field = f
          /\ row.inverse[1].value = ticket[f] /\ row.after = value
      BY <1>6, <2>r DEF ChangeField, Did, Row, Puts
    <2>2. Captured(r)'
      BY <1>2, <1>3, <2>1, CapturedByAct
    <2>3. /\ On(r, f)' = On(r, f) \cup {n} /\ \A g : g # f => On(r, g)' = On(r, g)
          /\ \A g : \A m \in On(r, g) : m \in Nat /\ m < n /\ ledger'[r][m] = ledger[r][m]
          /\ n \in 1..MaxActs /\ ledger'[r][n] = row
      BY <1>1, <1>2, <1>n, <2>1, OneMoreAct
    <2>4. /\ ticket' = [g \in Fields |-> ticket'[g]] /\ ticket'[f] = value
          /\ \A g \in Fields \ {f} : ticket'[g] = ticket[g]
      BY <2>1 DEF TInv, TicketShows
    <2>5. ASSUME NEW g \in Fields PROVE Shows(ledger'[r], Left(r, g)', g, ticket'[g])
      <3>1. CASE g = f
        <4>1. On(r, f) \in SUBSET Nat /\ n \in Nat
          BY <2>3
        <4>2. Shows(ledger'[r], On(r, f) \cup {n}, f, ledger'[r][n].after)
          BY <2>3, <4>1, NewestShows
        <4>3. Left(r, f)' = On(r, f) \cup {n} /\ ticket'[f] = ledger'[r][n].after
          BY <1>4, <2>1, <2>3, <2>4
        <4> QED BY <3>1, <4>2, <4>3
      <3>2. CASE g # f
        <4>1. Shows(ledger[r], On(r, g), g, ticket[g])
          BY <1>4 DEF TInv, TicketShows
        <4>2. Shows(ledger'[r], On(r, g), g, ticket[g])
          BY <2>3, <4>1, ShowsStill
        <4> QED BY <1>4, <2>3, <2>4, <3>2, <4>2
      <3> QED BY <3>1, <3>2
    <2>6. NotesOf(r)' = NotesOf(r)
      <3>1. "notes" # f
        BY DEF Fields
      <3> QED BY <1>4, <2>3, <3>1 DEF NotesOf
    <2> QED BY <2>1, <2>2, <2>4, <2>5, <2>6 DEF TicketShows, NotesShow, TInv
  <1>7. CASE AddNote(r)
    <2>r. PICK row : row = Row("reversible", TRUE, Puts("notes", {}), {})
      OBVIOUS
    <2>1. /\ Record(r, row) /\ UNCHANGED ticket /\ notes' = notes \cup {<<r, n>>}
          /\ row.inverse # <<>> /\ row.inverse[1].field = "notes"
      BY <1>7, <1>n, <2>r DEF AddNote, Row, Puts, Me
    <2>f. PICK f : f = "notes"
      OBVIOUS
    <2>2. f \notin Fields
      BY <2>f DEF Fields
    <2>3. Captured(r)'
      BY <1>2, <1>3, <2>1, <2>f, <2>2, CapturedByAct
    <2>4. /\ On(r, f)' = On(r, f) \cup {n} /\ \A g : g # f => On(r, g)' = On(r, g)
          /\ \A g : \A m \in On(r, g) : m \in Nat /\ m < n /\ ledger'[r][m] = ledger[r][m]
      BY <1>1, <1>2, <1>n, <2>1, <2>f, OneMoreAct
    <2>5. ASSUME NEW g \in Fields PROVE Shows(ledger'[r], Left(r, g)', g, ticket'[g])
      <3>1. Shows(ledger[r], On(r, g), g, ticket[g])
        BY <1>4 DEF TInv, TicketShows
      <3>2. Shows(ledger'[r], On(r, g), g, ticket[g])
        BY <2>4, <3>1, ShowsStill
      <3> QED BY <1>4, <2>1, <2>2, <2>4, <3>2
    <2>6. NotesOf(r)' = NotesOf(r) \cup {<<r, n>>}
      BY <1>4, <2>f, <2>4 DEF NotesOf
    <2> QED BY <2>1, <2>3, <2>5, <2>6 DEF TicketShows, NotesShow, TInv
  <1> QED BY <1>5, <1>6, <1>7, ActKinds DEF AddsField

(* What is left on a field when an act on it has been taken back are the     *)
(* acts before it, and what its inverse put back is what they show.          *)
LEMMA TicketCommit ==
  ASSUME TInv, NEW w \in Workers, ApplyCommit(w), NEW r, Runs = {r}
  PROVE  Captured(r)' /\ TicketShows(r)' /\ NotesShow(r)'
  <1>1. Types /\ WInv
    BY DEF TInv, WInv, OInv, IInv
  <1>2. PICK n \in Authorised(r) \ Undone(r) :
          /\ \A m \in Effects(r) : m > n => m \in Undone(r)
          /\ n \in 1..MaxActs /\ PutBack(r, n) /\ Undone(r)' = Undone(r) \cup {n}
    BY <1>1, CommitTakesNewest
  <1>3. UNCHANGED ledger /\ r \in Runs
    BY DEF ApplyCommit
  <1>4. n \in Effects(r) /\ Effects(r)' = Effects(r) /\ Effects(r) \subseteq 1..MaxActs
    BY <1>1, <1>2, <1>3, ActNumbers DEF Authorised, Effects, HasInverse
  <1>5. \A g : On(r, g)' = On(r, g)
    BY <1>3, <1>4 DEF On
  <1>f. PICK f : f = ledger[r][n].inverse[1].field
    OBVIOUS
  <1>6. n \in On(r, f) /\ \A g : g # f => n \notin On(r, g)
    BY <1>4, <1>f DEF On
  <1>7. \A g : g # f => Left(r, g)' = Left(r, g)
    BY <1>2, <1>5, <1>6 DEF Left
  <1>8. Captured(r)'
    BY <1>3, <1>5 DEF TInv, Captured, Before
  <1>9. CASE f = "notes"
    <2>1. notes' = notes \ {<<r, n>>} /\ UNCHANGED ticket
      BY <1>2, <1>f, <1>9 DEF PutBack
    <2>2. TicketShows(r)'
      BY <1>3, <1>7, <1>9, <2>1 DEF TInv, TicketShows, Fields
    <2>3. NotesOf(r)' = NotesOf(r) \ {<<r, n>>}
      <3>1. Left(r, "notes")' = Left(r, "notes") \ {n}
        BY <1>2, <1>5, <1>9 DEF Left
      <3> QED BY <3>1 DEF NotesOf
    <2> QED BY <1>3, <1>8, <2>1, <2>2, <2>3 DEF TInv, NotesShow
  <1>10. CASE f # "notes"
    <2>1. UNCHANGED notes /\ ticket' = [ticket EXCEPT ![f] = ledger[r][n].inverse[1].value]
      BY <1>2, <1>f, <1>10 DEF PutBack
    <2>2. NotesShow(r)'
      BY <1>3, <1>7, <1>10, <2>1 DEF TInv, NotesShow, NotesOf
    <2>3. ticket = [g \in Fields |-> ticket[g]]
      BY <1>3 DEF TInv, TicketShows
    <2>4. Left(r, f)' = Before(r, f, n)
      <3>1. \A m \in Effects(r) : m \in Nat /\ n \in Nat
        BY <1>2, <1>4
      <3>2. ASSUME NEW m \in On(r, f), m < n PROVE m \notin Undone(r) \cup {n}
        <4>1. m \in Effects(r)
          BY DEF On
        <4>2. m \in Undone(r) => n \in Undone(r)
          BY <1>1, <1>3, <1>4, <3>1, <3>2, <4>1 DEF WInv, NewestGoneFirst
        <4> QED BY <1>2, <3>1, <3>2, <4>1, <4>2
      <3>3. ASSUME NEW m \in On(r, f), m \notin Undone(r) \cup {n} PROVE m < n
        BY <1>2, <3>1, <3>3 DEF On
      <3> QED BY <1>2, <1>5, <3>2, <3>3 DEF Left, Before
    <2>5. ASSUME NEW g \in Fields PROVE Shows(ledger'[r], Left(r, g)', g, ticket'[g])
      <3>1. CASE g = f
        <4>1. ticket'[g] = ledger[r][n].inverse[1].value
          BY <2>1, <2>3, <3>1
        <4>2. Shows(ledger[r], Before(r, f, n), f, ledger[r][n].inverse[1].value)
          BY <1>3, <1>6, <3>1 DEF TInv, Captured
        <4> QED BY <1>3, <2>4, <3>1, <4>1, <4>2
      <3>2. CASE g # f
        BY <1>3, <1>7, <2>1, <2>3, <3>2 DEF TInv, TicketShows
      <3> QED BY <3>1, <3>2
    <2>6. ticket' = [g \in Fields |-> ticket'[g]]
      BY <2>1, <2>3
    <2> QED BY <1>8, <2>2, <2>5, <2>6 DEF TicketShows
  <1> QED BY <1>9, <1>10

(* The other steps touch neither the ticket nor its acts, or remove a note.  *)
LEMMA TicketAside ==
  ASSUME TInv, NEW r \in Runs, UNCHANGED <<ledger, undone, ticket>>,
         UNCHANGED notes \/ (PeopleEdit /\ notes' \subseteq notes)
  PROVE  Captured(r)' /\ TicketShows(r)' /\ NotesShow(r)'
  <1>1. /\ \A f : On(r, f)' = On(r, f) /\ Left(r, f)' = Left(r, f)
        /\ NotesOf(r)' = NotesOf(r)
    BY DEF On, Left, Effects, HasInverse, Undone, NotesOf
  <1> QED BY <1>1 DEF TInv, Captured, TicketShows, NotesShow, Before

(* An untouched ticket shows that nobody acted on it.                        *)
LEMMA InitTInv == Init => TInv
  <1> SUFFICES ASSUME Init PROVE TInv
    OBVIOUS
  <1>1. \A r \in Runs : Effects(r) = {}
    <2>1. \A r \in Runs : ledger[r] = <<>>
      BY DEF Init
    <2>2. DOMAIN <<>> = {}
      OBVIOUS
    <2> QED BY <2>1, <2>2 DEF Effects
  <1>2. \A r \in Runs : \A f : On(r, f) = {} /\ Left(r, f) = {}
    BY <1>1 DEF On, Left
  <1>3. ticket = [f \in Fields |-> ticket[f]] /\ \A f \in Fields : ticket[f] = Initial[f]
    BY DEF Init, Initial, Fields
  <1>4. \A r \in Runs : NotesOf(r) = {} /\ notes = {}
    BY <1>2 DEF NotesOf, Init
  <1> QED BY <1>2, <1>3, <1>4, InitWInv DEF TInv, Captured, TicketShows, NotesShow, Shows

(* At every moment the ticket shows exactly the acts of its run that are     *)
(* left, for any workers, calls and bounds, whatever is authorised, tried    *)
(* again or edited by people (the inverses the handlers capture, and the     *)
(* order of plan()), if every failure is recorded before the lease that went *)
(* with it runs out and the acts on the ticket are one run's.                *)
THEOREM TheTicketMatchesItsRows ==
  ~SlowFailures /\ (\E r : Runs = {r}) => (Spec => []TicketMatchesRows)
  <1> SUFFICES ASSUME ~SlowFailures, NEW r, Runs = {r} PROVE Spec => []TicketMatchesRows
    OBVIOUS
  <1>1. TInv /\ [Next]_vars => TInv'
    <2> SUFFICES ASSUME TInv, [Next]_vars PROVE Captured(r)' /\ TicketShows(r)' /\ NotesShow(r)'
      BY NextOInv, LedgerSoundKept, CoversKept, NewestInHandKept, NewestGoneFirstKept
      DEF TInv, WInv
    <2>1. Types /\ InHand /\ r \in Runs
      BY DEF TInv, WInv, OInv, IInv
    <2>2. CASE Act(r)
      BY <2>1, <2>2, TicketAct
    <2>3. ASSUME NEW w \in Workers, ApplyCommit(w)
          PROVE  Captured(r)' /\ TicketShows(r)' /\ NotesShow(r)'
      BY <2>3, TicketCommit
    <2>4. ASSUME NEW w \in Workers, Work(w) \/ Crash(w), ~ApplyCommit(w)
          PROVE  Captured(r)' /\ TicketShows(r)' /\ NotesShow(r)'
      <3>1. UNCHANGED <<ledger, undone>>
        BY <2>1, <2>4, WorkFixes
      <3>2. UNCHANGED <<ticket, notes>>
        BY <2>4 DEF Work, Crash, Claim, LeaseLost, GiveUp, Complete, Report, BeginRevert,
                    ClaimRefused, ApplyFails, RecordFailure, world
      <3> QED BY <2>1, <3>1, <3>2, TicketAside
    <2>5. ASSUME NEW c \in 1..MaxComps, LeaseExpires(c)
          PROVE  Captured(r)' /\ TicketShows(r)' /\ NotesShow(r)'
      BY <2>1, <2>5, TicketAside DEF LeaseExpires, world
    <2>6. CASE End(r) \/ Preview(r) \/ DrawUp(r) \/ Insert(r)
      BY <2>1, <2>6, TicketAside DEF End, Preview, DrawUp, Insert, world
    <2>7. CASE RemoveNote
      <3>1. UNCHANGED <<ledger, undone, ticket>> /\ PeopleEdit /\ notes' \subseteq notes
        BY <2>7 DEF RemoveNote
      <3> QED BY <2>1, <3>1, TicketAside
    <2>8. CASE UNCHANGED vars
      BY <2>1, <2>8, TicketAside DEF vars
    <2> QED BY <2>2, <2>3, <2>4, <2>5, <2>6, <2>7, <2>8 DEF Next
  <1>2. TInv => TicketMatchesRows
    <2> SUFFICES ASSUME TInv PROVE TicketMatchesRows
      OBVIOUS
    <2>1. r \in Runs /\ Types
      BY DEF TInv, WInv, OInv, IInv
    <2>2. \A f : LeftOn(f) = {<<r, n>> : n \in Left(r, f)}
      <3> TAKE f
      <3>1. \A n : n \in Left(r, f) <=>
              /\ n \in DOMAIN ledger[r] \ Undone(r) /\ HasInverse(r, n)
              /\ ledger[r][n].inverse[1].field = f
        BY DEF Left, On, Effects
      <3>2. DOMAIN ledger[r] \subseteq 1..MaxActs
        BY <2>1, ActNumbers
      <3>3. \A rn \in LeftOn(f) : rn = <<r, rn[2]>> /\ rn[2] \in Left(r, f)
        BY <3>1 DEF LeftOn
      <3>4. \A n \in Left(r, f) : <<r, n>> \in LeftOn(f)
        <4> TAKE n \in Left(r, f)
        <4>1. <<r, n>> \in Runs \X (1..MaxActs) /\ <<r, n>>[1] = r /\ <<r, n>>[2] = n
          BY <2>1, <3>1, <3>2
        <4> QED BY <3>1, <4>1 DEF LeftOn
      <3> QED BY <3>3, <3>4
    <2>3. ASSUME NEW f \in Fields
          PROVE  \/ LeftOn(f) = {} /\ ticket[f] = Initial[f]
                 \/ \E a \in LeftOn(f) :
                      (\A b \in LeftOn(f) : Later(a, b)) /\ ticket[f] = ledger[a[1]][a[2]].after
      <3>1. Shows(ledger[r], Left(r, f), f, ticket[f])
        BY <2>1 DEF TInv, TicketShows
      <3>2. CASE Left(r, f) = {} /\ ticket[f] = Initial[f]
        BY <2>2, <3>2
      <3>3. ASSUME NEW n \in Left(r, f), \A m \in Left(r, f) : m <= n,
                   ticket[f] = ledger[r][n].after
            PROVE  \E a \in LeftOn(f) :
                     (\A b \in LeftOn(f) : Later(a, b)) /\ ticket[f] = ledger[a[1]][a[2]].after
        <4>1. <<r, n>> \in LeftOn(f)
          BY <2>2
        <4>2. \A m \in Left(r, f) : m \in Nat
          BY <2>1, ActNumbers DEF Left, On
        <4>3. \A m \in Left(r, f) : Later(<<r, n>>, <<r, m>>)
          BY <3>3, <4>2 DEF Later
        <4>4. \A b \in LeftOn(f) : Later(<<r, n>>, b)
          BY <2>2, <4>3
        <4>5. <<r, n>>[1] = r /\ <<r, n>>[2] = n
          OBVIOUS
        <4> QED BY <3>3, <4>1, <4>4, <4>5
      <3> QED BY <3>1, <3>2, <3>3 DEF Shows
    <2>4. notes \subseteq LeftOn("notes") /\ (PeopleEdit \/ notes = LeftOn("notes"))
      BY <2>1, <2>2 DEF TInv, NotesShow, NotesOf
    <2> QED BY <2>3, <2>4 DEF TicketMatchesRows
  <1> QED BY InitTInv, <1>1, <1>2, PTL DEF Spec
=============================================================================
