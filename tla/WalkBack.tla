------------------------------ MODULE WalkBack ------------------------------
(***************************************************************************)
(* What a compensation promises: a run that has ended is walked back only  *)
(* as far as somebody authorised it, newest act first, each act once.      *)
(***************************************************************************)
EXTENDS Naturals, Sequences

CONSTANTS
  Runs,
  Steps \* step numbers an act may have

VARIABLES
  acts,      \* of each run: the acts that left an effect it can take back
  closed,    \* runs that can no longer act
  consented, \* of each run: the acts somebody authorised taking back
  undone     \* of each run: the acts taken back, in the order it happened

vars == <<acts, closed, consented, undone>>

Done(r) == {undone[r][i] : i \in DOMAIN undone[r]}

Init ==
  /\ acts = [r \in Runs |-> {}]
  /\ closed = {}
  /\ consented = [r \in Runs |-> {}]
  /\ undone = [r \in Runs |-> <<>>]

Act(r) ==
  /\ r \notin closed
  /\ \E n \in Steps :
       /\ \A m \in acts[r] : m < n
       /\ acts' = [acts EXCEPT ![r] = @ \cup {n}]
  /\ UNCHANGED <<closed, consented, undone>>

Close(r) ==
  /\ closed' = closed \cup {r}
  /\ UNCHANGED <<acts, consented, undone>>

Consent(r) ==
  /\ r \in closed
  /\ \E S \in SUBSET acts[r] : consented' = [consented EXCEPT ![r] = @ \cup S]
  /\ UNCHANGED <<acts, closed, undone>>

TakeBack(r) ==
  /\ \E n \in consented[r] \ Done(r) :
       /\ \A m \in acts[r] : m > n => m \in Done(r)
       /\ undone' = [undone EXCEPT ![r] = Append(@, n)]
  /\ UNCHANGED <<acts, closed, consented>>

Next == \E r \in Runs : Act(r) \/ Close(r) \/ Consent(r) \/ TakeBack(r)

Spec == Init /\ [][Next]_vars
=============================================================================
