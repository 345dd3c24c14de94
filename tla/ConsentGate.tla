----------------------------- MODULE ConsentGate -----------------------------
(***************************************************************************)
(* What the runtime promises about one thing: that acting on the world      *)
(* goes through consent.  A run proposes acts; some are put to a person;    *)
(* each is performed at most once, never after the run has ended, and an    *)
(* irreversible one only on a consent that was there before the step that   *)
(* performs it.  Consent, once answered, is answered for good.              *)
(*                                                                         *)
(* A step of the implementation may move several acts of several runs at    *)
(* once (one transaction settles a turn, one sweep closes many requests),   *)
(* so a step here is any combination of the allowed moves.                  *)
(***************************************************************************)
CONSTANTS Runs, CallIds, Irreversible

VARIABLES
  consent,   \* by run, a function on the acts put to a person: "asked" or the answer
  performed, \* by run, the acts performed, as <<act, what it does>>
  over       \* the runs that have ended

vars == <<consent, performed, over>>

Answer == {"approved", "denied", "expired"}

Init ==
  /\ consent = [r \in Runs |-> [c \in {} |-> "asked"]]
  /\ performed = [r \in Runs |-> {}]
  /\ over = {}

(* A request is put, stays, and is answered at most once. *)
ConsentMoves(r) ==
  /\ DOMAIN consent[r] \subseteq DOMAIN consent'[r]
  /\ \A c \in DOMAIN consent'[r] :
       IF c \in DOMAIN consent[r]
       THEN \/ consent'[r][c] = consent[r][c]
            \/ consent[r][c] = "asked" /\ consent'[r][c] \in Answer
       ELSE consent'[r][c] = "asked" /\ r \notin over

(* Acts are added, each once, while the run is open, on consent given before. *)
Performs(r) ==
  /\ performed[r] \subseteq performed'[r]
  /\ \A act \in performed'[r] \ performed[r] :
       /\ r \notin over
       /\ \A done \in performed[r] : done[1] # act[1]
       /\ act[2] \in Irreversible =>
            act[1] \in DOMAIN consent[r] /\ consent[r][act[1]] = "approved"

Next ==
  /\ over \subseteq over'
  /\ \A r \in Runs : ConsentMoves(r) /\ Performs(r)

Spec == Init /\ [][Next]_vars
=============================================================================
