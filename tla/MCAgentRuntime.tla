--------------------------- MODULE MCAgentRuntime ---------------------------
(* Small instances of AgentRuntime.                                        *)
EXTENDS AgentRuntime, TLC

CONSTANTS pay, mail, tag, peek, ghost, blob

(* One turn may ask twice: two gated calls of the same run are pending at   *)
(* once, and the second is decided while the first is being settled.        *)
TurnsThatAskTwice == {<<>>, <<pay, mail>>}

(* Mixed turns: a hostile read before a reversible write, an unregistered   *)
(* tool beside a refund and alone.                                          *)
MixedTurns == {<<>>, <<peek, tag>>, <<pay, pay>>, <<pay, ghost>>, <<ghost>>, <<tag, tag>>, <<blob>>}

(* At most one call of a turn goes to a person; one the database refuses. *)
OneAskTurns == {<<>>, <<pay, ghost>>, <<peek, tag>>, <<blob>>}

(* A call whose arguments the database refuses. *)
UnstorableTurns == {<<>>, <<blob>>}

(* Nothing tells the workers apart. *)
WorkerSymmetry == Permutations(Workers)
=============================================================================
