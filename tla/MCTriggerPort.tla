---------------------------- MODULE MCTriggerPort ----------------------------
(* Single calls of every kind, a parallel turn, a refusal and an end. *)
EXTENDS TriggerPort

CONSTANTS read, note, garbled, refund, broken, bogus

MCReplies ==
  {<<>>, Refusal, <<read>>, <<note, refund>>, <<garbled, broken, bogus>>}
=============================================================================
