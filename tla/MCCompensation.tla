--------------------------- MODULE MCCompensation ---------------------------
(* One ticket; a call of each kind, two of them on one field.  Setting the  *)
(* status is setting the priority, on another field, and left out.          *)
EXTENDS Compensation

CONSTANTS ann

Call(tool, value) == [tool |-> tool, value |-> value]
MCCalls ==
  {Call("tag_ticket", {"refund"}), Call("set_priority", {"high"}),
   Call("set_priority", {"normal"}),
   Call("assign_ticket", {ann}), Call("add_internal_note", {}),
   Call("issue_refund", {}), Call("get_ticket", {})}
=============================================================================
