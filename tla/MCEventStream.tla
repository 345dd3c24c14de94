---------------------------- MODULE MCEventStream ----------------------------
(* Two merchants; requests alone, requests and workers, a run being watched. *)
EXTENDS EventStream

CONSTANTS q1, q2, q3, w1, w2, t1, t2, acme, globex

MCOrgOf == [t \in {t1, t2} |-> IF t = t1 THEN acme ELSE globex]
Scene(who, tickets, steps, time, days) ==
  [who |-> who, tickets |-> tickets, steps |-> steps, time |-> time, days |-> days]
MCScenarios ==
  {Scene({q1, q2, q3}, {t1}, 1, 2, 1),
   Scene({q1, q2, w1, w2}, {t1, t2}, 3, 0, 2),
   Scene({q1, w1, Viewer}, {t1}, 1, 0, 1)}
=============================================================================
