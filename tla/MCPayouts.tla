------------------------------ MODULE MCPayouts ------------------------------
(* Two runs of one merchant, two orders, two days. *)
EXTENDS Payouts, TLC

CONSTANTS r1, r2, o1, o2, g1

(* Order o1 can take three units, o2 two; a run may pay three. *)
MCOrgOf == [x \in {r1, r2, o1, o2} |-> g1]
MCTotal == (o1 :> 3) @@ (o2 :> 2)
MCRunCap == [r \in {r1, r2} |-> 3]
=============================================================================
