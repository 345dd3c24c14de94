------------------------------- MODULE MCMockRun -------------------------------
(* The trajectories of the mock, on the tickets that tell them apart. *)
EXTENDS MockRun

(* No wish for money, though the articles speak of it and the ticket names   *)
(* an order and a figure; a wish without an order; with one, which has items *)
(* or has none; and with a figure.                                           *)
World(ticket, order, articles) == [ticket |-> ticket, order |-> order, articles |-> articles]
MCWorlds ==
  {World({"order", "figure"}, {"items"}, {"money back"}),
   World({"money back"}, {}, {}),
   World({"money back", "order"}, {"items"}, {"money back"}),
   World({"money back", "order"}, {}, {}),
   World({"money back", "order", "figure"}, {"items"}, {})}

(* What the mock may say; <<>> closes a run. *)
MCReplies == {<<>>} \cup {<<a>> : a \in Actions}
=============================================================================
