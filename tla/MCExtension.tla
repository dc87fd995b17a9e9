---------------------------- MODULE MCExtension ----------------------------
(* Instances of Extension for TLC: each client alone, and two at a time.   *)
EXTENDS Extension

MCPlan(clients, signIns, pairs, budget) ==
  [clients |-> clients, signIns |-> signIns, master |-> TRUE, pairs |-> pairs, budget |-> budget]
MCPlans ==
  {MCPlan({"popup"}, SignIns, 2, 2), MCPlan({"popup"}, {"LOGIN"}, 3, 2),
   MCPlan({"popup"}, {"LOGIN"}, 2, 3), MCPlan({"popup", "options"}, {"LOGIN"}, 2, 2),
   MCPlan({"options"}, {}, 2, 3), MCPlan({"page"}, {}, 2, 4),
   MCPlan({"page", "popup"}, {"LOGIN"}, 3, 2),
   [MCPlan({"page"}, {}, 1, 1) EXCEPT !.master = FALSE]}
=============================================================================
