---------------------------- MODULE MCWebClient ----------------------------
(* Instances of WebClient for TLC: two tabs, and one with every form.      *)
EXTENDS WebClient

MCPlan(tabset, kinds, pairs, room, budget) ==
  [tabs |-> tabset, kinds |-> kinds, pairs |-> pairs, reqs |-> room, budget |-> budget]
MCPlans ==
  {MCPlan(Tabs, {"api"}, 3, 3, 1), MCPlan(Tabs, {"login", "api", "logout"}, 3, 2, 1),
   MCPlan({1}, Kinds, 2, 2, 1), MCPlan({1}, {"login", "api", "secret", "logout"}, 3, 2, 2),
   MCPlan({1}, {"api", "logout"}, 3, 3, 2)}
=============================================================================
