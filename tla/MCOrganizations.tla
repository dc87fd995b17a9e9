-------------------------- MODULE MCOrganizations --------------------------
(* Instances of Organizations for TLC: at most three users, two organizations. *)
EXTENDS Organizations

\* One entry for each user, in order.
MCEach(x, y, z) == [u \in Users |-> CASE u = "u1" -> x [] u = "u2" -> y [] u = "u3" -> z]
MCNobody == MCEach(None, None, None)
MCPlan(one, two, pages, kinds, grants, invs, room) ==
  [start |-> [o \in Orgs |-> IF o = "o1" THEN one ELSE two], pages |-> pages,
   kinds |-> kinds, grants |-> grants, invs |-> invs, room |-> room]
MCOwnerOf(two) == MCEach("OWNER", two, None)
MCPlans ==
  {MCPlan(MCOwnerOf("ADMIN"), MCNobody, MCEach({"members"}, {"members"}, {}),
          {"role", "remove"}, {"MEMBER", "OWNER"}, 0, 2),
   MCPlan(MCEach("OWNER", "ADMIN", "MEMBER"), MCNobody, MCEach({"members"}, {"members"}, {}),
          {"remove"}, {}, 0, 2),
   MCPlan(MCEach("OWNER", "ADMIN", "VIEWER"), MCNobody, MCEach({"members"}, {"members"}, {}),
          {"role"}, {"MEMBER", "ADMIN"}, 0, 1),
   MCPlan(MCOwnerOf(None), MCNobody, MCEach({"members"}, {"accept"}, {}),
          {"invite", "revoke", "accept"}, {"MEMBER"}, 1, 2),
   MCPlan(MCOwnerOf(None), MCNobody, MCEach({"members"}, {"accept"}, {}),
          {"invite", "remove", "accept"}, {"VIEWER"}, 1, 2),
   MCPlan(MCOwnerOf(None), MCNobody, MCEach({"members"}, {"accept"}, {}),
          {"invite", "remove", "accept", "revoke"}, {"VIEWER", "OWNER"}, 2, 1),
   MCPlan(MCOwnerOf("ADMIN"), MCNobody, MCEach({"members"}, {"members"}, {"accept"}),
          {"invite"}, {"MEMBER"}, 2, 2),
   MCPlan(MCEach("ADMIN", "OWNER", "MEMBER"), MCEach("ADMIN", None, "OWNER"),
          MCEach({"members"}, {"members"}, {}), {"remove"}, {}, 0, 2),
   MCPlan(MCOwnerOf(None), MCOwnerOf("ADMIN"), MCEach({"general", "home"}, {}, {}), {"save"}, {}, 0, 1),
   MCPlan(MCEach("OWNER", "MEMBER", None), MCNobody, MCEach({}, {"general"}, {}), {"save"}, {}, 0, 2),
   MCPlan(MCNobody, MCNobody, MCEach({"onboarding", "general"}, {"home"}, {}), {"create"}, {}, 0, 2),
   MCPlan(MCOwnerOf(None), MCNobody, MCEach({"members"}, {"home", "onboarding", "accept"}, {}),
          {"invite", "accept", "create"}, {"ADMIN"}, 1, 1)}
=============================================================================
