----------------------------- MODULE MCBilling -----------------------------
(* Instances of Billing for TLC. *)
EXTENDS Billing, TLC

CONSTANTS r1, r2, c1, c2

\* The code of c2's plan is missing from CODE_PLAN_MAP.
MCPlanOf == [c \in Codes |-> IF c = c1 THEN "pro" ELSE "unknown"]
MCNamedPlan == [c \in Codes |-> IF c = c1 THEN "pro" ELSE "ultimate"]
RequestSymmetry == Permutations(Requests)
=============================================================================
