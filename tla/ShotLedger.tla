----------------------------- MODULE ShotLedger -----------------------------
(***************************************************************************)
(* What the Shoot feature promises, without transactions, locks or failed  *)
(* requests: a delivered shot appears together with its charge, at once,   *)
(* and a request that was resolved as FREE is delivered only while the     *)
(* month's counter is below the limit.  Module Shoot implements this.      *)
(***************************************************************************)
EXTENDS Naturals, FiniteSets

CONSTANTS
  Users,       \* the users that shoot
  Requests,    \* identities of POST /resumes/shoot requests
  UserOf,      \* the user whose token a request carries
  Months,      \* the calendar months a shot can be charged to
  FreeLimit    \* max_shots_per_month of the FREE tier

VARIABLES
  used,        \* used[u][m]: shots charged to user u in month m
  delivered    \* the tailored resumes handed out, one record each

vars == <<used, delivered>>

Tiers == {"free", "paid"}

Delivery == [req : Requests, month : Months, tier : Tiers]

Init ==
  /\ used = [u \in Users |-> [m \in Months |-> 0]]
  /\ delivered = {}

\* One request is delivered and charged in a single step.
Deliver(d) ==
  LET u == UserOf[d.req] IN
  /\ \A e \in delivered : e.req # d.req
  /\ d.tier = "free" => used[u][d.month] < FreeLimit
  /\ used' = [used EXCEPT ![u][d.month] = @ + 1]
  /\ delivered' = delivered \cup {d}

Next == \E d \in Delivery : Deliver(d)

Spec == Init /\ [][Next]_vars
=============================================================================
