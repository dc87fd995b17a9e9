------------------------------ MODULE Billing ------------------------------
(***************************************************************************)
(* BillingService of one organization: the verification of a checkout, the *)
(* cancellation and the Paystack webhooks as concurrent transactions, and  *)
(* Paystack itself as the code sees it: a source of events that may reach  *)
(* the webhook late, repeatedly or in another order.                       *)
(*                                                                         *)
(* A transaction loads the rows it needs, sets attributes of the loaded    *)
(* objects and flushes them: SQLAlchemy writes the columns whose value now *)
(* differs from the LOADED one, so a column that looks unchanged is not    *)
(* written at all, whatever was committed since.                           *)
(***************************************************************************)
EXTENDS Naturals, Sequences, FiniteSets

CONSTANTS
  Requests,  \* the handlers that run at once, each for one request after another
  Codes,     \* Paystack subscription codes, one for each checkout
  PlanOf,    \* the tier CODE_PLAN_MAP gives a code's plan code, or "unknown"
  NamedPlan, \* the tier the metadata of a code's charge names, or "unknown"
  Metadata,  \* whether events carry the organization's id in their metadata
  MaxEvents, \* bound: how many events Paystack produces
  None

Tiers == {"free", "pro", "ultimate"}

ASSUME BillingAssumption ==
  /\ PlanOf \in [Codes -> {"pro", "ultimate", "unknown"}]
  /\ NamedPlan \in [Codes -> {"pro", "ultimate", "unknown"}]
  /\ Metadata \subseteq BOOLEAN
  /\ MaxEvents \in Nat
  /\ None \notin Requests \cup Codes \cup Tiers \cup {"gone"}

VARIABLES
  stage,     \* stage[c]: how far Paystack is with checkout c
  log,       \* the events Paystack has produced, in order
  plan,      \* committed Organization.plan, "gone" once deleted
  sub,       \* committed Subscription [code, status], None without a row
  op,        \* op[r]: what request r does
  pc,        \* where it stands
  todo,      \* the database steps it still has to take
  seenPlan,  \* Organization.plan as its session loaded it
  seenSub,   \* the Subscription as its session loaded it
  mineOrg,   \* Organization.plan as its transaction wrote it, None if it did not,
             \* "gone" if it deleted the row
  mineSub,   \* the Subscription as its transaction wrote it, None if it did not
  handled,   \* history: positions of log processed at least once
  orderly    \* history: nothing overlapped, overtook or lacked metadata so far

paystack == <<stage, log>>
session == <<todo, seenPlan, seenSub, mineOrg, mineSub>>
vars == <<stage, log, plan, sub, op, pc, todo, seenPlan, seenSub,
          mineOrg, mineSub, handled, orderly>>

----------------------------------------------------------------------------
Stages == {"none", "opened", "paid", "active", "disabled"}
Paid == {"paid", "active", "disabled"}
Statuses == {"active", "past_due", "canceled"}
SubRow == [code : Codes, status : Statuses]
\* "No row" is not a row.
ASSUME RowAssumption == None \notin SubRow

Event == [kind : {"charge", "create", "disable", "payfail"}, code : Codes, meta : BOOLEAN]
Control == {"idle", "run", "failing"}

InFlight(r) == pc[r] # "idle"
Idle == \A r \in Requests : ~InFlight(r)

\* _on_subscription_disable if it only updated its own record.
ScriptDisableKeepsPlan(o) ==
  CASE o.kind = "charge" -> IF o.meta THEN <<"load_org", "write_org">> ELSE <<>>
    [] o.kind = "create" ->
         IF ~o.meta THEN <<>>
         ELSE IF PlanOf[o.code] = "unknown" THEN <<"load_sub", "write_sub">>
         ELSE <<"load_sub", "write_sub", "load_org", "write_org">>
    [] o.kind = "disable" -> <<"load_sub", "write_sub">>
    [] o.kind = "payfail" -> <<"load_sub", "write_sub">>
    [] o.kind = "verify" ->
         IF o.meta THEN <<"load_org", "write_org", "load_sub", "write_sub">>
         ELSE <<"load_org", "write_org">>
    [] o.kind = "cancel" -> <<"load_org", "load_sub", "call", "write_org", "write_sub">>
    [] o.kind = "delete" -> <<"load_org", "load_sub", "delete_org">>

\* The loads and flushes of each handler, in the code's order; one flush
\* writes the organization before the subscription that refers to it.  Of a
\* verified transaction, meta says whether it names a subscription.
Script(o) ==
  CASE o.kind = "charge" -> IF o.meta THEN <<"load_org", "write_org">> ELSE <<>>
    [] o.kind = "create" ->
         IF ~o.meta THEN <<>>
         ELSE IF PlanOf[o.code] = "unknown" THEN <<"load_sub", "write_sub">>
         ELSE <<"load_sub", "write_sub", "load_org", "write_org">>
    [] o.kind = "disable" ->
         IF o.meta THEN <<"load_sub", "load_org", "write_org", "write_sub">>
         ELSE <<"load_sub", "write_sub">>
    [] o.kind = "payfail" -> <<"load_sub", "write_sub">>
    [] o.kind = "verify" ->
         IF o.meta THEN <<"load_org", "write_org", "load_sub", "write_sub">>
         ELSE <<"load_org", "write_org">>
    [] o.kind = "cancel" -> <<"load_org", "load_sub", "call", "write_org", "write_sub">>
    [] o.kind = "delete" -> <<"load_org", "load_sub", "delete_org">>

At(r, step) == pc[r] = "run" /\ todo[r] # <<>> /\ Head(todo[r]) = step
Advance(r) == todo' = [todo EXCEPT ![r] = Tail(@)] /\ UNCHANGED pc
Fail(r) == pc' = [pc EXCEPT ![r] = "failing"] /\ UNCHANGED todo

\* A plan code missing from CODE_PLAN_MAP taken for FREE, as it was before
\* docs/issues/025.
NewPlanFreeByDefault(r) ==
  CASE op[r].kind \in {"disable", "cancel"} -> "free"
    [] op[r].kind = "charge" ->
         IF NamedPlan[op[r].code] = "unknown" THEN "free" ELSE NamedPlan[op[r].code]
    [] OTHER ->
         IF PlanOf[op[r].code] = "unknown" THEN "free" ELSE PlanOf[op[r].code]

\* The plan a handler assigns to the organization: charge.success goes by the
\* plan its metadata name, the others by the plan code, which the code may not
\* know.
NewPlan(r) ==
  CASE op[r].kind \in {"disable", "cancel"} -> "free"
    [] op[r].kind = "charge" ->
         IF NamedPlan[op[r].code] = "unknown" THEN "free" ELSE NamedPlan[op[r].code]
    [] OTHER ->
         IF PlanOf[op[r].code] = "unknown" THEN seenPlan[r] ELSE PlanOf[op[r].code]

\* The record a handler leaves in its loaded Subscription.
NewSub(r) ==
  CASE op[r].kind \in {"create", "verify"} -> [code |-> op[r].code, status |-> "active"]
    [] op[r].kind = "payfail" -> [seenSub[r] EXCEPT !.status = "past_due"]
    [] OTHER -> [seenSub[r] EXCEPT !.status = "canceled"]

\* What the UPDATE makes of the committed row: the changed columns only.
Updated(r) ==
  [code |-> IF NewSub(r).code = seenSub[r].code THEN sub.code ELSE NewSub(r).code,
   status |-> IF NewSub(r).status = seenSub[r].status THEN sub.status ELSE NewSub(r).status]

\* No row was found, or the one found already says past due.
NothingToWrite(r) ==
  \/ seenSub[r] = None /\ op[r].kind \in {"disable", "payfail"}
  \/ seenSub[r] # None /\ op[r].kind = "payfail" /\ seenSub[r].status = "past_due"

\* The other open transaction that wrote, inserted or deleted the row r is
\* about to write; the deletion of the organization locks both.
OrgBlockers(r) == {q \in Requests \ {r} : mineOrg[q] # None}
SubBlockers(r) == {q \in Requests \ {r} : mineSub[q] # None \/ mineOrg[q] = "gone"}
Blockers(r) ==
  IF At(r, "write_org") /\ NewPlan(r) # seenPlan[r] THEN OrgBlockers(r)
  ELSE IF At(r, "write_sub") /\ ~NothingToWrite(r) THEN SubBlockers(r)
  ELSE IF At(r, "delete_org") THEN OrgBlockers(r) \cup SubBlockers(r)
  ELSE {}

----------------------------------------------------------------------------
Init ==
  /\ stage = [c \in Codes |-> "none"]
  /\ log = <<>>
  /\ plan = "free"
  /\ sub = None
  /\ op = [r \in Requests |-> None]
  /\ pc = [r \in Requests |-> "idle"]
  /\ todo = [r \in Requests |-> <<>>]
  /\ seenPlan = [r \in Requests |-> None]
  /\ seenSub = [r \in Requests |-> None]
  /\ mineOrg = [r \in Requests |-> None]
  /\ mineSub = [r \in Requests |-> None]
  /\ handled = {}
  /\ orderly = TRUE

(* Paystack. *)

Emit(kind, c) ==
  /\ Len(log) < MaxEvents
  /\ \E m \in Metadata : log' = Append(log, [kind |-> kind, code |-> c, meta |-> m])

\* initialize_transaction and what the customer and Paystack make of it.
Initialize(c) ==
  /\ plan # "gone"
  /\ stage[c] = "none"
  /\ stage' = [stage EXCEPT ![c] = "opened"]
  /\ UNCHANGED <<log, plan, sub, op, pc, session, handled, orderly>>

Pay(c) ==
  /\ stage[c] = "opened"
  /\ stage' = [stage EXCEPT ![c] = "paid"]
  /\ Emit("charge", c)
  /\ UNCHANGED <<plan, sub, op, pc, session, handled, orderly>>

Subscribe(c) ==
  /\ stage[c] = "paid"
  /\ stage' = [stage EXCEPT ![c] = "active"]
  /\ Emit("create", c)
  /\ UNCHANGED <<plan, sub, op, pc, session, handled, orderly>>

FailPayment(c) ==
  /\ stage[c] = "active"
  /\ \A i \in DOMAIN log : log[i].kind # "payfail"
  /\ Emit("payfail", c)
  /\ UNCHANGED <<stage, plan, sub, op, pc, session, handled, orderly>>

Disable(c) ==
  /\ stage[c] = "active"
  /\ stage' = [stage EXCEPT ![c] = "disabled"]
  /\ Emit("disable", c)
  /\ UNCHANGED <<plan, sub, op, pc, session, handled, orderly>>

(* Requests. *)

Begin(r, o) ==
  /\ op' = [op EXCEPT ![r] = o]
  /\ todo' = [todo EXCEPT ![r] = Script(o)]
  /\ UNCHANGED <<paystack, plan, sub, seenPlan, seenSub, mineOrg, mineSub, handled>>

\* Paystack delivers an event it has produced: the next one, or one again.
Deliver(r) ==
  /\ pc[r] = "idle"
  /\ \E i \in DOMAIN log :
       /\ Begin(r, [kind |-> log[i].kind, code |-> log[i].code,
                    meta |-> log[i].meta, pos |-> i])
       /\ orderly' = (orderly /\ Idle /\ log[i].meta
                        /\ i - Cardinality(handled) \in {0, 1})
  /\ pc' = [pc EXCEPT ![r] = "run"]

\* GET /billing/verify: Paystack's answer, the test of its status and of the
\* organization its metadata name.
Verify(r) ==
  /\ pc[r] = "idle"
  /\ \E c \in Codes, named \in BOOLEAN, m \in Metadata :
       /\ stage[c] # "none"
       /\ named => stage[c] \in {"active", "disabled"}
       /\ Begin(r, [kind |-> "verify", code |-> c, meta |-> named, pos |-> 0])
       /\ pc' = [pc EXCEPT ![r] = IF stage[c] \in Paid /\ m THEN "run" ELSE "failing"]
       /\ orderly' = (orderly /\ Idle /\ log # <<>>
                        /\ handled = DOMAIN log
                        /\ log[Len(log)].kind \in {"charge", "create"}
                        /\ log[Len(log)].code = c)

\* POST /billing/organizations/{id}/cancel and DELETE /organizations/{id}.
Manage(r) ==
  /\ pc[r] = "idle"
  /\ plan # "gone"
  /\ \E kind \in {"cancel", "delete"} :
       Begin(r, [kind |-> kind, code |-> None, meta |-> FALSE, pos |-> 0])
  /\ pc' = [pc EXCEPT ![r] = "run"]
  /\ orderly' = (orderly /\ Idle /\ handled = DOMAIN log)

\* The handlers without their tests for a missing organization.
LoadOrgUnchecked(r) ==
  /\ At(r, "load_org")
  /\ seenPlan' = [seenPlan EXCEPT ![r] = plan]
  /\ Advance(r)
  /\ UNCHANGED <<paystack, plan, sub, op, seenSub, mineOrg, mineSub, handled, orderly>>

\* org_repo.get_by_id.  Without an organization the webhooks skip the
\* assignment that follows and the other requests fail.
LoadOrg(r) ==
  /\ At(r, "load_org")
  /\ \/ /\ plan # "gone"
        /\ seenPlan' = [seenPlan EXCEPT ![r] = plan]
        /\ Advance(r)
     \/ /\ plan = "gone"
        /\ IF op[r].kind \in {"verify", "cancel", "delete"} THEN Fail(r)
           ELSE /\ todo' = [todo EXCEPT ![r] = Tail(Tail(@))]
                /\ UNCHANGED pc
        /\ UNCHANGED seenPlan
  /\ UNCHANGED <<paystack, plan, sub, op, seenSub, mineOrg, mineSub, handled, orderly>>

\* The Subscription of the organization, or the one with the event's code.
\* cancel needs one.  Before it deletes an organization SQLAlchemy would set
\* organization_id of its subscription to NULL, which the column refuses: the
\* relationship has no delete cascade.
LoadSub(r) ==
  LET found == sub # None /\ (op[r].kind \in {"disable", "payfail"} => sub.code = op[r].code)
  IN
  /\ At(r, "load_sub")
  /\ IF (op[r].kind = "cancel" /\ ~found) \/ (op[r].kind = "delete" /\ found)
     THEN Fail(r)
     ELSE Advance(r)
  /\ seenSub' = [seenSub EXCEPT ![r] = IF found THEN sub ELSE None]
  /\ UNCHANGED <<paystack, plan, sub, op, seenPlan, mineOrg, mineSub, handled, orderly>>

\* cancel_subscription asks Paystack to disable the code it loaded; Paystack
\* refuses or fails, or does it and will also send the event.
CallPaystack(r) ==
  LET c == seenSub[r].code IN
  /\ At(r, "call")
  /\ \/ /\ stage[c] = "active"
        /\ stage' = [stage EXCEPT ![c] = "disabled"]
        /\ Emit("disable", c)
        /\ Advance(r)
     \/ /\ Fail(r)
        /\ UNCHANGED paystack
  /\ UNCHANGED <<plan, sub, op, seenPlan, seenSub, mineOrg, mineSub, handled, orderly>>

\* The flush of the organization: nothing to write, the row is gone, or it is
\* written and stays locked.  verify also sets paystack_customer_id.
WriteOrg(r) ==
  LET touch(p) == mineOrg' = [mineOrg EXCEPT ![r] = p] IN
  /\ At(r, "write_org")
  /\ \/ /\ NewPlan(r) = seenPlan[r]
        /\ Advance(r)
        /\ UNCHANGED mineOrg
     \/ /\ NewPlan(r) = seenPlan[r] /\ op[r].kind = "verify"
        /\ plan # "gone" /\ OrgBlockers(r) = {}
        /\ touch(plan)
        /\ Advance(r)
     \/ /\ NewPlan(r) # seenPlan[r] /\ OrgBlockers(r) = {}
        /\ plan = "gone"
        /\ Fail(r)
        /\ UNCHANGED mineOrg
     \/ /\ NewPlan(r) # seenPlan[r] /\ OrgBlockers(r) = {}
        /\ plan # "gone"
        /\ touch(NewPlan(r))
        /\ Advance(r)
  /\ UNCHANGED <<paystack, plan, sub, op, seenPlan, seenSub, mineSub, handled, orderly>>

\* The flush of the subscription: none was found; an UPDATE of the row found,
\* which may be gone; an INSERT, which fails if there is one by now or if the
\* organization is gone.
WriteSub(r) ==
  LET insert == seenSub[r] = None
      possible == IF insert THEN sub = None /\ plan # "gone" ELSE sub # None
  IN
  /\ At(r, "write_sub")
  /\ \/ /\ NothingToWrite(r)
        /\ Advance(r)
        /\ UNCHANGED mineSub
     \/ /\ ~NothingToWrite(r) /\ SubBlockers(r) = {}
        /\ possible
        /\ mineSub' = [mineSub EXCEPT ![r] = IF insert THEN NewSub(r) ELSE Updated(r)]
        /\ Advance(r)
     \/ /\ ~NothingToWrite(r) /\ SubBlockers(r) = {}
        /\ ~possible
        /\ Fail(r)
        /\ UNCHANGED mineSub
  /\ UNCHANGED <<paystack, plan, sub, op, seenPlan, seenSub, mineOrg, handled, orderly>>

\* DELETE FROM organizations; the database cascades to a subscription that was
\* committed since SQLAlchemy looked for one.
DeleteOrg(r) ==
  /\ At(r, "delete_org")
  /\ Blockers(r) = {}
  /\ mineOrg' = [mineOrg EXCEPT ![r] = "gone"]
  /\ Advance(r)
  /\ UNCHANGED <<paystack, plan, sub, op, seenPlan, seenSub, mineSub, handled, orderly>>

\* The session is closed, with or without a commit; the handler is free for
\* another request.
Close(r) ==
  /\ pc' = [pc EXCEPT ![r] = "idle"]
  /\ op' = [op EXCEPT ![r] = None]
  /\ todo' = [todo EXCEPT ![r] = <<>>]
  /\ seenPlan' = [seenPlan EXCEPT ![r] = None]
  /\ seenSub' = [seenSub EXCEPT ![r] = None]
  /\ mineOrg' = [mineOrg EXCEPT ![r] = None]
  /\ mineSub' = [mineSub EXCEPT ![r] = None]

\* get_db after the handler returned.
Commit(r) ==
  /\ pc[r] = "run" /\ todo[r] = <<>>
  /\ plan' = IF mineOrg[r] = None THEN plan ELSE mineOrg[r]
  /\ sub' = IF mineOrg[r] = "gone" THEN None
            ELSE IF mineSub[r] = None THEN sub ELSE mineSub[r]
  /\ handled' = IF op[r].pos = 0 THEN handled ELSE handled \cup {op[r].pos}
  /\ Close(r)
  /\ UNCHANGED <<paystack, orderly>>

\* The session is left open after an exception: its locks stay.
RollbackLeaks(r) ==
  /\ pc[r] = "failing"
  /\ pc' = [pc EXCEPT ![r] = "idle"]
  /\ UNCHANGED <<paystack, plan, sub, op, session, handled, orderly>>

\* The webhook answers 200 although its handler raised: no redelivery.
RollbackAcknowledged(r) ==
  /\ pc[r] = "failing"
  /\ handled' = IF op[r].pos = 0 THEN handled ELSE handled \cup {op[r].pos}
  /\ Close(r)
  /\ UNCHANGED <<paystack, plan, sub, orderly>>

\* get_db after an exception: the answer is an error, which Paystack retries.
Rollback(r) ==
  /\ pc[r] = "failing"
  /\ Close(r)
  /\ UNCHANGED <<paystack, plan, sub, handled, orderly>>

\* r and q wait for each other: PostgreSQL cancels one of the two statements.
DetectDeadlock(r) ==
  /\ pc[r] = "run"
  /\ \E q \in Blockers(r) : r \in Blockers(q)
  /\ Fail(r)
  /\ UNCHANGED <<paystack, plan, sub, op, seenPlan, seenSub, mineOrg, mineSub,
                 handled, orderly>>

\* The worker or its connection dies.
LoseConnection(r) ==
  /\ pc[r] = "run"
  /\ Close(r)
  /\ UNCHANGED <<paystack, plan, sub, handled, orderly>>

----------------------------------------------------------------------------
Progress(r) ==
  \/ LoadOrg(r)
  \/ LoadSub(r)
  \/ CallPaystack(r)
  \/ WriteOrg(r)
  \/ WriteSub(r)
  \/ DeleteOrg(r)
  \/ DetectDeadlock(r)
  \/ Commit(r)
  \/ Rollback(r)

Next ==
  \/ \E c \in Codes : Initialize(c) \/ Pay(c) \/ Subscribe(c)
  \/ \E c \in Codes : FailPayment(c) \/ Disable(c)
  \/ \E r \in Requests : Deliver(r) \/ Verify(r) \/ Manage(r)
  \/ \E r \in Requests : Progress(r)
  \/ \E r \in Requests : LoseConnection(r)

Spec == Init /\ [][Next]_vars

----------------------------------------------------------------------------
(* Properties. *)

Ops == [kind : {"charge", "create", "disable", "payfail", "verify"}, code : Codes,
        meta : BOOLEAN, pos : Nat]
         \cup [kind : {"cancel", "delete"}, code : {None}, meta : {FALSE}, pos : {0}]

\* Every variable has its type: a session only writes rows it has loaded or
\* creates (billing_service).
TypeOK ==
  /\ stage \in [Codes -> Stages]
  /\ log \in Seq(Event)
  /\ plan \in Tiers \cup {"gone"}
  /\ sub \in SubRow \cup {None}
  /\ op \in [Requests -> Ops \cup {None}]
  /\ pc \in [Requests -> Control]
  /\ seenPlan \in [Requests -> Tiers \cup {None}]
  /\ seenSub \in [Requests -> SubRow \cup {None}]
  /\ mineOrg \in [Requests -> Tiers \cup {"gone", None}]
  /\ mineSub \in [Requests -> SubRow \cup {None}]
  /\ handled \subseteq DOMAIN log
  /\ orderly \in BOOLEAN

\* However webhooks, verifications and cancellations interleave, and whatever
\* plan codes CODE_PLAN_MAP does not know, the organization only ever gets a tier
\* whose checkout was paid, and is only lowered to FREE once Paystack has
\* disabled a subscription (docs/issues/025).
PlanMovesWithPaystack ==
  [][plan' # plan =>
       \/ plan' = "gone"
       \/ \E c \in Codes : stage[c] \in Paid /\ plan' \in {PlanOf[c], NamedPlan[c]}
       \/ plan' = "free" /\ \E c \in Codes : stage[c] = "disabled"]_vars

\* However the redirect's verification, charge.success and subscription.create
\* of one checkout overlap, repeat, overtake or fail, once each event got
\* through the organization has the plan it paid for and an active record.
CheckoutSettles ==
  \A c \in Codes :
    /\ stage[c] = "active" /\ PlanOf[c] # "unknown" /\ NamedPlan[c] = PlanOf[c]
    /\ \A d \in Codes \ {c} : stage[d] = "none"
    /\ \A i \in DOMAIN log : log[i].kind # "payfail" /\ log[i].meta
    /\ handled = DOMAIN log /\ Idle /\ plan # "gone"
    => plan = PlanOf[c] /\ sub = [code |-> c, status |-> "active"]

\* Delivered one at a time and in order, with failures retried and the last
\* event repeated at will, the events leave plan and record as the last one says.
InOrderAgrees ==
  orderly /\ Idle /\ plan # "gone" /\ log # <<>> /\ handled = DOMAIN log =>
    LET e == log[Len(log)] IN
    /\ e.kind = "disable" =>
         plan = "free" /\ (sub # None /\ sub.code = e.code => sub.status = "canceled")
    /\ e.kind = "create" => sub = [code |-> e.code, status |-> "active"]
    /\ e.kind = "create" /\ PlanOf[e.code] # "unknown" => plan = PlanOf[e.code]
    /\ e.kind = "charge" /\ NamedPlan[e.code] # "unknown" =>
         plan \in {NamedPlan[e.code], PlanOf[e.code]}
    /\ e.kind = "payfail" /\ sub # None /\ sub.code = e.code => sub.status = "past_due"

\* The webhook for a checkout writes the record before the organization, its
\* verification the organization before the record; the database breaks the
\* tie, so that an open request never leaves all of them waiting for ever.
NoStandstill ==
  (\E r \in Requests : InFlight(r)) => \E r \in Requests : ENABLED Progress(r)

\* DOMAIN.md: "When canceled, the Organization's plan reverts to FREE".
CanceledIsFree ==
  sub # None /\ sub.status = "canceled" => plan = "free"

\* DOMAIN.md: "Deleting an Organization cascades to Memberships, Invitations,
\* Subscription": no deletion fails because of the subscription.
DeletionCascades ==
  \A r \in Requests :
    pc[r] = "failing" /\ op[r].kind = "delete" => seenSub[r] = None
=============================================================================
