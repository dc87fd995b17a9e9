-------------------------- MODULE BillingProofs ---------------------------
(***************************************************************************)
(* Proofs about module Billing: the types; that the plan of an organization*)
(* moves only as far as what Paystack was paid for, or has disabled,       *)
(* justifies; that a checkout settles, whichever way the redirect and the  *)
(* webhooks race; that plan and record agree while events come in order;   *)
(* and that some open request can always go on.                            *)
(***************************************************************************)
EXTENDS Billing, SequenceTheorems, FiniteSetTheorems, TLAPS

USE BillingAssumption

(***************************************************************************)
(* The inductive invariant about the plan.                                 *)
(***************************************************************************)
\* The database and network steps handlers are made of.
Steps == {"load_org", "load_sub", "call", "write_org", "write_sub", "delete_org"}

\* s is what is left of t after some steps.
Suffix(s, t) ==
  /\ Len(s) <= Len(t)
  /\ \A j \in 1 .. Len(s) : s[j] = t[Len(t) - Len(s) + j]

\* The kinds of webhook events.
Signals == {"charge", "create", "disable", "payfail"}

\* Paystack has got that far with checkout c when it says kind of it.
Vouched(kind, c) ==
  /\ kind \in {"charge", "verify"} => stage[c] \in Paid
  /\ kind \in {"create", "payfail"} => stage[c] \in {"active", "disabled"}
  /\ kind = "disable" => stage[c] = "disabled"

\* Paystack's side justifies that the organization gets plan p.
Backed(p) ==
  \/ \E c \in Codes : stage[c] \in Paid /\ p \in {PlanOf[c], NamedPlan[c]}
  \/ p = "free" /\ \E c \in Codes : stage[c] = "disabled" \/ NamedPlan[c] = "unknown"

\* Every event was true when it was produced and stays so.
EventInv == \A i \in DOMAIN log : Vouched(log[i].kind, log[i].code)

\* A request is about an event of the log, or about what Paystack answered to
\* verify.
About(r) ==
  /\ op[r] \in Ops
  /\ op[r].kind \in Signals =>
       /\ op[r].pos \in DOMAIN log
       /\ log[op[r].pos] = [kind |-> op[r].kind, code |-> op[r].code, meta |-> op[r].meta]
  /\ op[r].kind = "verify" => Vouched("verify", op[r].code) /\ op[r].pos = 0

\* A cancellation calls Paystack about the subscription it loaded, and writes
\* only once Paystack has disabled it.
CallsFirst(r) ==
  op[r].kind = "cancel" =>
    /\ Len(todo[r]) <= 3 => seenSub[r] # None
    /\ Len(todo[r]) <= 2 => stage[seenSub[r].code] = "disabled"

\* What a running request is about, and what it still has to do.
RunInv ==
  \A r \in Requests : pc[r] = "run" =>
    About(r) /\ Suffix(todo[r], Script(op[r])) /\ CallsFirst(r)

\* The row of the organization is written by one open transaction at a time.
OrgLock == \A r, q \in Requests : mineOrg[r] # None /\ mineOrg[q] # None => r = q

\* A pending plan is justified, or is the committed one written once more; and
\* its organization has not been deleted.
OrgInv ==
  \A r \in Requests : mineOrg[r] \notin {None, "gone"} =>
    /\ plan # "gone"
    /\ mineOrg[r] = plan \/ Backed(mineOrg[r])

\* A handler has a sequence of these steps to do.
TodoOK == todo \in [Requests -> Seq(Steps)]

\* All of it.
PlanInv ==
  /\ TypeOK
  /\ TodoOK
  /\ EventInv
  /\ RunInv
  /\ OrgLock
  /\ OrgInv

(***************************************************************************)
(* What the scripts of the handlers consist of.                            *)
(***************************************************************************)
\* The tail of an end of a script is one.
LEMMA TailSuffix ==
  ASSUME NEW S, NEW s \in Seq(S), NEW t \in Seq(S), s # <<>>, Suffix(s, t)
  PROVE  Tail(s) \in Seq(S) /\ Len(Tail(s)) = Len(s) - 1 /\ Suffix(Tail(s), t)
  BY DEF Suffix

\* Scripts are sequences of steps.
LEMMA ScriptSteps ==
  ASSUME NEW o \in Ops
  PROVE  Script(o) \in Seq(Steps)
<1>1. o.kind \in {"charge", "create", "disable", "payfail", "verify", "cancel", "delete"}
  BY DEF Ops
<1>2. CASE o.kind = "charge"
  <2>1. CASE o.meta
    BY <1>2, <2>1 DEF Script, Steps
  <2>2. CASE ~o.meta
    BY <1>2, <2>2 DEF Script, Steps
  <2> QED BY <2>1, <2>2
<1>3. CASE o.kind = "create"
  <2>1. CASE o.meta /\ PlanOf[o.code] # "unknown"
    BY <1>3, <2>1 DEF Script, Steps
  <2>2. CASE o.meta /\ PlanOf[o.code] = "unknown"
    BY <1>3, <2>2 DEF Script, Steps
  <2>3. CASE ~o.meta
    BY <1>3, <2>3 DEF Script, Steps
  <2> QED BY <2>1, <2>2, <2>3
<1>4. CASE o.kind = "disable"
  <2>1. CASE o.meta
    BY <1>4, <2>1 DEF Script, Steps
  <2>2. CASE ~o.meta
    BY <1>4, <2>2 DEF Script, Steps
  <2> QED BY <2>1, <2>2
<1>5. CASE o.kind = "payfail"
  BY <1>5 DEF Script, Steps
<1>6. CASE o.kind = "verify"
  <2>1. CASE o.meta
    BY <1>6, <2>1 DEF Script, Steps
  <2>2. CASE ~o.meta
    BY <1>6, <2>2 DEF Script, Steps
  <2> QED BY <2>1, <2>2
<1>7. CASE o.kind = "cancel"
  BY <1>7 DEF Script, Steps
<1>8. CASE o.kind = "delete"
  BY <1>8 DEF Script, Steps
<1> QED BY <1>1, <1>2, <1>3, <1>4, <1>5, <1>6, <1>7, <1>8

\* Which handlers reach which steps.
LEMMA StepFacts ==
  ASSUME NEW o \in Ops, NEW s \in Seq(Steps), s # <<>>, Suffix(s, Script(o))
  PROVE  /\ Head(s) = "write_org" => o.kind \in {"charge", "create", "disable", "verify", "cancel"}
         /\ Head(s) = "write_sub" => o.kind \in {"create", "disable", "payfail", "verify", "cancel"}
         /\ Head(s) = "load_sub" => o.kind # "charge"
         /\ Head(s) = "call" => o.kind = "cancel"
         /\ Head(s) = "delete_org" => o.kind = "delete"
<1>1. o.kind \in {"charge", "create", "disable", "payfail", "verify", "cancel", "delete"}
  BY DEF Ops
<1>2. \E k \in 1 .. Len(Script(o)) : Head(s) = Script(o)[k]
  BY ScriptSteps DEF Suffix
<1>3. CASE o.kind = "charge"
  BY <1>2, <1>3 DEF Script
<1>4. CASE o.kind = "create"
  BY <1>2, <1>4 DEF Script
<1>5. CASE o.kind = "disable"
  BY <1>2, <1>5 DEF Script
<1>6. CASE o.kind = "payfail"
  BY <1>2, <1>6 DEF Script
<1>7. CASE o.kind = "verify"
  BY <1>2, <1>7 DEF Script
<1>8. CASE o.kind = "cancel"
  BY <1>2, <1>8 DEF Script
<1>9. CASE o.kind = "delete"
  BY <1>2, <1>9 DEF Script
<1> QED BY <1>1, <1>3, <1>4, <1>5, <1>6, <1>7, <1>8, <1>9

\* Where a cancellation stands, by the steps it has left.
LEMMA CancelSteps ==
  ASSUME NEW o \in Ops, o.kind = "cancel", NEW s \in Seq(Steps), s # <<>>, Suffix(s, Script(o))
  PROVE  /\ Len(s) \in 1 .. 5
         /\ Head(s) = "load_org" <=> Len(s) = 5
         /\ Head(s) = "load_sub" <=> Len(s) = 4
         /\ Head(s) = "call" <=> Len(s) = 3
         /\ Head(s) = "write_org" <=> Len(s) = 2
         /\ Head(s) = "write_sub" <=> Len(s) = 1
<1>1. Script(o) = <<"load_org", "load_sub", "call", "write_org", "write_sub">>
  BY DEF Script
<1>2. Suffix(s, <<"load_org", "load_sub", "call", "write_org", "write_sub">>)
  BY <1>1
<1>3. Len(s) <= 5
  BY <1>2 DEF Suffix
<1>4. Len(s) \in Nat \ {0} /\ Head(s) = s[1]
  OBVIOUS
<1> DEFINE n == Len(s)
<1>5. n \in {1, 2, 3, 4, 5}
  <2>1. n \in Nat \ {0} /\ n <= 5
    BY <1>3, <1>4
  <2> HIDE DEF n
  <2> QED BY <2>1
<1>6. Head(s) = Script(o)[6 - Len(s)]
  BY <1>1, <1>5, <1>4 DEF Suffix
<1>7. CASE Len(s) = 1
  BY <1>1, <1>5, <1>6, <1>7
<1>8. CASE Len(s) = 2
  BY <1>1, <1>5, <1>6, <1>8
<1>9. CASE Len(s) = 3
  BY <1>1, <1>5, <1>6, <1>9
<1>10. CASE Len(s) = 4
  BY <1>1, <1>5, <1>6, <1>10
<1>11. CASE Len(s) = 5
  BY <1>1, <1>5, <1>6, <1>11
<1> QED BY <1>5, <1>7, <1>8, <1>9, <1>10, <1>11

\* No script ends with the load of the organization.
LEMMA LastStep ==
  ASSUME NEW o \in Ops, NEW s \in Seq(Steps), s # <<>>, Suffix(s, Script(o)),
         Head(s) = "load_org"
  PROVE  Tail(s) \in Seq(Steps) /\ Tail(s) # <<>>
<1> DEFINE t == Script(o)
<1>1. t \in Seq(Steps) /\ Len(s) <= Len(t) /\ Len(s) \in Nat \ {0}
  BY ScriptSteps DEF Suffix
<1>2. s[Len(s)] = t[Len(t)]
  BY <1>1 DEF Suffix
<1>3. t[Len(t)] # "load_org"
  <2>1. o.kind \in {"charge", "create", "disable", "payfail", "verify", "cancel", "delete"}
    BY DEF Ops
  <2>2. Len(t) # 0
    BY <1>1
  <2>3. o.kind \in {"charge", "create", "payfail"} => t[Len(t)] # "load_org"
    BY <2>2 DEF Script
  <2>4. o.kind \in {"disable", "verify"} => t[Len(t)] # "load_org"
    BY <2>2 DEF Script
  <2>5. o.kind \in {"cancel", "delete"} => t[Len(t)] # "load_org"
    BY <2>2 DEF Script
  <2> QED BY <2>1, <2>3, <2>4, <2>5
<1>4. Head(s) = s[1]
  BY <1>1
<1>5. Len(s) # 1
  BY <1>1, <1>2, <1>3, <1>4
<1>6. Tail(s) \in Seq(Steps) /\ Len(Tail(s)) = Len(s) - 1
  BY <1>1
<1>7. PICK n \in Nat : n = Len(s)
  BY <1>1
<1>8. n - 1 # 0
  BY <1>1, <1>5, <1>7
<1> QED BY <1>6, <1>7, <1>8

(***************************************************************************)
(* Paystack only adds to its log and moves checkouts forwards.             *)
(***************************************************************************)
Grows ==
  /\ log' \in Seq(Event)
  /\ DOMAIN log \subseteq DOMAIN log'
  /\ \A i \in DOMAIN log : log'[i] = log[i]

Advances ==
  /\ stage' \in [Codes -> Stages]
  /\ \A c \in Codes :
       /\ stage[c] # "none" => stage'[c] # "none"
       /\ stage[c] \in Paid => stage'[c] \in Paid
       /\ stage[c] \in {"active", "disabled"} => stage'[c] \in {"active", "disabled"}
       /\ stage[c] = "disabled" => stage'[c] = "disabled"

LEMMA VouchedStays ==
  ASSUME Advances, NEW c \in Codes, NEW kind, Vouched(kind, c)
  PROVE  Vouched(kind, c)'
  BY DEF Advances, Vouched

LEMMA BackedStays ==
  ASSUME Advances, NEW p, Backed(p)
  PROVE  Backed(p)'
  BY DEF Advances, Backed

LEMMA EventInvStays ==
  ASSUME TypeOK, EventInv, Advances, NEW c \in Codes,
         NEW kind \in {"charge", "create", "disable", "payfail"}, Emit(kind, c), Vouched(kind, c)'
  PROVE  Grows /\ EventInv'
<1>1. PICK m \in Metadata : log' = Append(log, [kind |-> kind, code |-> c, meta |-> m])
  BY DEF Emit
<1> DEFINE e == [kind |-> kind, code |-> c, meta |-> m]
<1>2. e \in Event /\ log \in Seq(Event)
  BY DEF Event, TypeOK
<1> HIDE DEF e
<1>3. Grows
  BY <1>1, <1>2 DEF Grows, e
<1>4. DOMAIN log' = DOMAIN log \cup {Len(log) + 1} /\ log'[Len(log) + 1] = e
  BY <1>1, <1>2 DEF e
<1>5. \A i \in DOMAIN log : Vouched(log[i].kind, log[i].code)'
  <2> TAKE i \in DOMAIN log
  <2>1. log[i] \in Event /\ log'[i] = log[i]
    BY <1>2, <1>3 DEF Grows
  <2>2. Vouched(log[i].kind, log[i].code)
    BY DEF EventInv
  <2> QED BY <2>1, <2>2 DEF Vouched, Advances, Event, Paid
<1>6. Vouched(e.kind, e.code)'
  BY DEF e
<1>7. EventInv'
  BY <1>4, <1>5, <1>6 DEF EventInv
<1> QED BY <1>3, <1>7

\* A step of Paystack itself, and one of request r.
PaystackStep(c) ==
  Initialize(c) \/ Pay(c) \/ Subscribe(c) \/ FailPayment(c) \/ Disable(c)
RequestStep(r) ==
  Deliver(r) \/ Verify(r) \/ Manage(r) \/ Progress(r) \/ LoseConnection(r)

LEMMA NextSteps ==
  ASSUME Next
  PROVE  (\E c \in Codes : PaystackStep(c)) \/ (\E r \in Requests : RequestStep(r))
  BY DEF Next, PaystackStep, RequestStep

LEMMA CallFacts ==
  ASSUME PlanInv, NEW r \in Requests, At(r, "call")
  PROVE  op[r].kind = "cancel" /\ Len(todo[r]) = 3 /\ seenSub[r] \in SubRow
                               /\ seenSub[r].code \in Codes
<1>1. op[r] \in Ops /\ todo[r] \in Seq(Steps) /\ todo[r] # <<>> /\ Head(todo[r]) = "call"
      /\ Suffix(todo[r], Script(op[r])) /\ CallsFirst(r)
  BY DEF PlanInv, RunInv, At, About, TodoOK
<1>2. op[r].kind = "cancel"
  BY <1>1, StepFacts
<1>3. Len(todo[r]) = 3
  BY <1>1, <1>2, CancelSteps
<1>4. seenSub[r] # None
  BY <1>1, <1>2, <1>3 DEF CallsFirst
<1>5. seenSub[r] \in SubRow
  BY <1>4 DEF PlanInv, TypeOK
<1> QED BY <1>2, <1>3, <1>5 DEF SubRow

LEMMA SameEvents ==
  ASSUME TypeOK, EventInv, UNCHANGED log, Advances
  PROVE  Grows /\ EventInv'
<1>1. Grows
  BY DEF Grows, TypeOK
<1>2. ASSUME NEW i \in DOMAIN log
      PROVE  Vouched(log[i].kind, log[i].code)'
  <2>1. log[i] \in Event
    BY DEF TypeOK
  <2> QED BY <2>1 DEF Vouched, Advances, Event, Paid, EventInv
<1> QED BY <1>1, <1>2 DEF EventInv

LEMMA PaystackMoves ==
  ASSUME PlanInv, NEW c \in Codes, PaystackStep(c)
  PROVE  Advances /\ Grows /\ EventInv'
<1> USE DEF PlanInv
<1>1. stage \in [Codes -> Stages]
  BY DEF TypeOK
<1>2. CASE Initialize(c)
  <2>1. Advances
    BY <1>1, <1>2 DEF Initialize, Advances, Stages, Paid
  <2> QED BY <1>2, <2>1, SameEvents DEF Initialize
<1>3. CASE Pay(c)
  <2>1. Advances /\ stage'[c] = "paid"
    BY <1>1, <1>3 DEF Pay, Advances, Stages, Paid
  <2>2. Vouched("charge", c)'
    BY <2>1 DEF Vouched, Paid
  <2>3. Emit("charge", c)
    BY <1>3 DEF Pay
  <2> QED BY <2>1, <2>2, <2>3, EventInvStays
<1>4. CASE Subscribe(c)
  <2>1. Advances /\ stage'[c] = "active"
    BY <1>1, <1>4 DEF Subscribe, Advances, Stages, Paid
  <2>2. Vouched("create", c)'
    BY <2>1 DEF Vouched, Paid
  <2>3. Emit("create", c)
    BY <1>4 DEF Subscribe
  <2> QED BY <2>1, <2>2, <2>3, EventInvStays
<1>5. CASE FailPayment(c)
  <2>1. Advances /\ stage'[c] = "active"
    BY <1>1, <1>5 DEF FailPayment, Advances, Stages, Paid
  <2>2. Vouched("payfail", c)'
    BY <2>1 DEF Vouched, Paid
  <2>3. Emit("payfail", c)
    BY <1>5 DEF FailPayment
  <2> QED BY <2>1, <2>2, <2>3, EventInvStays
<1>6. CASE Disable(c)
  <2>1. Advances /\ stage'[c] = "disabled"
    BY <1>1, <1>6 DEF Disable, Advances, Stages, Paid
  <2>2. Vouched("disable", c)'
    BY <2>1 DEF Vouched, Paid
  <2>3. Emit("disable", c)
    BY <1>6 DEF Disable
  <2> QED BY <2>1, <2>2, <2>3, EventInvStays
<1> QED BY <1>2, <1>3, <1>4, <1>5, <1>6 DEF PaystackStep

LEMMA NoPaystack ==
  ASSUME PlanInv, UNCHANGED paystack
  PROVE  Advances /\ Grows /\ EventInv'
<1>1. stage' = stage /\ log' = log
  BY DEF paystack
<1>2. Advances
  BY <1>1 DEF PlanInv, TypeOK, Advances
<1> QED BY <1>1, <1>2, SameEvents DEF PlanInv

LEMMA RequestMoves ==
  ASSUME PlanInv, NEW r \in Requests, RequestStep(r)
  PROVE  Advances /\ Grows /\ EventInv'
<1>1. CASE CallPaystack(r)
  <2>1. PICK c \in Codes : c = seenSub[r].code
    BY <1>1, CallFacts DEF CallPaystack
  <2>2. CASE stage[c] = "active" /\ stage' = [stage EXCEPT ![c] = "disabled"] /\ Emit("disable", c)
    <3>1. stage \in [Codes -> Stages]
      BY DEF PlanInv, TypeOK
    <3>2. Advances /\ stage'[c] = "disabled"
      BY <2>1, <2>2, <3>1 DEF Advances, Stages, Paid
    <3>3. Vouched("disable", c)'
      BY <3>2 DEF Vouched, Paid
    <3> QED BY <2>1, <2>2, <3>2, <3>3, EventInvStays DEF PlanInv
  <2>3. CASE UNCHANGED paystack
    BY <2>3, NoPaystack
  <2> QED BY <1>1, <2>1, <2>2, <2>3 DEF CallPaystack
<1>2. CASE ~CallPaystack(r)
  <2>1. CASE Deliver(r) \/ Verify(r) \/ Manage(r)
    BY <2>1, NoPaystack DEF Deliver, Verify, Manage, Begin
  <2>2. CASE LoadOrg(r) \/ LoadSub(r) \/ WriteOrg(r) \/ WriteSub(r) \/ DeleteOrg(r)
    BY <2>2, NoPaystack DEF LoadOrg, LoadSub, WriteOrg, WriteSub, DeleteOrg
  <2>3. CASE DetectDeadlock(r) \/ Commit(r) \/ Rollback(r) \/ LoseConnection(r)
    BY <2>3, NoPaystack DEF DetectDeadlock, Commit, Rollback, LoseConnection
  <2> QED BY <1>2, <2>1, <2>2, <2>3 DEF RequestStep, Progress
<1> QED BY <1>1, <1>2

\* What the other requests are about and have loaded and written stays.
Others(r) ==
  \A q \in Requests \ {r} :
    /\ op'[q] = op[q] /\ pc'[q] = pc[q] /\ todo'[q] = todo[q]
    /\ seenPlan'[q] = seenPlan[q] /\ seenSub'[q] = seenSub[q]
    /\ mineOrg'[q] = mineOrg[q] /\ mineSub'[q] = mineSub[q]

LEMMA OthersStay ==
  ASSUME TypeOK, TodoOK, NEW r \in Requests, RequestStep(r)
  PROVE  Others(r)
<1> USE DEF TypeOK, TodoOK, Others, Advance, Fail
<1>1. CASE Deliver(r)
  BY <1>1 DEF Deliver, Begin
<1>2. CASE Verify(r)
  BY <1>2 DEF Verify, Begin
<1>3. CASE Manage(r)
  BY <1>3 DEF Manage, Begin
<1>4. CASE LoadOrg(r)
  BY <1>4 DEF LoadOrg
<1>5. CASE LoadSub(r)
  BY <1>5 DEF LoadSub
<1>6. CASE CallPaystack(r)
  BY <1>6 DEF CallPaystack
<1>7. CASE WriteOrg(r)
  BY <1>7 DEF WriteOrg
<1>8. CASE WriteSub(r)
  BY <1>8 DEF WriteSub
<1>9. CASE DeleteOrg(r)
  BY <1>9 DEF DeleteOrg
<1>10. CASE DetectDeadlock(r)
  BY <1>10 DEF DetectDeadlock
<1>11. CASE Commit(r)
  BY <1>11 DEF Commit, Close
<1>12. CASE Rollback(r)
  BY <1>12 DEF Rollback, Close
<1>13. CASE LoseConnection(r)
  BY <1>13 DEF LoseConnection, Close
<1> QED BY <1>1, <1>2, <1>3, <1>4, <1>5, <1>6, <1>7, <1>8, <1>9, <1>10, <1>11, <1>12, <1>13
        DEF RequestStep, Progress

(***************************************************************************)
(* What a running request is about and still has to do.                    *)
(***************************************************************************)
LEMMA RunningFacts ==
  ASSUME PlanInv, NEW r \in Requests, pc[r] = "run"
  PROVE  /\ op[r] \in Ops /\ About(r) /\ CallsFirst(r)
         /\ todo[r] \in Seq(Steps) /\ Suffix(todo[r], Script(op[r]))
         /\ Script(op[r]) \in Seq(Steps)
  BY ScriptSteps DEF PlanInv, RunInv, About, TodoOK

LEMMA AboutStays ==
  ASSUME Advances, Grows, NEW r \in Requests, About(r), op'[r] = op[r]
  PROVE  About(r)'
<1>1. op'[r] \in Ops
  BY DEF About
<1>2. op[r].kind \in Signals =>
        op[r].pos \in DOMAIN log' /\ log'[op[r].pos] = log[op[r].pos]
  BY DEF About, Grows
<1>3. op[r].kind = "verify" => Vouched("verify", op[r].code)'
  BY DEF About, Ops, Vouched, Advances
<1> QED BY <1>1, <1>2, <1>3 DEF About

LEMMA CallsFirstStays ==
  ASSUME PlanInv, Advances, NEW r \in Requests, CallsFirst(r),
         op'[r] = op[r], todo'[r] = todo[r], seenSub'[r] = seenSub[r]
  PROVE  CallsFirst(r)'
<1>1. todo[r] \in Seq(Steps) /\ seenSub[r] \in SubRow \cup {None}
  BY DEF PlanInv, TodoOK, TypeOK
<1>2. Len(todo[r]) \in Nat
  BY <1>1
<1>3. ASSUME op[r].kind = "cancel", Len(todo[r]) <= 2
      PROVE  stage'[seenSub[r].code] = "disabled"
  <2>1. seenSub[r] \in SubRow /\ stage[seenSub[r].code] = "disabled"
    BY <1>1, <1>2, <1>3 DEF CallsFirst
  <2> QED BY <2>1 DEF Advances, SubRow
<1> QED BY <1>3 DEF CallsFirst

LEMMA OthersRun ==
  ASSUME PlanInv, Advances, Grows, NEW r \in Requests, Others(r),
         pc'[r] = "run" =>
           About(r)' /\ Suffix(todo'[r], Script(op'[r])) /\ CallsFirst(r)'
  PROVE  RunInv'
<1>1. ASSUME NEW q \in Requests \ {r}, pc'[q] = "run"
      PROVE  About(q)' /\ Suffix(todo'[q], Script(op'[q])) /\ CallsFirst(q)'
  <2>1. /\ pc[q] = "run" /\ op'[q] = op[q] /\ todo'[q] = todo[q] /\ seenSub'[q] = seenSub[q]
    BY <1>1 DEF Others
  <2>2. About(q) /\ CallsFirst(q) /\ Suffix(todo[q], Script(op[q]))
    BY <2>1, RunningFacts
  <2>3. About(q)'
    BY <2>1, <2>2, AboutStays
  <2>4. CallsFirst(q)'
    BY <2>1, <2>2, CallsFirstStays
  <2>5. Suffix(todo'[q], Script(op'[q]))
    BY <2>1, <2>2
  <2> QED BY <2>3, <2>4, <2>5
<1>2. RunInv' = \A q \in Requests : pc'[q] = "run" =>
                   About(q)' /\ Suffix(todo'[q], Script(op'[q])) /\ CallsFirst(q)'
  BY DEF RunInv, Script, Suffix
<1> QED BY <1>1, <1>2

\* What a request that begins is about, and the whole of its script to do.
LEMMA BeginRun ==
  ASSUME PlanInv, UNCHANGED paystack, NEW r \in Requests, NEW o \in Ops, Begin(r, o),
         o.kind \in Signals =>
           /\ o.pos \in DOMAIN log
           /\ log[o.pos] = [kind |-> o.kind, code |-> o.code, meta |-> o.meta],
         o.kind = "verify" => Vouched("verify", o.code) /\ o.pos = 0
  PROVE  About(r)' /\ Suffix(todo'[r], Script(op'[r])) /\ CallsFirst(r)'
<1>1. op'[r] = o /\ todo'[r] = Script(o)
  BY DEF Begin, PlanInv, TypeOK, TodoOK
<1>2. stage' = stage /\ log' = log
  BY DEF paystack
<1>3. About(r)'
  BY <1>1, <1>2 DEF About, Vouched
<1>4. Script(o) \in Seq(Steps)
  BY ScriptSteps
<1>5. Suffix(Script(o), Script(o))
  BY <1>4 DEF Suffix
<1>6. o.kind = "cancel" => Script(o) = <<"load_org", "load_sub", "call", "write_org", "write_sub">>
  BY DEF Script
<1>7. CallsFirst(r)'
  <2>1. CASE o.kind # "cancel"
    BY <1>1, <2>1 DEF CallsFirst
  <2>2. CASE o.kind = "cancel"
    <3>1. todo'[r] = <<"load_org", "load_sub", "call", "write_org", "write_sub">>
      BY <1>1, <1>6, <2>2
    <3>2. Len(todo'[r]) = 5
      BY <3>1
    <3> QED BY <3>2 DEF CallsFirst
  <2> QED BY <2>1, <2>2
<1> QED BY <1>1, <1>3, <1>5, <1>7

\* A request that took a step other than the call still has the rest to do.
LEMMA AdvanceRun ==
  ASSUME PlanInv, Advances, Grows, NEW r \in Requests, pc[r] = "run",
         todo[r] # <<>>, todo'[r] = Tail(todo[r]), op'[r] = op[r],
         op[r].kind = "cancel" =>
           /\ Head(todo[r]) = "call" => stage'[seenSub[r].code] = "disabled"
           /\ Head(todo[r]) = "load_sub" => seenSub'[r] # None
           /\ Head(todo[r]) # "load_sub" => seenSub'[r] = seenSub[r]
  PROVE  About(r)' /\ Suffix(todo'[r], Script(op'[r])) /\ CallsFirst(r)'
<1>1. /\ op[r] \in Ops /\ About(r) /\ CallsFirst(r)
      /\ todo[r] \in Seq(Steps) /\ Suffix(todo[r], Script(op[r]))
      /\ Script(op[r]) \in Seq(Steps)
  BY RunningFacts
<1>2. About(r)'
  BY <1>1, AboutStays
<1>3. Len(Tail(todo[r])) = Len(todo[r]) - 1 /\ Suffix(Tail(todo[r]), Script(op[r]))
  BY <1>1, TailSuffix
<1>4. ASSUME op[r].kind = "cancel"
      PROVE  CallsFirst(r)'
  <2>1. PICK n \in 1 .. 5 :
          /\ Len(todo[r]) = n
          /\ Head(todo[r]) = "load_sub" <=> n = 4
          /\ Head(todo[r]) = "call" <=> n = 3
    BY <1>1, <1>4, CancelSteps
  <2>2. Len(todo'[r]) = n - 1
    BY <1>3, <2>1
  <2>3. n <= 3 => seenSub[r] # None
    BY <1>1, <1>4, <2>1 DEF CallsFirst
  <2>4. n <= 2 => stage[seenSub[r].code] = "disabled"
    BY <1>1, <1>4, <2>1 DEF CallsFirst
  <2>5. n # 4 => seenSub'[r] = seenSub[r]
    BY <1>4, <2>1
  <2>6. n = 4 => seenSub'[r] # None
    BY <1>4, <2>1
  <2>7. n - 1 <= 3 => seenSub'[r] # None
    BY <2>3, <2>5, <2>6
  <2>8. n = 3 => stage'[seenSub[r].code] = "disabled"
    BY <1>4, <2>1
  <2>9. n <= 2 => stage'[seenSub[r].code] = "disabled"
    <3>1. n <= 2 => seenSub[r].code \in Codes
      BY <2>3 DEF PlanInv, TypeOK, SubRow
    <3> QED BY <2>4, <3>1 DEF Advances
  <2>10. n - 1 <= 2 => stage'[seenSub'[r].code] = "disabled"
    BY <2>5, <2>8, <2>9
  <2> QED BY <2>2, <2>7, <2>10 DEF CallsFirst
<1>5. CallsFirst(r)'
  <2>1. CASE op[r].kind = "cancel"
    BY <1>4, <2>1
  <2>2. CASE op[r].kind # "cancel"
    BY <2>2 DEF CallsFirst
  <2> QED BY <2>1, <2>2
<1> QED BY <1>2, <1>3, <1>5

\* What LoadOrg leaves to do when there is no organization: a webhook skips
\* the flush after the load.
LEMMA LoadOrgSkips ==
  ASSUME PlanInv, NEW r \in Requests, At(r, "load_org")
  PROVE  /\ Tail(todo[r]) \in Seq(Steps) /\ Tail(todo[r]) # <<>>
         /\ Suffix(Tail(todo[r]), Script(op[r]))
         /\ Tail(Tail(todo[r])) \in Seq(Steps)
         /\ Suffix(Tail(Tail(todo[r])), Script(op[r]))
<1>1. /\ op[r] \in Ops /\ todo[r] \in Seq(Steps) /\ todo[r] # <<>>
      /\ Suffix(todo[r], Script(op[r])) /\ Script(op[r]) \in Seq(Steps)
      /\ Head(todo[r]) = "load_org"
  BY RunningFacts DEF At
<1>2. Tail(todo[r]) \in Seq(Steps) /\ Tail(todo[r]) # <<>> /\ Suffix(Tail(todo[r]), Script(op[r]))
  BY <1>1, LastStep, TailSuffix
<1> QED BY <1>1, <1>2, TailSuffix

LEMMA TodoStep ==
  ASSUME PlanInv, NEW r \in Requests, RequestStep(r)
  PROVE  TodoOK'
<1> USE DEF TodoOK, Advance, Fail
<1>1. todo \in [Requests -> Seq(Steps)]
  BY DEF PlanInv
<1>2. ASSUME NEW o \in Ops, Begin(r, o)
      PROVE  TodoOK'
  BY <1>1, <1>2, ScriptSteps DEF Begin
<1>3. CASE Deliver(r)
  <2>1. PICK i \in DOMAIN log :
          Begin(r, [kind |-> log[i].kind, code |-> log[i].code, meta |-> log[i].meta, pos |-> i])
    BY <1>3 DEF Deliver
  <2>2. log[i] \in Event /\ i \in Nat
    BY DEF PlanInv, TypeOK
  <2>3. [kind |-> log[i].kind, code |-> log[i].code, meta |-> log[i].meta, pos |-> i] \in Ops
    BY <2>2 DEF Event, Ops
  <2> QED BY <1>2, <2>1, <2>3
<1>4. CASE Verify(r)
  <2>1. PICK c \in Codes, named \in BOOLEAN, m \in Metadata :
          Begin(r, [kind |-> "verify", code |-> c, meta |-> named, pos |-> 0])
    BY <1>4 DEF Verify
  <2>2. [kind |-> "verify", code |-> c, meta |-> named, pos |-> 0] \in Ops
    BY DEF Ops
  <2> QED BY <1>2, <2>1, <2>2
<1>5. CASE Manage(r)
  <2>1. PICK kind \in {"cancel", "delete"} :
          Begin(r, [kind |-> kind, code |-> None, meta |-> FALSE, pos |-> 0])
    BY <1>5 DEF Manage
  <2>2. [kind |-> kind, code |-> None, meta |-> FALSE, pos |-> 0] \in Ops
    BY DEF Ops
  <2> QED BY <1>2, <2>1, <2>2
<1>6. CASE Advance(r) /\ todo[r] # <<>>
  <2>1. Tail(todo[r]) \in Seq(Steps)
    BY <1>1, <1>6
  <2> QED BY <1>1, <1>6, <2>1
<1>7. CASE UNCHANGED todo
  BY <1>1, <1>7
<1>8. CASE LoadOrg(r)
  <2>1. CASE todo' = [todo EXCEPT ![r] = Tail(Tail(@))]
    BY <1>1, <1>8, <2>1, LoadOrgSkips DEF LoadOrg
  <2> QED BY <1>6, <1>7, <1>8, <2>1 DEF LoadOrg, At
<1>9. CASE LoadSub(r) \/ CallPaystack(r) \/ WriteOrg(r) \/ WriteSub(r) \/ DeleteOrg(r)
  BY <1>6, <1>7, <1>9 DEF LoadSub, CallPaystack, WriteOrg, WriteSub, DeleteOrg, At
<1>10. CASE DetectDeadlock(r)
  BY <1>7, <1>10 DEF DetectDeadlock
<1>11. CASE Commit(r) \/ Rollback(r) \/ LoseConnection(r)
  <2>1. todo' = [todo EXCEPT ![r] = <<>>]
    BY <1>11 DEF Commit, Rollback, LoseConnection, Close
  <2>2. <<>> \in Seq(Steps)
    OBVIOUS
  <2> QED BY <1>1, <2>1, <2>2
<1> QED BY <1>3, <1>4, <1>5, <1>8, <1>9, <1>10, <1>11 DEF RequestStep, Progress

LEMMA RunStep ==
  ASSUME PlanInv, NEW r \in Requests, RequestStep(r)
  PROVE  RunInv'
<1>1. Advances /\ Grows /\ Others(r)
  BY RequestMoves, OthersStay DEF PlanInv
<1>2. /\ op \in [Requests -> Ops \cup {None}] /\ pc \in [Requests -> Control]
      /\ seenSub \in [Requests -> SubRow \cup {None}]
      /\ todo \in [Requests -> Seq(Steps)] /\ log \in Seq(Event)
  BY DEF PlanInv, TypeOK, TodoOK
<1>3. CASE Deliver(r)
  <2>1. PICK i \in DOMAIN log :
          Begin(r, [kind |-> log[i].kind, code |-> log[i].code, meta |-> log[i].meta, pos |-> i])
    BY <1>3 DEF Deliver
  <2>2. log[i] \in Event /\ i \in Nat
    BY <1>2
  <2> DEFINE o == [kind |-> log[i].kind, code |-> log[i].code, meta |-> log[i].meta, pos |-> i]
  <2>3. o \in Ops
    BY <2>2 DEF Event, Ops
  <2>4. log[i] = [kind |-> log[i].kind, code |-> log[i].code, meta |-> log[i].meta]
    BY <2>2 DEF Event
  <2>5. log[o.pos] = [kind |-> o.kind, code |-> o.code, meta |-> o.meta] /\ o.pos \in DOMAIN log
    BY <2>4
  <2>6. o.kind # "verify"
    BY <2>2 DEF Event
  <2>7. PICK p \in Ops : p = o
    BY <2>3
  <2>8. Begin(r, p) /\ UNCHANGED paystack
    BY <2>1, <2>7 DEF Begin
  <2>9. p.kind # "verify" /\ p.pos \in DOMAIN log
        /\ log[p.pos] = [kind |-> p.kind, code |-> p.code, meta |-> p.meta]
    BY <2>5, <2>6, <2>7
  <2> HIDE DEF o
  <2>10. About(r)' /\ Suffix(todo'[r], Script(op'[r])) /\ CallsFirst(r)'
    BY <2>8, <2>9, BeginRun
  <2> QED BY <1>1, <2>10, OthersRun
<1>4. CASE Verify(r)
  <2>1. PICK c \in Codes, named \in BOOLEAN, m \in Metadata :
          /\ Begin(r, [kind |-> "verify", code |-> c, meta |-> named, pos |-> 0])
          /\ pc' = [pc EXCEPT ![r] = IF stage[c] \in Paid /\ m THEN "run" ELSE "failing"]
    BY <1>4 DEF Verify
  <2> DEFINE o == [kind |-> "verify", code |-> c, meta |-> named, pos |-> 0]
  <2>2. o \in Ops
    BY DEF Ops
  <2>3. CASE stage[c] \in Paid
    <3>1. Vouched("verify", o.code) /\ o.pos = 0 /\ o.kind = "verify" /\ UNCHANGED paystack
      BY <2>1, <2>3 DEF Vouched, Begin
    <3>2. Begin(r, o)
      BY <2>1
    <3> HIDE DEF o
    <3>3. About(r)' /\ Suffix(todo'[r], Script(op'[r])) /\ CallsFirst(r)'
      BY <2>2, <3>1, <3>2, BeginRun DEF Signals
    <3> QED BY <1>1, <3>3, OthersRun
  <2>4. CASE stage[c] \notin Paid
    <3>1. pc'[r] = "failing"
      BY <1>2, <2>1, <2>4
    <3> QED BY <1>1, <3>1, OthersRun
  <2> QED BY <2>3, <2>4
<1>5. CASE Manage(r)
  <2>1. PICK kind \in {"cancel", "delete"} :
          Begin(r, [kind |-> kind, code |-> None, meta |-> FALSE, pos |-> 0])
    BY <1>5 DEF Manage
  <2> DEFINE o == [kind |-> kind, code |-> None, meta |-> FALSE, pos |-> 0]
  <2>2. o \in Ops /\ o.kind \notin Signals /\ o.kind # "verify"
    BY DEF Ops, Signals
  <2>3. Begin(r, o) /\ UNCHANGED paystack
    BY <2>1 DEF Begin
  <2> HIDE DEF o
  <2>4. About(r)' /\ Suffix(todo'[r], Script(op'[r])) /\ CallsFirst(r)'
    BY <2>2, <2>3, BeginRun
  <2> QED BY <1>1, <2>4, OthersRun
<1>6. CASE LoadOrg(r)
  <2>1. pc[r] = "run" /\ todo[r] # <<>> /\ op'[r] = op[r] /\ seenSub'[r] = seenSub[r]
        /\ Head(todo[r]) = "load_org"
    BY <1>6 DEF LoadOrg, At
  <2>2. CASE Advance(r)
    <3>1. todo'[r] = Tail(todo[r])
      BY <1>2, <2>2 DEF Advance
    <3>2. About(r)' /\ Suffix(todo'[r], Script(op'[r])) /\ CallsFirst(r)'
      BY <1>1, <2>1, <3>1, AdvanceRun
    <3> QED BY <1>1, <3>2, OthersRun
  <2>3. CASE Fail(r)
    <3>1. pc'[r] = "failing"
      BY <1>2, <2>3 DEF Fail
    <3> QED BY <1>1, <3>1, OthersRun
  <2>4. CASE op[r].kind \notin {"verify", "cancel", "delete"}
             /\ todo' = [todo EXCEPT ![r] = Tail(Tail(@))]
    <3>1. todo'[r] = Tail(Tail(todo[r]))
      BY <1>2, <2>4
    <3>2. Suffix(todo'[r], Script(op'[r]))
      BY <1>6, <2>1, <3>1, LoadOrgSkips DEF LoadOrg
    <3>3. About(r)'
      BY <1>1, <2>1, RunningFacts, AboutStays
    <3>4. CallsFirst(r)'
      BY <2>1, <2>4 DEF CallsFirst
    <3> QED BY <1>1, <3>2, <3>3, <3>4, OthersRun
  <2> QED BY <1>6, <2>2, <2>3, <2>4 DEF LoadOrg
<1>7. CASE LoadSub(r)
  <2>1. pc[r] = "run" /\ todo[r] # <<>> /\ op'[r] = op[r] /\ Head(todo[r]) = "load_sub"
    BY <1>7 DEF LoadSub, At
  <2>2. CASE Fail(r)
    <3>1. pc'[r] = "failing"
      BY <1>2, <2>2 DEF Fail
    <3> QED BY <1>1, <3>1, OthersRun
  <2>3. CASE ~Fail(r)
    <3>1. Advance(r) /\ (op[r].kind = "cancel" => sub # None /\ seenSub' = [seenSub EXCEPT ![r] = sub])
      BY <1>7, <2>3 DEF LoadSub
    <3>2. todo'[r] = Tail(todo[r]) /\ (op[r].kind = "cancel" => seenSub'[r] # None)
      BY <1>2, <3>1 DEF Advance
    <3>3. About(r)' /\ Suffix(todo'[r], Script(op'[r])) /\ CallsFirst(r)'
      BY <1>1, <2>1, <3>2, AdvanceRun
    <3> QED BY <1>1, <3>3, OthersRun
  <2> QED BY <2>2, <2>3
<1>8. CASE CallPaystack(r)
  <2>1. /\ pc[r] = "run" /\ todo[r] # <<>> /\ op'[r] = op[r] /\ Head(todo[r]) = "call"
        /\ seenSub'[r] = seenSub[r]
    BY <1>8 DEF CallPaystack, At
  <2>2. PICK c \in Codes : seenSub[r].code = c
    BY <1>8, CallFacts DEF CallPaystack
  <2>3. CASE Fail(r)
    <3>1. pc'[r] = "failing"
      BY <1>2, <2>3 DEF Fail
    <3> QED BY <1>1, <3>1, OthersRun
  <2>4. CASE stage' = [stage EXCEPT ![c] = "disabled"] /\ Advance(r)
    <3>1. stage'[c] = "disabled"
      BY <2>4 DEF PlanInv, TypeOK
    <3>2. todo'[r] = Tail(todo[r])
      BY <1>2, <2>4 DEF Advance
    <3>3. About(r)' /\ Suffix(todo'[r], Script(op'[r])) /\ CallsFirst(r)'
      BY <1>1, <2>1, <2>2, <3>1, <3>2, AdvanceRun
    <3> QED BY <1>1, <3>3, OthersRun
  <2> QED BY <1>8, <2>2, <2>3, <2>4 DEF CallPaystack
<1>9. CASE WriteOrg(r) \/ WriteSub(r) \/ DeleteOrg(r)
  <2>1. /\ pc[r] = "run" /\ todo[r] # <<>> /\ op'[r] = op[r] /\ seenSub'[r] = seenSub[r]
        /\ Head(todo[r]) \in {"write_org", "write_sub", "delete_org"}
    BY <1>9 DEF WriteOrg, WriteSub, DeleteOrg, At
  <2>2. CASE Fail(r)
    <3>1. pc'[r] = "failing"
      BY <1>2, <2>2 DEF Fail
    <3> QED BY <1>1, <3>1, OthersRun
  <2>3. CASE Advance(r)
    <3>1. todo'[r] = Tail(todo[r])
      BY <1>2, <2>3 DEF Advance
    <3>2. About(r)' /\ Suffix(todo'[r], Script(op'[r])) /\ CallsFirst(r)'
      BY <1>1, <2>1, <3>1, AdvanceRun
    <3> QED BY <1>1, <3>2, OthersRun
  <2> QED BY <1>9, <2>2, <2>3 DEF WriteOrg, WriteSub, DeleteOrg
<1>10. CASE DetectDeadlock(r) \/ Commit(r) \/ Rollback(r) \/ LoseConnection(r)
  <2>1. pc'[r] # "run"
    BY <1>2, <1>10 DEF DetectDeadlock, Fail, Commit, Rollback, LoseConnection, Close
  <2> QED BY <1>1, <2>1, OthersRun
<1> QED BY <1>3, <1>4, <1>5, <1>6, <1>7, <1>8, <1>9, <1>10 DEF RequestStep, Progress

(***************************************************************************)
(* Types.                                                                  *)
(***************************************************************************)
\* What a flush writes: a tier, and a record of a checkout.
LEMMA WriteFacts ==
  ASSUME PlanInv, NEW r \in Requests
  PROVE  /\ At(r, "write_org") /\ NewPlan(r) # seenPlan[r] => NewPlan(r) \in Tiers
         /\ At(r, "write_sub") /\ ~NothingToWrite(r) =>
              /\ NewSub(r) \in SubRow
              /\ sub # None /\ seenSub[r] # None => Updated(r) \in SubRow
<1>1. ASSUME pc[r] = "run", todo[r] # <<>>
      PROVE  /\ op[r] \in Ops
             /\ Head(todo[r]) = "write_org" => op[r].kind \in {"charge", "create", "disable", "verify", "cancel"}
             /\ Head(todo[r]) = "write_sub" => op[r].kind \in {"create", "disable", "payfail", "verify", "cancel"}
  BY <1>1, RunningFacts, StepFacts
<1>2. ASSUME At(r, "write_org"), NewPlan(r) # seenPlan[r]
      PROVE  NewPlan(r) \in Tiers
  <2>1. op[r] \in Ops /\ op[r].kind \in {"charge", "create", "disable", "verify", "cancel"}
    BY <1>1, <1>2 DEF At
  <2>2. CASE op[r].kind \in {"disable", "cancel"}
    BY <2>2 DEF NewPlan, Tiers
  <2>3. CASE op[r].kind = "charge"
    <3>1. NamedPlan[op[r].code] \in {"pro", "ultimate", "unknown"}
      BY <2>1, <2>3 DEF Ops
    <3> QED BY <2>3, <3>1 DEF NewPlan, Tiers
  <2>4. CASE op[r].kind \in {"create", "verify"}
    <3>1. PlanOf[op[r].code] \in {"pro", "ultimate", "unknown"}
      BY <2>1, <2>4 DEF Ops
    <3>2. NewPlan(r) = IF PlanOf[op[r].code] = "unknown" THEN seenPlan[r] ELSE PlanOf[op[r].code]
      BY <2>4 DEF NewPlan
    <3> QED BY <1>2, <3>1, <3>2 DEF Tiers
  <2> QED BY <2>1, <2>2, <2>3, <2>4
<1>3. ASSUME At(r, "write_sub"), ~NothingToWrite(r)
      PROVE  NewSub(r) \in SubRow
  <2>1. op[r] \in Ops /\ op[r].kind \in {"create", "disable", "payfail", "verify", "cancel"}
    BY <1>1, <1>3 DEF At
  <2>2. CASE op[r].kind \in {"create", "verify"}
    BY <2>1, <2>2 DEF NewSub, SubRow, Statuses, Ops
  <2>3. CASE op[r].kind \in {"disable", "payfail", "cancel"}
    <3>1. seenSub[r] # None
      <4>1. CASE op[r].kind = "cancel"
        <5>1. /\ CallsFirst(r) /\ op[r] \in Ops /\ todo[r] \in Seq(Steps)
              /\ Suffix(todo[r], Script(op[r])) /\ todo[r] # <<>> /\ Head(todo[r]) = "write_sub"
          BY <1>3, RunningFacts DEF At
        <5>2. Len(todo[r]) = 1
          BY <4>1, <5>1, CancelSteps
        <5> QED BY <4>1, <5>1, <5>2 DEF CallsFirst
      <4> QED BY <1>3, <2>3, <4>1 DEF NothingToWrite
    <3>2. seenSub[r] \in SubRow
      BY <3>1 DEF PlanInv, TypeOK
    <3> QED BY <2>3, <3>2 DEF NewSub, SubRow, Statuses
  <2> QED BY <2>1, <2>2, <2>3
<1>4. ASSUME At(r, "write_sub"), ~NothingToWrite(r), sub # None, seenSub[r] # None
      PROVE  Updated(r) \in SubRow
  <2>1. NewSub(r) \in SubRow /\ sub \in SubRow
    BY <1>3, <1>4 DEF PlanInv, TypeOK
  <2> QED BY <2>1 DEF Updated, SubRow
<1> QED BY <1>2, <1>3, <1>4

LEMMA TypeStep ==
  ASSUME PlanInv, NEW r \in Requests, RequestStep(r)
  PROVE  TypeOK'
<1>1. Advances /\ Grows
  BY RequestMoves
<1>2. TypeOK
  BY DEF PlanInv
<1>3. stage' \in [Codes -> Stages] /\ log' \in Seq(Event) /\ DOMAIN log \subseteq DOMAIN log'
  BY <1>1 DEF Advances, Grows
<1>4. ASSUME NEW o \in Ops, Begin(r, o), orderly' \in BOOLEAN,
             \E place \in Control : pc' = [pc EXCEPT ![r] = place]
      PROVE  TypeOK'
  BY <1>2, <1>3, <1>4 DEF TypeOK, Begin
<1>5. CASE Deliver(r)
  <2>1. PICK i \in DOMAIN log :
          /\ Begin(r, [kind |-> log[i].kind, code |-> log[i].code, meta |-> log[i].meta, pos |-> i])
          /\ orderly' = (orderly /\ Idle /\ log[i].meta /\ i - Cardinality(handled) \in {0, 1})
    BY <1>5 DEF Deliver
  <2>2. log[i] \in Event /\ i \in Nat
    BY <1>2 DEF TypeOK
  <2>3. [kind |-> log[i].kind, code |-> log[i].code, meta |-> log[i].meta, pos |-> i] \in Ops
    BY <2>2 DEF Event, Ops
  <2>4. orderly' \in BOOLEAN /\ pc' = [pc EXCEPT ![r] = "run"]
    BY <1>5, <2>1 DEF Deliver
  <2> QED BY <1>4, <2>1, <2>3, <2>4 DEF Control
<1>6. CASE Verify(r)
  <2>1. PICK c \in Codes, named \in BOOLEAN, m \in Metadata :
          /\ Begin(r, [kind |-> "verify", code |-> c, meta |-> named, pos |-> 0])
          /\ pc' = [pc EXCEPT ![r] = IF stage[c] \in Paid /\ m THEN "run" ELSE "failing"]
          /\ orderly' \in BOOLEAN
    BY <1>6 DEF Verify
  <2>2. [kind |-> "verify", code |-> c, meta |-> named, pos |-> 0] \in Ops
    BY DEF Ops
  <2> QED BY <1>4, <2>1, <2>2 DEF Control
<1>7. CASE Manage(r)
  <2>1. PICK kind \in {"cancel", "delete"} :
          Begin(r, [kind |-> kind, code |-> None, meta |-> FALSE, pos |-> 0])
    BY <1>7 DEF Manage
  <2>2. [kind |-> kind, code |-> None, meta |-> FALSE, pos |-> 0] \in Ops
    BY DEF Ops
  <2>3. orderly' \in BOOLEAN /\ pc' = [pc EXCEPT ![r] = "run"]
    BY <1>7 DEF Manage
  <2> QED BY <1>4, <2>1, <2>2, <2>3 DEF Control
<1>8. ASSUME Advance(r) \/ Fail(r)
      PROVE  pc' \in [Requests -> Control]
  BY <1>2, <1>8 DEF TypeOK, Advance, Fail, Control
<1>9. CASE LoadOrg(r)
  <2>1. pc' \in [Requests -> Control]
    BY <1>2, <1>8, <1>9 DEF LoadOrg, TypeOK
  <2>2. seenPlan' \in [Requests -> Tiers \cup {None}]
    BY <1>2, <1>9 DEF LoadOrg, TypeOK
  <2> QED BY <1>2, <1>3, <1>9, <2>1, <2>2 DEF LoadOrg, TypeOK
<1>10. CASE LoadSub(r)
  <2>1. pc' \in [Requests -> Control]
    BY <1>8, <1>10 DEF LoadSub
  <2>2. seenSub' \in [Requests -> SubRow \cup {None}]
    BY <1>2, <1>10 DEF LoadSub, TypeOK
  <2> QED BY <1>2, <1>3, <1>10, <2>1, <2>2 DEF LoadSub, TypeOK
<1>11. CASE CallPaystack(r)
  <2>1. pc' \in [Requests -> Control]
    BY <1>8, <1>11 DEF CallPaystack
  <2>2. handled' \subseteq DOMAIN log'
    BY <1>2, <1>3, <1>11 DEF CallPaystack, TypeOK
  <2> QED BY <1>2, <1>3, <1>11, <2>1, <2>2 DEF CallPaystack, TypeOK
<1>12. CASE WriteOrg(r)
  <2>1. pc' \in [Requests -> Control]
    BY <1>8, <1>12 DEF WriteOrg
  <2>2. mineOrg' \in [Requests -> Tiers \cup {"gone", None}]
    <3>1. CASE UNCHANGED mineOrg
      BY <1>2, <3>1 DEF TypeOK
    <3>2. CASE mineOrg' = [mineOrg EXCEPT ![r] = plan]
      BY <1>2, <3>2 DEF TypeOK
    <3>3. CASE mineOrg' = [mineOrg EXCEPT ![r] = NewPlan(r)] /\ NewPlan(r) # seenPlan[r]
      BY <1>2, <1>12, <3>3, WriteFacts DEF TypeOK, WriteOrg
    <3> QED BY <1>12, <3>1, <3>2, <3>3 DEF WriteOrg
  <2> QED BY <1>2, <1>3, <1>12, <2>1, <2>2 DEF WriteOrg, TypeOK
<1>13. CASE WriteSub(r)
  <2>1. pc' \in [Requests -> Control]
    BY <1>8, <1>13 DEF WriteSub
  <2>2. mineSub' \in [Requests -> SubRow \cup {None}]
    <3>1. CASE UNCHANGED mineSub
      BY <1>2, <3>1 DEF TypeOK
    <3>2. CASE ~UNCHANGED mineSub
      <4>1. /\ At(r, "write_sub") /\ ~NothingToWrite(r)
            /\ mineSub' = [mineSub EXCEPT ![r] = IF seenSub[r] = None THEN NewSub(r) ELSE Updated(r)]
            /\ seenSub[r] # None => sub # None
        BY <1>13, <3>2 DEF WriteSub
      <4>2. (IF seenSub[r] = None THEN NewSub(r) ELSE Updated(r)) \in SubRow
        BY <4>1, WriteFacts
      <4> QED BY <1>2, <4>1, <4>2 DEF TypeOK
    <3> QED BY <3>1, <3>2
  <2> QED BY <1>2, <1>3, <1>13, <2>1, <2>2 DEF WriteSub, TypeOK
<1>14. CASE DeleteOrg(r)
  <2>1. pc' \in [Requests -> Control]
    BY <1>8, <1>14 DEF DeleteOrg
  <2>2. mineOrg' \in [Requests -> Tiers \cup {"gone", None}]
    BY <1>2, <1>14 DEF DeleteOrg, TypeOK
  <2> QED BY <1>2, <1>3, <1>14, <2>1, <2>2 DEF DeleteOrg, TypeOK
<1>15. CASE DetectDeadlock(r)
  <2>1. pc' \in [Requests -> Control]
    BY <1>8, <1>15 DEF DetectDeadlock
  <2> QED BY <1>2, <1>3, <1>15, <2>1 DEF DetectDeadlock, TypeOK
<1>16. ASSUME Close(r)
      PROVE  /\ op' \in [Requests -> Ops \cup {None}]
             /\ pc' \in [Requests -> Control]
             /\ seenPlan' \in [Requests -> Tiers \cup {None}]
             /\ seenSub' \in [Requests -> SubRow \cup {None}]
             /\ mineOrg' \in [Requests -> Tiers \cup {"gone", None}]
             /\ mineSub' \in [Requests -> SubRow \cup {None}]
  BY <1>2, <1>16 DEF TypeOK, Close, Control
<1>17. CASE Commit(r)
  <2>1. plan' \in Tiers \cup {"gone"}
    BY <1>2, <1>17 DEF Commit, TypeOK
  <2>2. sub' \in SubRow \cup {None}
    BY <1>2, <1>17 DEF Commit, TypeOK
  <2>3. handled' \subseteq DOMAIN log'
    <3>1. op[r] \in Ops /\ About(r) /\ log' = log
      BY <1>17, RunningFacts DEF Commit, paystack
    <3>2. op[r].pos # 0 => op[r].pos \in DOMAIN log
      BY <3>1 DEF About, Ops, Signals
    <3> QED BY <1>2, <1>17, <3>1, <3>2 DEF Commit, TypeOK
  <2>4. orderly' \in BOOLEAN
    BY <1>2, <1>17 DEF Commit, TypeOK
  <2>5. Close(r)
    BY <1>17 DEF Commit
  <2> QED BY <1>3, <1>16, <2>1, <2>2, <2>3, <2>4, <2>5 DEF TypeOK
<1>18. CASE Rollback(r) \/ LoseConnection(r)
  <2>1. Close(r) /\ plan' = plan /\ sub' = sub /\ handled' = handled /\ orderly' = orderly
    BY <1>18 DEF Rollback, LoseConnection
  <2>2. /\ plan' \in Tiers \cup {"gone"} /\ sub' \in SubRow \cup {None}
        /\ handled' \subseteq DOMAIN log' /\ orderly' \in BOOLEAN
    BY <1>2, <1>3, <2>1 DEF TypeOK
  <2> QED BY <1>3, <1>16, <2>1, <2>2 DEF TypeOK
<1> QED BY <1>5, <1>6, <1>7, <1>9, <1>10, <1>11, <1>12, <1>13, <1>14, <1>15, <1>17, <1>18
        DEF RequestStep, Progress

(***************************************************************************)
(* The plan.                                                               *)
(***************************************************************************)
\* A pending change of the plan is justified by what the request is about.
LEMMA NewPlanBacked ==
  ASSUME PlanInv, NEW r \in Requests, At(r, "write_org"), NewPlan(r) # seenPlan[r]
  PROVE  Backed(NewPlan(r))
<1>1. /\ op[r] \in Ops /\ About(r) /\ CallsFirst(r) /\ todo[r] \in Seq(Steps)
      /\ Suffix(todo[r], Script(op[r])) /\ todo[r] # <<>> /\ Head(todo[r]) = "write_org"
  BY RunningFacts DEF At
<1>2. op[r].kind \in {"charge", "create", "disable", "verify", "cancel"}
  BY <1>1, StepFacts
<1>3. op[r].kind \in Signals =>
        Vouched(op[r].kind, op[r].code)
  <2>1. ASSUME op[r].kind \in Signals
        PROVE  Vouched(op[r].kind, op[r].code)
    <3>1. PICK i \in DOMAIN log :
            log[i] = [kind |-> op[r].kind, code |-> op[r].code, meta |-> op[r].meta]
      BY <1>1, <2>1 DEF About
    <3>2. log[i].kind = op[r].kind /\ log[i].code = op[r].code
      BY <3>1
    <3> QED BY <3>2 DEF PlanInv, EventInv
  <2> QED BY <2>1
<1>4. CASE op[r].kind = "cancel"
  <2>1. Len(todo[r]) = 2
    BY <1>1, <1>4, CancelSteps
  <2>2. seenSub[r] # None /\ stage[seenSub[r].code] = "disabled"
    BY <1>1, <1>4, <2>1 DEF CallsFirst
  <2>3. seenSub[r].code \in Codes
    BY <2>2 DEF PlanInv, TypeOK, SubRow
  <2> QED BY <1>4, <2>2, <2>3 DEF NewPlan, Backed
<1>5. CASE op[r].kind # "cancel"
  <2> DEFINE c == op[r].code
  <2>1. c \in Codes
    BY <1>1, <1>2, <1>5 DEF Ops
  <2>2. CASE op[r].kind = "disable"
    <3>1. stage[c] = "disabled"
      BY <1>3, <2>2 DEF Vouched, Signals
    <3> QED BY <2>1, <2>2, <3>1 DEF NewPlan, Backed
  <2>3. CASE op[r].kind = "charge"
    <3>1. stage[c] \in Paid
      BY <1>3, <2>3 DEF Vouched, Signals
    <3>2. NewPlan(r) = IF NamedPlan[c] = "unknown" THEN "free" ELSE NamedPlan[c]
      BY <2>3 DEF NewPlan
    <3> QED BY <2>1, <3>1, <3>2 DEF Backed
  <2>4. CASE op[r].kind \in {"create", "verify"}
    <3>1. stage[c] \in Paid
      BY <1>1, <1>3, <2>4 DEF Vouched, Signals, About, Paid
    <3>2. NewPlan(r) = PlanOf[c]
      BY <2>4 DEF NewPlan
    <3> QED BY <2>1, <3>1, <3>2 DEF Backed
  <2> QED BY <1>2, <1>5, <2>2, <2>3, <2>4
<1> QED BY <1>4, <1>5

\* What a step makes of the pending write of the organization.
LEMMA PendingOrg ==
  ASSUME PlanInv, NEW r \in Requests, RequestStep(r)
  PROVE  \/ mineOrg'[r] = mineOrg[r] /\ plan' = plan
         \/ mineOrg'[r] = None /\ plan' = IF mineOrg[r] = None THEN plan ELSE mineOrg[r]
         \/ mineOrg'[r] = None /\ plan' = plan
         \/ /\ plan' = plan /\ OrgBlockers(r) = {}
            /\ \/ mineOrg'[r] = "gone"
               \/ plan # "gone" /\ mineOrg'[r] = plan
               \/ plan # "gone" /\ mineOrg'[r] \in Tiers /\ Backed(mineOrg'[r])
<1>1. mineOrg \in [Requests -> Tiers \cup {"gone", None}]
  BY DEF PlanInv, TypeOK
<1>2. CASE Deliver(r) \/ Verify(r) \/ Manage(r)
  BY <1>2 DEF Deliver, Verify, Manage, Begin
<1>3. CASE LoadOrg(r) \/ LoadSub(r) \/ CallPaystack(r) \/ WriteSub(r) \/ DetectDeadlock(r)
  BY <1>3 DEF LoadOrg, LoadSub, CallPaystack, WriteSub, DetectDeadlock
<1>4. CASE WriteOrg(r)
  <2>1. CASE UNCHANGED mineOrg
    BY <1>4, <2>1 DEF WriteOrg
  <2>2. CASE mineOrg' = [mineOrg EXCEPT ![r] = plan] /\ OrgBlockers(r) = {} /\ plan # "gone"
    BY <1>1, <1>4, <2>2 DEF WriteOrg
  <2>3. CASE /\ mineOrg' = [mineOrg EXCEPT ![r] = NewPlan(r)] /\ OrgBlockers(r) = {}
             /\ NewPlan(r) # seenPlan[r] /\ plan # "gone"
    <3>1. NewPlan(r) \in Tiers /\ Backed(NewPlan(r))
      BY <1>4, <2>3, WriteFacts, NewPlanBacked DEF WriteOrg
    <3>2. mineOrg'[r] = NewPlan(r)
      BY <1>1, <2>3
    <3>3. plan' = plan
      BY <1>4 DEF WriteOrg
    <3> QED BY <2>3, <3>1, <3>2, <3>3
  <2> QED BY <1>4, <2>1, <2>2, <2>3 DEF WriteOrg
<1>5. CASE DeleteOrg(r)
  <2>1. OrgBlockers(r) = {}
    BY <1>5 DEF DeleteOrg, Blockers, At
  <2> QED BY <1>1, <1>5, <2>1 DEF DeleteOrg
<1>6. CASE Commit(r)
  BY <1>1, <1>6 DEF Commit, Close
<1>7. CASE Rollback(r) \/ LoseConnection(r)
  BY <1>1, <1>7 DEF Rollback, LoseConnection, Close
<1> QED BY <1>2, <1>3, <1>4, <1>5, <1>6, <1>7 DEF RequestStep, Progress

LEMMA OrgStep ==
  ASSUME PlanInv, NEW r \in Requests, RequestStep(r)
  PROVE  OrgLock' /\ OrgInv'
<1>1. Advances /\ Others(r)
  BY RequestMoves, OthersStay DEF PlanInv
<1>2. \A q \in Requests \ {r} : mineOrg'[q] = mineOrg[q]
  BY <1>1 DEF Others
<1>3. OrgLock /\ OrgInv /\ mineOrg \in [Requests -> Tiers \cup {"gone", None}]
  BY DEF PlanInv, TypeOK
<1>4. \A p : Backed(p) => Backed(p)'
  BY <1>1, BackedStays
<1>5. CASE mineOrg'[r] = mineOrg[r] /\ plan' = plan
  <2>1. OrgLock'
    BY <1>2, <1>3, <1>5 DEF OrgLock
  <2>2. ASSUME NEW q \in Requests, mineOrg'[q] \notin {None, "gone"}
        PROVE  plan' # "gone" /\ (mineOrg'[q] = plan' \/ Backed(mineOrg[q])')
    <3>1. PICK p : p = mineOrg[q] /\ p = mineOrg'[q]
      BY <1>2, <1>5
    <3>2. plan # "gone" /\ (p = plan \/ Backed(p))
      BY <1>3, <2>2, <3>1 DEF OrgInv
    <3>3. p = plan \/ Backed(p)'
      BY <1>4, <3>2
    <3> QED BY <1>5, <3>1, <3>2, <3>3
  <2> QED BY <2>1, <2>2 DEF OrgInv
<1>6. CASE mineOrg'[r] = None /\ plan' = IF mineOrg[r] = None THEN plan ELSE mineOrg[r]
  <2>1. OrgLock'
    BY <1>2, <1>3, <1>6 DEF OrgLock
  <2>2. ASSUME NEW q \in Requests, mineOrg'[q] \notin {None, "gone"}
        PROVE  plan' # "gone" /\ (mineOrg'[q] = plan' \/ Backed(mineOrg[q])')
    <3>1. q # r /\ mineOrg'[q] = mineOrg[q]
      BY <1>2, <1>6, <2>2
    <3>2. mineOrg[r] = None /\ plan' = plan
      BY <1>3, <1>6, <2>2, <3>1 DEF OrgLock
    <3>3. PICK p : p = mineOrg[q] /\ p = mineOrg'[q]
      BY <3>1
    <3>4. plan # "gone" /\ (p = plan \/ Backed(p))
      BY <1>3, <2>2, <3>3 DEF OrgInv
    <3>5. p = plan \/ Backed(p)'
      BY <1>4, <3>4
    <3> QED BY <3>2, <3>3, <3>4, <3>5
  <2> QED BY <2>1, <2>2 DEF OrgInv
<1>7. CASE mineOrg'[r] = None /\ plan' = plan
  <2>1. OrgLock'
    BY <1>2, <1>3, <1>7 DEF OrgLock
  <2>2. ASSUME NEW q \in Requests, mineOrg'[q] \notin {None, "gone"}
        PROVE  plan' # "gone" /\ (mineOrg'[q] = plan' \/ Backed(mineOrg[q])')
    <3>1. PICK p : p = mineOrg[q] /\ p = mineOrg'[q]
      BY <1>2, <1>7, <2>2
    <3>2. plan # "gone" /\ (p = plan \/ Backed(p))
      BY <1>3, <2>2, <3>1 DEF OrgInv
    <3>3. p = plan \/ Backed(p)'
      BY <1>4, <3>2
    <3> QED BY <1>7, <3>1, <3>2, <3>3
  <2> QED BY <2>1, <2>2 DEF OrgInv
<1>8. CASE /\ plan' = plan /\ OrgBlockers(r) = {}
           /\ \/ mineOrg'[r] = "gone"
              \/ plan # "gone" /\ mineOrg'[r] = plan
              \/ plan # "gone" /\ mineOrg'[r] \in Tiers /\ Backed(mineOrg'[r])
  <2>1. \A q \in Requests \ {r} : mineOrg'[q] = None
    BY <1>2, <1>8 DEF OrgBlockers
  <2>2. OrgLock'
    BY <2>1 DEF OrgLock
  <2>3. ASSUME NEW q \in Requests, mineOrg'[q] \notin {None, "gone"}
        PROVE  plan' # "gone" /\ (mineOrg'[q] = plan' \/ Backed(mineOrg[q])')
    <3>1. q = r
      BY <2>1, <2>3
    <3>2. PICK p : p = mineOrg'[r]
      OBVIOUS
    <3>3. plan # "gone" /\ (p = plan \/ Backed(p))
      BY <1>8, <2>3, <3>1, <3>2
    <3>4. p = plan \/ Backed(p)'
      BY <1>4, <3>3
    <3> QED BY <1>8, <3>1, <3>2, <3>3, <3>4
  <2> QED BY <2>2, <2>3 DEF OrgInv
<1> QED BY PendingOrg, <1>5, <1>6, <1>7, <1>8

LEMMA PlanInvInit == Init => PlanInv
<1> SUFFICES ASSUME Init
             PROVE  PlanInv
  OBVIOUS
<1>1. <<>> \in Seq(Event) /\ <<>> \in Seq(Steps) /\ DOMAIN <<>> = {}
  OBVIOUS
<1>2. TypeOK
  BY <1>1 DEF Init, TypeOK, Stages, Tiers, Control
<1>3. TodoOK
  BY <1>1 DEF Init, TodoOK
<1>4. EventInv
  BY <1>1 DEF Init, EventInv
<1>5. RunInv
  BY DEF Init, RunInv
<1>6. OrgLock /\ OrgInv
  BY DEF Init, OrgLock, OrgInv
<1> QED BY <1>2, <1>3, <1>4, <1>5, <1>6 DEF PlanInv

\* A step of Paystack, or none, leaves the requests and the rows alone.
LEMMA QuietStep ==
  ASSUME PlanInv, Advances, Grows, EventInv',
         UNCHANGED <<plan, sub, op, pc, session, handled, orderly>>
  PROVE  PlanInv'
<1>1. /\ plan' = plan /\ sub' = sub /\ op' = op /\ pc' = pc /\ todo' = todo
      /\ seenPlan' = seenPlan /\ seenSub' = seenSub /\ mineOrg' = mineOrg
      /\ mineSub' = mineSub /\ handled' = handled /\ orderly' = orderly
  BY DEF session
<1>2. TypeOK'
  BY <1>1 DEF PlanInv, TypeOK, Advances, Grows
<1>3. TodoOK'
  BY <1>1 DEF PlanInv, TodoOK
<1>4. ASSUME NEW q \in Requests, pc'[q] = "run"
      PROVE  About(q)' /\ Suffix(todo'[q], Script(op'[q])) /\ CallsFirst(q)'
  <2>1. About(q) /\ CallsFirst(q) /\ Suffix(todo[q], Script(op[q]))
    BY <1>1, <1>4, RunningFacts
  <2> QED BY <1>1, <2>1, AboutStays, CallsFirstStays
<1>5. RunInv'
  BY <1>4 DEF RunInv, Script, Suffix
<1>6. OrgLock'
  BY <1>1 DEF PlanInv, OrgLock
<1>7. OrgInv'
  <2>1. ASSUME NEW q \in Requests, mineOrg'[q] \notin {None, "gone"}
        PROVE  plan' # "gone" /\ (mineOrg'[q] = plan' \/ Backed(mineOrg[q])')
    <3>1. PICK p : p = mineOrg[q]
      OBVIOUS
    <3>2. plan # "gone" /\ (p = plan \/ Backed(p))
      BY <1>1, <2>1, <3>1 DEF PlanInv, OrgInv
    <3> QED BY <1>1, <3>1, <3>2, BackedStays
  <2> QED BY <2>1 DEF OrgInv
<1> QED BY <1>2, <1>3, <1>5, <1>6, <1>7 DEF PlanInv

LEMMA PlanInvStep ==
  ASSUME PlanInv, [Next]_vars
  PROVE  PlanInv'
<1>1. ASSUME NEW c \in Codes, PaystackStep(c)
      PROVE  PlanInv'
  <2>1. UNCHANGED <<plan, sub, op, pc, session, handled, orderly>>
    BY <1>1 DEF PaystackStep, Initialize, Pay, Subscribe, FailPayment, Disable
  <2> QED BY <1>1, <2>1, PaystackMoves, QuietStep
<1>2. ASSUME NEW r \in Requests, RequestStep(r)
      PROVE  PlanInv'
  BY <1>2, RequestMoves, TypeStep, TodoStep, RunStep, OrgStep DEF PlanInv
<1>3. CASE UNCHANGED vars
  <2>1. UNCHANGED paystack /\ UNCHANGED <<plan, sub, op, pc, session, handled, orderly>>
    BY <1>3 DEF vars, paystack, session
  <2> QED BY <2>1, NoPaystack, QuietStep
<1> QED BY <1>1, <1>2, <1>3, NextSteps

LEMMA PlanInvariant == Spec => []PlanInv
  BY PlanInvInit, PlanInvStep, PTL DEF Spec

\* Every variable of the billing of an organization has its type, whatever
\* overlaps: a session writes only a tier and a record of a checkout, and the
\* events recorded as handled are events Paystack has produced.
THEOREM BillingTypeCorrect == Spec => []TypeOK
<1>1. PlanInv => TypeOK
  BY DEF PlanInv
<1> QED BY <1>1, PlanInvariant, PTL

\* However webhooks, verifications, cancellations and deletions interleave, are
\* repeated, overtake one another, fail or are lost, and whatever plan codes the
\* code does not know, a commit gives the organization only a tier whose checkout
\* was paid, and lowers it to FREE only once Paystack has disabled a subscription.
\* The metadata of a charge name a plan: initialize_transaction puts it there.
THEOREM PlanFollowsPaystack ==
  ASSUME \A c \in Codes : NamedPlan[c] # "unknown"
  PROVE  Spec => PlanMovesWithPaystack
<1>1. ASSUME PlanInv, [Next]_vars
      PROVE  [plan' # plan =>
               \/ plan' = "gone"
               \/ \E c \in Codes : stage[c] \in Paid /\ plan' \in {PlanOf[c], NamedPlan[c]}
               \/ plan' = "free" /\ \E c \in Codes : stage[c] = "disabled"]_vars
  <2> SUFFICES ASSUME plan' # plan, plan' # "gone"
               PROVE  Backed(plan')
    BY DEF Backed
  <2>1. ASSUME NEW r \in Requests, RequestStep(r)
        PROVE  Backed(plan')
    <3>1. mineOrg[r] # None /\ plan' = mineOrg[r]
      BY <1>1, <2>1, PendingOrg
    <3>2. mineOrg[r] = plan \/ Backed(mineOrg[r])
      BY <1>1, <3>1 DEF PlanInv, OrgInv
    <3> QED BY <3>1, <3>2
  <2>2. ASSUME NEW c \in Codes, PaystackStep(c)
        PROVE  plan' = plan
    BY <2>2 DEF PaystackStep, Initialize, Pay, Subscribe, FailPayment, Disable
  <2>3. CASE UNCHANGED vars
    BY <2>3 DEF vars
  <2> QED BY <1>1, <2>1, <2>2, <2>3, NextSteps
<1> QED BY <1>1, PlanInvariant, PTL DEF Spec, PlanMovesWithPaystack

---------------------------------------------------------------------------
(***************************************************************************)
(* The inductive invariant about an organization with one checkout.        *)
(***************************************************************************)
\* Paystack has produced the events its stages stand for.
ToldInv ==
  \A c \in Codes :
    /\ stage[c] \in Paid => \E i \in DOMAIN log : log[i].kind = "charge" /\ log[i].code = c
    /\ stage[c] \in {"active", "disabled"} =>
         \E i \in DOMAIN log : log[i].kind = "create" /\ log[i].code = c

\* Checkout c is the only one, for a plan the code knows, undisturbed so far.
Solo(c) ==
  /\ PlanOf[c] # "unknown" /\ NamedPlan[c] = PlanOf[c]
  /\ stage[c] # "disabled"
  /\ \A d \in Codes \ {c} : stage[d] = "none"
  /\ \A i \in DOMAIN log : log[i].kind # "payfail" /\ log[i].meta

\* The record of checkout c while nothing has canceled it.
Paper(c) == [code |-> c, status |-> "active"]

\* What is loaded, pending or committed meanwhile.
SoloRows(c) ==
  /\ sub \in {None, Paper(c)}
  /\ \A r \in Requests :
       /\ seenSub[r] \in {None, Paper(c)}
       /\ mineSub[r] \in {None, Paper(c)}
       /\ mineOrg[r] \in {None, PlanOf[c], "gone"}
       /\ seenPlan[r] = PlanOf[c] => plan \in {PlanOf[c], "gone"}

\* The plan once a charge.success got through, or is about to.
SoloCharge(c) ==
  /\ \A i \in handled : log[i].kind = "charge" => plan \in {PlanOf[c], "gone"}
  /\ \A r \in Requests : pc[r] = "run" /\ op[r].kind = "charge" /\ todo[r] = <<>> =>
       mineOrg[r] = PlanOf[c] \/ plan \in {PlanOf[c], "gone"}

\* The record once a subscription.create got through, or is about to.
SoloCreate(c) ==
  /\ \A i \in handled : log[i].kind = "create" => sub = Paper(c) \/ plan = "gone"
  /\ \A r \in Requests : pc[r] = "run" /\ op[r].kind = "create" /\ Len(todo[r]) <= 2 =>
       mineSub[r] = Paper(c)

\* The three hold as long as c is alone.
SoloInv ==
  \A c \in Codes : Solo(c) => SoloRows(c) /\ SoloCharge(c) /\ SoloCreate(c)

\* All of it.
SettleInv == PlanInv /\ ToldInv /\ SoloInv

(***************************************************************************)
(* What the requests are about meanwhile, and write.                       *)
(***************************************************************************)
\* Where a subscription.create stands, by the steps it has left.
LEMMA CreateSteps ==
  ASSUME NEW o \in Ops, o.kind = "create", o.meta, PlanOf[o.code] # "unknown",
         NEW s \in Seq(Steps), s # <<>>, Suffix(s, Script(o))
  PROVE  /\ Len(s) \in 1 .. 4
         /\ Head(s) = "load_sub" <=> Len(s) = 4
         /\ Head(s) = "write_sub" <=> Len(s) = 3
<1>1. Script(o) = <<"load_sub", "write_sub", "load_org", "write_org">>
  BY DEF Script
<1>2. Suffix(s, <<"load_sub", "write_sub", "load_org", "write_org">>)
  BY <1>1
<1>3. Len(s) <= 4
  BY <1>2 DEF Suffix
<1>4. Len(s) \in Nat \ {0} /\ Head(s) = s[1]
  OBVIOUS
<1>5. Len(s) \in {1, 2, 3, 4}
  <2> DEFINE n == Len(s)
  <2>1. n \in Nat \ {0} /\ n <= 4
    BY <1>3, <1>4
  <2> HIDE DEF n
  <2>2. n \in {1, 2, 3, 4}
    BY <2>1
  <2> QED BY <2>2 DEF n
<1>6. Head(s) = Script(o)[5 - Len(s)]
  BY <1>1, <1>5, <1>4 DEF Suffix
<1>7. CASE Len(s) = 1
  BY <1>1, <1>5, <1>6, <1>7
<1>8. CASE Len(s) = 2
  BY <1>1, <1>5, <1>6, <1>8
<1>9. CASE Len(s) = 3
  BY <1>1, <1>5, <1>6, <1>9
<1>10. CASE Len(s) = 4
  BY <1>1, <1>5, <1>6, <1>10
<1> QED BY <1>5, <1>7, <1>8, <1>9, <1>10

\* Alone, a checkout is what every event and every verification is about.
LEMMA SoloFacts ==
  ASSUME PlanInv, NEW c \in Codes, Solo(c)
  PROVE  /\ \A d \in Codes : stage[d] # "disabled" /\ (stage[d] \in Paid => d = c)
         /\ \A i \in DOMAIN log :
              log[i].kind \in {"charge", "create"} /\ log[i].code = c /\ log[i].meta
         /\ \A r \in Requests : pc[r] = "run" =>
              /\ op[r].kind \in {"charge", "create", "verify", "cancel", "delete"}
              /\ op[r].kind \in {"charge", "create"} => op[r].meta
              /\ op[r].kind \in {"charge", "create", "verify"} => op[r].code = c
<1>1. \A d \in Codes : stage[d] # "disabled" /\ (stage[d] \in Paid => d = c)
  BY DEF Solo, Paid
<1>2. ASSUME NEW i \in DOMAIN log
      PROVE  log[i].kind \in {"charge", "create"} /\ log[i].code = c /\ log[i].meta
  <2>1. log[i].kind \in {"charge", "create", "disable", "payfail"} /\ log[i].code \in Codes
    <3>1. log[i] \in Event
      BY DEF PlanInv, TypeOK
    <3> QED BY <3>1 DEF Event
  <2>2. log[i].kind # "payfail" /\ log[i].meta /\ Vouched(log[i].kind, log[i].code)
    BY DEF Solo, PlanInv, EventInv
  <2> QED BY <1>1, <2>1, <2>2 DEF Vouched, Paid
<1>3. ASSUME NEW r \in Requests, pc[r] = "run"
      PROVE  /\ op[r].kind \in {"charge", "create", "verify", "cancel", "delete"}
             /\ op[r].kind \in {"charge", "create"} => op[r].meta
             /\ op[r].kind \in {"charge", "create", "verify"} => op[r].code = c
  <2>1. op[r] \in Ops /\ About(r)
    BY <1>3, RunningFacts
  <2>2. op[r].kind \in {"charge", "create", "disable", "payfail", "verify", "cancel", "delete"}
    BY <2>1 DEF Ops
  <2>3. ASSUME op[r].kind \in Signals
        PROVE  op[r].kind \in {"charge", "create"} /\ op[r].code = c /\ op[r].meta
    <3>1. PICK i \in DOMAIN log :
            log[i] = [kind |-> op[r].kind, code |-> op[r].code, meta |-> op[r].meta]
      BY <2>1, <2>3 DEF About
    <3>2. log[i].kind = op[r].kind /\ log[i].code = op[r].code /\ log[i].meta = op[r].meta
      BY <3>1
    <3> QED BY <1>2, <3>2
  <2>4. op[r].kind = "verify" => op[r].code = c
    BY <1>1, <2>1 DEF About, Vouched, Ops
  <2> QED BY <2>2, <2>3, <2>4 DEF Signals
<1> QED BY <1>1, <1>2, <1>3

\* What is written meanwhile.
LEMMA SoloWrites ==
  ASSUME PlanInv, NEW c \in Codes, Solo(c), NEW r \in Requests
  PROVE  /\ At(r, "write_org") => NewPlan(r) = PlanOf[c]
         /\ At(r, "write_sub") => NewSub(r) = Paper(c) /\ ~NothingToWrite(r)
<1>1. PlanOf[c] # "unknown" /\ NamedPlan[c] = PlanOf[c]
  BY DEF Solo
<1>2. ASSUME pc[r] = "run", todo[r] # <<>>, Head(todo[r]) \in {"write_org", "write_sub"}
      PROVE  op[r].kind \in {"charge", "create", "verify"} /\ op[r].code = c
  <2>1. /\ op[r] \in Ops /\ CallsFirst(r) /\ todo[r] \in Seq(Steps)
        /\ Suffix(todo[r], Script(op[r]))
    BY <1>2, RunningFacts
  <2>2. op[r].kind \in {"charge", "create", "verify", "cancel"}
    BY <1>2, <2>1, StepFacts, SoloFacts
  <2>3. op[r].kind # "cancel"
    <3> SUFFICES ASSUME op[r].kind = "cancel"
                 PROVE  FALSE
      OBVIOUS
    <3>1. PICK n \in {1, 2} : Len(todo[r]) = n
      BY <1>2, <2>1, CancelSteps
    <3>2. seenSub[r] # None /\ stage[seenSub[r].code] = "disabled"
      BY <2>1, <3>1 DEF CallsFirst
    <3>3. seenSub[r].code \in Codes
      BY <3>2 DEF PlanInv, TypeOK, SubRow
    <3> QED BY <3>2, <3>3, SoloFacts
  <2> QED BY <1>2, <2>2, <2>3, SoloFacts
<1>3. ASSUME At(r, "write_org")
      PROVE  NewPlan(r) = PlanOf[c]
  <2>1. op[r].kind \in {"charge", "create", "verify"} /\ op[r].code = c
    BY <1>2, <1>3 DEF At
  <2> QED BY <1>1, <2>1 DEF NewPlan
<1>4. ASSUME At(r, "write_sub")
      PROVE  NewSub(r) = Paper(c) /\ ~NothingToWrite(r)
  <2>1. op[r].kind \in {"charge", "create", "verify"} /\ op[r].code = c
    BY <1>2, <1>4 DEF At
  <2>2. op[r].kind # "charge"
    BY <1>4, RunningFacts, StepFacts DEF At
  <2> QED BY <2>1, <2>2 DEF NewSub, Paper, NothingToWrite
<1> QED BY <1>3, <1>4

\* A checkout that is alone after a step was alone before it.
LEMMA SoloBefore ==
  ASSUME PlanInv, [Next]_vars, NEW c \in Codes, Solo(c)'
  PROVE  Solo(c) /\ Advances /\ Grows
<1>1. Advances /\ Grows
  <2>1. CASE UNCHANGED vars
    BY <2>1, NoPaystack DEF vars, paystack
  <2> QED BY <2>1, NextSteps, PaystackMoves, RequestMoves
<1>2. stage \in [Codes -> Stages]
  BY DEF PlanInv, TypeOK
<1>3. stage[c] # "disabled"
  BY <1>1 DEF Solo, Advances
<1>4. ASSUME NEW d \in Codes \ {c}
      PROVE  stage[d] = "none"
  <2>1. stage'[d] = "none"
    BY DEF Solo
  <2> QED BY <1>1, <2>1 DEF Advances
<1> QED BY <1>1, <1>3, <1>4 DEF Solo, Grows

\* Every move of Paystack leaves its event.
LEMMA ToldInvStep ==
  ASSUME PlanInv, ToldInv, [Next]_vars
  PROVE  ToldInv'
<1>1. stage \in [Codes -> Stages] /\ log \in Seq(Event)
  BY DEF PlanInv, TypeOK
<1>2. ASSUME Grows,
             \A d \in Codes :
               /\ stage'[d] \in Paid => stage[d] \in Paid
               /\ stage'[d] \in {"active", "disabled"} => stage[d] \in {"active", "disabled"}
      PROVE  ToldInv'
  BY <1>2 DEF ToldInv, Grows
<1>3. ASSUME NEW c \in Codes, PaystackStep(c)
      PROVE  ToldInv'
  <2>1. Grows
    BY <1>3, PaystackMoves
  <2>2. CASE Initialize(c) \/ FailPayment(c) \/ Disable(c)
    BY <1>1, <1>2, <2>1, <2>2 DEF Initialize, FailPayment, Disable, Paid
  <2>3. CASE Pay(c)
    <3>1. PICK m \in Metadata : log' = Append(log, [kind |-> "charge", code |-> c, meta |-> m])
      BY <2>3 DEF Pay, Emit
    <3>2. Len(log) + 1 \in DOMAIN log'
          /\ log'[Len(log) + 1].kind = "charge" /\ log'[Len(log) + 1].code = c
      BY <1>1, <3>1
    <3>3. \A d \in Codes \ {c} : stage'[d] = stage[d]
      BY <1>1, <2>3 DEF Pay
    <3>4. stage'[c] = "paid"
      BY <1>1, <2>3 DEF Pay
    <3>5. ASSUME NEW d \in Codes \ {c}
          PROVE  /\ stage'[d] \in Paid =>
                      \E i \in DOMAIN log' : log'[i].kind = "charge" /\ log'[i].code = d
                 /\ stage'[d] \in {"active", "disabled"} =>
                      \E i \in DOMAIN log' : log'[i].kind = "create" /\ log'[i].code = d
      BY <2>1, <3>3 DEF ToldInv, Grows
    <3> QED BY <3>2, <3>4, <3>5 DEF ToldInv
  <2>4. CASE Subscribe(c)
    <3>1. PICK m \in Metadata : log' = Append(log, [kind |-> "create", code |-> c, meta |-> m])
      BY <2>4 DEF Subscribe, Emit
    <3>2. Len(log) + 1 \in DOMAIN log'
          /\ log'[Len(log) + 1].kind = "create" /\ log'[Len(log) + 1].code = c
      BY <1>1, <3>1
    <3>3. \A d \in Codes : stage'[d] \in Paid => stage[d] \in Paid
      BY <1>1, <2>4 DEF Subscribe, Paid
    <3>4. \A d \in Codes \ {c} : stage'[d] = stage[d]
      BY <1>1, <2>4 DEF Subscribe
    <3>5. ASSUME NEW d \in Codes
          PROVE  stage'[d] \in Paid =>
                   \E i \in DOMAIN log' : log'[i].kind = "charge" /\ log'[i].code = d
      BY <2>1, <3>3 DEF ToldInv, Grows
    <3>6. ASSUME NEW d \in Codes \ {c}
          PROVE  stage'[d] \in {"active", "disabled"} =>
                   \E i \in DOMAIN log' : log'[i].kind = "create" /\ log'[i].code = d
      BY <2>1, <3>4 DEF ToldInv, Grows
    <3> QED BY <3>2, <3>5, <3>6 DEF ToldInv
  <2> QED BY <1>3, <2>2, <2>3, <2>4 DEF PaystackStep
<1>4. CASE UNCHANGED paystack
  <2>1. stage' = stage /\ Grows
    BY <1>4, NoPaystack DEF paystack
  <2> QED BY <1>2, <2>1
<1>5. ASSUME NEW r \in Requests, CallPaystack(r)
      PROVE  ToldInv'
  <2>1. Grows
    BY <1>5, RequestMoves DEF RequestStep, Progress
  <2>2. CASE stage[seenSub[r].code] = "active"
             /\ stage' = [stage EXCEPT ![seenSub[r].code] = "disabled"]
    BY <1>1, <1>2, <2>1, <2>2 DEF Paid
  <2> QED BY <1>4, <1>5, <2>2 DEF CallPaystack
<1>6. ASSUME NEW r \in Requests, RequestStep(r), ~CallPaystack(r)
      PROVE  UNCHANGED paystack
  <2>1. CASE Deliver(r) \/ Verify(r) \/ Manage(r)
    BY <2>1 DEF Deliver, Verify, Manage, Begin
  <2>2. CASE LoadOrg(r) \/ LoadSub(r) \/ WriteOrg(r) \/ WriteSub(r) \/ DeleteOrg(r)
    BY <2>2 DEF LoadOrg, LoadSub, WriteOrg, WriteSub, DeleteOrg
  <2>3. CASE DetectDeadlock(r) \/ Commit(r) \/ Rollback(r) \/ LoseConnection(r)
    BY <2>3 DEF DetectDeadlock, Commit, Rollback, LoseConnection
  <2> QED BY <1>6, <2>1, <2>2, <2>3 DEF RequestStep, Progress
<1>7. CASE UNCHANGED vars
  BY <1>4, <1>7 DEF vars, paystack
<1> QED BY <1>3, <1>4, <1>5, <1>6, <1>7, NextSteps

\* What a commit makes of the rows meanwhile.
LEMMA SoloCommit ==
  ASSUME PlanInv, NEW c \in Codes, SoloRows(c), NEW r \in Requests, RequestStep(r)
  PROVE  /\ plan' \in {plan, PlanOf[c], "gone"}
         /\ plan = "gone" => plan' = "gone"
         /\ sub' \in {None, Paper(c)}
         /\ sub' # sub => sub' = Paper(c) \/ plan' = "gone"
<1>1. CASE Commit(r)
  <2>1. mineOrg[r] \in {None, PlanOf[c], "gone"} /\ mineSub[r] \in {None, Paper(c)}
        /\ sub \in {None, Paper(c)}
    BY DEF SoloRows
  <2>2. mineOrg[r] = None \/ mineOrg[r] = "gone" \/ plan # "gone"
    BY DEF PlanInv, OrgInv
  <2>3. /\ plan' = IF mineOrg[r] = None THEN plan ELSE mineOrg[r]
        /\ sub' = IF mineOrg[r] = "gone" THEN None
                  ELSE IF mineSub[r] = None THEN sub ELSE mineSub[r]
    BY <1>1 DEF Commit
  <2>4. plan' \in {plan, PlanOf[c], "gone"} /\ (plan = "gone" => plan' = "gone")
    BY <2>1, <2>2, <2>3
  <2>5. sub' \in {None, Paper(c)} /\ (sub' # sub => sub' = Paper(c) \/ plan' = "gone")
    BY <2>1, <2>3
  <2> QED BY <2>4, <2>5
<1>2. CASE ~Commit(r)
  <2>1. plan' = plan /\ sub' = sub
    <3>1. CASE Deliver(r) \/ Verify(r) \/ Manage(r)
      BY <3>1 DEF Deliver, Verify, Manage, Begin
    <3>2. CASE LoadOrg(r) \/ LoadSub(r) \/ CallPaystack(r)
      BY <3>2 DEF LoadOrg, LoadSub, CallPaystack
    <3>3. CASE WriteOrg(r) \/ WriteSub(r) \/ DeleteOrg(r)
      BY <3>3 DEF WriteOrg, WriteSub, DeleteOrg
    <3>4. CASE DetectDeadlock(r) \/ Rollback(r) \/ LoseConnection(r)
      BY <3>4 DEF DetectDeadlock, Rollback, LoseConnection
    <3> QED BY <1>2, <3>1, <3>2, <3>3, <3>4 DEF RequestStep, Progress
  <2> QED BY <2>1 DEF SoloRows
<1> QED BY <1>1, <1>2

\* Meanwhile only the plan and the record of c are loaded or written.
LEMMA SoloRowsStep ==
  ASSUME PlanInv, NEW c \in Codes, Solo(c), SoloRows(c), NEW r \in Requests, RequestStep(r)
  PROVE  SoloRows(c)'
<1>1. /\ seenPlan \in [Requests -> Tiers \cup {None}]
      /\ seenSub \in [Requests -> SubRow \cup {None}]
      /\ mineOrg \in [Requests -> Tiers \cup {"gone", None}]
      /\ mineSub \in [Requests -> SubRow \cup {None}]
  BY DEF PlanInv, TypeOK
<1>2. Others(r)
  BY OthersStay DEF PlanInv
<1>3. /\ plan' \in {plan, PlanOf[c], "gone"} /\ (plan = "gone" => plan' = "gone")
      /\ sub' \in {None, Paper(c)}
  BY SoloCommit
<1>4. /\ sub \in {None, Paper(c)} /\ seenSub[r] \in {None, Paper(c)}
      /\ mineSub[r] \in {None, Paper(c)} /\ mineOrg[r] \in {None, PlanOf[c], "gone"}
      /\ seenPlan[r] = PlanOf[c] => plan \in {PlanOf[c], "gone"}
  BY DEF SoloRows
<1>5. PlanOf[c] # None
  BY DEF Solo, Tiers
<1>6. /\ seenSub'[r] \in {None, Paper(c)} /\ mineSub'[r] \in {None, Paper(c)}
      /\ mineOrg'[r] \in {None, PlanOf[c], "gone"}
      /\ seenPlan'[r] = PlanOf[c] => plan' \in {PlanOf[c], "gone"}
  <2>1. CASE Deliver(r) \/ Verify(r) \/ Manage(r)
    BY <1>3, <1>4, <2>1 DEF Deliver, Verify, Manage, Begin
  <2>2. CASE CallPaystack(r) \/ DetectDeadlock(r)
    BY <1>3, <1>4, <2>2 DEF CallPaystack, DetectDeadlock
  <2>3. CASE LoadOrg(r)
    <3>1. seenPlan'[r] \in {seenPlan[r], plan} /\ plan' = plan
      BY <1>1, <2>3 DEF LoadOrg
    <3> QED BY <1>4, <2>3, <3>1 DEF LoadOrg
  <2>4. CASE LoadSub(r)
    <3>1. seenSub'[r] \in {None, sub}
      BY <1>1, <2>4 DEF LoadSub
    <3> QED BY <1>3, <1>4, <2>4, <3>1 DEF LoadSub
  <2>5. CASE WriteOrg(r)
    <3>1. NewPlan(r) = PlanOf[c]
      BY <2>5, SoloWrites DEF WriteOrg
    <3>2. \/ UNCHANGED mineOrg
          \/ mineOrg' = [mineOrg EXCEPT ![r] = plan] /\ plan # "gone" /\ seenPlan[r] = PlanOf[c]
          \/ mineOrg' = [mineOrg EXCEPT ![r] = PlanOf[c]]
      BY <2>5, <3>1 DEF WriteOrg
    <3>3. mineOrg'[r] \in {None, PlanOf[c], "gone"}
      BY <1>1, <1>4, <3>2
    <3> QED BY <1>3, <1>4, <2>5, <3>3 DEF WriteOrg
  <2>6. CASE WriteSub(r)
    <3>1. NewSub(r) = Paper(c)
      BY <2>6, SoloWrites DEF WriteSub
    <3>2. seenSub[r] # None /\ sub # None => Updated(r) = Paper(c)
      BY <1>4, <3>1 DEF Updated, Paper
    <3>3. \/ UNCHANGED mineSub
          \/ mineSub' = [mineSub EXCEPT ![r] = IF seenSub[r] = None THEN NewSub(r) ELSE Updated(r)]
             /\ (seenSub[r] # None => sub # None)
      BY <2>6 DEF WriteSub
    <3>4. mineSub'[r] \in {None, Paper(c)}
      BY <1>1, <1>4, <3>1, <3>2, <3>3
    <3> QED BY <1>3, <1>4, <2>6, <3>4 DEF WriteSub
  <2>7. CASE DeleteOrg(r)
    <3>1. mineOrg'[r] = "gone"
      BY <1>1, <2>7 DEF DeleteOrg
    <3> QED BY <1>3, <1>4, <2>7, <3>1 DEF DeleteOrg
  <2>8. CASE Commit(r) \/ Rollback(r) \/ LoseConnection(r)
    <3>1. Close(r)
      BY <2>8 DEF Commit, Rollback, LoseConnection
    <3> QED BY <1>1, <1>5, <3>1 DEF Close
  <2> QED BY <2>1, <2>2, <2>3, <2>4, <2>5, <2>6, <2>7, <2>8 DEF RequestStep, Progress
<1>7. ASSUME NEW q \in Requests \ {r}
      PROVE  /\ seenSub'[q] \in {None, Paper(c)} /\ mineSub'[q] \in {None, Paper(c)}
             /\ mineOrg'[q] \in {None, PlanOf[c], "gone"}
             /\ seenPlan'[q] = PlanOf[c] => plan' \in {PlanOf[c], "gone"}
  BY <1>2, <1>3 DEF Others, SoloRows
<1> QED BY <1>3, <1>6, <1>7 DEF SoloRows, Paper

\* An event that a step got through was the one a committed request is about.
LEMMA HandledStep ==
  ASSUME PlanInv, NEW r \in Requests, RequestStep(r), NEW i \in handled' \ handled
  PROVE  Commit(r) /\ op[r].kind = log[i].kind /\ i \in DOMAIN log
<1>1. CASE Commit(r)
  <2>1. i = op[r].pos /\ op[r].pos # 0
    BY <1>1 DEF Commit
  <2>2. op[r] \in Ops /\ About(r)
    BY <1>1, RunningFacts DEF Commit
  <2>3. op[r].kind \in Signals
    BY <2>1, <2>2 DEF About, Ops, Signals
  <2>4. i \in DOMAIN log /\ log[i] = [kind |-> op[r].kind, code |-> op[r].code, meta |-> op[r].meta]
    BY <2>1, <2>2, <2>3 DEF About
  <2> QED BY <1>1, <2>4
<1>2. CASE ~Commit(r)
  <2>1. CASE Deliver(r) \/ Verify(r) \/ Manage(r)
    BY <2>1 DEF Deliver, Verify, Manage, Begin
  <2>2. CASE LoadOrg(r) \/ LoadSub(r) \/ CallPaystack(r)
    BY <2>2 DEF LoadOrg, LoadSub, CallPaystack
  <2>3. CASE WriteOrg(r) \/ WriteSub(r) \/ DeleteOrg(r)
    BY <2>3 DEF WriteOrg, WriteSub, DeleteOrg
  <2>4. CASE DetectDeadlock(r) \/ Rollback(r) \/ LoseConnection(r)
    BY <2>4 DEF DetectDeadlock, Rollback, LoseConnection
  <2> QED BY <1>2, <2>1, <2>2, <2>3, <2>4 DEF RequestStep, Progress
<1> QED BY <1>1, <1>2

\* A charge.success that gets through leaves the plan of c.
LEMMA SoloChargeStep ==
  ASSUME PlanInv, NEW c \in Codes, Solo(c), SoloRows(c), SoloCharge(c),
         NEW r \in Requests, RequestStep(r)
  PROVE  SoloCharge(c)'
<1> DEFINE Settled == plan \in {PlanOf[c], "gone"}
<1>1. /\ op \in [Requests -> Ops \cup {None}] /\ pc \in [Requests -> Control]
      /\ todo \in [Requests -> Seq(Steps)] /\ handled \subseteq DOMAIN log
      /\ mineOrg \in [Requests -> Tiers \cup {"gone", None}]
  BY DEF PlanInv, TypeOK, TodoOK
<1>2. Others(r) /\ Grows
  BY OthersStay, RequestMoves DEF PlanInv
<1>3. plan' \in {plan, PlanOf[c], "gone"}
  BY SoloCommit
<1>4. Settled => Settled'
  BY <1>3
<1>5. ASSUME NEW i \in handled', log'[i].kind = "charge"
      PROVE  plan' \in {PlanOf[c], "gone"}
  <2>1. CASE i \in handled
    <3>1. log'[i] = log[i]
      BY <1>1, <1>2, <2>1 DEF Grows
    <3> QED BY <1>4, <1>5, <2>1, <3>1 DEF SoloCharge
  <2>2. CASE i \notin handled
    <3>1. Commit(r) /\ op[r].kind = log[i].kind /\ i \in DOMAIN log
      BY <1>5, <2>2, HandledStep
    <3>2. op[r].kind = "charge"
      BY <1>2, <1>5, <3>1 DEF Grows
    <3>3. mineOrg[r] = PlanOf[c] \/ plan \in {PlanOf[c], "gone"}
      BY <3>1, <3>2 DEF SoloCharge, Commit
    <3>4. plan' = IF mineOrg[r] = None THEN plan ELSE mineOrg[r]
      BY <3>1 DEF Commit
    <3>5. PlanOf[c] # None
      BY DEF Solo, Tiers
    <3> QED BY <1>4, <3>3, <3>4, <3>5
  <2> QED BY <2>1, <2>2
<1>6. ASSUME NEW q \in Requests \ {r}, pc'[q] = "run", op'[q].kind = "charge", todo'[q] = <<>>
      PROVE  mineOrg'[q] = PlanOf[c] \/ plan' \in {PlanOf[c], "gone"}
  BY <1>2, <1>4, <1>6 DEF Others, SoloCharge
<1>7. ASSUME pc'[r] = "run", op'[r].kind = "charge", todo'[r] = <<>>
      PROVE  mineOrg'[r] = PlanOf[c] \/ plan' \in {PlanOf[c], "gone"}
  <2>1. CASE Deliver(r) \/ Verify(r) \/ Manage(r)
    <3>1. PICK o : Begin(r, o) /\ (o.kind = "charge" => o.meta)
      <4>1. CASE Deliver(r)
        <5>1. PICK i \in DOMAIN log :
                Begin(r, [kind |-> log[i].kind, code |-> log[i].code, meta |-> log[i].meta, pos |-> i])
          BY <4>1 DEF Deliver
        <5> QED BY <5>1, SoloFacts
      <4>2. CASE Verify(r)
        BY <4>2 DEF Verify
      <4>3. CASE Manage(r)
        BY <4>3 DEF Manage
      <4> QED BY <2>1, <4>1, <4>2, <4>3
    <3>2. op'[r] = o /\ todo'[r] = Script(o)
      BY <1>1, <3>1 DEF Begin
    <3>3. todo'[r] = <<"load_org", "write_org">>
      BY <1>7, <3>1, <3>2 DEF Script
    <3> QED BY <1>7, <3>3
  <2>2. CASE LoadOrg(r)
    <3>1. CASE plan = "gone"
      BY <1>4, <3>1
    <3>2. CASE plan # "gone"
      <4>1. todo'[r] = Tail(todo[r])
        BY <1>1, <2>2, <3>2 DEF LoadOrg, Advance
      <4> QED BY <1>7, <2>2, <4>1, LoadOrgSkips DEF LoadOrg
    <3> QED BY <3>1, <3>2
  <2>3. ASSUME pc[r] = "run", todo[r] # <<>>, op'[r] = op[r]
        PROVE  Head(todo[r]) \in {"load_org", "write_org"}
    <3>1. op[r] \in Ops /\ todo[r] \in Seq(Steps) /\ Suffix(todo[r], Script(op[r]))
      BY <2>3, RunningFacts
    <3>2. Head(todo[r]) \in Steps
      BY <2>3, <3>1
    <3>3. op[r].kind = "charge"
      BY <1>7, <2>3
    <3> QED BY <2>3, <3>1, <3>2, <3>3, StepFacts DEF Steps
  <2>4. CASE LoadSub(r) \/ CallPaystack(r) \/ WriteSub(r) \/ DeleteOrg(r)
    BY <2>3, <2>4 DEF LoadSub, CallPaystack, WriteSub, DeleteOrg, At
  <2>5. CASE WriteOrg(r)
    <3>1. NewPlan(r) = PlanOf[c]
      BY <2>5, SoloWrites DEF WriteOrg
    <3>2. CASE seenPlan[r] = PlanOf[c]
      <4>1. Settled
        BY <3>2 DEF SoloRows
      <4> QED BY <1>4, <4>1
    <3>3. CASE seenPlan[r] # PlanOf[c]
      <4>1. mineOrg' = [mineOrg EXCEPT ![r] = PlanOf[c]] \/ Fail(r)
        BY <2>5, <3>1, <3>3 DEF WriteOrg
      <4> QED BY <1>1, <1>7, <4>1 DEF Fail
    <3> QED BY <3>2, <3>3
  <2>6. CASE DetectDeadlock(r) \/ Commit(r) \/ Rollback(r) \/ LoseConnection(r)
    BY <1>1, <1>7, <2>6 DEF DetectDeadlock, Fail, Commit, Rollback, LoseConnection, Close
  <2> QED BY <2>1, <2>2, <2>4, <2>5, <2>6 DEF RequestStep, Progress
<1> QED BY <1>5, <1>6, <1>7 DEF SoloCharge

\* A subscription.create that gets through leaves the record of c.
LEMMA SoloCreateStep ==
  ASSUME PlanInv, NEW c \in Codes, Solo(c), SoloRows(c), SoloCreate(c),
         NEW r \in Requests, RequestStep(r)
  PROVE  SoloCreate(c)'
<1>1. /\ op \in [Requests -> Ops \cup {None}] /\ pc \in [Requests -> Control]
      /\ todo \in [Requests -> Seq(Steps)] /\ handled \subseteq DOMAIN log
      /\ mineSub \in [Requests -> SubRow \cup {None}]
  BY DEF PlanInv, TypeOK, TodoOK
<1>2. Others(r) /\ Grows
  BY OthersStay, RequestMoves DEF PlanInv
<1>3. /\ plan = "gone" => plan' = "gone"
      /\ sub' # sub => sub' = Paper(c) \/ plan' = "gone"
  BY SoloCommit
<1>4. sub \in {None, Paper(c)}
  BY DEF SoloRows
<1>5. ASSUME NEW i \in handled', log'[i].kind = "create"
      PROVE  sub' = Paper(c) \/ plan' = "gone"
  <2>1. CASE i \in handled
    <3>1. log'[i] = log[i]
      BY <1>1, <1>2, <2>1 DEF Grows
    <3> QED BY <1>3, <1>5, <2>1, <3>1 DEF SoloCreate
  <2>2. CASE i \notin handled
    <3>1. Commit(r) /\ op[r].kind = log[i].kind /\ i \in DOMAIN log
      BY <1>5, <2>2, HandledStep
    <3>2. op[r].kind = "create"
      BY <1>2, <1>5, <3>1 DEF Grows
    <3>3. Len(todo[r]) <= 2
      BY <3>1 DEF Commit
    <3>4. mineSub[r] = Paper(c)
      BY <3>1, <3>2, <3>3 DEF SoloCreate, Commit
    <3>5. /\ plan' = IF mineOrg[r] = None THEN plan ELSE mineOrg[r]
          /\ sub' = IF mineOrg[r] = "gone" THEN None
                    ELSE IF mineSub[r] = None THEN sub ELSE mineSub[r]
      BY <3>1 DEF Commit
    <3> QED BY <1>4, <3>4, <3>5
  <2> QED BY <2>1, <2>2
<1>6. ASSUME NEW q \in Requests \ {r}, pc'[q] = "run", op'[q].kind = "create", Len(todo'[q]) <= 2
      PROVE  mineSub'[q] = Paper(c)
  BY <1>2, <1>6 DEF Others, SoloCreate
<1>7. ASSUME pc'[r] = "run", op'[r].kind = "create", Len(todo'[r]) <= 2
      PROVE  mineSub'[r] = Paper(c)
  <2>1. CASE Deliver(r) \/ Verify(r) \/ Manage(r)
    <3>1. PICK o : Begin(r, o) /\ (o.kind = "create" => o.meta /\ o.code = c)
      <4>1. CASE Deliver(r)
        <5>1. PICK i \in DOMAIN log :
                Begin(r, [kind |-> log[i].kind, code |-> log[i].code, meta |-> log[i].meta, pos |-> i])
          BY <4>1 DEF Deliver
        <5> QED BY <5>1, SoloFacts
      <4>2. CASE Verify(r)
        BY <4>2 DEF Verify
      <4>3. CASE Manage(r)
        BY <4>3 DEF Manage
      <4> QED BY <2>1, <4>1, <4>2, <4>3
    <3>2. op'[r] = o /\ todo'[r] = Script(o)
      BY <1>1, <3>1 DEF Begin
    <3>3. todo'[r] = <<"load_sub", "write_sub", "load_org", "write_org">>
      BY <1>7, <3>1, <3>2 DEF Script, Solo
    <3>4. Len(todo'[r]) = 4
      BY <3>3
    <3> QED BY <1>7, <3>4
  <2>2. ASSUME pc[r] = "run", todo[r] # <<>>, op'[r] = op[r]
        PROVE  \E n \in 1 .. 4 :
                 /\ Len(todo[r]) = n
                 /\ Head(todo[r]) = "load_sub" <=> n = 4
                 /\ Head(todo[r]) = "write_sub" <=> n = 3
    <3>1. op[r] \in Ops /\ todo[r] \in Seq(Steps) /\ Suffix(todo[r], Script(op[r]))
      BY <2>2, RunningFacts
    <3>2. op[r].kind = "create" /\ op[r].meta /\ op[r].code = c
      BY <1>7, <2>2, SoloFacts
    <3>3. PlanOf[op[r].code] # "unknown"
      BY <3>2 DEF Solo
    <3> QED BY <2>2, <3>1, <3>2, <3>3, CreateSteps
  <2>3. ASSUME pc[r] = "run", todo[r] # <<>>, op'[r] = op[r],
               Head(todo[r]) # "write_sub", mineSub'[r] = mineSub[r],
               todo'[r] = Tail(todo[r])
        PROVE  mineSub'[r] = Paper(c)
    <3>1. PICK n \in 1 .. 4 :
            /\ Len(todo[r]) = n
            /\ Head(todo[r]) = "load_sub" <=> n = 4
            /\ Head(todo[r]) = "write_sub" <=> n = 3
      BY <2>2, <2>3
    <3>2. Len(todo'[r]) = n - 1
      BY <1>1, <2>3, <3>1
    <3>3. n - 1 <= 2
      BY <1>7, <3>2
    <3>4. n <= 2
      BY <2>3, <3>1, <3>3
    <3>5. Len(todo[r]) <= 2
      BY <3>1, <3>4
    <3> QED BY <1>7, <2>3, <3>5 DEF SoloCreate
  <2>4. CASE LoadOrg(r)
    <3>1. pc[r] = "run" /\ todo[r] # <<>> /\ op'[r] = op[r] /\ mineSub'[r] = mineSub[r]
          /\ Head(todo[r]) = "load_org"
      BY <2>4 DEF LoadOrg, At
    <3>2. PICK n \in 1 .. 4 :
            /\ Len(todo[r]) = n
            /\ Head(todo[r]) = "load_sub" <=> n = 4
            /\ Head(todo[r]) = "write_sub" <=> n = 3
      BY <2>2, <3>1
    <3>3. n <= 2
      BY <3>1, <3>2
    <3>4. Len(todo[r]) <= 2
      BY <3>2, <3>3
    <3> QED BY <1>7, <3>1, <3>4 DEF SoloCreate
  <2>5. CASE LoadSub(r) \/ CallPaystack(r) \/ WriteOrg(r) \/ DeleteOrg(r)
    <3>1. pc[r] = "run" /\ todo[r] # <<>> /\ op'[r] = op[r] /\ mineSub'[r] = mineSub[r]
          /\ Head(todo[r]) # "write_sub"
      BY <2>5 DEF LoadSub, CallPaystack, WriteOrg, DeleteOrg, At
    <3>2. Advance(r)
      <4>1. ~Fail(r)
        BY <1>1, <1>7 DEF Fail
      <4> QED BY <2>5, <4>1 DEF LoadSub, CallPaystack, WriteOrg, DeleteOrg
    <3>3. todo'[r] = Tail(todo[r])
      BY <1>1, <3>2 DEF Advance
    <3> QED BY <2>3, <3>1, <3>3
  <2>6. CASE WriteSub(r)
    <3>1. NewSub(r) = Paper(c) /\ ~NothingToWrite(r)
      BY <2>6, SoloWrites DEF WriteSub
    <3>2. ~Fail(r)
      BY <1>1, <1>7 DEF Fail
    <3>3. /\ mineSub' = [mineSub EXCEPT ![r] = IF seenSub[r] = None THEN NewSub(r) ELSE Updated(r)]
          /\ seenSub[r] # None => sub # None
      BY <2>6, <3>1, <3>2 DEF WriteSub
    <3>4. seenSub[r] \in {None, Paper(c)} /\ sub \in {None, Paper(c)}
      BY DEF SoloRows
    <3>5. seenSub[r] # None => Updated(r) = Paper(c)
      BY <3>1, <3>3, <3>4 DEF Updated, Paper
    <3> QED BY <1>1, <3>1, <3>3, <3>5
  <2>7. CASE DetectDeadlock(r) \/ Commit(r) \/ Rollback(r) \/ LoseConnection(r)
    BY <1>1, <1>7, <2>7 DEF DetectDeadlock, Fail, Commit, Rollback, LoseConnection, Close
  <2> QED BY <2>1, <2>4, <2>5, <2>6, <2>7 DEF RequestStep, Progress
<1> QED BY <1>5, <1>6, <1>7 DEF SoloCreate, Paper

LEMMA SettleInvInit == Init => SettleInv
<1> SUFFICES ASSUME Init
             PROVE  SettleInv
  OBVIOUS
<1>1. ToldInv
  BY DEF Init, ToldInv, Paid
<1>2. SoloInv
  <2> SUFFICES ASSUME NEW c \in Codes, Solo(c)
               PROVE  SoloRows(c) /\ SoloCharge(c) /\ SoloCreate(c)
    BY DEF SoloInv
  <2>1. PlanOf[c] # None
    BY DEF Solo, Tiers
  <2>2. SoloRows(c)
    BY <2>1 DEF Init, SoloRows
  <2> QED BY <2>2 DEF Init, SoloCharge, SoloCreate
<1> QED BY <1>1, <1>2, PlanInvInit DEF SettleInv

LEMMA SettleInvStep ==
  ASSUME SettleInv, [Next]_vars
  PROVE  SettleInv'
<1> USE DEF SettleInv
<1>1. PlanInv' /\ ToldInv'
  BY PlanInvStep, ToldInvStep
<1>2. ASSUME NEW c \in Codes, Solo(c)'
      PROVE  SoloRows(c)' /\ SoloCharge(c)' /\ SoloCreate(c)'
  <2>1. Solo(c) /\ Grows
    BY <1>2, SoloBefore
  <2>2. SoloRows(c) /\ SoloCharge(c) /\ SoloCreate(c)
    BY <2>1 DEF SoloInv
  <2>3. ASSUME NEW r \in Requests, RequestStep(r)
        PROVE  SoloRows(c)' /\ SoloCharge(c)' /\ SoloCreate(c)'
    BY <2>1, <2>2, <2>3, SoloRowsStep, SoloChargeStep, SoloCreateStep
  <2>4. CASE UNCHANGED <<plan, sub, op, pc, session, handled, orderly>>
    <3>1. /\ plan' = plan /\ sub' = sub /\ op' = op /\ pc' = pc /\ todo' = todo
          /\ seenPlan' = seenPlan /\ seenSub' = seenSub /\ mineOrg' = mineOrg
          /\ mineSub' = mineSub /\ handled' = handled
      BY <2>4 DEF session
    <3>2. \A i \in handled : log'[i] = log[i]
      BY <2>1 DEF Grows, PlanInv, TypeOK
    <3>3. SoloRows(c)'
      BY <2>2, <3>1 DEF SoloRows, Paper
    <3>4. SoloCharge(c)'
      BY <2>2, <3>1, <3>2 DEF SoloCharge
    <3>5. SoloCreate(c)'
      BY <2>2, <3>1, <3>2 DEF SoloCreate, Paper
    <3> QED BY <3>3, <3>4, <3>5
  <2>5. ASSUME NEW d \in Codes, PaystackStep(d)
        PROVE  UNCHANGED <<plan, sub, op, pc, session, handled, orderly>>
    BY <2>5 DEF PaystackStep, Initialize, Pay, Subscribe, FailPayment, Disable
  <2>6. CASE UNCHANGED vars
    BY <2>4, <2>6 DEF vars, session
  <2> QED BY <2>3, <2>4, <2>5, <2>6, NextSteps
<1> QED BY <1>1, <1>2 DEF SoloInv

LEMMA Settled ==
  ASSUME SettleInv
  PROVE  CheckoutSettles
<1> SUFFICES ASSUME NEW c \in Codes, stage[c] = "active",
                    PlanOf[c] # "unknown", NamedPlan[c] = PlanOf[c],
                    \A d \in Codes \ {c} : stage[d] = "none",
                    \A i \in DOMAIN log : log[i].kind # "payfail" /\ log[i].meta,
                    handled = DOMAIN log, plan # "gone"
             PROVE  plan = PlanOf[c] /\ sub = [code |-> c, status |-> "active"]
  BY DEF CheckoutSettles
<1>1. SoloCharge(c) /\ SoloCreate(c)
  BY DEF SettleInv, SoloInv, Solo
<1>2. PICK i \in DOMAIN log : log[i].kind = "charge"
  BY DEF SettleInv, ToldInv, Paid
<1>3. PICK j \in DOMAIN log : log[j].kind = "create"
  BY DEF SettleInv, ToldInv
<1> QED BY <1>1, <1>2, <1>3 DEF SoloCharge, SoloCreate, Paper

\* However the verification, charge.success and subscription.create of an
\* organization's one checkout overlap, repeat, overtake or fail, once each
\* event got through the organization has the plan it paid for and an active
\* record of the subscription.
THEOREM CheckoutsSettle == Spec => []CheckoutSettles
<1>1. Spec => []SettleInv
  BY SettleInvInit, SettleInvStep, PTL DEF Spec
<1>2. SettleInv => CheckoutSettles
  BY Settled
<1> QED BY <1>1, <1>2, PTL


---------------------------------------------------------------------------
(***************************************************************************)
(* The inductive invariant about events that are handled one at a time and *)
(* in order.                                                               *)
(***************************************************************************)
\* Step x is among those of s.
Left(s, x) == \E j \in 1 .. Len(s) : s[j] = x

\* The steps request r has ahead of it, and all those of its script.
Ahead(r, x) == Left(todo[r], x)
Has(r, x) == Left(Script(op[r]), x)

\* An idle request holds no session.
CleanInv ==
  \A r \in Requests : pc[r] = "idle" =>
    mineOrg[r] = None /\ mineSub[r] = None /\ seenPlan[r] = None /\ seenSub[r] = None

\* What the commit of r would leave.
PlanAfter(r) == IF mineOrg[r] = None THEN plan ELSE mineOrg[r]
SubAfter(r) == IF mineSub[r] = None THEN sub ELSE mineSub[r]

\* The record r finds, as long as nobody else commits.
Found(r) ==
  IF sub # None /\ (op[r].kind \in {"disable", "payfail"} => sub.code = op[r].code) THEN sub ELSE None

\* Plan and record say what event e does.
Says(e, p, s) ==
  /\ e.kind = "disable" => p = "free" /\ (s # None /\ s.code = e.code => s.status = "canceled")
  /\ e.kind = "create" => s = [code |-> e.code, status |-> "active"]
  /\ e.kind = "create" /\ PlanOf[e.code] # "unknown" => p = PlanOf[e.code]
  /\ e.kind = "charge" /\ NamedPlan[e.code] # "unknown" => p \in {NamedPlan[e.code], PlanOf[e.code]}
  /\ e.kind = "payfail" /\ s # None /\ s.code = e.code => s.status = "past_due"

\* The events handled are the first ones.
PrefixInv == handled = 1 .. Cardinality(handled)

\* With no event outstanding, plan and record are those of the last one.
LastInv ==
  plan # "gone" /\ log # <<>> /\ handled = DOMAIN log => Says(log[Len(log)], plan, sub)

\* A running request is about the last event handled, the next one, or none; a
\* verification is about the checkout of the last one, a cancellation that
\* called Paystack has caused an event that is outstanding.
AboutInv(r) ==
  /\ op[r].kind \in Signals =>
       op[r].meta /\ op[r].pos \in {Cardinality(handled), Cardinality(handled) + 1}
  /\ op[r].kind = "verify" /\ handled = DOMAIN log =>
       /\ log # <<>> /\ log[Len(log)].kind \in {"charge", "create"}
       /\ log[Len(log)].code = op[r].code
  /\ op[r].kind = "cancel" /\ ~Ahead(r, "call") => handled # DOMAIN log

\* What its session has loaded is committed; what it has written is what the
\* handler assigns.
OrgSession(r) ==
  /\ Ahead(r, "write_org") /\ ~Ahead(r, "load_org") => seenPlan[r] = plan
  /\ Has(r, "write_org") /\ ~Ahead(r, "write_org") /\ plan # "gone" =>
       PlanAfter(r) = NewPlan(r) /\ seenPlan[r] = plan
  /\ Ahead(r, "write_org") \/ ~Has(r, "write_org") => mineOrg[r] \in {None, "gone"}
  /\ mineOrg[r] = "gone" <=> op[r].kind = "delete" /\ ~Ahead(r, "delete_org")
SubSession(r) ==
  /\ Has(r, "write_sub") /\ ~Ahead(r, "load_sub") => seenSub[r] = Found(r)
  /\ Ahead(r, "write_sub") \/ ~Has(r, "write_sub") => mineSub[r] = None
  /\ Has(r, "write_sub") /\ ~Ahead(r, "write_sub") =>
       IF Found(r) = None /\ op[r].kind \in {"disable", "payfail"} THEN mineSub[r] = None
       ELSE SubAfter(r) = NewSub(r)

InOrderInv ==
  /\ CleanInv
  /\ orderly =>
       /\ \A r, q \in Requests : InFlight(r) /\ InFlight(q) => r = q
       /\ PrefixInv /\ LastInv
       /\ \A r \in Requests : pc[r] = "run" => AboutInv(r) /\ OrgSession(r) /\ SubSession(r)

(***************************************************************************)
(* Where a handler stands in its script.                                   *)
(***************************************************************************)
LEMMA LeftTail ==
  ASSUME NEW s \in Seq(Steps), s # <<>>
  PROVE  \A x : Left(s, x) <=> Head(s) = x \/ Left(Tail(s), x)
<1>1. PICK n \in Nat : n = Len(s) /\ n # 0
  OBVIOUS
<1>2. Len(Tail(s)) = n - 1 /\ Head(s) = s[1] /\ \A j \in 1 .. (n - 1) : Tail(s)[j] = s[j + 1]
  BY <1>1
<1> SUFFICES ASSUME NEW x
             PROVE  Left(s, x) <=> Head(s) = x \/ Left(Tail(s), x)
  OBVIOUS
<1>3. ASSUME NEW j \in 1 .. n, s[j] = x
      PROVE  s[1] = x \/ \E k \in 1 .. (n - 1) : Tail(s)[k] = x
  <2>1. CASE j = 1
    BY <1>3, <2>1
  <2>2. CASE j # 1
    <3>1. j - 1 \in 1 .. (n - 1) /\ (j - 1) + 1 = j
      BY <1>1, <2>2
    <3> QED BY <1>2, <1>3, <3>1
  <2> QED BY <2>1, <2>2
<1>4. ASSUME NEW k \in 1 .. (n - 1), Tail(s)[k] = x
      PROVE  \E j \in 1 .. n : s[j] = x
  <2>1. k + 1 \in 1 .. n
    BY <1>1
  <2> QED BY <1>2, <1>4, <2>1
<1>5. 1 \in 1 .. n
  BY <1>1
<1> QED BY <1>1, <1>2, <1>3, <1>4, <1>5 DEF Left

\* No script takes a step twice, or writes a row before it has loaded it; a
\* webhook or verification that loads the organization writes it next.
Orderly(t, kind) ==
  /\ \A i, j \in 1 .. Len(t) : t[i] = t[j] => i = j
  /\ \A i, j \in 1 .. Len(t) : t[i] = "load_org" /\ t[j] = "write_org" => i < j
  /\ \A i, j \in 1 .. Len(t) : t[i] = "load_sub" /\ t[j] = "write_sub" => i < j
  /\ Left(t, "write_org") => Left(t, "load_org")
  /\ Left(t, "write_sub") => Left(t, "load_sub")
  /\ kind \notin {"cancel", "delete"} =>
       \A i \in 1 .. Len(t) : t[i] = "load_org" => i + 1 \in 1 .. Len(t) /\ t[i + 1] = "write_org"
  /\ Left(t, "call") <=> kind = "cancel"
  /\ Left(t, "delete_org") <=> kind = "delete"
  /\ Left(t, "write_org") => kind # "delete"

LEMMA ScriptOrder ==
  ASSUME NEW o \in Ops
  PROVE  Orderly(Script(o), o.kind)
<1>1. o.kind \in {"charge", "create", "disable", "payfail", "verify", "cancel", "delete"}
  BY DEF Ops
<1> USE DEF Orderly, Left, Script
<1>2. CASE o.kind = "charge" /\ o.meta
  BY <1>2
<1>3. CASE o.kind = "create" /\ o.meta /\ PlanOf[o.code] # "unknown"
  BY <1>3
<1>4. CASE o.kind = "create" /\ o.meta /\ PlanOf[o.code] = "unknown"
  BY <1>4
<1>5. CASE o.kind = "disable" /\ o.meta
  BY <1>5
<1>6. CASE o.kind = "disable" /\ ~o.meta
  BY <1>6
<1>7. CASE o.kind = "payfail"
  BY <1>7
<1>8. CASE o.kind = "verify" /\ o.meta
  BY <1>8
<1>9. CASE o.kind = "verify" /\ ~o.meta
  BY <1>9
<1>10. CASE o.kind = "cancel"
  BY <1>10
<1>11. CASE o.kind = "delete"
  BY <1>11
<1>12. CASE o.kind \in {"charge", "create"} /\ ~o.meta
  BY <1>12
<1> QED BY <1>1, <1>2, <1>3, <1>4, <1>5, <1>6, <1>7, <1>8, <1>9, <1>10, <1>11, <1>12

\* The same of what is left of a script.
LEMMA LeftFacts ==
  ASSUME NEW o \in Ops, NEW s \in Seq(Steps), Suffix(s, Script(o))
  PROVE  /\ \A x : Left(s, x) => Left(Script(o), x)
         /\ Left(s, "load_org") /\ Left(Script(o), "write_org") => Left(s, "write_org")
         /\ Left(s, "load_sub") /\ Left(Script(o), "write_sub") => Left(s, "write_sub")
         /\ s # <<>> =>
              /\ ~Left(Tail(s), Head(s))
              /\ Head(s) = "write_org" => ~Left(s, "load_org")
              /\ Head(s) = "write_sub" => ~Left(s, "load_sub")
              /\ Head(s) = "load_org" /\ o.kind \notin {"cancel", "delete"} =>
                   Tail(s) # <<>> /\ Head(Tail(s)) = "write_org"
<1>1. PICK t \in Seq(Steps) : t = Script(o)
  BY ScriptSteps
<1>2. Orderly(t, o.kind)
  BY <1>1, ScriptOrder
<1>3. PICK n \in Nat, d \in Nat : Len(s) = n /\ Len(t) = n + d
  <2>1. Len(s) \in Nat /\ Len(t) \in Nat /\ Len(s) <= Len(t)
    BY <1>1 DEF Suffix
  <2>2. Len(t) - Len(s) \in Nat /\ Len(t) = Len(s) + (Len(t) - Len(s))
    BY <2>1
  <2> QED BY <2>1, <2>2
<1>4. \A j \in 1 .. n : s[j] = t[d + j] /\ d + j \in 1 .. (n + d)
  <2>1. (n + d) - n = d
    BY <1>3
  <2>2. \A j \in 1 .. n : s[j] = t[(n + d) - n + j]
    BY <1>1, <1>3 DEF Suffix
  <2> QED BY <1>3, <2>1, <2>2
<1>5. \A x : Left(s, x) => Left(t, x)
  BY <1>3, <1>4 DEF Left
<1>6. ASSUME NEW x, NEW y, Left(s, x), Left(t, y),
             \A i, j \in 1 .. Len(t) : t[i] = x /\ t[j] = y => i < j
      PROVE  Left(s, y)
  <2>1. PICK i \in 1 .. n : s[i] = x
    BY <1>3, <1>6 DEF Left
  <2>2. PICK j \in 1 .. (n + d) : t[j] = y
    BY <1>3, <1>6 DEF Left
  <2>3. d + i < j
    BY <1>3, <1>4, <1>6, <2>1, <2>2
  <2>4. j - d \in 1 .. n /\ d + (j - d) = j
    BY <1>3, <2>3
  <2>5. s[j - d] = y
    BY <1>4, <2>2, <2>4
  <2> QED BY <1>3, <2>4, <2>5 DEF Left
<1>7. ASSUME s # <<>>
      PROVE  /\ ~Left(Tail(s), Head(s))
             /\ Head(s) = "write_org" => ~Left(s, "load_org")
             /\ Head(s) = "write_sub" => ~Left(s, "load_sub")
             /\ Head(s) = "load_org" /\ o.kind \notin {"cancel", "delete"} =>
                  Tail(s) # <<>> /\ Head(Tail(s)) = "write_org"
  <2>1. n # 0 /\ Head(s) = s[1] /\ 1 \in 1 .. n
    BY <1>3, <1>7
  <2>2. /\ Tail(s) \in Seq(Steps) /\ Len(Tail(s)) = n - 1
        /\ \A k \in 1 .. (n - 1) : Tail(s)[k] = s[k + 1] /\ k + 1 \in 1 .. n
    BY <1>3, <1>7
  <2>3. ASSUME NEW k \in 1 .. (n - 1), Tail(s)[k] = Head(s)
        PROVE  FALSE
    <3>1. t[d + 1] = t[d + (k + 1)]
      BY <1>4, <2>1, <2>2, <2>3
    <3>2. d + 1 = d + (k + 1)
      BY <1>2, <1>3, <1>4, <2>1, <2>2, <3>1 DEF Orderly
    <3> QED BY <1>3, <3>2
  <2>4. ~Left(Tail(s), Head(s))
    BY <2>2, <2>3 DEF Left
  <2>5. ASSUME NEW x, NEW y, Head(s) = y, Left(s, x),
               \A i, j \in 1 .. Len(t) : t[i] = x /\ t[j] = y => i < j
        PROVE  FALSE
    <3>1. PICK i \in 1 .. n : s[i] = x
      BY <1>3, <2>5 DEF Left
    <3>2. d + i < d + 1
      BY <1>3, <1>4, <2>1, <2>5, <3>1
    <3> QED BY <1>3, <3>2
  <2>6. Head(s) = "write_org" => ~Left(s, "load_org")
    BY <1>2, <2>5 DEF Orderly
  <2>7. Head(s) = "write_sub" => ~Left(s, "load_sub")
    BY <1>2, <2>5 DEF Orderly
  <2>8. ASSUME Head(s) = "load_org", o.kind \notin {"cancel", "delete"}
        PROVE  Tail(s) # <<>> /\ Head(Tail(s)) = "write_org"
    <3>1. t[d + 1] = "load_org" /\ d + 1 \in 1 .. (n + d)
      BY <1>4, <2>1, <2>8
    <3>2. (d + 1) + 1 \in 1 .. (n + d) /\ t[(d + 1) + 1] = "write_org"
      BY <1>2, <1>3, <2>8, <3>1 DEF Orderly
    <3>3. 1 \in 1 .. (n - 1) /\ d + (1 + 1) = (d + 1) + 1 /\ 1 + 1 \in 1 .. n
      BY <1>3, <3>2
    <3>4. Tail(s)[1] = "write_org"
      BY <1>4, <2>2, <3>2, <3>3
    <3>5. PICK u \in Seq(Steps) : u = Tail(s)
      BY <2>2
    <3>6. Len(u) # 0
      <4>1. PICK m \in Int : m = n - 1
        BY <1>3
      <4>2. m # 0
        BY <3>3, <4>1
      <4>3. Len(u) = m
        BY <2>2, <3>5, <4>1
      <4> QED BY <4>2, <4>3
    <3>7. u # <<>> /\ Head(u) = u[1]
      BY <3>6
    <3> QED BY <3>4, <3>5, <3>7
  <2> QED BY <2>4, <2>6, <2>7, <2>8
<1>8. Left(s, "load_org") /\ Left(t, "write_org") => Left(s, "write_org")
  BY <1>2, <1>6 DEF Orderly
<1>9. Left(s, "load_sub") /\ Left(t, "write_sub") => Left(s, "write_sub")
  BY <1>2, <1>6 DEF Orderly
<1> QED BY <1>1, <1>5, <1>7, <1>8, <1>9

---------------------------------------------------------------------------
(***************************************************************************)
(* The steps of the one request that is open.                              *)
(***************************************************************************)
\* A step that leaves the script of r alone leaves it the same steps.
LEMMA HasStays ==
  ASSUME NEW r \in Requests, op'[r] = op[r]
  PROVE  \A x : Has(r, x)' <=> Has(r, x)
  BY DEF Has, Left, Script

LEMMA AheadStays ==
  ASSUME NEW r \in Requests, todo'[r] = todo[r]
  PROVE  \A x : Ahead(r, x)' <=> Ahead(r, x)
  BY DEF Ahead, Left

\* What r has ahead, before and after it takes a step of its script.
LEMMA AheadFacts ==
  ASSUME PlanInv, NEW r \in Requests, pc[r] = "run"
  PROVE  /\ \A x : Ahead(r, x) => Has(r, x)
         /\ Ahead(r, "load_org") /\ Has(r, "write_org") => Ahead(r, "write_org")
         /\ Ahead(r, "load_sub") /\ Has(r, "write_sub") => Ahead(r, "write_sub")
         /\ Has(r, "write_org") => op[r].kind # "delete"
         /\ Has(r, "delete_org") <=> op[r].kind = "delete"
         /\ Has(r, "call") <=> op[r].kind = "cancel"
<1>1. op[r] \in Ops /\ todo[r] \in Seq(Steps) /\ Suffix(todo[r], Script(op[r]))
  BY RunningFacts
<1>2. Orderly(Script(op[r]), op[r].kind)
  BY <1>1, ScriptOrder
<1>3. /\ \A x : Left(todo[r], x) => Left(Script(op[r]), x)
      /\ Left(todo[r], "load_org") /\ Left(Script(op[r]), "write_org") => Left(todo[r], "write_org")
      /\ Left(todo[r], "load_sub") /\ Left(Script(op[r]), "write_sub") => Left(todo[r], "write_sub")
  BY <1>1, LeftFacts
<1> QED BY <1>2, <1>3 DEF Orderly, Ahead, Has

LEMMA StepAhead ==
  ASSUME PlanInv, NEW r \in Requests, pc[r] = "run", todo[r] # <<>>, todo'[r] = Tail(todo[r])
  PROVE  /\ \A x : Ahead(r, x) <=> Head(todo[r]) = x \/ Ahead(r, x)'
         /\ \A x : Head(todo[r]) = x => ~Ahead(r, x)'
         /\ Head(todo[r]) = "write_org" => ~Ahead(r, "load_org")
         /\ Head(todo[r]) = "write_sub" => ~Ahead(r, "load_sub")
<1>1. op[r] \in Ops /\ todo[r] \in Seq(Steps) /\ Suffix(todo[r], Script(op[r]))
  BY RunningFacts
<1>2. \A x : Left(todo[r], x) <=> Head(todo[r]) = x \/ Left(Tail(todo[r]), x)
  BY <1>1, LeftTail
<1>3. /\ ~Left(Tail(todo[r]), Head(todo[r]))
      /\ Head(todo[r]) = "write_org" => ~Left(todo[r], "load_org")
      /\ Head(todo[r]) = "write_sub" => ~Left(todo[r], "load_sub")
  BY <1>1, LeftFacts
<1>4. \A x : Ahead(r, x)' <=> Left(Tail(todo[r]), x)
  BY DEF Ahead, Left
<1>5. \A x : Head(todo[r]) = x => ~Ahead(r, x)'
  BY <1>3, <1>4
<1>6. \A x : Ahead(r, x) <=> Head(todo[r]) = x \/ Ahead(r, x)'
  BY <1>2, <1>4 DEF Ahead
<1> QED BY <1>3, <1>5, <1>6 DEF Ahead

\* A step that handles nothing and leaves no event outstanding adds none.
LEMMA SameLog ==
  ASSUME PlanInv, Grows, handled' = handled, handled' = DOMAIN log'
  PROVE  log' = log /\ handled = DOMAIN log
<1>1. log \in Seq(Event) /\ log' \in Seq(Event) /\ handled \subseteq DOMAIN log
      /\ DOMAIN log \subseteq DOMAIN log' /\ \A i \in DOMAIN log : log'[i] = log[i]
  BY DEF PlanInv, TypeOK, Grows
<1>2. DOMAIN log' = DOMAIN log
  BY <1>1
<1>3. PICK m \in Nat, n \in Nat : m = Len(log) /\ n = Len(log') /\ 1 .. m = 1 .. n
  BY <1>1, <1>2
<1>4. m = n
  <2>1. m <= n
    BY <1>3
  <2>2. n <= m
    BY <1>3
  <2> QED BY <2>1, <2>2
<1>5. log' = log
  BY <1>1, <1>3, <1>4, SeqEqual
<1> QED BY <1>2, <1>5

\* So the last event still says the same.
LEMMA LastStays ==
  ASSUME PlanInv, Grows, PrefixInv, LastInv, handled' = handled, plan' = plan, sub' = sub
  PROVE  PrefixInv' /\ LastInv'
<1>1. PrefixInv'
  BY DEF PrefixInv
<1>2. ASSUME plan' # "gone", log' # <<>>, handled' = DOMAIN log'
      PROVE  Says(log'[Len(log')], plan', sub')
  <2>1. log' = log /\ handled = DOMAIN log
    BY <1>2, SameLog
  <2> QED BY <1>2, <2>1 DEF LastInv
<1>3. LastInv'
  BY <1>2 DEF LastInv, Says
<1> QED BY <1>1, <1>3

\* What the open request is about stays what it is about.
LEMMA AboutGoesOn ==
  ASSUME PlanInv, Grows, NEW r \in Requests, AboutInv(r), op'[r] = op[r], handled' = handled,
         op[r].kind = "cancel" /\ ~Ahead(r, "call")' =>
           ~Ahead(r, "call") \/ handled # DOMAIN log'
  PROVE  AboutInv(r)'
<1>1. op[r].kind \in Signals =>
        op[r].meta /\ op[r].pos \in {Cardinality(handled), Cardinality(handled) + 1}
  BY DEF AboutInv
<1>2. ASSUME op[r].kind = "verify", handled' = DOMAIN log'
      PROVE  /\ log' # <<>> /\ log'[Len(log')].kind \in {"charge", "create"}
             /\ log'[Len(log')].code = op[r].code
  <2>1. log' = log /\ handled = DOMAIN log
    BY <1>2, SameLog
  <2> QED BY <1>2, <2>1 DEF AboutInv
<1>3. ASSUME op[r].kind = "cancel", ~Ahead(r, "call")', handled' = DOMAIN log'
      PROVE  FALSE
  <2>1. handled = DOMAIN log
    BY <1>3, SameLog
  <2>2. ~Ahead(r, "call")
    BY <1>3
  <2> QED BY <1>3, <2>1, <2>2 DEF AboutInv
<1> QED BY <1>1, <1>2, <1>3 DEF AboutInv

\* A request that begins has its whole script ahead of it.
LEMMA SessionBegins ==
  ASSUME PlanInv, CleanInv, NEW r \in Requests, pc[r] = "idle", NEW o \in Ops, Begin(r, o)
  PROVE  OrgSession(r)' /\ SubSession(r)'
<1>1. op'[r] = o /\ todo'[r] = Script(o) /\ plan' = plan /\ sub' = sub
      /\ mineOrg'[r] = None /\ mineSub'[r] = None
  BY DEF Begin, PlanInv, TypeOK, TodoOK, CleanInv
<1>2. Orderly(Script(o), o.kind)
  BY ScriptOrder
<1>3. \A x : (Ahead(r, x)' <=> Left(Script(o), x)) /\ (Has(r, x)' <=> Left(Script(o), x))
  BY <1>1 DEF Ahead, Has, Left, Script
<1>4. /\ Has(r, "write_org")' => Ahead(r, "load_org")'
      /\ Has(r, "write_sub")' => Ahead(r, "load_sub")'
      /\ \A x : Ahead(r, x)' <=> Has(r, x)'
      /\ Ahead(r, "delete_org")' <=> o.kind = "delete"
  BY <1>2, <1>3 DEF Orderly
<1>5. None # "gone"
  OBVIOUS
<1> QED BY <1>1, <1>4, <1>5 DEF OrgSession, SubSession

\* A step that neither loads nor writes the organization leaves that half of
\* the session alone; likewise for the subscription.
LEMMA OrgSessionStays ==
  ASSUME NEW r \in Requests, OrgSession(r), op'[r] = op[r], plan' = plan,
         seenPlan'[r] = seenPlan[r], mineOrg'[r] = mineOrg[r],
         \A x \in {"load_org", "write_org", "delete_org"} : Ahead(r, x)' <=> Ahead(r, x)
  PROVE  OrgSession(r)'
<1>1. \A x : Has(r, x)' <=> Has(r, x)
  BY HasStays
<1>2. NewPlan(r)' = NewPlan(r) /\ PlanAfter(r)' = PlanAfter(r)
  BY DEF NewPlan, PlanAfter
<1> QED BY <1>1, <1>2 DEF OrgSession

LEMMA SubSessionStays ==
  ASSUME NEW r \in Requests, SubSession(r), op'[r] = op[r], sub' = sub,
         seenSub'[r] = seenSub[r], mineSub'[r] = mineSub[r],
         \A x \in {"load_sub", "write_sub"} : Ahead(r, x)' <=> Ahead(r, x)
  PROVE  SubSession(r)'
<1>1. \A x : Has(r, x)' <=> Has(r, x)
  BY HasStays
<1>2. NewSub(r)' = NewSub(r) /\ SubAfter(r)' = SubAfter(r) /\ Found(r)' = Found(r)
  BY DEF NewSub, SubAfter, Found
<1> QED BY <1>1, <1>2 DEF SubSession

\* The load of the organization, which finds one.
LEMMA OrgLoads ==
  ASSUME PlanInv, NEW r \in Requests, LoadOrg(r), plan # "gone",
         OrgSession(r), SubSession(r)
  PROVE  OrgSession(r)' /\ SubSession(r)'
<1>1. /\ pc[r] = "run" /\ todo[r] # <<>> /\ Head(todo[r]) = "load_org"
      /\ todo'[r] = Tail(todo[r]) /\ op'[r] = op[r] /\ plan' = plan /\ sub' = sub
      /\ seenPlan'[r] = plan /\ seenSub'[r] = seenSub[r]
      /\ mineOrg'[r] = mineOrg[r] /\ mineSub'[r] = mineSub[r]
  BY DEF LoadOrg, At, Advance, PlanInv, TypeOK, TodoOK
<1>2. \A x : Ahead(r, x) <=> "load_org" = x \/ Ahead(r, x)'
  BY <1>1, StepAhead
<1>3. \A x : Has(r, x)' <=> Has(r, x)
  BY <1>1, HasStays
<1>4. Has(r, "write_org") => Ahead(r, "write_org")'
  BY <1>1, <1>2, AheadFacts
<1>5. OrgSession(r)'
  BY <1>1, <1>2, <1>3, <1>4 DEF OrgSession
<1>6. SubSession(r)'
  BY <1>1, <1>2, SubSessionStays
<1> QED BY <1>5, <1>6

\* A webhook that does not find one skips the write.
LEMMA OrgSkips ==
  ASSUME PlanInv, NEW r \in Requests, LoadOrg(r), plan = "gone",
         op[r].kind \in Signals, OrgSession(r), SubSession(r), AboutInv(r)
  PROVE  OrgSession(r)' /\ SubSession(r)' /\ AboutInv(r)'
<1>1. /\ pc[r] = "run" /\ todo[r] # <<>> /\ Head(todo[r]) = "load_org"
      /\ todo'[r] = Tail(Tail(todo[r])) /\ op'[r] = op[r] /\ plan' = plan /\ sub' = sub
      /\ seenPlan'[r] = seenPlan[r] /\ seenSub'[r] = seenSub[r]
      /\ mineOrg'[r] = mineOrg[r] /\ mineSub'[r] = mineSub[r] /\ handled' = handled
  BY DEF LoadOrg, At, Advance, PlanInv, TypeOK, TodoOK, Signals
<1>2. op[r] \in Ops /\ todo[r] \in Seq(Steps) /\ Suffix(todo[r], Script(op[r]))
  BY <1>1, RunningFacts
<1>3. Tail(todo[r]) \in Seq(Steps) /\ Tail(todo[r]) # <<>> /\ Suffix(Tail(todo[r]), Script(op[r]))
  BY LoadOrgSkips DEF LoadOrg
<1>4. Head(Tail(todo[r])) = "write_org"
  BY <1>1, <1>2, LeftFacts DEF Signals
<1>5. ~Left(Tail(Tail(todo[r])), "write_org")
  BY <1>2, <1>3, <1>4, LeftFacts
<1>6. \A x : Left(todo[r], x) <=> "load_org" = x \/ Left(Tail(todo[r]), x)
  BY <1>1, <1>2, LeftTail
<1>7. \A x : Left(Tail(todo[r]), x) <=> "write_org" = x \/ Left(Tail(Tail(todo[r])), x)
  BY <1>3, <1>4, LeftTail
<1>8. \A x : Ahead(r, x)' <=> Left(Tail(Tail(todo[r])), x)
  BY <1>1 DEF Ahead, Left
<1>9. \A x : Ahead(r, x) <=> x \in {"load_org", "write_org"} \/ Ahead(r, x)'
  BY <1>6, <1>7, <1>8 DEF Ahead
<1>10. ~Ahead(r, "write_org")' /\ Ahead(r, "write_org")
  BY <1>5, <1>8, <1>9
<1>11. \A x : Has(r, x)' <=> Has(r, x)
  BY <1>1, HasStays
<1>12. mineOrg[r] \in {None, "gone"} /\ op[r].kind # "delete"
  BY <1>10 DEF OrgSession, Signals
<1>13. OrgSession(r)'
  BY <1>1, <1>9, <1>10, <1>11, <1>12 DEF OrgSession
<1>14. SubSession(r)'
  BY <1>1, <1>9, SubSessionStays
<1>15. Grows
  BY RequestMoves DEF RequestStep, Progress
<1>16. AboutInv(r)'
  BY <1>1, <1>15, AboutGoesOn DEF Signals
<1> QED BY <1>13, <1>14, <1>16

\* The load of the subscription.
LEMMA SubLoads ==
  ASSUME PlanInv, NEW r \in Requests, LoadSub(r), Advance(r), OrgSession(r), SubSession(r)
  PROVE  OrgSession(r)' /\ SubSession(r)'
<1>1. /\ pc[r] = "run" /\ todo[r] # <<>> /\ Head(todo[r]) = "load_sub"
      /\ todo'[r] = Tail(todo[r]) /\ op'[r] = op[r] /\ plan' = plan /\ sub' = sub
      /\ seenPlan'[r] = seenPlan[r] /\ seenSub'[r] = Found(r)
      /\ mineOrg'[r] = mineOrg[r] /\ mineSub'[r] = mineSub[r]
  BY DEF LoadSub, At, Advance, PlanInv, TypeOK, TodoOK, Found
<1>2. \A x : Ahead(r, x) <=> "load_sub" = x \/ Ahead(r, x)'
  BY <1>1, StepAhead
<1>3. \A x : Has(r, x)' <=> Has(r, x)
  BY <1>1, HasStays
<1>4. Has(r, "write_sub") => Ahead(r, "write_sub")'
  BY <1>1, <1>2, AheadFacts
<1>5. Found(r)' = Found(r)
  BY <1>1 DEF Found
<1>6. SubSession(r)'
  BY <1>1, <1>2, <1>3, <1>4, <1>5 DEF SubSession
<1>7. OrgSession(r)'
  BY <1>1, <1>2, OrgSessionStays
<1> QED BY <1>6, <1>7

\* The flush of the organization.
LEMMA OrgWrites ==
  ASSUME PlanInv, NEW r \in Requests, WriteOrg(r), Advance(r), OrgSession(r), SubSession(r)
  PROVE  OrgSession(r)' /\ SubSession(r)'
<1>1. /\ pc[r] = "run" /\ todo[r] # <<>> /\ Head(todo[r]) = "write_org"
      /\ todo'[r] = Tail(todo[r]) /\ op'[r] = op[r] /\ plan' = plan /\ sub' = sub
      /\ seenPlan'[r] = seenPlan[r] /\ seenSub'[r] = seenSub[r] /\ mineSub'[r] = mineSub[r]
  BY DEF WriteOrg, At, Advance, PlanInv, TypeOK, TodoOK
<1>2. /\ \A x : Ahead(r, x) <=> "write_org" = x \/ Ahead(r, x)'
      /\ ~Ahead(r, "write_org")' /\ ~Ahead(r, "load_org") /\ Ahead(r, "write_org")
  BY <1>1, StepAhead
<1>3. \A x : Has(r, x)' <=> Has(r, x)
  BY <1>1, HasStays
<1>4. Has(r, "write_org") /\ op[r].kind # "delete"
  BY <1>1, <1>2, AheadFacts
<1>5. seenPlan[r] = plan /\ mineOrg[r] = None
  BY <1>2, <1>4 DEF OrgSession
<1>6. NewPlan(r)' = NewPlan(r)
  BY <1>1 DEF NewPlan
<1>7. NewPlan(r) # seenPlan[r] => NewPlan(r) \in Tiers
  BY WriteFacts DEF WriteOrg
<1>8. plan \in Tiers \cup {"gone"} /\ mineOrg \in [Requests -> Tiers \cup {"gone", None}]
      /\ pc \in [Requests -> Control]
  BY DEF PlanInv, TypeOK
<1>9. pc'[r] # "failing"
  BY <1>1 DEF Advance
<1>10. \/ NewPlan(r) = plan /\ mineOrg'[r] = None
       \/ NewPlan(r) = plan /\ mineOrg'[r] = plan /\ plan # "gone"
       \/ NewPlan(r) \in Tiers /\ mineOrg'[r] = NewPlan(r)
  BY <1>5, <1>7, <1>8, <1>9 DEF WriteOrg, Fail
<1>11. PlanAfter(r)' = NewPlan(r) /\ mineOrg'[r] # "gone"
  <2>1. PlanAfter(r)' = IF mineOrg'[r] = None THEN plan ELSE mineOrg'[r]
    BY <1>1 DEF PlanAfter
  <2> QED BY <1>8, <1>10, <2>1 DEF Tiers
<1>12. OrgSession(r)'
  BY <1>1, <1>2, <1>3, <1>4, <1>5, <1>6, <1>11 DEF OrgSession
<1>13. SubSession(r)'
  BY <1>1, <1>2, SubSessionStays
<1> QED BY <1>12, <1>13

\* The flush of the subscription.
LEMMA SubWrites ==
  ASSUME PlanInv, NEW r \in Requests, WriteSub(r), Advance(r), OrgSession(r), SubSession(r)
  PROVE  OrgSession(r)' /\ SubSession(r)'
<1>1. /\ pc[r] = "run" /\ todo[r] # <<>> /\ Head(todo[r]) = "write_sub"
      /\ todo'[r] = Tail(todo[r]) /\ op'[r] = op[r] /\ plan' = plan /\ sub' = sub
      /\ seenPlan'[r] = seenPlan[r] /\ seenSub'[r] = seenSub[r] /\ mineOrg'[r] = mineOrg[r]
  BY DEF WriteSub, At, Advance, PlanInv, TypeOK, TodoOK
<1>2. /\ \A x : Ahead(r, x) <=> "write_sub" = x \/ Ahead(r, x)'
      /\ ~Ahead(r, "write_sub")' /\ ~Ahead(r, "load_sub") /\ Ahead(r, "write_sub")
  BY <1>1, StepAhead
<1>3. \A x : Has(r, x)' <=> Has(r, x)
  BY <1>1, HasStays
<1>4. Has(r, "write_sub")
  BY <1>1, <1>2, AheadFacts
<1>5. seenSub[r] = Found(r) /\ mineSub[r] = None
  BY <1>2, <1>4 DEF SubSession
<1>6. NewSub(r)' = NewSub(r) /\ Found(r)' = Found(r)
  BY <1>1 DEF NewSub, Found
<1>7. /\ ~NothingToWrite(r) =>
           NewSub(r) \in SubRow /\ (sub # None /\ seenSub[r] # None => Updated(r) \in SubRow)
  BY WriteFacts DEF WriteSub
<1>8. sub \in SubRow \cup {None} /\ mineSub \in [Requests -> SubRow \cup {None}]
      /\ Found(r) \in {sub, None}
  BY DEF PlanInv, TypeOK, Found
<1>9. pc'[r] # "failing"
  BY <1>1 DEF Advance
<1> DEFINE quiet == Found(r) = None /\ op[r].kind \in {"disable", "payfail"}
<1>10. ASSUME \/ quiet /\ mineSub'[r] = None
              \/ ~quiet /\ SubAfter(r)' = NewSub(r)
       PROVE  SubSession(r)'
  <2>1. quiet' <=> quiet
    BY <1>1, <1>6
  <2>2. (IF quiet THEN mineSub[r] = None ELSE SubAfter(r) = NewSub(r))'
    BY <1>6, <1>10, <2>1
  <2>3. Has(r, "write_sub")' /\ ~Ahead(r, "write_sub")' /\ ~Ahead(r, "load_sub")'
    BY <1>2, <1>3, <1>4
  <2>4. seenSub'[r] = Found(r)'
    BY <1>1, <1>5, <1>6
  <2> QED BY <2>2, <2>3, <2>4 DEF SubSession
<1>11. ASSUME NothingToWrite(r)
       PROVE  SubSession(r)'
  <2>1. mineSub'[r] = None
    BY <1>5, <1>11 DEF WriteSub
  <2>2. ASSUME Found(r) = None
        PROVE  SubSession(r)'
    <3>1. quiet
      BY <1>5, <1>11, <2>2 DEF NothingToWrite
    <3> HIDE DEF quiet
    <3> QED BY <1>10, <2>1, <3>1
  <2>3. ASSUME Found(r) # None
        PROVE  SubSession(r)'
    <3>1. sub \in SubRow /\ seenSub[r] = sub /\ op[r].kind = "payfail" /\ sub.status = "past_due"
      BY <1>5, <1>8, <1>11, <2>3 DEF NothingToWrite
    <3>2. NewSub(r) = [sub EXCEPT !.status = "past_due"]
      BY <3>1 DEF NewSub
    <3>3. NewSub(r) = sub
      BY <3>1, <3>2 DEF SubRow
    <3>4. SubAfter(r)' = sub
      BY <1>1, <2>1 DEF SubAfter
    <3>5. ~quiet /\ SubAfter(r)' = NewSub(r)
      BY <2>3, <3>3, <3>4
    <3> HIDE DEF quiet
    <3> QED BY <1>10, <3>5
  <2> QED BY <2>2, <2>3
<1>12. ASSUME ~NothingToWrite(r)
       PROVE  SubSession(r)'
  <2>1. /\ seenSub[r] = None => mineSub'[r] = NewSub(r)
        /\ seenSub[r] # None => sub # None /\ mineSub'[r] = Updated(r)
    BY <1>8, <1>9, <1>12 DEF WriteSub, Fail, PlanInv, TypeOK
  <2>2. seenSub[r] # None => Updated(r) = NewSub(r)
    <3>1. seenSub[r] # None => seenSub[r] = sub /\ NewSub(r) \in SubRow
      BY <1>5, <1>7, <1>8, <1>12
    <3> QED BY <3>1 DEF Updated, SubRow
  <2>3. mineSub'[r] = NewSub(r) /\ NewSub(r) # None
    BY <1>7, <1>12, <2>1, <2>2, RowAssumption
  <2>4. SubAfter(r)' = NewSub(r)
    BY <2>3 DEF SubAfter
  <2>5. ~quiet
    BY <1>5, <1>12 DEF NothingToWrite
  <2> HIDE DEF quiet
  <2> QED BY <1>10, <2>4, <2>5
<1>13. SubSession(r)'
  BY <1>11, <1>12
<1>14. OrgSession(r)'
  BY <1>1, <1>2, OrgSessionStays
<1> QED BY <1>13, <1>14

\* The deletion.
LEMMA OrgGoes ==
  ASSUME PlanInv, NEW r \in Requests, DeleteOrg(r), OrgSession(r), SubSession(r)
  PROVE  OrgSession(r)' /\ SubSession(r)'
<1>1. /\ pc[r] = "run" /\ todo[r] # <<>> /\ Head(todo[r]) = "delete_org"
      /\ todo'[r] = Tail(todo[r]) /\ op'[r] = op[r] /\ plan' = plan /\ sub' = sub
      /\ seenPlan'[r] = seenPlan[r] /\ seenSub'[r] = seenSub[r] /\ mineSub'[r] = mineSub[r]
      /\ mineOrg'[r] = "gone"
  BY DEF DeleteOrg, At, Advance, PlanInv, TypeOK, TodoOK
<1>2. /\ \A x : Ahead(r, x) <=> "delete_org" = x \/ Ahead(r, x)'
      /\ ~Ahead(r, "delete_org")' /\ Ahead(r, "delete_org")
  BY <1>1, StepAhead
<1>3. \A x : Has(r, x)' <=> Has(r, x)
  BY <1>1, HasStays
<1>4. ~Has(r, "write_org") /\ ~Ahead(r, "write_org") /\ op[r].kind = "delete"
  BY <1>1, <1>2, AheadFacts
<1>5. OrgSession(r)'
  BY <1>1, <1>2, <1>3, <1>4 DEF OrgSession
<1>6. SubSession(r)'
  BY <1>1, <1>2, SubSessionStays
<1> QED BY <1>5, <1>6

---------------------------------------------------------------------------
(***************************************************************************)
(* The inductive step.                                                     *)
(***************************************************************************)
OrdInv == PlanInv /\ InOrderInv

\* A session that ends leaves nothing behind.
LEMMA CleanStep ==
  ASSUME PlanInv, CleanInv, NEW r \in Requests, RequestStep(r)
  PROVE  CleanInv'
<1>1. Others(r)
  BY OthersStay DEF PlanInv
<1>2. ASSUME NEW q \in Requests \ {r}, pc'[q] = "idle"
      PROVE  mineOrg'[q] = None /\ mineSub'[q] = None /\ seenPlan'[q] = None /\ seenSub'[q] = None
  BY <1>1, <1>2 DEF Others, CleanInv
<1>3. pc \in [Requests -> Control]
  BY DEF PlanInv, TypeOK
<1>4. ASSUME pc'[r] = "idle"
      PROVE  mineOrg'[r] = None /\ mineSub'[r] = None /\ seenPlan'[r] = None /\ seenSub'[r] = None
  <2>1. CASE Commit(r) \/ Rollback(r) \/ LoseConnection(r)
    <3>1. Close(r)
      BY <2>1 DEF Commit, Rollback, LoseConnection
    <3> QED BY <3>1 DEF Close, PlanInv, TypeOK
  <2>2. CASE Deliver(r) \/ Manage(r)
    BY <1>3, <1>4, <2>2 DEF Deliver, Manage
  <2>3. CASE Verify(r)
    <3>1. pc'[r] \in {"run", "failing"}
      BY <1>3, <2>3 DEF Verify
    <3> QED BY <1>4, <3>1
  <2>4. CASE LoadOrg(r) \/ LoadSub(r) \/ CallPaystack(r)
    BY <1>3, <1>4, <2>4 DEF LoadOrg, LoadSub, CallPaystack, At, Advance, Fail
  <2>5. CASE WriteOrg(r) \/ WriteSub(r) \/ DeleteOrg(r) \/ DetectDeadlock(r)
    BY <1>3, <1>4, <2>5 DEF WriteOrg, WriteSub, DeleteOrg, DetectDeadlock, At, Advance, Fail
  <2> QED BY <2>1, <2>2, <2>3, <2>4, <2>5 DEF RequestStep, Progress
<1> QED BY <1>2, <1>4 DEF CleanInv

\* While the requests came one at a time, the others are idle.
LEMMA Alone ==
  ASSUME PlanInv, InOrderInv, NEW r \in Requests, RequestStep(r), orderly'
  PROVE  orderly /\ \A q \in Requests \ {r} : pc[q] = "idle" /\ pc'[q] = "idle"
<1>1. CASE Deliver(r) \/ Verify(r) \/ Manage(r)
  <2>1. orderly /\ Idle
    BY <1>1 DEF Deliver, Verify, Manage
  <2> QED BY <2>1, OthersStay DEF Idle, InFlight, PlanInv, Others
<1>2. CASE ~(Deliver(r) \/ Verify(r) \/ Manage(r))
  <2>1. orderly' = orderly /\ InFlight(r)
    <3>1. CASE LoadOrg(r) \/ LoadSub(r) \/ CallPaystack(r)
      BY <3>1 DEF LoadOrg, LoadSub, CallPaystack, At, InFlight
    <3>2. CASE WriteOrg(r) \/ WriteSub(r) \/ DeleteOrg(r)
      BY <3>2 DEF WriteOrg, WriteSub, DeleteOrg, At, InFlight
    <3>3. CASE DetectDeadlock(r) \/ Commit(r) \/ Rollback(r) \/ LoseConnection(r)
      BY <3>3 DEF DetectDeadlock, Commit, Rollback, LoseConnection, InFlight
    <3> QED BY <1>2, <3>1, <3>2, <3>3 DEF RequestStep, Progress
  <2>2. \A q \in Requests \ {r} : pc[q] = "idle"
    BY <2>1 DEF InOrderInv, InFlight
  <2> QED BY <2>1, <2>2, OthersStay DEF PlanInv, Others
<1> QED BY <1>1, <1>2

\* What a running request may show for itself.
Shows(r) == AboutInv(r) /\ OrgSession(r) /\ SubSession(r)

\* A request that begins in order is about the last event or the next.
LEMMA ShowsBegin ==
  ASSUME PlanInv, InOrderInv, NEW r \in Requests, Deliver(r) \/ Verify(r) \/ Manage(r), orderly'
  PROVE  Shows(r)'
<1>1. CleanInv /\ pc[r] = "idle" /\ log' = log /\ handled' = handled
  BY DEF InOrderInv, Deliver, Verify, Manage, Begin, paystack
<1>2. CASE Deliver(r)
  <2>1. PICK i \in DOMAIN log :
          /\ Begin(r, [kind |-> log[i].kind, code |-> log[i].code, meta |-> log[i].meta, pos |-> i])
          /\ orderly' = (orderly /\ Idle /\ log[i].meta /\ i - Cardinality(handled) \in {0, 1})
    BY <1>2 DEF Deliver
  <2> DEFINE o == [kind |-> log[i].kind, code |-> log[i].code, meta |-> log[i].meta, pos |-> i]
  <2>2. log[i] \in Event /\ i \in Nat
    BY DEF PlanInv, TypeOK
  <2>3. o \in Ops
    BY <2>2 DEF Event, Ops
  <2>4. orderly /\ log[i].meta /\ i - Cardinality(handled) \in {0, 1}
    BY <2>1
  <2>5. Cardinality(handled) \in Nat
    <3>1. handled = 1 .. Cardinality(handled) /\ handled \subseteq DOMAIN log /\ log \in Seq(Event)
      BY <2>4 DEF InOrderInv, PrefixInv, PlanInv, TypeOK
    <3>2. IsFiniteSet(1 .. Len(log)) /\ DOMAIN log = 1 .. Len(log)
      BY <3>1, FS_Interval
    <3>3. IsFiniteSet(handled)
      BY <3>1, <3>2, FS_Subset
    <3> QED BY <3>3, FS_CardinalityType
  <2>6. i \in {Cardinality(handled), Cardinality(handled) + 1}
    BY <2>2, <2>4, <2>5
  <2>7. op'[r] = o
    BY <2>1 DEF Begin, PlanInv, TypeOK
  <2>8. o.kind \in Signals /\ o.meta /\ o.pos = i
    BY <2>2, <2>4 DEF Event, Signals
  <2>9. AboutInv(r)'
    BY <1>1, <2>6, <2>7, <2>8 DEF AboutInv, Signals
  <2>10. OrgSession(r)' /\ SubSession(r)'
    BY <1>1, <2>1, <2>3, SessionBegins
  <2> QED BY <2>9, <2>10 DEF Shows
<1>3. CASE Verify(r)
  <2>1. PICK c \in Codes, named \in BOOLEAN, m \in Metadata :
          /\ Begin(r, [kind |-> "verify", code |-> c, meta |-> named, pos |-> 0])
          /\ orderly' = (orderly /\ Idle /\ log # <<>> /\ handled = DOMAIN log
                           /\ log[Len(log)].kind \in {"charge", "create"}
                           /\ log[Len(log)].code = c)
    BY <1>3 DEF Verify
  <2> DEFINE o == [kind |-> "verify", code |-> c, meta |-> named, pos |-> 0]
  <2>2. o \in Ops
    BY DEF Ops
  <2>3. op'[r] = o
    BY <2>1 DEF Begin, PlanInv, TypeOK
  <2>4. o.kind = "verify" /\ o.code = c
    OBVIOUS
  <2>5. log # <<>> /\ log[Len(log)].kind \in {"charge", "create"} /\ log[Len(log)].code = c
    BY <2>1
  <2>6. AboutInv(r)'
    BY <1>1, <2>3, <2>4, <2>5 DEF AboutInv, Signals
  <2>7. OrgSession(r)' /\ SubSession(r)'
    BY <1>1, <2>1, <2>2, SessionBegins
  <2> QED BY <2>6, <2>7 DEF Shows
<1>4. CASE Manage(r)
  <2>1. PICK kind \in {"cancel", "delete"} :
          Begin(r, [kind |-> kind, code |-> None, meta |-> FALSE, pos |-> 0])
    BY <1>4 DEF Manage
  <2> DEFINE o == [kind |-> kind, code |-> None, meta |-> FALSE, pos |-> 0]
  <2>2. o \in Ops
    BY DEF Ops
  <2>3. op'[r] = o /\ todo'[r] = Script(o)
    BY <2>1 DEF Begin, PlanInv, TypeOK, TodoOK
  <2>4. o.kind = kind
    OBVIOUS
  <2>5. Ahead(r, "call")' <=> o.kind = "cancel"
    BY <2>2, <2>3, ScriptOrder DEF Ahead, Left, Orderly
  <2>6. AboutInv(r)'
    BY <2>3, <2>4, <2>5 DEF AboutInv, Signals
  <2>7. OrgSession(r)' /\ SubSession(r)'
    BY <1>1, <2>1, <2>2, SessionBegins
  <2> QED BY <2>6, <2>7 DEF Shows
<1> QED BY <1>2, <1>3, <1>4

\* A request that goes on still is, and its session reads and writes as before.
LEMMA ShowsOn ==
  ASSUME PlanInv, NEW r \in Requests, RequestStep(r), pc[r] = "run", pc'[r] = "run", Shows(r)
  PROVE  Shows(r)'
<1> USE DEF Shows
<1>1. Grows /\ pc \in [Requests -> Control]
  BY RequestMoves DEF PlanInv, TypeOK
<1>2. ASSUME op'[r] = op[r], handled' = handled, todo[r] # <<>>, todo'[r] = Tail(todo[r]),
             Head(todo[r]) # "call"
      PROVE  AboutInv(r)'
  <2>1. Ahead(r, "call") <=> Ahead(r, "call")'
    BY <1>2, StepAhead
  <2> QED BY <1>1, <1>2, <2>1, AboutGoesOn
<1>3. CASE LoadOrg(r)
  <2>1. op'[r] = op[r] /\ handled' = handled /\ todo[r] # <<>> /\ Head(todo[r]) = "load_org"
    BY <1>3 DEF LoadOrg, At
  <2>2. CASE plan # "gone"
    <3>1. todo'[r] = Tail(todo[r])
      BY <1>3, <2>2 DEF LoadOrg, Advance, PlanInv, TodoOK
    <3> QED BY <1>2, <1>3, <2>1, <2>2, <3>1, OrgLoads
  <2>3. CASE plan = "gone"
    <3>1. op[r].kind \notin {"verify", "cancel", "delete"}
      BY <1>1, <1>3, <2>3 DEF LoadOrg, Fail
    <3>2. op[r].kind \in Signals
      BY <3>1, RunningFacts DEF Ops, Signals
    <3> QED BY <1>3, <2>3, <3>2, OrgSkips
  <2> QED BY <2>2, <2>3
<1>4. CASE LoadSub(r)
  <2>1. Advance(r)
    BY <1>1, <1>4 DEF LoadSub, Fail
  <2>2. op'[r] = op[r] /\ handled' = handled /\ todo[r] # <<>> /\ Head(todo[r]) = "load_sub"
        /\ todo'[r] = Tail(todo[r])
    BY <1>4, <2>1 DEF LoadSub, At, Advance, PlanInv, TodoOK
  <2> QED BY <1>2, <1>4, <2>1, <2>2, SubLoads
<1>5. CASE CallPaystack(r)
  <2>1. Emit("disable", seenSub[r].code) /\ Advance(r)
    BY <1>1, <1>5 DEF CallPaystack, Fail
  <2>2. /\ op'[r] = op[r] /\ handled' = handled /\ plan' = plan /\ sub' = sub
        /\ seenPlan'[r] = seenPlan[r] /\ seenSub'[r] = seenSub[r]
        /\ mineOrg'[r] = mineOrg[r] /\ mineSub'[r] = mineSub[r]
        /\ todo[r] # <<>> /\ Head(todo[r]) = "call" /\ todo'[r] = Tail(todo[r])
    BY <1>5, <2>1 DEF CallPaystack, At, Advance, PlanInv, TodoOK
  <2>3. \A x : Ahead(r, x) <=> "call" = x \/ Ahead(r, x)'
    BY <2>2, StepAhead
  <2>4. handled # DOMAIN log'
    <3>1. log \in Seq(Event) /\ handled \subseteq DOMAIN log
      BY DEF PlanInv, TypeOK
    <3>2. PICK m \in Metadata :
            log' = Append(log, [kind |-> "disable", code |-> seenSub[r].code, meta |-> m])
      BY <2>1 DEF Emit
    <3>3. Len(log) + 1 \in DOMAIN log' /\ Len(log) + 1 \notin DOMAIN log
      BY <3>1, <3>2
    <3> QED BY <3>1, <3>3
  <2>5. AboutInv(r)'
    BY <1>1, <2>2, <2>4, AboutGoesOn
  <2>6. OrgSession(r)'
    BY <2>2, <2>3, OrgSessionStays
  <2>7. SubSession(r)'
    BY <2>2, <2>3, SubSessionStays
  <2> QED BY <2>5, <2>6, <2>7
<1>6. CASE WriteOrg(r)
  <2>1. Advance(r)
    BY <1>1, <1>6 DEF WriteOrg, Fail
  <2>2. op'[r] = op[r] /\ handled' = handled /\ todo[r] # <<>> /\ Head(todo[r]) = "write_org"
        /\ todo'[r] = Tail(todo[r])
    BY <1>6, <2>1 DEF WriteOrg, At, Advance, PlanInv, TodoOK
  <2> QED BY <1>2, <1>6, <2>1, <2>2, OrgWrites
<1>7. CASE WriteSub(r)
  <2>1. Advance(r)
    BY <1>1, <1>7 DEF WriteSub, Fail
  <2>2. op'[r] = op[r] /\ handled' = handled /\ todo[r] # <<>> /\ Head(todo[r]) = "write_sub"
        /\ todo'[r] = Tail(todo[r])
    BY <1>7, <2>1 DEF WriteSub, At, Advance, PlanInv, TodoOK
  <2> QED BY <1>2, <1>7, <2>1, <2>2, SubWrites
<1>8. CASE DeleteOrg(r)
  <2>1. op'[r] = op[r] /\ handled' = handled /\ todo[r] # <<>> /\ Head(todo[r]) = "delete_org"
        /\ todo'[r] = Tail(todo[r])
    BY <1>8 DEF DeleteOrg, At, Advance, PlanInv, TodoOK
  <2> QED BY <1>2, <1>8, <2>1, OrgGoes
<1>9. CASE DetectDeadlock(r) \/ Commit(r) \/ Rollback(r) \/ LoseConnection(r)
  <2>1. pc'[r] \in {"idle", "failing"}
    BY <1>1, <1>9 DEF DetectDeadlock, Commit, Rollback, LoseConnection, Close, Fail
  <2> QED BY <2>1
<1>10. CASE Deliver(r) \/ Verify(r) \/ Manage(r)
  BY <1>10 DEF Deliver, Verify, Manage
<1> QED BY <1>3, <1>4, <1>5, <1>6, <1>7, <1>8, <1>9, <1>10 DEF RequestStep, Progress

\* Which rows a handler has in its script.
LEMMA ScriptRows ==
  ASSUME NEW o \in Ops
  PROVE  /\ o.kind = "charge" /\ o.meta => Left(Script(o), "write_org")
         /\ o.kind = "create" /\ o.meta => Left(Script(o), "write_sub")
         /\ o.kind = "create" /\ o.meta /\ PlanOf[o.code] # "unknown" => Left(Script(o), "write_org")
         /\ o.kind = "disable" /\ o.meta => Left(Script(o), "write_org") /\ Left(Script(o), "write_sub")
         /\ o.kind = "payfail" => Left(Script(o), "write_sub")
         /\ o.kind = "verify" => Left(Script(o), "write_org")
<1> USE DEF Left, Script
<1>1. ASSUME o.kind = "charge", o.meta
      PROVE  Left(Script(o), "write_org")
  BY <1>1
<1>2. ASSUME o.kind = "create", o.meta
      PROVE  /\ Left(Script(o), "write_sub")
             /\ PlanOf[o.code] # "unknown" => Left(Script(o), "write_org")
  BY <1>2
<1>3. ASSUME o.kind = "disable", o.meta
      PROVE  Left(Script(o), "write_org") /\ Left(Script(o), "write_sub")
  BY <1>3
<1>4. ASSUME o.kind = "payfail"
      PROVE  Left(Script(o), "write_sub")
  BY <1>4
<1>5. ASSUME o.kind = "verify"
      PROVE  Left(Script(o), "write_org")
  BY <1>5
<1> HIDE DEF Left, Script
<1> QED BY <1>1, <1>2, <1>3, <1>4, <1>5

\* A commit that leaves no event outstanding leaves what the last one says.
LEMMA CommitSays ==
  ASSUME PlanInv, NEW r \in Requests, Commit(r), Shows(r), LastInv,
         plan' # "gone", log # <<>>, handled' = DOMAIN log,
         op[r].pos # 0 => op[r].pos = Len(log)
  PROVE  Says(log[Len(log)], plan', sub')
<1>1. /\ op[r] \in Ops /\ About(r) /\ pc[r] = "run" /\ todo[r] = <<>>
      /\ \A x : ~Ahead(r, x)
  BY RunningFacts DEF Commit, Ahead, Left
<1>2. /\ mineOrg[r] # "gone" /\ plan' = PlanAfter(r) /\ sub' = SubAfter(r)
      /\ handled' = IF op[r].pos = 0 THEN handled ELSE handled \cup {op[r].pos}
  BY DEF Commit, PlanAfter, SubAfter
<1>3. plan # "gone"
  <2>1. mineOrg[r] = None => plan' = plan
    BY <1>2 DEF PlanAfter
  <2>2. mineOrg[r] # None => plan # "gone"
    BY <1>2 DEF PlanInv, OrgInv
  <2> QED BY <2>1, <2>2
<1>4. Has(r, "write_org") => plan' = NewPlan(r) /\ seenPlan[r] = plan
  BY <1>1, <1>2, <1>3 DEF Shows, OrgSession
<1>5. Has(r, "write_sub") => IF Found(r) = None /\ op[r].kind \in {"disable", "payfail"}
                             THEN mineSub[r] = None ELSE sub' = NewSub(r)
  BY <1>1, <1>2 DEF Shows, SubSession
<1>6. Has(r, "write_sub") => seenSub[r] = Found(r)
  BY <1>1 DEF Shows, SubSession
<1>7. op[r].kind # "delete"
  BY <1>1, <1>2 DEF Shows, OrgSession
<1>8. op[r].kind # "cancel"
  <2>1. op[r].kind = "cancel" => op[r].pos = 0 /\ handled # DOMAIN log
    BY <1>1 DEF Shows, AboutInv, Ops
  <2> QED BY <1>2, <2>1
<1>9. sub \in SubRow \cup {None} /\ PlanOf \in [Codes -> {"pro", "ultimate", "unknown"}]
  BY DEF PlanInv, TypeOK
<1>10. PICK e : e = log[Len(log)]
  OBVIOUS
<1>11. CASE op[r].kind = "verify"
  <2>1. handled = DOMAIN log
    BY <1>1, <1>2, <1>11 DEF About
  <2>2. e.kind \in {"charge", "create"} /\ e.code = op[r].code /\ Says(e, plan, sub)
    BY <1>3, <1>10, <1>11, <2>1 DEF Shows, AboutInv, LastInv
  <2>3. Has(r, "write_org")
    BY <1>1, <1>11, ScriptRows DEF Has
  <2>4. plan' = IF PlanOf[e.code] = "unknown" THEN plan ELSE PlanOf[e.code]
    BY <1>4, <1>11, <2>2, <2>3 DEF NewPlan
  <2>5. sub' = sub \/ sub' = [code |-> e.code, status |-> "active"]
    <3>1. CASE Has(r, "write_sub")
      <4>1. NewSub(r) = [code |-> e.code, status |-> "active"]
        BY <1>11, <2>2 DEF NewSub
      <4> QED BY <1>5, <1>11, <3>1, <4>1
    <3>2. CASE ~Has(r, "write_sub")
      BY <1>2, <3>2 DEF Shows, SubSession, SubAfter
    <3> QED BY <3>1, <3>2
  <2>6. e.kind = "create" => sub' = [code |-> e.code, status |-> "active"]
    BY <2>2, <2>5 DEF Says
  <2>7. plan' = PlanOf[e.code] \/ (PlanOf[e.code] = "unknown" /\ plan' = plan)
    BY <2>4
  <2> QED BY <1>10, <2>2, <2>6, <2>7 DEF Says
<1>12. CASE op[r].kind \in Signals
  <2>1. op[r].pos = Len(log) /\ op[r].meta
        /\ e = [kind |-> op[r].kind, code |-> op[r].code, meta |-> op[r].meta]
    <3>1. op[r].pos \in DOMAIN log /\ log \in Seq(Event)
      BY <1>1, <1>12 DEF About, PlanInv, TypeOK
    <3>2. op[r].pos # 0
      BY <3>1
    <3>3. op[r].pos = Len(log)
      BY <3>2
    <3> QED BY <1>1, <1>10, <1>12, <3>3 DEF About, Shows, AboutInv
  <2>2. e.kind = op[r].kind /\ e.code = op[r].code
    BY <2>1
  <2>3. CASE op[r].kind = "charge"
    <3>1. plan' = NewPlan(r)
      BY <1>1, <1>4, <2>1, <2>3, ScriptRows DEF Has
    <3>2. NamedPlan[e.code] # "unknown" => plan' = NamedPlan[e.code]
      BY <2>2, <2>3, <3>1 DEF NewPlan
    <3> QED BY <1>10, <2>2, <2>3, <3>2 DEF Says
  <2>4. CASE op[r].kind = "create"
    <3>1. Has(r, "write_sub") /\ (PlanOf[e.code] # "unknown" => Has(r, "write_org"))
      BY <1>1, <2>1, <2>2, <2>4, ScriptRows DEF Has
    <3>2. sub' = [code |-> e.code, status |-> "active"]
      BY <1>5, <2>2, <2>4, <3>1 DEF NewSub
    <3>3. PlanOf[e.code] # "unknown" => plan' = PlanOf[e.code]
      BY <1>4, <2>2, <2>4, <3>1 DEF NewPlan
    <3> QED BY <1>10, <2>2, <2>4, <3>2, <3>3 DEF Says
  <2>5. ASSUME op[r].kind \in {"disable", "payfail"}, sub' # None, sub'.code = e.code
        PROVE  sub'.status = IF op[r].kind = "disable" THEN "canceled" ELSE "past_due"
    <3>1. Has(r, "write_sub")
      BY <1>1, <2>1, <2>5, ScriptRows DEF Has
    <3>2. CASE Found(r) = None
      <4>1. sub' = sub
        BY <1>2, <1>5, <2>5, <3>1, <3>2 DEF SubAfter
      <4>2. Found(r) = sub
        BY <2>2, <2>5, <4>1 DEF Found
      <4> QED BY <2>5, <3>2, <4>1, <4>2
    <3>3. CASE Found(r) # None
      <4>1. seenSub[r] \in SubRow
        BY <1>6, <1>9, <3>1, <3>3 DEF Found
      <4>2. sub' = NewSub(r)
        BY <1>5, <3>1, <3>3
      <4>3. op[r].kind = "disable" => sub' = [seenSub[r] EXCEPT !.status = "canceled"]
        BY <4>2 DEF NewSub
      <4>4. op[r].kind = "payfail" => sub' = [seenSub[r] EXCEPT !.status = "past_due"]
        BY <4>2 DEF NewSub
      <4> QED BY <2>5, <4>1, <4>3, <4>4 DEF SubRow
    <3> QED BY <3>2, <3>3
  <2>6. CASE op[r].kind = "disable"
    <3>1. plan' = "free"
      BY <1>1, <1>4, <2>1, <2>6, ScriptRows DEF Has, NewPlan
    <3> QED BY <1>10, <2>2, <2>5, <2>6, <3>1 DEF Says
  <2>7. CASE op[r].kind = "payfail"
    BY <1>10, <2>2, <2>5, <2>7 DEF Says
  <2> QED BY <1>12, <2>3, <2>4, <2>6, <2>7 DEF Signals
<1> QED BY <1>1, <1>7, <1>8, <1>11, <1>12 DEF Ops, Signals

LEMMA OrdCommit ==
  ASSUME PlanInv, PrefixInv, LastInv, NEW r \in Requests, Commit(r), Shows(r)
  PROVE  PrefixInv' /\ LastInv'
<1>1. /\ op[r] \in Ops /\ About(r) /\ log' = log
      /\ handled' = IF op[r].pos = 0 THEN handled ELSE handled \cup {op[r].pos}
  BY RunningFacts DEF Commit, paystack
<1>2. PICK n \in Nat : n = Len(log) /\ DOMAIN log = 1 .. n
  BY DEF PlanInv, TypeOK
<1>3. PICK k \in Nat : k = Cardinality(handled) /\ handled = 1 .. k
  <2>1. handled \subseteq 1 .. n
    BY <1>2 DEF PlanInv, TypeOK
  <2>2. IsFiniteSet(1 .. n)
    BY <1>2, FS_Interval
  <2>3. IsFiniteSet(handled)
    BY <2>1, <2>2, FS_Subset
  <2> QED BY <2>3, FS_CardinalityType DEF PrefixInv
<1>4. op[r].pos # 0 => op[r].pos \in 1 .. n /\ op[r].pos \in {k, k + 1}
  <2>1. op[r].pos # 0 => op[r].kind \in Signals
    BY <1>1 DEF About, Ops, Signals
  <2> QED BY <1>1, <1>2, <1>3, <2>1 DEF About, Shows, AboutInv
<1>5. handled' = 1 .. k \/ handled' = 1 .. (k + 1)
  <2>1. CASE op[r].pos = 0
    BY <1>1, <1>3, <2>1
  <2>2. CASE op[r].pos # 0 /\ op[r].pos = k
    BY <1>1, <1>3, <1>4, <2>2
  <2>3. CASE op[r].pos # 0 /\ op[r].pos = k + 1
    <3>1. handled' = handled \cup {k + 1}
      BY <1>1, <2>3
    <3>2. (1 .. k) \cup {k + 1} = 1 .. (k + 1)
      BY <1>3
    <3> QED BY <1>3, <3>1, <3>2
  <2> QED BY <1>4, <2>1, <2>2, <2>3
<1>6. PrefixInv'
  <2>1. \A m \in Nat : Cardinality(1 .. m) = m
    BY FS_Interval
  <2> QED BY <1>5, <2>1 DEF PrefixInv
<1>7. ASSUME plan' # "gone", log' # <<>>, handled' = DOMAIN log'
      PROVE  Says(log'[Len(log')], plan', sub')
  <2>1. op[r].pos # 0 => op[r].pos = n
    <3>1. handled' = 1 .. n
      BY <1>1, <1>2, <1>7
    <3>2. CASE op[r].pos # 0
      <4>1. op[r].pos \in 1 .. n /\ handled' = 1 .. k \cup {op[r].pos}
        BY <1>1, <1>3, <1>4, <3>2
      <4>2. n \in 1 .. k \cup {op[r].pos}
        BY <3>1, <4>1
      <4> QED BY <1>4, <3>2, <4>1, <4>2
    <3> QED BY <3>2
  <2> QED BY <1>1, <1>2, <1>7, <2>1, CommitSays
<1>8. LastInv'
  BY <1>7 DEF LastInv, Says
<1> QED BY <1>6, <1>8

LEMMA OrdInvInit == Init => OrdInv
<1> SUFFICES ASSUME Init
             PROVE  OrdInv
  OBVIOUS
<1>1. PlanInv
  BY PlanInvInit
<1>2. CleanInv
  BY DEF Init, CleanInv
<1>3. \A r \in Requests : ~InFlight(r) /\ pc[r] # "run"
  BY DEF Init, InFlight
<1>4. PrefixInv
  <2>1. Cardinality({}) = 0 /\ 1 .. 0 = {}
    BY FS_EmptySet
  <2> QED BY <2>1 DEF Init, PrefixInv
<1>5. LastInv
  BY DEF Init, LastInv
<1> QED BY <1>1, <1>2, <1>3, <1>4, <1>5 DEF OrdInv, InOrderInv

\* A step of Paystack, or none, shows on no request.
LEMMA OrdQuiet ==
  ASSUME PlanInv, InOrderInv, Grows,
         UNCHANGED <<plan, sub, op, pc, session, handled, orderly>>
  PROVE  InOrderInv'
<1>1. /\ plan' = plan /\ sub' = sub /\ op' = op /\ pc' = pc /\ todo' = todo
      /\ seenPlan' = seenPlan /\ seenSub' = seenSub /\ mineOrg' = mineOrg
      /\ mineSub' = mineSub /\ handled' = handled /\ orderly' = orderly
  BY DEF session
<1>2. CleanInv'
  BY <1>1 DEF InOrderInv, CleanInv
<1>3. ASSUME orderly'
      PROVE  /\ \A r, q \in Requests : InFlight(r)' /\ InFlight(q)' => r = q
             /\ PrefixInv' /\ LastInv'
             /\ \A r \in Requests : pc'[r] = "run" => Shows(r)'
  <2>1. /\ \A r, q \in Requests : InFlight(r) /\ InFlight(q) => r = q
        /\ PrefixInv /\ LastInv
        /\ \A r \in Requests : pc[r] = "run" => Shows(r)
    BY <1>1, <1>3 DEF InOrderInv, Shows
  <2>2. PrefixInv' /\ LastInv'
    BY <1>1, <2>1, LastStays
  <2>3. ASSUME NEW r \in Requests, pc'[r] = "run"
        PROVE  Shows(r)'
    <3>1. AboutInv(r) /\ OrgSession(r) /\ SubSession(r)
      BY <1>1, <2>1, <2>3 DEF Shows
    <3>2. \A x : Ahead(r, x)' <=> Ahead(r, x)
      BY <1>1, AheadStays
    <3>3. AboutInv(r)'
      BY <1>1, <3>1, <3>2, AboutGoesOn
    <3>4. OrgSession(r)'
      BY <1>1, <3>1, <3>2, OrgSessionStays
    <3>5. SubSession(r)'
      BY <1>1, <3>1, <3>2, SubSessionStays
    <3> QED BY <3>3, <3>4, <3>5 DEF Shows
  <2>4. \A r, q \in Requests : InFlight(r)' /\ InFlight(q)' => r = q
    BY <1>1, <2>1 DEF InFlight
  <2> QED BY <2>2, <2>3, <2>4
<1> QED BY <1>2, <1>3 DEF InOrderInv, Shows

LEMMA OrdRequest ==
  ASSUME PlanInv, InOrderInv, NEW r \in Requests, RequestStep(r)
  PROVE  InOrderInv'
<1>1. CleanInv'
  BY CleanStep DEF InOrderInv
<1>2. ASSUME orderly'
      PROVE  /\ \A p, q \in Requests : InFlight(p)' /\ InFlight(q)' => p = q
             /\ PrefixInv' /\ LastInv'
             /\ \A q \in Requests : pc'[q] = "run" => Shows(q)'
  <2>1. orderly /\ \A q \in Requests \ {r} : pc[q] = "idle" /\ pc'[q] = "idle"
    BY <1>2, Alone
  <2>2. PrefixInv /\ LastInv /\ (pc[r] = "run" => Shows(r)) /\ Grows
    BY <2>1, RequestMoves DEF InOrderInv, Shows
  <2>3. \A p, q \in Requests : InFlight(p)' /\ InFlight(q)' => p = q
    BY <2>1 DEF InFlight
  <2>4. CASE Commit(r)
    <3>1. pc[r] = "run" /\ pc'[r] # "run"
      BY <2>4 DEF Commit, Close, PlanInv, TypeOK
    <3>2. PrefixInv' /\ LastInv'
      BY <2>2, <2>4, <3>1, OrdCommit
    <3> QED BY <2>1, <2>3, <3>1, <3>2
  <2>5. CASE ~Commit(r)
    <3>1. handled' = handled /\ plan' = plan /\ sub' = sub
      <4>1. CASE Deliver(r) \/ Verify(r) \/ Manage(r)
        BY <4>1 DEF Deliver, Verify, Manage, Begin
      <4>2. CASE LoadOrg(r) \/ LoadSub(r) \/ CallPaystack(r)
        BY <4>2 DEF LoadOrg, LoadSub, CallPaystack
      <4>3. CASE WriteOrg(r) \/ WriteSub(r) \/ DeleteOrg(r)
        BY <4>3 DEF WriteOrg, WriteSub, DeleteOrg
      <4>4. CASE DetectDeadlock(r) \/ Rollback(r) \/ LoseConnection(r)
        BY <4>4 DEF DetectDeadlock, Rollback, LoseConnection
      <4> QED BY <2>5, <4>1, <4>2, <4>3, <4>4 DEF RequestStep, Progress
    <3>2. PrefixInv' /\ LastInv'
      BY <2>2, <3>1, LastStays
    <3>3. ASSUME pc'[r] = "run"
          PROVE  Shows(r)'
      <4>1. CASE Deliver(r) \/ Verify(r) \/ Manage(r)
        BY <1>2, <4>1, ShowsBegin
      <4>2. CASE ~(Deliver(r) \/ Verify(r) \/ Manage(r))
        <5>1. pc[r] = "run"
          <6>1. CASE LoadOrg(r) \/ LoadSub(r) \/ CallPaystack(r)
            BY <6>1 DEF LoadOrg, LoadSub, CallPaystack, At
          <6>2. CASE WriteOrg(r) \/ WriteSub(r) \/ DeleteOrg(r)
            BY <6>2 DEF WriteOrg, WriteSub, DeleteOrg, At
          <6>3. CASE DetectDeadlock(r) \/ LoseConnection(r)
            BY <6>3 DEF DetectDeadlock, LoseConnection
          <6>4. CASE Rollback(r)
            BY <3>3, <6>4 DEF Rollback, Close, PlanInv, TypeOK
          <6> QED BY <2>5, <4>2, <6>1, <6>2, <6>3, <6>4 DEF RequestStep, Progress
        <5> QED BY <2>2, <3>3, <5>1, ShowsOn
      <4> QED BY <4>1, <4>2
    <3>4. \A q \in Requests : pc'[q] = "run" => q = r
      BY <2>1
    <3> QED BY <2>3, <3>2, <3>3, <3>4
  <2> QED BY <2>4, <2>5
<1> QED BY <1>1, <1>2 DEF InOrderInv, Shows

LEMMA OrdInvStep ==
  ASSUME OrdInv, [Next]_vars
  PROVE  OrdInv'
<1> USE DEF OrdInv
<1>1. PlanInv'
  BY PlanInvStep
<1>2. ASSUME NEW c \in Codes, PaystackStep(c)
      PROVE  InOrderInv'
  <2>1. UNCHANGED <<plan, sub, op, pc, session, handled, orderly>>
    BY <1>2 DEF PaystackStep, Initialize, Pay, Subscribe, FailPayment, Disable
  <2> QED BY <1>2, <2>1, PaystackMoves, OrdQuiet
<1>3. ASSUME NEW r \in Requests, RequestStep(r)
      PROVE  InOrderInv'
  BY <1>3, OrdRequest
<1>4. ASSUME UNCHANGED vars
      PROVE  InOrderInv'
  <2>1. UNCHANGED paystack /\ UNCHANGED <<plan, sub, op, pc, session, handled, orderly>>
    BY <1>4 DEF vars, paystack, session
  <2> QED BY <2>1, NoPaystack, OrdQuiet
<1> QED BY <1>1, <1>2, <1>3, <1>4, NextSteps

\* Webhooks handled one at a time and in order, with failures retried, the last
\* event repeated at will and the redirect's verification in between, leave
\* plan and record as the last event says, for any number of checkouts and
\* handlers and for a log of any length.
THEOREM InOrderEventsAgree == Spec => []InOrderAgrees
<1>1. OrdInv => InOrderAgrees
  BY DEF OrdInv, InOrderInv, LastInv, Says, InOrderAgrees
<1> QED BY <1>1, OrdInvInit, OrdInvStep, PTL DEF Spec

---------------------------------------------------------------------------
(***************************************************************************)
(* Waiting for rows.  A request waits for the one that wrote the row it is *)
(* about to write; there are two rows, so that two requests at most hold   *)
(* one, and whoever both of them wait for is the other.                    *)
(***************************************************************************)
HoldsOrg(r) == mineOrg[r] # None
HoldsSub(r) == mineSub[r] # None \/ mineOrg[r] = "gone"

\* The row of the subscription, too, is written by one open transaction.
SubLock == \A r, q \in Requests : HoldsSub(r) /\ HoldsSub(q) => r = q

WaitInv == PlanInv /\ CleanInv /\ SubLock

\* r waits for nobody, or for one who waits for r, which the database detects.
GoesOn(r) == Blockers(r) = {} \/ \E q \in Blockers(r) : r \in Blockers(q)

\* While any request is in flight, one of them can go on.
NoDeadWait ==
  (\E r \in Requests : InFlight(r)) => \E r \in Requests : InFlight(r) /\ GoesOn(r)

LEMMA SubLockStep ==
  ASSUME WaitInv, NEW r \in Requests, RequestStep(r)
  PROVE  SubLock'
<1> USE DEF WaitInv
<1>1. \A q \in Requests \ {r} : HoldsSub(q)' <=> HoldsSub(q)
  BY OthersStay DEF PlanInv, Others, HoldsSub
<1>2. HoldsSub(r)' => HoldsSub(r) \/ \A q \in Requests \ {r} : ~HoldsSub(q)
  <2>1. mineOrg \in [Requests -> Tiers \cup {"gone", None}]
        /\ mineSub \in [Requests -> SubRow \cup {None}]
    BY DEF PlanInv, TypeOK
  <2>2. CASE WriteSub(r)
    <3>1. mineSub' = mineSub \/ SubBlockers(r) = {}
      BY <2>2 DEF WriteSub
    <3> QED BY <2>2, <3>1 DEF WriteSub, SubBlockers, HoldsSub
  <2>3. CASE DeleteOrg(r)
    <3>1. At(r, "delete_org") /\ Blockers(r) = {}
      BY <2>3 DEF DeleteOrg
    <3>2. SubBlockers(r) = {}
      BY <3>1 DEF Blockers, At
    <3> QED BY <3>2 DEF SubBlockers, HoldsSub
  <2>4. CASE WriteOrg(r)
    <3>1. NewPlan(r) # seenPlan[r] => NewPlan(r) \in Tiers
      BY <2>4, WriteFacts DEF WriteOrg
    <3>2. mineOrg'[r] = mineOrg[r] \/ mineOrg'[r] # "gone"
      BY <2>1, <2>4, <3>1 DEF WriteOrg, Tiers
    <3> QED BY <2>4, <3>2 DEF WriteOrg, HoldsSub
  <2>5. CASE Commit(r) \/ Rollback(r) \/ LoseConnection(r)
    <3>1. mineOrg'[r] = None /\ mineSub'[r] = None
      BY <2>1, <2>5 DEF Commit, Rollback, LoseConnection, Close
    <3> QED BY <3>1 DEF HoldsSub
  <2>6. CASE Deliver(r) \/ Verify(r) \/ Manage(r)
    BY <2>6 DEF Deliver, Verify, Manage, Begin, HoldsSub
  <2>7. CASE LoadOrg(r) \/ LoadSub(r) \/ CallPaystack(r) \/ DetectDeadlock(r)
    BY <2>7 DEF LoadOrg, LoadSub, CallPaystack, DetectDeadlock, HoldsSub
  <2> QED BY <2>2, <2>3, <2>4, <2>5, <2>6, <2>7 DEF RequestStep, Progress
<1>3. ASSUME NEW p \in Requests, NEW q \in Requests, HoldsSub(p)', HoldsSub(q)'
      PROVE  p = q
  <2>1. p # r /\ q # r => p = q
    BY <1>1, <1>3 DEF SubLock
  <2>2. p = r /\ q # r => FALSE
    BY <1>1, <1>2, <1>3 DEF SubLock
  <2>3. p # r /\ q = r => FALSE
    BY <1>1, <1>2, <1>3 DEF SubLock
  <2> QED BY <2>1, <2>2, <2>3
<1> QED BY <1>3 DEF SubLock

LEMMA WaitInvStep ==
  ASSUME WaitInv, [Next]_vars
  PROVE  WaitInv'
<1> USE DEF WaitInv
<1>1. PlanInv'
  BY PlanInvStep
<1>2. ASSUME NEW r \in Requests, RequestStep(r)
      PROVE  CleanInv' /\ SubLock'
  BY <1>2, CleanStep, SubLockStep
<1>3. ASSUME pc' = pc, seenPlan' = seenPlan, seenSub' = seenSub,
             mineOrg' = mineOrg, mineSub' = mineSub
      PROVE  CleanInv' /\ SubLock'
  BY <1>3 DEF CleanInv, SubLock, HoldsSub
<1>4. ASSUME NEW c \in Codes, PaystackStep(c)
      PROVE  CleanInv' /\ SubLock'
  <2>1. UNCHANGED <<plan, sub, op, pc, session, handled, orderly>>
    BY <1>4 DEF PaystackStep, Initialize, Pay, Subscribe, FailPayment, Disable
  <2> QED BY <1>3, <2>1 DEF session
<1>5. CASE UNCHANGED vars
  BY <1>1, <1>3, <1>5 DEF vars
<1> QED BY <1>1, <1>2, <1>4, <1>5, NextSteps

LEMMA WaitInvInit == Init => WaitInv
<1> SUFFICES ASSUME Init
             PROVE  WaitInv
  OBVIOUS
<1>1. None # "gone"
  OBVIOUS
<1>2. CleanInv /\ SubLock
  BY <1>1 DEF Init, CleanInv, SubLock, HoldsSub
<1> QED BY <1>2, PlanInvInit DEF WaitInv

\* Those others wait for hold a row and are open.
LEMMA BlockersHold ==
  ASSUME WaitInv, NEW r \in Requests, NEW q \in Blockers(r)
  PROVE  q \in Requests /\ q # r /\ InFlight(q) /\ (HoldsOrg(q) \/ HoldsSub(q))
<1>1. q \in OrgBlockers(r) \cup SubBlockers(r)
  BY DEF Blockers
<1>2. q \in Requests /\ q # r /\ (HoldsOrg(q) \/ HoldsSub(q))
  BY <1>1 DEF OrgBlockers, SubBlockers, HoldsOrg, HoldsSub
<1>3. InFlight(q)
  <2>1. None # "gone"
    OBVIOUS
  <2> QED BY <1>2, <2>1 DEF WaitInv, CleanInv, InFlight, HoldsOrg, HoldsSub
<1> QED BY <1>2, <1>3

\* Whichever webhooks, verifications, cancellations and deletions are open, and
\* whatever they have written, they never all wait for ever: one waits for
\* nobody, or two wait for each other, and the database ends one of these.
THEOREM SomebodyGoesOn == Spec => []NoDeadWait
<1>1. WaitInv => NoDeadWait
  <2> SUFFICES ASSUME WaitInv, NEW r \in Requests, InFlight(r)
               PROVE  \E q \in Requests : InFlight(q) /\ GoesOn(q)
    BY DEF NoDeadWait
  <2>1. CASE Blockers(r) = {}
    BY <2>1 DEF GoesOn
  <2>2. ASSUME NEW a \in Blockers(r)
        PROVE  \E q \in Requests : InFlight(q) /\ GoesOn(q)
    <3>1. a \in Requests /\ InFlight(a) /\ (HoldsOrg(a) \/ HoldsSub(a))
      BY <2>2, BlockersHold
    <3>2. CASE Blockers(a) = {}
      BY <3>1, <3>2 DEF GoesOn
    <3>3. ASSUME NEW b \in Blockers(a)
          PROVE  \E q \in Requests : InFlight(q) /\ GoesOn(q)
      <4>1. b \in Requests /\ b # a /\ InFlight(b) /\ (HoldsOrg(b) \/ HoldsSub(b))
        BY <3>1, <3>3, BlockersHold
      <4>2. CASE Blockers(b) = {}
        BY <4>1, <4>2 DEF GoesOn
      <4>3. ASSUME NEW d \in Blockers(b)
            PROVE  \E q \in Requests : InFlight(q) /\ GoesOn(q)
        <5>1. d \in Requests /\ d # b /\ (HoldsOrg(d) \/ HoldsSub(d))
          BY <4>1, <4>3, BlockersHold
        <5>2. \A p, q \in Requests : HoldsOrg(p) /\ HoldsOrg(q) => p = q
          BY DEF WaitInv, PlanInv, OrgLock, HoldsOrg
        <5>3. \A p, q \in Requests : HoldsSub(p) /\ HoldsSub(q) => p = q
          BY DEF WaitInv, SubLock
        <5>4. d = a
          BY <3>1, <4>1, <5>1, <5>2, <5>3
        <5> QED BY <3>1, <3>3, <4>3, <5>4 DEF GoesOn
      <4> QED BY <4>2, <4>3
    <3> QED BY <3>2, <3>3
  <2> QED BY <2>1, <2>2
<1> QED BY <1>1, WaitInvInit, WaitInvStep, PTL DEF Spec
============================================================================
