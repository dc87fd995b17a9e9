---------------------------- MODULE ShootProofs ----------------------------
(***************************************************************************)
(* Proofs about module Shoot, for any finite set of requests and any       *)
(* limit: typing first, then the inductive invariant about locks, pending  *)
(* writes and the ledger; last that waits are served and requests end.     *)
(***************************************************************************)
EXTENDS Shoot, FiniteSetTheorems, WellFoundedInduction, TLAPS

\* A set of naturals that is not empty has a least element.
LEMMA LeastOf ==
  ASSUME NEW T, T \subseteq Nat, T # {}
  PROVE  \E x \in T : \A y \in T : x <= y
<1> DEFINE R == {ss \in Nat \X Nat : ss[1] < ss[2]}
<1>1. IsWellFoundedOn(R, Nat)
  BY NatLessThanWellFounded DEF OpToRel
<1>2. \A a, b \in Nat : a < b => <<a, b>> \in R
  OBVIOUS
<1> HIDE DEF R
<1>3. PICK x \in T : \A y \in T : ~ (<<y, x>> \in R)
  BY <1>1, WFMin
<1>4. ASSUME NEW y \in T
      PROVE  x <= y
  <2>1. x \in Nat /\ y \in Nat
    OBVIOUS
  <2>2. ~ (<<y, x>> \in R)
    BY <1>3, <1>4
  <2>3. ~ (y < x)
    BY <1>2, <2>1, <2>2
  <2> QED BY <2>1, <2>3
<1> QED BY <1>4

USE ShootAssumption

(***************************************************************************)
(* Typing.  Decrement writes seen - 1, so typing needs to know that a      *)
(* request only gets there with a positive counter.                        *)
(***************************************************************************)
SeenPositive == \A r \in Requests : pc[r] = "decrementing" => seen[r] > 0

TypeInv == TypeOK /\ SeenPositive

\* What a request forgets when its transaction ends keeps its type.
LEMMA ForgetTyped ==
  ASSUME TypeOK, NEW r \in Requests, Forget(r)
  PROVE  /\ target' \in [Requests -> Resumes \cup {None}]
         /\ relPeriod' \in [Requests -> Months]
         /\ seen' \in [Requests -> Nat]
         /\ written' \in [Requests -> [Months -> Nat]]
         /\ \A q \in Requests \ {r} : seen'[q] = seen[q]
<1>1. 1 \in Months /\ [m \in Months |-> 0] \in [Months -> Nat]
  BY DEF Months
<1> QED BY <1>1 DEF Forget, TypeOK

LEMMA UnchargedTyped ==
  ASSUME TypeOK, NEW r \in Requests, Uncharged(r)
  PROVE  /\ tier' \in [Requests -> Tiers]
         /\ period' \in [Requests -> Months]
         /\ \A q \in Requests \ {r} : period'[q] = period[q] /\ tier'[q] = tier[q]
  BY DEF Uncharged, TypeOK, Tiers, Months

\* Every step keeps the typing; split by what moves.
LEMMA TypeInvStep ==
  ASSUME TypeInv, [Next]_vars
  PROVE  TypeInv'
<1> USE DEF TypeInv, TypeOK, SeenPositive, Control, InFlight,
            Charged, Releasing, Ended, Goto
<1>1. ASSUME NEW r \in Requests, Authenticate(r) PROVE TypeInv'
  BY <1>1 DEF Authenticate, dbVars
<1>2. ASSUME NEW r \in Requests, GetMaster(r) PROVE TypeInv'
  <2>1. MasterOf(UserOf[r]) \in Resumes \cup {None}
    BY DEF MasterOf
  <2>2. CASE MasterOf(UserOf[r]) = None
    BY <1>2, <2>2 DEF GetMaster, dbVars
  <2>3. CASE MasterOf(UserOf[r]) # None
    <3> DEFINE x == MasterOf(UserOf[r])
    <3>1. /\ target' = [target EXCEPT ![r] = x]
          /\ period' = [period EXCEPT ![r] = clock]
          /\ pc' = [pc EXCEPT ![r] = "charging"]
          /\ UNCHANGED <<dbVars, tier, relPeriod, seen, written, answer>>
      BY <1>2, <2>3 DEF GetMaster
    <3> HIDE DEF x
    <3>2. x \in Resumes \cup {None}
      BY <2>1 DEF x
    <3> QED BY <3>1, <3>2 DEF dbVars
  <2> QED BY <2>2, <2>3
<1>3. ASSUME NEW r \in Requests, Upsert(r) PROVE TypeInv'
  BY <1>3 DEF Upsert, Write, OverLimit
<1>4. ASSUME NEW r \in Requests, LoadResume(r) PROVE TypeInv'
  BY <1>4 DEF LoadResume, dbVars
<1>5. ASSUME NEW r \in Requests, AiReplies(r) PROVE TypeInv'
  <2>1. /\ pc' \in [Requests -> Control]
        /\ \A q \in Requests : pc'[q] = "decrementing" => pc[q] = "decrementing"
    BY <1>5 DEF AiReplies, CallFails
  <2>2. relPeriod' \in [Requests -> Months]
    BY <1>5 DEF AiReplies, CallFails
  <2>3. UNCHANGED <<dbVars, tier, target, period, seen, written, answer>>
    BY <1>5 DEF AiReplies, CallFails
  <2> QED BY <2>1, <2>2, <2>3 DEF dbVars
<1>6. ASSUME NEW r \in Requests, ReadUsage(r) PROVE TypeInv'
  <2>1. Visible(r, relPeriod[r]) \in Nat
    BY DEF Visible
  <2> QED BY <1>6, <2>1 DEF ReadUsage, dbVars
<1>7. ASSUME NEW r \in Requests, Decrement(r) PROVE TypeInv'
  BY <1>7 DEF Decrement, Write
<1>8. ASSUME NEW r \in Requests, InsertTailored(r) PROVE TypeInv'
  BY <1>8 DEF InsertTailored
<1>9. ASSUME NEW r \in Requests, Answer(r) PROVE TypeInv'
  BY <1>9 DEF Answer, dbVars
<1>10. ASSUME NEW r \in Requests, Commit(r) PROVE TypeInv'
  <2>1. Forget(r) /\ pc' = [pc EXCEPT ![r] = "done"]
    BY <1>10 DEF Commit
  <2>2. /\ target' \in [Requests -> Resumes \cup {None}]
        /\ relPeriod' \in [Requests -> Months]
        /\ seen' \in [Requests -> Nat]
        /\ written' \in [Requests -> [Months -> Nat]]
    BY <2>1, ForgetTyped
  <2>3. tier' \in [Requests -> Tiers] /\ period' \in [Requests -> Months]
    BY <1>10 DEF Commit
  <2>4. \A q \in Requests : pc'[q] = "decrementing" => seen'[q] > 0
    BY <2>1, ForgetTyped
  <2>5. /\ clock' \in Months
        /\ plan' \in [Users -> Tiers]
        /\ resume' \in [Resumes -> {"absent", "draft", "master", "deleted"}]
        /\ usage' \in [Users -> [Months -> Nat]]
        /\ lock' \in [Users -> [Months -> Requests \cup {None}]]
        /\ stored' \in SUBSET Requests
        /\ source' \in [Requests -> Resumes \cup {None}]
        /\ answer' \in [Requests -> {"none", "ok", "error"}]
    BY <1>10 DEF Commit, Unlocked
  <2>6. pc' \in [Requests -> Control]
    BY <2>1
  <2> QED BY <2>2, <2>3, <2>4, <2>5, <2>6 DEF Months
<1>11. ASSUME NEW r \in Requests, Rollback(r) PROVE TypeInv'
  <2>1. Forget(r) /\ Uncharged(r) /\ pc' = [pc EXCEPT ![r] = "failed"]
    BY <1>11 DEF Rollback
  <2>2. /\ target' \in [Requests -> Resumes \cup {None}]
        /\ relPeriod' \in [Requests -> Months]
        /\ seen' \in [Requests -> Nat]
        /\ written' \in [Requests -> [Months -> Nat]]
    BY <2>1, ForgetTyped
  <2>3. tier' \in [Requests -> Tiers] /\ period' \in [Requests -> Months]
    BY <2>1, UnchargedTyped
  <2>4. \A q \in Requests : pc'[q] = "decrementing" => seen'[q] > 0
    BY <2>1, ForgetTyped
  <2>5. /\ clock' \in Months
        /\ plan' \in [Users -> Tiers]
        /\ resume' \in [Resumes -> {"absent", "draft", "master", "deleted"}]
        /\ usage' \in [Users -> [Months -> Nat]]
        /\ lock' \in [Users -> [Months -> Requests \cup {None}]]
        /\ stored' \in SUBSET Requests
        /\ source' \in [Requests -> Resumes \cup {None}]
        /\ answer' \in [Requests -> {"none", "ok", "error"}]
    BY <1>11 DEF Rollback, Unlocked, Months
  <2>6. pc' \in [Requests -> Control]
    BY <2>1
  <2> QED BY <2>2, <2>3, <2>4, <2>5, <2>6 DEF Months
<1>12. ASSUME NEW r \in Requests, LoseConnection(r) PROVE TypeInv'
  <2>1. Forget(r) /\ Uncharged(r) /\ pc' = [pc EXCEPT ![r] = "lost"]
    BY <1>12 DEF LoseConnection
  <2>2. /\ target' \in [Requests -> Resumes \cup {None}]
        /\ relPeriod' \in [Requests -> Months]
        /\ seen' \in [Requests -> Nat]
        /\ written' \in [Requests -> [Months -> Nat]]
    BY <2>1, ForgetTyped
  <2>3. tier' \in [Requests -> Tiers] /\ period' \in [Requests -> Months]
    BY <2>1, UnchargedTyped
  <2>4. \A q \in Requests : pc'[q] = "decrementing" => seen'[q] > 0
    BY <2>1, ForgetTyped
  <2>5. /\ clock' \in Months
        /\ plan' \in [Users -> Tiers]
        /\ resume' \in [Resumes -> {"absent", "draft", "master", "deleted"}]
        /\ usage' \in [Users -> [Months -> Nat]]
        /\ lock' \in [Users -> [Months -> Requests \cup {None}]]
        /\ stored' \in SUBSET Requests
        /\ source' \in [Requests -> Resumes \cup {None}]
        /\ answer' \in [Requests -> {"none", "ok", "error"}]
    BY <1>12 DEF LoseConnection, Unlocked, Months
  <2>6. pc' \in [Requests -> Control]
    BY <2>1
  <2> QED BY <2>2, <2>3, <2>4, <2>5, <2>6 DEF Months
<1>13. CASE NewMonth
  BY <1>13, SMTT(20) DEF NewMonth, Months, reqVars
<1>14. ASSUME NEW u \in Users, ChangePlan(u) PROVE TypeInv'
  BY <1>14 DEF ChangePlan, reqVars
<1>15. ASSUME NEW x \in Resumes, MakeMaster(x) PROVE TypeInv'
  BY <1>15 DEF MakeMaster, reqVars
<1>16. ASSUME NEW x \in Resumes, DeleteResume(x) PROVE TypeInv'
  BY <1>16 DEF DeleteResume, reqVars
<1>17. CASE UNCHANGED vars
  BY <1>17 DEF vars
<1> QED
  BY <1>1, <1>2, <1>3, <1>4, <1>5, <1>6, <1>7, <1>8, <1>9, <1>10, <1>11,
     <1>12, <1>13, <1>14, <1>15, <1>16, <1>17 DEF Next, Progress

LEMMA TypeInvInit == Init => TypeInv
  BY DEF Init, TypeInv, TypeOK, SeenPositive, Months, Tiers, Control

\* Every variable keeps its type; in particular a counter, pending or
\* committed, never goes below zero.
THEOREM TypeCorrect == Spec => []TypeOK
<1>1. TypeInv /\ [Next]_vars => TypeInv'
  BY TypeInvStep
<1>2. TypeInv => TypeOK
  BY DEF TypeInv
<1> QED BY TypeInvInit, <1>1, <1>2, PTL DEF Spec

----------------------------------------------------------------------------
(***************************************************************************)
(* The inductive invariant.  ChargeMatchesArtefact alone is not inductive: *)
(* that a commit adds exactly one to the counter needs that the committing *)
(* request still owns the row it wrote, that it owns no other, and that    *)
(* the row has not moved since it was read.                                *)
(***************************************************************************)
HoldsCounter == Charged \cup Releasing

\* A locked row belongs to a request that is past its upsert: to one that can
\* still commit only in the month it charges.
LockInv ==
  \A u \in Users, m \in Months : lock[u][m] # None =>
    /\ UserOf[lock[u][m]] = u
    /\ \/ pc[lock[u][m]] \in HoldsCounter /\ m = period[lock[u][m]]
       \/ pc[lock[u][m]] = "failing"

\* A request past the limit check owns its row, has written one more than
\* what is committed, and, if FREE, is within the limit.
ChargeInv ==
  \A r \in Requests : pc[r] \in HoldsCounter =>
    /\ lock[UserOf[r]][period[r]] = r
    /\ written[r][period[r]] = usage[UserOf[r]][period[r]] + 1
    /\ tier[r] = "free" => written[r][period[r]] <= FreeLimit

DoneInv == \A r \in Requests : r \in stored <=> pc[r] = "done"

LedgerInv ==
  /\ TypeInv
  /\ LockInv
  /\ ChargeInv
  /\ DoneInv
  /\ ChargeMatchesArtefact
  /\ FreeTierCap

\* A month's deliveries are the same after a step that leaves the counters,
\* the stored requests and what these were charged for alone.
LEMMA CountFrame ==
  ASSUME ChargeMatchesArtefact, FreeTierCap,
         usage' = usage, stored' = stored,
         \A q \in stored : period'[q] = period[q] /\ tier'[q] = tier[q]
  PROVE  ChargeMatchesArtefact' /\ FreeTierCap'
<1>1. ASSUME NEW u \in Users, NEW m \in Months
      PROVE  /\ StoredIn(u, m)' = StoredIn(u, m)
             /\ {q \in StoredIn(u, m) : tier[q] = "free"}'
                  = {q \in StoredIn(u, m) : tier[q] = "free"}
  BY DEF StoredIn
<1> QED BY <1>1 DEF ChargeMatchesArtefact, FreeTierCap, Months

LEMMA LedgerInvInit == Init => LedgerInv
<1> SUFFICES ASSUME Init PROVE LedgerInv
  OBVIOUS
<1>1. TypeInv
  BY TypeInvInit
<1>2. LockInv /\ ChargeInv /\ DoneInv
  BY DEF Init, LockInv, ChargeInv, DoneInv, HoldsCounter, Charged, Releasing
<1>3. ASSUME NEW u \in Users, NEW m \in Months
      PROVE  /\ StoredIn(u, m) = {}
             /\ {q \in StoredIn(u, m) : tier[q] = "free"} = {}
             /\ usage[u][m] = 0
  BY DEF Init, StoredIn
<1>4. ASSUME NEW u \in Users, NEW m \in Months
      PROVE  /\ Cardinality(StoredIn(u, m)) = usage[u][m]
             /\ Cardinality({q \in StoredIn(u, m) : tier[q] = "free"}) <= FreeLimit
  <2>1. Cardinality({}) = 0 /\ 0 <= FreeLimit
    BY FS_EmptySet
  <2> QED BY <1>3, <2>1
<1>5. ChargeMatchesArtefact /\ FreeTierCap
  BY <1>4 DEF ChargeMatchesArtefact, FreeTierCap
<1> QED BY <1>1, <1>2, <1>5 DEF LedgerInv

\* Commit is the step that moves the ledger: the counter of the charged month
\* and the set of stored requests grow by one together.
LEMMA CommitLedger ==
  ASSUME LedgerInv, NEW r \in Requests, Commit(r)
  PROVE  /\ r \notin stored
         /\ stored' = stored \cup {r}
         /\ tier[r] = "free" => usage[UserOf[r]][period[r]] < FreeLimit
         /\ usage' = [usage EXCEPT ![UserOf[r]][period[r]] = @ + 1]
<1> USE DEF LedgerInv, TypeInv, TypeOK
<1>1. pc[r] = "answered" /\ r \notin stored /\ stored' = stored \cup {r}
  BY DEF Commit, DoneInv
<1>2. /\ lock[UserOf[r]][period[r]] = r
      /\ written[r][period[r]] = usage[UserOf[r]][period[r]] + 1
      /\ tier[r] = "free" => written[r][period[r]] <= FreeLimit
  BY <1>1 DEF ChargeInv, HoldsCounter, Charged
<1>3. \A m \in Months : lock[UserOf[r]][m] = r => m = period[r]
  BY <1>1 DEF LockInv
<1>4. usage' = [usage EXCEPT ![UserOf[r]] =
         [m \in Months |-> IF lock[UserOf[r]][m] = r THEN written[r][m]
                           ELSE usage[UserOf[r]][m]]]
  BY DEF Commit
<1>5. usage' = [usage EXCEPT ![UserOf[r]][period[r]] = @ + 1]
  <2> DEFINE u == UserOf[r]
             row == [m \in Months |-> IF lock[u][m] = r THEN written[r][m]
                                      ELSE usage[u][m]]
  <2>1. row = [usage[u] EXCEPT ![period[r]] = @ + 1]
    BY <1>2, <1>3
  <2> QED BY <1>4, <2>1
<1>6. tier[r] = "free" => usage[UserOf[r]][period[r]] < FreeLimit
  <2>1. usage[UserOf[r]][period[r]] \in Nat
    OBVIOUS
  <2> QED BY <1>2, <2>1
<1> QED BY <1>1, <1>5, <1>6

\* The counting invariants across a commit.
LEMMA CommitCounts ==
  ASSUME LedgerInv, NEW r \in Requests, Commit(r)
  PROVE  ChargeMatchesArtefact' /\ FreeTierCap'
<1> DEFINE FreeIn(u, m) == {q \in StoredIn(u, m) : tier[q] = "free"}
<1>1. TypeOK /\ ChargeMatchesArtefact /\ FreeTierCap
  BY DEF LedgerInv, TypeInv
<1>2. /\ r \notin stored
      /\ stored' = stored \cup {r}
      /\ tier[r] = "free" => usage[UserOf[r]][period[r]] < FreeLimit
      /\ usage' = [usage EXCEPT ![UserOf[r]][period[r]] = @ + 1]
  BY CommitLedger
<1>3. period' = period /\ tier' = tier
  BY DEF Commit
<1>4. IsFiniteSet(stored)
  BY <1>1, FS_Subset DEF TypeOK
<1>5. ASSUME NEW u \in Users, NEW m \in Months
      PROVE  /\ IsFiniteSet(StoredIn(u, m))
             /\ IsFiniteSet(FreeIn(u, m))
             /\ Cardinality(StoredIn(u, m)) \in Nat
             /\ Cardinality(FreeIn(u, m)) \in Nat
             /\ Cardinality(FreeIn(u, m)) <= Cardinality(StoredIn(u, m))
  <2>1. StoredIn(u, m) \subseteq stored /\ FreeIn(u, m) \subseteq StoredIn(u, m)
    BY DEF StoredIn
  <2>2. IsFiniteSet(StoredIn(u, m))
    BY <1>4, <2>1, FS_Subset
  <2>3. IsFiniteSet(FreeIn(u, m)) /\ Cardinality(FreeIn(u, m)) <= Cardinality(StoredIn(u, m))
    BY <2>1, <2>2, FS_Subset
  <2> QED BY <2>2, <2>3, FS_CardinalityType
<1>6. ASSUME NEW u \in Users, NEW m \in Months,
             UserOf[r] = u, period[r] = m
      PROVE  /\ usage'[u][m] = Cardinality(StoredIn(u, m)')
             /\ Cardinality(FreeIn(u, m)') <= FreeLimit
  <2>1. StoredIn(u, m)' = StoredIn(u, m) \cup {r} /\ r \notin StoredIn(u, m)
    BY <1>2, <1>3, <1>6 DEF StoredIn
  <2>2. Cardinality(StoredIn(u, m)') = Cardinality(StoredIn(u, m)) + 1
    BY <1>5, <2>1, FS_AddElement
  <2>3. usage[u][m] = Cardinality(StoredIn(u, m))
    BY <1>1 DEF ChargeMatchesArtefact
  <2>4. usage'[u][m] = usage[u][m] + 1
    BY <1>1, <1>2, <1>6 DEF TypeOK
  <2>5. CASE tier[r] = "free"
    <3>1. FreeIn(u, m)' = FreeIn(u, m) \cup {r} /\ r \notin FreeIn(u, m)
      BY <1>3, <2>1, <2>5
    <3>2. Cardinality(FreeIn(u, m)') = Cardinality(FreeIn(u, m)) + 1
      <4> HIDE DEF FreeIn
      <4> QED BY <1>5, <3>1, FS_AddElement
    <3>3. usage[u][m] < FreeLimit
      BY <1>2, <1>6, <2>5
    <3> HIDE DEF FreeIn
    <3> QED BY <1>5, <2>2, <2>3, <2>4, <3>2, <3>3
  <2>6. CASE tier[r] # "free"
    <3>1. FreeIn(u, m)' = FreeIn(u, m)
      BY <1>3, <2>1, <2>6
    <3>2. Cardinality(FreeIn(u, m)) <= FreeLimit
      BY <1>1 DEF FreeTierCap
    <3> HIDE DEF FreeIn
    <3> QED BY <2>2, <2>3, <2>4, <3>1, <3>2
  <2> QED BY <2>5, <2>6
<1>7. ASSUME NEW u \in Users, NEW m \in Months,
             UserOf[r] # u \/ period[r] # m
      PROVE  /\ usage'[u][m] = Cardinality(StoredIn(u, m)')
             /\ Cardinality(FreeIn(u, m)') <= FreeLimit
  <2>1. StoredIn(u, m)' = StoredIn(u, m)
    BY <1>2, <1>3, <1>7 DEF StoredIn
  <2>2. FreeIn(u, m)' = FreeIn(u, m)
    BY <1>3, <2>1
  <2>3. usage'[u][m] = usage[u][m]
    BY <1>1, <1>2, <1>7 DEF TypeOK
  <2>4. usage[u][m] = Cardinality(StoredIn(u, m)) /\ Cardinality(FreeIn(u, m)) <= FreeLimit
    BY <1>1 DEF ChargeMatchesArtefact, FreeTierCap
  <2> HIDE DEF FreeIn
  <2> QED BY <2>1, <2>2, <2>3, <2>4
<1>8. Months' = Months
  BY DEF Months
<1> QED BY <1>6, <1>7, <1>8 DEF ChargeMatchesArtefact, FreeTierCap

\* Only a commit moves the ledger: every other step leaves the counters, the
\* stored requests and what these were charged for as they are.
LedgerStill ==
  /\ usage' = usage
  /\ stored' = stored
  /\ \A q \in stored : period'[q] = period[q] /\ tier'[q] = tier[q]

LEMMA OnlyCommitMoves ==
  ASSUME LedgerInv, [Next]_vars
  PROVE  (\E r \in Requests : Commit(r)) \/ LedgerStill
<1>1. TypeOK /\ DoneInv
  BY DEF LedgerInv, TypeInv
<1> USE DEF LedgerStill
<1>2. ASSUME NEW r \in Requests, Authenticate(r) PROVE LedgerStill
  BY <1>1, <1>2 DEF Authenticate, dbVars, TypeOK, DoneInv
<1>3. ASSUME NEW r \in Requests, GetMaster(r) PROVE LedgerStill
  BY <1>1, <1>3 DEF GetMaster, dbVars, TypeOK, DoneInv
<1>4. ASSUME NEW r \in Requests, Upsert(r) PROVE LedgerStill
  BY <1>1, <1>4 DEF Upsert, Write, OverLimit, LockFree, TypeOK, DoneInv
<1>5. ASSUME NEW r \in Requests, LoadResume(r) PROVE LedgerStill
  BY <1>1, <1>5 DEF LoadResume, dbVars, TypeOK, DoneInv
<1>6. ASSUME NEW r \in Requests, AiReplies(r) PROVE LedgerStill
  BY <1>1, <1>6 DEF AiReplies, CallFails, dbVars, TypeOK, DoneInv
<1>7. ASSUME NEW r \in Requests, ReadUsage(r) PROVE LedgerStill
  BY <1>1, <1>7 DEF ReadUsage, dbVars, TypeOK, DoneInv
<1>8. ASSUME NEW r \in Requests, Decrement(r) PROVE LedgerStill
  BY <1>1, <1>8 DEF Decrement, Write, LockFree, TypeOK, DoneInv
<1>9. ASSUME NEW r \in Requests, InsertTailored(r) PROVE LedgerStill
  BY <1>1, <1>9 DEF InsertTailored, TypeOK, DoneInv
<1>10. ASSUME NEW r \in Requests, Answer(r) PROVE LedgerStill
  BY <1>1, <1>10 DEF Answer, dbVars, TypeOK, DoneInv
<1>11. ASSUME NEW r \in Requests, Rollback(r) PROVE LedgerStill
  BY <1>1, <1>11 DEF Rollback, Forget, Uncharged, Unlocked, TypeOK, DoneInv
<1>12. ASSUME NEW r \in Requests, LoseConnection(r) PROVE LedgerStill
  <2>1. r \notin stored /\ Uncharged(r) /\ UNCHANGED <<usage, stored>>
    BY <1>1, <1>12 DEF LoseConnection, DoneInv, InFlight, Charged, Releasing
  <2> QED BY <1>1, <2>1, UnchargedTyped DEF TypeOK
<1>13. ASSUME NewMonth \/ (\E u \in Users : ChangePlan(u))
              \/ (\E x \in Resumes : MakeMaster(x) \/ DeleteResume(x))
              \/ UNCHANGED vars
       PROVE  LedgerStill
  BY <1>13 DEF NewMonth, ChangePlan, MakeMaster, DeleteResume, vars, reqVars
<1> QED
  BY <1>2, <1>3, <1>4, <1>5, <1>6, <1>7, <1>8,
     <1>9, <1>10, <1>11, <1>12, <1>13 DEF Next, Progress

\* The locks, the pending writes and the end of requests, step by step; the
\* counts follow from CountFrame or, for a commit, from CommitCounts.
LEMMA LedgerInvStep ==
  ASSUME LedgerInv, [Next]_vars
  PROVE  LedgerInv'
<1>1. TypeInv /\ TypeInv'
  BY TypeInvStep DEF LedgerInv
<1>2. TypeOK /\ LockInv /\ ChargeInv /\ DoneInv /\ ChargeMatchesArtefact /\ FreeTierCap
  BY DEF LedgerInv, TypeInv
<1>3. ChargeMatchesArtefact' /\ FreeTierCap'
  BY <1>2, OnlyCommitMoves, CommitCounts, CountFrame DEF LedgerStill
<1> DEFINE Rest == LockInv /\ ChargeInv /\ DoneInv
<1>4. ASSUME NEW r \in Requests, Authenticate(r) PROVE Rest'
  <2>1. LockInv'
    BY <1>2, <1>4 DEF Authenticate, Goto, dbVars, TypeOK, HoldsCounter,
           Charged, Releasing, InFlight, LockInv
  <2>2. ChargeInv'
    BY <1>2, <1>4 DEF Authenticate, Goto, dbVars, TypeOK, HoldsCounter,
           Charged, Releasing, InFlight, LockInv, ChargeInv
  <2>3. DoneInv'
    BY <1>2, <1>4 DEF Authenticate, Goto, dbVars, TypeOK, HoldsCounter,
           Charged, Releasing, InFlight, DoneInv
  <2> QED BY <2>1, <2>2, <2>3
<1>5. ASSUME NEW r \in Requests, GetMaster(r) PROVE Rest'
  <2>1. LockInv'
    BY <1>2, <1>5 DEF GetMaster, Goto, dbVars, TypeOK, HoldsCounter,
           Charged, Releasing, InFlight, LockInv
  <2>2. ChargeInv'
    BY <1>2, <1>5 DEF GetMaster, Goto, dbVars, TypeOK, HoldsCounter,
           Charged, Releasing, InFlight, LockInv, ChargeInv
  <2>3. DoneInv'
    BY <1>2, <1>5 DEF GetMaster, Goto, dbVars, TypeOK, HoldsCounter,
           Charged, Releasing, InFlight, DoneInv
  <2> QED BY <2>1, <2>2, <2>3
<1>6. ASSUME NEW r \in Requests, Upsert(r) PROVE Rest'
  <2>1. LockInv'
    BY <1>2, <1>6 DEF Upsert, Goto, Write, OverLimit, LockFree, TypeOK, HoldsCounter,
           Charged, Releasing, InFlight, LockInv
  <2>2. ChargeInv'
    BY <1>2, <1>6 DEF Upsert, Goto, Write, OverLimit, LockFree, TypeOK, HoldsCounter,
           Charged, Releasing, InFlight, LockInv, ChargeInv
  <2>3. DoneInv'
    BY <1>2, <1>6 DEF Upsert, Goto, Write, OverLimit, LockFree, TypeOK, HoldsCounter,
           Charged, Releasing, InFlight, DoneInv
  <2> QED BY <2>1, <2>2, <2>3
<1>7. ASSUME NEW r \in Requests, LoadResume(r) PROVE Rest'
  <2>1. LockInv'
    BY <1>2, <1>7 DEF LoadResume, Goto, dbVars, TypeOK, HoldsCounter,
           Charged, Releasing, InFlight, LockInv
  <2>2. ChargeInv'
    BY <1>2, <1>7 DEF LoadResume, Goto, dbVars, TypeOK, HoldsCounter,
           Charged, Releasing, InFlight, LockInv, ChargeInv
  <2>3. DoneInv'
    BY <1>2, <1>7 DEF LoadResume, Goto, dbVars, TypeOK, HoldsCounter,
           Charged, Releasing, InFlight, DoneInv
  <2> QED BY <2>1, <2>2, <2>3
<1>8. ASSUME NEW r \in Requests, AiReplies(r) PROVE Rest'
  <2>1. LockInv'
    BY <1>2, <1>8 DEF AiReplies, CallFails, Goto, dbVars, TypeOK, HoldsCounter,
           Charged, Releasing, InFlight, LockInv
  <2>2. ChargeInv'
    BY <1>2, <1>8 DEF AiReplies, CallFails, Goto, dbVars, TypeOK, HoldsCounter,
           Charged, Releasing, InFlight, LockInv, ChargeInv
  <2>3. DoneInv'
    BY <1>2, <1>8 DEF AiReplies, CallFails, Goto, dbVars, TypeOK, HoldsCounter,
           Charged, Releasing, InFlight, DoneInv
  <2> QED BY <2>1, <2>2, <2>3
<1>9. ASSUME NEW r \in Requests, ReadUsage(r) PROVE Rest'
  <2>1. LockInv'
    BY <1>2, <1>9 DEF ReadUsage, Goto, dbVars, TypeOK, HoldsCounter,
           Charged, Releasing, InFlight, LockInv
  <2>2. ChargeInv'
    BY <1>2, <1>9 DEF ReadUsage, Goto, dbVars, TypeOK, HoldsCounter,
           Charged, Releasing, InFlight, LockInv, ChargeInv
  <2>3. DoneInv'
    BY <1>2, <1>9 DEF ReadUsage, Goto, dbVars, TypeOK, HoldsCounter,
           Charged, Releasing, InFlight, DoneInv
  <2> QED BY <2>1, <2>2, <2>3
<1>10. ASSUME NEW r \in Requests, Decrement(r) PROVE Rest'
  <2>1. LockInv'
    BY <1>2, <1>10 DEF Decrement, Goto, Write, LockFree, TypeOK, HoldsCounter,
           Charged, Releasing, InFlight, LockInv
  <2>2. ChargeInv'
    BY <1>2, <1>10 DEF Decrement, Goto, Write, LockFree, TypeOK, HoldsCounter,
           Charged, Releasing, InFlight, LockInv, ChargeInv
  <2>3. DoneInv'
    BY <1>2, <1>10 DEF Decrement, Goto, Write, LockFree, TypeOK, HoldsCounter,
           Charged, Releasing, InFlight, DoneInv
  <2> QED BY <2>1, <2>2, <2>3
<1>11. ASSUME NEW r \in Requests, InsertTailored(r) PROVE Rest'
  <2>1. LockInv'
    BY <1>2, <1>11 DEF InsertTailored, Goto, TypeOK, HoldsCounter,
           Charged, Releasing, InFlight, LockInv
  <2>2. ChargeInv'
    BY <1>2, <1>11 DEF InsertTailored, Goto, TypeOK, HoldsCounter,
           Charged, Releasing, InFlight, LockInv, ChargeInv
  <2>3. DoneInv'
    BY <1>2, <1>11 DEF InsertTailored, Goto, TypeOK, HoldsCounter,
           Charged, Releasing, InFlight, DoneInv
  <2> QED BY <2>1, <2>2, <2>3
<1>12. ASSUME NEW r \in Requests, Answer(r) PROVE Rest'
  <2>1. LockInv'
    BY <1>2, <1>12 DEF Answer, Goto, dbVars, TypeOK, HoldsCounter,
           Charged, Releasing, InFlight, LockInv
  <2>2. ChargeInv'
    BY <1>2, <1>12 DEF Answer, Goto, dbVars, TypeOK, HoldsCounter,
           Charged, Releasing, InFlight, LockInv, ChargeInv
  <2>3. DoneInv'
    BY <1>2, <1>12 DEF Answer, Goto, dbVars, TypeOK, HoldsCounter,
           Charged, Releasing, InFlight, DoneInv
  <2> QED BY <2>1, <2>2, <2>3
<1>13. ASSUME NEW r \in Requests, Commit(r) PROVE Rest'
  <2>1. LockInv'
    BY <1>2, <1>13 DEF Commit, Forget, Goto, Unlocked, TypeOK, HoldsCounter,
           Charged, Releasing, InFlight, LockInv
  <2>2. ChargeInv'
    BY <1>2, <1>13 DEF Commit, Forget, Goto, Unlocked, TypeOK, HoldsCounter,
           Charged, Releasing, InFlight, LockInv, ChargeInv
  <2>3. DoneInv'
    BY <1>2, <1>13 DEF Commit, Forget, Goto, Unlocked, TypeOK, HoldsCounter,
           Charged, Releasing, InFlight, DoneInv
  <2> QED BY <2>1, <2>2, <2>3
<1>14. ASSUME NEW r \in Requests, Rollback(r) PROVE Rest'
  <2>1. LockInv'
    BY <1>2, <1>14 DEF Rollback, Forget, Uncharged, Goto, Unlocked, TypeOK, HoldsCounter,
           Charged, Releasing, InFlight, LockInv
  <2>2. ChargeInv'
    BY <1>2, <1>14 DEF Rollback, Forget, Uncharged, Goto, Unlocked, TypeOK, HoldsCounter,
           Charged, Releasing, InFlight, LockInv, ChargeInv
  <2>3. DoneInv'
    BY <1>2, <1>14 DEF Rollback, Forget, Uncharged, Goto, Unlocked, TypeOK, HoldsCounter,
           Charged, Releasing, InFlight, DoneInv
  <2> QED BY <2>1, <2>2, <2>3
<1>15. ASSUME NEW r \in Requests, LoseConnection(r) PROVE Rest'
  <2>1. LockInv'
    BY <1>2, <1>15 DEF LoseConnection, Forget, Uncharged, Goto, Unlocked, TypeOK, HoldsCounter,
           Charged, Releasing, InFlight, LockInv
  <2>2. ChargeInv'
    BY <1>2, <1>15 DEF LoseConnection, Forget, Uncharged, Goto, Unlocked, TypeOK, HoldsCounter,
           Charged, Releasing, InFlight, LockInv, ChargeInv
  <2>3. DoneInv'
    BY <1>2, <1>15 DEF LoseConnection, Forget, Uncharged, Goto, Unlocked, TypeOK, HoldsCounter,
           Charged, Releasing, InFlight, DoneInv
  <2> QED BY <2>1, <2>2, <2>3
<1>16. ASSUME NewMonth \/ (\E u \in Users : ChangePlan(u))
              \/ (\E x \in Resumes : MakeMaster(x) \/ DeleteResume(x))
              \/ UNCHANGED vars
       PROVE  Rest'
  <2>1. UNCHANGED <<usage, lock, stored, reqVars>>
    BY <1>16 DEF NewMonth, ChangePlan, MakeMaster, DeleteResume, vars, reqVars
  <2> QED
    BY <1>2, <2>1 DEF reqVars, LockInv, ChargeInv, DoneInv, HoldsCounter, Months
<1>17. Rest'
  BY <1>4, <1>5, <1>6, <1>7, <1>8, <1>9, <1>10, <1>11,
     <1>12, <1>13, <1>14, <1>15, <1>16 DEF Next, Progress
<1> QED BY <1>1, <1>3, <1>17 DEF LedgerInv

LEMMA LedgerInvariant == Spec => []LedgerInv
<1>1. LedgerInv /\ [Next]_vars => LedgerInv'
  BY LedgerInvStep
<1> QED BY LedgerInvInit, <1>1, PTL DEF Spec

\* In every month a user has been charged for as many shots as there are
\* tailored resumes stored for them, for any number of concurrent requests.
THEOREM ChargedIffDelivered == Spec => []ChargeMatchesArtefact
<1>1. LedgerInv => ChargeMatchesArtefact
  BY DEF LedgerInv
<1> QED BY LedgerInvariant, <1>1, PTL

\* Requests resolved as FREE are never delivered more often than the limit.
THEOREM FreeTierIsCapped == Spec => []FreeTierCap
<1>1. LedgerInv => FreeTierCap
  BY DEF LedgerInv
<1> QED BY LedgerInvariant, <1>1, PTL

\* What GET /shots/remaining reads still shows a shot left while a FREE
\* request past its limit check has not committed.
THEOREM RemainingStaysHonest == Spec => []RemainingIsHonest
<1>1. LedgerInv => RemainingIsHonest
  <2> SUFFICES ASSUME LedgerInv, NEW r \in Requests,
                      pc[r] \in Charged, tier[r] = "free", period[r] = clock
               PROVE  ShotsRemaining(UserOf[r]) > 0
    BY DEF RemainingIsHonest
  <2>1. usage[UserOf[r]][clock] \in Nat
    BY DEF LedgerInv, TypeInv, TypeOK
  <2>2. usage[UserOf[r]][clock] + 1 <= FreeLimit
    BY DEF LedgerInv, ChargeInv, HoldsCounter
  <2> QED BY <2>1, <2>2 DEF ShotsRemaining
<1> QED BY LedgerInvariant, <1>1, PTL

\* A committed counter moves only upwards, by one, with a new delivery.
THEOREM UsageNeverRefunded == Spec => UsageOnlyGrows
<1> DEFINE Grows == \A u \in Users, m \in Months :
                      usage'[u][m] # usage[u][m] =>
                        /\ usage'[u][m] = usage[u][m] + 1
                        /\ \E r \in stored' \ stored : UserOf[r] = u /\ period[r] = m
<1>1. ASSUME LedgerInv, NEW r \in Requests, Commit(r) PROVE Grows
  <2>1. /\ r \notin stored /\ stored' = stored \cup {r}
        /\ usage' = [usage EXCEPT ![UserOf[r]][period[r]] = @ + 1]
    BY <1>1, CommitLedger
  <2>2. usage \in [Users -> [Months -> Nat]] /\ period \in [Requests -> Months]
    BY <1>1 DEF LedgerInv, TypeInv, TypeOK
  <2>3. ASSUME NEW u \in Users, NEW m \in Months, usage'[u][m] # usage[u][m]
        PROVE  u = UserOf[r] /\ m = period[r] /\ usage'[u][m] = usage[u][m] + 1
    BY <2>1, <2>2, <2>3
  <2> QED BY <2>1, <2>3
<1>2. ASSUME LedgerInv, [Next]_vars PROVE [Grows]_vars
  BY <1>1, <1>2, OnlyCommitMoves DEF LedgerStill
<1> QED BY <1>2, LedgerInvariant, PTL DEF Spec, UsageOnlyGrows

----------------------------------------------------------------------------
(* Shoot implements ShotLedger: a commit is a delivery, nothing else is. *)

LEMMA LedgerInitRefines == Init => Ledger!Init
  BY DEF Init, Ledger!Init

LEMMA CommitDelivers ==
  ASSUME LedgerInv, NEW r \in Requests, Commit(r)
  PROVE  Ledger!Next
<1> DEFINE rec(q) == [req |-> q, month |-> period[q], tier |-> tier[q]]
<1>1. /\ r \notin stored
      /\ stored' = stored \cup {r}
      /\ tier[r] = "free" => usage[UserOf[r]][period[r]] < FreeLimit
      /\ usage' = [usage EXCEPT ![UserOf[r]][period[r]] = @ + 1]
  BY CommitLedger
<1>2. period' = period /\ tier' = tier
  BY DEF Commit
<1>3. rec(r) \in Ledger!Delivery
  BY DEF LedgerInv, TypeInv, TypeOK, Tiers, Ledger!Delivery, Ledger!Tiers
<1>4. /\ rec(r).req = r /\ rec(r).month = period[r] /\ rec(r).tier = tier[r]
      /\ \A e \in {[req |-> q, month |-> period[q], tier |-> tier[q]] : q \in stored} :
           e.req # rec(r).req
  BY <1>1
<1>5. {[req |-> q, month |-> period[q], tier |-> tier[q]] : q \in stored}'
        = {[req |-> q, month |-> period[q], tier |-> tier[q]] : q \in stored}
            \cup {rec(r)}
  BY <1>1, <1>2
<1> HIDE DEF rec
<1>6. ASSUME NEW d, d.req = r, d.month = period[r], d.tier = tier[r],
             \A e \in {[req |-> q, month |-> period[q], tier |-> tier[q]] : q \in stored} :
               e.req # d.req,
             {[req |-> q, month |-> period[q], tier |-> tier[q]] : q \in stored}'
               = {[req |-> q, month |-> period[q], tier |-> tier[q]] : q \in stored}
                   \cup {d}
      PROVE  Ledger!Deliver(d)
  BY <1>1, <1>6 DEF Ledger!Deliver
<1> QED BY <1>3, <1>4, <1>5, <1>6 DEF Ledger!Next

LEMMA StillStutters ==
  ASSUME LedgerStill
  PROVE  UNCHANGED Ledger!vars
  BY DEF LedgerStill, Ledger!vars

\* Every run of Shoot is, for whoever sees only committed counters and stored
\* tailored resumes, a run of ShotLedger.
THEOREM ShootImplementsLedger == Spec => LedgerSpec
<1>1. LedgerInv /\ [Next]_vars => [Ledger!Next]_(Ledger!vars)
  BY OnlyCommitMoves, CommitDelivers, StillStutters
<1> QED BY LedgerInitRefines, LedgerInvariant, <1>1, PTL
        DEF Spec, LedgerSpec, Ledger!Spec
----------------------------------------------------------------------------
(***************************************************************************)
(* What surrounds the ledger: the months a request computes, what its      *)
(* client was told, and the resume it tailors.                             *)
(***************************************************************************)

\* A request charges a month that has begun; release_shot computes its own
\* month later, so never an earlier one.
MonthInv ==
  \A r \in Requests :
    /\ period[r] <= clock
    /\ pc[r] \in Releasing => period[r] <= relPeriod[r]

\* "ok" is sent before the commit, "error" after the rollback.
AnswerInv ==
  \A r \in Requests :
    /\ answer[r] = "ok" => pc[r] \in {"answered", "done", "lost"}
    /\ answer[r] = "error" => pc[r] = "failed"
    /\ pc[r] \in {"answered", "done"} => answer[r] = "ok"

\* The resume a request works on belongs to its user, whatever has become of
\* it; the one its TailoredResume references is there while the reference is.
SourceInv ==
  \A r \in Requests :
    /\ pc[r] \in {"charging", "charged", "ai", "inserting"}
         => target[r] \in Resumes /\ ResumeOf[target[r]] = UserOf[r]
    /\ source[r] # None
         => /\ pc[r] \in {"inserted", "answered", "failing", "done"}
            /\ resume[source[r]] \in Live
            /\ ResumeOf[source[r]] = UserOf[r]

RequestInv == LedgerInv /\ MonthInv /\ AnswerInv /\ SourceInv

LEMMA RequestInvInit == Init => RequestInv
<1> SUFFICES ASSUME Init PROVE RequestInv
  OBVIOUS
<1>1. LedgerInv
  BY LedgerInvInit
<1>2. MonthInv /\ AnswerInv /\ SourceInv
  BY DEF Init, MonthInv, AnswerInv, SourceInv, Releasing
<1> QED BY <1>1, <1>2 DEF RequestInv

\* get_master returns a resume of the user who asks, or nothing.
LEMMA MasterIsOwn ==
  ASSUME NEW u \in Users, MasterOf(u) # None
  PROVE  MasterOf(u) \in Resumes /\ ResumeOf[MasterOf(u)] = u
  BY DEF MasterOf

LEMMA RequestInvStep ==
  ASSUME RequestInv, [Next]_vars
  PROVE  RequestInv'
<1>1. LedgerInv'
  BY LedgerInvStep DEF RequestInv
<1>2. TypeOK /\ MonthInv /\ AnswerInv /\ SourceInv
  BY DEF RequestInv, LedgerInv, TypeInv
<1> DEFINE Rest == MonthInv /\ AnswerInv /\ SourceInv
<1> USE DEF TypeOK, Goto
<1>3. ASSUME NEW r \in Requests, Authenticate(r) PROVE Rest'
  <2>1. MonthInv'
    BY <1>2, <1>3 DEF Authenticate, dbVars, MonthInv, Releasing, Months
  <2>2. AnswerInv'
    BY <1>2, <1>3 DEF Authenticate, dbVars, AnswerInv, Charged, Releasing
  <2>3. SourceInv'
    BY <1>2, <1>3 DEF Authenticate, dbVars, SourceInv, Live, Charged, Releasing
  <2> QED BY <2>1, <2>2, <2>3
<1>4. ASSUME NEW r \in Requests, GetMaster(r) PROVE Rest'
  <2>1. CASE MasterOf(UserOf[r]) = None
    <3>1. pc' = [pc EXCEPT ![r] = "failing"] /\ pc[r] = "authed"
          /\ UNCHANGED <<dbVars, target, period, relPeriod, answer>>
      BY <1>4, <2>1 DEF GetMaster
    <3> QED BY <1>2, <3>1 DEF dbVars, MonthInv, AnswerInv, SourceInv, Releasing
  <2>2. CASE MasterOf(UserOf[r]) # None
    <3> DEFINE x == MasterOf(UserOf[r])
    <3>1. /\ pc[r] = "authed"
          /\ target' = [target EXCEPT ![r] = x]
          /\ period' = [period EXCEPT ![r] = clock]
          /\ pc' = [pc EXCEPT ![r] = "charging"]
          /\ UNCHANGED <<dbVars, relPeriod, answer>>
      BY <1>4, <2>2 DEF GetMaster
    <3>2. x \in Resumes /\ ResumeOf[x] = UserOf[r]
      BY <2>2, MasterIsOwn
    <3> HIDE DEF x
    <3>3. MonthInv'
      BY <1>2, <3>1 DEF dbVars, MonthInv, Releasing, Months
    <3>4. AnswerInv' /\ SourceInv'
      BY <1>2, <3>1, <3>2 DEF dbVars, AnswerInv, SourceInv
    <3> QED BY <3>3, <3>4
  <2> QED BY <2>1, <2>2
<1>5. ASSUME NEW r \in Requests, Upsert(r) PROVE Rest'
  <2>1. MonthInv'
    BY <1>2, <1>5 DEF Upsert, Write, OverLimit, MonthInv, Releasing, Months
  <2>2. AnswerInv'
    BY <1>2, <1>5 DEF Upsert, Write, OverLimit, AnswerInv, Charged, Releasing
  <2>3. SourceInv'
    BY <1>2, <1>5 DEF Upsert, Write, OverLimit, SourceInv, Live, Charged, Releasing
  <2> QED BY <2>1, <2>2, <2>3
<1>6. ASSUME NEW r \in Requests, LoadResume(r) PROVE Rest'
  <2>1. MonthInv'
    BY <1>2, <1>6 DEF LoadResume, dbVars, MonthInv, Releasing, Months
  <2>2. AnswerInv'
    BY <1>2, <1>6 DEF LoadResume, dbVars, AnswerInv, Charged, Releasing
  <2>3. SourceInv'
    BY <1>2, <1>6 DEF LoadResume, dbVars, SourceInv, Live, Charged, Releasing
  <2> QED BY <2>1, <2>2, <2>3
<1>7. ASSUME NEW r \in Requests, AiReplies(r) PROVE Rest'
  <2>1. MonthInv'
    BY <1>2, <1>7 DEF AiReplies, CallFails, dbVars, MonthInv, Releasing, Months
  <2>2. AnswerInv'
    BY <1>2, <1>7 DEF AiReplies, CallFails, dbVars, AnswerInv, Charged, Releasing
  <2>3. SourceInv'
    BY <1>2, <1>7 DEF AiReplies, CallFails, dbVars, SourceInv, Live, Charged, Releasing
  <2> QED BY <2>1, <2>2, <2>3
<1>8. ASSUME NEW r \in Requests, ReadUsage(r) PROVE Rest'
  <2>1. MonthInv'
    BY <1>2, <1>8 DEF ReadUsage, dbVars, MonthInv, Releasing, Months
  <2>2. AnswerInv'
    BY <1>2, <1>8 DEF ReadUsage, dbVars, AnswerInv, Charged, Releasing
  <2>3. SourceInv'
    BY <1>2, <1>8 DEF ReadUsage, dbVars, SourceInv, Live, Charged, Releasing
  <2> QED BY <2>1, <2>2, <2>3
<1>9. ASSUME NEW r \in Requests, Decrement(r) PROVE Rest'
  <2>1. MonthInv'
    BY <1>2, <1>9 DEF Decrement, Write, MonthInv, Releasing, Months
  <2>2. AnswerInv'
    BY <1>2, <1>9 DEF Decrement, Write, AnswerInv, Charged, Releasing
  <2>3. SourceInv'
    BY <1>2, <1>9 DEF Decrement, Write, SourceInv, Live, Charged, Releasing
  <2> QED BY <2>1, <2>2, <2>3
<1>10. ASSUME NEW r \in Requests, InsertTailored(r) PROVE Rest'
  <2>1. MonthInv'
    BY <1>2, <1>10 DEF InsertTailored, MonthInv, Releasing, Months
  <2>2. AnswerInv'
    BY <1>2, <1>10 DEF InsertTailored, AnswerInv, Charged, Releasing
  <2>3. SourceInv'
    BY <1>2, <1>10 DEF InsertTailored, SourceInv, Live, Charged, Releasing
  <2> QED BY <2>1, <2>2, <2>3
<1>11. ASSUME NEW r \in Requests, Answer(r) PROVE Rest'
  <2>1. MonthInv'
    BY <1>2, <1>11 DEF Answer, dbVars, MonthInv, Releasing, Months
  <2>2. AnswerInv'
    BY <1>2, <1>11 DEF Answer, dbVars, AnswerInv, Charged, Releasing
  <2>3. SourceInv'
    BY <1>2, <1>11 DEF Answer, dbVars, SourceInv, Live, Charged, Releasing
  <2> QED BY <2>1, <2>2, <2>3
<1>12. ASSUME NEW r \in Requests, Commit(r) PROVE Rest'
  <2>1. MonthInv'
    BY <1>2, <1>12 DEF Commit, Forget, MonthInv, Releasing, Months
  <2>2. AnswerInv'
    BY <1>2, <1>12 DEF Commit, Forget, AnswerInv, Charged, Releasing
  <2>3. SourceInv'
    BY <1>2, <1>12 DEF Commit, Forget, SourceInv, Live, Charged, Releasing
  <2> QED BY <2>1, <2>2, <2>3
<1>13. ASSUME NEW r \in Requests, Rollback(r) PROVE Rest'
  <2>1. MonthInv'
    BY <1>2, <1>13 DEF Rollback, Forget, Uncharged, MonthInv, Releasing, Months
  <2>2. AnswerInv'
    BY <1>2, <1>13 DEF Rollback, Forget, Uncharged, AnswerInv, Charged, Releasing
  <2>3. SourceInv'
    BY <1>2, <1>13 DEF Rollback, Forget, Uncharged, SourceInv, Live, Charged, Releasing
  <2> QED BY <2>1, <2>2, <2>3
<1>14. ASSUME NEW r \in Requests, LoseConnection(r) PROVE Rest'
  <2>1. MonthInv'
    BY <1>2, <1>14 DEF LoseConnection, Forget, Uncharged, InFlight, MonthInv, Releasing, Months
  <2>2. AnswerInv'
    BY <1>2, <1>14 DEF LoseConnection, Forget, Uncharged, InFlight, AnswerInv, Charged, Releasing
  <2>3. SourceInv'
    BY <1>2, <1>14 DEF LoseConnection, Forget, Uncharged, InFlight, SourceInv, Live, Charged, Releasing
  <2> QED BY <2>1, <2>2, <2>3
<1>15. ASSUME NewMonth PROVE Rest'
  <2>1. MonthInv'
    BY <1>2, <1>15 DEF NewMonth, reqVars, MonthInv, Months, Releasing
  <2>2. AnswerInv'
    BY <1>2, <1>15 DEF NewMonth, reqVars, AnswerInv
  <2>3. SourceInv'
    BY <1>2, <1>15 DEF NewMonth, reqVars, SourceInv, Live
  <2> QED BY <2>1, <2>2, <2>3
<1>16. ASSUME NEW u \in Users, ChangePlan(u) PROVE Rest'
  BY <1>2, <1>16 DEF MonthInv, AnswerInv, SourceInv, ChangePlan, reqVars
<1>17. ASSUME NEW x \in Resumes, MakeMaster(x) PROVE Rest'
  <2>1. MonthInv'
    BY <1>2, <1>17 DEF MakeMaster, reqVars, MonthInv, Months, Releasing
  <2>2. AnswerInv'
    BY <1>2, <1>17 DEF MakeMaster, reqVars, AnswerInv
  <2>3. SourceInv'
    BY <1>2, <1>17 DEF MakeMaster, reqVars, SourceInv, Live
  <2> QED BY <2>1, <2>2, <2>3
<1>18. ASSUME NEW x \in Resumes, DeleteResume(x) PROVE Rest'
  <2>1. MonthInv'
    BY <1>2, <1>18 DEF DeleteResume, reqVars, MonthInv, Months, Releasing
  <2>2. AnswerInv'
    BY <1>2, <1>18 DEF DeleteResume, reqVars, AnswerInv
  <2>3. SourceInv'
    BY <1>2, <1>18 DEF DeleteResume, reqVars, SourceInv, Live, InFlight, Charged
  <2> QED BY <2>1, <2>2, <2>3
<1>19. ASSUME UNCHANGED vars PROVE Rest'
  BY <1>2, <1>19 DEF MonthInv, AnswerInv, SourceInv, vars
<1>20. Rest'
  BY <1>3, <1>4, <1>5, <1>6, <1>7, <1>8, <1>9, <1>10, <1>11, <1>12,
     <1>13, <1>14, <1>15, <1>16, <1>17, <1>18, <1>19 DEF Next, Progress
<1> QED BY <1>1, <1>20 DEF RequestInv

LEMMA RequestInvariant == Spec => []RequestInv
<1>1. RequestInv /\ [Next]_vars => RequestInv'
  BY RequestInvStep
<1> QED BY RequestInvInit, <1>1, PTL DEF Spec

\* A client that was told of an error was not charged; one that was told of a
\* success owns the tailored resume, unless its connection died first.
THEOREM AnswersMatchTheLedger == Spec => []AnswerMatchesLedger
<1>1. RequestInv => AnswerMatchesLedger
  BY DEF RequestInv, LedgerInv, AnswerInv, DoneInv, AnswerMatchesLedger
<1> QED BY RequestInvariant, <1>1, PTL

\* No circle of requests waiting for one another's counters: a request waits
\* either before it holds one, or for a later month than it holds.
THEOREM LocksAreOrdered == Spec => []LockOrder
<1>1. RequestInv => LockOrder
  <2> SUFFICES ASSUME RequestInv, NEW r \in Requests, NEW m \in Months,
                      lock[UserOf[r]][m] = r, Waiting(r)
               PROVE  pc[r] = "decrementing" /\ m < relPeriod[r]
    BY DEF LockOrder
  <2> USE DEF RequestInv, LedgerInv, TypeInv, TypeOK, Months
  <2>1. \/ pc[r] \in HoldsCounter /\ m = period[r]
        \/ pc[r] = "failing"
    BY DEF LockInv
  <2>2. pc[r] = "decrementing" /\ m = period[r] /\ ~LockFree(r, relPeriod[r])
    BY <2>1 DEF Waiting, HoldsCounter, Charged, Releasing
  <2>3. relPeriod[r] # period[r]
    BY <2>2 DEF LockFree
  <2>4. period[r] <= relPeriod[r]
    BY <2>2 DEF MonthInv, Releasing
  <2> QED BY <2>2, <2>3, <2>4
<1> QED BY RequestInvariant, <1>1, PTL

\* The source a stored TailoredResume names is a resume of its user that has
\* not been deleted.
THEOREM SourcesAreLive == Spec => []SourceResumeExists
<1>1. RequestInv => SourceResumeExists
  BY DEF RequestInv, LedgerInv, TypeInv, TypeOK, SourceInv, SourceResumeExists
<1> QED BY RequestInvariant, <1>1, PTL

-----------------------------------------------------------------------------
(***************************************************************************)
(* What RequestsEnd rests on, for every number of requests: who waits for  *)
(* a counter waits behind a request of the same user that need not wait;   *)
(* and every step of a request brings it nearer to its end.  Fairness and  *)
(* the leads-to itself are left to TLC.                                    *)
(***************************************************************************)
\* Request q has written a counter of user u, uncommitted.
Holds(q, u) == \E m \in Months : lock[u][m] = q

\* Everybody who waits for a counter waits, in the end, for a request under way
\* that can take its next step.
NoDeadWait ==
  \A r \in Requests : Waiting(r) =>
    \E q \in Requests :
      /\ UserOf[q] = UserOf[r] /\ Holds(q, UserOf[r])
      /\ pc[q] \in InFlight /\ ~Waiting(q)

\* Who waits is held up by another request of its user, which is past its upsert.
LEMMA WaitsForHolder ==
  ASSUME RequestInv, NEW r \in Requests, NEW m \in Months, ~LockFree(r, m)
  PROVE  \E q \in Requests \ {r} :
           /\ lock[UserOf[r]][m] = q /\ UserOf[q] = UserOf[r]
           /\ pc[q] \in HoldsCounter \cup {"failing"}
<1>1. TypeOK /\ LockInv
  BY DEF RequestInv, LedgerInv, TypeInv
<1>2. UserOf[r] \in Users
  OBVIOUS
<1>3. PICK q : q = lock[UserOf[r]][m]
  OBVIOUS
<1>4. q \in Requests \ {r}
  BY <1>1, <1>2, <1>3 DEF LockFree, TypeOK
<1>5. q # None
  BY <1>4
<1> QED BY <1>1, <1>2, <1>3, <1>4, <1>5 DEF LockInv

\* The requests of user u that wait for a second counter.
Seconds(u) == {q \in Requests : UserOf[q] = u /\ pc[q] = "decrementing" /\ Waiting(q)}

\* Of those that wait for a second counter, one waits for the latest month.
LEMMA LatestWaits ==
  ASSUME RequestInv, NEW u, Seconds(u) # {}
  PROVE  \E q \in Seconds(u) : \A p \in Seconds(u) : relPeriod[p] <= relPeriod[q]
<1> DEFINE T == {MaxMonth - relPeriod[q] : q \in Seconds(u)}
<1>1. \A q \in Seconds(u) : relPeriod[q] \in Nat /\ relPeriod[q] <= MaxMonth
  BY DEF RequestInv, LedgerInv, TypeInv, TypeOK, Months, Seconds
<1>2. T \subseteq Nat /\ T # {}
  <2>1. \A q \in Seconds(u) : MaxMonth - relPeriod[q] \in Nat
    BY <1>1
  <2> QED BY <2>1
<1>3. \E x \in T : \A y \in T : x <= y
  <2> HIDE DEF T
  <2> QED BY <1>2, LeastOf
<1>4. PICK q \in Seconds(u) : \A p \in Seconds(u) : MaxMonth - relPeriod[q] <= MaxMonth - relPeriod[p]
  BY <1>3
<1>5. ASSUME NEW p \in Seconds(u) PROVE relPeriod[p] <= relPeriod[q]
  BY <1>1, <1>4
<1> QED BY <1>4, <1>5

LEMMA SomebodyServes ==
  ASSUME RequestInv, LockOrder, NEW r \in Requests, Waiting(r)
  PROVE  \E q \in Requests :
           /\ UserOf[q] = UserOf[r] /\ Holds(q, UserOf[r])
           /\ pc[q] \in InFlight /\ ~Waiting(q)
<1> DEFINE u == UserOf[r]
<1>1. period[r] \in Months /\ relPeriod[r] \in Months
  BY DEF RequestInv, LedgerInv, TypeInv, TypeOK
\* Whoever holds a counter and waits, waits for a second one.
<1>2. ASSUME NEW q \in Requests, UserOf[q] = u, NEW m \in Months, lock[u][m] = q,
             pc[q] \in HoldsCounter \cup {"failing"}
      PROVE  \/ pc[q] \in InFlight /\ ~Waiting(q) /\ Holds(q, u)
             \/ q \in Seconds(u) /\ m < relPeriod[q]
  <2>1. pc[q] \in InFlight /\ Holds(q, u)
    BY <1>2 DEF InFlight, HoldsCounter, Holds
  <2>2. Waiting(q) => pc[q] = "decrementing" /\ m < relPeriod[q]
    BY <1>2 DEF LockOrder
  <2> QED BY <1>2, <2>1, <2>2 DEF Seconds
<1>3. CASE Seconds(u) = {}
  <2>1. PICK m \in Months : ~LockFree(r, m)
    BY <1>1 DEF Waiting
  <2>2. PICK q \in Requests :
          /\ lock[u][m] = q /\ UserOf[q] = u
          /\ pc[q] \in HoldsCounter \cup {"failing"}
    BY <2>1, WaitsForHolder
  <2> QED BY <1>2, <1>3, <2>2
<1>4. CASE Seconds(u) # {}
  <2>1. PICK q \in Seconds(u) : \A p \in Seconds(u) : relPeriod[p] <= relPeriod[q]
    BY <1>4, LatestWaits
  <2>2. /\ q \in Requests /\ UserOf[q] = u /\ relPeriod[q] \in Months
        /\ ~LockFree(q, relPeriod[q])
    BY <2>1 DEF Seconds, Waiting, RequestInv, LedgerInv, TypeInv, TypeOK
  <2>3. PICK p \in Requests :
          /\ lock[u][relPeriod[q]] = p /\ UserOf[p] = u
          /\ pc[p] \in HoldsCounter \cup {"failing"}
    BY <2>2, WaitsForHolder
  <2>4. ~ (p \in Seconds(u) /\ relPeriod[q] < relPeriod[p])
    <3>1. ASSUME p \in Seconds(u), relPeriod[q] < relPeriod[p] PROVE FALSE
      <4>1. relPeriod[p] <= relPeriod[q]
        BY <2>1, <3>1
      <4>2. relPeriod[p] \in Nat /\ relPeriod[q] \in Nat
        <5>1. relPeriod \in [Requests -> Months]
          BY DEF RequestInv, LedgerInv, TypeInv, TypeOK
        <5>2. relPeriod[p] \in Months /\ relPeriod[q] \in Months
          BY <2>2, <2>3, <5>1
        <5> QED BY <5>2 DEF Months
      <4> QED BY <3>1, <4>1, <4>2
    <3> QED BY <3>1
  <2> QED BY <1>2, <2>2, <2>3, <2>4
<1> QED BY <1>3, <1>4

\* A shot that waits for the counter always waits behind another of its user
\* that is not itself held up, the release_shot of another month included
\* (create_or_increment_usage, decrement_usage).
THEOREM WaitsAreServed == Spec => []NoDeadWait
<1>1. RequestInv /\ LockOrder => NoDeadWait
  BY SomebodyServes DEF NoDeadWait
<1> QED BY <1>1, RequestInvariant, LocksAreOrdered, PTL

\* The steps a request has left at most, its commit or rollback included.
StepsLeft ==
  [new |-> 9, authed |-> 8, charging |-> 7, charged |-> 6, ai |-> 5,
   releasing |-> 4, decrementing |-> 3, inserting |-> 4, inserted |-> 3,
   answered |-> 2, failing |-> 1, done |-> 0, failed |-> 0, lost |-> 0]

\* No request repeats a step, whatever other requests, the calendar, billing
\* and deletions do: there is no retry and no loop in POST /resumes/shoot.
NearsItsEnd ==
  [][\A r \in Requests :
       /\ pc'[r] # pc[r] => StepsLeft[pc'[r]] < StepsLeft[pc[r]]
       /\ Progress(r) => pc'[r] # pc[r]]_vars

LEMMA StepAdvances ==
  ASSUME TypeOK, NEW r \in Requests, Authenticate(r) \/ Progress(r) \/ LoseConnection(r)
  PROVE  /\ \A q \in Requests \ {r} : pc'[q] = pc[q]
         /\ pc'[r] # pc[r] /\ StepsLeft[pc'[r]] < StepsLeft[pc[r]]
<1> USE DEF Goto, StepsLeft
<1>0. pc \in [Requests -> Control]
  BY DEF TypeOK
<1>1. CASE Authenticate(r) \/ GetMaster(r) \/ Upsert(r)
  BY <1>0, <1>1 DEF Authenticate, GetMaster, Upsert
<1>2. CASE LoadResume(r) \/ AiReplies(r)
  BY <1>0, <1>2 DEF LoadResume, AiReplies, CallFails
<1>3. CASE ReadUsage(r) \/ Decrement(r)
  BY <1>0, <1>3 DEF ReadUsage, Decrement
<1>4. CASE InsertTailored(r) \/ Answer(r)
  BY <1>0, <1>4 DEF InsertTailored, Answer
<1>5. CASE Commit(r) \/ Rollback(r)
  BY <1>0, <1>5 DEF Commit, Rollback
<1>6. CASE LoseConnection(r)
  <2>1. pc[r] \in InFlight /\ pc' = [pc EXCEPT ![r] = "lost"]
    BY <1>6 DEF LoseConnection
  <2> QED BY <1>0, <2>1 DEF InFlight, Charged, Releasing
<1> QED BY <1>1, <1>2, <1>3, <1>4, <1>5, <1>6 DEF Progress

\* A request takes nine steps at most.
THEOREM RequestsNearTheirEnd == Spec => NearsItsEnd
<1> DEFINE Nears ==
      \A r \in Requests :
        /\ pc'[r] # pc[r] => StepsLeft[pc'[r]] < StepsLeft[pc[r]]
        /\ Progress(r) => pc'[r] # pc[r]
<1>1. ASSUME TypeOK, [Next]_vars PROVE [Nears]_vars
  <2>1. ASSUME NEW r \in Requests, Authenticate(r) \/ Progress(r) \/ LoseConnection(r)
        PROVE  Nears
    <3>1. \A q \in Requests : Progress(q) => pc'[q] # pc[q]
      BY <1>1, StepAdvances
    <3>2. \A q \in Requests : pc'[q] # pc[q] => StepsLeft[pc'[q]] < StepsLeft[pc[q]]
      BY <1>1, <2>1, StepAdvances
    <3> QED BY <3>1, <3>2
  <2>2. CASE \/ NewMonth \/ \E u \in Users : ChangePlan(u)
             \/ \E x \in Resumes : MakeMaster(x) \/ DeleteResume(x)
    <3>1. pc' = pc
      BY <2>2 DEF NewMonth, ChangePlan, MakeMaster, DeleteResume, reqVars
    <3>2. \A q \in Requests : Progress(q) => pc'[q] # pc[q]
      BY <1>1, StepAdvances
    <3> QED BY <3>1, <3>2
  <2> QED BY <1>1, <2>1, <2>2 DEF Next
<1> QED BY <1>1, TypeCorrect, PTL DEF Spec, NearsItsEnd
=============================================================================
