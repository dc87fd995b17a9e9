--------------------------- MODULE ResumesProofs ---------------------------
(***************************************************************************)
(* Proofs about module Resumes, for any set of requests and of resumes:    *)
(* its typing; that the partial unique index together with the row locks   *)
(* leaves a user one master resume at most, and never none by a swap; that *)
(* section rows belong to live resumes, with one summary at most; that an  *)
(* update that was not overtaken replaces exactly the sections it has;     *)
(* that waits and requests end; that commits follow MasterRegister.        *)
(***************************************************************************)
EXTENDS Resumes, FiniteSetTheorems, WellFoundedInduction, TLAPS

\* A set of naturals that is not empty has a least element.
LEMMA LeastOf ==
  ASSUME NEW T, T \subseteq Nat, T # {}
  PROVE  \E x \in T : \A y \in T : x <= y
<1> DEFINE R == {ss \in Nat \X Nat : ss[1] < ss[2]}
<1>1. IsWellFoundedOn(R, Nat)
  BY NatLessThanWellFounded DEF OpToRel
<1>2. \A a, b \in Nat : a < b => <<a, b>> \in R
  OBVIOUS
<1> HIDE DEF R
<1>3. PICK x \in T : \A y \in T : ~ (<<y, x>> \in R)
  BY <1>1, WFMin
<1>4. ASSUME NEW y \in T
      PROVE  x <= y
  <2>1. x \in Nat /\ y \in Nat
    OBVIOUS
  <2>2. ~ (<<y, x>> \in R)
    BY <1>3, <1>4
  <2>3. ~ (y < x)
    BY <1>2, <2>1, <2>2
  <2> QED BY <2>1, <2>3
<1> QED BY <1>4

USE ResumesAssumption

\* What a request may be asked to do.
LEMMA OpsFacts ==
  ASSUME NEW o \in Ops
  PROVE  /\ o.kind \in {"create", "put", "set", "delete"}
         /\ o.master \in BOOLEAN
         /\ o.fields \subseteq Kinds /\ Given(o) \subseteq o.fields
         /\ o.kind # "create" => ~o.master
  BY ResumesAssumption DEF Ops, Kinds, Given

----------------------------------------------------------------------------
(***************************************************************************)
(* The inductive invariant.                                                *)
(***************************************************************************)

\* The requests that are to end with the master flag: set_master, and create
\* with is_master.
Claims(r) == op[r].kind = "set" \/ op[r].master

\* Where a request stands fits what it does.
FlowInv ==
  \A r \in Requests :
    /\ pc[r] # "new" => op[r] \in Ops /\ on[r] \in Resumes
    /\ pc[r] \in {"scan", "unset", "claim"} => Claims(r)
    /\ pc[r] = "unset" => snap[r] \in Resumes
    /\ pc[r] = "load" => op[r].kind # "create"
    /\ pc[r] \in {"delete_rows", "wait_rows"} => op[r].kind = "put"
    /\ pc[r] = "delete" => op[r].kind = "delete"
    /\ pc[r] \in {"scan", "unset", "write", "claim"} => op[r].kind \in {"create", "set"}
    /\ pc[r] = "insert" => op[r].kind # "delete"

\* What a transaction may have written to a row, by what it does and how far
\* it is.
WriteInv ==
  \A r \in Requests, y \in Resumes : mine[r][y] # None =>
    /\ pc[r] \in {"write", "claim", "insert", "commit", "failing"}
    /\ mine[r][y] # "absent"
    /\ y # on[r] => mine[r][y] = "draft" /\ Claims(r) /\ flag[y] # "absent"
    /\ mine[r][y] = "deleted" => op[r].kind = "delete"
    /\ mine[r][y] = "claiming" => pc[r] \in {"claim", "failing"}
    /\ mine[r][y] = "master" => pc[r] \in {"insert", "commit", "failing"}
    /\ mine[r][y] = "draft" /\ y = on[r] =>
         IF Claims(r) THEN pc[r] \in {"write", "failing"} ELSE op[r].kind = "create"

\* A request that claims the flag has it once it is past the index, unless
\* set_master found nothing to do.
ClaimInv ==
  \A r \in Requests :
    /\ pc[r] = "claim" => mine[r][on[r]] = "claiming"
    /\ pc[r] \in {"insert", "commit"} /\ Claims(r) =>
         mine[r][on[r]] = "master" \/ \A y \in Resumes : mine[r][y] = None

\* A row is written by one open transaction at a time.
RowInv ==
  \A r, q \in Requests, y \in Resumes : mine[r][y] # None /\ mine[q][y] # None => r = q

\* The resume of an open creation is not committed and nobody else's.
FreshInv ==
  \A r \in Requests : pc[r] \in InFlight /\ op[r].kind = "create" =>
    /\ flag[on[r]] = "absent"
    /\ \A q \in Requests \ {r} : on[q] # on[r]

UniqueInv == \A x, y \in Resumes : flag[x] = "master" /\ flag[y] = "master" => x = y

\* Who has the index entry has unset every other master, and has it alone.
IndexInv ==
  \A r \in Requests, x \in Resumes : mine[r][x] = "master" =>
    /\ \A y \in Resumes \ {x} : flag[y] = "master" => mine[r][y] = "draft"
    /\ \A q \in Requests \ {r}, y \in Resumes : mine[q][y] # "master"

MasterInv ==
  /\ TypeOK
  /\ FlowInv
  /\ WriteInv
  /\ ClaimInv
  /\ RowInv
  /\ FreshInv
  /\ UniqueInv
  /\ IndexInv

----------------------------------------------------------------------------
\* The committed rows the model starts with have one master at most and nothing is
\* open.
LEMMA MasterInvInit == Init => MasterInv
<1> SUFFICES ASSUME Init PROVE MasterInv
  OBVIOUS
<1>1. TypeOK
  BY DEF Init, TypeOK, Flags, Row, Kinds, InFlight, Ended
<1>2. FlowInv /\ WriteInv /\ ClaimInv /\ RowInv /\ IndexInv
  BY DEF Init, FlowInv, WriteInv, ClaimInv, RowInv, IndexInv
<1>3. FreshInv
  BY DEF Init, FreshInv, InFlight
<1>4. UniqueInv
  <2> DEFINE M == {x \in Resumes : flag[x] = "master"}
  <2>1. IsFiniteSet(M) /\ Cardinality(M) <= 1
    <3>1. M \subseteq Existing
      BY DEF Init
    <3> QED BY <3>1, FS_Subset DEF Init
  <2>2. Cardinality(M) = 0 \/ Cardinality(M) = 1
    BY <2>1, FS_CardinalityType
  <2>3. M = {} \/ \E x : M = {x}
    BY <2>1, <2>2, FS_EmptySet, FS_Singleton
  <2> QED BY <2>3 DEF UniqueInv
<1> QED BY <1>1, <1>2, <1>3, <1>4 DEF MasterInv

\* Every step keeps the types.
LEMMA TypeStep ==
  ASSUME MasterInv, [Next]_vars
  PROVE  TypeOK'
<1> USE DEF TypeOK, InFlight, Ended, Goto, Fail
<1>0. TypeOK /\ FlowInv
  BY DEF MasterInv
<1>l. ASSUME NEW r \in Requests, NEW label \in InFlight, pc' = [pc EXCEPT ![r] = label]
      PROVE  pc' \in [Requests -> {"new"} \cup InFlight \cup Ended]
  BY <1>0, <1>l
<1>f. ASSUME NEW r \in Requests, NEW reason, Fail(r, reason),
             reason \in {"not_found", "stale_row", "unique_master", "unique_summary", "deadlock"}
      PROVE  why' \in [Requests -> {"none", "not_found", "stale_row", "unique_master",
                                    "unique_summary", "deadlock", "connection"}]
  BY <1>0, <1>f
<1>1. ASSUME NEW r \in Requests, Arrive(r) PROVE TypeOK'
  <2>1. PICK o \in Ops, x \in Resumes :
          /\ op' = [op EXCEPT ![r] = o]
          /\ on' = [on EXCEPT ![r] = x]
          /\ todo' = [todo EXCEPT ![r] = IF o.kind = "put" THEN o.fields ELSE {}]
          /\ pc' = [pc EXCEPT ![r] = IF o.kind # "create" THEN "load"
                                     ELSE IF o.master THEN "scan" ELSE "write"]
    BY <1>1 DEF Arrive
  <2>2. UNCHANGED <<flag, sect, snap, snapRows, mine, dels, adds, why, overlap>>
    BY <1>1 DEF Arrive
  <2>3. todo' \in [Requests -> SUBSET Kinds]
    BY <1>0, <2>1, OpsFacts
  <2> QED BY <1>0, <2>1, <2>2, <2>3
<1>2. ASSUME NEW r \in Requests, Load(r) PROVE TypeOK'
  <2>1. pc' \in [Requests -> {"new"} \cup InFlight \cup Ended]
    <3>1. \E label \in {"failing", "delete", "delete_rows", "commit", "scan"} : pc' = [pc EXCEPT ![r] = label]
      BY <1>2 DEF Load
    <3> QED BY <1>l, <3>1
  <2>2. why' \in [Requests -> {"none", "not_found", "stale_row", "unique_master",
                               "unique_summary", "deadlock", "connection"}]
    BY <1>0, <1>f, <1>2 DEF Load
  <2> QED BY <1>0, <1>2, <2>1, <2>2 DEF Load
<1>3. ASSUME NEW r \in Requests, ScanMaster(r) PROVE TypeOK'
  <2>1. snap' \in [Requests -> Resumes \cup {None}]
    <3>1. UNCHANGED snap \/ \E m \in Resumes : snap' = [snap EXCEPT ![r] = m]
      BY <1>3 DEF ScanMaster
    <3>2. snap \in [Requests -> Resumes \cup {None}]
      BY <1>0
    <3> QED BY <3>1, <3>2
  <2>2. pc' \in [Requests -> {"new"} \cup InFlight \cup Ended]
    BY <1>0, <1>3 DEF ScanMaster
  <2> QED BY <1>0, <1>3, <2>1, <2>2 DEF ScanMaster
<1>4. ASSUME NEW r \in Requests, UnsetMaster(r) PROVE TypeOK'
  <2>1. mine' \in [Requests -> [Resumes -> Flags \cup {"claiming", None}]]
    BY <1>0, <1>4 DEF UnsetMaster, Flags
  <2> QED BY <1>0, <1>4, <2>1 DEF UnsetMaster
<1>5. ASSUME NEW r \in Requests, WriteRow(r) PROVE TypeOK'
  <2>1. mine' \in [Requests -> [Resumes -> Flags \cup {"claiming", None}]]
    <3>1. CASE UNCHANGED mine
      BY <1>0, <3>1
    <3>2. CASE mine' = [mine EXCEPT ![r][on[r]] = "claiming"]
      BY <1>0, <3>2
    <3>3. CASE mine' = [mine EXCEPT ![r][on[r]] = "draft"]
      BY <1>0, <3>3 DEF Flags
    <3> QED BY <1>5, <3>1, <3>2, <3>3 DEF WriteRow
  <2>2. pc' \in [Requests -> {"new"} \cup InFlight \cup Ended]
    <3>1. \E label \in {"failing", "claim", "insert"} : pc' = [pc EXCEPT ![r] = label]
      BY <1>5 DEF WriteRow
    <3> QED BY <1>l, <3>1
  <2>3. why' \in [Requests -> {"none", "not_found", "stale_row", "unique_master",
                               "unique_summary", "deadlock", "connection"}]
    BY <1>0, <1>f, <1>5 DEF WriteRow
  <2> QED BY <1>0, <1>5, <2>1, <2>2, <2>3 DEF WriteRow
<1>6. ASSUME NEW r \in Requests, ClaimMaster(r) PROVE TypeOK'
  <2>1. mine' \in [Requests -> [Resumes -> Flags \cup {"claiming", None}]]
    <3>1. CASE UNCHANGED mine
      BY <1>0, <3>1
    <3>2. CASE mine' = [mine EXCEPT ![r][on[r]] = "master"]
      BY <1>0, <3>2 DEF Flags
    <3> QED BY <1>6, <3>1, <3>2 DEF ClaimMaster
  <2>2. pc' \in [Requests -> {"new"} \cup InFlight \cup Ended]
    <3>1. \E label \in {"failing", "insert", "commit"} : pc' = [pc EXCEPT ![r] = label]
      BY <1>6 DEF ClaimMaster
    <3> QED BY <1>l, <3>1
  <2>3. why' \in [Requests -> {"none", "not_found", "stale_row", "unique_master",
                               "unique_summary", "deadlock", "connection"}]
    BY <1>0, <1>f, <1>6 DEF ClaimMaster
  <2> QED BY <1>0, <1>6, <2>1, <2>2, <2>3 DEF ClaimMaster
<1>7. ASSUME NEW r \in Requests, DeleteSection(r) PROVE TypeOK'
  <2>1. on[r] \in Resumes
    BY <1>0, <1>7 DEF DeleteSection, FlowInv
  <2>2. Snapshot(r) \subseteq Row
    BY <1>0, <2>1 DEF Snapshot
  <2>3. dels' \in [Requests -> SUBSET Row] /\ snapRows' \in [Requests -> SUBSET Row]
    <3>1. CASE UNCHANGED snapRows /\ dels' = [dels EXCEPT ![r] = @ \cup Snapshot(r)]
      BY <1>0, <2>2, <3>1
    <3>2. CASE UNCHANGED dels /\ snapRows' = [snapRows EXCEPT ![r] = Snapshot(r)]
      BY <1>0, <2>2, <3>2
    <3> QED BY <1>7, <3>1, <3>2 DEF DeleteSection
  <2>4. todo' \in [Requests -> SUBSET Kinds]
    <3>1. UNCHANGED todo \/ todo' = [todo EXCEPT ![r] = @ \ {NextKind(r)}]
      BY <1>7 DEF DeleteSection
    <3>2. todo \in [Requests -> SUBSET Kinds]
      BY <1>0
    <3>3. ASSUME todo' = [todo EXCEPT ![r] = @ \ {NextKind(r)}] PROVE todo' \in [Requests -> SUBSET Kinds]
      <4>1. todo[r] \ {NextKind(r)} \in SUBSET Kinds
        BY <3>2
      <4> QED BY <3>2, <3>3, <4>1
    <3> QED BY <3>1, <3>2, <3>3
  <2>5. pc' \in [Requests -> {"new"} \cup InFlight \cup Ended]
    <3>1. UNCHANGED pc \/ pc' = [pc EXCEPT ![r] = "wait_rows"]
      BY <1>7 DEF DeleteSection
    <3> QED BY <1>0, <1>l, <3>1
  <2> QED BY <1>0, <1>7, <2>3, <2>4, <2>5 DEF DeleteSection
<1>8. ASSUME NEW r \in Requests, DeleteWaited(r) PROVE TypeOK'
  BY <1>0, <1>8 DEF DeleteWaited
<1>9. ASSUME NEW r \in Requests, AllDeleted(r) PROVE TypeOK'
  BY <1>0, <1>9 DEF AllDeleted
<1>10. ASSUME NEW r \in Requests, InsertSections(r) PROVE TypeOK'
  <2> DEFINE rows == {[by |-> r, kind |-> k] : k \in Given(op[r])}
  <2>1. op[r] \in Ops /\ Given(op[r]) \subseteq Kinds
    BY <1>0, <1>10, OpsFacts DEF InsertSections, FlowInv
  <2>2. rows \subseteq Row
    BY <2>1 DEF Row
  <2>3. adds' = adds \/ adds' = [adds EXCEPT ![r] = rows]
    BY <1>10 DEF InsertSections
  <2> HIDE DEF rows
  <2>4. adds' \in [Requests -> SUBSET Row]
    BY <1>0, <2>2, <2>3
  <2>5. pc' \in [Requests -> {"new"} \cup InFlight \cup Ended]
    <3>1. \E label \in {"failing", "commit"} : pc' = [pc EXCEPT ![r] = label]
      BY <1>10 DEF InsertSections
    <3> QED BY <1>l, <3>1
  <2>6. why' \in [Requests -> {"none", "not_found", "stale_row", "unique_master",
                               "unique_summary", "deadlock", "connection"}]
    BY <1>0, <1>f, <1>10 DEF InsertSections
  <2> QED BY <1>0, <1>10, <2>4, <2>5, <2>6 DEF InsertSections
<1>11. ASSUME NEW r \in Requests, DeleteResume(r) PROVE TypeOK'
  <2>1. on[r] \in Resumes
    BY <1>0, <1>11 DEF DeleteResume, FlowInv
  <2>2. mine' \in [Requests -> [Resumes -> Flags \cup {"claiming", None}]]
    BY <1>0, <1>11 DEF DeleteResume, Flags
  <2>3. dels' \in [Requests -> SUBSET Row]
    BY <1>0, <1>11, <2>1 DEF DeleteResume
  <2> QED BY <1>0, <1>11, <2>2, <2>3 DEF DeleteResume
<1>12. ASSUME NEW r \in Requests, DetectDeadlock(r) PROVE TypeOK'
  BY <1>0, <1>12 DEF DetectDeadlock
<1>13. ASSUME NEW r \in Requests, Commit(r) PROVE TypeOK'
  <2>1. \A y \in Resumes : mine[r][y] # None => mine[r][y] \in Flags
    <3>1. pc[r] = "commit" /\ WriteInv
      BY <1>13 DEF Commit, MasterInv
    <3>2. \A y \in Resumes : mine[r][y] # "claiming"
      BY <3>1 DEF WriteInv
    <3>3. \A y \in Resumes : mine[r][y] \in Flags \cup {"claiming", None}
      BY <1>0
    <3> QED BY <3>2, <3>3
  <2>2. flag' \in [Resumes -> Flags]
    BY <1>0, <1>13, <2>1 DEF Commit
  <2>3. on[r] \in Resumes
    BY <1>0, <1>13 DEF Commit, FlowInv
  <2>4. sect' \in [Resumes -> SUBSET Row]
    BY <1>0, <1>13, <2>3 DEF Commit
  <2>5. overlap' \in [Requests -> BOOLEAN]
    BY <1>0, <1>13 DEF Commit
  <2>6. mine' \in [Requests -> [Resumes -> Flags \cup {"claiming", None}]]
    BY <1>0, <1>13 DEF Commit, Forget
  <2> QED BY <1>0, <1>13, <2>2, <2>4, <2>5, <2>6 DEF Commit, Forget
<1>14. ASSUME NEW r \in Requests, Rollback(r) PROVE TypeOK'
  <2>1. mine' \in [Requests -> [Resumes -> Flags \cup {"claiming", None}]]
    BY <1>0, <1>14 DEF Rollback, Forget
  <2> QED BY <1>0, <1>14, <2>1 DEF Rollback, Forget
<1>15. ASSUME NEW r \in Requests, LoseConnection(r) PROVE TypeOK'
  <2>1. mine' \in [Requests -> [Resumes -> Flags \cup {"claiming", None}]]
    BY <1>0, <1>15 DEF LoseConnection, Forget
  <2> QED BY <1>0, <1>15, <2>1 DEF LoseConnection, Forget
<1>16. CASE UNCHANGED vars
  BY <1>0, <1>16 DEF vars
<1> QED
  BY <1>1, <1>2, <1>3, <1>4, <1>5, <1>6, <1>7, <1>8, <1>9, <1>10, <1>11, <1>12,
     <1>13, <1>14, <1>15, <1>16 DEF Next, Progress

\* Requests keep to the order of their statements.
LEMMA FlowStep ==
  ASSUME MasterInv, [Next]_vars
  PROVE  FlowInv'
<1> USE DEF FlowInv, Goto, Fail, Claims
<1>0. TypeOK /\ FlowInv
  BY DEF MasterInv
<1>1. ASSUME NEW r \in Requests, Arrive(r) PROVE FlowInv'
  <2>1. PICK o \in Ops, x \in Resumes :
          /\ op' = [op EXCEPT ![r] = o]
          /\ on' = [on EXCEPT ![r] = x]
          /\ pc' = [pc EXCEPT ![r] = IF o.kind # "create" THEN "load"
                                     ELSE IF o.master THEN "scan" ELSE "write"]
    BY <1>1 DEF Arrive
  <2>2. /\ op'[r] = o /\ on'[r] = x
        /\ pc'[r] = IF o.kind # "create" THEN "load" ELSE IF o.master THEN "scan" ELSE "write"
        /\ \A q \in Requests \ {r} : op'[q] = op[q] /\ on'[q] = on[q] /\ pc'[q] = pc[q]
        /\ UNCHANGED snap
    BY <1>0, <1>1, <2>1 DEF TypeOK, Arrive
  <2> QED BY <1>0, <2>2, OpsFacts
<1>2. ASSUME NEW r \in Requests, Load(r) PROVE FlowInv'
  <2>1. pc[r] = "load" /\ op[r] \in Ops /\ on[r] \in Resumes /\ op[r].kind # "create"
    BY <1>0, <1>2 DEF Load
  <2>2. op[r].kind \in {"put", "set", "delete"}
    BY <2>1, OpsFacts
  <2> QED BY <1>0, <1>2, <2>1, <2>2 DEF Load, TypeOK
<1>3. ASSUME NEW r \in Requests, ScanMaster(r) PROVE FlowInv'
  <2>1. pc[r] = "scan" /\ op[r] \in Ops /\ on[r] \in Resumes /\ Claims(r)
        /\ op[r].kind \in {"create", "set"}
    BY <1>0, <1>3 DEF ScanMaster
  <2>2. UNCHANGED <<op, on>> /\ \A q \in Requests \ {r} : snap'[q] = snap[q] /\ pc'[q] = pc[q]
    BY <1>0, <1>3 DEF ScanMaster, TypeOK
  <2>3. \/ pc'[r] = "unset" /\ snap'[r] \in Resumes
        \/ pc'[r] = "write"
    BY <1>0, <1>3 DEF ScanMaster, TypeOK
  <2> QED BY <1>0, <2>1, <2>2, <2>3
<1>4. ASSUME NEW r \in Requests, UnsetMaster(r) PROVE FlowInv'
  BY <1>0, <1>4 DEF UnsetMaster, TypeOK
<1>5. ASSUME NEW r \in Requests, WriteRow(r) PROVE FlowInv'
  <2>1. UNCHANGED <<op, on, snap>> /\ \A q \in Requests \ {r} : pc'[q] = pc[q]
    BY <1>0, <1>5 DEF WriteRow, TypeOK
  <2>2. pc[r] = "write" /\ pc'[r] \in {"failing", IF Claims(r) THEN "claim" ELSE "insert"}
    <3>1. \/ pc' = [pc EXCEPT ![r] = "failing"]
          \/ pc' = [pc EXCEPT ![r] = IF Claims(r) THEN "claim" ELSE "insert"]
      BY <1>5 DEF WriteRow
    <3> QED BY <1>0, <1>5, <3>1 DEF WriteRow, TypeOK
  <2> QED BY <1>0, <2>1, <2>2
<1>6. ASSUME NEW r \in Requests, ClaimMaster(r) PROVE FlowInv'
  <2>1. UNCHANGED <<op, on, snap>> /\ \A q \in Requests \ {r} : pc'[q] = pc[q]
    BY <1>0, <1>6 DEF ClaimMaster, TypeOK
  <2>2. /\ pc[r] = "claim"
        /\ pc'[r] \in {"failing", IF op[r].kind = "create" THEN "insert" ELSE "commit"}
    BY <1>0, <1>6 DEF ClaimMaster, TypeOK
  <2> QED BY <1>0, <2>1, <2>2
<1>7. ASSUME NEW r \in Requests, DeleteSection(r) PROVE FlowInv'
  BY <1>0, <1>7 DEF DeleteSection, TypeOK
<1>8. ASSUME NEW r \in Requests, DeleteWaited(r) PROVE FlowInv'
  BY <1>0, <1>8 DEF DeleteWaited, TypeOK
<1>9. ASSUME NEW r \in Requests, AllDeleted(r) PROVE FlowInv'
  BY <1>0, <1>9 DEF AllDeleted, TypeOK
<1>10. ASSUME NEW r \in Requests, InsertSections(r) PROVE FlowInv'
  <2>1. UNCHANGED <<op, on, snap>> /\ \A q \in Requests \ {r} : pc'[q] = pc[q]
    BY <1>0, <1>10 DEF InsertSections, TypeOK
  <2>2. pc[r] = "insert" /\ pc'[r] \in {"failing", "commit"}
    BY <1>0, <1>10 DEF InsertSections, TypeOK
  <2> QED BY <1>0, <2>1, <2>2
<1>11. ASSUME NEW r \in Requests, DeleteResume(r) PROVE FlowInv'
  BY <1>0, <1>11 DEF DeleteResume, TypeOK
<1>12. ASSUME NEW r \in Requests, DetectDeadlock(r) PROVE FlowInv'
  BY <1>0, <1>12 DEF DetectDeadlock, TypeOK, InFlight
<1>13. ASSUME NEW r \in Requests, Commit(r) PROVE FlowInv'
  BY <1>0, <1>13 DEF Commit, TypeOK
<1>14. ASSUME NEW r \in Requests, Rollback(r) PROVE FlowInv'
  BY <1>0, <1>14 DEF Rollback, TypeOK
<1>15. ASSUME NEW r \in Requests, LoseConnection(r) PROVE FlowInv'
  BY <1>0, <1>15 DEF LoseConnection, TypeOK, InFlight
<1>16. CASE UNCHANGED vars
  BY <1>0, <1>16 DEF vars
<1> QED
  BY <1>1, <1>2, <1>3, <1>4, <1>5, <1>6, <1>7, <1>8, <1>9, <1>10, <1>11, <1>12,
     <1>13, <1>14, <1>15, <1>16 DEF Next, Progress

\* What the transactions have written stays in step with their statements.
LEMMA WriteStep ==
  ASSUME MasterInv, [Next]_vars
  PROVE  WriteInv' /\ ClaimInv'
<1> USE DEF WriteInv, ClaimInv, Claims, Goto, Fail
<1>0. TypeOK /\ FlowInv /\ WriteInv /\ ClaimInv
  BY DEF MasterInv
<1>t. pc \in [Requests -> {"new"} \cup InFlight \cup Ended]
      /\ mine \in [Requests -> [Resumes -> Flags \cup {"claiming", None}]]
  BY <1>0 DEF TypeOK
\* Nothing is written before an UPDATE, INSERT or DELETE of a resume row.
<1>n. ASSUME NEW r \in Requests,
             pc[r] \in {"new", "load", "scan", "unset", "delete_rows", "wait_rows", "delete"}
      PROVE  \A y \in Resumes : mine[r][y] = None
  BY <1>0, <1>n
<1>1. ASSUME NEW r \in Requests, Arrive(r) PROVE WriteInv' /\ ClaimInv'
  <2>1. /\ \A y \in Resumes : mine[r][y] = None
        /\ pc'[r] \in {"load", "scan", "write"}
        /\ \A q \in Requests \ {r} : op'[q] = op[q] /\ on'[q] = on[q] /\ pc'[q] = pc[q]
        /\ UNCHANGED <<flag, mine>>
    <3>1. pc[r] = "new" /\ UNCHANGED <<flag, mine>>
      BY <1>1 DEF Arrive
    <3>2. PICK o \in Ops, x \in Resumes :
            /\ op' = [op EXCEPT ![r] = o]
            /\ on' = [on EXCEPT ![r] = x]
            /\ pc' = [pc EXCEPT ![r] = IF o.kind # "create" THEN "load"
                                       ELSE IF o.master THEN "scan" ELSE "write"]
      BY <1>1 DEF Arrive
    <3>3. /\ pc'[r] \in {"load", "scan", "write"}
          /\ \A q \in Requests \ {r} : op'[q] = op[q] /\ on'[q] = on[q] /\ pc'[q] = pc[q]
      BY <1>0, <3>2 DEF TypeOK
    <3> QED BY <1>n, <3>1, <3>3
  <2> QED BY <1>0, <2>1
<1>2. ASSUME NEW r \in Requests, Load(r) PROVE WriteInv' /\ ClaimInv'
  <2>1. /\ \A y \in Resumes : mine[r][y] = None
        /\ pc'[r] # "claim"
        /\ \A q \in Requests \ {r} : pc'[q] = pc[q]
        /\ UNCHANGED <<op, on, flag, mine>>
    <3>1. pc[r] = "load" /\ UNCHANGED <<op, on, flag, mine>>
      BY <1>2 DEF Load
    <3>2. \E label \in {"failing", "delete", "delete_rows", "commit", "scan"} :
            pc' = [pc EXCEPT ![r] = label]
      BY <1>2 DEF Load
    <3> QED BY <1>n, <1>t, <3>1, <3>2
  <2> QED BY <1>0, <2>1
<1>3. ASSUME NEW r \in Requests, ScanMaster(r) PROVE WriteInv' /\ ClaimInv'
  <2>1. /\ \A y \in Resumes : mine[r][y] = None
        /\ pc'[r] \in {"unset", "write"}
        /\ \A q \in Requests \ {r} : pc'[q] = pc[q]
        /\ UNCHANGED <<op, on, flag, mine>>
    <3>1. pc[r] = "scan" /\ UNCHANGED <<op, on, flag, mine>>
      BY <1>3 DEF ScanMaster
    <3>2. \E l \in {"unset", "write"} : pc' = [pc EXCEPT ![r] = l]
      BY <1>3 DEF ScanMaster
    <3> QED BY <1>n, <1>t, <3>1, <3>2
  <2> QED BY <1>0, <2>1
<1>4. ASSUME NEW r \in Requests, UnsetMaster(r) PROVE WriteInv' /\ ClaimInv'
  <2>1. /\ \A y \in Resumes : mine[r][y] = None
        /\ pc'[r] = "write" /\ Claims(r)
        /\ \A q \in Requests \ {r} : pc'[q] = pc[q] /\ mine'[q] = mine[q]
        /\ UNCHANGED <<op, on, flag>>
    <3>1. pc[r] = "unset" /\ pc' = [pc EXCEPT ![r] = "write"] /\ UNCHANGED <<op, on, flag>>
      BY <1>4 DEF UnsetMaster
    <3>2. mine' = mine \/ mine' = [mine EXCEPT ![r][snap[r]] = "draft"]
      BY <1>4 DEF UnsetMaster
    <3>3. Claims(r)
      BY <1>0, <3>1 DEF FlowInv
    <3> QED BY <1>n, <1>t, <3>1, <3>2, <3>3
  <2>2. \A y \in Resumes : mine'[r][y] # None => mine'[r][y] = "draft" /\ flag[y] = "master"
    BY <1>0, <1>4, <2>1 DEF UnsetMaster, TypeOK
  <2> QED BY <1>0, <2>1, <2>2
<1>5. ASSUME NEW r \in Requests, WriteRow(r) PROVE WriteInv' /\ ClaimInv'
  <2>1. /\ pc[r] = "write" /\ on[r] \in Resumes /\ op[r].kind \in {"create", "set"}
        /\ \A q \in Requests \ {r} : pc'[q] = pc[q] /\ mine'[q] = mine[q]
        /\ UNCHANGED <<op, on, flag>>
    BY <1>0, <1>5 DEF WriteRow, TypeOK, FlowInv
  <2>2. CASE pc' = [pc EXCEPT ![r] = "failing"] /\ UNCHANGED mine
    BY <1>0, <2>1, <2>2 DEF TypeOK
  <2>3. CASE Claims(r) /\ pc' = [pc EXCEPT ![r] = "claim"]
                       /\ mine' = [mine EXCEPT ![r][on[r]] = "claiming"]
    <3>1. pc'[r] = "claim" /\ mine'[r][on[r]] = "claiming"
          /\ \A y \in Resumes \ {on[r]} : mine'[r][y] = mine[r][y]
      BY <1>0, <2>1, <2>3 DEF TypeOK
    <3> QED BY <1>0, <2>1, <2>3, <3>1
  <2>4. CASE ~Claims(r) /\ pc' = [pc EXCEPT ![r] = "insert"]
                        /\ mine' = [mine EXCEPT ![r][on[r]] = "draft"]
    <3>1. pc'[r] = "insert" /\ mine'[r][on[r]] = "draft"
          /\ \A y \in Resumes \ {on[r]} : mine'[r][y] = mine[r][y]
      BY <1>0, <2>1, <2>4 DEF TypeOK
    <3> QED BY <1>0, <2>1, <2>4, <3>1
  <2> QED BY <1>5, <2>2, <2>3, <2>4 DEF WriteRow
<1>6. ASSUME NEW r \in Requests, ClaimMaster(r) PROVE WriteInv' /\ ClaimInv'
  <2>1. /\ pc[r] = "claim" /\ on[r] \in Resumes /\ op[r].kind \in {"create", "set"}
        /\ Claims(r) /\ mine[r][on[r]] = "claiming"
        /\ \A q \in Requests \ {r} : pc'[q] = pc[q] /\ mine'[q] = mine[q]
        /\ UNCHANGED <<op, on, flag>>
    BY <1>0, <1>6 DEF ClaimMaster, TypeOK, FlowInv
  <2>2. CASE pc' = [pc EXCEPT ![r] = "failing"] /\ UNCHANGED mine
    BY <1>0, <2>1, <2>2 DEF TypeOK
  <2>3. CASE mine' = [mine EXCEPT ![r][on[r]] = "master"]
             /\ pc' = [pc EXCEPT ![r] = IF op[r].kind = "create" THEN "insert" ELSE "commit"]
    <3>1. /\ pc'[r] \in {"insert", "commit"} /\ mine'[r][on[r]] = "master"
          /\ \A y \in Resumes \ {on[r]} : mine'[r][y] = mine[r][y]
      BY <1>0, <2>1, <2>3 DEF TypeOK
    <3> QED BY <1>0, <2>1, <2>3, <3>1
  <2> QED BY <1>6, <2>2, <2>3 DEF ClaimMaster
<1>7. ASSUME NEW r \in Requests, DeleteSection(r) \/ DeleteWaited(r) \/ AllDeleted(r)
      PROVE  WriteInv' /\ ClaimInv'
  <2>1. /\ \A y \in Resumes : mine[r][y] = None
        /\ pc'[r] \in {"delete_rows", "wait_rows", "insert"}
        /\ \A q \in Requests \ {r} : pc'[q] = pc[q]
        /\ UNCHANGED <<op, on, flag, mine>>
    <3>1. pc[r] \in {"delete_rows", "wait_rows"} /\ UNCHANGED <<op, on, flag, mine>>
      BY <1>7 DEF DeleteSection, DeleteWaited, AllDeleted
    <3>2. pc' = pc \/ \E l \in {"delete_rows", "wait_rows", "insert"} : pc' = [pc EXCEPT ![r] = l]
      BY <1>7 DEF DeleteSection, DeleteWaited, AllDeleted
    <3> QED BY <1>n, <1>t, <3>1, <3>2
  <2> QED BY <1>0, <2>1
<1>8. ASSUME NEW r \in Requests, InsertSections(r) PROVE WriteInv' /\ ClaimInv'
  <2>1. /\ pc[r] = "insert" /\ pc'[r] \in {"failing", "commit"}
        /\ \A q \in Requests \ {r} : pc'[q] = pc[q]
        /\ UNCHANGED <<op, on, flag, mine>>
    BY <1>0, <1>8 DEF InsertSections, TypeOK
  <2> QED BY <1>0, <2>1
<1>9. ASSUME NEW r \in Requests, DeleteResume(r) PROVE WriteInv' /\ ClaimInv'
  <2>1. /\ \A y \in Resumes : mine[r][y] = None
        /\ on[r] \in Resumes /\ op[r] \in Ops /\ op[r].kind = "delete"
        /\ pc'[r] = "commit"
        /\ \A q \in Requests \ {r} : pc'[q] = pc[q] /\ mine'[q] = mine[q]
        /\ UNCHANGED <<op, on, flag>>
    <3>1. pc[r] = "delete" /\ pc' = [pc EXCEPT ![r] = "commit"] /\ UNCHANGED <<op, on, flag>>
      BY <1>9 DEF DeleteResume
    <3>2. mine' = mine \/ mine' = [mine EXCEPT ![r][on[r]] = "deleted"]
      BY <1>9 DEF DeleteResume
    <3>3. on[r] \in Resumes /\ op[r] \in Ops /\ op[r].kind = "delete"
      BY <1>0, <3>1 DEF FlowInv
    <3> QED BY <1>n, <1>t, <3>1, <3>2, <3>3
  <2>2. ~Claims(r)
    BY <2>1, OpsFacts
  <2>3. \A y \in Resumes : mine'[r][y] # None => y = on[r] /\ mine'[r][y] = "deleted"
    BY <1>0, <1>9, <2>1 DEF DeleteResume, TypeOK
  <2> QED BY <1>0, <2>1, <2>2, <2>3
<1>10. ASSUME NEW r \in Requests, DetectDeadlock(r) PROVE WriteInv' /\ ClaimInv'
  <2>1. /\ pc'[r] = "failing"
        /\ \A q \in Requests \ {r} : pc'[q] = pc[q]
        /\ UNCHANGED <<op, on, flag, mine>>
    BY <1>0, <1>10 DEF DetectDeadlock, TypeOK
  <2> QED BY <1>0, <2>1
<1>11. ASSUME NEW r \in Requests, Commit(r) PROVE WriteInv' /\ ClaimInv'
  <2>1. /\ \A y \in Resumes : mine'[r][y] = None
        /\ pc'[r] = "done"
        /\ \A q \in Requests \ {r} : pc'[q] = pc[q] /\ mine'[q] = mine[q]
        /\ UNCHANGED <<op, on>>
    BY <1>0, <1>11 DEF Commit, Forget, TypeOK
  <2>2. \A y \in Resumes : flag[y] # "absent" => flag'[y] # "absent"
    BY <1>0, <1>11 DEF Commit
  <2> QED BY <1>0, <2>1, <2>2
<1>12. ASSUME NEW r \in Requests, Rollback(r) \/ LoseConnection(r)
       PROVE  WriteInv' /\ ClaimInv'
  <2>1. /\ \A y \in Resumes : mine'[r][y] = None
        /\ pc'[r] = "failed"
        /\ \A q \in Requests \ {r} : pc'[q] = pc[q] /\ mine'[q] = mine[q]
        /\ UNCHANGED <<op, on, flag>>
    BY <1>0, <1>12 DEF Rollback, LoseConnection, Forget, TypeOK
  <2> QED BY <1>0, <2>1
<1>13. CASE UNCHANGED vars
  BY <1>0, <1>13 DEF vars
<1> QED
  BY <1>1, <1>2, <1>3, <1>4, <1>5, <1>6, <1>7, <1>8, <1>9, <1>10, <1>11, <1>12,
     <1>13 DEF Next, Progress

\* An UPDATE, an INSERT and a DELETE wait for whoever wrote their row.
LEMMA RowStep ==
  ASSUME MasterInv, [Next]_vars
  PROVE  RowInv'
<1> USE DEF RowInv
<1>0. TypeOK /\ FlowInv /\ WriteInv /\ ClaimInv /\ RowInv
  BY DEF MasterInv
<1>1. CASE UNCHANGED mine
  BY <1>0, <1>1
<1>2. ASSUME NEW r \in Requests, NEW x \in Resumes, NEW v,
             \A q \in Requests \ {r} : mine[q][x] = None,
             mine' = [mine EXCEPT ![r][x] = v]
      PROVE  RowInv'
  <2>1. /\ \A y \in Resumes \ {x} : mine'[r][y] = mine[r][y]
        /\ \A q \in Requests \ {r} : mine'[q] = mine[q]
    BY <1>0, <1>2 DEF TypeOK
  <2> QED BY <1>0, <1>2, <2>1
<1>3. ASSUME NEW r \in Requests, Forget(r) PROVE RowInv'
  <2>1. /\ \A y \in Resumes : mine'[r][y] = None
        /\ \A q \in Requests \ {r} : mine'[q] = mine[q]
    BY <1>0, <1>3 DEF TypeOK, Forget
  <2> QED BY <1>0, <2>1
<1>4. ASSUME NEW r \in Requests, UnsetMaster(r) PROVE RowInv'
  <2>1. pc[r] = "unset" /\ Blockers(r) = {} /\ snap[r] \in Resumes
    BY <1>0, <1>4 DEF UnsetMaster, FlowInv
  <2>2. \A q \in Requests \ {r} : mine[q][snap[r]] = None
    BY <2>1 DEF Blockers
  <2>3. mine' = mine \/ mine' = [mine EXCEPT ![r][snap[r]] = "draft"]
    BY <1>4 DEF UnsetMaster
  <2> QED BY <1>1, <1>2, <2>1, <2>2, <2>3
<1>5. ASSUME NEW r \in Requests, WriteRow(r) PROVE RowInv'
  <2>1. pc[r] = "write" /\ Blockers(r) = {} /\ on[r] \in Resumes
    BY <1>0, <1>5 DEF WriteRow, FlowInv
  <2>2. \A q \in Requests \ {r} : mine[q][on[r]] = None
    BY <2>1 DEF Blockers
  <2>3. mine' = mine \/ \E v : mine' = [mine EXCEPT ![r][on[r]] = v]
    BY <1>5 DEF WriteRow
  <2> QED BY <1>1, <1>2, <2>1, <2>2, <2>3
<1>6. ASSUME NEW r \in Requests, ClaimMaster(r) PROVE RowInv'
  <2>1. on[r] \in Resumes /\ mine[r][on[r]] = "claiming"
    BY <1>0, <1>6 DEF ClaimMaster, FlowInv, ClaimInv
  <2>2. \A q \in Requests \ {r} : mine[q][on[r]] = None
    BY <1>0, <2>1
  <2>3. mine' = mine \/ mine' = [mine EXCEPT ![r][on[r]] = "master"]
    BY <1>6 DEF ClaimMaster
  <2> QED BY <1>1, <1>2, <2>1, <2>2, <2>3
<1>7. ASSUME NEW r \in Requests, DeleteResume(r) PROVE RowInv'
  <2>1. pc[r] = "delete" /\ Blockers(r) = {} /\ on[r] \in Resumes
    BY <1>0, <1>7 DEF DeleteResume, FlowInv
  <2>2. \A q \in Requests \ {r} : mine[q][on[r]] = None
    BY <2>1 DEF Blockers, Touches
  <2>3. mine' = mine \/ mine' = [mine EXCEPT ![r][on[r]] = "deleted"]
    BY <1>7 DEF DeleteResume
  <2> QED BY <1>1, <1>2, <2>1, <2>2, <2>3
<1>8. ASSUME NEW r \in Requests,
             \/ Arrive(r) \/ Load(r) \/ ScanMaster(r) \/ DeleteSection(r)
             \/ DeleteWaited(r) \/ AllDeleted(r) \/ InsertSections(r) \/ DetectDeadlock(r)
      PROVE  RowInv'
  BY <1>1, <1>8 DEF Arrive, Load, ScanMaster, DeleteSection, DeleteWaited, AllDeleted,
     InsertSections, DetectDeadlock
<1>9. ASSUME NEW r \in Requests, Commit(r) \/ Rollback(r) \/ LoseConnection(r)
      PROVE  RowInv'
  BY <1>3, <1>9 DEF Commit, Rollback, LoseConnection
<1>10. CASE UNCHANGED vars
  BY <1>1, <1>10 DEF vars
<1> QED
  BY <1>4, <1>5, <1>6, <1>7, <1>8, <1>9, <1>10 DEF Next, Progress

\* A fresh ULID stays the creator's own until its transaction has ended.
LEMMA FreshStep ==
  ASSUME MasterInv, [Next]_vars
  PROVE  FreshInv'
<1> USE DEF FreshInv
<1>0. TypeOK /\ FlowInv /\ WriteInv /\ FreshInv
  BY DEF MasterInv
<1>1. ASSUME NEW r \in Requests, pc[r] \in InFlight,
             \A q \in Requests \ {r} : pc'[q] = pc[q],
             UNCHANGED <<op, on, flag>>
      PROVE  FreshInv'
  BY <1>0, <1>1
<1>2. ASSUME NEW r \in Requests, Arrive(r) PROVE FreshInv'
  <2>1. PICK o \in Ops, x \in Resumes :
          /\ IF o.kind = "create"
             THEN flag[x] = "absent" /\ \A q \in Requests : on[q] # x
             ELSE flag[x] # "absent"
          /\ op' = [op EXCEPT ![r] = o]
          /\ on' = [on EXCEPT ![r] = x]
    BY <1>2 DEF Arrive
  <2>2. /\ op'[r] = o /\ on'[r] = x /\ UNCHANGED flag
        /\ \A q \in Requests \ {r} : op'[q] = op[q] /\ on'[q] = on[q] /\ pc'[q] = pc[q]
    BY <1>0, <1>2, <2>1 DEF Arrive, Goto, TypeOK
  <2> QED BY <1>0, <2>1, <2>2
<1>3. ASSUME NEW r \in Requests, Commit(r) PROVE FreshInv'
  <2>1. /\ pc'[r] = "done" /\ UNCHANGED <<op, on>>
        /\ \A q \in Requests \ {r} : pc'[q] = pc[q]
    BY <1>0, <1>3 DEF Commit, Goto, TypeOK
  <2>2. ASSUME NEW q \in Requests \ {r}, pc[q] \in InFlight, op[q].kind = "create"
        PROVE  flag'[on[q]] = "absent"
    <3>1. on[q] \in Resumes /\ flag[on[q]] = "absent" /\ on[r] # on[q]
      BY <1>0, <2>2 DEF FlowInv, InFlight
    <3>2. mine[r][on[q]] = None
      BY <1>0, <3>1 DEF WriteInv
    <3> QED BY <1>3, <3>1, <3>2 DEF Commit
  <2> QED BY <1>0, <2>1, <2>2 DEF InFlight
<1>4. ASSUME NEW r \in Requests, Progress(r) \/ LoseConnection(r), ~Commit(r)
      PROVE  FreshInv'
  <2>1. pc[r] \in InFlight /\ UNCHANGED <<op, on, flag>>
    BY <1>4 DEF Progress, Load, ScanMaster, UnsetMaster, WriteRow, ClaimMaster,
       DeleteSection, DeleteWaited, AllDeleted, InsertSections, DeleteResume,
       DetectDeadlock, Rollback, LoseConnection, InFlight
  <2>2. pc' = pc \/ \E l : pc' = [pc EXCEPT ![r] = l]
    BY <1>4 DEF Progress, Load, ScanMaster, UnsetMaster, WriteRow, ClaimMaster,
       DeleteSection, DeleteWaited, AllDeleted, InsertSections, DeleteResume,
       DetectDeadlock, Rollback, LoseConnection, Goto, Fail
  <2>3. \A q \in Requests \ {r} : pc'[q] = pc[q]
    BY <1>0, <2>2 DEF TypeOK
  <2> QED BY <1>1, <2>1, <2>3
<1>5. CASE UNCHANGED vars
  BY <1>0, <1>5 DEF vars
<1> QED
  BY <1>2, <1>3, <1>4, <1>5 DEF Next

\* The index: a claim waits for the transactions that may free or take the
\* master flag and fails on a committed master, so that a commit finds no other.
LEMMA IndexStep ==
  ASSUME MasterInv, [Next]_vars
  PROVE  UniqueInv' /\ IndexInv'
<1> USE DEF UniqueInv, IndexInv
<1>0. TypeOK /\ FlowInv /\ WriteInv /\ ClaimInv /\ RowInv /\ UniqueInv /\ IndexInv
  BY DEF MasterInv
<1>1. CASE UNCHANGED <<flag, mine>>
  BY <1>0, <1>1
\* What does not touch the flag of a master changes nothing.
<1>2. ASSUME NEW r \in Requests, NEW x \in Resumes, NEW v, v # "master",
             \A y \in Resumes : mine[r][y] # "master",
             mine' = [mine EXCEPT ![r][x] = v], UNCHANGED flag
      PROVE  UniqueInv' /\ IndexInv'
  <2>1. /\ \A y \in Resumes : mine'[r][y] # "master"
        /\ \A q \in Requests \ {r} : mine'[q] = mine[q]
    BY <1>0, <1>2 DEF TypeOK
  <2> QED BY <1>0, <1>2, <2>1
<1>3. ASSUME NEW r \in Requests, Forget(r), UNCHANGED flag PROVE UniqueInv' /\ IndexInv'
  <2>1. /\ \A y \in Resumes : mine'[r][y] = None
        /\ \A q \in Requests \ {r} : mine'[q] = mine[q]
    BY <1>0, <1>3 DEF TypeOK, Forget
  <2> QED BY <1>0, <1>3, <2>1
<1>4. ASSUME NEW r \in Requests, UnsetMaster(r) PROVE UniqueInv' /\ IndexInv'
  <2>1. pc[r] = "unset" /\ snap[r] \in Resumes /\ UNCHANGED flag
    BY <1>0, <1>4 DEF UnsetMaster, FlowInv
  <2>2. \A y \in Resumes : mine[r][y] # "master"
    BY <1>0, <2>1 DEF WriteInv
  <2>3. mine' = mine \/ mine' = [mine EXCEPT ![r][snap[r]] = "draft"]
    BY <1>4 DEF UnsetMaster
  <2>4. CASE UNCHANGED mine
    BY <1>1, <2>1, <2>4
  <2>5. CASE mine' = [mine EXCEPT ![r][snap[r]] = "draft"]
    BY <1>2, <2>1, <2>2, <2>5
  <2> QED BY <2>3, <2>4, <2>5
<1>5. ASSUME NEW r \in Requests, WriteRow(r) PROVE UniqueInv' /\ IndexInv'
  <2>1. pc[r] = "write" /\ on[r] \in Resumes /\ UNCHANGED flag
    BY <1>0, <1>5 DEF WriteRow, FlowInv
  <2>2. \A y \in Resumes : mine[r][y] # "master"
    BY <1>0, <2>1 DEF WriteInv
  <2>3. \/ mine' = mine
        \/ \E v \in {"claiming", "draft"} : mine' = [mine EXCEPT ![r][on[r]] = v]
    BY <1>5 DEF WriteRow
  <2>4. CASE UNCHANGED mine
    BY <1>1, <2>1, <2>4
  <2>5. ASSUME NEW v \in {"claiming", "draft"}, mine' = [mine EXCEPT ![r][on[r]] = v]
        PROVE  UniqueInv' /\ IndexInv'
    BY <1>2, <2>1, <2>2, <2>5
  <2> QED BY <2>3, <2>4, <2>5
<1>6. ASSUME NEW r \in Requests, ClaimMaster(r) PROVE UniqueInv' /\ IndexInv'
  <2> DEFINE x == on[r]
  <2>1. /\ pc[r] = "claim" /\ x \in Resumes /\ mine[r][x] = "claiming"
        /\ Blockers(r) = {} /\ UNCHANGED flag
    BY <1>0, <1>6 DEF ClaimMaster, FlowInv, ClaimInv
  <2>2. CASE UNCHANGED mine
    BY <1>1, <2>1, <2>2
  <2>3. CASE ~MasterTaken(r, x) /\ mine' = [mine EXCEPT ![r][x] = "master"]
    <3>1. /\ mine'[r][x] = "master"
          /\ \A y \in Resumes \ {x} : mine'[r][y] = mine[r][y]
          /\ \A q \in Requests \ {r} : mine'[q] = mine[q]
      BY <1>0, <2>1, <2>3 DEF TypeOK
    <3>2. \A y \in Resumes \ {x} : mine[r][y] # None => mine[r][y] = "draft"
      BY <1>0 DEF WriteInv
    <3>3. \A y \in Resumes \ {x} : flag[y] = "master" => mine[r][y] = "draft"
      BY <2>3, <3>2 DEF MasterTaken
    <3>4. \A q \in Requests \ {r} : ~MayFreeMaster(r, q)
      BY <2>1 DEF Blockers
    <3>5. \A q \in Requests \ {r}, y \in Resumes : mine[q][y] # "master"
      <4>1. \A q \in Requests \ {r} : mine[q][x] # "master"
        BY <1>0, <2>1 DEF RowInv
      <4>2. \A q \in Requests \ {r}, y \in Resumes \ {x} : mine[q][y] # "master"
        BY <3>4 DEF MayFreeMaster
      <4> QED BY <4>1, <4>2
    <3> QED BY <1>0, <2>1, <3>1, <3>2, <3>3, <3>5
  <2> QED BY <1>6, <2>2, <2>3 DEF ClaimMaster
<1>7. ASSUME NEW r \in Requests, DeleteResume(r) PROVE UniqueInv' /\ IndexInv'
  <2>1. pc[r] = "delete" /\ on[r] \in Resumes /\ UNCHANGED flag
    BY <1>0, <1>7 DEF DeleteResume, FlowInv
  <2>2. \A y \in Resumes : mine[r][y] # "master"
    BY <1>0, <2>1 DEF WriteInv
  <2>3. mine' = mine \/ mine' = [mine EXCEPT ![r][on[r]] = "deleted"]
    BY <1>7 DEF DeleteResume
  <2>4. CASE UNCHANGED mine
    BY <1>1, <2>1, <2>4
  <2>5. CASE mine' = [mine EXCEPT ![r][on[r]] = "deleted"]
    BY <1>2, <2>1, <2>2, <2>5
  <2> QED BY <2>3, <2>4, <2>5
<1>8. ASSUME NEW r \in Requests,
             \/ Arrive(r) \/ Load(r) \/ ScanMaster(r) \/ DeleteSection(r)
             \/ DeleteWaited(r) \/ AllDeleted(r) \/ InsertSections(r) \/ DetectDeadlock(r)
      PROVE  UniqueInv' /\ IndexInv'
  <2>1. UNCHANGED <<flag, mine>>
    BY <1>8 DEF Arrive, Load, ScanMaster, DeleteSection, DeleteWaited, AllDeleted,
       InsertSections, DetectDeadlock
  <2> QED BY <1>1, <2>1
<1>9. ASSUME NEW r \in Requests, Commit(r) PROVE UniqueInv' /\ IndexInv'
  <2>1. /\ \A y \in Resumes : mine'[r][y] = None
        /\ \A q \in Requests \ {r} : mine'[q] = mine[q]
    BY <1>0, <1>9 DEF TypeOK, Commit, Forget
  <2>2. \A y \in Resumes : flag'[y] = IF mine[r][y] = None THEN flag[y] ELSE mine[r][y]
    BY <1>9 DEF Commit
  <2>3. \A x \in Resumes : mine[r][x] = "master" => x = on[r]
    BY <1>0 DEF WriteInv
  <2>4. UniqueInv'
    <3>1. CASE \E x \in Resumes : mine[r][x] = "master"
      <4>1. PICK x \in Resumes : mine[r][x] = "master"
        BY <3>1
      <4>2. \A y \in Resumes \ {x} : flag'[y] # "master"
        BY <1>0, <2>2, <2>3, <4>1
      <4> QED BY <4>2
    <3>2. CASE \A x \in Resumes : mine[r][x] # "master"
      BY <1>0, <2>2, <3>2
    <3> QED BY <3>1, <3>2
  <2>5. IndexInv'
    <3> SUFFICES ASSUME NEW p \in Requests, NEW x \in Resumes, mine'[p][x] = "master"
                 PROVE  /\ \A y \in Resumes \ {x} : flag'[y] = "master" => mine'[p][y] = "draft"
                        /\ \A q \in Requests \ {p}, y \in Resumes : mine'[q][y] # "master"
      OBVIOUS
    <3>1. p # r /\ mine'[p] = mine[p] /\ mine[p][x] = "master"
      BY <2>1
    <3>2. \A y \in Resumes : mine[r][y] # "master"
      BY <1>0, <3>1
    <3>3. \A y \in Resumes \ {x} : flag'[y] = "master" => mine'[p][y] = "draft"
      BY <1>0, <2>2, <3>1, <3>2
    <3>4. \A q \in Requests \ {p}, y \in Resumes : mine'[q][y] # "master"
      BY <1>0, <2>1, <3>1
    <3> QED BY <3>3, <3>4
  <2> QED BY <2>4, <2>5
<1>10. ASSUME NEW r \in Requests, Rollback(r) \/ LoseConnection(r)
       PROVE  UniqueInv' /\ IndexInv'
  BY <1>3, <1>10 DEF Rollback, LoseConnection
<1>11. CASE UNCHANGED vars
  BY <1>1, <1>11 DEF vars
<1> QED
  BY <1>4, <1>5, <1>6, <1>7, <1>8, <1>9, <1>10, <1>11 DEF Next, Progress

\* The invariant is inductive.
LEMMA MasterInvStep == MasterInv /\ [Next]_vars => MasterInv'
  BY TypeStep, FlowStep, WriteStep, RowStep, FreshStep, IndexStep DEF MasterInv

\* MasterInv holds in every state of every behaviour.
THEOREM MasterInvariant == Spec => []MasterInv
  BY MasterInvInit, MasterInvStep, PTL DEF Spec

\* The rows, the open transactions and the requests keep their types
\* (resume_service, resume_repo).
THEOREM ResumesTyped == Spec => []TypeOK
<1>1. MasterInv => TypeOK
  BY DEF MasterInv
<1> QED BY <1>1, MasterInvariant, PTL

\* Whatever creates, swaps, deletions, failures and losses run at once, and
\* however many, a user has one committed master resume at most: the guarantee
\* ix_resume_master_per_user and the row locks give set_master and create.
THEOREM OneMaster == Spec => []AtMostOneMaster
<1>1. MasterInv => AtMostOneMaster
  <2> SUFFICES ASSUME MasterInv PROVE AtMostOneMaster
    OBVIOUS
  <2> DEFINE M == {x \in Resumes : flag[x] = "master"}
  <2>1. \A x, y \in M : x = y
    BY DEF MasterInv, UniqueInv
  <2>2. M = {} \/ \E x : M = {x}
    <3>1. CASE M # {}
      <4>1. PICK x : x \in M
        BY <3>1
      <4>2. M = {x}
        BY <2>1, <4>1
      <4> QED BY <4>2
    <3> QED BY <3>1
  <2>3. Cardinality(M) \in {0, 1}
    BY <2>2, FS_EmptySet, FS_Singleton
  <2> QED BY <2>3 DEF AtMostOneMaster
<1> QED BY <1>1, MasterInvariant, PTL

\* A swap never leaves a user without a master: a committed transaction that
\* takes the flag from its resume gives it to another, unless it deletes that
\* resume (ResumeService.create, set_master, delete).
THEOREM SwapsKeepAMaster == Spec => MasterSurvivesSwaps
<1> DEFINE Kept ==
      (\E x \in Resumes : flag[x] = "master") /\ (\A x \in Resumes : flag'[x] # "master")
       => \E r \in Requests :
            /\ pc[r] = "commit" /\ op[r].kind = "delete"
            /\ flag[on[r]] = "master" /\ flag'[on[r]] = "deleted"
<1>1. ASSUME MasterInv, [Next]_vars PROVE Kept
  <2> SUFFICES ASSUME NEW x \in Resumes, flag[x] = "master",
                      \A y \in Resumes : flag'[y] # "master"
               PROVE  \E r \in Requests :
                        /\ pc[r] = "commit" /\ op[r].kind = "delete"
                        /\ flag[on[r]] = "master" /\ flag'[on[r]] = "deleted"
    OBVIOUS
  <2>1. PICK r \in Requests : Commit(r)
    BY <1>1 DEF Next, Progress, vars, Arrive, Load, ScanMaster, UnsetMaster, WriteRow,
       ClaimMaster, DeleteSection, DeleteWaited, AllDeleted, InsertSections, DeleteResume,
       DetectDeadlock, Rollback, LoseConnection
  <2>2. /\ pc[r] = "commit"
        /\ \A y \in Resumes : flag'[y] = IF mine[r][y] = None THEN flag[y] ELSE mine[r][y]
    BY <2>1 DEF Commit
  <2>3. on[r] \in Resumes /\ op[r] \in Ops
    BY <1>1, <2>2 DEF MasterInv, FlowInv
  <2>4. mine[r][x] # None /\ \A y \in Resumes : mine[r][y] # "master"
    BY <1>1, <2>2 DEF MasterInv, WriteInv
  <2>5. ~Claims(r)
    BY <1>1, <2>2, <2>3, <2>4 DEF MasterInv, ClaimInv
  <2>6. x = on[r]
    BY <1>1, <2>4, <2>5 DEF MasterInv, WriteInv
  <2>7. mine[r][x] = "deleted"
    <3>1. mine[r][x] \in Flags \cup {"claiming", None}
      BY <1>1 DEF MasterInv, TypeOK
    <3>2. mine[r][x] # "absent" /\ mine[r][x] # "claiming"
      BY <1>1, <2>2, <2>4 DEF MasterInv, WriteInv
    <3>3. mine[r][x] = "draft" => op[r].kind = "create"
      BY <1>1, <2>4, <2>5, <2>6 DEF MasterInv, WriteInv
    <3>4. op[r].kind = "create" => flag[x] = "absent"
      BY <1>1, <2>2, <2>6 DEF MasterInv, FreshInv, InFlight
    <3> QED BY <2>4, <3>1, <3>2, <3>3, <3>4 DEF Flags
  <2>8. op[r].kind = "delete"
    BY <1>1, <2>4, <2>7 DEF MasterInv, WriteInv
  <2>9. flag[on[r]] = "master" /\ flag'[on[r]] = "deleted"
    BY <2>2, <2>4, <2>6, <2>7
  <2> QED BY <2>2, <2>8, <2>9
<1> QED BY <1>1, MasterInvariant, PTL DEF Spec, MasterSurvivesSwaps

-----------------------------------------------------------------------------
(***************************************************************************)
(* The inductive invariant about sections.                                 *)
(***************************************************************************)
\* The row of an open creation is written before its sections are.
CreateInv ==
  \A r \in Requests : pc[r] \in {"insert", "commit"} /\ op[r].kind = "create" =>
    mine[r][on[r]] \in {"draft", "master"}

\* Committed sections belong to a live resume, at most one of them a summary.
LiveInv ==
  \A x \in Resumes :
    /\ sect[x] # {} => flag[x] \in Live
    /\ \A s, t \in sect[x] : s.kind = "summary" /\ t.kind = "summary" => s = t

\* Pending rows are the payload of an update or a creation that has flushed;
\* nobody has deleted, nor is deleting, the resume of such an update.
AddsInv ==
  \A r \in Requests : adds[r] # {} =>
    /\ pc[r] \in {"commit", "failing"}
    /\ op[r].kind \in {"put", "create"}
    /\ \A s \in adds[r] : s.by = r
    /\ op[r].kind = "put" =>
         /\ flag[on[r]] \in Live
         /\ \A q \in Requests : mine[q][on[r]] # "deleted"

\* A pending deletion has deleted every section of its resume.
CascadeInv ==
  \A q \in Requests, x \in Resumes : mine[q][x] = "deleted" => sect[x] \subseteq dels[q]

\* A pending summary is the only one its resume will have.
SummaryInv ==
  \A r \in Requests : [by |-> r, kind |-> "summary"] \in adds[r] =>
    /\ \A s \in sect[on[r]] : s.kind = "summary" => s \in dels[r]
    /\ \A q \in Requests \ {r} :
         on[q] = on[r] => [by |-> q, kind |-> "summary"] \notin adds[q]

SectionInv ==
  /\ CreateInv
  /\ LiveInv
  /\ AddsInv
  /\ CascadeInv
  /\ SummaryInv

----------------------------------------------------------------------------
(***************************************************************************)
(* The steps that touch neither committed rows nor pending sections: all   *)
(* but InsertSections, DeleteResume and Commit.                            *)
(***************************************************************************)
SectionsStill ==
  /\ flag' = flag /\ sect' = sect
  /\ \A q \in Requests : adds'[q] # {} =>
       /\ adds'[q] = adds[q] /\ dels'[q] = dels[q]
       /\ on'[q] = on[q] /\ op'[q] = op[q]
       /\ pc'[q] \in {"commit", "failing"}
  /\ \A q \in Requests, x \in Resumes : mine'[q][x] = "deleted" =>
       mine[q][x] = "deleted" /\ dels'[q] = dels[q]

\* Such a step keeps all parts of the invariant but CreateInv.
LEMMA StillKeepsSections ==
  ASSUME MasterInv, SectionInv, SectionsStill
  PROVE  LiveInv' /\ AddsInv' /\ CascadeInv' /\ SummaryInv'
<1> USE DEF SectionInv, SectionsStill
<1>0. \A r \in Requests : adds[r] # {} => on[r] \in Resumes
  BY DEF AddsInv, MasterInv, FlowInv
<1>1. LiveInv'
  BY DEF LiveInv, Live
<1>2. AddsInv'
  BY <1>0 DEF AddsInv, Live
<1>3. CascadeInv'
  BY DEF CascadeInv
<1>4. SummaryInv'
  <2> SUFFICES ASSUME NEW r \in Requests, [by |-> r, kind |-> "summary"] \in adds'[r]
               PROVE  /\ \A s \in sect'[on'[r]] : s.kind = "summary" => s \in dels'[r]
                      /\ \A q \in Requests \ {r} :
                           on'[q] = on'[r] => [by |-> q, kind |-> "summary"] \notin adds'[q]
    BY DEF SummaryInv
  <2>1. /\ [by |-> r, kind |-> "summary"] \in adds[r]
        /\ on'[r] = on[r] /\ dels'[r] = dels[r]
    OBVIOUS
  <2>2. \A s \in sect[on[r]] : s.kind = "summary" => s \in dels[r]
    BY <2>1 DEF SummaryInv
  <2>3. ASSUME NEW q \in Requests \ {r}, on'[q] = on'[r],
               [by |-> q, kind |-> "summary"] \in adds'[q]
        PROVE  FALSE
    <3>1. [by |-> q, kind |-> "summary"] \in adds[q] /\ on[q] = on[r]
      BY <2>1, <2>3
    <3> QED BY <2>1, <3>1 DEF SummaryInv
  <2> QED BY <2>1, <2>2, <2>3
<1> QED BY <1>1, <1>2, <1>3, <1>4

\* The waits, the writes of the resume row and every way to end without a commit.
LEMMA QuietSteps ==
  ASSUME MasterInv, SectionInv, NEW r \in Requests,
         \/ Arrive(r) \/ Load(r) \/ ScanMaster(r) \/ UnsetMaster(r) \/ WriteRow(r)
         \/ ClaimMaster(r) \/ DeleteSection(r) \/ DeleteWaited(r) \/ AllDeleted(r)
         \/ DetectDeadlock(r) \/ Rollback(r) \/ LoseConnection(r)
  PROVE  SectionsStill
<1>1. TypeOK /\ FlowInv /\ WriteInv /\ AddsInv
  BY DEF MasterInv, SectionInv
<1>2. pc[r] \notin {"commit", "failing"} => adds[r] = {}
  BY <1>1 DEF AddsInv
<1> DEFINE Others ==
      /\ \A q \in Requests \ {r} :
           /\ adds'[q] = adds[q] /\ dels'[q] = dels[q] /\ mine'[q] = mine[q]
           /\ on'[q] = on[q] /\ op'[q] = op[q] /\ pc'[q] = pc[q]
      /\ flag' = flag /\ sect' = sect
           Own ==
      /\ adds'[r] # {} =>
           /\ adds'[r] = adds[r] /\ dels'[r] = dels[r]
           /\ on'[r] = on[r] /\ op'[r] = op[r]
           /\ pc'[r] \in {"commit", "failing"}
      /\ \A x \in Resumes : mine'[r][x] = "deleted" =>
           mine[r][x] = "deleted" /\ dels'[r] = dels[r]
<1>q. ASSUME Others, Own PROVE SectionsStill
  BY <1>1, <1>q DEF SectionsStill, AddsInv
<1> USE DEF TypeOK, Goto, Fail, Forget
<1>3. CASE Arrive(r)
  <2>1. Others
    BY <1>1, <1>3 DEF Arrive
  <2>2. adds'[r] = {} /\ mine' = mine /\ dels' = dels
    BY <1>1, <1>2, <1>3 DEF Arrive
  <2> QED BY <1>q, <2>1, <2>2
<1>4. CASE Load(r)
  <2>1. Others
    BY <1>1, <1>4 DEF Load
  <2>2. adds'[r] = {} /\ mine' = mine /\ dels' = dels
    BY <1>1, <1>2, <1>4 DEF Load
  <2> QED BY <1>q, <2>1, <2>2
<1>5. CASE ScanMaster(r)
  <2>1. Others
    BY <1>1, <1>5 DEF ScanMaster
  <2>2. adds'[r] = {} /\ mine' = mine /\ dels' = dels
    BY <1>1, <1>2, <1>5 DEF ScanMaster
  <2> QED BY <1>q, <2>1, <2>2
<1>6. CASE UnsetMaster(r)
  <2>1. Others
    BY <1>1, <1>6 DEF UnsetMaster
  <2>2. adds'[r] = {} /\ dels' = dels
    BY <1>1, <1>2, <1>6 DEF UnsetMaster
  <2>3. \A x \in Resumes : mine'[r][x] = "deleted" => mine[r][x] = "deleted"
    BY <1>1, <1>6 DEF UnsetMaster
  <2> QED BY <1>q, <2>1, <2>2, <2>3
<1>7. CASE WriteRow(r)
  <2>1. Others
    BY <1>1, <1>7 DEF WriteRow
  <2>2. adds'[r] = {} /\ dels' = dels
    BY <1>1, <1>2, <1>7 DEF WriteRow
  <2>3. \A x \in Resumes : mine'[r][x] = "deleted" => mine[r][x] = "deleted"
    BY <1>1, <1>7 DEF WriteRow
  <2> QED BY <1>q, <2>1, <2>2, <2>3
<1>8. CASE ClaimMaster(r)
  <2>1. Others
    BY <1>1, <1>8 DEF ClaimMaster
  <2>2. adds'[r] = {} /\ dels' = dels
    BY <1>1, <1>2, <1>8 DEF ClaimMaster
  <2>3. \A x \in Resumes : mine'[r][x] = "deleted" => mine[r][x] = "deleted"
    BY <1>1, <1>8 DEF ClaimMaster
  <2> QED BY <1>q, <2>1, <2>2, <2>3
<1>9. CASE DeleteSection(r) \/ DeleteWaited(r) \/ AllDeleted(r)
  <2>1. Others
    BY <1>1, <1>9 DEF DeleteSection, DeleteWaited, AllDeleted
  <2>2. adds'[r] = {} /\ mine' = mine
    BY <1>1, <1>2, <1>9 DEF DeleteSection, DeleteWaited, AllDeleted
  <2>3. \A x \in Resumes : mine[r][x] = None
    BY <1>1, <1>9 DEF DeleteSection, DeleteWaited, AllDeleted, WriteInv
  <2> QED BY <1>q, <2>1, <2>2, <2>3
<1>10. CASE DetectDeadlock(r)
  <2>1. Others
    BY <1>1, <1>10 DEF DetectDeadlock
  <2>2. /\ UNCHANGED <<adds, dels, mine, on, op>>
        /\ pc'[r] = "failing"
    BY <1>1, <1>10 DEF DetectDeadlock
  <2> QED BY <1>q, <2>1, <2>2
<1>11. CASE Rollback(r) \/ LoseConnection(r)
  <2>1. Others
    BY <1>1, <1>11 DEF Rollback, LoseConnection
  <2>2. adds'[r] = {} /\ \A x \in Resumes : mine'[r][x] = None
    BY <1>1, <1>11 DEF Rollback, LoseConnection
  <2> QED BY <1>q, <2>1, <2>2
<1> QED BY <1>3, <1>4, <1>5, <1>6, <1>7, <1>8, <1>9, <1>10, <1>11

\* An open creation that is past the INSERT of its row has the row.
LEMMA CreateStep ==
  ASSUME MasterInv, CreateInv, [Next]_vars
  PROVE  CreateInv'
<1>1. TypeOK /\ FlowInv
  BY DEF MasterInv
<1>r. ASSUME NEW r \in Requests,
             \A q \in Requests \ {r} : /\ mine'[q] = mine[q] /\ on'[q] = on[q]
                                       /\ op'[q] = op[q] /\ pc'[q] = pc[q],
             pc'[r] \in {"insert", "commit"} /\ op'[r].kind = "create"
               => mine'[r][on'[r]] \in {"draft", "master"}
      PROVE  CreateInv'
  BY <1>r DEF CreateInv
<1> USE DEF TypeOK, Goto, Fail, Forget
<1>2. ASSUME NEW r \in Requests, Arrive(r) PROVE CreateInv'
  <2>1. pc'[r] \notin {"insert", "commit"}
    BY <1>1, <1>2 DEF Arrive
  <2> QED BY <1>1, <1>2, <1>r, <2>1 DEF Arrive
<1>3. ASSUME NEW r \in Requests, Load(r) PROVE CreateInv'
  <2>1. op'[r].kind # "create"
    BY <1>1, <1>3 DEF Load, FlowInv
  <2>2. \A q \in Requests \ {r} : pc'[q] = pc[q]
    BY <1>1, <1>3 DEF Load
  <2> QED BY <1>3, <1>r, <2>1, <2>2 DEF Load
<1>4. ASSUME NEW r \in Requests, ScanMaster(r) PROVE CreateInv'
  <2>1. UNCHANGED <<mine, on, op>>
    BY <1>4 DEF ScanMaster
  <2>2. /\ \A q \in Requests \ {r} : pc'[q] = pc[q]
        /\ pc'[r] \notin {"insert", "commit"}
    BY <1>1, <1>4 DEF ScanMaster
  <2> QED BY <1>r, <2>1, <2>2
<1>5. ASSUME NEW r \in Requests, UnsetMaster(r) PROVE CreateInv'
  <2>1. \A q \in Requests \ {r} : mine'[q] = mine[q]
    BY <1>1, <1>5 DEF UnsetMaster
  <2>2. \A q \in Requests \ {r} : pc'[q] = pc[q]
    BY <1>1, <1>5 DEF UnsetMaster
  <2>3. pc'[r] = "write"
    BY <1>1, <1>5 DEF UnsetMaster
  <2> QED BY <1>5, <1>r, <2>1, <2>2, <2>3 DEF UnsetMaster
<1>6. ASSUME NEW r \in Requests, WriteRow(r) PROVE CreateInv'
  <2>1. on[r] \in Resumes
    BY <1>1, <1>6 DEF WriteRow, FlowInv
  <2>2. \A q \in Requests \ {r} : mine'[q] = mine[q] /\ pc'[q] = pc[q]
    BY <1>1, <1>6 DEF WriteRow
  <2>3. pc'[r] \in {"insert", "commit"} => mine'[r][on[r]] = "draft"
    BY <1>1, <1>6, <2>1 DEF WriteRow
  <2> QED BY <1>6, <1>r, <2>2, <2>3 DEF WriteRow
<1>7. ASSUME NEW r \in Requests, ClaimMaster(r) PROVE CreateInv'
  <2>1. on[r] \in Resumes
    BY <1>1, <1>7 DEF ClaimMaster, FlowInv
  <2>2. \A q \in Requests \ {r} : mine'[q] = mine[q] /\ pc'[q] = pc[q]
    BY <1>1, <1>7 DEF ClaimMaster
  <2>3. pc'[r] \in {"insert", "commit"} => mine'[r][on[r]] = "master"
    BY <1>1, <1>7, <2>1 DEF ClaimMaster
  <2> QED BY <1>7, <1>r, <2>2, <2>3 DEF ClaimMaster
<1>8. ASSUME NEW r \in Requests, DeleteSection(r) \/ DeleteWaited(r) \/ AllDeleted(r)
      PROVE  CreateInv'
  <2>1. op[r].kind = "put" /\ UNCHANGED <<mine, on, op>>
    BY <1>1, <1>8 DEF DeleteSection, DeleteWaited, AllDeleted, FlowInv
  <2>2. \A q \in Requests \ {r} : pc'[q] = pc[q]
    BY <1>1, <1>8 DEF DeleteSection, DeleteWaited, AllDeleted
  <2> QED BY <1>r, <2>1, <2>2
<1>9. ASSUME NEW r \in Requests, InsertSections(r) PROVE CreateInv'
  <2>1. pc[r] = "insert" /\ UNCHANGED <<mine, on, op>>
    BY <1>9 DEF InsertSections
  <2>2. \A q \in Requests \ {r} : pc'[q] = pc[q]
    BY <1>1, <1>9 DEF InsertSections
  <2> QED BY <1>r, <2>1, <2>2 DEF CreateInv
<1>10. ASSUME NEW r \in Requests, DeleteResume(r) PROVE CreateInv'
  <2>1. op[r].kind = "delete" /\ UNCHANGED <<on, op>>
    BY <1>1, <1>10 DEF DeleteResume, FlowInv
  <2>2. \A q \in Requests \ {r} : pc'[q] = pc[q]
    BY <1>1, <1>10 DEF DeleteResume
  <2>3. \A q \in Requests \ {r} : mine'[q] = mine[q]
    BY <1>1, <1>10 DEF DeleteResume
  <2> QED BY <1>r, <2>1, <2>2, <2>3
<1>11. ASSUME NEW r \in Requests,
              DetectDeadlock(r) \/ Commit(r) \/ Rollback(r) \/ LoseConnection(r)
       PROVE  CreateInv'
  <2>1. pc'[r] \notin {"insert", "commit"} /\ UNCHANGED <<on, op>>
    BY <1>1, <1>11 DEF DetectDeadlock, Commit, Rollback, LoseConnection
  <2>2. \A q \in Requests \ {r} : mine'[q] = mine[q] /\ pc'[q] = pc[q]
    BY <1>1, <1>11 DEF DetectDeadlock, Commit, Rollback, LoseConnection
  <2> QED BY <1>r, <2>1, <2>2
<1>12. CASE UNCHANGED vars
  BY <1>12 DEF vars, CreateInv
<1> QED
  BY <1>2, <1>3, <1>4, <1>5, <1>6, <1>7, <1>8, <1>9, <1>10, <1>11, <1>12
     DEF Next, Progress

----------------------------------------------------------------------------
(***************************************************************************)
(* The three steps that matter: the flush of pending sections, the         *)
(* deletion of a resume, and the commit.                                   *)
(***************************************************************************)
\* The flush waits for whoever deletes the resume or decides about its summary,
\* and refuses a second summary.
LEMMA InsertKeepsSections ==
  ASSUME MasterInv, SectionInv, NEW r \in Requests, InsertSections(r)
  PROVE  LiveInv' /\ AddsInv' /\ CascadeInv' /\ SummaryInv'
<1> DEFINE x == on[r]
           rows == {[by |-> r, kind |-> k] : k \in Given(op[r])}
<1>1. TypeOK /\ FlowInv /\ WriteInv /\ AddsInv /\ CascadeInv /\ SummaryInv /\ LiveInv
  BY DEF MasterInv, SectionInv
<1>2. /\ pc[r] = "insert" /\ Blockers(r) = {}
      /\ UNCHANGED <<flag, sect, op, on, mine, dels>>
  BY DEF InsertSections
<1>3. op[r] \in Ops /\ x \in Resumes /\ op[r].kind # "delete"
  BY <1>1, <1>2 DEF FlowInv
<1>4. CASE UNCHANGED adds /\ pc' = [pc EXCEPT ![r] = "failing"]
  <2>1. SectionsStill
    BY <1>1, <1>2, <1>4 DEF SectionsStill, AddsInv, TypeOK
  <2> QED BY <2>1, StillKeepsSections
<1>5. CASE /\ op[r].kind = "put" => flag[x] \in Live
           /\ ~("summary" \in Given(op[r]) /\ SummaryTaken(r))
           /\ adds' = [adds EXCEPT ![r] = rows]
           /\ pc' = [pc EXCEPT ![r] = "commit"]
  <2>1. adds'[r] = rows /\ pc'[r] = "commit"
    BY <1>1, <1>5 DEF TypeOK
  <2>2. \A q \in Requests \ {r} : adds'[q] = adds[q] /\ pc'[q] = pc[q]
    BY <1>1, <1>5 DEF TypeOK
  <2>3. \A s \in rows : s.by = r /\ s.kind \in Given(op[r])
    OBVIOUS
  <2>4. rows # {} => op[r].kind \in {"put", "create"}
    <3>1. rows # {} => op[r].fields # {}
      BY DEF Given
    <3> QED BY <1>3, <3>1 DEF Ops
  <2>5. \A q \in Requests : mine[q][x] # "deleted"
    <3>1. ASSUME NEW q \in Requests, mine[q][x] = "deleted" PROVE FALSE
      <4>1. q = r
        BY <1>2, <3>1 DEF Blockers
      <4>2. op[r].kind = "delete"
        BY <1>1, <1>3, <3>1, <4>1 DEF WriteInv
      <4> QED BY <1>3, <4>2
    <3> QED BY <3>1
  <2>6. "summary" \in Given(op[r]) =>
          /\ \A s \in sect[x] : s.kind = "summary" => s \in dels[r]
          /\ \A q \in Requests \ {r} :
               on[q] = x => [by |-> q, kind |-> "summary"] \notin adds[q]
    <3> SUFFICES ASSUME "summary" \in Given(op[r])
                 PROVE  /\ \A s \in sect[x] : s.kind = "summary" => s \in dels[r]
                        /\ \A q \in Requests \ {r} :
                             on[q] = x => [by |-> q, kind |-> "summary"] \notin adds[q]
      OBVIOUS
    <3>1. \A s \in sect[x] : s.kind = "summary" => s \in dels[r]
      BY <1>5 DEF SummaryTaken
    <3>2. \A q \in Requests \ {r} : ~MayFreeSummary(r, q)
      BY <1>2 DEF Blockers
    <3> QED BY <3>1, <3>2 DEF MayFreeSummary
  <2> HIDE DEF rows
  <2>7. LiveInv' /\ CascadeInv'
    BY <1>1, <1>2 DEF LiveInv, CascadeInv
  <2>8. AddsInv'
    BY <1>1, <1>2, <1>5, <2>1, <2>2, <2>3, <2>4, <2>5 DEF AddsInv
  <2>9. SummaryInv'
    <3>1. [by |-> r, kind |-> "summary"] \in rows => "summary" \in Given(op[r])
      BY <2>3
    <3>2. ASSUME NEW q \in Requests, [by |-> q, kind |-> "summary"] \in adds'[q]
          PROVE  /\ \A s \in sect[on[q]] : s.kind = "summary" => s \in dels[q]
                 /\ \A p \in Requests \ {q} :
                      on[p] = on[q] => [by |-> p, kind |-> "summary"] \notin adds'[p]
      <4>1. CASE q = r
        BY <2>1, <2>2, <2>6, <3>1, <3>2, <4>1
      <4>2. CASE q # r
        <5>1. [by |-> q, kind |-> "summary"] \in adds[q]
          BY <2>2, <3>2, <4>2
        <5>2. \A s \in sect[on[q]] : s.kind = "summary" => s \in dels[q]
          BY <1>1, <5>1 DEF SummaryInv
        <5>3. on[r] = on[q] => [by |-> r, kind |-> "summary"] \notin adds'[r]
          BY <2>1, <2>6, <3>1, <4>2, <5>1
        <5>4. \A p \in Requests \ {q, r} :
                on[p] = on[q] => [by |-> p, kind |-> "summary"] \notin adds'[p]
          BY <1>1, <2>2, <5>1 DEF SummaryInv
        <5> QED BY <5>2, <5>3, <5>4
      <4> QED BY <4>1, <4>2
    <3> QED BY <1>2, <3>2 DEF SummaryInv
  <2> QED BY <2>7, <2>8, <2>9
<1> QED BY <1>4, <1>5 DEF InsertSections, Goto, Fail

\* A delete gets to its resume only when nobody has sections pending on it,
\* and takes every committed one.
LEMMA DeleteKeepsSections ==
  ASSUME MasterInv, SectionInv, NEW r \in Requests, DeleteResume(r)
  PROVE  LiveInv' /\ AddsInv' /\ CascadeInv' /\ SummaryInv'
<1> DEFINE x == on[r]
<1>1. TypeOK /\ FlowInv /\ WriteInv /\ AddsInv /\ CascadeInv /\ SummaryInv /\ LiveInv
  BY DEF MasterInv, SectionInv
<1>2. /\ pc[r] = "delete" /\ Blockers(r) = {}
      /\ UNCHANGED <<flag, sect, op, on, adds>>
      /\ dels' = [dels EXCEPT ![r] = sect[x]]
      /\ pc' = [pc EXCEPT ![r] = "commit"]
      /\ mine' = mine \/ mine' = [mine EXCEPT ![r][x] = "deleted"]
  BY DEF DeleteResume, Goto
<1>3. x \in Resumes /\ op[r].kind = "delete" /\ adds[r] = {}
  BY <1>1, <1>2 DEF FlowInv, AddsInv
<1>4. \A q \in Requests : adds[q] # {} => on[q] # x
  BY <1>2, <1>3 DEF Blockers, Touches
<1>5. /\ \A q \in Requests \ {r} : dels'[q] = dels[q] /\ mine'[q] = mine[q] /\ pc'[q] = pc[q]
      /\ dels'[r] = sect[x]
      /\ \A y \in Resumes \ {x} : mine'[r][y] = mine[r][y]
  BY <1>1, <1>2, <1>3 DEF TypeOK
<1>6. LiveInv'
  BY <1>1, <1>2 DEF LiveInv
<1>7. AddsInv'
  <2> SUFFICES ASSUME NEW q \in Requests, adds[q] # {}
               PROVE  /\ pc'[q] \in {"commit", "failing"}
                      /\ op[q].kind \in {"put", "create"}
                      /\ \A s \in adds[q] : s.by = q
                      /\ op[q].kind = "put" =>
                           /\ flag[on[q]] \in Live
                           /\ \A p \in Requests : mine'[p][on[q]] # "deleted"
    BY <1>2 DEF AddsInv
  <2>1. q # r /\ on[q] # x /\ pc'[q] = pc[q]
    BY <1>3, <1>4, <1>5
  <2>2. on[q] \in Resumes
    BY <1>1, <2>1 DEF FlowInv, AddsInv
  <2>3. \A p \in Requests : mine'[p][on[q]] = mine[p][on[q]]
    BY <1>5, <2>1, <2>2
  <2> QED BY <1>1, <2>1, <2>3 DEF AddsInv
<1>8. CascadeInv'
  <2> SUFFICES ASSUME NEW q \in Requests, NEW y \in Resumes, mine'[q][y] = "deleted"
               PROVE  sect[y] \subseteq dels'[q]
    BY <1>2 DEF CascadeInv
  <2>1. CASE q # r
    BY <1>1, <1>5, <2>1 DEF CascadeInv
  <2>2. CASE q = r /\ y = x
    BY <1>5, <2>2
  <2>3. CASE q = r /\ y # x
    <3>1. mine[r][y] = "deleted"
      BY <1>5, <2>3
    <3> QED BY <1>1, <2>3, <3>1, ResumesAssumption DEF WriteInv
  <2> QED BY <2>1, <2>2, <2>3
<1>9. SummaryInv'
  BY <1>1, <1>2, <1>3, <1>5 DEF SummaryInv
<1> QED BY <1>6, <1>7, <1>8, <1>9

\* A commit makes what its transaction wrote the committed rows.
LEMMA CommitKeepsSections ==
  ASSUME MasterInv, SectionInv, NEW r \in Requests, Commit(r)
  PROVE  LiveInv' /\ AddsInv' /\ CascadeInv' /\ SummaryInv'
<1> DEFINE x == on[r]
<1>1. TypeOK /\ FlowInv /\ WriteInv /\ RowInv /\ FreshInv
  BY DEF MasterInv
<1>2. LiveInv /\ AddsInv /\ CascadeInv /\ SummaryInv /\ CreateInv
  BY DEF SectionInv
<1>3. /\ pc[r] = "commit" /\ UNCHANGED <<op, on>>
      /\ \A y \in Resumes : flag'[y] = IF mine[r][y] = None THEN flag[y] ELSE mine[r][y]
      /\ sect' = [sect EXCEPT ![x] = (sect[x] \ dels[r]) \cup adds[r]]
  BY DEF Commit
<1>4. /\ adds'[r] = {} /\ \A y \in Resumes : mine'[r][y] = None
      /\ \A q \in Requests \ {r} :
           /\ adds'[q] = adds[q] /\ mine'[q] = mine[q] /\ dels'[q] = dels[q] /\ pc'[q] = pc[q]
  BY <1>1 DEF Commit, Forget, Goto, TypeOK
<1>5. x \in Resumes /\ op[r] \in Ops
  BY <1>1, <1>3 DEF FlowInv
<1>6. /\ sect'[x] = (sect[x] \ dels[r]) \cup adds[r]
      /\ \A y \in Resumes \ {x} : sect'[y] = sect[y]
  BY <1>1, <1>3, <1>5 DEF TypeOK
<1>7. \A y \in Resumes : mine[r][y] \in {None, "draft", "master", "deleted"}
  <2>1. \A y \in Resumes : mine[r][y] \notin {"absent", "claiming"}
    BY <1>1, <1>3 DEF WriteInv
  <2>2. \A y \in Resumes : mine[r][y] \in Flags \cup {"claiming", None}
    BY <1>1 DEF TypeOK
  <2> QED BY <2>1, <2>2 DEF Flags
<1>8. \A y \in Resumes \ {x} : mine[r][y] \in {None, "draft"}
  BY <1>1 DEF WriteInv
<1>9. adds[r] # {} => flag'[x] \in Live
  <2> SUFFICES ASSUME adds[r] # {} PROVE flag'[x] \in Live
    OBVIOUS
  <2>1. op[r].kind \in {"put", "create"}
    BY <1>2 DEF AddsInv
  <2>2. CASE op[r].kind = "put"
    BY <1>2, <1>3, <1>5, <1>7, <2>2 DEF AddsInv, Live
  <2>3. CASE op[r].kind = "create"
    BY <1>2, <1>3, <1>5, <2>3, ResumesAssumption DEF CreateInv, Live
  <2> QED BY <2>1, <2>2, <2>3
<1>10. \A s \in adds[r] : s.by = r
  BY <1>2 DEF AddsInv
<1>11. \A s \in adds[r] : s = [by |-> r, kind |-> s.kind]
  BY <1>1, <1>10 DEF TypeOK, Row
<1>12. LiveInv'
  <2> SUFFICES ASSUME NEW y \in Resumes
               PROVE  /\ sect'[y] # {} => flag'[y] \in Live
                      /\ \A s, t \in sect'[y] :
                           s.kind = "summary" /\ t.kind = "summary" => s = t
    BY DEF LiveInv
  <2>1. CASE y # x
    BY <1>2, <1>3, <1>6, <1>8, <2>1 DEF LiveInv, Live
  <2>2. CASE y = x
    <3>1. sect[x] \ dels[r] # {} => flag'[x] \in Live
      <4>1. mine[r][x] # "deleted" => (sect[x] # {} => flag'[x] \in Live)
        BY <1>2, <1>3, <1>5, <1>7 DEF LiveInv, Live
      <4>2. mine[r][x] = "deleted" => sect[x] \subseteq dels[r]
        BY <1>2, <1>5 DEF CascadeInv
      <4> QED BY <4>1, <4>2
    <3>2. ASSUME NEW s \in sect'[x], NEW t \in sect'[x],
                 s.kind = "summary", t.kind = "summary"
          PROVE  s = t
      <4>1. CASE s \in adds[r] /\ t \in adds[r]
        BY <1>11, <3>2, <4>1
      <4>2. CASE s \in sect[x] /\ t \in sect[x]
        BY <1>2, <1>5, <3>2, <4>2 DEF LiveInv
      <4>3. ASSUME NEW a \in adds[r], NEW b \in sect[x] \ dels[r],
                   a.kind = "summary", b.kind = "summary"
            PROVE  FALSE
        BY <1>2, <1>11, <4>3 DEF SummaryInv
      <4> QED BY <1>6, <3>2, <4>1, <4>2, <4>3
    <3> QED BY <1>6, <1>9, <2>2, <3>1, <3>2
  <2> QED BY <2>1, <2>2
<1>13. AddsInv'
  <2> SUFFICES ASSUME NEW q \in Requests, adds'[q] # {}
               PROVE  /\ pc'[q] \in {"commit", "failing"}
                      /\ op[q].kind \in {"put", "create"}
                      /\ \A s \in adds'[q] : s.by = q
                      /\ op[q].kind = "put" =>
                           /\ flag'[on[q]] \in Live
                           /\ \A p \in Requests : mine'[p][on[q]] # "deleted"
    BY <1>3 DEF AddsInv
  <2>1. q # r /\ adds[q] # {} /\ adds'[q] = adds[q] /\ pc'[q] = pc[q]
    BY <1>4
  <2>2. on[q] \in Resumes
    BY <1>1, <1>2, <2>1 DEF FlowInv, AddsInv
  <2>3. ASSUME op[q].kind = "put"
        PROVE  flag'[on[q]] \in Live /\ \A p \in Requests : mine'[p][on[q]] # "deleted"
    <3>1. flag[on[q]] \in Live /\ \A p \in Requests : mine[p][on[q]] # "deleted"
      BY <1>2, <2>1, <2>3 DEF AddsInv
    <3>2. flag'[on[q]] \in Live
      BY <1>3, <1>7, <2>2, <3>1 DEF Live
    <3>3. \A p \in Requests : mine'[p][on[q]] # "deleted"
      BY <1>4, <2>2, <3>1, ResumesAssumption
    <3> QED BY <3>2, <3>3
  <2> QED BY <1>2, <2>1, <2>3 DEF AddsInv
<1>14. CascadeInv'
  <2> SUFFICES ASSUME NEW q \in Requests, NEW y \in Resumes, mine'[q][y] = "deleted"
               PROVE  sect'[y] \subseteq dels'[q]
    BY DEF CascadeInv
  <2>1. q # r /\ mine[q][y] = "deleted" /\ dels'[q] = dels[q]
    BY <1>4, ResumesAssumption
  <2>2. sect[y] \subseteq dels[q]
    BY <1>2, <2>1 DEF CascadeInv
  <2>3. y = x => adds[r] = {}
    <3> SUFFICES ASSUME y = x, adds[r] # {} PROVE FALSE
      OBVIOUS
    <3>1. op[r].kind = "create"
      BY <1>2, <2>1 DEF AddsInv
    <3>2. y = on[q]
      BY <1>1, <2>1, ResumesAssumption DEF WriteInv
    <3> QED BY <1>1, <1>3, <2>1, <3>1, <3>2 DEF FreshInv, InFlight
  <2> QED BY <1>6, <2>1, <2>2, <2>3
<1>15. SummaryInv'
  <2> SUFFICES ASSUME NEW q \in Requests, [by |-> q, kind |-> "summary"] \in adds'[q]
               PROVE  /\ \A s \in sect'[on[q]] : s.kind = "summary" => s \in dels'[q]
                      /\ \A p \in Requests \ {q} :
                           on[p] = on[q] => [by |-> p, kind |-> "summary"] \notin adds'[p]
    BY <1>3 DEF SummaryInv
  <2>1. q # r /\ [by |-> q, kind |-> "summary"] \in adds[q] /\ dels'[q] = dels[q]
    BY <1>4
  <2>2. on[q] \in Resumes
    BY <1>1, <1>2, <2>1 DEF FlowInv, AddsInv
  <2>3. /\ \A s \in sect[on[q]] : s.kind = "summary" => s \in dels[q]
        /\ \A p \in Requests \ {q} :
             on[p] = on[q] => [by |-> p, kind |-> "summary"] \notin adds[p]
    BY <1>2, <2>1 DEF SummaryInv
  <2>4. \A p \in Requests \ {q} :
          on[p] = on[q] => [by |-> p, kind |-> "summary"] \notin adds'[p]
    BY <1>4, <2>3
  <2>5. ASSUME NEW s \in sect'[on[q]], s.kind = "summary" PROVE s \in dels[q]
    <3>1. CASE s \in sect[on[q]]
      BY <2>3, <2>5, <3>1
    <3>2. CASE s \notin sect[on[q]]
      <4>1. on[q] = x /\ s \in adds[r]
        BY <1>6, <2>2, <2>5, <3>2
      <4>2. s = [by |-> r, kind |-> "summary"]
        BY <1>11, <2>5, <4>1
      <4> QED BY <2>1, <2>3, <4>1, <4>2
    <3> QED BY <3>1, <3>2
  <2> QED BY <2>1, <2>4, <2>5
<1> QED BY <1>12, <1>13, <1>14, <1>15

----------------------------------------------------------------------------
\* The rows the model starts with: one of each kind per resume.
LEMMA SectionInvInit == Init => SectionInv
<1> SUFFICES ASSUME Init PROVE SectionInv
  OBVIOUS
<1>1. CreateInv /\ AddsInv /\ SummaryInv
  BY DEF Init, CreateInv, AddsInv, SummaryInv
<1>2. CascadeInv
  BY ResumesAssumption DEF Init, CascadeInv
<1>3. ASSUME NEW x \in Resumes
      PROVE  /\ sect[x] # {} => flag[x] \in Live
             /\ \A s, t \in sect[x] : s.kind = "summary" /\ t.kind = "summary" => s = t
  <2>1. sect[x] # {} => flag[x] \in Live
    BY DEF Init, Live
  <2>2. ASSUME NEW s \in sect[x] PROVE s = [by |-> None, kind |-> s.kind]
    BY <2>2 DEF Init
  <2> QED BY <2>1, <2>2
<1>4. LiveInv
  BY <1>3 DEF LiveInv
<1> QED BY <1>1, <1>2, <1>4 DEF SectionInv

LEMMA SectionInvStep ==
  ASSUME MasterInv, SectionInv, [Next]_vars
  PROVE  SectionInv'
<1>1. CreateInv'
  BY CreateStep DEF SectionInv
<1>2. LiveInv' /\ AddsInv' /\ CascadeInv' /\ SummaryInv'
  <2>1. CASE UNCHANGED vars
    BY <2>1 DEF vars, SectionInv, LiveInv, AddsInv, CascadeInv, SummaryInv
  <2>2. CASE Next
    BY <2>2, QuietSteps, StillKeepsSections, InsertKeepsSections, DeleteKeepsSections,
       CommitKeepsSections DEF Next, Progress
  <2> QED BY <2>1, <2>2
<1> QED BY <1>1, <1>2 DEF SectionInv

LEMMA SectionInvariant == Spec => [](MasterInv /\ SectionInv)
<1>1. Init => MasterInv /\ SectionInv
  BY MasterInvInit, SectionInvInit
<1>2. MasterInv /\ SectionInv /\ [Next]_vars => (MasterInv /\ SectionInv)'
  BY MasterInvStep, SectionInvStep
<1> QED BY <1>1, <1>2, PTL DEF Spec

\* However updates, creations and deletions of a resume interleave, fail or
\* are lost, no section row is left without a live resume and no resume gets a
\* second summary.
THEOREM SectionsStayWithTheirResume == Spec => []SectionsBelong
<1>1. ASSUME MasterInv, SectionInv PROVE SectionsBelong
  <2> SUFFICES ASSUME NEW x \in Resumes
               PROVE  /\ sect[x] # {} => flag[x] \in Live
                      /\ Cardinality({s \in sect[x] : s.kind = "summary"}) <= 1
    BY DEF SectionsBelong
  <2> DEFINE S == {s \in sect[x] : s.kind = "summary"}
  <2>1. LiveInv
    BY <1>1 DEF SectionInv
  <2>2. \A s, t \in S : s = t
    BY <2>1 DEF LiveInv
  <2>3. S = {} \/ \E s : S = {s}
    BY <2>2
  <2>4. Cardinality(S) = 0 \/ Cardinality(S) = 1
    <3> HIDE DEF S
    <3>1. CASE S = {}
      BY <3>1, FS_EmptySet
    <3>2. CASE \E s : S = {s}
      BY <3>2, FS_Singleton
    <3> QED BY <2>3, <3>1, <3>2
  <2>5. Cardinality(S) <= 1
    BY <2>4
  <2> QED BY <2>1, <2>5 DEF LiveInv
<1> QED BY <1>1, SectionInvariant, PTL

----------------------------------------------------------------------------
(***************************************************************************)
(* Updates.  That an update leaves exactly its payload behind needs to     *)
(* know, at every point, which sections it has deleted so far, and that a  *)
(* DELETE that had to wait took its snapshot of the same rows.             *)
(***************************************************************************)
Updating(r) ==
  /\ pc[r] \in {"delete_rows", "wait_rows", "insert", "commit"}
  /\ op[r].kind = "put"

\* The rows of the sections ks of the resume r works on.
RowsOf(r, ks) == {s \in sect[on[r]] : s.kind \in ks}

Swept(r) ==
  /\ todo[r] \subseteq op[r].fields
  /\ pc[r] = "wait_rows" => todo[r] # {}
  /\ pc[r] \in {"insert", "commit"} => todo[r] = {}
  /\ pc[r] = "commit" => adds[r] = {[by |-> r, kind |-> k] : k \in Given(op[r])}
  /\ ~overlap[r] => dels[r] = RowsOf(r, op[r].fields \ todo[r])
  /\ ~overlap[r] /\ pc[r] = "wait_rows" => snapRows[r] = RowsOf(r, {NextKind(r)})

PutFacts(r) ==
  /\ pc[r] \in {"new", "load"} => dels[r] = {}
  /\ pc[r] = "load" /\ op[r].kind = "put" => todo[r] = op[r].fields
  /\ Updating(r) => Swept(r)

PutInv == \A r \in Requests : PutFacts(r)

\* A step of another request changes nothing for an update, or overtakes it.
LEMMA PutFrame ==
  ASSUME NEW q \in Requests, PutFacts(q),
         pc'[q] = pc[q], op'[q] = op[q], on'[q] = on[q], todo'[q] = todo[q],
         dels'[q] = dels[q], adds'[q] = adds[q], snapRows'[q] = snapRows[q],
         overlap[q] => overlap'[q],
         Updating(q) /\ ~overlap'[q] => sect'[on[q]] = sect[on[q]]
  PROVE  PutFacts(q)'
<1>1. NextKind(q)' = NextKind(q)
  BY DEF NextKind
<1>2. Updating(q)' <=> Updating(q)
  BY DEF Updating
<1>3. Updating(q) => Swept(q)'
  BY <1>1 DEF PutFacts, Swept, RowsOf
<1> QED BY <1>2, <1>3 DEF PutFacts

\* The next section to be deleted is one of those still to be deleted.
LEMMA NextKindIsDue ==
  ASSUME NEW r \in Requests, todo[r] \subseteq Kinds, todo[r] # {}
  PROVE  NextKind(r) \in todo[r]
  BY DEF NextKind, Kinds

\* A DELETE takes one section from what is left to delete.
LEMMA SweepOne ==
  ASSUME NEW r \in Requests, NEW fields, NEW k \in todo[r], todo[r] \subseteq fields
  PROVE  RowsOf(r, fields \ todo[r]) \cup RowsOf(r, {k}) = RowsOf(r, fields \ (todo[r] \ {k}))
  BY DEF RowsOf

\* Every step keeps the account of what an update has deleted.
LEMMA PutStep ==
  ASSUME MasterInv, SectionInv, PutInv, [Next]_vars
  PROVE  PutInv'
<1>1. TypeOK /\ FlowInv /\ AddsInv
  BY DEF MasterInv, SectionInv
<1> DEFINE Others(r) ==
      \A q \in Requests \ {r} :
        /\ pc'[q] = pc[q] /\ op'[q] = op[q] /\ on'[q] = on[q] /\ todo'[q] = todo[q]
        /\ dels'[q] = dels[q] /\ adds'[q] = adds[q] /\ snapRows'[q] = snapRows[q]
        /\ overlap[q] => overlap'[q]
        /\ Updating(q) /\ ~overlap'[q] => sect'[on[q]] = sect[on[q]]
<1>r. ASSUME NEW r \in Requests, Others(r), PutFacts(r)' PROVE PutInv'
  <2>1. ASSUME NEW q \in Requests \ {r} PROVE PutFacts(q)'
    BY <1>r, <2>1, PutFrame DEF PutInv
  <2> QED BY <1>r, <2>1 DEF PutInv
<1>e. ASSUME NEW r \in Requests, Others(r),
             pc'[r] \notin {"new", "load", "delete_rows", "wait_rows", "insert", "commit"}
      PROVE  PutInv'
  BY <1>e, <1>r DEF PutFacts, Updating
<1>n. ASSUME NEW r \in Requests, Others(r), pc'[r] \notin {"new", "load"},
             op'[r].kind # "put"
      PROVE  PutInv'
  BY <1>n, <1>r DEF PutFacts, Updating
<1> USE DEF TypeOK, Goto, Fail, Forget
<1>2. ASSUME NEW r \in Requests, Arrive(r) PROVE PutInv'
  <2>1. PICK o \in Ops, x \in Resumes :
          /\ op' = [op EXCEPT ![r] = o]
          /\ on' = [on EXCEPT ![r] = x]
          /\ todo' = [todo EXCEPT ![r] = IF o.kind = "put" THEN o.fields ELSE {}]
          /\ pc' = [pc EXCEPT ![r] = IF o.kind # "create" THEN "load"
                                     ELSE IF o.master THEN "scan" ELSE "write"]
    BY <1>2 DEF Arrive
  <2>2. pc[r] = "new" /\ UNCHANGED <<sect, snapRows, dels, adds, overlap>>
    BY <1>2 DEF Arrive
  <2>3. Others(r)
    BY <1>1, <2>1, <2>2
  <2>4. /\ dels'[r] = {}
        /\ pc'[r] \in {"load", "scan", "write"}
        /\ op'[r].kind = "put" => todo'[r] = op'[r].fields
    BY <1>1, <2>1, <2>2 DEF PutInv, PutFacts
  <2> QED BY <1>r, <2>3, <2>4 DEF PutFacts, Updating
<1>3. ASSUME NEW r \in Requests, Load(r) PROVE PutInv'
  <2>1. /\ pc[r] = "load"
        /\ UNCHANGED <<sect, op, on, snapRows, todo, dels, adds>>
        /\ overlap' = [overlap EXCEPT ![r] = FALSE]
    BY <1>3 DEF Load
  <2>2. \E label \in {"failing", "delete", "delete_rows", "commit", "scan"} :
          /\ pc' = [pc EXCEPT ![r] = label]
          /\ op[r].kind = "put" => label \in {"failing", "delete_rows"}
    BY <1>3 DEF Load
  <2>3. Others(r)
    BY <1>1, <2>1, <2>2
  <2>4. pc'[r] \in {"failing", "delete", "delete_rows", "commit", "scan"}
    BY <1>1, <2>2
  <2>5. CASE op[r].kind # "put"
    BY <1>n, <2>1, <2>3, <2>4, <2>5
  <2>6. CASE op[r].kind = "put"
    <3>1. dels[r] = {} /\ todo[r] = op[r].fields
      BY <2>1, <2>6 DEF PutInv, PutFacts
    <3>2. pc'[r] \in {"failing", "delete_rows"}
      BY <1>1, <2>2, <2>6
    <3>3. RowsOf(r, op[r].fields \ todo[r]) = {}
      BY <3>1 DEF RowsOf
    <3>4. Swept(r)'
      BY <2>1, <3>1, <3>2, <3>3 DEF Swept, RowsOf
    <3> QED BY <1>r, <2>3, <3>2, <3>4 DEF PutFacts
  <2> QED BY <2>5, <2>6
<1>4. ASSUME NEW r \in Requests,
             ScanMaster(r) \/ UnsetMaster(r) \/ WriteRow(r) \/ ClaimMaster(r)
      PROVE  PutInv'
  <2>1. op[r].kind # "put"
    BY <1>1, <1>4 DEF ScanMaster, UnsetMaster, WriteRow, ClaimMaster, FlowInv
  <2>2. UNCHANGED <<sect, op, on, snapRows, todo, dels, adds, overlap>>
    BY <1>4 DEF ScanMaster, UnsetMaster, WriteRow, ClaimMaster
  <2>3. /\ \A q \in Requests \ {r} : pc'[q] = pc[q]
        /\ pc'[r] \notin {"new", "load"}
    BY <1>1, <1>4 DEF ScanMaster, UnsetMaster, WriteRow, ClaimMaster
  <2> QED BY <1>n, <2>1, <2>2, <2>3
<1>5. ASSUME NEW r \in Requests, DeleteSection(r) \/ DeleteWaited(r) PROVE PutInv'
  <2>1. /\ op[r].kind = "put" /\ Updating(r) /\ Swept(r)
        /\ UNCHANGED <<sect, op, on, adds, overlap>>
        /\ pc[r] = "delete_rows" => todo[r] # {}
        /\ pc[r] \in {"delete_rows", "wait_rows"}
    BY <1>1, <1>5 DEF DeleteSection, DeleteWaited, FlowInv, PutInv, PutFacts, Updating
  <2>2. Others(r)
    BY <1>1, <1>5 DEF DeleteSection, DeleteWaited
  <2>3. NextKind(r) \in todo[r]
    BY <1>1, <2>1, NextKindIsDue DEF Swept
  <2>4. todo[r] \subseteq op[r].fields
    BY <2>1 DEF Swept
  <2>5. ~overlap[r] => Snapshot(r) = RowsOf(r, {NextKind(r)})
    BY <2>1 DEF Swept, Snapshot, RowsOf
  <2>6. CASE /\ snapRows'[r] = Snapshot(r) /\ pc'[r] = "wait_rows"
             /\ dels'[r] = dels[r] /\ todo'[r] = todo[r]
    <3>1. NextKind(r)' = NextKind(r)
      BY <2>6 DEF NextKind
    <3>2. Swept(r)'
      BY <2>1, <2>3, <2>5, <2>6, <3>1 DEF Swept, RowsOf
    <3> QED BY <1>r, <2>2, <2>6, <3>2 DEF PutFacts
  <2>7. CASE /\ todo'[r] = todo[r] \ {NextKind(r)} /\ pc'[r] = "delete_rows"
             /\ ~overlap[r] => dels'[r] = dels[r] \cup RowsOf(r, {NextKind(r)})
    <3>0. RowsOf(r, op[r].fields \ todo[r]) \cup RowsOf(r, {NextKind(r)})
            = RowsOf(r, op[r].fields \ (todo[r] \ {NextKind(r)}))
      BY <2>3, <2>4, SweepOne
    <3>1. ~overlap[r] => dels'[r] = RowsOf(r, op[r].fields \ todo'[r])
      BY <2>1, <2>7, <3>0 DEF Swept
    <3>2. Swept(r)'
      BY <2>1, <2>4, <2>7, <3>1 DEF Swept, RowsOf
    <3> QED BY <1>r, <2>2, <2>7, <3>2 DEF PutFacts
  <2>8. CASE DeleteSection(r)
    <3>1. \/ /\ dels' = [dels EXCEPT ![r] = @ \cup Snapshot(r)]
             /\ todo' = [todo EXCEPT ![r] = @ \ {NextKind(r)}]
             /\ UNCHANGED pc
          \/ /\ snapRows' = [snapRows EXCEPT ![r] = Snapshot(r)]
             /\ pc' = [pc EXCEPT ![r] = "wait_rows"]
             /\ UNCHANGED <<dels, todo>>
      BY <2>8 DEF DeleteSection
    <3>2. pc[r] = "delete_rows"
      BY <2>8 DEF DeleteSection
    <3>3. \/ /\ dels'[r] = dels[r] \cup Snapshot(r) /\ todo'[r] = todo[r] \ {NextKind(r)}
             /\ pc'[r] = pc[r]
          \/ /\ snapRows'[r] = Snapshot(r) /\ pc'[r] = "wait_rows"
             /\ dels'[r] = dels[r] /\ todo'[r] = todo[r]
      BY <1>1, <3>1
    <3> QED BY <2>5, <2>6, <2>7, <3>2, <3>3
  <2>9. CASE DeleteWaited(r)
    <3>1. /\ pc[r] = "wait_rows"
          /\ dels' = [dels EXCEPT ![r] = @ \cup (snapRows[r] \cap sect[on[r]])]
          /\ todo' = [todo EXCEPT ![r] = @ \ {NextKind(r)}]
          /\ pc' = [pc EXCEPT ![r] = "delete_rows"]
      BY <2>9 DEF DeleteWaited
    <3>2. ~overlap[r] => snapRows[r] \cap sect[on[r]] = RowsOf(r, {NextKind(r)})
      BY <2>1, <3>1 DEF Swept, RowsOf
    <3>3. /\ dels'[r] = dels[r] \cup (snapRows[r] \cap sect[on[r]])
          /\ todo'[r] = todo[r] \ {NextKind(r)} /\ pc'[r] = "delete_rows"
      BY <1>1, <3>1
    <3> QED BY <2>7, <3>2, <3>3
  <2> QED BY <1>5, <2>8, <2>9
<1>6. ASSUME NEW r \in Requests, AllDeleted(r) PROVE PutInv'
  <2>1. /\ Updating(r) /\ Swept(r) /\ todo[r] = {} /\ pc' = [pc EXCEPT ![r] = "insert"]
        /\ UNCHANGED <<sect, op, on, snapRows, todo, dels, adds, overlap>>
    BY <1>1, <1>6 DEF AllDeleted, FlowInv, PutInv, PutFacts, Updating
  <2>2. Others(r)
    BY <1>1, <2>1
  <2>3. pc'[r] = "insert"
    BY <1>1, <2>1
  <2>4. Swept(r)'
    BY <2>1, <2>3 DEF Swept, RowsOf
  <2> QED BY <1>r, <2>2, <2>3, <2>4 DEF PutFacts
<1>7. ASSUME NEW r \in Requests, InsertSections(r) PROVE PutInv'
  <2>1. pc[r] = "insert" /\ UNCHANGED <<sect, op, on, snapRows, todo, dels, overlap>>
    BY <1>7 DEF InsertSections
  <2>2. \/ pc' = [pc EXCEPT ![r] = "failing"] /\ UNCHANGED adds
        \/ /\ pc' = [pc EXCEPT ![r] = "commit"]
           /\ adds' = [adds EXCEPT ![r] = {[by |-> r, kind |-> k] : k \in Given(op[r])}]
    BY <1>7 DEF InsertSections
  <2>3. Others(r)
    BY <1>1, <2>1, <2>2
  <2>4. CASE pc'[r] = "failing"
    BY <1>e, <2>3, <2>4
  <2>5. CASE /\ pc'[r] = "commit"
             /\ adds'[r] = {[by |-> r, kind |-> k] : k \in Given(op[r])}
    <3>1. Updating(r)' => Updating(r) /\ Swept(r)
      BY <2>1 DEF Updating, PutInv, PutFacts
    <3>2. Updating(r)' => Swept(r)'
      BY <2>1, <2>5, <3>1 DEF Swept, RowsOf
    <3> QED BY <1>r, <2>3, <2>5, <3>2 DEF PutFacts
  <2>6. pc'[r] = "failing" \/ (/\ pc'[r] = "commit"
                               /\ adds'[r] = {[by |-> r, kind |-> k] : k \in Given(op[r])})
    BY <1>1, <2>2
  <2> QED BY <2>4, <2>5, <2>6
<1>8. ASSUME NEW r \in Requests, DeleteResume(r) PROVE PutInv'
  <2>1. op[r].kind # "put" /\ UNCHANGED <<sect, op, on, snapRows, todo, adds, overlap>>
    BY <1>1, <1>8 DEF DeleteResume, FlowInv
  <2>2. Others(r) /\ pc'[r] = "commit"
    BY <1>1, <1>8 DEF DeleteResume
  <2> QED BY <1>n, <2>1, <2>2
<1>9. ASSUME NEW r \in Requests, DetectDeadlock(r) \/ Rollback(r) \/ LoseConnection(r)
      PROVE  PutInv'
  <2>1. Others(r) /\ pc'[r] \in {"failing", "failed"}
    BY <1>1, <1>9 DEF DetectDeadlock, Rollback, LoseConnection
  <2> QED BY <1>e, <2>1
<1>10. ASSUME NEW r \in Requests, Commit(r) PROVE PutInv'
  <2>1. /\ pc' = [pc EXCEPT ![r] = "done"]
        /\ sect' = [sect EXCEPT ![on[r]] = (@ \ dels[r]) \cup adds[r]]
        /\ overlap' = [q \in Requests |-> overlap[q] \/ (q # r /\ on[q] = on[r])]
        /\ UNCHANGED <<op, on, snapRows, todo>>
    BY <1>10 DEF Commit
  <2>2. /\ dels' = [dels EXCEPT ![r] = {}]
        /\ adds' = [adds EXCEPT ![r] = {}]
    BY <1>10 DEF Commit
  <2>3. ASSUME NEW q \in Requests \ {r}, Updating(q), ~overlap'[q]
        PROVE  sect'[on[q]] = sect[on[q]]
    <3>1. on[q] # on[r] /\ on[q] \in Resumes
      BY <1>1, <2>1, <2>3 DEF FlowInv, Updating
    <3>2. \A y \in Resumes \ {on[r]} : sect'[y] = sect[y]
      BY <1>1, <2>1
    <3> QED BY <3>1, <3>2
  <2>4. Others(r)
    <3>1. \A q \in Requests \ {r} : overlap[q] => overlap'[q]
      BY <2>1
    <3>2. \A q \in Requests \ {r} :
            pc'[q] = pc[q] /\ dels'[q] = dels[q] /\ adds'[q] = adds[q]
      BY <1>1, <2>1, <2>2
    <3> QED BY <2>1, <2>3, <3>1, <3>2
  <2>5. pc'[r] = "done"
    BY <1>1, <2>1
  <2> QED BY <1>e, <2>4, <2>5
<1>11. ASSUME UNCHANGED vars PROVE PutInv'
  <2>1. ASSUME NEW q \in Requests PROVE PutFacts(q)'
    BY <1>11, PutFrame DEF vars, PutInv
  <2> QED BY <2>1 DEF PutInv
<1> QED
  BY <1>2, <1>3, <1>4, <1>5, <1>6, <1>7, <1>8, <1>9, <1>10, <1>11 DEF Next, Progress

LEMMA PutInvInit == Init => PutInv
  BY DEF Init, PutInv, PutFacts, Updating

\* Of the commit of an update nobody overtook: what it deleted is what was
\* there of its payload's sections, what it inserted is the payload.
LEMMA UpdateReplaces ==
  ASSUME MasterInv, PutInv, NEW r \in Requests, Commit(r),
         op[r].kind = "put", ~overlap[r], NEW k \in Kinds
  PROVE  {s \in sect'[on[r]] : s.kind = k} =
           IF k \in op[r].fields THEN {[by |-> r, kind |-> j] : j \in {k} \cap Given(op[r])}
           ELSE {s \in sect[on[r]] : s.kind = k}
<1>1. pc[r] = "commit" /\ Swept(r)
  BY DEF Commit, PutInv, PutFacts, Updating
<1>2. /\ dels[r] = {s \in sect[on[r]] : s.kind \in op[r].fields}
      /\ adds[r] = {[by |-> r, kind |-> j] : j \in Given(op[r])}
  BY <1>1 DEF Swept, RowsOf
<1>3. sect'[on[r]] = (sect[on[r]] \ dels[r]) \cup adds[r] /\ Given(op[r]) \subseteq op[r].fields
  BY <1>1 DEF Commit, MasterInv, TypeOK, FlowInv, Given
<1> QED BY <1>2, <1>3

\* A step ends an update only by committing it.
LEMMA OnlyCommitEnds ==
  ASSUME TypeOK, [Next]_vars, NEW r \in Requests, pc[r] = "commit", pc'[r] = "done"
  PROVE  Commit(r)
<1>0. pc \in [Requests -> {"new"} \cup InFlight \cup Ended]
  BY DEF TypeOK
<1>l. ASSUME NEW q \in Requests, NEW label, label # "done", pc' = [pc EXCEPT ![q] = label]
      PROVE  FALSE
  BY <1>0, <1>l
<1> USE DEF Goto, Fail
<1>1. ASSUME NEW q \in Requests,
             \/ Arrive(q) \/ Load(q) \/ ScanMaster(q) \/ UnsetMaster(q) \/ WriteRow(q)
             \/ ClaimMaster(q)
      PROVE  FALSE
  <2>1. \E label \in {"load", "scan", "write", "failing", "delete", "delete_rows", "commit",
                      "unset", "claim", "insert"} : pc' = [pc EXCEPT ![q] = label]
    BY <1>1 DEF Arrive, Load, ScanMaster, UnsetMaster, WriteRow, ClaimMaster
  <2> QED BY <1>l, <2>1
<1>2. ASSUME NEW q \in Requests,
             \/ DeleteSection(q) \/ DeleteWaited(q) \/ AllDeleted(q) \/ InsertSections(q)
             \/ DeleteResume(q) \/ DetectDeadlock(q) \/ Rollback(q) \/ LoseConnection(q)
      PROVE  FALSE
  <2>1. \/ UNCHANGED pc
        \/ \E label \in {"wait_rows", "delete_rows", "insert", "failing", "commit", "failed"} :
             pc' = [pc EXCEPT ![q] = label]
    BY <1>2 DEF DeleteSection, DeleteWaited, AllDeleted, InsertSections, DeleteResume,
                DetectDeadlock, Rollback, LoseConnection
  <2> QED BY <1>l, <2>1
<1>3. ASSUME NEW q \in Requests, q # r, Commit(q) PROVE FALSE
  BY <1>0, <1>3 DEF Commit
<1> QED BY <1>1, <1>2, <1>3 DEF Next, Progress, vars

\* An update that nobody overtook replaces the sections it carries, all of
\* them and no others.
THEOREM UpdatesReplaceTheirSections == Spec => UndisturbedPutReplaces
<1> DEFINE Replaces ==
      \A r \in Requests :
        pc[r] = "commit" /\ pc'[r] = "done" /\ op[r].kind = "put" /\ ~overlap[r] =>
          \A k \in Kinds :
            {s \in sect'[on[r]] : s.kind = k} =
              IF k \in op[r].fields THEN {[by |-> r, kind |-> j] : j \in {k} \cap Given(op[r])}
              ELSE {s \in sect[on[r]] : s.kind = k}
<1>1. ASSUME MasterInv, PutInv, [Next]_vars PROVE Replaces
  BY <1>1, OnlyCommitEnds, UpdateReplaces DEF MasterInv
<1>2. MasterInv /\ SectionInv /\ PutInv /\ [Next]_vars => PutInv'
  BY PutStep
<1> QED BY <1>1, <1>2, PutInvInit, SectionInvariant, PTL DEF Spec, UndisturbedPutReplaces


-----------------------------------------------------------------------------
(***************************************************************************)
(* Waits end.  Only open transactions are waited for, and there are        *)
(* finitely many of them; so either one waits for nobody, or a smallest    *)
(* set of them that wait for one another is a circle.                      *)
(***************************************************************************)
Open == {r \in Requests : pc[r] \in InFlight}

\* Only an open transaction has deleted or inserted sections.
QuietInv == \A r \in Requests : pc[r] \notin InFlight => dels[r] = {} /\ adds[r] = {}

OpenInv == MasterInv /\ QuietInv /\ IsFiniteSet(Open)

\* r waits for nobody, or in a circle, which the database breaks.
GoesOn(r) == Blockers(r) = {} \/ InCircle(r)

\* While a request is open, one of them can go on.
NoDeadWait == (\E r \in Requests : pc[r] \in InFlight) =>
                \E r \in Requests : pc[r] \in InFlight /\ GoesOn(r)

\* A step of one request, which may end it or begin it.
RequestStep(r) == Arrive(r) \/ Progress(r) \/ LoseConnection(r)

LEMMA OpenStep ==
  ASSUME MasterInv, QuietInv, NEW r \in Requests, RequestStep(r)
  PROVE  /\ QuietInv'
         /\ \A q \in Requests \ {r} : pc'[q] = pc[q]
<1> USE DEF Goto, Fail
<1>1. /\ pc \in [Requests -> {"new"} \cup InFlight \cup Ended]
      /\ dels \in [Requests -> SUBSET Row] /\ adds \in [Requests -> SUBSET Row]
  BY DEF MasterInv, TypeOK
<1>2. CASE \/ Arrive(r) \/ Load(r) \/ ScanMaster(r) \/ UnsetMaster(r) \/ WriteRow(r)
           \/ ClaimMaster(r) \/ AllDeleted(r) \/ DetectDeadlock(r)
  <2>1. dels' = dels /\ adds' = adds
    BY <1>2 DEF Arrive, Load, ScanMaster, UnsetMaster, WriteRow, ClaimMaster, AllDeleted,
                DetectDeadlock
  <2>2. \E label \in InFlight : pc' = [pc EXCEPT ![r] = label]
    <3>1. CASE Arrive(r)
      BY <3>1 DEF Arrive, InFlight
    <3>2. CASE Load(r)
      BY <3>2 DEF Load, InFlight
    <3>3. CASE ScanMaster(r) \/ UnsetMaster(r)
      BY <3>3 DEF ScanMaster, UnsetMaster, InFlight
    <3>4. CASE WriteRow(r)
      BY <3>4 DEF WriteRow, InFlight
    <3>5. CASE ClaimMaster(r)
      BY <3>5 DEF ClaimMaster, InFlight
    <3>6. CASE AllDeleted(r) \/ DetectDeadlock(r)
      BY <3>6 DEF AllDeleted, DetectDeadlock, InFlight
    <3> QED BY <1>2, <3>1, <3>2, <3>3, <3>4, <3>5, <3>6
  <2> QED BY <1>1, <2>1, <2>2 DEF QuietInv
<1>3. CASE DeleteSection(r) \/ DeleteWaited(r) \/ InsertSections(r) \/ DeleteResume(r)
  <2>1. \A q \in Requests \ {r} : dels'[q] = dels[q] /\ adds'[q] = adds[q]
    BY <1>1, <1>3 DEF DeleteSection, DeleteWaited, InsertSections, DeleteResume
  <2>2. pc'[r] \in InFlight /\ \A q \in Requests \ {r} : pc'[q] = pc[q]
    <3>1. CASE DeleteSection(r)
      BY <1>1, <3>1 DEF DeleteSection, InFlight
    <3>2. CASE DeleteWaited(r)
      BY <1>1, <3>2 DEF DeleteWaited, InFlight
    <3>3. CASE InsertSections(r)
      BY <1>1, <3>3 DEF InsertSections, InFlight
    <3>4. CASE DeleteResume(r)
      BY <1>1, <3>4 DEF DeleteResume, InFlight
    <3> QED BY <1>3, <3>1, <3>2, <3>3, <3>4
  <2> QED BY <2>1, <2>2 DEF QuietInv
<1>4. CASE Commit(r) \/ Rollback(r) \/ LoseConnection(r)
  <2>1. Forget(r) /\ \A q \in Requests \ {r} : pc'[q] = pc[q]
    BY <1>1, <1>4 DEF Commit, Rollback, LoseConnection
  <2>2. /\ dels'[r] = {} /\ adds'[r] = {}
        /\ \A q \in Requests \ {r} : dels'[q] = dels[q] /\ adds'[q] = adds[q]
    BY <1>1, <2>1 DEF Forget
  <2> QED BY <2>1, <2>2 DEF QuietInv
<1> QED BY <1>2, <1>3, <1>4 DEF RequestStep, Progress

LEMMA OpenInvStep ==
  ASSUME OpenInv, [Next]_vars
  PROVE  OpenInv'
<1> USE DEF OpenInv
<1>1. MasterInv'
  BY MasterInvStep
<1>2. ASSUME NEW r \in Requests, RequestStep(r)
      PROVE  QuietInv' /\ IsFiniteSet(Open)'
  <2>1. QuietInv' /\ \A q \in Requests \ {r} : pc'[q] = pc[q]
    BY <1>2, OpenStep
  <2>2. Open' \subseteq Open \cup {r}
    BY <2>1 DEF Open
  <2>3. IsFiniteSet(Open \cup {r})
    BY FS_AddElement
  <2>4. IsFiniteSet(Open')
    BY <2>2, <2>3, FS_Subset
  <2> QED BY <2>1, <2>4
<1>3. CASE UNCHANGED vars
  <2>1. QuietInv' /\ Open' = Open
    BY <1>3 DEF vars, QuietInv, Open
  <2> QED BY <1>1, <2>1
<1> QED BY <1>1, <1>2, <1>3 DEF Next, RequestStep

LEMMA OpenInvInit == Init => OpenInv
<1> SUFFICES ASSUME Init
             PROVE  OpenInv
  OBVIOUS
<1>1. Open = {} /\ QuietInv
  BY DEF Init, Open, QuietInv, InFlight
<1>2. IsFiniteSet(Open)
  BY <1>1, FS_EmptySet
<1> QED BY <1>1, <1>2, MasterInvInit DEF OpenInv

\* An open request only waits for open ones.
LEMMA BlockersOpen ==
  ASSUME OpenInv, NEW r \in Open, NEW q \in Blockers(r)
  PROVE  q \in Open
<1>1. q \in Requests /\ r \in Requests /\ pc[r] \in InFlight
  BY DEF Blockers, Open
<1>2. on[r] \in Resumes /\ (pc[r] = "unset" => snap[r] \in Resumes)
  BY <1>1 DEF OpenInv, MasterInv, FlowInv, InFlight
<1>3. (\E y \in Resumes : mine[q][y] # None) \/ dels[q] # {} \/ adds[q] # {}
  <2>1. CASE pc[r] \in {"unset", "write"}
    BY <1>1, <1>2, <2>1 DEF Blockers
  <2>2. CASE pc[r] = "claim"
    BY <1>1, <1>2, <2>2 DEF Blockers, MayFreeMaster
  <2>3. CASE pc[r] \in {"delete_rows", "wait_rows"}
    BY <1>1, <2>3 DEF Blockers
  <2>4. CASE pc[r] = "insert"
    <3>1. mine[q][on[r]] = "deleted" \/ MayFreeSummary(r, q)
      BY <1>1, <2>4 DEF Blockers
    <3> QED BY <1>2, <3>1 DEF MayFreeSummary
  <2>5. CASE pc[r] = "delete"
    <3>1. Touches(r, q)
      BY <1>1, <2>5 DEF Blockers
    <3> QED BY <1>2, <3>1 DEF Touches
  <2>6. pc[r] \in {"unset", "write", "claim", "delete_rows", "wait_rows", "insert", "delete"}
    BY DEF Blockers
  <2> QED BY <2>1, <2>2, <2>3, <2>4, <2>5, <2>6
<1>4. pc[q] \in InFlight
  BY <1>1, <1>3 DEF OpenInv, MasterInv, WriteInv, QuietInv, InFlight
<1> QED BY <1>1, <1>4 DEF Open

\* Everyone in C waits for someone in C.
Tangled(C) == \A q \in C : Blockers(q) \cap C # {}

\* Of finitely many requests that wait for one another some wait in a circle.
LEMMA SmallestCircle ==
  ASSUME NEW S, S \subseteq Requests, IsFiniteSet(S), S # {}, Tangled(S)
  PROVE  \E r \in S : InCircle(r)
<1> DEFINE M == {C \in SUBSET S : C # {} /\ Tangled(C)}
           T == {Cardinality(C) : C \in M}
<1>1. \A C \in M : IsFiniteSet(C) /\ Cardinality(C) \in Nat
  BY FS_Subset, FS_CardinalityType
<1>2. S \in M
  OBVIOUS
<1>3. T \subseteq Nat /\ T # {}
  BY <1>1, <1>2
<1> HIDE DEF T
<1>4. PICK n \in T : \A m \in T : n <= m
  BY <1>3, LeastOf
<1>5. PICK C \in M : Cardinality(C) = n
  BY DEF T
<1>6. ASSUME NEW D \in (SUBSET C) \ {{}, C}
      PROVE  \E q \in D : Blockers(q) \cap D = {}
  <2>1. Cardinality(D) <= Cardinality(C) /\ Cardinality(D) # Cardinality(C)
        /\ Cardinality(D) \in Nat
    BY <1>1, <1>5, FS_Subset, FS_CardinalityType
  <2>2. CASE D \in M
    <3>1. Cardinality(D) \in T
      BY <2>2 DEF T
    <3>2. n <= Cardinality(D) /\ n \in Nat
      BY <1>3, <1>4, <3>1
    <3> QED BY <1>5, <2>1, <3>2
  <2>3. CASE D \notin M
    BY <1>5, <2>3 DEF Tangled
  <2> QED BY <2>2, <2>3
<1>7. PICK r \in C : TRUE
  BY <1>5
<1>8. C \in SUBSET Requests /\ \A q \in C : Blockers(q) \cap C # {}
  BY <1>5 DEF Tangled
<1>9. InCircle(r)
  BY <1>6, <1>7, <1>8 DEF InCircle
<1> QED BY <1>5, <1>7, <1>9

\* Whatever the requests have locked, and however many there are, the open ones
\* never all wait for ever: one of them waits for nobody, or some wait in a
\* circle, of which the database cancels one.
THEOREM SomebodyGoesOn == Spec => []NoDeadWait
<1>1. OpenInv => NoDeadWait
  <2> SUFFICES ASSUME OpenInv, Open # {}, \A r \in Open : Blockers(r) # {}
               PROVE  \E r \in Open : InCircle(r)
    BY DEF NoDeadWait, Open, GoesOn
  <2>1. Tangled(Open)
    BY BlockersOpen DEF Tangled
  <2> QED BY <2>1, SmallestCircle DEF OpenInv, Open
<1> QED BY <1>1, OpenInvInit, OpenInvStep, PTL DEF Spec

-----------------------------------------------------------------------------
(***************************************************************************)
(* Resumes implements MasterRegister: a commit creates a resume, moves the *)
(* flag, deletes a resume or changes none of that; nothing else does.      *)
(***************************************************************************)
\* What an open transaction wrote still has the flag it was written over.
LockedInv ==
  \A r \in Requests, y \in Resumes : mine[r][y] # None =>
    /\ mine[r][y] \in {"claiming", "master"} => Claims(r)
    /\ y # on[r] => flag[y] = "master"
    /\ op[r].kind # "create" /\ y = on[r] => flag[y] \in Live

RegisterInv == MasterInv /\ LockedInv

\* A step writes one row at most, one that has the flag it is to have.
LEMMA LockedStep ==
  ASSUME RegisterInv, [Next]_vars
  PROVE  LockedInv'
<1> USE DEF LockedInv, Claims
<1>0. TypeOK /\ FlowInv /\ WriteInv /\ ClaimInv /\ RowInv /\ LockedInv
  BY DEF RegisterInv, MasterInv
<1>t. mine \in [Requests -> [Resumes -> Flags \cup {"claiming", None}]]
  BY <1>0 DEF TypeOK
<1>1. CASE UNCHANGED <<flag, op, on, mine>>
  BY <1>0, <1>1
<1>2. ASSUME NEW r \in Requests, NEW x \in Resumes, NEW v,
             mine' = [mine EXCEPT ![r][x] = v], UNCHANGED <<flag, op, on>>,
             v \in {"claiming", "master"} => Claims(r),
             x # on[r] => flag[x] = "master",
             op[r].kind # "create" /\ x = on[r] => flag[x] \in Live
      PROVE  LockedInv'
  <2>1. /\ mine'[r][x] = v
        /\ \A y \in Resumes \ {x} : mine'[r][y] = mine[r][y]
        /\ \A q \in Requests \ {r} : mine'[q] = mine[q]
    BY <1>t, <1>2
  <2> QED BY <1>0, <1>2, <2>1
<1>3. ASSUME NEW r \in Requests, Forget(r),
             \A y \in Resumes : flag'[y] = flag[y] \/ mine[r][y] # None,
             UNCHANGED <<op, on>>
      PROVE  LockedInv'
  <2>1. /\ \A y \in Resumes : mine'[r][y] = None
        /\ \A q \in Requests \ {r} : mine'[q] = mine[q]
    BY <1>t, <1>3 DEF Forget
  <2>2. \A q \in Requests \ {r}, y \in Resumes : mine[q][y] # None => flag'[y] = flag[y]
    BY <1>0, <1>3 DEF RowInv
  <2> QED BY <1>0, <1>3, <2>1, <2>2
<1>4. ASSUME NEW r \in Requests, Arrive(r) PROVE LockedInv'
  <2>1. pc[r] = "new" /\ UNCHANGED <<flag, mine>>
    BY <1>4 DEF Arrive
  <2>2. \A q \in Requests \ {r} : op'[q] = op[q] /\ on'[q] = on[q]
    BY <1>0, <1>4 DEF Arrive, TypeOK
  <2>3. \A y \in Resumes : mine[r][y] = None
    BY <1>0, <2>1 DEF WriteInv
  <2> QED BY <1>0, <2>1, <2>2, <2>3
<1>5. ASSUME NEW r \in Requests, UnsetMaster(r) PROVE LockedInv'
  <2>1. snap[r] \in Resumes /\ Claims(r) /\ UNCHANGED <<flag, op, on>>
    BY <1>0, <1>5 DEF UnsetMaster, FlowInv
  <2>2. CASE flag[snap[r]] = "master" /\ mine' = [mine EXCEPT ![r][snap[r]] = "draft"]
    BY <1>2, <2>1, <2>2 DEF Live
  <2> QED BY <1>1, <1>5, <2>1, <2>2 DEF UnsetMaster
<1>6. ASSUME NEW r \in Requests, WriteRow(r) PROVE LockedInv'
  <2>1. /\ op[r] \in Ops /\ on[r] \in Resumes /\ op[r].kind \in {"create", "set"}
        /\ UNCHANGED <<flag, op, on>>
    BY <1>0, <1>6 DEF WriteRow, FlowInv
  <2>2. CASE UNCHANGED mine
    BY <1>1, <2>1, <2>2
  <2>3. ASSUME op[r].kind = "set" => flag[on[r]] \in Live,
               mine' = [mine EXCEPT ![r][on[r]] =
                          IF op[r].kind = "set" \/ op[r].master THEN "claiming" ELSE "draft"]
        PROVE  LockedInv'
    <3>1. on[r] \in Resumes /\ (op[r].kind # "create" => flag[on[r]] \in Live)
      BY <2>1, <2>3
    <3>2. CASE Claims(r)
      <4>1. mine' = [mine EXCEPT ![r][on[r]] = "claiming"]
        BY <2>3, <3>2
      <4> QED BY <1>2, <2>1, <3>1, <3>2, <4>1
    <3>3. CASE ~Claims(r)
      <4>1. mine' = [mine EXCEPT ![r][on[r]] = "draft"]
        BY <2>3, <3>3
      <4> QED BY <1>2, <2>1, <3>1, <4>1
    <3> QED BY <3>2, <3>3
  <2> QED BY <1>6, <2>2, <2>3 DEF WriteRow
<1>7. ASSUME NEW r \in Requests, ClaimMaster(r) PROVE LockedInv'
  <2>1. /\ on[r] \in Resumes /\ Claims(r) /\ mine[r][on[r]] = "claiming"
        /\ UNCHANGED <<flag, op, on>>
    BY <1>0, <1>7 DEF ClaimMaster, FlowInv, ClaimInv
  <2>2. op[r].kind # "create" => flag[on[r]] \in Live
    BY <1>0, <2>1, ResumesAssumption
  <2>3. CASE mine' = [mine EXCEPT ![r][on[r]] = "master"]
    BY <1>2, <2>1, <2>2, <2>3
  <2> QED BY <1>1, <1>7, <2>1, <2>3 DEF ClaimMaster
<1>8. ASSUME NEW r \in Requests, DeleteResume(r) PROVE LockedInv'
  <2>1. on[r] \in Resumes /\ UNCHANGED <<flag, op, on>>
    BY <1>0, <1>8 DEF DeleteResume, FlowInv
  <2>2. CASE flag[on[r]] \in Live /\ mine' = [mine EXCEPT ![r][on[r]] = "deleted"]
    BY <1>2, <2>1, <2>2
  <2> QED BY <1>1, <1>8, <2>1, <2>2 DEF DeleteResume
<1>9. ASSUME NEW r \in Requests,
             \/ Load(r) \/ ScanMaster(r) \/ DeleteSection(r) \/ DeleteWaited(r)
             \/ AllDeleted(r) \/ InsertSections(r) \/ DetectDeadlock(r)
      PROVE  LockedInv'
  BY <1>1, <1>9 DEF Load, ScanMaster, DeleteSection, DeleteWaited, AllDeleted,
                    InsertSections, DetectDeadlock
<1>10. ASSUME NEW r \in Requests, Commit(r) PROVE LockedInv'
  <2>1. \A y \in Resumes : flag'[y] = flag[y] \/ mine[r][y] # None
    BY <1>10 DEF Commit
  <2> QED BY <1>3, <1>10, <2>1 DEF Commit
<1>11. ASSUME NEW r \in Requests, Rollback(r) \/ LoseConnection(r) PROVE LockedInv'
  BY <1>3, <1>11 DEF Rollback, LoseConnection
<1>12. CASE UNCHANGED vars
  BY <1>1, <1>12 DEF vars
<1> QED
  BY <1>4, <1>5, <1>6, <1>7, <1>8, <1>9, <1>10, <1>11, <1>12 DEF Next, Progress

LEMMA RegisterInvariant == Spec => []RegisterInv
<1>1. Init => RegisterInv
  <2>1. Init => LockedInv
    BY DEF Init, LockedInv
  <2> QED BY <2>1, MasterInvInit DEF RegisterInv
<1>2. RegisterInv /\ [Next]_vars => RegisterInv'
  BY LockedStep, MasterInvStep DEF RegisterInv
<1> QED BY <1>1, <1>2, PTL DEF Spec

\* The register's variables, as the refinement mapping defines them.
Holders == {x \in Resumes : flag[x] = "master"}
LiveRows == {x \in Resumes : flag[x] \in Live}
GoneRows == {x \in Resumes : flag[x] = "deleted"}

\* A transaction that wrote one row alone, and not as the master.
LEMMA CommitOfOneRow ==
  ASSUME RegisterInv, NEW r \in Requests, Commit(r), ~Claims(r)
  PROVE  [Register!Next]_(Register!vars)
<1> DEFINE x == on[r]
<1>0. TypeOK /\ FlowInv /\ WriteInv /\ FreshInv /\ LockedInv
  BY DEF RegisterInv, MasterInv
<1>1. /\ pc[r] = "commit"
      /\ \A y \in Resumes : flag'[y] = IF mine[r][y] = None THEN flag[y] ELSE mine[r][y]
  BY DEF Commit
<1>2. x \in Resumes /\ op[r] \in Ops
  BY <1>0, <1>1 DEF FlowInv
<1>3. \A y \in Resumes \ {x} : mine[r][y] = None /\ flag'[y] = flag[y]
  BY <1>0, <1>1 DEF WriteInv
<1>4. mine[r][x] \in {None, "draft", "deleted"}
  <2>1. mine[r][x] \in Flags \cup {"claiming", None}
    BY <1>0, <1>2 DEF TypeOK
  <2> QED BY <1>0, <1>2, <2>1 DEF WriteInv, LockedInv, Flags
<1>5. CASE mine[r][x] = None
  <2>1. \A y \in Resumes : flag'[y] = flag[y]
    BY <1>1, <1>3, <1>5
  <2> QED BY <2>1 DEF Register!vars
<1>6. CASE mine[r][x] = "draft"
  <2>1. op[r].kind = "create" /\ flag[x] = "absent" /\ flag'[x] = "draft"
    BY <1>0, <1>1, <1>2, <1>6 DEF WriteInv, FreshInv, InFlight
  <2>2. /\ x \notin LiveRows \cup GoneRows
        /\ LiveRows' = LiveRows \cup {x}
        /\ GoneRows' = GoneRows
        /\ Holders' = Holders
    BY <1>2, <1>3, <2>1 DEF LiveRows, GoneRows, Holders, Live
  <2>3. \E y \in Resumes : Register!Create(y)
    BY <1>2, <2>2 DEF Register!Create, LiveRows, GoneRows, Holders
  <2> QED BY <2>3 DEF Register!Next
<1>7. CASE mine[r][x] = "deleted"
  <2>1. op[r].kind = "delete" /\ flag[x] \in Live /\ flag'[x] = "deleted"
    BY <1>0, <1>1, <1>2, <1>7 DEF WriteInv, LockedInv
  <2>2. /\ x \in LiveRows
        /\ LiveRows' = LiveRows \ {x}
        /\ GoneRows' = GoneRows \cup {x}
        /\ Holders' = Holders \ {x}
    BY <1>2, <1>3, <2>1 DEF LiveRows, GoneRows, Holders, Live
  <2>3. \E y \in Resumes : Register!Delete(y)
    BY <1>2, <2>2 DEF Register!Delete, LiveRows, GoneRows, Holders
  <2> QED BY <2>3 DEF Register!Next
<1> QED BY <1>4, <1>5, <1>6, <1>7

\* A transaction that claimed the flag: it has unset whoever held it.
LEMMA CommitOfAClaim ==
  ASSUME RegisterInv, NEW r \in Requests, Commit(r), Claims(r)
  PROVE  [Register!Next]_(Register!vars)
<1> DEFINE x == on[r]
<1>0. TypeOK /\ FlowInv /\ WriteInv /\ ClaimInv /\ FreshInv /\ IndexInv /\ LockedInv
  BY DEF RegisterInv, MasterInv
<1>1. /\ pc[r] = "commit"
      /\ \A y \in Resumes : flag'[y] = IF mine[r][y] = None THEN flag[y] ELSE mine[r][y]
  BY DEF Commit
<1>2. x \in Resumes /\ op[r] \in Ops /\ op[r].kind \in {"create", "set"}
  <2>1. x \in Resumes /\ op[r] \in Ops
    BY <1>0, <1>1 DEF FlowInv
  <2>2. op[r].kind \in {"create", "set"}
    BY <2>1, OpsFacts DEF Claims
  <2> QED BY <2>1, <2>2
<1>3. CASE \A y \in Resumes : mine[r][y] = None
  <2>1. \A y \in Resumes : flag'[y] = flag[y]
    BY <1>1, <1>3
  <2> QED BY <2>1 DEF Register!vars
<1>4. CASE mine[r][x] = "master"
  <2>1. flag'[x] = "master"
    BY <1>1, <1>2, <1>4, ResumesAssumption
  <2>2. ASSUME NEW y \in Resumes \ {x}
        PROVE  /\ flag'[y] # "master"
               /\ flag'[y] \in Live <=> flag[y] \in Live
               /\ flag'[y] = "deleted" <=> flag[y] = "deleted"
    <3>1. mine[r][y] # None => mine[r][y] = "draft" /\ flag[y] = "master"
      BY <1>0 DEF WriteInv, LockedInv
    <3>2. flag[y] = "master" => mine[r][y] = "draft"
      BY <1>0, <1>2, <1>4 DEF IndexInv
    <3> QED BY <1>1, <3>1, <3>2, ResumesAssumption DEF Live
  <2>3. Holders' = {x}
    BY <1>2, <2>1, <2>2 DEF Holders
  <2>4. CASE op[r].kind = "create"
    <3>1. flag[x] = "absent"
      BY <1>0, <1>1, <2>4 DEF FreshInv, InFlight
    <3>2. /\ x \notin LiveRows \cup GoneRows
          /\ LiveRows' = LiveRows \cup {x}
          /\ GoneRows' = GoneRows
      BY <1>2, <2>1, <2>2, <3>1 DEF LiveRows, GoneRows, Live
    <3>3. \E y \in Resumes : Register!CreateMaster(y)
      BY <1>2, <2>3, <3>2 DEF Register!CreateMaster, LiveRows, GoneRows, Holders
    <3> QED BY <3>3 DEF Register!Next
  <2>5. CASE op[r].kind = "set"
    <3>1. flag[x] \in Live
      BY <1>0, <1>2, <1>4, <2>5, ResumesAssumption DEF LockedInv
    <3>2. /\ x \in LiveRows
          /\ LiveRows' = LiveRows
          /\ GoneRows' = GoneRows
      BY <1>2, <2>1, <2>2, <3>1 DEF LiveRows, GoneRows, Live
    <3>3. \E y \in Resumes : Register!SetMaster(y)
      BY <1>2, <2>3, <3>2 DEF Register!SetMaster, LiveRows, GoneRows, Holders
    <3> QED BY <3>3 DEF Register!Next
  <2> QED BY <1>2, <2>4, <2>5
<1> QED BY <1>0, <1>1, <1>3, <1>4 DEF ClaimInv

LEMMA OnlyCommitMovesFlags ==
  ASSUME [Next]_vars
  PROVE  flag' = flag \/ \E r \in Requests : Commit(r)
BY DEF Next, Progress, vars, Arrive, Load, ScanMaster, UnsetMaster, WriteRow,
       ClaimMaster, DeleteSection, DeleteWaited, AllDeleted, InsertSections, DeleteResume,
       DetectDeadlock, Rollback, LoseConnection

LEMMA RegisterInitRefines ==
  ASSUME RegisterInv, Init
  PROVE  Register!Init
<1>1. UniqueInv /\ GoneRows = {}
  BY DEF RegisterInv, MasterInv, Init, GoneRows
<1> QED BY <1>1 DEF Register!Init, GoneRows, UniqueInv, Live

\* Every run of Resumes is, for whoever sees only the committed rows of
\* resumes, a run of MasterRegister: requests take effect at once or not at all
\* (ResumeService.create, update, set_master, delete; get_db).
THEOREM ResumesImplementRegister == Spec => RegisterSpec
<1>1. ASSUME RegisterInv, [Next]_vars PROVE [Register!Next]_(Register!vars)
  <2>1. CASE flag' = flag
    BY <2>1 DEF Register!vars
  <2>2. ASSUME NEW r \in Requests, Commit(r) PROVE [Register!Next]_(Register!vars)
    BY <1>1, <2>2, CommitOfOneRow, CommitOfAClaim
  <2> QED BY <1>1, <2>1, <2>2, OnlyCommitMovesFlags
<1>2. RegisterInv /\ Init => Register!Init
  BY RegisterInitRefines
<1> QED BY <1>1, <1>2, RegisterInvariant, PTL DEF Spec, RegisterSpec, Register!Spec

-----------------------------------------------------------------------------
(***************************************************************************)
(* Requests end.  Each step of a request brings it nearer to its end: the  *)
(* loop over the sections takes one of them off the list each time, and    *)
(* nothing is tried again.                                                 *)
(***************************************************************************)
Stage ==
  [new |-> 14, load |-> 9, scan |-> 7, unset |-> 6, write |-> 5, claim |-> 4,
   delete_rows |-> 4, wait_rows |-> 3, insert |-> 3, delete |-> 3, commit |-> 2,
   failing |-> 1, done |-> 0, failed |-> 0]

\* The steps r has left at most; a section takes two if its DELETE has to wait.
StepsLeft(r) ==
  Stage[pc[r]] + (IF "list" \in todo[r] THEN 2 ELSE 0) + (IF "summary" \in todo[r] THEN 2 ELSE 0)

\* Whatever others do, a request never goes back, and each step of its own brings
\* it nearer to its end (ResumeService, get_db).
NearsItsEnd ==
  [][\A r \in Requests :
       /\ StepsLeft(r)' <= StepsLeft(r)
       /\ Progress(r) => StepsLeft(r)' < StepsLeft(r)]_vars

LEMMA StepsAreNatural ==
  ASSUME TypeOK, TypeOK', NEW r \in Requests
  PROVE  StepsLeft(r) \in Nat /\ StepsLeft(r)' \in Nat
<1>1. Stage[pc[r]] \in Nat /\ Stage[pc'[r]] \in Nat
  BY DEF TypeOK, Stage, InFlight, Ended
<1> QED BY <1>1 DEF StepsLeft

LEMMA StepAdvances ==
  ASSUME MasterInv, PutInv, NEW r \in Requests, RequestStep(r)
  PROVE  /\ \A q \in Requests \ {r} : StepsLeft(q)' = StepsLeft(q)
         /\ StepsLeft(r)' < StepsLeft(r)
<1> USE DEF Goto, Fail
<1>0. /\ pc \in [Requests -> {"new"} \cup InFlight \cup Ended]
      /\ todo \in [Requests -> SUBSET Kinds]
  BY DEF MasterInv, TypeOK
<1>s. /\ Stage["new"] = 14 /\ Stage["load"] = 9 /\ Stage["scan"] = 7 /\ Stage["unset"] = 6
      /\ Stage["write"] = 5 /\ Stage["claim"] = 4 /\ Stage["delete_rows"] = 4
      /\ Stage["wait_rows"] = 3 /\ Stage["insert"] = 3 /\ Stage["delete"] = 3
      /\ Stage["commit"] = 2 /\ Stage["failing"] = 1
      /\ Stage["done"] = 0 /\ Stage["failed"] = 0
  BY DEF Stage
<1> DEFINE w == (IF "list" \in todo[r] THEN 2 ELSE 0) + (IF "summary" \in todo[r] THEN 2 ELSE 0)
<1>w. w \in {0, 2, 4} /\ StepsLeft(r) = Stage[pc[r]] + w
  <2>1. Stage[pc[r]] \in Nat
    BY <1>0 DEF Stage, InFlight, Ended
  <2> QED BY <2>1 DEF StepsLeft
\* A step to a later stage with the same sections ahead.
<1>a. ASSUME NEW label, pc' = [pc EXCEPT ![r] = label], UNCHANGED todo,
             Stage[label] \in Nat, Stage[label] < Stage[pc[r]]
      PROVE  /\ \A q \in Requests \ {r} : StepsLeft(q)' = StepsLeft(q)
             /\ StepsLeft(r)' < StepsLeft(r)
  <2>1. pc'[r] = label /\ \A q \in Requests \ {r} : pc'[q] = pc[q]
    BY <1>0, <1>a
  <2>2. \A q \in Requests \ {r} : StepsLeft(q)' = StepsLeft(q)
    BY <1>a, <2>1 DEF StepsLeft
  <2>3. Stage[label] \in Nat /\ Stage[pc[r]] \in Nat
    BY <1>0, <1>a, <1>s DEF Stage, InFlight, Ended
  <2>4. StepsLeft(r)' = Stage[label] + w
    BY <1>a, <2>1, <2>3 DEF StepsLeft
  <2> HIDE DEF w
  <2> QED BY <1>w, <1>a, <2>2, <2>3, <2>4
<1>1. CASE Arrive(r)
  <2>1. PICK o \in Ops, x \in Resumes :
          /\ todo' = [todo EXCEPT ![r] = IF o.kind = "put" THEN o.fields ELSE {}]
          /\ pc' = [pc EXCEPT ![r] = IF o.kind # "create" THEN "load"
                                     ELSE IF o.master THEN "scan" ELSE "write"]
    BY <1>1 DEF Arrive
  <2>2. \A q \in Requests \ {r} : pc'[q] = pc[q] /\ todo'[q] = todo[q]
    BY <1>0, <2>1
  <2>3. pc'[r] \in {"load", "scan", "write"} /\ pc[r] = "new"
    BY <1>0, <1>1, <2>1 DEF Arrive
  <2>4. \A q \in Requests \ {r} : StepsLeft(q)' = StepsLeft(q)
    BY <2>2 DEF StepsLeft
  <2>5. StepsLeft(r)' <= 13
    BY <2>3, <1>s DEF StepsLeft
  <2>6. StepsLeft(r) >= 14
    BY <2>3, <1>s DEF StepsLeft
  <2> QED BY <1>w, <2>3, <2>4, <2>5, <2>6, <1>s DEF StepsLeft
<1>2. CASE Load(r)
  <2>1. pc[r] = "load" /\ UNCHANGED todo
    BY <1>2 DEF Load
  <2>2. PICK label \in {"failing", "delete", "delete_rows", "commit", "scan"} :
          pc' = [pc EXCEPT ![r] = label]
    BY <1>2 DEF Load
  <2>3. Stage[label] \in Nat /\ Stage[label] < Stage[pc[r]]
    BY <2>1, <2>2, <1>s
  <2> QED BY <1>a, <2>1, <2>2, <2>3
<1>3. CASE ScanMaster(r) \/ UnsetMaster(r)
  <2>1. pc[r] \in {"scan", "unset"} /\ UNCHANGED todo
    BY <1>3 DEF ScanMaster, UnsetMaster
  <2>2. \/ pc' = [pc EXCEPT ![r] = "write"]
        \/ pc[r] = "scan" /\ pc' = [pc EXCEPT ![r] = "unset"]
    BY <1>3 DEF ScanMaster, UnsetMaster
  <2> QED BY <1>a, <2>1, <2>2, <1>s
<1>4. CASE WriteRow(r)
  <2>1. pc[r] = "write" /\ UNCHANGED todo
    BY <1>4 DEF WriteRow
  <2>2. PICK label \in {"failing", "claim", "insert"} : pc' = [pc EXCEPT ![r] = label]
    BY <1>4 DEF WriteRow
  <2>3. Stage[label] \in Nat /\ Stage[label] < Stage[pc[r]]
    BY <2>1, <2>2, <1>s
  <2> QED BY <1>a, <2>1, <2>2, <2>3
<1>5. CASE ClaimMaster(r) \/ AllDeleted(r)
  <2>1. pc[r] \in {"claim", "delete_rows"} /\ UNCHANGED todo
    BY <1>5 DEF ClaimMaster, AllDeleted
  <2>2. PICK label \in {"failing", "insert", "commit"} : pc' = [pc EXCEPT ![r] = label]
    BY <1>5 DEF ClaimMaster, AllDeleted
  <2>3. Stage[label] \in Nat /\ Stage[label] < Stage[pc[r]]
    BY <2>1, <2>2, <1>s
  <2> QED BY <1>a, <2>1, <2>2, <2>3
<1>6. CASE InsertSections(r) \/ DeleteResume(r)
  <2>1. pc[r] \in {"insert", "delete"} /\ UNCHANGED todo
    BY <1>6 DEF InsertSections, DeleteResume
  <2>2. PICK label \in {"failing", "commit"} : pc' = [pc EXCEPT ![r] = label]
    BY <1>6 DEF InsertSections, DeleteResume
  <2>3. Stage[label] \in Nat /\ Stage[label] < Stage[pc[r]]
    BY <2>1, <2>2, <1>s
  <2> QED BY <1>a, <2>1, <2>2, <2>3
\* One section less, the stage the same or back from the wait.
<1>7. ASSUME todo[r] # {}, todo' = [todo EXCEPT ![r] = @ \ {NextKind(r)}],
             \/ pc[r] = "delete_rows" /\ pc' = pc
             \/ pc[r] = "wait_rows" /\ pc' = [pc EXCEPT ![r] = "delete_rows"]
      PROVE  /\ \A q \in Requests \ {r} : StepsLeft(q)' = StepsLeft(q)
             /\ StepsLeft(r)' < StepsLeft(r)
  <2>1. /\ pc'[r] = "delete_rows" /\ pc[r] \in {"delete_rows", "wait_rows"}
        /\ \A q \in Requests \ {r} : pc'[q] = pc[q] /\ todo'[q] = todo[q]
        /\ todo'[r] = todo[r] \ {NextKind(r)}
    BY <1>0, <1>7
  <2>2. \A q \in Requests \ {r} : StepsLeft(q)' = StepsLeft(q)
    BY <2>1 DEF StepsLeft
  <2>3. todo[r] \subseteq {"list", "summary"}
    BY <1>0 DEF Kinds
  <2>4. CASE "list" \in todo[r]
    <3>1. /\ "list" \notin todo'[r]
          /\ "summary" \in todo'[r] <=> "summary" \in todo[r]
      BY <2>1, <2>4 DEF NextKind
    <3> QED BY <2>1, <2>2, <2>4, <3>1, <1>s DEF StepsLeft
  <2>5. CASE "list" \notin todo[r]
    <3>1. "summary" \in todo[r] /\ "summary" \notin todo'[r] /\ "list" \notin todo'[r]
      BY <1>7, <2>1, <2>3, <2>5 DEF NextKind
    <3> QED BY <2>1, <2>2, <2>5, <3>1, <1>s DEF StepsLeft
  <2> QED BY <2>4, <2>5
<1>8. CASE DeleteSection(r)
  <2>1. CASE UNCHANGED todo
    <3>1. pc[r] = "delete_rows" /\ pc' = [pc EXCEPT ![r] = "wait_rows"]
      <4>1. CASE todo[r] # {} /\ todo' = [todo EXCEPT ![r] = @ \ {NextKind(r)}]
        <5>1. NextKind(r) \in todo[r] /\ todo'[r] = todo[r] \ {NextKind(r)}
          BY <1>0, <4>1, NextKindIsDue
        <5> QED BY <2>1, <5>1
      <4> QED BY <1>8, <4>1 DEF DeleteSection
    <3>2. Stage["wait_rows"] \in Nat /\ Stage["wait_rows"] < Stage[pc[r]]
      BY <3>1, <1>s
    <3> QED BY <1>a, <2>1, <3>1, <3>2
  <2>2. CASE todo' # todo
    <3>1. /\ todo[r] # {} /\ todo' = [todo EXCEPT ![r] = @ \ {NextKind(r)}]
          /\ pc[r] = "delete_rows" /\ pc' = pc
      BY <1>8, <2>2 DEF DeleteSection
    <3> QED BY <1>7, <3>1
  <2> QED BY <2>1, <2>2
<1>9. CASE DeleteWaited(r)
  <2>1. /\ todo' = [todo EXCEPT ![r] = @ \ {NextKind(r)}]
        /\ pc[r] = "wait_rows" /\ pc' = [pc EXCEPT ![r] = "delete_rows"]
    BY <1>9 DEF DeleteWaited
  <2>2. todo[r] # {}
    BY <2>1 DEF MasterInv, FlowInv, PutInv, PutFacts, Updating, Swept
  <2> QED BY <1>7, <2>1, <2>2
<1>10. CASE DetectDeadlock(r)
  <2>1. pc[r] \in InFlight /\ pc' = [pc EXCEPT ![r] = "failing"] /\ UNCHANGED todo
    BY <1>10 DEF DetectDeadlock
  <2>2. Blockers(r) # {}
    BY <1>10 DEF DetectDeadlock, InCircle
  <2>3. pc[r] # "failing"
    BY <2>2 DEF Blockers
  <2>4. Stage["failing"] \in Nat /\ Stage["failing"] < Stage[pc[r]]
    BY <2>1, <2>3, <1>s DEF InFlight
  <2> QED BY <1>a, <2>1, <2>4
<1>11. CASE Commit(r) \/ Rollback(r) \/ LoseConnection(r)
  <2>1. /\ pc[r] \in InFlight /\ UNCHANGED todo
        /\ pc' = [pc EXCEPT ![r] = "done"] \/ pc' = [pc EXCEPT ![r] = "failed"]
    BY <1>11 DEF Commit, Rollback, LoseConnection, InFlight
  <2>2. Stage[pc[r]] > 0
    BY <2>1, <1>s DEF InFlight
  <2> QED BY <1>a, <2>1, <2>2, <1>s
<1> QED BY <1>1, <1>2, <1>3, <1>4, <1>5, <1>6, <1>8, <1>9, <1>10, <1>11
        DEF RequestStep, Progress

\* Every request of ResumeService ends after a bounded number of steps of its own.
THEOREM RequestsNearTheirEnd == Spec => NearsItsEnd
<1> DEFINE Nears ==
      \A r \in Requests :
        /\ StepsLeft(r)' <= StepsLeft(r)
        /\ Progress(r) => StepsLeft(r)' < StepsLeft(r)
<1>1. ASSUME MasterInv, PutInv, [Next]_vars PROVE [Nears]_vars
  <2> SUFFICES ASSUME NEW r \in Requests, RequestStep(r) PROVE Nears
    BY <1>1 DEF Next, RequestStep
  <2>1. \A q \in Requests : Progress(q) => StepsLeft(q)' < StepsLeft(q)
    BY <1>1, StepAdvances DEF RequestStep
  <2>2. \A q \in Requests \ {r} : StepsLeft(q)' = StepsLeft(q)
    BY <1>1, StepAdvances
  <2>3. StepsLeft(r)' < StepsLeft(r)
    BY <1>1, StepAdvances
  <2>4. TypeOK /\ TypeOK'
    BY <1>1, TypeStep DEF MasterInv
  <2>5. \A q \in Requests : StepsLeft(q) \in Nat /\ StepsLeft(q)' \in Nat
    BY <2>4, StepsAreNatural
  <2> HIDE DEF Nears
  <2>6. \A q \in Requests : StepsLeft(q)' <= StepsLeft(q)
    BY <2>2, <2>3, <2>5
  <2> QED BY <2>1, <2>6 DEF Nears
<1>2. Init => MasterInv /\ SectionInv /\ PutInv
  BY MasterInvInit, SectionInvInit, PutInvInit
<1>3. MasterInv /\ SectionInv /\ PutInv /\ [Next]_vars => PutInv'
  BY PutStep
<1> QED BY <1>1, <1>2, <1>3, SectionInvariant, PTL DEF Spec, NearsItsEnd
=============================================================================
