------------------------------ MODULE Resumes ------------------------------
(***************************************************************************)
(* The resumes of one user: ResumeService.create, update, set_master and   *)
(* delete as concurrent transactions at READ COMMITTED.  Two users never   *)
(* touch the same row, so one user is enough.                              *)
(*                                                                         *)
(* A statement works on the rows that were committed when it began (its    *)
(* snapshot).  A row that another open transaction wrote makes it wait;    *)
(* once that transaction has ended, the rows of the snapshot that still    *)
(* match are written, but rows committed meanwhile are not looked at.      *)
(***************************************************************************)
EXTENDS Naturals, FiniteSets

CONSTANTS
  Requests,  \* identities of the requests that change resumes
  Resumes,   \* identities of resumes
  Existing,  \* resumes committed before the first request of the model
  Payloads,  \* the sets of sections a request body may carry
  Empties,   \* the sets of them that it may carry without rows
  None

ASSUME ResumesAssumption ==
  /\ Existing \subseteq Resumes /\ IsFiniteSet(Existing)
  /\ Payloads \cup Empties \subseteq SUBSET {"list", "summary"}
  /\ None \notin Requests \cup Resumes \cup {"absent", "draft", "claiming", "master", "deleted"}

\* "list" stands for the five sections with a list of rows, "summary" for the
\* section whose resume_id is unique.  update deletes them in this order; the
\* title it may also set is left out.
Kinds == {"list", "summary"}

\* An update names sections with no rows as well, null or an empty list.
Ops == [kind : {"create"}, master : BOOLEAN, fields : Payloads, empty : {{}}]
         \cup [kind : {"put"}, master : {FALSE}, fields : Payloads, empty : Empties]
         \cup [kind : {"set", "delete"}, master : {FALSE}, fields : {{}}, empty : {{}}]
Given(o) == o.fields \ o.empty

\* A section row, named after the request that inserted it; None inserted
\* those the model starts with.
Row == [by : Requests \cup {None}, kind : Kinds]

VARIABLES
  flag,      \* committed row x of resumes: "absent", "draft", "master", "deleted"
  sect,      \* sect[x]: committed section rows of resume x
  op,        \* what a request does
  on,        \* the resume it does it to
  pc,        \* where it stands
  snap,      \* the master its UPDATE found when it began
  snapRows,  \* the section rows its DELETE found when it began
  todo,      \* sections of the payload still to be deleted
  mine,      \* mine[r][x]: what r's transaction wrote to row x, None if nothing
  dels,      \* section rows r's transaction has deleted
  adds,      \* section rows r's transaction has inserted
  why,       \* the error a request ended with, "none" so far
  overlap    \* history: another change of the resume was committed meanwhile

vars == <<flag, sect, op, on, pc, snap, snapRows, todo, mine, dels, adds, why, overlap>>

----------------------------------------------------------------------------
Live == {"draft", "master"}
Ended == {"done", "failed"}
InFlight == {"load", "scan", "unset", "write", "claim", "delete_rows", "wait_rows",
             "insert", "delete", "commit", "failing"}

NextKind(r) == IF "list" \in todo[r] THEN "list" ELSE "summary"

\* The section rows the next DELETE of r finds, and those of a waiting one.
Snapshot(r) ==
  IF pc[r] = "wait_rows" THEN snapRows[r]
  ELSE {s \in sect[on[r]] : s.kind = NextKind(r)}

\* The open transactions whose end q's statement has to wait for: writers of
\* the row it writes, transactions that may give or take the master flag of
\* another row while q's row enters ix_resume_master_per_user, deleters of its
\* section rows, and whoever decides about the summary's unique resume_id.
MayFreeMaster(r, q) ==
  \E y \in Resumes \ {on[r]} :
    mine[q][y] # None /\ (flag[y] = "master" \/ mine[q][y] = "master")
MayFreeSummary(r, q) ==
  \/ on[q] = on[r] /\ [by |-> q, kind |-> "summary"] \in adds[q]
  \/ \E s \in dels[q] \cap sect[on[r]] : s.kind = "summary"
Touches(r, q) ==
  \/ mine[q][on[r]] # None
  \/ dels[q] \cap sect[on[r]] # {}
  \/ on[q] = on[r] /\ adds[q] # {}

Blockers(r) ==
  {q \in Requests \ {r} :
    \/ pc[r] = "unset" /\ mine[q][snap[r]] # None
    \/ pc[r] = "write" /\ mine[q][on[r]] # None
    \/ pc[r] = "claim" /\ MayFreeMaster(r, q)
    \/ pc[r] = "delete_rows" /\ todo[r] # {} /\ dels[q] \cap Snapshot(r) # {}
    \/ pc[r] = "wait_rows" /\ dels[q] \cap Snapshot(r) # {}
    \/ pc[r] = "insert" /\ mine[q][on[r]] = "deleted"
    \/ pc[r] = "insert" /\ "summary" \in Given(op[r]) /\ MayFreeSummary(r, q)
    \/ pc[r] = "delete" /\ Touches(r, q)}

\* r waits in a circle: the smallest set of requests that block one another.
InCircle(r) ==
  \E C \in SUBSET Requests :
    /\ r \in C
    /\ \A q \in C : Blockers(q) \cap C # {}
    /\ \A D \in (SUBSET C) \ {{}, C} : \E q \in D : Blockers(q) \cap D = {}

\* The database without the partial unique index.
NeverTaken(r, x) == FALSE

\* A committed master that r's transaction has not unset.
MasterTaken(r, x) ==
  \E y \in Resumes \ {x} : flag[y] = "master" /\ mine[r][y] = None

Goto(r, label) == pc' = [pc EXCEPT ![r] = label]
Fail(r, reason) ==
  /\ pc' = [pc EXCEPT ![r] = "failing"]
  /\ why' = [why EXCEPT ![r] = reason]

Init ==
  /\ flag \in [Resumes -> {"absent", "draft", "master"}]
  /\ \A x \in Resumes : x \in Existing <=> flag[x] # "absent"
  /\ Cardinality({x \in Resumes : flag[x] = "master"}) <= 1
  /\ sect = [x \in Resumes |->
               IF x \in Existing THEN [by : {None}, kind : Kinds] ELSE {}]
  /\ op = [r \in Requests |-> None]
  /\ on = [r \in Requests |-> None]
  /\ pc = [r \in Requests |-> "new"]
  /\ snap = [r \in Requests |-> None]
  /\ snapRows = [r \in Requests |-> {}]
  /\ todo = [r \in Requests |-> {}]
  /\ mine = [r \in Requests |-> [x \in Resumes |-> None]]
  /\ dels = [r \in Requests |-> {}]
  /\ adds = [r \in Requests |-> {}]
  /\ why = [r \in Requests |-> "none"]
  /\ overlap = [r \in Requests |-> FALSE]

\* A request arrives; create draws a fresh ULID.
Arrive(r) ==
  /\ pc[r] = "new"
  /\ \E o \in Ops, x \in Resumes :
       /\ IF o.kind = "create"
          THEN flag[x] = "absent" /\ \A q \in Requests : on[q] # x
          ELSE flag[x] # "absent"
       /\ o.empty \subseteq o.fields
       /\ op' = [op EXCEPT ![r] = o]
       /\ on' = [on EXCEPT ![r] = x]
       /\ todo' = [todo EXCEPT ![r] = IF o.kind = "put" THEN o.fields ELSE {}]
       /\ Goto(r, IF o.kind # "create" THEN "load"
                  ELSE IF o.master THEN "scan" ELSE "write")
  /\ UNCHANGED <<flag, sect, snap, snapRows, mine, dels, adds, why, overlap>>

\* get_by_id, and the early return of set_master.
Load(r) ==
  LET x == on[r] IN
  /\ pc[r] = "load"
  /\ \/ /\ flag[x] \notin Live
        /\ Fail(r, "not_found")
     \/ /\ flag[x] \in Live
        /\ Goto(r, IF op[r].kind = "delete" THEN "delete"
                   ELSE IF op[r].kind = "put" THEN "delete_rows"
                   ELSE IF flag[x] = "master" THEN "commit"
                   ELSE "scan")
        /\ UNCHANGED why
  /\ overlap' = [overlap EXCEPT ![r] = FALSE]
  /\ UNCHANGED <<flag, sect, op, on, snap, snapRows, todo, mine, dels, adds>>

\* unset_master_for_user begins: the UPDATE finds the committed master.
ScanMaster(r) ==
  /\ pc[r] = "scan"
  /\ \/ /\ \E m \in Resumes : flag[m] = "master" /\ snap' = [snap EXCEPT ![r] = m]
        /\ Goto(r, "unset")
     \/ /\ \A m \in Resumes : flag[m] # "master"
        /\ Goto(r, "write")
        /\ UNCHANGED snap
  /\ UNCHANGED <<flag, sect, op, on, snapRows, todo, mine, dels, adds, why, overlap>>

\* The UPDATE writes the row it found, if it still is a master.
UnsetMaster(r) ==
  LET m == snap[r] IN
  /\ pc[r] = "unset"
  /\ Blockers(r) = {}
  /\ mine' = IF flag[m] = "master" THEN [mine EXCEPT ![r][m] = "draft"] ELSE mine
  /\ Goto(r, "write")
  /\ UNCHANGED <<flag, sect, op, on, snap, snapRows, todo, dels, adds, why, overlap>>

\* The INSERT of create, or the UPDATE of set_master on its own row, which
\* matches no row if the resume was deleted meanwhile.
WriteRow(r) ==
  LET x == on[r] IN
  /\ pc[r] = "write"
  /\ Blockers(r) = {}
  /\ \/ /\ op[r].kind = "set" /\ flag[x] \notin Live
        /\ Fail(r, "stale_row")
        /\ UNCHANGED mine
     \/ /\ op[r].kind = "set" => flag[x] \in Live
        /\ mine' = [mine EXCEPT ![r][x] =
                      IF op[r].kind = "set" \/ op[r].master THEN "claiming" ELSE "draft"]
        /\ Goto(r, IF op[r].kind = "set" \/ op[r].master THEN "claim" ELSE "insert")
        /\ UNCHANGED why
  /\ UNCHANGED <<flag, sect, op, on, snap, snapRows, todo, dels, adds, overlap>>

\* The flag of the row is left as it was when the index accepted it.
ClaimWithoutFlag(r) ==
  /\ pc[r] = "claim"
  /\ Blockers(r) = {}
  /\ ~MasterTaken(r, on[r])
  /\ Goto(r, IF op[r].kind = "create" THEN "insert" ELSE "commit")
  /\ UNCHANGED <<flag, sect, op, on, snap, snapRows, todo, mine, dels, adds, why, overlap>>

\* The index entry for the row just written.
ClaimMaster(r) ==
  LET x == on[r] IN
  /\ pc[r] = "claim"
  /\ Blockers(r) = {}
  /\ \/ /\ MasterTaken(r, x)
        /\ Fail(r, "unique_master")
        /\ UNCHANGED mine
     \/ /\ ~MasterTaken(r, x)
        /\ mine' = [mine EXCEPT ![r][x] = "master"]
        /\ Goto(r, IF op[r].kind = "create" THEN "insert" ELSE "commit")
        /\ UNCHANGED why
  /\ UNCHANGED <<flag, sect, op, on, snap, snapRows, todo, dels, adds, overlap>>

\* delete_sections, the helper that clears all six sections, called instead.
DeleteAllSections(r) ==
  /\ pc[r] = "delete_rows" /\ todo[r] # {}
  /\ Blockers(r) = {}
  /\ dels' = [dels EXCEPT ![r] = sect[on[r]]]
  /\ todo' = [todo EXCEPT ![r] = {}]
  /\ UNCHANGED <<flag, sect, op, on, pc, snap, snapRows, mine, adds, why, overlap>>

\* delete_section for the next section of the payload.
DeleteSection(r) ==
  /\ pc[r] = "delete_rows" /\ todo[r] # {}
  /\ \/ /\ Blockers(r) = {}
        /\ dels' = [dels EXCEPT ![r] = @ \cup Snapshot(r)]
        /\ todo' = [todo EXCEPT ![r] = @ \ {NextKind(r)}]
        /\ UNCHANGED <<pc, snapRows>>
     \/ /\ Blockers(r) # {}
        /\ snapRows' = [snapRows EXCEPT ![r] = Snapshot(r)]
        /\ Goto(r, "wait_rows")
        /\ UNCHANGED <<dels, todo>>
  /\ UNCHANGED <<flag, sect, op, on, snap, mine, adds, why, overlap>>

\* The DELETE had to wait; of its snapshot it deletes what is still there.
DeleteWaited(r) ==
  /\ pc[r] = "wait_rows"
  /\ Blockers(r) = {}
  /\ dels' = [dels EXCEPT ![r] = @ \cup (snapRows[r] \cap sect[on[r]])]
  /\ todo' = [todo EXCEPT ![r] = @ \ {NextKind(r)}]
  /\ Goto(r, "delete_rows")
  /\ UNCHANGED <<flag, sect, op, on, snap, snapRows, mine, adds, why, overlap>>

AllDeleted(r) ==
  /\ pc[r] = "delete_rows" /\ todo[r] = {}
  /\ Goto(r, "insert")
  /\ UNCHANGED <<flag, sect, op, on, snap, snapRows, todo, mine, dels, adds, why, overlap>>

SummaryTaken(r) == \E s \in sect[on[r]] \ dels[r] : s.kind = "summary"

\* The flush: the payload's rows.  The foreign key waits for an open deletion
\* of the resume and fails if it is gone; summary rows are unique.
InsertSections(r) ==
  LET x == on[r]
      rows == {[by |-> r, kind |-> k] : k \in Given(op[r])}
      summary == "summary" \in Given(op[r])
  IN
  /\ pc[r] = "insert"
  /\ Blockers(r) = {}
  /\ \/ /\ op[r].kind = "put" /\ flag[x] \notin Live
        /\ Fail(r, "stale_row")
        /\ UNCHANGED adds
     \/ /\ op[r].kind = "put" => flag[x] \in Live
        /\ summary /\ SummaryTaken(r)
        /\ Fail(r, "unique_summary")
        /\ UNCHANGED adds
     \/ /\ op[r].kind = "put" => flag[x] \in Live
        /\ ~(summary /\ SummaryTaken(r))
        /\ adds' = [adds EXCEPT ![r] = rows]
        /\ Goto(r, "commit")
        /\ UNCHANGED why
  /\ UNCHANGED <<flag, sect, op, on, snap, snapRows, todo, mine, dels, overlap>>

\* A delete whose sections neither cascade nor hold it up.
DeleteRowOnly(r) ==
  LET x == on[r] IN
  /\ pc[r] = "delete"
  /\ Blockers(r) = {}
  /\ mine' = IF flag[x] \in Live THEN [mine EXCEPT ![r][x] = "deleted"] ELSE mine
  /\ Goto(r, "commit")
  /\ UNCHANGED <<flag, sect, op, on, snap, snapRows, todo, dels, adds, why, overlap>>

\* ResumeService.delete: the section rows and the resume, once no other open
\* transaction has written, deleted or inserted one of them.
DeleteResume(r) ==
  LET x == on[r] IN
  /\ pc[r] = "delete"
  /\ Blockers(r) = {}
  /\ mine' = IF flag[x] \in Live THEN [mine EXCEPT ![r][x] = "deleted"] ELSE mine
  /\ dels' = [dels EXCEPT ![r] = sect[x]]
  /\ Goto(r, "commit")
  /\ UNCHANGED <<flag, sect, op, on, snap, snapRows, todo, adds, why, overlap>>

\* What the transaction of r leaves behind when it has ended.
Forget(r) ==
  /\ mine' = [mine EXCEPT ![r] = [x \in Resumes |-> None]]
  /\ dels' = [dels EXCEPT ![r] = {}]
  /\ adds' = [adds EXCEPT ![r] = {}]

\* get_db after the handler returned.
Commit(r) ==
  LET x == on[r] IN
  /\ pc[r] = "commit"
  /\ flag' = [y \in Resumes |-> IF mine[r][y] = None THEN flag[y] ELSE mine[r][y]]
  /\ sect' = [sect EXCEPT ![x] = (@ \ dels[r]) \cup adds[r]]
  /\ overlap' = [q \in Requests |-> overlap[q] \/ (q # r /\ on[q] = x)]
  /\ Forget(r)
  /\ Goto(r, "done")
  /\ UNCHANGED <<op, on, snap, snapRows, todo, why>>

\* An error after the old master was unset, with the flush kept.
RollbackKeepsFlush(r) ==
  /\ pc[r] = "failing"
  /\ flag' = [y \in Resumes |->
                IF mine[r][y] \in {None, "claiming"} THEN flag[y] ELSE mine[r][y]]
  /\ Forget(r)
  /\ Goto(r, "failed")
  /\ UNCHANGED <<sect, op, on, snap, snapRows, todo, why, overlap>>

\* The session is not closed after an exception: its locks stay.
RollbackLeaks(r) ==
  /\ pc[r] = "failing"
  /\ Goto(r, "failed")
  /\ UNCHANGED <<flag, sect, op, on, snap, snapRows, todo, mine, dels, adds, why, overlap>>

\* get_db after an exception.
Rollback(r) ==
  /\ pc[r] = "failing"
  /\ Forget(r)
  /\ Goto(r, "failed")
  /\ UNCHANGED <<flag, sect, op, on, snap, snapRows, todo, why, overlap>>

\* PostgreSQL cancels one of the statements that wait in a circle.
DetectDeadlock(r) ==
  /\ pc[r] \in InFlight /\ InCircle(r)
  /\ Fail(r, "deadlock")
  /\ UNCHANGED <<flag, sect, op, on, snap, snapRows, todo, mine, dels, adds, overlap>>

\* The worker or its connection dies.
LoseConnection(r) ==
  /\ pc[r] \in InFlight \ {"failing"}
  /\ Forget(r)
  /\ pc' = [pc EXCEPT ![r] = "failed"]
  /\ why' = [why EXCEPT ![r] = "connection"]
  /\ UNCHANGED <<flag, sect, op, on, snap, snapRows, todo, overlap>>

----------------------------------------------------------------------------
Progress(r) ==
  \/ Load(r)
  \/ ScanMaster(r)
  \/ UnsetMaster(r)
  \/ WriteRow(r)
  \/ ClaimMaster(r)
  \/ DeleteSection(r)
  \/ DeleteWaited(r)
  \/ AllDeleted(r)
  \/ InsertSections(r)
  \/ DeleteResume(r)
  \/ DetectDeadlock(r)
  \/ Commit(r)
  \/ Rollback(r)

Next ==
  \/ \E r \in Requests : Arrive(r)
  \/ \E r \in Requests : Progress(r)
  \/ \E r \in Requests : LoseConnection(r)

Spec == Init /\ [][Next]_vars

----------------------------------------------------------------------------
(* Properties. *)

Flags == {"absent", "draft", "master", "deleted"}

\* Every variable has its type: rows, what the open transactions wrote and the
\* reasons they fail for (resume_service, resume_repo).
TypeOK ==
  /\ flag \in [Resumes -> Flags]
  /\ sect \in [Resumes -> SUBSET Row]
  /\ op \in [Requests -> Ops \cup {None}]
  /\ on \in [Requests -> Resumes \cup {None}]
  /\ pc \in [Requests -> {"new"} \cup InFlight \cup Ended]
  /\ snap \in [Requests -> Resumes \cup {None}]
  /\ snapRows \in [Requests -> SUBSET Row]
  /\ todo \in [Requests -> SUBSET Kinds]
  /\ mine \in [Requests -> [Resumes -> Flags \cup {"claiming", None}]]
  /\ dels \in [Requests -> SUBSET Row]
  /\ adds \in [Requests -> SUBSET Row]
  /\ why \in [Requests -> {"none", "not_found", "stale_row", "unique_master",
                           "unique_summary", "deadlock", "connection"}]
  /\ overlap \in [Requests -> BOOLEAN]

\* Whatever creates and swaps run at once, a user has one master resume at
\* most, so that get_master's scalar_one_or_none never finds two.
AtMostOneMaster == Cardinality({x \in Resumes : flag[x] = "master"}) <= 1

\* A user who has a master loses it only by deleting that very resume: a swap
\* interleaved with another swap, a create or a failure leaves one behind.
MasterSurvivesSwaps ==
  [][(\E x \in Resumes : flag[x] = "master") /\ (\A x \in Resumes : flag'[x] # "master")
       => \E r \in Requests :
            /\ pc[r] = "commit" /\ op[r].kind = "delete"
            /\ flag[on[r]] = "master" /\ flag'[on[r]] = "deleted"]_vars

\* Sections belong to existing resumes: an update racing a delete neither
\* revives the resume nor leaves rows of it behind; and Resume.summary is one
\* row or none, whatever updates run at once.
SectionsBelong ==
  \A x \in Resumes :
    /\ sect[x] # {} => flag[x] \in Live
    /\ Cardinality({s \in sect[x] : s.kind = "summary"}) <= 1

\* The promise: see module MasterRegister.
Register == INSTANCE MasterRegister WITH
  live <- {x \in Resumes : flag[x] \in Live},
  gone <- {x \in Resumes : flag[x] = "deleted"},
  master <- {x \in Resumes : flag[x] = "master"}

\* Whoever sees only the committed rows of resumes sees a register: each
\* request, however it was interleaved, delayed or aborted (get_db), has one
\* effect at one moment or none at all.
RegisterSpec == Register!Spec

\* An update that met no other change of the resume while it ran replaces
\* every section of its payload, by nothing where the payload has no rows for it,
\* and leaves the other sections alone.
UndisturbedPutReplaces ==
  [][\A r \in Requests :
       pc[r] = "commit" /\ pc'[r] = "done" /\ op[r].kind = "put" /\ ~overlap[r] =>
         \A k \in Kinds :
           {s \in sect'[on[r]] : s.kind = k} =
             IF k \in op[r].fields THEN {[by |-> r, kind |-> j] : j \in {k} \cap Given(op[r])}
             ELSE {s \in sect[on[r]] : s.kind = k}]_vars

\* As long as a request is open, some request can go on: the waits for rows,
\* sections and the index end, if need be because the database breaks a circle.
NoStandstill ==
  (\E r \in Requests : pc[r] \in InFlight) => \E r \in Requests : ENABLED Progress(r)

\* DOMAIN.md: setting a new master silently unsets the previous one, "there is
\* no 'master already exists' error path".
NoMasterErrorPath ==
  \A r \in Requests : why[r] \notin {"unique_master", "deadlock"}
=============================================================================
