------------------------------- MODULE Shoot -------------------------------
(***************************************************************************)
(* POST /resumes/shoot: one database transaction per request, the upsert   *)
(* of the monthly counter, the call of the AI provider while the counter's *)
(* row stays locked, the storage of the tailored resume, and the answer.   *)
(*                                                                         *)
(* A step is what happens between two awaits.  The database is PostgreSQL  *)
(* at READ COMMITTED: a statement sees what was committed when it ran and  *)
(* its own transaction's writes; a row written by a transaction stays      *)
(* locked until that transaction commits or rolls back.                    *)
(***************************************************************************)
EXTENDS Naturals, FiniteSets

CONSTANTS
  Users,       \* users that shoot
  Requests,    \* identities of the POST /resumes/shoot requests
  UserOf,      \* the user whose token a request carries
  Resumes,     \* identities of resumes
  ResumeOf,    \* the user a resume belongs to
  FreeLimit,   \* PlanLimitsConfig.FREE.max_shots_per_month
  MaxMonth,    \* bound: the last calendar month of the model
  None         \* no request, no resume

ASSUME ShootAssumption ==
  /\ IsFiniteSet(Requests)
  /\ UserOf \in [Requests -> Users]
  /\ ResumeOf \in [Resumes -> Users]
  /\ FreeLimit \in Nat
  /\ MaxMonth \in Nat \ {0}
  /\ None \notin Requests \cup Resumes

Months == 1 .. MaxMonth
Tiers == {"free", "paid"}

VARIABLES
  clock,      \* the current calendar month
  plan,       \* plan[u]: tier of the user's earliest-joined organization
  resume,     \* resume[x]: "absent", "draft", "master" or "deleted"
  usage,      \* usage[u][m]: committed shots_used, 0 when there is no row
  lock,       \* lock[u][m]: the request whose transaction wrote the row
  stored,     \* requests whose TailoredResume is committed
  source,     \* source_resume_id of a request's TailoredResume
  pc,         \* where each request stands
  tier,       \* the plan a request resolved when it authenticated
  target,     \* the resume a request tailors
  period,     \* the month a request charges
  relPeriod,  \* the month release_shot computed
  seen,       \* shots_used as decrement_usage read it
  written,    \* written[r][m]: shots_used as r's transaction wrote it
  answer      \* what the client was told: "none", "ok" or "error"

dbVars == <<clock, plan, resume, usage, lock, stored, source>>
reqVars == <<pc, tier, target, period, relPeriod, seen, written, answer>>
vars == <<clock, plan, resume, usage, lock, stored, source,
          pc, tier, target, period, relPeriod, seen, written, answer>>

----------------------------------------------------------------------------
(* Control points of a request. *)

\* Past the limit check, the counter's row locked, no error so far.
Charged == {"charged", "ai", "inserting", "inserted", "answered"}
\* A request whose AI answer had the wrong shape, on its way to release_shot.
Releasing == {"releasing", "decrementing"}
\* The transaction is open.
InFlight == {"authed", "charging", "failing"} \cup Charged \cup Releasing
Ended == {"done", "failed", "lost"}
Control == {"new"} \cup InFlight \cup Ended

Live == {"draft", "master"}

\* The master resume of user u, None if there is none.
MasterOf(u) ==
  IF \E x \in Resumes : ResumeOf[x] = u /\ resume[x] = "master"
  THEN CHOOSE x \in Resumes : ResumeOf[x] = u /\ resume[x] = "master"
  ELSE None

\* shots_used of row (user of r, m) as a SELECT of r's transaction sees it.
Visible(r, m) ==
  IF lock[UserOf[r]][m] = r THEN written[r][m] ELSE usage[UserOf[r]][m]

\* The upsert or update of r on row (user of r, m) need not wait.
LockFree(r, m) == lock[UserOf[r]][m] \in {None, r}

\* The locks once r's transaction has ended.
Unlocked(r) ==
  [u \in Users |-> [m \in Months |-> IF lock[u][m] = r THEN None ELSE lock[u][m]]]

\* r's transaction writes value v to the counter of month m.
Write(r, m, v) ==
  /\ lock' = [lock EXCEPT ![UserOf[r]][m] = r]
  /\ written' = [written EXCEPT ![r][m] = v]

\* A request's own data goes with its session; the month and the plan of a
\* request that ends uncharged go, too.
Forget(r) ==
  /\ target' = [target EXCEPT ![r] = None]
  /\ relPeriod' = [relPeriod EXCEPT ![r] = 1]
  /\ seen' = [seen EXCEPT ![r] = 0]
  /\ written' = [written EXCEPT ![r] = [m \in Months |-> 0]]
Uncharged(r) ==
  /\ tier' = [tier EXCEPT ![r] = "free"]
  /\ period' = [period EXCEPT ![r] = 1]

Goto(r, label) == pc' = [pc EXCEPT ![r] = label]

OverLimit(t, n) == t = "free" /\ n > FreeLimit

\* GET /resumes/shots/remaining for a FREE user in the current month.
ShotsRemaining(u) ==
  IF usage[u][clock] >= FreeLimit THEN 0 ELSE FreeLimit - usage[u][clock]

----------------------------------------------------------------------------
Init ==
  /\ clock = 1
  /\ plan \in [Users -> Tiers]
  /\ resume = [x \in Resumes |-> "absent"]
  /\ usage = [u \in Users |-> [m \in Months |-> 0]]
  /\ lock = [u \in Users |-> [m \in Months |-> None]]
  /\ stored = {}
  /\ source = [r \in Requests |-> None]
  /\ pc = [r \in Requests |-> "new"]
  /\ tier = [r \in Requests |-> "free"]
  /\ target = [r \in Requests |-> None]
  /\ period = [r \in Requests |-> 1]
  /\ relPeriod = [r \in Requests |-> 1]
  /\ seen = [r \in Requests |-> 0]
  /\ written = [r \in Requests |-> [m \in Months |-> 0]]
  /\ answer = [r \in Requests |-> "none"]

\* The request arrives: get_verified_user loads the user, the memberships and
\* the organizations in the request's session; _resolve_plan reads them later.
Authenticate(r) ==
  /\ pc[r] = "new"
  /\ tier' = [tier EXCEPT ![r] = plan[UserOf[r]]]
  /\ Goto(r, "authed")
  /\ UNCHANGED <<dbVars, target, period, relPeriod, seen, written, answer>>

\* get_master, then the month is computed and the upsert is sent.
GetMaster(r) ==
  LET x == MasterOf(UserOf[r]) IN
  /\ pc[r] = "authed"
  /\ \/ /\ x = None
        /\ Goto(r, "failing")
        /\ UNCHANGED <<target, period>>
     \/ /\ x # None
        /\ target' = [target EXCEPT ![r] = x]
        /\ period' = [period EXCEPT ![r] = clock]
        /\ Goto(r, "charging")
  /\ UNCHANGED <<dbVars, tier, relPeriod, seen, written, answer>>

\* The upsert as it would be without its row lock: the count is computed from
\* a value another open transaction is about to replace.
UpsertUnlocked(r) ==
  LET n == usage[UserOf[r]][period[r]] + 1 IN
  /\ pc[r] = "charging"
  /\ Write(r, period[r], n)
  /\ Goto(r, IF OverLimit(tier[r], n) THEN "failing" ELSE "charged")
  /\ UNCHANGED <<clock, plan, resume, usage, stored, source,
                 tier, target, period, relPeriod, seen, answer>>

\* The limit compared with the count before the increment.
UpsertOffByOne(r) ==
  LET n == usage[UserOf[r]][period[r]] + 1 IN
  /\ pc[r] = "charging"
  /\ LockFree(r, period[r])
  /\ Write(r, period[r], n)
  /\ Goto(r, IF OverLimit(tier[r], n - 1) THEN "failing" ELSE "charged")
  /\ UNCHANGED <<clock, plan, resume, usage, stored, source,
                 tier, target, period, relPeriod, seen, answer>>

\* create_or_increment_usage and the comparison of the returned count.
Upsert(r) ==
  LET n == usage[UserOf[r]][period[r]] + 1 IN
  /\ pc[r] = "charging"
  /\ LockFree(r, period[r])
  /\ Write(r, period[r], n)
  /\ Goto(r, IF OverLimit(tier[r], n) THEN "failing" ELSE "charged")
  /\ UNCHANGED <<clock, plan, resume, usage, stored, source,
                 tier, target, period, relPeriod, seen, answer>>

\* tailor: the job description may be too short; the resume is loaded again
\* and may be gone.
LoadResume(r) ==
  /\ pc[r] = "charged"
  /\ \/ Goto(r, "failing")
     \/ resume[target[r]] \in Live /\ Goto(r, "ai")
  /\ UNCHANGED <<dbVars, tier, target, period, relPeriod, seen, written, answer>>

\* release_shot aims at the month before the current one.
AiRepliesMonthEarlier(r) ==
  /\ pc[r] = "ai"
  /\ \/ /\ Goto(r, "inserting")
        /\ UNCHANGED relPeriod
     \/ /\ Goto(r, "failing")
        /\ UNCHANGED relPeriod
     \/ /\ Goto(r, "releasing")
        /\ relPeriod' = [relPeriod EXCEPT ![r] = IF clock = 1 THEN 1 ELSE clock - 1]
  /\ UNCHANGED <<dbVars, tier, target, period, seen, written, answer>>

\* call_ai raises: no key, an error of the provider, or its 60 s are over.
CallFails(r) == Goto(r, "failing") /\ UNCHANGED relPeriod

\* call_ai raises, or it returns a text that _parse_response judges.
AiReplies(r) ==
  /\ pc[r] = "ai"
  /\ \/ CallFails(r)
     \/ /\ Goto(r, "inserting")           \* six sections of the right shape
        /\ UNCHANGED relPeriod
     \/ /\ Goto(r, "failing")             \* not JSON, or a section is missing
        /\ UNCHANGED relPeriod
     \/ /\ Goto(r, "releasing")           \* TailoringValidationError
        /\ relPeriod' = [relPeriod EXCEPT ![r] = clock]
  /\ UNCHANGED <<dbVars, tier, target, period, seen, written, answer>>

\* decrement_usage without its test for an absent or zero counter.
ReadUsageUnguarded(r) ==
  LET n == Visible(r, relPeriod[r]) IN
  /\ pc[r] = "releasing"
  /\ seen' = [seen EXCEPT ![r] = n]
  /\ Goto(r, "decrementing")
  /\ UNCHANGED <<dbVars, tier, target, period, relPeriod, written, answer>>

\* decrement_usage reads the counter of the month release_shot computed.
ReadUsage(r) ==
  LET n == Visible(r, relPeriod[r]) IN
  /\ pc[r] = "releasing"
  /\ seen' = [seen EXCEPT ![r] = n]
  /\ Goto(r, IF n > 0 THEN "decrementing" ELSE "failing")
  /\ UNCHANGED <<dbVars, tier, target, period, relPeriod, written, answer>>

\* decrement_usage flushes the value it computed from its read; the error is
\* raised again.
Decrement(r) ==
  /\ pc[r] = "decrementing"
  /\ LockFree(r, relPeriod[r])
  /\ Write(r, relPeriod[r], seen[r] - 1)
  /\ Goto(r, "failing")
  /\ UNCHANGED <<clock, plan, resume, usage, stored, source,
                 tier, target, period, relPeriod, seen, answer>>

\* The repository commits what it inserts instead of flushing it.
InsertTailoredCommits(r) ==
  LET u == UserOf[r] IN
  /\ pc[r] = "inserting"
  /\ resume[target[r]] \in Live
  /\ source' = [source EXCEPT ![r] = target[r]]
  /\ usage' = [usage EXCEPT ![u] =
                 [m \in Months |-> IF lock[u][m] = r THEN written[r][m] ELSE @[m]]]
  /\ lock' = Unlocked(r)
  /\ stored' = stored \cup {r}
  /\ Goto(r, "inserted")
  /\ UNCHANGED <<clock, plan, resume, tier, target, period, relPeriod, seen, written,
                 answer>>

\* The JobDescription and the TailoredResume are inserted; the foreign key
\* locks the source resume against deletion, or fails if it is gone.
InsertTailored(r) ==
  /\ pc[r] = "inserting"
  /\ \/ /\ resume[target[r]] \in Live
        /\ source' = [source EXCEPT ![r] = target[r]]
        /\ Goto(r, "inserted")
     \/ /\ resume[target[r]] \notin Live
        /\ Goto(r, "failing")
        /\ UNCHANGED source
  /\ UNCHANGED <<clock, plan, resume, usage, lock, stored,
                 tier, target, period, relPeriod, seen, written, answer>>

\* map_fields, the audit row and the response.  The response is sent before
\* get_db commits; or one of the three raises (a field the AI left null, the
\* audit row's flush) when the tailored resume has been inserted already.
Answer(r) ==
  /\ pc[r] = "inserted"
  /\ \/ /\ answer' = [answer EXCEPT ![r] = "ok"]
        /\ Goto(r, "answered")
     \/ /\ Goto(r, "failing")
        /\ UNCHANGED answer
  /\ UNCHANGED <<dbVars, tier, target, period, relPeriod, seen, written>>

\* get_db after the handler returned.
Commit(r) ==
  LET u == UserOf[r] IN
  /\ pc[r] = "answered"
  /\ usage' = [usage EXCEPT ![u] =
                 [m \in Months |-> IF lock[u][m] = r THEN written[r][m] ELSE @[m]]]
  /\ lock' = Unlocked(r)
  /\ stored' = stored \cup {r}
  /\ Goto(r, "done")
  /\ Forget(r)
  /\ UNCHANGED <<clock, plan, resume, source, tier, period, answer>>

\* The handler answers the error itself, so that get_db commits what the
\* failed request wrote.
RollbackSwallowed(r) ==
  LET u == UserOf[r] IN
  /\ pc[r] = "failing"
  /\ usage' = [usage EXCEPT ![u] =
                 [m \in Months |-> IF lock[u][m] = r THEN written[r][m] ELSE @[m]]]
  /\ lock' = Unlocked(r)
  /\ stored' = IF source[r] # None THEN stored \cup {r} ELSE stored
  /\ answer' = [answer EXCEPT ![r] = "error"]
  /\ Goto(r, "failed")
  /\ Forget(r)
  /\ UNCHANGED <<clock, plan, resume, source, tier, period>>

\* The session is neither rolled back nor closed: its locks stay.
RollbackLeaks(r) ==
  /\ pc[r] = "failing"
  /\ answer' = [answer EXCEPT ![r] = "error"]
  /\ Goto(r, "failed")
  /\ UNCHANGED <<dbVars, tier, target, period, relPeriod, seen, written>>

\* get_db after an exception, then the exception handler's answer.
Rollback(r) ==
  /\ pc[r] = "failing"
  /\ lock' = Unlocked(r)
  /\ source' = [source EXCEPT ![r] = None]
  /\ answer' = [answer EXCEPT ![r] = "error"]
  /\ Goto(r, "failed")
  /\ Forget(r)
  /\ Uncharged(r)
  /\ UNCHANGED <<clock, plan, resume, usage, stored>>

\* The worker or its connection dies: the database rolls back, the client
\* keeps what it was told.
LoseConnection(r) ==
  /\ pc[r] \in InFlight
  /\ lock' = Unlocked(r)
  /\ source' = [source EXCEPT ![r] = None]
  /\ Goto(r, "lost")
  /\ Forget(r)
  /\ Uncharged(r)
  /\ UNCHANGED <<clock, plan, resume, usage, stored, answer>>

----------------------------------------------------------------------------
(* The rest of the system, as far as a Shoot can notice it. *)

NewMonth ==
  /\ clock < MaxMonth
  /\ clock' = clock + 1
  /\ UNCHANGED <<plan, resume, usage, lock, stored, source, reqVars>>

\* Billing changes the plan of the user's organization.
ChangePlan(u) ==
  /\ \E t \in Tiers \ {plan[u]} : plan' = [plan EXCEPT ![u] = t]
  /\ UNCHANGED <<clock, resume, usage, lock, stored, source, reqVars>>

\* ResumeService.create or set_master: x is the user's master afterwards.
MakeMaster(x) ==
  /\ resume[x] \in {"absent", "draft"}
  /\ resume' = [y \in Resumes |->
                  IF y = x THEN "master"
                  ELSE IF ResumeOf[y] = ResumeOf[x] /\ resume[y] = "master"
                  THEN "draft"
                  ELSE resume[y]]
  /\ UNCHANGED <<clock, plan, usage, lock, stored, source, reqVars>>

\* ResumeService.delete without the foreign key's SET NULL.
DeleteResumeKeepsSource(x) ==
  /\ resume[x] \in Live
  /\ \A r \in Requests : pc[r] \in InFlight => source[r] # x
  /\ resume' = [resume EXCEPT ![x] = "deleted"]
  /\ UNCHANGED <<clock, plan, usage, lock, stored, source, reqVars>>

\* ResumeService.delete: waits for open transactions that reference x, and
\* nulls the reference of the stored ones.
DeleteResume(x) ==
  /\ resume[x] \in Live
  /\ \A r \in Requests : pc[r] \in InFlight => source[r] # x
  /\ resume' = [resume EXCEPT ![x] = "deleted"]
  /\ source' = [r \in Requests |-> IF source[r] = x THEN None ELSE source[r]]
  /\ UNCHANGED <<clock, plan, usage, lock, stored, reqVars>>

----------------------------------------------------------------------------
\* The steps a request takes by itself once it has arrived.
Progress(r) ==
  \/ GetMaster(r)
  \/ Upsert(r)
  \/ LoadResume(r)
  \/ AiReplies(r)
  \/ ReadUsage(r)
  \/ Decrement(r)
  \/ InsertTailored(r)
  \/ Answer(r)
  \/ Commit(r)
  \/ Rollback(r)

Next ==
  \/ \E r \in Requests : Authenticate(r)
  \/ \E r \in Requests : Progress(r)
  \/ \E r \in Requests : LoseConnection(r)
  \/ NewMonth
  \/ \E u \in Users : ChangePlan(u)
  \/ \E x \in Resumes : MakeMaster(x)
  \/ \E x \in Resumes : DeleteResume(x)

Spec == Init /\ [][Next]_vars

\* The event loop resumes every coroutine whose await is over, the AI client
\* has a timeout of 60 s, and PostgreSQL grants a lock that is free.
FairSpec == Spec /\ \A r \in Requests : WF_vars(Progress(r))

----------------------------------------------------------------------------
(* Properties. *)

\* Every variable has its type; no counter, committed or written, is negative
\* (decrement_usage, the upsert).
TypeOK ==
  /\ clock \in Months
  /\ plan \in [Users -> Tiers]
  /\ resume \in [Resumes -> {"absent", "draft", "master", "deleted"}]
  /\ usage \in [Users -> [Months -> Nat]]
  /\ lock \in [Users -> [Months -> Requests \cup {None}]]
  /\ stored \in SUBSET Requests
  /\ source \in [Requests -> Resumes \cup {None}]
  /\ pc \in [Requests -> Control]
  /\ tier \in [Requests -> Tiers]
  /\ target \in [Requests -> Resumes \cup {None}]
  /\ period \in [Requests -> Months]
  /\ relPeriod \in [Requests -> Months]
  /\ seen \in [Requests -> Nat]
  /\ written \in [Requests -> [Months -> Nat]]
  /\ answer \in [Requests -> {"none", "ok", "error"}]

\* The stored requests that charged user u in month m.
StoredIn(u, m) == {r \in stored : UserOf[r] = u /\ period[r] = m}

\* A shot is charged exactly when its tailored resume is stored, whatever
\* fails, waits, rolls over or is released in between.
ChargeMatchesArtefact ==
  \A u \in Users, m \in Months : usage[u][m] = Cardinality(StoredIn(u, m))

\* The requests resolved as FREE never get more than the FREE limit out of a
\* month, however many run at once and however often the plan changes.
FreeTierCap ==
  \A u \in Users, m \in Months :
    Cardinality({r \in StoredIn(u, m) : tier[r] = "free"}) <= FreeLimit

\* While a FREE request is past the limit check, the committed counter, which
\* is what GET /shots/remaining reads, still shows a shot left.
RemainingIsHonest ==
  \A r \in Requests :
    pc[r] \in Charged /\ tier[r] = "free" /\ period[r] = clock
      => ShotsRemaining(UserOf[r]) > 0

\* A client that got an error was not charged and owns nothing new; a client
\* that got a result keeps it unless the connection died before the commit.
AnswerMatchesLedger ==
  \A r \in Requests :
    /\ answer[r] = "error" => r \notin stored
    /\ answer[r] = "ok" => r \in stored \/ pc[r] \in {"answered", "lost"}
    /\ r \in stored => answer[r] = "ok"

\* Requests cannot wait for one another in a circle: one that holds a counter
\* and waits for a second one waits for a later month.
Waiting(r) ==
  \/ pc[r] = "charging" /\ ~LockFree(r, period[r])
  \/ pc[r] = "decrementing" /\ ~LockFree(r, relPeriod[r])
LockOrder ==
  \A r \in Requests, m \in Months :
    lock[UserOf[r]][m] = r /\ Waiting(r)
      => pc[r] = "decrementing" /\ m < relPeriod[r]

\* A stored TailoredResume references an existing resume of its user, or none.
SourceResumeExists ==
  \A r \in stored :
    source[r] # None =>
      resume[source[r]] \in Live /\ ResumeOf[source[r]] = UserOf[r]

\* A committed counter never goes down and moves only together with one new
\* stored tailored resume: release_shot never refunds a delivered shot.
UsageOnlyGrows ==
  [][\A u \in Users, m \in Months :
       usage'[u][m] # usage[u][m] =>
         /\ usage'[u][m] = usage[u][m] + 1
         /\ \E r \in stored' \ stored : UserOf[r] = u /\ period[r] = m]_vars

\* Every request that arrived ends, although it may have to wait for the
\* counter behind the AI calls of other requests.
RequestsEnd == \A r \in Requests : pc[r] = "authed" ~> pc[r] \in Ended

\* docs/issues/019: the check-and-increment "removes the race without holding a
\* lock across the AI round-trip".
NoLockAcrossAi ==
  \A r \in Requests : pc[r] = "ai" => \A m \in Months : lock[UserOf[r]][m] # r

\* The promise: see module ShotLedger.
Ledger == INSTANCE ShotLedger WITH
  used <- usage,
  delivered <- {[req |-> r, month |-> period[r], tier |-> tier[r]] : r \in stored}
LedgerSpec == Ledger!Spec
=============================================================================
