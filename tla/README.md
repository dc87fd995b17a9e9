# Shoot.io in TLA+

Shoot.io (the repository also calls itself *resumio*) tailors a user's master
resume to a job posting with one click in a browser extension. This directory
holds a TLA+ model of the parts of it that are hard to test, the TLC
configurations that check the model, and TLAPS proofs of most of its invariants
for every value of the constants.

Paths below are relative to `apps/api/app/` unless they start with `apps/`,
`packages/` or `docs/`.

## 1. Inventory

| Part | State it keeps | Operations | What is hard about it |
|---|---|---|---|
| **Shoot** (`api/v1/endpoints/resumes.py`, `services/shot_service.py`, `services/tailoring_service.py`, `lib/ai.py`) | `user_monthly_usage`, `tailored_resumes`, `job_descriptions` | `POST /resumes/shoot`, `GET /resumes/shots/remaining` | concurrent shots at the limit; a 60 s call of an AI provider in the middle of a transaction; release of a shot in another month; the answer leaves before the commit |
| **Resumes** (`services/resume_service.py`, `repositories/resume_repo.py`) | `resumes`, six section tables, the partial unique index of the master | create, update, set master, delete | swaps racing swaps, updates racing updates and deletes, deadlocks |
| **Billing** (`services/billing_service.py`) | `organizations.plan`, `subscriptions`; Paystack's own state | initialize, verify, cancel, four webhooks | Paystack delivers late, twice, in another order; the redirect's verification races the webhooks; ORM sessions write only what they believe changed |
| **Organizations** (`services/org_service.py`, `services/membership_policy.py`; in `apps/web/src/`: `contexts/organization.tsx`, the members, general, onboarding and acceptance pages) | organizations, memberships, invitations; in the browser the active organization, cached lists, open dialogs | create, save, change a role, remove, invite, revoke, accept; switch, navigate | stale role checks, accept racing revoke, the last owner, an active organization that moves under a dialog |
| **Authentication** (`services/auth_service.py`, `core/security.py`, `api/v1/endpoints/mfa.py`, `oauth.py`) | users' flags, secrets and one-time tokens; the blacklist in Redis | register, login, refresh, logout, verify, reset, MFA, OAuth | one-time tokens used twice, MFA setup racing its verification, Redis down |
| **Database session** (`db/session.py`) | one transaction per request | commit, rollback, close | everything flushed before an exception is undone |
| **Web client** (`apps/web/src/lib/api.ts`, `hooks/useAuth.ts`, `middleware.ts`, `packages/shared/src/auth-service.ts`) | tokens in localStorage and a cookie, shared by the tabs; per tab the refresh flag and its queue | sign in, request, refresh, retry, logout, full loads | 401s while a refresh runs, logout during it, two tabs that refresh at once |
| **Resume editor** (`apps/web/src/components/resumes/useResumeEditor.ts`, `hooks/useResumes.ts`) | editor state, dirty flag, a debounce timer and what it captured, React Query's copies | type, save, set master, leave, close | edits during a save, two saves in flight, a timer without the id of the resume |
| **Extension** (`apps/extension/src/entrypoints/background.ts`, `content.ts`, `popup/App.tsx`, `options/App.tsx`, `token-store.ts`, `packages/shared/src/auth-service.ts`) | cached and stored tokens, one refresh promise, the views of three clients | messages of the clients, alarms, restarts | the worker is stopped at any time; logout during a refresh; answers that overtake one another |
| Notifications, audit log, users, admin | single rows | insert, mark read | nothing |
| Autofill, e-mail, logging, other pages | none | formatting and I/O | nothing |

**How they interact.** The extension's content script sends `SHOOT_JOB` to its
service worker, which calls `POST /resumes/shoot`; the web client calls
everything else. Each HTTP request runs in one SQLAlchemy session and one
PostgreSQL transaction (`get_db`: commit when the handler returns, roll back when
it raises). Components share only the database: billing writes
`Organization.plan`, which a Shoot reads when its user authenticates; the resume
service changes the master resume, which a Shoot reads twice and references.
Paystack and the AI provider are reached by HTTP, Paystack also calls back.

**What makes each part correct.** Shoot: a charge exactly for each stored
tailored resume, never more FREE ones than the limit, and no request stuck.
Resumes: at most one master, never lost by a swap; sections belong to live
resumes; an undisturbed update does what it says. Billing: the plan only follows
what Paystack did, and is right once its events got through. Organizations: one
membership per user, an owner as long as the organization exists, irreversible
invitations. Authentication: a one-time token works once, MFA is active only with
a confirmed secret. Web client and extension: one refresh at a time, no token
after a logout. Editor: the last edit is saved, a new resume is created once.

`PROJECT.json` lists every hazard with its line and the properties that cover it.

## 2. Plan

1. `ShotLedger` (what Shoot promises), `Shoot` (the request), `ShootProofs`. *Done.*
2. `Resumes`, and `MasterRegister`, what its committed rows promise. *Done.*
3. `Billing`. *Done.*
4. `Editor`: debounce, saves in flight, unmount. *Done.*
5. `Extension`: the token store with worker restarts, the refresh guard,
   `SHOOT_JOB` with its retry, the views of the clients. *Done.*
6. `WebClient`: 401s, the refresh queue and logout; liveness of held requests. *Done.*
7. `Organizations`: members and invitations as concurrent sessions, below the
   pages that ask for them. *Done.*
8. `ResumesProofs`: one master at most, none lost by a swap; the sections and
   the effect of an update; the register; waits that end. *Done.*
9. `BillingProofs`, `ExtensionProofs`, `ExtensionSessionProofs`,
   `OrganizationsProofs`, `WebClientProofs`, `EditorProofs`: the plan, its
   settlement and events in order; the extension's shots, sessions and waits; the last
   owner and the invitations; what signs a user of the web client out, and whom it
   holds back; what the editor stores and drops. *Done.*
10. Left: one-time tokens and the MFA enrolment (`Sessions`).

Abstract specifications: `ShotLedger` for `Shoot` and `MasterRegister` for
`Resumes` (both checked and proved). A session that is logged in or out, for
`WebClient` and `Extension`, would need the exclusions of their properties as
actions of its own and would say no more than those properties do.

No module composes `Editor` with `Resumes`, or `Extension` with `Shoot`: what the
one needs of the other is small and stated where it is used (a `PUT` replaces the
text of a resume or fails; `SHOOT_JOB` is charged when the API serves it with a
token that works), and the product of the state spaces is out of reach.

## 3. Modules and how they correspond to the code

The models of the API (`Shoot`, `Resumes`, `Billing`) take a step to be what a
request does between two awaits that other requests can notice, and PostgreSQL at
READ COMMITTED (the default of `create_async_engine`): a statement sees what was committed when it began plus
its own transaction's writes, and a written row is locked until the transaction
ends. The tests run on in-memory SQLite with one connection and override `get_db`
without commit and rollback, so none of this is exercised there.

### `ShotLedger`, `Shoot`

`ShotLedger` is the promise: a step that adds a delivery and its charge together,
for a FREE delivery only below the limit. `Shoot` is the request:

| Action | Code |
|---|---|
| `Authenticate` | `get_current_user` loads the user with the organizations; `_resolve_plan` reads that object later |
| `GetMaster` | `resume_service.get_master`, then the month |
| `Upsert` | `create_or_increment_usage` and the comparison in `assert_and_record_shot` |
| `LoadResume` | the head of `tailor` |
| `AiReplies` | `call_ai`, `_parse_response`; the month of `release_shot` |
| `ReadUsage`, `Decrement` | `decrement_usage` |
| `InsertTailored` | the job description and the tailored resume |
| `Answer` | autofill, audit row, response; or one of them raises (a response field that the AI left null is no `str`, a flush fails) when the tailored resume is in: an error, and everything is rolled back |
| `Commit`, `Rollback`, `LoseConnection` | `get_db`, and a dead worker |
| `NewMonth`, `ChangePlan`, `MakeMaster`, `DeleteResume` | the calendar, billing and the resume service, atomically |

State: `usage` is the committed table (a missing row is 0), `lock` and `written`
are the open transactions' row locks and values, `stored` the committed tailored
resumes. The answer precedes the commit because FastAPI runs the code after a
dependency's `yield` once the response is on its way (from 0.118 on).

The upsert is modelled by what it means and by what SQLite does with it: the
count of the row plus one. PostgreSQL requires the column on the right of
`SET shots_used = shots_used + 1` to be qualified and would reject the statement
as ambiguous; no test runs against PostgreSQL.

### `MasterRegister`, `Resumes`

`MasterRegister` is the promise: resumes come and go for good, the master flag
moves from its holder to another resume in one step, and is lost only with the
resume that has it. It has neither transactions nor failures: `Resumes` shows
that the requests below, seen through the committed rows, take effect at one
moment or not at all. Sections are not part of it.

`Resumes` is one user's resumes with committed rows (`flag`, `sect`) and what each open
transaction has written (`mine`, `dels`, `adds`). Each SQL statement is a step,
an UPDATE or DELETE that may have to wait has two: its snapshot (`ScanMaster`,
the waiting branch of `DeleteSection`) and its effect (`UnsetMaster`,
`DeleteWaited`). `ClaimMaster` is the insertion into `ix_resume_master_per_user`,
which waits for transactions that may free or take the index entry.
`Blockers` says who waits for whom; `InCircle` is the deadlock detector, which
may cancel any statement of a minimal circle. A section of an update may come
without rows (`empty`: null, as the editor sends a blank summary, or an empty
list): its rows are deleted and none inserted. `delete` is one step that waits for
everything it touches. `overlap` is a history variable.

### `Billing`

One organization. Paystack is the part `stage`/`log`: a checkout is opened, paid,
subscribed, disabled, and each step appends an event to the log. `Deliver` may
process any event of the log at any time, any number of times: late, duplicated,
reordered and (by never being taken) lost deliveries. A handler runs the list of
database steps that `Script` gives for its event in the order of the code, on the
objects its session loaded: `seenPlan`/`seenSub` are the loaded attributes, and
`NewPlan(r) # seenPlan[r]` is SQLAlchemy's test for a change. `handled` and
`orderly` are history variables that only the premises of properties read.

The plan comes from two sources. `charge.success` goes by the plan its metadata
name (`NamedPlan`), `subscription.create` and `verify` by the plan code, which
`CODE_PLAN_MAP` may not know (`PlanOf`); nothing in the code makes them agree, so
the model does not either. An unknown plan code leaves the plan as it is
(`docs/issues/025`). Metadata that name no plan make a charge lower the plan to
FREE (`services/billing_service.py:236`); `initialize_transaction` writes a plan
into the metadata of every checkout it makes, so the instance has no such charge
and the theorem assumes there is none. This is the code's own default, though, and not
what `docs/issues/025` asks for. `Verify` fails if the checkout was not paid or its
metadata name no organization. The pages that are to call `GET /billing/verify`
when Paystack sends the user back do not pass the reference it requires, so only
other clients of the API reach it.

Simplifications: customer codes appear only as "verify may touch the
organization's row"; the role checks of initialize and cancel, periods and dates,
and the uniqueness of subscription codes across organizations are left out; an
organization that a member's authentication has loaded already counts as loaded
when the handler asks for it; `ENTERPRISE`, an alias of `ULTIMATE`, is left out.

### `Editor`

One tab with `useResumeEditor` and React Query's copies, beside an API that takes
requests in any order. A text is the set of edits it reflects (`[form, entry,
field]`; removing a card is an edit too), `Payload` is `toPayload`: no settings,
no card without a name. The state is the hook's: `doc` is `state.resumeId`,
`timer` what the debounced save captured when it was armed, `armed` whether
`debounceRef.current` is set (a timer that fires leaves it set).

| Action | Code |
|---|---|
| `Open`, `OpenNew`, `Fetch`, `FetchFails` | the two pages, the query of the address, the effect that loads state from it |
| `Type` | `updateState` by any control of the columns: dirty, timer armed anew |
| `TimerFires`, `SaveNow` | `save` from the timer (with the captured state) and from the button |
| `Leave` | the unmount effect, when the editor is left inside the document (the user menu, the way back) |
| `CloseTab` | the tab is closed or loaded anew, as every link of the sidebar does; `beforeunload` only asks |
| `ToggleMaster`, `ListMenu` | set master, and the list's delete |
| `Serve`, `Fail` | the API stores, refuses (404, 422) or never answers |
| `Answer` | `useResumes`' `onSuccess`, then the continuation of `save` |

`marks` is a history variable: it records the conditions under which the code
really loses something, and each property names the ones it must exclude
(`reordered`: a `PUT` overtaken by a later one; `stale`: the editor opened on an
outdated copy; `masked`, `silent`: a save that ended or failed left an unsaved edit
without the dirty flag; `failed`, `refused`, `gone`). `created` records which
resumes each editor has created. They say what the code does:

- An edit during a save is cleared from `dirty` by the save's success; leaving
  the editor before the timer fires drops it (`docs/issues/023:21` wants it saved).
- The timer captures the state of its time: while the first `POST` is under way
  it has no id, and a second resume is created: the finding of
  `editor_creates_twice` (`docs/issues/023:22`).
- A link of the sidebar is a full load: the flush does not run, the browser only
  asks (`docs/issues/023:24` expects the edit saved).
- Two `PUT`s may reach the API in the other order; the older text stays.
- An editor reopened within five minutes starts from React Query's copy, which a
  save still under way makes outdated, and its next save undoes that one. An
  editor reopened twice may show a copy whose text the save of the other editor
  has replaced: it calls it clean, and leaving it drops what it showed. The run
  has two visits; the third was met while `NothingDropped` was prepared for its
  proof, and is why that property excludes `stale` and not `silent`.
- A lost answer of a `POST` makes the next save create a resume again.
- A month input yields `YYYY-MM`, which the API's date fields refuse with 422;
  the settings of the right column and cards without a name are never sent.
- A background fetch that fails hides the editor although its state lives on.

### `Extension`

The service worker (`cache`, `storage`, `writes` on their way, `refresh` as the
shared promise, `calls` as the handlers under way) and its clients. The popup's
Retry after a network error calls the form's function again, which is `Submit`. A message is
`posted`, handled when the worker is up (`Handle`), waits for HTTP (`http`, `me`)
or for the shared refresh (`refreshing`), and its answer runs the client's
continuation in the same step (`PopupTakes`, `OptionsTakes`, `PageTakes`). A pair
of tokens is the number under which the API issued it; refreshing does not end
the old one.

| Action | Code |
|---|---|
| `SetTokens`, `ClearTokens`, `WriteLands`, `Wake`, `Kill` | `token-store.ts`, and Chrome stopping and starting the worker |
| `HandleRefresh`, `JoinRefresh`, `RefreshServed`, `RefreshArrives`, `AfterRefresh` | `REFRESH`, `attemptRefresh`, `AuthService.refreshIfNeeded` |
| `HandleUnauthorized`, `HandleByRequest`, `ReadAnswered`, `SignInAnswered`, `MfaAsked`, `SignInRefused` | `handleMessage` |
| `ShotAnswered`, `ShotUnauthorized` | `SHOOT_JOB` with its one retry |
| `HandleLogoutLocally`, `LogoutServed`, `LogoutEnds` | `AuthService.logout` |
| `Alarm` | the 15 minutes alarm |
| `OpenPopup` ... `PopupLogout`, `OpenOptions` ... `OptionsLogout`, `OpenPage` ... `ClickShoot`, `PopupRace` | the popup, the options page, the content script |

What the exclusions of its properties stand for: a logout that crosses a refresh
or a sign-in under way brings the tokens back (`signedOut` is not set); two
sign-ins, one of them answered after a logout, leave the authenticated view
without tokens, and so does a logout from the other view (`crossed`); the popup
and the options page do not catch the rejected message of a stopped worker and
stay as they are (`killed`), which the content script does catch; the options page
shows whichever organization was answered last (`overtaken`). Also: a refresh that
fails leaves the tokens in place (`docs/issues/005:17` wants them cleared), so the
authenticated view may be shown with tokens that no longer work.

### `WebClient`

Tabs of one browser with one token store (localStorage and the cookie) and, per
tab, `isRefreshing`; the queue of held requests is the requests of the tab in the
steps `queued` and `waiting`. `Load` is a full load (the tab's scripts start anew,
the middleware decides by the cookie), `Pushed` and `FollowLink` are navigations
inside the document.

| Action | Code |
|---|---|
| `Send` | the forms of the pages, the requests of the dashboard, "Log out" |
| `Intercept` | the response interceptor at a 401: give up, queue, or start the refresh |
| `RefreshServed`, `RefreshArrives`, `RefreshFails` | the refresh, `processQueue`, `redirectToLogin` |
| `SignedIn`, `MfaAsked`, `Done`, `Failed`, `RefreshLost`, `LogoutLost` | answers, and their absence |
| `LogoutServed`, `LogoutEnds`, `LogoutLocally` | `useLogout`, `AuthService.logout` |
| `Visit`, `NavCommit`, `FollowLink`, `Middleware` | `middleware.ts`, `window.location`, links |
| `Expires` | access tokens, refresh tokens and the cookie end |

What the exclusions stand for: a refresh or a sign-in under way in some tab stores
tokens after a logout; a wrong current password or second factor is answered 401
and treated like an expired token, which may sign the user out (`wrong`), as does
a refresh that gets no answer (`lost`; `docs/issues/020:25`); `isRefreshing` is
per tab, so two tabs refresh at once, which is harmless because nothing rotates.
`mfaService.validate` sends its token in the body, where the API does not
look: every MFA validation in the web client is refused, so `validate` is among
the requests that are always answered 401. The two seconds before the push of the
verification page are left out.

### `Organizations`

The service's requests in two steps: `Load` authenticates, loads and decides on
what it loaded (`Allowed`), a `Write` flushes and commits. What it decided on may
be out of date by then. Unique indexes and vanished rows refuse the later one
(`WriteCreate`, `WriteAccept`, `WriteRemove`). Above it are the pages: `ui[u]` is
the document a user has open, with the organizations of ME, `activeOrgId`, the
cached lists of members, and an open dialog; `Active` is the provider's choice.

| Action | Code |
|---|---|
| `Visit`, `Navigate`, `ToOnboarding` | the sidebar's links, which load their page anew; the user menu and the way back, which do not; the guard of the dashboard |
| `MeArrives`, `Switch`, `Saved`, `Created`, `Accepted` | everything that moves the active organization |
| `FetchMembers`, `AskRole`, `AskRemove`, `AskRevoke`, `ConfirmRole`, `ConfirmRemove`, `ConfirmRevoke`, `ClickRole`, `Invite` | the members page |
| `Load`, `WriteCreate`, ..., `WriteAccept` | `OrganizationService`; a role that the member has already writes nothing (`NothingToWrite`) |
| `Expire` | the invitation's date passes |
| `Lost`, `Unheard`, `NothingToDo`, `Revoked`, `SaveRefused`, ... | the answers, or none |

The list of invitations is not a variable: it may be arbitrarily old and shows
every status but REVOKED with a revoke button, so any invitation that exists may
be asked about. A commit that comes after the answer (see above) is covered by
lists of any age. `OrganizationsAssumption` asks of a plan that an organization
that has members at the start has an OWNER, as whoever creates one is.

In two places the model allows more than the code can do as it stands, so that
its properties do not rest on a defect. `MeArrives` may succeed, although
`packages/shared/src/schemas/organization.ts:37` requires a `member_count` that
`schemas/user.py:12-19` does not send. A creation may succeed or be refused
(`Refusable`): an unverified user is refused, and the response reads the number of
memberships (`models/organization.py:54-56`), which the refresh of the new row
(`repositories/org_repo.py:42-46`) does not load.

Two behaviours are left out. A page that was left and visited again within one
document could send a request while its first is under way; `IsPending` forbids
it for the whole document. The organization that `?verified=true` would make active on the onboarding page is
left out: the verification before it always fails (see `Billing`), and the page
ends in its error view.

What the model shows of the code besides its properties:

- `remove_member` never looks at the role of its target: any ADMIN, or the OWNER
  himself, can take the last OWNER out by the API. Only the rows of the members
  page stand between, with lists of any age, which is what `KeepsOwner` is about.
- A dialog is confirmed for the organization that is active at the click. If ME is
  fetched anew meanwhile (after a late profile update) and the user was removed
  from that organization, the first of the others is active and the removal goes
  there (`moved`): without this exclusion TLC finds the last OWNER removed.
- accept and revoke of one invitation that overlap both succeed, and the later
  commit names the status (`crossed`; `DOMAIN.md:77` calls both irreversible); two
  accepts of one invitation with a removal in between admit the user twice
  (`again`); two invitations of one address leave two pending ones, after which
  `scalar_one_or_none` raises (`twins`; `DOMAIN.md:80`).
- An expired invitation stays PENDING, as the rollback undoes EXPIRED, and blocks
  a new one of the same address.
- The 204 of a removal is parsed as a failure, so its list is not fetched again;
  a checkout that fails after the organization was created leaves the form, and
  sending it again creates a second one; an accept by a member and a lost race for
  a slug are answered 500.

## 4. Runs

| Run | Instance | What it shows |
|---|---|---|
| `shoot` | 1 user, 3 requests, 1 resume, FREE limit 1, 2 months, fairness, no symmetry | the ledger properties, `LedgerSpec` and `RequestsEnd` (281,750 states) |
| `resumes` | 3 requests, 2 resumes and a fresh one | the master, section and deadlock properties and `RegisterSpec` (1,083,957 states) |
| `billing` | 2 handlers, 2 checkouts (one of an unknown plan), 3 events, with and without metadata | the plan and settlement properties (4,416,799 states) |
| `editor` | 3 plans: two visits with a card, one visit or a failure with more edits, summary and settings | saved means stored, nothing dropped, edits settle (1,160,451 states) |
| `extension` | 8 plans of the popup, the options page and the content script, up to 3 token pairs and 4 disturbances | signed out stays, one charge per click, the views settle (760,688 states) |
| `webclient` | 5 plans: two tabs with requests and logout, one tab with every form, up to 3 token pairs | logout, staying signed in, the queue (514,255 states) |
| `organizations` | 12 plans of up to 3 users, 2 organizations, 2 invitations | the last owner, the life of an invitation (1,036,551 states) |
| `shoot_lock_across_ai` | 1 request | finding: the counter is locked during the AI call |
| `resumes_master_error` | 2 requests | finding: a swap can fail with a unique violation or a deadlock |
| `billing_canceled` | 1 handler, 1 checkout | finding: a late `charge.success` revives a canceled plan |
| `billing_delete` | 1 handler, 1 checkout | finding: an organization with a subscription cannot be deleted |
| `editor_creates_twice` | the plans of `editor`, no resume at the start | finding: a new resume whose first save takes longer than the timer is created twice |

**Bounds.** `MaxMonth = 2` gives one rollover, which is all a request can
straddle in the code's arithmetic; three requests are one more than the limit
plus one, so that one is charged, one refused and one overlaps both; users do not
interact (every row is per user), and the proofs cover any number. Three
concurrent requests on resumes allow circles of three; the fresh resume makes
`create` race the swaps. `MaxEvents = 3` covers create/charge/disable of one
checkout in any order, or parts of two; handlers are reused, so deliveries are
repeated without bound.

The modules of the clients bound a *session* instead of one number: `Plans` is a
set of records, each with what the user may do in it (edits, clients, kinds of
requests, pages) and how many disturbances, visits, token pairs or requests under
way there are, and `Init` chooses one. Each plan is a small instance aimed at one
family of races; the run covers all of them, and no plan needs what another has.
In `editor` that is two visits with one card, or one visit with a failure and
more edits; a race between two saves, a stale copy and a flush each need two
saves and one reopening, which is what the budget allows. In `extension` a session
has up to four disturbances (a stop, an expiry, a revocation, a failure) and two
clients, so that each of two crossing messages may be hit by one. In `webclient`
two tabs have three requests and three token pairs: one expires, one refresh
answers, one more expires. In `organizations` two transactions overlap in the
plans with room for two; two invitations are what a twin needs.

`CHECK_DEADLOCK FALSE` is set where every request has ended, or the editor's tab
is closed, or a plan is used up, and nothing is left to happen; that open requests
never stand still is `NoStandstill` and `RequestsEnd` instead.

**Fairness.** `RequestsEnd` assumes weak fairness of each request's own steps:
the event loop resumes a coroutine whose await is over, the AI client's timeout
(`lib/ai.py`) ends the call, and PostgreSQL grants a free lock. Nothing is assumed
of arrivals, of the calendar or of lost connections. Weak fairness is enough
because a request that waits for the counter waits for a request that has passed
its own upsert, and the order of `LockOrder` excludes circles; a waiting upsert
is disabled and enabled again only finitely often, as requests are finitely many.

`EditsSettle` assumes that the debounce timer fires and that the oldest request
under way is answered or fails (the browser's timer; axios' and fetch's network
errors). `UisSettle` assumes the same of the extension's messages and that a
message starts the worker again, which Chrome promises; of the worker being
stopped nothing is assumed, and the popup, which does not catch it, is excused by
"killed". `HeldSettle` and `EndsAtLogin` assume that requests under way are
answered or fail and that a navigation the page began completes. None of them
assumes anything of the user, of expiry, of other tabs or of losses.

**Findings.** The five violating runs check sentences of the repository's own
documents that the code does not keep; `PROJECT.json` quotes them.

## 5. Proofs

Each theorem holds for every value of the constants that satisfies the
assumption its module names (`Billing` has two). The inductive invariants were checked by TLC on the instances of
section 4 before they were proved. In each module one lemma per part and action
shows that a step preserves the part, and the theorem puts the lemmas together.

### `ShootProofs`

For every finite set of requests and every set of users, resumes and any limit
and number of months, from `ShootAssumption`:

- `TypeCorrect`: `TypeOK`. It needs `SeenPositive` (a request about to decrement
  has read a positive count), or `Decrement` could leave the naturals.
- `ChargedIffDelivered`, `FreeTierIsCapped`, `RemainingStaysHonest`: the three
  ledger invariants.
- `UsageNeverRefunded`: the action property `UsageOnlyGrows` (no run checks it:
  `LedgerSpec`, which one does, implies it).
- `ShootImplementsLedger`: `Spec => LedgerSpec`, initial states to initial
  states and each step to a `Deliver` or a stutter.
- `AnswersMatchTheLedger`, `LocksAreOrdered`, `SourcesAreLive`: what clients were
  told, the order of the two counters a release may hold, the reference of a
  tailored resume.
- `WaitsAreServed`: `NoDeadWait`; `RequestsNearTheirEnd`: the action property
  `NearsItsEnd`. Together they are the part of `RequestsEnd` that needs no fairness.

The argument. None of the properties is inductive: that a commit adds one to the
counter depends on what the transaction wrote many steps before. `LedgerInv`
adds what links them: a request past its upsert and not yet failed holds the lock of its
user and month (`LockInv`); while it holds it, what it has written is the
committed counter plus one, and a FREE one wrote at most the limit (`ChargeInv`);
stored is the same as done (`DoneInv`). The lock makes `ChargeInv` inductive: nobody else can
commit to the counter in between. `OnlyCommitMoves` shows that no other action
touches the ledger, `CommitLedger` and `CommitCounts` compute what a commit does
to the counters and to the sets whose cardinalities the invariants count, with
the facts of `FiniteSetTheorems`.

The last three theorems add `MonthInv` (the month `release_shot` computes is
never earlier than the charged one, because the clock only moves forward: this is
why two releases cannot wait for each other), `AnswerInv` (which answer a request
gave by how far it is) and `SourceInv` (the foreign key's lock keeps the resume a
pending tailored resume references, and a deletion sets committed references to
NULL).

Waits: a request waits for one counter only, and for a second one only of a later
month than the one it holds (`LockOrder`). So among the holders of a user's
counters that wait, the one whose awaited month is the latest waits behind one that
need not wait (`LeastOf` finds it). That one is under way, and each of its steps
lowers `StepsLeft`, so it gives its counters back after finitely many of them: this
holds for any number of requests, where TLC runs three. That it takes these steps at all is fairness.

### `ResumesProofs`

For any sets of requests and of resumes and any finite set of existing ones, from
`ResumesAssumption` (the payloads' kinds; `None` is none of the other values):

- `ResumesTyped`: `TypeOK`.
- `OneMaster`: `AtMostOneMaster`.
- `SwapsKeepAMaster`: the action property `MasterSurvivesSwaps`.
- `SectionsStayWithTheirResume`: `SectionsBelong`.
- `UpdatesReplaceTheirSections`: the action property `UndisturbedPutReplaces`.
- `ResumesImplementRegister`: `Spec => RegisterSpec`, initial states to initial
  states and each step to one of the register's or a stutter.
- `SomebodyGoesOn`: `NoDeadWait`, what `NoStandstill` means without `ENABLED`:
  while a request is open, some open request waits for nobody or is in a circle
  that the deadlock detector may break.
- `RequestsNearTheirEnd`: the action property `NearsItsEnd`, every step of a
  request lowers what it has left.

The argument for the master. That committed masters are unique is preserved by a commit only if
whoever commits a master has unset every other one. `MasterInv` says why it has:
a request past the index holds the flag of its own row, has unset every
committed master and holds the flag alone (`IndexInv`), because the claim waited
for every transaction that could free or take it and failed on a master it had
not unset. What a transaction has written fits how far it is (`FlowInv`,
`WriteInv`, `ClaimInv`): it sets other rows to draft only if it claims the flag, and
it cannot commit before it has it. A row has one writer (`RowInv`), since each
statement waits for the writer of its row. The resume of an open creation is
absent and its own (`FreshInv`), so a creation cannot turn a master into a draft:
this is what `SwapsKeepAMaster` needs besides.

The argument for the sections (`SectionInv`). Who has inserted section rows and
who deletes their resume exclude each other: an insertion takes the foreign key's
lock, so it waits for the deletion and fails when the resume is gone, and a
deletion waits for every insertion (`AddsInv`, `CascadeInv`). A second summary
waits for the unique constraint (`SummaryInv`). For an update, `PutInv` says which
rows it has deleted at each point, exactly those of the sections it has been
through, as long as no other commit crossed it (`overlap`).

The argument for the register. Only a commit changes `flag`. `LockedInv` adds to
`MasterInv` that the flag a transaction overwrites is still the one it wrote over: the
row it unset is a master, the row it deletes or claims is live. So a commit that
claimed the flag has the register's `CreateMaster` or `SetMaster` (`IndexInv`: it
has unset whoever holds it; `FreshInv`: what it creates was never there), any
other writes one row at most: `Create`, `Delete` or nothing.

The argument for the waits. Only a request under way is waited for (`QuietInv`:
the others have neither written nor deleted nor inserted anything), and only
finitely many are under way, since every step is one request's (`OpenInv`): the
set `Requests` itself may be infinite. If none of them is free to go on, the set
of all is one in which everybody waits for somebody; a smallest such set, which
exists because cardinalities are natural numbers (`LeastOf`, by well-founded
induction), is what `InCircle` asks for.

The argument for the end. Only an update goes round: it comes back to its next
section. `StepsLeft` counts the sections it has still to go through first and the
stages of the statement it is at second; a section leaves `todo` when its rows are
written (`PutInv` knows that it was in it), and no failure starts anything again.

### `BillingProofs`

For any sets of codes and requests and any plans of the codes, from
`BillingAssumption` and `RowAssumption` (`None` is no subscription record):

- `BillingTypeCorrect`: `TypeOK`.
- `PlanFollowsPaystack`: the action property `PlanMovesWithPaystack`, if every
  charge's metadata name a plan.
- `CheckoutsSettle`: `CheckoutSettles`.
- `InOrderEventsAgree`: `InOrderAgrees`.
- `SomebodyGoesOn`: `NoDeadWait`, what `NoStandstill` means without `ENABLED`.

The argument. `PlanInv`: an event of the log was true when Paystack said so and
stays so, since stages only advance (`EventInv`); a handler's work left is a suffix of
the script of an event of the log, or of a verification that Paystack answered,
and a cancellation writes only after its call (`RunInv`); the row of the
organization has one writer (`OrgLock`); hence a pending plan is backed by
a paid or ended checkout, or is the committed plan written once more (`OrgInv`).
`SettleInv` is for an organization with one checkout: everything that is loaded,
pending or committed is then either absent or what this checkout is for
(`SoloRows`), a charge that is handled, or about to be, has set the plan, and a
creation the record (`SoloCharge`, `SoloCreate`), although SQLAlchemy writes an
attribute only if it differs from what the session loaded: an equal one was
loaded from a row that already said so. `ToldInv` links the stages to the log.

`InOrderInv` is about behaviours that are still `orderly`. What was handled is
then a beginning of the log (`PrefixInv`), and a request under way is alone and, if
it handles an event, it is the last of those or the one after (`AboutInv`). When no
event is outstanding the rows say what the last one said (`LastInv`). The session
of a request says how far it got: what it has loaded is committed, what it has
written is what its handler assigns (`OrgSession`, `SubSession`); so its commit
leaves what its event says, be that the next event or the last one once more.

Waits: there are two rows, each with one writer (`OrgLock`, `SubLock`), so two
requests at most hold one, and whoever both of them wait for is the other. The
database sees that circle of two (`GoesOn`).

### `ExtensionProofs` and `ExtensionSessionProofs`

For any sets of plans, any numbers of token pairs, messages under way,
disturbances and clicks, from `ExtensionAssumption` and, for the last, from
`RefreshAssumption` (`None` is not a refresh):

- `ExtensionTyped`: `TypeOK`.
- `ShotsChargeOnce`: `ShotOnce`.
- `SignedOutHolds`: `SignedOutStays`.
- `SignedInHolds`: `SignedInMeansTokens`.
- `OrgShownHolds`: `OrgShown`.
- `NobodyWaitsInVain`: `UnderWay`, the safety half of `UisSettle`. A loading popup, a
  form that was sent and a shot have the message they wait for under way (a shot
  that opens the popup, the 300 ms), and a handler that joined the shared refresh
  has that refresh under way. Only a popup under which the worker was stopped
  waits in vain (`killed`).

The argument. A step removes a message, adds one or moves one on, so the messages
after it are found among those before it. A shot under way has not been charged,
because being charged answers it and only a refused token sends it again
(`ShotsInv`). The cache of a running worker is what storage will hold once every
write under way landed, and a stopped worker has none under way (`StoreInv`); this
is what carries a logout, or its absence, over a stop. After a logout nothing that could
bring tokens is under way (`OutInv`). Without tokens the popup does not show the
authenticated view, and no message is on its way that would make it
(`TokenInv`), given which messages it may await in which view (`PopupInv`). As
long as nothing overtook, the options page's last request is for
the organization it calls active (`OrgsAgree`). For `UnderWay`, a step keeps every
message but the one it answers (`Kept`), and the answer that takes the message
away ends the wait or sends the next message (`AwaitInv`); a button exists only
under a modal, so that a shot which was sent is for a job. Nothing but its answer
and a stop of the worker ends a refresh, and both take everyone who joined it
along (`JoinedInv`).

### `OrganizationsProofs`

For any users and any finite sets of organizations and invitations, and any plans
whose organizations start with an OWNER, from `OrganizationsAssumption`:

- `OrganizationsTyped`: `TypeOK`.
- `OwnersAreKept`: `KeepsOwner`.
- `InvitationsKept`: `InvitationsHold`.

The argument. Every step of a page or an answer changes one document and at most
removes or adds a request (`ClientStep`); every handler advances one request and
adds rows without taking any but by a removal (`Grown`). `KeepsOwner` is not
inductive, since the service would let the last OWNER go: `KeeperInv` says that
each organization has an OWNER whom no cached list has ever shown as anything
else, at whom no dialog and no request is aimed, so that no row of
the members page offers to demote or remove him. `InviteInv` says
what a transaction that has decided still finds when it writes: who revokes, an
invitation nobody is accepting or has accepted (`CrossInv`); who accepts, one by
which nobody joined (`AgainInv`); who invites, an address without a pending one
(`TwinInv`); each as long as the overlap it names has not happened. That at most
one invitation of an address is pending is `TwinInv` and the cardinality of a set
whose members are equal.

### `WebClientProofs`

For any set of tabs, any plans and any number of token pairs, from
`WebClientAssumption`:

- `WebClientTyped`: `TypeOK`.
- `SignedOutHolds`: `SignedOutStays`.
- `StaysSignedInHolds`: the action property `StaysSignedIn`.
- `NobodyHeldForNothing`: `HeldBehindRefresh`, the safety half of `HeldSettle`. A
  tab that is refreshing, or holds a request back, has one refresh under way, and
  that refresh is not itself held back.

The argument. The requests under way are a list. `Left`, `Added` and `Became` say
where each request after a step was before it, and the lemmas about them cover
`RemoveAt`, `Append` and `Only`; that of `Only`, a recursive function, takes the
smallest length at which it would be false (`Smallest`), which stands in for
induction. After a logout no request that could bring tokens is under way
(`OutInv`). `StaysSignedIn` rests on two invariants. `RefreshInv`: a tab with a
refresh under way has `isRefreshing` set and only this refresh, and the request
that asked for it waits in the same tab with its retry flag, so that an access
token which expires meanwhile expires under a request that has its retry behind
it (`twice`). `MarkInv`: as long as nothing is
marked, the store's refresh token is good, no refresh is denied, its answer has
not expired, and what was sent again carries a token that works. Then a request
answered 401 has not been sent again, so the interceptor does not give up
(`OnlyExpired`), and no other step clears the tokens (`TokensGo`).
`HeldInv` is the other direction of `RefreshInv`: whoever is held is held in a tab
whose `isRefreshing` is set, and where it is set the refresh is among the requests
under way; what ends a refresh (an answer, a loss, a reload of its tab) settles
its tab in the same step.

### `EditorProofs`

For any set of edits whose fields belong to their form, any set of resumes and of
existing ones, any plans (so any number of visits and failures, where the run has
two visits) and any number of requests under way, from `EditorAssumption`:

- `EditorTyped`: `TypeOK`.
- `SavedHolds`: `SavedMeansStored`.
- `NothingDroppedHolds`: `NothingDropped`.

The argument. The requests under way are a list in the order they were sent.
`Base` says what the page, the timer and each request know of the resume they are
about, and with it `StepIs` reduces the actions to a few kinds of step (`Step`): the
editor opens, gets what it loads or is left, an edit, a save or another request is
sent, a creation or an update is stored, a request ends, an answer is merged. The
invariants are proved once per kind:

- `NewPairs`, `NewMine`: a resume just created is known to nobody but the save
  that created it; whoever updates it is a later editor.
- `GrowInv`: the saves of one editor contain one another in the order they were
  sent, since text is only added, and none holds more than the editor shows.
- `OrderInv`: the updates of a resume are stored in that order, or `reordered`.
- `AloneInv`: no save of an editor left before is still to be stored over the
  resume that this one edits, or `stale`.
- `HoldInv` and `CoverInv`: the stored resume holds no more than the editor shows;
  and when the editor is not dirty, no less, or no less than each update
  it has sent and that is still to be stored.

What "Saved" shows (`SavedInv`) and what leaving drops (`DropInv`) are read off
these; `SavedInv` is an invariant of its own because an answer that clears `dirty`
after an edit leaves `CoverInv` without force (`masked`) until the next save ends.

### Only model-checked

- `RequestsEnd`, `EditsSettle`, `UisSettle`, `HeldSettle`, `EndsAtLogin`: liveness
  under fairness is outside what the prover supports. Of `RequestsEnd` only the
  fairness is left to TLC (`WaitsAreServed`, `RequestsNearTheirEnd`); of `HeldSettle`
  that the refresh, which is there (`NobodyHeldForNothing`), ends; of `UisSettle`
  that the messages and the refresh, which are there (`NobodyWaitsInVain`), are
  answered.
- `NoStandstill` of `Resumes` and of `Billing`, because it is stated with
  `ENABLED`. `NoDeadWait` says the same of the waits and is proved; that a request
  which waits for nobody has an enabled step is what TLC adds.

## 6. Not modelled

- Authentication beyond pairs of tokens: one-time tokens of verification and
  reset, the MFA enrolment (`mfa/setup` racing `mfa/verify`), OAuth, and Redis: its
  blacklist fails open, so a refresh token is simply valid or revoked here.
- Notifications, audit log, users and admin: single rows without interaction (the
  audit row of a Shoot belongs to its transaction).
- Autofill's mapping, scraping of job boards, e-mail, logging, health and
  pagination: formatting and I/O. `GET /resumes/shots/remaining` only reads.
- The password forms of the popup, and the display of the shots left.
- Billing and notification settings, the home page and the component library of
  the web client: presentation. Names, slugs, logos and plans of organizations.
- Going back, inside one document, to the acceptance page of an invitation, which
  accepts again with the caches kept: a new visit of the link stands for it.
- The connection pool (its timeout is a lost request), and the migrations other
  than the constraints they create.
