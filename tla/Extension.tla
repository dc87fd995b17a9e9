----------------------------- MODULE Extension -----------------------------
(***************************************************************************)
(* The browser extension: the service worker with its token store and its  *)
(* shared refresh, and the three clients that send it messages: the popup, *)
(* the options page and the content script on a page of a job board.       *)
(*                                                                         *)
(* Handlers of messages run concurrently, Chrome stops and restarts the    *)
(* worker, tokens expire and are revoked, and requests fail.  A pair of    *)
(* tokens is the number under which the API issued it.  The number of      *)
(* shots left, which the popup only displays, is left out.                 *)
(***************************************************************************)
EXTENDS Naturals, FiniteSets, SequencesExt

CONSTANTS
  Orgs,      \* the organizations of the user, in the order of GET_ME
  Jobs,      \* job postings
  Plans,     \* bounds of a session: the clients and sign-ins used, whether there is
             \* a master resume, how many pairs are issued and disturbances happen
  MaxPairs,  \* bound: pairs of tokens issued in any session
  MaxClicks, \* bound: clicks on Shoot
  MaxCalls,  \* bound: messages under way when a client adds one on its own
  None

Clients == {"popup", "options", "page"}
SignIns == {"LOGIN", "REGISTER", "MFA_VALIDATE"}

ASSUME ExtensionAssumption ==
  /\ Orgs \subseteq Nat /\ Orgs # {} /\ None \notin Orgs \cup Jobs \cup Nat
  /\ Plans \subseteq [clients : SUBSET Clients, signIns : SUBSET SignIns, master : BOOLEAN,
                     pairs : 1..MaxPairs, budget : Nat]
  /\ MaxPairs \in Nat /\ MaxClicks \in Nat /\ MaxCalls \in Nat

Pairs == 1..MaxPairs
\* "No refresh" is not one.
ASSUME RefreshAssumption ==
  None \notin [pair : Pairs, step : {"sent", "served"}, reply : Pairs \cup {None}]
Clicks == 1..MaxClicks
Types == SignIns \cup {"GET_ME", "LOGOUT", "REFRESH", "API_REQUEST", "SHOOT_JOB", "OPEN_POPUP"}
\* What the worker does not send without a token.
Guarded == {"API_REQUEST", "SHOOT_JOB"}

VARIABLES
  plan,
  issued, revoked, expired, \* pairs issued; refresh tokens and access tokens that ended
  charges,  \* shots charged for each click
  up,       \* the service worker runs
  cache,    \* cachedAccess and cachedRefresh
  storage,  \* chrome.storage.local
  writes,   \* storage operations of the token store under way
  refresh,  \* refreshPromise: the pair it sent and the answer
  calls,    \* the messages under way
  popup, options, page,
  orgStore, \* the organization the options page remembers
  clicks,   \* clicks on Shoot so far
  spent,    \* disturbances so far
  signedOut, marks  \* history

server == <<issued, revoked, expired, charges>>
store == <<cache, storage, writes>>
uis == <<popup, options, page, orgStore>>
bounds == <<plan, clicks, spent>>
history == <<signedOut, marks>>
vars == <<plan, server, up, store, refresh, calls, uis, clicks, spent, history>>

Steps == {"posted", "http", "me", "served", "refreshing", "refreshed", "denied"}
Call == [type : Types, from : Clients \cup {"gone"}, arg : Nat \cup {None},
         pair : Pairs \cup {None}, step : Steps, tries : 0..1]
Post(type, from, arg) ==
  [type |-> type, from |-> from, arg |-> arg, pair |-> None, step |-> "posted", tries |-> 0]

ClosedPopup == [screen |-> "closed", pending |-> {}]
ClosedOptions == [screen |-> "closed", active |-> None, shown |-> None,
                  loading |-> FALSE, error |-> FALSE]
ClosedPage == [open |-> FALSE, master |-> "unknown", modal |-> None, button |-> "none",
               shot |-> None, here |-> FALSE, phase |-> "idle"]

Disturb == spent < plan.budget /\ spent' = spent + 1
MarkIf(cond, m) == IF cond THEN {m} ELSE {}
From(client) == {c \in Range(calls) : c.from = client}

Init ==
  /\ plan \in Plans
  /\ issued = 1 /\ revoked = {} /\ expired = {} /\ charges = [k \in Clicks |-> 0]
  /\ up = FALSE /\ cache = None /\ storage \in {None, 1} /\ writes = <<>>
  /\ refresh = None /\ calls = <<>>
  /\ popup = ClosedPopup /\ options = ClosedOptions /\ page = ClosedPage
  /\ orgStore \in IF "options" \in plan.clients THEN Orgs \cup {None} ELSE {None}
  /\ clicks = 0 /\ spent = 0 /\ signedOut = FALSE /\ marks = {}

----------------------------------------------------------------------------
(* The token store: the cache at once, the storage later.                  *)

\* Mutants: only the storage is set; only the cache is cleared.
SetStorageOnly(p) == writes' = Append(writes, p) /\ UNCHANGED <<cache, storage>>
ClearCacheOnly == cache' = None /\ UNCHANGED <<writes, storage>>

SetTokens(p) == cache' = p /\ writes' = Append(writes, p) /\ UNCHANGED storage
ClearTokens == cache' = None /\ writes' = Append(writes, None) /\ UNCHANGED storage

WriteLands ==
  /\ writes # <<>>
  /\ storage' = Head(writes) /\ writes' = Tail(writes)
  /\ UNCHANGED <<bounds, server, up, cache, refresh, calls, uis, history>>

\* A message or an alarm starts the worker, which reads the storage first.
Wake ==
  /\ ~up /\ calls # <<>>
  /\ up' = TRUE /\ cache' = storage
  /\ UNCHANGED <<bounds, server, storage, writes, refresh, calls, uis, history>>

\* Chrome stops the worker, or crashes: writes under way are lost, and every
\* sendMessage rejects.  Only the content script catches that.
Kill ==
  /\ up /\ Disturb
  /\ up' = FALSE /\ cache' = None /\ writes' = <<>> /\ refresh' = None /\ calls' = <<>>
  /\ page' = IF page.shot = None THEN page
             ELSE [page EXCEPT !.shot = None, !.here = FALSE, !.phase = "idle",
                               !.button = IF page.here THEN "enabled" ELSE @]
  /\ marks' = marks \cup MarkIf(calls # <<>>, "killed") \cup MarkIf(writes # <<>>, "crossed")
  /\ signedOut' = (signedOut /\ writes = <<>>)
  /\ UNCHANGED <<plan, server, storage, popup, options, orgStore, clicks>>

----------------------------------------------------------------------------
(* The clients take an answer.  "rest" are the other messages under way.   *)

Send(rest, new) == calls' = rest \o new

PopupTakes(c, res, rest) ==
  /\ \/ /\ c.type = "REFRESH"
        /\ Send(rest, <<Post("GET_ME", "popup", None)>>)
        /\ UNCHANGED popup
     \/ /\ c.type = "GET_ME" /\ Send(rest, <<>>)
        /\ popup' = [popup EXCEPT !.screen = IF res = "ok" THEN "authenticated" ELSE "login"]
     \/ /\ c.type \in SignIns /\ Send(rest, <<>>)
        /\ popup' = [screen |-> CASE res = "ok" -> "authenticated"
                                  [] res = "mfa" -> "mfa"
                                  [] OTHER -> popup.screen,
                     pending |-> popup.pending \ {c.type}]
     \/ /\ c.type = "LOGOUT" /\ Send(rest, <<>>)
        /\ popup' = [screen |-> "login", pending |-> popup.pending \ {"LOGIN"}]
  /\ UNCHANGED <<options, page, orgStore>>

\* Mutant: the organization is fetched but not made the active one.
FetchingOnly(o) == [options EXCEPT !.screen = "authenticated", !.loading = TRUE, !.error = FALSE]

Fetching(o) == [options EXCEPT !.screen = "authenticated", !.active = o,
                               !.loading = TRUE, !.error = FALSE]
FirstOrg == CHOOSE o \in Orgs : \A x \in Orgs : o <= x

OptionsTakes(c, res, rest) ==
  /\ \/ /\ c.type = "REFRESH"
        /\ Send(rest, <<Post("GET_ME", "options", None)>>)
        /\ UNCHANGED <<options, orgStore>>
     \/ /\ c.type = "GET_ME" /\ res = "ok"
        /\ LET o == IF orgStore # None THEN orgStore ELSE FirstOrg IN
             /\ options' = Fetching(o)
             /\ Send(rest, <<Post("API_REQUEST", "options", o)>>)
        /\ UNCHANGED orgStore
     \/ /\ c.type = "GET_ME" /\ res # "ok" /\ Send(rest, <<>>)
        /\ options' = [options EXCEPT !.screen = "unauthenticated"]
        /\ UNCHANGED orgStore
     \/ /\ c.type = "API_REQUEST" /\ Send(rest, <<>>)
        /\ options' = IF res = "ok" THEN [options EXCEPT !.shown = c.arg, !.loading = FALSE]
                                    ELSE [options EXCEPT !.error = TRUE, !.loading = FALSE]
        /\ UNCHANGED orgStore
     \/ /\ c.type = "LOGOUT" /\ Send(rest, <<>>)
        /\ options' = [options EXCEPT !.screen = "unauthenticated"]
        /\ orgStore' = None
  /\ UNCHANGED <<popup, page>>

\* checkHasMasterResume ends: the buttons that are there already follow.
Checked(has) ==
  [page EXCEPT !.master = IF has THEN "yes" ELSE "no",
               !.button = IF @ = "none" THEN @ ELSE IF has THEN "enabled" ELSE "disabled"]
\* handleShoot ends (finally): the button it was started from is usable again.
ShotEnded ==
  [page EXCEPT !.shot = None, !.here = FALSE, !.phase = "idle",
               !.button = IF page.here THEN "enabled" ELSE @]

PageTakes(c, res, rest) ==
  /\ \/ /\ c.type = "API_REQUEST" /\ res = "unauthorized" /\ c.tries = 0
        /\ Send(rest, <<Post("REFRESH", "page", None)>>)
        /\ UNCHANGED page
     \/ /\ c.type = "REFRESH" /\ res = "ok"
        /\ Send(rest, <<[Post("API_REQUEST", "page", None) EXCEPT !.tries = 1]>>)
        /\ UNCHANGED page
     \/ /\ \/ c.type = "REFRESH" /\ res # "ok"
           \/ c.type = "API_REQUEST" /\ ~(res = "unauthorized" /\ c.tries = 0)
        /\ Send(rest, <<>>)
        /\ page' = Checked(res = "ok" /\ plan.master)
     \/ /\ c.type = "SHOOT_JOB" /\ res = "unauthorized"
        /\ Send(rest, <<Post("OPEN_POPUP", "page", None)>>)
        /\ page' = [page EXCEPT !.phase = "opening"]
     \/ /\ c.type = "SHOOT_JOB" /\ res # "unauthorized" /\ Send(rest, <<>>)
        /\ page' = ShotEnded
  /\ UNCHANGED <<popup, options, orgStore>>

\* An answer for the options page comes before that of an earlier request.
Overtakes(i) ==
  LET ForOrg(c) == c.from = "options" /\ c.type = "API_REQUEST" IN
    ForOrg(calls[i]) /\ \E j \in 1..(i - 1) : ForOrg(calls[j])
Marked(i) == marks' = marks \cup MarkIf(Overtakes(i), "overtaken") /\ UNCHANGED signedOut

Respond(i, res) ==
  LET c == calls[i]  rest == RemoveAt(calls, i) IN
    \/ c.from = "gone" /\ calls' = rest /\ UNCHANGED uis
    \/ c.from = "popup" /\ PopupTakes(c, res, rest)
    \/ c.from = "options" /\ OptionsTakes(c, res, rest)
    \/ c.from = "page" /\ PageTakes(c, res, rest)

----------------------------------------------------------------------------
(* The worker handles a message (handleMessage).                           *)

SetCall(i, c) == calls' = [calls EXCEPT ![i] = c] /\ UNCHANGED uis
At(i, type, step) == i \in DOMAIN calls /\ calls[i].type = type /\ calls[i].step = step

\* Mutant: no check that there is a refresh token.
JoinRefreshUnchecked(i) ==
  /\ \/ refresh # None /\ UNCHANGED refresh
     \/ refresh = None /\ refresh' = [pair |-> cache, step |-> "sent", reply |-> None]
  /\ SetCall(i, [calls[i] EXCEPT !.step = "refreshing", !.pair = None])

\* attemptRefresh: everybody joins the one refresh under way.
JoinRefresh(i) ==
  /\ \/ refresh # None /\ UNCHANGED refresh
     \/ refresh = None /\ cache # None /\ refresh' = [pair |-> cache, step |-> "sent", reply |-> None]
  /\ SetCall(i, [calls[i] EXCEPT !.step = "refreshing", !.pair = None])
NothingToRefresh == refresh = None /\ cache = None

HandleRefresh(i) ==
  /\ At(i, "REFRESH", "posted")
  /\ \/ JoinRefresh(i)
     \/ NothingToRefresh /\ Respond(i, "refused") /\ UNCHANGED refresh
  /\ UNCHANGED <<server, store, history>>

\* Messages that need a token are answered at once without one.
HandleUnauthorized(i) ==
  /\ calls[i].type \in Guarded /\ calls[i].step = "posted" /\ cache = None
  /\ Respond(i, "unauthorized")
  /\ Marked(i)
  /\ UNCHANGED <<server, store, refresh>>

\* What a clear finds under way: sign-ins that will bring tokens, and one that
\* has stored its pair and will still show the popup authenticated.
SignInUnderWay(steps) == \E c \in Range(calls) : c.type \in SignIns /\ c.step \in steps
Cleared(i) ==
  /\ ClearTokens
  /\ signedOut' = (~SignInUnderWay({"http"}) /\ refresh = None)
  /\ marks' = marks \cup MarkIf(calls[i].from # "popup" \/ SignInUnderWay({"me"}), "crossed")
  /\ Respond(i, "ok")

HandleLogoutLocally(i) ==
  /\ At(i, "LOGOUT", "posted") /\ cache = None
  /\ Cleared(i)
  /\ UNCHANGED <<server, refresh>>

\* Every other handler sends its request with the token it finds now.
HandleByRequest(i) ==
  /\ calls[i].step = "posted" /\ calls[i].type \notin {"REFRESH", "OPEN_POPUP"}
  /\ calls[i].type \in Guarded \cup {"LOGOUT"} => cache # None
  /\ SetCall(i, [calls[i] EXCEPT !.step = "http", !.pair = cache])
  /\ signedOut' = (signedOut /\ calls[i].type \notin SignIns)
  /\ UNCHANGED <<server, store, refresh, marks>>

\* chrome.action.openPopup
HandleOpenPopup(i) ==
  /\ At(i, "OPEN_POPUP", "posted")
  /\ LET c == calls[i]
         opens == popup.screen = "closed" /\ "popup" \in plan.clients
         rest == RemoveAt(calls, i) \o IF opens THEN <<Post("REFRESH", "popup", None)>> ELSE <<>>
     IN /\ calls' = rest
        /\ page' = IF c.from = "page" THEN ShotEnded ELSE page
        /\ popup' = IF opens THEN [ClosedPopup EXCEPT !.screen = "loading"] ELSE popup
        /\ marks' = marks \ MarkIf(opens, "crossed")
  /\ UNCHANGED <<server, store, refresh, options, orgStore, signedOut>>

Handle(i) ==
  /\ up /\ i \in DOMAIN calls
  /\ \/ HandleRefresh(i) \/ HandleUnauthorized(i) \/ HandleLogoutLocally(i)
     \/ HandleByRequest(i) \/ HandleOpenPopup(i)
  /\ UNCHANGED <<bounds, up>>

----------------------------------------------------------------------------
(* The API answers, or the request fails; the handler goes on.             *)

Works(p) == p # None /\ p \notin expired

\* A sign-in brings a new pair; MFA_VALIDATE asks for the user with it.
SignInAnswered(i) ==
  /\ calls[i].type \in SignIns /\ calls[i].step = "http" /\ issued < plan.pairs
  /\ issued' = issued + 1
  /\ SetTokens(issued + 1)
  /\ \/ calls[i].type = "MFA_VALIDATE" /\ SetCall(i, [calls[i] EXCEPT !.step = "me", !.pair = issued'])
     \/ calls[i].type # "MFA_VALIDATE" /\ Respond(i, "ok")
  /\ UNCHANGED <<revoked, expired, charges, refresh, history>>

\* Wrong credentials; a bound: otherwise they count as a disturbance.
SignInRefused(i) ==
  /\ calls[i].type \in SignIns /\ calls[i].step = "http" /\ issued = plan.pairs
  /\ Respond(i, "refused")
  /\ UNCHANGED <<server, store, refresh, history>>

\* An account with a second factor gets no tokens yet.
MfaAsked(i) ==
  /\ At(i, "LOGIN", "http") /\ "MFA_VALIDATE" \in plan.signIns
  /\ Respond(i, "mfa")
  /\ UNCHANGED <<server, store, refresh, history>>

\* GET_ME, and a request of the options page or the content script.
ReadAnswered(i) ==
  /\ \/ calls[i].type \in {"GET_ME", "API_REQUEST"} /\ calls[i].step = "http"
     \/ calls[i].step = "me"
  /\ Respond(i, IF Works(calls[i].pair) THEN "ok" ELSE "refused")
  /\ Marked(i)
  /\ UNCHANGED <<server, store, refresh>>

\* The API authenticates before it charges.
ShotAnswered(i) ==
  /\ At(i, "SHOOT_JOB", "http") /\ Works(calls[i].pair)
  /\ charges' = [charges EXCEPT ![calls[i].arg] = @ + 1]
  /\ Respond(i, "ok")
  /\ UNCHANGED <<issued, revoked, expired, store, refresh, history>>

\* A 401 is retried once, with the token the refresh leaves.
ShotUnauthorized(i) ==
  /\ At(i, "SHOOT_JOB", "http") /\ ~Works(calls[i].pair)
  /\ \/ calls[i].tries = 0 /\ JoinRefresh(i)
     \/ (calls[i].tries = 1 \/ NothingToRefresh) /\ Respond(i, "refused") /\ UNCHANGED refresh
  /\ UNCHANGED <<server, store, history>>

LogoutServed(i) ==
  /\ At(i, "LOGOUT", "http")
  /\ revoked' = revoked \cup {calls[i].pair}
  /\ SetCall(i, [calls[i] EXCEPT !.step = "served"])
  /\ UNCHANGED <<issued, expired, charges, store, refresh, history>>

\* Whatever became of the request, the tokens are cleared.
LogoutEnds(i) ==
  /\ At(i, "LOGOUT", "served")
  /\ Cleared(i)
  /\ UNCHANGED <<server, refresh>>

\* Mutant: a shot is sent again after any failure, not only after a 401.
RequestRetried(i) ==
  /\ calls[i].step \in {"http", "me"}
  /\ CASE calls[i].type = "LOGOUT" -> SetCall(i, [calls[i] EXCEPT !.step = "served"])
       [] calls[i].type = "SHOOT_JOB" /\ calls[i].tries = 0 -> SetCall(i, [calls[i] EXCEPT !.tries = 1])
       [] OTHER -> Respond(i, "refused")
  /\ \/ UNCHANGED charges
     \/ /\ calls[i].type = "SHOOT_JOB" /\ Works(calls[i].pair)
        /\ charges' = [charges EXCEPT ![calls[i].arg] = @ + 1]
  /\ Marked(i)
  /\ UNCHANGED <<issued, revoked, expired, store, refresh>>

\* The request or its answer is lost, or the API refuses it; a shot may have
\* been charged all the same.
RequestFails(i) ==
  /\ calls[i].step \in {"http", "me"}
  /\ IF calls[i].type = "LOGOUT" THEN SetCall(i, [calls[i] EXCEPT !.step = "served"])
                                 ELSE Respond(i, "refused")
  /\ \/ UNCHANGED charges
     \/ /\ calls[i].type = "SHOOT_JOB" /\ Works(calls[i].pair)
        /\ charges' = [charges EXCEPT ![calls[i].arg] = @ + 1]
  /\ Marked(i)
  /\ UNCHANGED <<issued, revoked, expired, store, refresh>>

Answered(i) ==
  /\ up /\ i \in DOMAIN calls
  /\ \/ SignInAnswered(i) \/ SignInRefused(i) \/ MfaAsked(i) \/ ReadAnswered(i) \/ ShotAnswered(i)
     \/ ShotUnauthorized(i) \/ LogoutServed(i) \/ LogoutEnds(i)
  /\ UNCHANGED <<bounds, up>>

Lost(i) ==
  /\ up /\ i \in DOMAIN calls /\ Disturb
  /\ RequestFails(i)
  /\ UNCHANGED <<plan, clicks, up>>

\* Mutant: a handler whose refresh failed does not answer.
GoOnSilent(c, p) ==
  IF c.step # "refreshing" \/ p = None THEN c
  ELSE IF c.type = "SHOOT_JOB" THEN [c EXCEPT !.step = "http", !.pair = p, !.tries = 1]
  ELSE [c EXCEPT !.step = "refreshed"]

\* The handlers that awaited the refresh go on in the same turn.
GoOn(c, p) ==
  IF c.step # "refreshing" THEN c
  ELSE IF p = None THEN [c EXCEPT !.step = "denied"]
  ELSE IF c.type = "SHOOT_JOB" THEN [c EXCEPT !.step = "http", !.pair = p, !.tries = 1]
  ELSE [c EXCEPT !.step = "refreshed"]

\* The old refresh token stays good: nothing rotates it.
RefreshServed ==
  /\ up /\ refresh # None /\ refresh.step = "sent"
  /\ \/ /\ refresh.pair \notin revoked /\ issued < plan.pairs
        /\ issued' = issued + 1 /\ refresh' = [refresh EXCEPT !.step = "served", !.reply = issued + 1]
        /\ UNCHANGED spent
     \/ /\ refresh.pair \in revoked \/ issued = plan.pairs
        /\ refresh' = [refresh EXCEPT !.step = "served"]
        /\ UNCHANGED <<issued, spent>>
     \/ /\ Disturb
        /\ refresh' = [refresh EXCEPT !.step = "served"]
        /\ UNCHANGED issued
  /\ UNCHANGED <<plan, clicks, revoked, expired, charges, up, store, calls, uis, history>>

\* refreshIfNeeded: a failure leaves the tokens as they are.
RefreshArrives ==
  /\ up /\ refresh # None /\ refresh.step = "served"
  /\ LET p == refresh.reply IN
       /\ IF p = None THEN UNCHANGED store ELSE SetTokens(p)
       /\ calls' = [i \in DOMAIN calls |-> GoOn(calls[i], p)]
  /\ refresh' = None
  /\ UNCHANGED <<bounds, server, up, uis, history>>

AfterRefresh(i) ==
  /\ up /\ i \in DOMAIN calls /\ calls[i].step \in {"refreshed", "denied"}
  /\ Respond(i, IF calls[i].step = "refreshed" THEN "ok" ELSE "refused")
  /\ UNCHANGED <<bounds, server, up, store, refresh, history>>

\* Every 15 minutes; the alarm also starts the worker.
Alarm ==
  /\ Disturb
  /\ up' = TRUE
  /\ LET c == IF up THEN cache ELSE storage IN
       /\ cache' = c
       /\ refresh' = IF refresh = None /\ c # None THEN [pair |-> c, step |-> "sent", reply |-> None] ELSE refresh
  /\ UNCHANGED <<plan, clicks, server, storage, writes, calls, uis, history>>

\* Tokens end: an access token after a while, a refresh token at a logout elsewhere.
TokensEnd(p) ==
  /\ p <= issued /\ Disturb
  /\ \/ p \notin expired /\ expired' = expired \cup {p} /\ UNCHANGED revoked
     \/ p \notin revoked /\ revoked' = revoked \cup {p} /\ UNCHANGED expired
  /\ UNCHANGED <<plan, clicks, issued, charges, up, store, refresh, calls, uis, history>>

----------------------------------------------------------------------------
(* The user.                                                               *)

Room == Len(calls) < MaxCalls
Sends(type, from, arg) == calls' = Append(calls, Post(type, from, arg))
Leaves(client) == calls' = [i \in DOMAIN calls |->
                              IF calls[i].from = client THEN [calls[i] EXCEPT !.from = "gone"]
                                                        ELSE calls[i]]
\* What the user does to one client.
Only(client) ==
  /\ client \in plan.clients
  /\ UNCHANGED <<plan, server, up, store, refresh, signedOut>>
  /\ IF client = "popup" THEN TRUE ELSE UNCHANGED popup
  /\ IF client = "options" THEN TRUE ELSE UNCHANGED <<options, orgStore>>
  /\ IF client = "page" THEN TRUE ELSE UNCHANGED <<page, clicks>>

OpenPopup ==
  /\ popup.screen = "closed" /\ Room /\ Disturb
  /\ popup' = [popup EXCEPT !.screen = "loading"]
  /\ Sends("REFRESH", "popup", None)
  /\ marks' = marks \ {"crossed"}
  /\ Only("popup")

\* The popup is destroyed as soon as it loses the focus.
ClosePopup ==
  /\ popup.screen # "closed"
  /\ popup' = ClosedPopup /\ Leaves("popup")
  /\ Only("popup") /\ UNCHANGED <<spent, marks>>

\* The form of a screen can be sent while its flag is not set; Retry, shown
\* after a network error, sends the last one again, which is this screen's.
LoginForm == IF popup.screen = "login" THEN {"LOGIN"} ELSE {}
RegisterForm == IF popup.screen = "register" THEN {"REGISTER"} ELSE {}
MfaForm == IF popup.screen = "mfa" THEN {"MFA_VALIDATE"} ELSE {}

Submit(type) ==
  /\ type \in (LoginForm \cup RegisterForm \cup MfaForm) \ popup.pending /\ Room
  /\ popup' = [popup EXCEPT !.pending = @ \cup {type}]
  /\ Sends(type, "popup", None)
  /\ Only("popup") /\ UNCHANGED <<spent, marks>>

\* "Create an account" and "Sign in" reset the form that is left, also while
\* its message is under way.
SwitchLinks ==
  /\ "REGISTER" \in plan.signIns
  /\ \/ popup.screen = "login" /\ popup' = [screen |-> "register", pending |-> popup.pending \ {"LOGIN"}]
     \/ popup.screen = "register" /\ popup' = [screen |-> "login", pending |-> popup.pending \ {"REGISTER"}]
  /\ Only("popup") /\ UNCHANGED <<calls, spent, marks>>

\* The only button of the authenticated view; nothing disables it.
PopupLogout ==
  /\ popup.screen = "authenticated" /\ Room
  /\ Sends("LOGOUT", "popup", None)
  /\ Only("popup") /\ UNCHANGED <<popup, spent, marks>>

OpenOptions ==
  /\ options.screen = "closed" /\ Room /\ Disturb
  /\ options' = [options EXCEPT !.screen = "loading"]
  /\ Sends("REFRESH", "options", None)
  /\ Only("options") /\ UNCHANGED <<orgStore, marks>>

CloseOptions ==
  /\ options.screen # "closed"
  /\ options' = ClosedOptions /\ Leaves("options")
  /\ Only("options") /\ UNCHANGED <<orgStore, spent, marks>>

SwitchOrg(o) ==
  /\ options.screen = "authenticated" /\ o # options.active /\ Room
  /\ options' = Fetching(o) /\ orgStore' = o
  /\ Sends("API_REQUEST", "options", o)
  /\ Only("options") /\ UNCHANGED <<spent, marks>>

OptionsLogout ==
  /\ options.screen = "authenticated" /\ Room
  /\ Sends("LOGOUT", "options", None)
  /\ Only("options") /\ UNCHANGED <<options, orgStore, spent, marks>>

\* The content script starts with the page (main).
OpenPage ==
  /\ ~page.open /\ Room /\ Disturb
  /\ page' = [page EXCEPT !.open = TRUE]
  /\ Sends("API_REQUEST", "page", None)
  /\ Only("page") /\ UNCHANGED <<clicks, marks>>

ClosePage ==
  /\ page.open
  /\ page' = ClosedPage /\ Leaves("page")
  /\ Only("page") /\ UNCHANGED <<clicks, spent, marks>>

\* The site shows another modal or none; the observer gives it a button.
ShowModal(j) ==
  /\ page.open /\ j # page.modal
  /\ page' = [page EXCEPT !.modal = j, !.here = FALSE,
                          !.button = IF j = None THEN "none"
                                     ELSE IF page.master = "yes" THEN "enabled" ELSE "disabled"]
  /\ Only("page") /\ UNCHANGED <<clicks, calls, spent, marks>>

\* handleShoot; a second click during a shot, on the button of a newer modal,
\* returns at once.
ClickShoot ==
  /\ page.button = "enabled" /\ page.shot = None /\ clicks < MaxClicks /\ Room
  /\ clicks' = clicks + 1
  /\ page' = [page EXCEPT !.shot = page.modal, !.here = TRUE, !.button = "disabled",
                          !.phase = "sent"]
  /\ Sends("SHOOT_JOB", "page", clicks')
  /\ Only("page") /\ UNCHANGED <<spent, marks>>

\* handleOpenPopup waits 300 ms and no longer.
PopupRace ==
  /\ page.phase = "opening"
  /\ page' = ShotEnded /\ Leaves("page")
  /\ Only("page") /\ UNCHANGED <<clicks, spent, marks>>

User ==
  \/ OpenPopup \/ ClosePopup \/ SwitchLinks \/ PopupLogout
  \/ \E type \in SignIns : Submit(type)
  \/ OpenOptions \/ CloseOptions \/ OptionsLogout \/ \E o \in Orgs : SwitchOrg(o)
  \/ OpenPage \/ ClosePage \/ ClickShoot \/ \E j \in Jobs \cup {None} : ShowModal(j)

Progress(i) == Handle(i) \/ Answered(i) \/ AfterRefresh(i)

Next ==
  \/ User \/ PopupRace
  \/ Wake \/ WriteLands \/ Kill \/ Alarm
  \/ \E p \in Pairs : TokensEnd(p)
  \/ RefreshServed \/ RefreshArrives
  \/ \E i \in DOMAIN calls : Progress(i) \/ Lost(i)

\* Chrome runs the worker's handlers, and every request is answered or fails.
Fairness ==
  /\ WF_vars(Wake) /\ WF_vars(Progress(1))
  /\ WF_vars(RefreshServed) /\ WF_vars(RefreshArrives) /\ WF_vars(PopupRace)

Spec == Init /\ [][Next]_vars /\ Fairness

----------------------------------------------------------------------------
\* Every variable has its type: a refresh has tokens to send, answers come for
\* messages of a client, and storage holds whole pairs (background, token-store).
TypeOK ==
  /\ plan \in Plans
  /\ issued \in Pairs /\ revoked \subseteq Pairs /\ expired \subseteq Pairs
  /\ charges \in [Clicks -> Nat]
  /\ up \in BOOLEAN /\ cache \in Pairs \cup {None} /\ storage \in Pairs \cup {None}
  /\ writes \in Seq(Pairs \cup {None})
  /\ refresh \in [pair : Pairs, step : {"sent", "served"}, reply : Pairs \cup {None}] \cup {None}
  /\ calls \in Seq(Call)
  /\ popup \in [screen : {"closed", "loading", "login", "register", "mfa", "authenticated"},
                pending : SUBSET SignIns]
  /\ options \in [screen : {"closed", "loading", "unauthenticated", "authenticated"},
                  active : Orgs \cup {None}, shown : Orgs \cup {None},
                  loading : BOOLEAN, error : BOOLEAN]
  /\ page \in [open : BOOLEAN, master : {"unknown", "yes", "no"}, modal : Jobs \cup {None},
               button : {"none", "disabled", "enabled"}, shot : Jobs \cup {None},
               here : BOOLEAN, phase : {"idle", "sent", "opening"}]
  /\ orgStore \in Orgs \cup {None} /\ clicks \in 0..MaxClicks /\ spent \in 0..plan.budget
  /\ signedOut \in BOOLEAN /\ marks \subseteq {"killed", "crossed", "overtaken"}

\* After a logout no token comes back, neither from the worker nor from the
\* storage a restarted worker reads, unless a refresh or a sign-in was under way
\* when the tokens were cleared, or the worker was stopped before the removal
\* landed (AuthService.logout, the token store).
SignedOutStays ==
  signedOut => /\ cache = None
               /\ writes = <<>> => storage = None
               /\ refresh = None

\* The popup shows the authenticated view only while the worker has tokens,
\* unless they were cleared from another view, during another sign-in, or lost
\* with the worker.
SignedInMeansTokens ==
  popup.screen = "authenticated" /\ up /\ "crossed" \notin marks => cache # None

\* A click on Shoot is charged once at most, whatever expires, is refreshed,
\* lost or restarted meanwhile (SHOOT_JOB's retry).
ShotOnce == \A k \in Clicks : charges[k] <= 1

\* Once the options page is not loading, its sections show the organization it
\* calls active, or an error, unless answers overtook each other (switchOrg).
OrgShown ==
  options.screen = "authenticated" /\ ~options.loading /\ From("options") = {}
    /\ marks \cap {"overtaken", "killed"} = {}
  => options.error \/ options.shown = options.active

\* A shot ends and its button is usable again even if the worker is stopped; the
\* popup leaves its loading and pending states if it is not (handleShoot, do*).
UisSettle ==
  /\ page.shot # None ~> page.shot = None
  /\ popup.screen = "loading" \/ popup.pending # {}
       ~> \/ popup.screen # "loading" /\ popup.pending = {}
          \/ "killed" \in marks

============================================================================
