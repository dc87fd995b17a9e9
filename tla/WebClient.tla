----------------------------- MODULE WebClient -----------------------------
(***************************************************************************)
(* The web client's access to the API: the token store, which the tabs of  *)
(* a browser share, the interceptors with their queue and one refresh per  *)
(* tab, the pages that sign in and out, and the middleware that decides by *)
(* a cookie which pages a visitor gets.                                    *)
(*                                                                         *)
(* A pair of tokens is the number under which the API issued it.  "app"    *)
(* stands for every page behind the middleware: dashboard, onboarding and  *)
(* invitations.  A full load of a page starts its scripts anew; router.push *)
(* and links do not.                                                       *)
(***************************************************************************)
EXTENDS Naturals, FiniteSets, SequencesExt

CONSTANTS
  Tabs,
  Plans,    \* bounds of a session: its tabs, the kinds of requests the user causes,
            \* the pairs issued, the requests under way when the user causes one,
            \* and the disturbances
  MaxPairs, \* bound: pairs of tokens issued in any session
  None

AuthRoutes == {"login", "signup", "forgot", "reset", "mfa"}
Paths == AuthRoutes \cup {"verify", "app"}
PublicPaths == {"login", "signup"}
Kinds == {"login", "register", "validate", "forgot", "reset", "verify", "api", "secret", "logout"}
SignIns == {"login", "register"}

ASSUME WebClientAssumption ==
  /\ MaxPairs \in Nat \ {0} /\ None \notin Nat \cup Paths
  /\ Plans \subseteq [tabs : SUBSET Tabs, kinds : SUBSET Kinds, pairs : 1..MaxPairs,
                     reqs : Nat, budget : Nat]

Pairs == 1..MaxPairs
MaybePair == Pairs \cup {None}

\* A page: what its form asks for, where success leads, and its links.  "secret"
\* asks for a change that takes the current password.
LoginPage == [form |-> {"login"}, leads |-> "app", links |-> {"signup", "forgot"}]
SignupPage == [form |-> {"register"}, leads |-> "app", links |-> {"login"}]
MfaChallengePage == [form |-> {"validate"}, leads |-> "app", links |-> {"login"}]
ForgotPasswordPage == [form |-> {"forgot"}, leads |-> "reset", links |-> {"login"}]
ResetPasswordPage == [form |-> {"reset"}, leads |-> "login", links |-> {"login"}]
VerifyEmailPage == [form |-> {"verify"}, leads |-> "app", links |-> {}]
ProfilePage == [form |-> {"api", "secret", "logout"}, leads |-> "app", links |-> {}]

Pages == [login |-> LoginPage, signup |-> SignupPage, mfa |-> MfaChallengePage,
          forgot |-> ForgotPasswordPage, reset |-> ResetPasswordPage,
          verify |-> VerifyEmailPage, app |-> ProfilePage]

VARIABLES
  plan,
  issued, expired, revoked, \* pairs issued; access and refresh tokens that ended
  tokens, \* what localStorage holds
  cookie, \* the cookie that says a user is logged in
  tabs,   \* per tab: its page, the full load it waits for, isRefreshing
  reqs,   \* the requests under way, oldest first
  spent,  \* disturbances so far
  signedOut, marks \* history

server == <<issued, expired, revoked>>
store == <<tokens, cookie>>
history == <<signedOut, marks>>
vars == <<plan, server, store, tabs, reqs, spent, history>>

Steps == {"sent", "served", "denied", "queued", "waiting"}
Request == [tab : Tabs, kind : Kinds \cup {"refresh"}, pair : MaybePair, retry : BOOLEAN,
            step : Steps, reply : MaybePair]
\* The request interceptor takes the access token the store holds now; "refresh"
\* and "logout" carry the refresh token, the public forms need neither.
Bearer(kind) == kind \in {"api", "secret", "refresh", "logout"}
Post(t, kind) == [tab |-> t, kind |-> kind, pair |-> IF Bearer(kind) THEN tokens ELSE None,
                  retry |-> FALSE, step |-> "sent", reply |-> None]
Works(p) == p # None /\ p \notin expired
Disturb == spent < plan.budget /\ spent' = spent + 1
MarkIf(cond, m) == IF cond THEN {m} ELSE {}
Requests == Range(reqs)
Held(t) == \E r \in Requests : r.tab = t /\ r.step \in {"queued", "waiting"}
\* The requests of s that are in R, in their order: SelectSeq as a recursive function.
Only(s, R) ==
  LET f[n \in 0..Len(s)] == IF n = 0 THEN <<>>
                            ELSE IF s[n] \in R THEN Append(f[n - 1], s[n]) ELSE f[n - 1]
  IN f[Len(s)]

Init ==
  /\ plan \in Plans
  /\ issued = 1 /\ expired = {} /\ revoked = {}
  /\ \/ tokens = 1 /\ cookie \in BOOLEAN
     \/ tokens = None /\ cookie = FALSE
  /\ tabs = [t \in Tabs |-> [path |-> None, going |-> None, refreshing |-> FALSE]]
  /\ reqs = <<>> /\ spent = 0 /\ signedOut = FALSE /\ marks = {}

----------------------------------------------------------------------------
(* The token store and the pages.                                          *)

SetTokens(p) == tokens' = p /\ cookie' = TRUE

\* Mutant: the cookie is left.
ClearKeepsCookie == tokens' = None /\ UNCHANGED cookie

ClearTokens == tokens' = None /\ cookie' = FALSE

\* middleware.ts: whom it lets where.
Middleware(path, c) ==
  IF path = "app" /\ ~c THEN "login" ELSE IF path \in AuthRoutes /\ c THEN "app" ELSE path

\* A full load drops the requests of the tab and the state of its scripts; the
\* dashboard asks for the user at once (OrganizationProvider, useMe).
Load(t, path) ==
  LET p == Middleware(path, cookie) IN
    /\ tabs' = [tabs EXCEPT ![t] = [path |-> p, going |-> None, refreshing |-> FALSE]]
    /\ reqs' = Only(reqs, {r \in Requests : r.tab # t})
                 \o IF p = "app" THEN <<Post(t, "api")>> ELSE <<>>

NavCommit(t) ==
  /\ tabs[t].going # None
  /\ Load(t, tabs[t].going)
  /\ UNCHANGED <<plan, server, store, spent, history>>

\* A page of the session's requests, or one of the dashboard.
Reachable(path) == path = "app" \/ Pages[path].form \cap plan.kinds # {}

\* A tab is opened at an address, or sent to one by hand or by a link of the
\* dashboard's sidebar, which loads the page anew.
Visit(t, path) ==
  /\ t \in plan.tabs /\ Reachable(path)
  /\ \/ tabs[t].path = None /\ UNCHANGED spent
     \/ tabs[t].path # None /\ Disturb
  /\ Load(t, path)
  /\ UNCHANGED <<plan, server, store, history>>

FollowLink(t, path) ==
  /\ tabs[t].path # None /\ path \in Pages[tabs[t].path].links /\ Reachable(path)
  /\ tabs' = [tabs EXCEPT ![t].path = Middleware(path, cookie)]
  /\ UNCHANGED <<plan, server, store, reqs, spent, history>>

----------------------------------------------------------------------------
(* The user causes a request.                                              *)

\* A form's button is disabled while its request is under way; reading goes on
\* in parallel, and nothing disables "Log out".
Free(t, kind) ==
  /\ Len(reqs) < plan.reqs
  /\ kind \in {"api", "logout"} \/ \A r \in Requests : ~(r.tab = t /\ r.kind = kind)
Clickable(t, kind) == /\ t \in plan.tabs /\ kind \in plan.kinds
                      /\ tabs[t].path # None /\ kind \in Pages[tabs[t].path].form

Send(t, kind) ==
  /\ Clickable(t, kind) /\ Free(t, kind)
  /\ kind = "logout" => tokens # None
  /\ reqs' = Append(reqs, Post(t, kind))
  /\ signedOut' = (signedOut /\ kind \notin SignIns)
  /\ marks' = marks \cup MarkIf(kind = "logout", "logout")
  /\ UNCHANGED <<plan, server, store, tabs, spent>>

----------------------------------------------------------------------------
(* The tab takes an answer.                                                *)

Drop(i) == reqs' = RemoveAt(reqs, i)

\* redirectToLogin asks for a full load, but not from the public pages.
Redirected(t) == IF tabs[t].path \in PublicPaths THEN tabs
                 ELSE [tabs EXCEPT ![t].going = "login"]

Leads(t) == Pages[tabs[t].path].leads
\* router.push after a success, if the form is still there; c is the cookie by then.
Pushed(t, kind, to, c) ==
  IF kind \in Pages[tabs[t].path].form THEN [tabs EXCEPT ![t].path = Middleware(to, c)] ELSE tabs

Done(i) ==
  /\ reqs[i].step = "sent"
  /\ \/ reqs[i].kind \in {"api", "secret"} /\ Works(reqs[i].pair) /\ UNCHANGED tabs
     \/ /\ reqs[i].kind \in {"forgot", "reset", "verify"}
        /\ tabs' = Pushed(reqs[i].tab, reqs[i].kind, Leads(reqs[i].tab), cookie)
  /\ Drop(i)
  /\ UNCHANGED <<server, store, history>>

\* login and register store the pair; an account with MFA gets none yet.
SignedIn(i) ==
  /\ reqs[i].kind \in SignIns /\ reqs[i].step = "sent" /\ issued < plan.pairs
  /\ issued' = issued + 1 /\ SetTokens(issued + 1)
  /\ tabs' = Pushed(reqs[i].tab, reqs[i].kind, Leads(reqs[i].tab), TRUE)
  /\ Drop(i)
  /\ marks' = IF Len(reqs) = 1 THEN {} ELSE marks
  /\ UNCHANGED <<expired, revoked, signedOut>>

MfaAsked(i) ==
  /\ reqs[i].kind = "login" /\ reqs[i].step = "sent" /\ "validate" \in plan.kinds
  /\ tabs' = Pushed(reqs[i].tab, "login", "mfa", cookie)
  /\ Drop(i)
  /\ UNCHANGED <<server, store, history>>

\* The API answers 401: a token that does not work, a wrong password or code, and
\* every "validate", whose pending token is not where the API looks for it.
Unauthorized(r) ==
  /\ r.step = "sent"
  /\ \/ r.kind \in {"login", "validate", "secret"}
     \/ r.kind = "api" /\ ~Works(r.pair)

Refreshing(t) == tabs' = [tabs EXCEPT ![t].refreshing = TRUE]
StartRefresh(i) ==
  LET t == reqs[i].tab IN
    /\ Refreshing(t)
    /\ reqs' = Append([reqs EXCEPT ![i].step = "waiting", ![i].retry = TRUE], Post(t, "refresh"))

\* Mutant: only a request that was sent again gives up.
GivesUpOnRetry(r) == r.retry
\* No second refresh for one request, and none without a refresh token.
GivesUp(r) == r.retry \/ tokens = None

\* The response interceptor.
Intercept(i) ==
  LET r == reqs[i] IN
    /\ Unauthorized(r)
    /\ \/ /\ GivesUp(r)
          /\ ClearTokens /\ tabs' = Redirected(r.tab) /\ Drop(i)
       \/ /\ ~GivesUp(r) /\ tabs[r.tab].refreshing
          /\ reqs' = [reqs EXCEPT ![i].step = "queued"]
          /\ UNCHANGED <<store, tabs>>
       \/ /\ ~GivesUp(r) /\ ~tabs[r.tab].refreshing
          /\ StartRefresh(i)
          /\ UNCHANGED store
    /\ marks' = marks \cup MarkIf(r.kind # "api" /\ (Works(r.pair) \/ ~Bearer(r.kind)), "wrong")
    /\ UNCHANGED <<server, signedOut>>

\* No answer, or another error than 401; a sign-in that succeeds beyond the
\* bound counts among them.
Failed(i) ==
  /\ reqs[i].step = "sent" /\ reqs[i].kind \notin {"refresh", "logout"}
  /\ Drop(i)
  /\ marks' = marks \cup {"failed"}
  /\ UNCHANGED <<server, store, tabs, signedOut>>

\* The API takes the refresh token; the pair it came with stays good.
RefreshServed(i) ==
  /\ reqs[i].kind = "refresh" /\ reqs[i].step = "sent"
  /\ \/ /\ reqs[i].pair \notin revoked /\ issued < plan.pairs
        /\ issued' = issued + 1
        /\ reqs' = [reqs EXCEPT ![i].step = "served", ![i].reply = issued + 1]
        /\ UNCHANGED marks
     \/ /\ reqs[i].pair \in revoked \/ issued = plan.pairs
        /\ reqs' = [reqs EXCEPT ![i].step = "denied"]
        /\ marks' = marks \cup MarkIf(reqs[i].pair \notin revoked, "lost")
        /\ UNCHANGED issued
  /\ UNCHANGED <<expired, revoked, store, tabs, signedOut>>

RefreshLost(i) ==
  /\ reqs[i].kind = "refresh" /\ reqs[i].step \in {"sent", "served"}
  /\ reqs' = [reqs EXCEPT ![i].step = "denied", ![i].reply = None]
  /\ marks' = marks \cup {"lost"}
  /\ UNCHANGED <<server, store, tabs, signedOut>>

\* Mutant: a request is sent again with the token it had.
ResentUnchanged(r, p) == IF r.step \in {"queued", "waiting"} THEN [r EXCEPT !.step = "sent"] ELSE r
\* Sent again with the token the refresh brought.
Resent(r, p) ==
  IF r.step \in {"queued", "waiting"}
  THEN [r EXCEPT !.step = "sent", !.pair = IF Bearer(r.kind) THEN p ELSE None] ELSE r

RefreshArrives(i) ==
  LET t == reqs[i].tab  p == reqs[i].reply IN
    /\ reqs[i].kind = "refresh" /\ reqs[i].step = "served"
    /\ SetTokens(p)
    /\ reqs' = RemoveAt([j \in DOMAIN reqs |-> IF reqs[j].tab = t THEN Resent(reqs[j], p) ELSE reqs[j]], i)
    /\ tabs' = [tabs EXCEPT ![t].refreshing = FALSE]
    /\ UNCHANGED <<server, history>>

\* Mutant: only the request that asked for the refresh is rejected.
RejectWaiting(t, r) ==
  r.tab = t /\ (r.step = "waiting" \/ (r.kind = "refresh" /\ r.step = "denied"))
\* Whatever was the reason, the queue is rejected and the tokens are cleared.
Reject(t, r) ==
  r.tab = t /\ (r.step \in {"queued", "waiting"} \/ (r.kind = "refresh" /\ r.step = "denied"))

RefreshFails(i) ==
  LET t == reqs[i].tab IN
    /\ reqs[i].kind = "refresh" /\ reqs[i].step = "denied"
    /\ ClearTokens
    /\ reqs' = Only(reqs, {r \in Requests : ~Reject(t, r)})
    /\ tabs' = [Redirected(t) EXCEPT ![t].refreshing = FALSE]
    /\ UNCHANGED <<server, history>>

LogoutServed(i) ==
  /\ reqs[i].kind = "logout" /\ reqs[i].step = "sent"
  /\ revoked' = revoked \cup {reqs[i].pair}
  /\ reqs' = [reqs EXCEPT ![i].step = "served"]
  /\ UNCHANGED <<issued, expired, store, tabs, history>>

LogoutLost(i) ==
  /\ reqs[i].kind = "logout" /\ reqs[i].step = "sent"
  /\ reqs' = [reqs EXCEPT ![i].step = "denied"]
  /\ UNCHANGED <<server, store, tabs, history>>

\* Some tab is about to store a pair.
TokensUnderWay == \E r \in Requests : r.kind \in SignIns \cup {"refresh"}
\* Whatever became of the request, the tokens are cleared and the page left.
LoggedOut(t) ==
  /\ ClearTokens
  /\ tabs' = [tabs EXCEPT ![t].going = "login"]
  /\ signedOut' = ~TokensUnderWay
  /\ marks' = marks \cup {"logout"}

LogoutEnds(i) ==
  /\ reqs[i].kind = "logout" /\ reqs[i].step \in {"served", "denied"}
  /\ LoggedOut(reqs[i].tab) /\ Drop(i)
  /\ UNCHANGED server

\* "Log out" without a refresh token asks nobody.
LogoutLocally(t) ==
  /\ Clickable(t, "logout") /\ tokens = None
  /\ LoggedOut(t)
  /\ UNCHANGED <<plan, server, reqs, spent>>

Answer(i) ==
  /\ \/ Done(i) \/ SignedIn(i) \/ MfaAsked(i) \/ Intercept(i)
     \/ RefreshServed(i) \/ RefreshArrives(i) \/ RefreshFails(i)
     \/ LogoutServed(i) \/ LogoutEnds(i)
  /\ UNCHANGED <<plan, spent>>

Lost(i) ==
  /\ Failed(i) \/ RefreshLost(i) \/ LogoutLost(i)
  /\ Disturb
  /\ UNCHANGED plan

\* At the bound of pairs a sign-in can only be refused.
SignInRefused(i) ==
  /\ reqs[i].kind = "register" /\ issued = plan.pairs /\ Failed(i)
  /\ UNCHANGED <<plan, spent>>

\* Access tokens live for minutes, refresh tokens and the cookie for a week, or
\* until the user logs out elsewhere; a bound: only what is in use ends.
InUse(p) == p = tokens \/ \E r \in Requests : p \in {r.pair, r.reply}
AccessEnds(p) ==
  /\ InUse(p) /\ p \notin expired /\ expired' = expired \cup {p}
  /\ marks' = marks \cup MarkIf(\E r \in Requests : r.retry, "twice")
  /\ UNCHANGED <<revoked, cookie>>
RefreshEnds(p) ==
  /\ InUse(p) /\ p \notin revoked /\ revoked' = revoked \cup {p}
  /\ marks' = marks \cup {"ended"}
  /\ UNCHANGED <<expired, cookie>>
CookieEnds == cookie /\ cookie' = FALSE /\ UNCHANGED <<expired, revoked, marks>>

Expires ==
  /\ Disturb
  /\ CookieEnds \/ \E p \in Pairs : AccessEnds(p) \/ RefreshEnds(p)
  /\ UNCHANGED <<plan, issued, tokens, tabs, reqs, signedOut>>

----------------------------------------------------------------------------
\* The oldest request that is not held takes its next step.
Due == LET D == {i \in DOMAIN reqs : reqs[i].step \notin {"queued", "waiting"}} IN
         IF D = {} THEN {} ELSE {Min(D)}
Progress(i) == Answer(i) \/ SignInRefused(i)

Next ==
  \/ \E t \in Tabs : \/ NavCommit(t) \/ LogoutLocally(t)
                     \/ \E p \in Paths : Visit(t, p) \/ FollowLink(t, p)
                     \/ \E k \in Kinds : Send(t, k)
  \/ \E i \in DOMAIN reqs : Progress(i) \/ Lost(i)
  \/ Expires

\* Every request is answered or fails, and the browser completes a navigation.
Fairness == /\ WF_vars(\E i \in Due : Progress(i))
            /\ \A t \in Tabs : WF_vars(NavCommit(t))

Spec == Init /\ [][Next]_vars /\ Fairness

----------------------------------------------------------------------------
\* Every variable has its type: a refresh is only sent with a refresh token, and
\* a browser has tokens whole or not at all (the interceptors, the token store).
TypeOK ==
  /\ plan \in Plans
  /\ issued \in Pairs /\ expired \subseteq Pairs /\ revoked \subseteq Pairs
  /\ tokens \in MaybePair /\ cookie \in BOOLEAN
  /\ tabs \in [Tabs -> [path : Paths \cup {None}, going : {"login", None}, refreshing : BOOLEAN]]
  /\ reqs \in Seq(Request)
  /\ \A r \in Requests : r.kind = "refresh" => r.pair \in Pairs
  /\ spent \in 0..plan.budget /\ signedOut \in BOOLEAN
  /\ marks \subseteq {"ended", "lost", "failed", "twice", "wrong", "logout"}

\* After "Log out" no tab of the browser gets tokens again, and the middleware
\* lets none into the dashboard, unless a refresh or a sign-in was under way in
\* one of them when the tokens were cleared (AuthService.logout, tokenStore.clear).
SignedOutStays == signedOut => tokens = None /\ ~cookie

\* Access tokens may expire under any requests of any tabs: the user stays signed
\* in, unless a refresh token ended, a refresh got no answer, a second access
\* token expired under one request, or a request was refused for what it said
\* (the response interceptor).
StaysSignedIn ==
  [][tokens # None /\ tokens' = None => marks' \ {"failed"} # {}]_vars

\* A request the interceptor holds back is sent again or rejected in the end, and
\* the tab's next refresh is free to start (failedQueue, isRefreshing).
HeldSettle == \A t \in Tabs : tabs[t].refreshing \/ Held(t) ~> ~tabs[t].refreshing /\ ~Held(t)

\* A page of the dashboard that asks for data without tokens ends at the login
\* page, and is not sent back and forth between the two (redirectToLogin, clear,
\* the middleware), unless its request gets no answer.
EndsAtLogin ==
  \A t \in Tabs :
    /\ tabs[t].path = "app" /\ tokens = None
    /\ \E r \in Requests : r.tab = t /\ r.kind = "api" /\ r.pair = None
    ~> tabs[t].path # "app" \/ tokens # None \/ "failed" \in marks

============================================================================
