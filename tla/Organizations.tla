--------------------------- MODULE Organizations ---------------------------
(***************************************************************************)
(* Organizations with their members and invitations: the service's         *)
(* transactions (load and decide, then write and commit), and the pages of *)
(* the web client that ask for them: members, general settings, creation,  *)
(* onboarding and the acceptance of an invitation.                         *)
(*                                                                         *)
(* A session loads the actor's memberships and the organization's members  *)
(* when its request begins and goes on with those objects, so what it      *)
(* decides is as old as that.  The page's lists are as old as their last   *)
(* fetch.  An address is the user who reads its mail; names, logos and     *)
(* plans of organizations are left out.                                    *)
(***************************************************************************)
EXTENDS Naturals, FiniteSets, SequencesExt

CONSTANTS
  Users, Orgs,
  Invs,  \* bound: invitations ever created
  Plans, \* bounds of a session: its first members, the pages each user opens, the
         \* requests they cause, the roles they give, how many invitations are
         \* made, and how many requests are under way
  None

Rank == [VIEWER |-> 1, MEMBER |-> 2, ADMIN |-> 3, OWNER |-> 4]
Roles == DOMAIN Rank
MaybeRole == Roles \cup {None}
Kinds == {"create", "save", "role", "remove", "invite", "revoke", "accept"}
Dashboard == {"home", "members", "general"}
Pages == Dashboard \cup {"onboarding", "accept"}

Invitations == [org : Orgs, user : Users, role : Roles \ {"OWNER"},
                status : {"PENDING", "ACCEPTED", "REVOKED"}]

\* Whoever creates an organization is its OWNER.
Owned(roles) == (\E u \in Users : roles[u] # None) => \E u \in Users : roles[u] = "OWNER"

ASSUME OrganizationsAssumption ==
  /\ None \notin Roles \cup Users \cup Orgs \cup Invs \cup Pages \cup Invitations
  /\ IsFiniteSet(Orgs) /\ IsFiniteSet(Invs)
  /\ Plans \subseteq [start : [Orgs -> [Users -> MaybeRole]], pages : [Users -> SUBSET Pages],
                     kinds : SUBSET Kinds, grants : SUBSET Roles, invs : Nat, room : Nat]
  /\ \A p \in Plans : p.invs <= Cardinality(Invs) /\ \A o \in Orgs : Owned(p.start[o])

VARIABLES
  plan,
  made, role,     \* organizations; the role of a user in one of them, None outside
  invites, ended, \* invitations; those whose expiry date has passed
  reqs,           \* requests under way, oldest first
  ui, stored,     \* the open page of a user; the active organization in localStorage
  joined, marks   \* history: users who joined by an invitation, overlaps

server == <<made, role, invites, ended, joined>>
client == <<ui, stored>>
vars == <<plan, server, reqs, client, marks>>

Requests == [kind : Kinds, by : Users, org : Orgs \cup {None}, user : Users \cup {None},
             role : MaybeRole, inv : Invs \cup {None},
             step : {"sent", "loaded", "ok", "no"}, deaf : BOOLEAN]
Dialogs == [kind : {"role"}, user : Users, role : Roles] \cup [kind : {"remove"}, user : Users]
             \cup [kind : {"revoke"}, inv : Invs]
Post(u, kind) == [kind |-> kind, by |-> u, org |-> None, user |-> None, role |-> None,
                  inv |-> None, step |-> "sent", deaf |-> FALSE]

AtLeast(r, minimum) == r # None /\ Rank[r] >= Rank[minimum]
Members(o) == {u \in Users : role[o][u] # None}
OrgsOf(u) == {o \in Orgs : role[o][u] # None}
Existing == {i \in Invs : invites[i] # None}
PendingFor(o, u) ==
  {i \in Existing : invites[i].org = o /\ invites[i].user = u /\ invites[i].status = "PENDING"}

\* A document before its scripts have the user's profile; first is the page it
\* was loaded with, page the one it shows now; orgs and id are the organizations
\* of ME and activeOrgId, lists the members the cache holds.
Fresh(page) == [first |-> page, page |-> page, orgs |-> None, id |-> None, lists |-> [o \in Orgs |-> None],
                dialog |-> None, saving |-> FALSE]
Closed == Fresh(None)
First(seq) == IF seq = <<>> THEN None ELSE Head(seq)
Active(page) ==
  CASE page.orgs = None -> None
    [] page.orgs # None /\ page.id # None /\ page.id \in Range(page.orgs) -> page.id
    [] OTHER -> First(page.orgs)

Init ==
  /\ plan \in Plans
  /\ role = plan.start /\ made = {o \in Orgs : Members(o) # {}}
  /\ invites = [i \in Invs |-> None] /\ ended = {}
  /\ reqs = <<>> /\ ui = [u \in Users |-> Closed] /\ stored = [u \in Users |-> None]
  /\ joined = [i \in Invs |-> <<>>] /\ marks = {}

----------------------------------------------------------------------------
\* The pages.

MarkIf(cond, m) == IF cond THEN {m} ELSE {}
\* A dialog of the members page opened for one organization and confirmed for another.
MovedUnder(old, new) ==
  MarkIf(old.dialog # None /\ new.dialog # None /\ Active(old) # Active(new), "moved")
Become(u, page) ==
  /\ ui' = [ui EXCEPT ![u] = page]
  /\ marks' = marks \cup MovedUnder(ui[u], page)

\* A row of the members table keeps its dialog as long as the list has the row;
\* without an organization the page shows no dialog at all.
RowsKept(page) ==
  LET o == Active(page)
      gone == \/ o = None
              \/ /\ page.dialog # None /\ page.dialog.kind = "role"
                 /\ (page.lists[o] = None \/ page.lists[o][page.dialog.user] = None)
  IN  IF page.dialog # None /\ gone THEN [page EXCEPT !.dialog = None] ELSE page

\* The provider takes the stored organization once, with the first that ME lists.
WithOrgs(u, page, orgs, kept) ==
  LET id == IF page.id = None /\ orgs # <<>>
            THEN IF kept \in Range(orgs) THEN kept ELSE Head(orgs) ELSE page.id
  IN  RowsKept([page EXCEPT !.orgs = orgs, !.id = id])
Remembered(u, page, kept) ==
  stored' = [stored EXCEPT ![u] = IF ui[u].id = None /\ page.id # None THEN page.id ELSE kept]

\* Every link of the sidebar loads its page anew: nobody hears the answers to
\* the page before.
Deafened(u) == [k \in DOMAIN reqs |-> [reqs[k] EXCEPT !.deaf = @ \/ reqs[k].by = u]]
Visit(u, page) ==
  /\ page \in plan.pages[u] \ {"accept"}
  /\ ui' = [ui EXCEPT ![u] = Fresh(page)] /\ reqs' = Deafened(u)
  /\ UNCHANGED <<plan, server, stored, marks>>

\* GET /users/me: after a load, and again after the profile was changed.
MeArrives(u) ==
  /\ ui[u].page # None
  /\ \E orgs \in SetToSeqs(OrgsOf(u)) :
       LET page == WithOrgs(u, ui[u], orgs, stored[u])
       IN  Become(u, page) /\ Remembered(u, page, stored[u])
  /\ UNCHANGED <<plan, server, reqs>>

\* Without leaving the document: the menu of the user, whose pages are like home,
\* a link to the dashboard, or the way back.  The dialogs are unmounted.
Navigate(u, page) ==
  /\ ui[u].page \notin {None, page} /\ page \in plan.pages[u] \ {"accept"}
  /\ page \in {"home", ui[u].first}
  /\ ui' = [ui EXCEPT ![u].page = page, ![u].dialog = None, ![u].saving = FALSE]
  /\ UNCHANGED <<plan, server, reqs, stored, marks>>

\* The guard of the dashboard, when ME lists no organization or fails.
ToOnboarding(u) ==
  /\ ui[u].page \in Dashboard /\ ui[u].orgs \in {None, <<>>} /\ "onboarding" \in plan.pages[u]
  /\ ui' = [ui EXCEPT ![u].first = IF @ = ui[u].page THEN "onboarding" ELSE @,
                      ![u].page = "onboarding", ![u].saving = FALSE]
  /\ UNCHANGED <<plan, server, reqs, stored, marks>>

Switch(u, o) ==
  /\ ui[u].page \in Dashboard /\ ui[u].dialog = None
  /\ ui[u].orgs # None /\ o \in Range(ui[u].orgs) /\ o # ui[u].id
  /\ ui' = [ui EXCEPT ![u].id = o] /\ stored' = [stored EXCEPT ![u] = o]
  /\ UNCHANGED <<plan, server, reqs, marks>>

Room(kind) == Len(reqs) < plan.room /\ kind \in plan.kinds
IsPending(u, kind) == \E r \in Range(reqs) : r.by = u /\ r.kind = kind /\ ~r.deaf
Send(r) ==
  /\ Room(r.kind) /\ reqs' = Append(reqs, r)
  /\ UNCHANGED <<plan, server, stored, marks>>

\* The form of onboarding, and the modal of the sidebar.
OnboardingForm(u) == ui[u].page = "onboarding"
SidebarModal(u) == ui[u].page \in Dashboard /\ Active(ui[u]) # None
Create(u) ==
  /\ OnboardingForm(u) \/ SidebarModal(u)
  /\ ui[u].dialog = None /\ ~IsPending(u, "create")
  /\ Send(Post(u, "create")) /\ UNCHANGED ui

Save(u) ==
  /\ ui[u].page = "general" /\ Active(ui[u]) # None /\ ~ui[u].saving
  /\ Send([Post(u, "save") EXCEPT !.org = Active(ui[u])])
  /\ ui' = [ui EXCEPT ![u].saving = TRUE]

OnMembers(u) == ui[u].page = "members" /\ Active(ui[u]) # None
Rows(u) == ui[u].lists[Active(ui[u])]
RowOf(u, t) == IF Rows(u) = None THEN None ELSE Rows(u)[t]
OwnRole(u) == IF RowOf(u, u) = None THEN "MEMBER" ELSE RowOf(u, u)
CanManage(u) == OwnRole(u) \in {"OWNER", "ADMIN"}
\* Nothing is under a dialog but its own buttons.
Clickable(u) == OnMembers(u) /\ ui[u].dialog = None

\* A query of the page may run at any time: when it opens, when its list is
\* older than five minutes, and after a change.  One that is refused leaves the
\* list as it was.
FetchMembers(u) ==
  /\ OnMembers(u) /\ AtLeast(role[Active(ui[u])][u], "MEMBER")
  /\ LET page == RowsKept([ui[u] EXCEPT !.lists[Active(ui[u])] = role[Active(ui[u])]])
     IN  ui' = [ui EXCEPT ![u] = page]
  /\ UNCHANGED <<plan, server, reqs, stored, marks>>

\* The menu of a row: at once, and after a confirmation.
AtOnce(shown) == CASE shown = "VIEWER" -> {"MEMBER"} [] shown = "MEMBER" -> {"ADMIN"} [] OTHER -> {}
Confirmed(u, shown) ==
  (IF shown = "ADMIN" THEN {"MEMBER"} ELSE {})
    \cup (IF shown \notin {None, "OWNER"} /\ OwnRole(u) = "OWNER" THEN {"OWNER"} ELSE {})
ChangeOf(u, t, r) ==
  [Post(u, "role") EXCEPT !.org = Active(ui[u]), !.user = t, !.role = r]

ClickRole(u, t, r) ==
  /\ Clickable(u) /\ CanManage(u) /\ r \in AtOnce(RowOf(u, t))
  /\ Send(ChangeOf(u, t, r)) /\ UNCHANGED ui

Ask(u, dialog) ==
  /\ Clickable(u) /\ CanManage(u) /\ dialog.kind \in plan.kinds
  /\ ui' = [ui EXCEPT ![u].dialog = dialog]
  /\ UNCHANGED <<plan, server, reqs, stored, marks>>
AskRole(u, t, r) ==
  /\ Clickable(u) /\ r \in Confirmed(u, RowOf(u, t))
  /\ Ask(u, [kind |-> "role", user |-> t, role |-> r])
RemovableOwners(u, t) == t # u /\ RowOf(u, t) # None
Removable(u, t) == t # u /\ RowOf(u, t) \notin {None, "OWNER"}
AskRemove(u, t) ==
  /\ Clickable(u) /\ Removable(u, t) /\ Ask(u, [kind |-> "remove", user |-> t])
\* The list of invitations is as old as its last fetch, so any that exists may
\* still be shown as pending.
AskRevoke(u, i) ==
  /\ Clickable(u) /\ i \in Existing /\ invites[i].org = Active(ui[u])
  /\ Ask(u, [kind |-> "revoke", inv |-> i])

Dismiss(u) ==
  /\ ui[u].dialog # None /\ ui' = [ui EXCEPT ![u].dialog = None]
  /\ UNCHANGED <<plan, server, reqs, stored, marks>>

\* The button of a dialog sends what it was opened for to the organization that
\* is active now, and closes it.  (Making an OWNER is refused to all others, with
\* a message: that is a Dismiss.)
ConfirmRole(u) ==
  /\ ui[u].dialog # None /\ ui[u].dialog.kind = "role"
  /\ ui[u].dialog.role = "OWNER" => OwnRole(u) = "OWNER"
  /\ Send(ChangeOf(u, ui[u].dialog.user, ui[u].dialog.role))
  /\ ui' = [ui EXCEPT ![u].dialog = None]
ConfirmRemove(u) ==
  /\ ui[u].dialog # None /\ ui[u].dialog.kind = "remove" /\ ~IsPending(u, "remove")
  /\ Send([Post(u, "remove") EXCEPT !.org = Active(ui[u]), !.user = ui[u].dialog.user])
  /\ ui' = [ui EXCEPT ![u].dialog = None]
ConfirmRevoke(u) ==
  /\ ui[u].dialog # None /\ ui[u].dialog.kind = "revoke" /\ ~IsPending(u, "revoke")
  /\ Send([Post(u, "revoke") EXCEPT !.org = Active(ui[u]), !.inv = ui[u].dialog.inv])
  /\ ui' = [ui EXCEPT ![u].dialog = None]

InviteAnyRole(u, t, r) ==
  /\ Clickable(u) /\ CanManage(u) /\ ~IsPending(u, "invite")
  /\ Send([Post(u, "invite") EXCEPT !.org = Active(ui[u]), !.user = t, !.role = r])
  /\ UNCHANGED ui
Invite(u, t, r) ==
  /\ Clickable(u) /\ CanManage(u) /\ ~IsPending(u, "invite") /\ r # "OWNER"
  /\ Send([Post(u, "invite") EXCEPT !.org = Active(ui[u]), !.user = t, !.role = r])
  /\ UNCHANGED ui

\* The link of the e-mail, by its reader or someone it was forwarded to: the
\* page accepts as soon as it is shown.
OpenInvitation(u, i) ==
  /\ i \in Existing /\ "accept" \in plan.pages[u] /\ Room("accept")
  /\ ui' = [ui EXCEPT ![u] = Fresh("accept")]
  /\ reqs' = Append(Deafened(u), [Post(u, "accept") EXCEPT !.inv = i])
  /\ UNCHANGED <<plan, server, stored, marks>>

----------------------------------------------------------------------------
\* The service.

Mine(r) == role[r.org][r.by]
RoleAllowed(r) ==
  /\ AtLeast(Mine(r), "ADMIN") /\ role[r.org][r.user] # None
  /\ role[r.org][r.user] = "OWNER" => AtLeast(Mine(r), "OWNER")
InviteAllowed(r) ==
  /\ AtLeast(Mine(r), "ADMIN")
  /\ PendingFor(r.org, r.user) = {} /\ role[r.org][r.user] = None
RevokeAllowed(r) ==
  /\ AtLeast(Mine(r), "ADMIN")
  /\ invites[r.inv].org = r.org /\ invites[r.inv].status = "PENDING"
AcceptAnyStatus(r) == r.inv \notin ended /\ invites[r.inv].user = r.by
\* EXPIRED is written and undone with the transaction that then fails.
AcceptAllowed(r) ==
  /\ invites[r.inv].status = "PENDING" /\ r.inv \notin ended
  /\ invites[r.inv].user = r.by
Allowed(r) ==
  CASE r.kind = "create" -> TRUE
    [] r.kind = "save" -> AtLeast(Mine(r), "ADMIN")
    [] r.kind = "role" -> RoleAllowed(r)
    [] r.kind = "remove" -> r.by = r.user \/ AtLeast(Mine(r), "ADMIN")
    [] r.kind = "invite" -> InviteAllowed(r)
    [] r.kind = "revoke" -> RevokeAllowed(r)
    [] r.kind = "accept" -> AcceptAllowed(r)

\* Two transactions under way that decide about the same invitation or address.
Loaded(kind) == {r \in Range(reqs) : r.kind = kind /\ r.step = "loaded"}
Overlaps(r) ==
  MarkIf(r.kind = "accept" /\ (\E q \in Loaded("revoke") : q.inv = r.inv), "crossed")
    \cup MarkIf(r.kind = "revoke" /\ (\E q \in Loaded("accept") : q.inv = r.inv), "crossed")
    \cup MarkIf(r.kind = "accept" /\ (\E q \in Loaded("accept") : q.inv = r.inv), "again")
    \cup MarkIf(r.kind = "invite"
                  /\ (\E q \in Loaded("invite") : q.org = r.org /\ q.user = r.user), "twins")

Stepped(k, step) == [reqs EXCEPT ![k].step = step]
\* No UPDATE is emitted for a member who has the role already.
NothingToWrite(r) == r.kind = "role" /\ role[r.org][r.user] = r.role
\* Creating is refused to a user who is not verified, and undone where the
\* response cannot be built from what the refresh of the new row loaded.
Refusable(r) == ~Allowed(r) \/ r.kind = "create"
Load(k) ==
  /\ reqs[k].step = "sent"
  /\ \/ /\ Allowed(reqs[k])
        /\ reqs' = Stepped(k, IF NothingToWrite(reqs[k]) THEN "ok" ELSE "loaded")
        /\ marks' = marks \cup Overlaps(reqs[k])
     \/ Refusable(reqs[k]) /\ reqs' = Stepped(k, "no") /\ UNCHANGED marks
  /\ UNCHANGED <<plan, server, client>>

Ready(k, kind) ==
  /\ reqs[k].step = "loaded" /\ reqs[k].kind = kind
  /\ UNCHANGED <<plan, ended, client, marks>>

\* Two new organizations of one name take the same slug; the unique index
\* refuses those that commit later.
WriteCreate(k) ==
  /\ Ready(k, "create")
  /\ \E o \in Orgs \ made, refused \in SUBSET {j \in DOMAIN reqs \ {k} :
                                   reqs[j].kind = "create" /\ reqs[j].step = "loaded"} :
       /\ made' = made \cup {o} /\ role' = [role EXCEPT ![o][reqs[k].by] = "OWNER"]
       /\ reqs' = [j \in DOMAIN reqs |->
                    CASE j = k -> [reqs[j] EXCEPT !.step = "ok", !.org = o]
                      [] j \in refused -> [reqs[j] EXCEPT !.step = "no"]
                      [] OTHER -> reqs[j]]
  /\ UNCHANGED <<invites, joined>>

WriteSave(k) ==
  /\ Ready(k, "save") /\ reqs' = Stepped(k, "ok") /\ UNCHANGED <<made, role, invites, joined>>

WriteRole(k) ==
  /\ Ready(k, "role")
  /\ role' = [role EXCEPT ![reqs[k].org][reqs[k].user] = reqs[k].role]
  /\ reqs' = Stepped(k, "ok") /\ UNCHANGED <<made, invites, joined>>

\* A role change that loaded the row finds it gone and fails.
WriteRemove(k) ==
  /\ Ready(k, "remove")
  /\ role' = [role EXCEPT ![reqs[k].org][reqs[k].user] = None]
  /\ reqs' = [j \in DOMAIN reqs |->
               CASE j = k -> [reqs[j] EXCEPT !.step = "ok"]
                 [] /\ j # k /\ reqs[j].kind = "role" /\ reqs[j].step = "loaded"
                    /\ reqs[j].org = reqs[k].org /\ reqs[j].user = reqs[k].user
                    -> [reqs[j] EXCEPT !.step = "no"]
                 [] OTHER -> reqs[j]]
  /\ UNCHANGED <<made, invites, joined>>

WriteInvite(k) ==
  /\ Ready(k, "invite")
  /\ Cardinality(Existing) < plan.invs
  /\ LET i == CHOOSE i \in Invs \ Existing : TRUE
     IN  invites' = [invites EXCEPT ![i] = [org |-> reqs[k].org, user |-> reqs[k].user,
                                            role |-> reqs[k].role, status |-> "PENDING"]]
  /\ reqs' = Stepped(k, "ok") /\ UNCHANGED <<made, role, joined>>

WriteRevoke(k) ==
  /\ Ready(k, "revoke")
  /\ invites' = [invites EXCEPT ![reqs[k].inv].status = "REVOKED"]
  /\ reqs' = Stepped(k, "ok") /\ UNCHANGED <<made, role, joined>>

\* A user is a member of an organization once: the second row is refused, and
\* the invitation stays as it was.
WriteAccept(k) ==
  LET i == reqs[k].inv
      o == invites[i].org
      u == reqs[k].by
  IN  /\ Ready(k, "accept")
      /\ IF role[o][u] = None
         THEN /\ role' = [role EXCEPT ![o][u] = invites[i].role]
              /\ invites' = [invites EXCEPT ![i].status = "ACCEPTED"]
              /\ joined' = [joined EXCEPT ![i] = Append(@, u)]
              /\ reqs' = [reqs EXCEPT ![k].step = "ok", ![k].org = o]
         ELSE reqs' = Stepped(k, "no") /\ UNCHANGED <<role, invites, joined>>
      /\ UNCHANGED made

Write(k) ==
  \/ WriteCreate(k) \/ WriteSave(k) \/ WriteRole(k) \/ WriteRemove(k)
  \/ WriteInvite(k) \/ WriteRevoke(k) \/ WriteAccept(k)

\* invitation_days go by.
Expire(i) ==
  /\ i \in Existing \ ended /\ ended' = ended \cup {i}
  /\ UNCHANGED <<plan, made, role, invites, joined, reqs, client, marks>>

----------------------------------------------------------------------------
\* The answers.  Changes of roles and invitations only fetch the lists again;
\* that of a removal has no body, which the page takes for a failure.

Answered(k) == reqs[k].step \in {"ok", "no"} /\ reqs' = RemoveAt(reqs, k)
Heard(k, kinds, step) == Answered(k) /\ ~reqs[k].deaf /\ reqs[k].kind \in kinds /\ reqs[k].step = step

Unheard(k) ==
  /\ Answered(k) /\ reqs[k].deaf /\ UNCHANGED <<plan, server, client, marks>>
\* The answer is lost, or the request itself before the service saw it.
Lost(k) ==
  /\ ~reqs[k].deaf
  /\ \/ reqs[k].step = "sent" /\ reqs' = RemoveAt(reqs, k)
     \/ reqs' = [reqs EXCEPT ![k].deaf = TRUE]
  /\ ui' = IF reqs[k].kind = "save" THEN [ui EXCEPT ![reqs[k].by].saving = FALSE] ELSE ui
  /\ UNCHANGED <<plan, server, stored, marks>>
NothingToDo(k) ==
  /\ \/ Heard(k, {"role", "remove", "invite"}, "ok")
     \/ Heard(k, {"create", "role", "remove", "invite", "revoke", "accept"}, "no")
  /\ UNCHANGED <<plan, server, client, marks>>
SaveRefused(k) ==
  /\ Heard(k, {"save"}, "no") /\ ui' = [ui EXCEPT ![reqs[k].by].saving = FALSE]
  /\ UNCHANGED <<plan, server, stored, marks>>

\* setRevokeTarget(null), whichever revocation is asked about meanwhile.
Revoked(k) ==
  /\ Heard(k, {"revoke"}, "ok")
  /\ LET u == reqs[k].by
         open == ui[u].dialog # None /\ ui[u].dialog.kind = "revoke"
     IN  ui' = IF open THEN [ui EXCEPT ![u].dialog = None] ELSE ui
  /\ UNCHANGED <<plan, server, stored, marks>>

\* setActiveOrg of the saved organization, whichever is active meanwhile.
Saved(k) ==
  /\ Heard(k, {"save"}, "ok")
  /\ Become(reqs[k].by, RowsKept([ui[reqs[k].by] EXCEPT !.id = reqs[k].org]))
  /\ stored' = [stored EXCEPT ![reqs[k].by] = reqs[k].org]
  /\ UNCHANGED <<plan, server>>

Appended(orgs, o) == IF orgs = None \/ o \in Range(orgs) THEN orgs ELSE Append(orgs, o)

\* A free organization becomes the active one.  For a paid plan the checkout is
\* initialized next: it leads away from the page, or fails and leaves the form.
Created(k) ==
  /\ Heard(k, {"create"}, "ok")
  /\ LET u == reqs[k].by
         o == reqs[k].org
         page == [ui[u] EXCEPT !.orgs = IF @ = None THEN None ELSE Append(@, o), !.id = o,
                               !.page = IF @ = "onboarding" THEN "home" ELSE @]
     IN  Become(u, RowsKept(page)) /\ stored' = [stored EXCEPT ![u] = o]
  /\ UNCHANGED <<plan, server>>
CheckoutLeaves(k) ==
  /\ reqs[k].kind = "create" /\ reqs[k].step = "ok" /\ ~reqs[k].deaf
  /\ ui' = [ui EXCEPT ![reqs[k].by] = Closed] /\ reqs' = RemoveAt(Deafened(reqs[k].by), k)
  /\ UNCHANGED <<plan, server, stored, marks>>
CheckoutFails(k) ==
  /\ Heard(k, {"create"}, "ok") /\ UNCHANGED <<plan, server, client, marks>>

\* Only a page that is still shown takes the organization in.
Accepted(k) ==
  /\ Heard(k, {"accept"}, "ok")
  /\ LET u == reqs[k].by
         o == reqs[k].org
         orgs == Appended(ui[u].orgs, o)
         page == IF orgs = None THEN ui[u] ELSE WithOrgs(u, ui[u], orgs, o)
     IN  IF ui[u].page = "accept"
         THEN /\ Become(u, [page EXCEPT !.page = "home"])
              /\ stored' = [stored EXCEPT ![u] = o]
         ELSE UNCHANGED <<client, marks>>
  /\ UNCHANGED <<plan, server>>

Answer(k) ==
  \/ Unheard(k) \/ Lost(k) \/ NothingToDo(k) \/ SaveRefused(k) \/ Revoked(k) \/ Saved(k)
  \/ Created(k) \/ CheckoutLeaves(k) \/ CheckoutFails(k) \/ Accepted(k)

----------------------------------------------------------------------------
Visitors == {u \in Users : plan.pages[u] # {}}
Page(u) ==
  \/ \E page \in Pages : Visit(u, page) \/ Navigate(u, page)
  \/ MeArrives(u) \/ ToOnboarding(u) \/ FetchMembers(u) \/ Create(u) \/ Save(u) \/ Dismiss(u)
  \/ ConfirmRole(u) \/ ConfirmRemove(u) \/ ConfirmRevoke(u)
  \/ \E o \in Orgs : Switch(u, o)
  \/ \E t \in Users : AskRemove(u, t)
  \/ \E t \in Users, r \in plan.grants : ClickRole(u, t, r) \/ AskRole(u, t, r)
  \/ \E t \in Visitors, r \in plan.grants : Invite(u, t, r)
  \/ \E i \in Invs : AskRevoke(u, i) \/ OpenInvitation(u, i)
Next ==
  \/ \E u \in Visitors : Page(u)
  \/ \E k \in DOMAIN reqs : Load(k) \/ Write(k) \/ Answer(k)
  \/ \E i \in Invs : Expire(i)
Spec == Init /\ [][Next]_vars

----------------------------------------------------------------------------
\* Every variable has its type; an organization is named by every request but
\* those that create one or join by a link, and nobody is invited as an OWNER.
TypeOK ==
  /\ plan \in Plans /\ made \subseteq Orgs /\ ended \subseteq Existing
  /\ role \in [Orgs -> [Users -> MaybeRole]]
  /\ \A i \in Existing : invites[i] \in Invitations /\ invites[i].org \in made
  /\ Range(reqs) \subseteq Requests
  /\ \A r \in Range(reqs) : r.org # None \/ r.kind \in {"create", "accept"}
  /\ \A u \in Users :
       LET page == ui[u]
       IN  /\ {page.page, page.first} \subseteq Pages \cup {None} /\ page.id \in Orgs \cup {None}
           /\ page.orgs = None \/ Range(page.orgs) \subseteq made
           /\ page.dialog = None \/ page.dialog \in Dialogs
           /\ \A o \in Orgs : page.lists[o] = None \/ page.lists[o] \in [Users -> MaybeRole]
  /\ \A u \in Users : stored[u] \in made \cup {None}
  /\ \A i \in Invs : Range(joined[i]) \subseteq Users
  /\ marks \subseteq {"moved", "crossed", "again", "twins"}

\* An organization never loses its last OWNER to the members pages, however
\* old their lists are and whatever the service lets through: it checks no
\* removal for the role of its target (remove_member, MemberRow).  Unless the
\* active organization changes under a dialog, which is then confirmed for
\* another organization than the one it was opened for.
KeepsOwner ==
  "moved" \notin marks => \A o \in made : \E u \in Users : role[o][u] = "OWNER"

\* An invitation admits one user, the one it was sent to, and once; it is
\* ACCEPTED exactly when it did, so revoking it is final, as accepting it is
\* (accept_invitation, revoke_invitation).  An address has one pending
\* invitation (invite_member).  Unless transactions that decide about the same
\* invitation or address overlap.
InvitationsHold ==
  /\ \A i \in Existing :
       /\ "crossed" \notin marks => (invites[i].status = "ACCEPTED" <=> joined[i] # <<>>)
       /\ "again" \notin marks => Len(joined[i]) <= 1
       /\ Range(joined[i]) \subseteq {invites[i].user}
  /\ "twins" \notin marks => \A o \in Orgs, u \in Users : Cardinality(PendingFor(o, u)) <= 1
=============================================================================
