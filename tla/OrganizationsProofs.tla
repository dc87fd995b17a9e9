------------------------ MODULE OrganizationsProofs -------------------------
(***************************************************************************)
(* Proofs about module Organizations: the types; that an organization      *)
(* keeps an OWNER whatever the members pages ask for; and what an          *)
(* invitation promises to the user it was sent to.                         *)
(***************************************************************************)
EXTENDS Organizations, FiniteSetTheorems, SequenceTheorems, TLAPS

----------------------------------------------------------------------------
(* Lists of requests.                                                      *)

\* The place, before request k was removed, of the request now at j.
Old(k, j) == IF j < k THEN j ELSE j + 1

\* What RemoveAt leaves.
LEMMA RemoveAtFacts ==
  ASSUME NEW S, NEW s \in Seq(S), NEW i \in DOMAIN s
  PROVE  /\ RemoveAt(s, i) \in Seq(S) /\ Len(RemoveAt(s, i)) = Len(s) - 1
         /\ \A j \in 1..(Len(s) - 1) : RemoveAt(s, i)[j] = s[Old(i, j)]
<1>1. i \in 1..Len(s) /\ Len(s) \in Nat
  OBVIOUS
<1>2. SubSeq(s, 1, i - 1) \in Seq(S) /\ Len(SubSeq(s, 1, i - 1)) = i - 1
      /\ \A j \in 1..(i - 1) : SubSeq(s, 1, i - 1)[j] = s[j]
  BY <1>1
<1>3. SubSeq(s, i + 1, Len(s)) \in Seq(S) /\ Len(SubSeq(s, i + 1, Len(s))) = Len(s) - i
      /\ \A j \in 1..(Len(s) - i) : SubSeq(s, i + 1, Len(s))[j] = s[i + j]
  BY <1>1
<1> DEFINE a == SubSeq(s, 1, i - 1)
           b == SubSeq(s, i + 1, Len(s))
<1>4. PICK n \in Nat : n = Len(s)
  BY <1>1
<1> HIDE DEF a, b
<1>5. a \in Seq(S) /\ Len(a) = i - 1 /\ \A j \in 1..(i - 1) : a[j] = s[j]
  BY <1>2 DEF a
<1>6. b \in Seq(S) /\ Len(b) = n - i /\ \A j \in 1..(n - i) : b[j] = s[i + j]
  BY <1>3, <1>4 DEF b
<1>7. RemoveAt(s, i) = a \o b
  BY DEF RemoveAt, a, b
<1>8. a \o b \in Seq(S) /\ Len(a \o b) = n - 1
  <2>1. a \o b \in Seq(S) /\ Len(a \o b) = Len(a) + Len(b)
    BY <1>5, <1>6, ConcatProperties
  <2>2. (i - 1) + (n - i) = n - 1
    BY <1>1, <1>4
  <2> QED BY <2>1, <2>2, <1>5, <1>6
<1>9. ASSUME NEW j \in 1..(n - 1) PROVE (a \o b)[j] = s[Old(i, j)]
  <2>1. CASE j < i
    <3>1. (a \o b)[j] = a[j]
      BY <1>1, <1>4, <1>5, <1>6, <2>1
    <3> QED BY <3>1, <1>1, <1>4, <1>5, <2>1 DEF Old
  <2>2. CASE ~(j < i)
    <3>1. (a \o b)[j] = b[j - (i - 1)]
      BY <1>1, <1>4, <1>5, <1>6, <2>2
    <3>2. j - (i - 1) \in 1..(n - i) /\ i + (j - (i - 1)) = j + 1
      BY <1>1, <1>4, <2>2
    <3>3. b[j - (i - 1)] = s[i + (j - (i - 1))]
      BY <3>2, <1>6
    <3> QED BY <3>1, <3>2, <3>3, <2>2 DEF Old
  <2> QED BY <2>1, <2>2
<1> QED BY <1>4, <1>7, <1>8, <1>9

\* The requests after a step of a page or an answer: each was just sent, or is one
\* of those before, which may have lost its hearer; f says which one, 0 for none.
Heirs(f) ==
  /\ f \in [DOMAIN reqs' -> DOMAIN reqs \cup {0}]
  /\ \A j \in DOMAIN reqs' :
       /\ f[j] = 0 => reqs'[j].step = "sent"
       /\ f[j] # 0 => \E d \in BOOLEAN : reqs'[j] = [reqs[f[j]] EXCEPT !.deaf = d]
  /\ \A j, l \in DOMAIN reqs' : f[j] = f[l] /\ f[j] # 0 => j = l

----------------------------------------------------------------------------
(* The type invariant.                                                     *)

PageRecords ==
  [first : Pages \cup {None}, page : Pages \cup {None}, orgs : {None} \cup Seq(Orgs),
   id : Orgs \cup {None}, lists : [Orgs -> {None} \cup [Users -> MaybeRole]],
   dialog : {None} \cup Dialogs, saving : BOOLEAN]

\* A page shows organizations that exist, and a dialog only for the members or
\* the invitations of one.
Shows(page) ==
  /\ page.orgs # None => Range(page.orgs) \subseteq made
  /\ page.id \in made \cup {None}
  /\ \A o \in Orgs \ made : page.lists[o] = None
  /\ page.dialog # None /\ page.dialog.kind = "revoke" => page.dialog.inv \in Existing
PageSound(page) ==
  /\ Shows(page)
  /\ page.dialog # None => Active(page) # None

\* A request names what its handler needs.
Sound(r) ==
  /\ r.org \in made \cup {None}
  /\ r.kind \notin {"create", "accept"} => r.org # None
  /\ r.step = "ok" => r.org # None
  /\ r.kind \in {"accept", "revoke"} => r.inv \in Existing
  /\ r.kind \in {"role", "remove", "invite"} => r.user # None
  /\ r.kind \in {"role", "invite"} => r.role # None
  /\ r.kind = "invite" => r.role # "OWNER"

ServerTyped ==
  /\ plan \in Plans /\ made \subseteq Orgs /\ ended \subseteq Existing
  /\ role \in [Orgs -> [Users -> MaybeRole]]
  /\ \A o \in Orgs \ made, u \in Users : role[o][u] = None
  /\ invites \in [Invs -> {None} \cup Invitations]
  /\ \A i \in Existing : invites[i].org \in made
  /\ joined \in [Invs -> Seq(Users)]
ReqsTyped == reqs \in Seq(Requests) /\ \A j \in DOMAIN reqs : Sound(reqs[j])
UiTyped ==
  /\ ui \in [Users -> PageRecords] /\ \A u \in Users : PageSound(ui[u])
  /\ stored \in [Users -> Orgs \cup {None}] /\ \A u \in Users : stored[u] \in made \cup {None}
MarksTyped == marks \subseteq {"moved", "crossed", "again", "twins"}
TypeInv == ServerTyped /\ ReqsTyped /\ UiTyped /\ MarksTyped

LEMMA NoneFacts == /\ None \notin Roles /\ None \notin Users /\ None \notin Orgs
                   /\ None \notin Invs /\ None \notin Pages /\ None \notin Invitations
  BY OrganizationsAssumption

LEMMA RoleNames == Roles = {"VIEWER", "MEMBER", "ADMIN", "OWNER"}
  BY DEF Roles, Rank

LEMMA PlanFacts ==
  ASSUME plan \in Plans
  PROVE  /\ plan.start \in [Orgs -> [Users -> MaybeRole]]
         /\ plan.pages \in [Users -> SUBSET Pages] /\ plan.grants \subseteq Roles
         /\ plan.invs \in Nat /\ plan.invs <= Cardinality(Invs) /\ plan.kinds \subseteq Kinds
         /\ \A o \in Orgs : Owned(plan.start[o])
  BY OrganizationsAssumption

LEMMA TypeWhole == TypeInv => TypeOK
<1> SUFFICES ASSUME TypeInv PROVE TypeOK
  OBVIOUS
<1> USE DEF TypeInv
<1>1. /\ plan \in Plans /\ made \subseteq Orgs /\ ended \subseteq Existing
      /\ role \in [Orgs -> [Users -> MaybeRole]]
  BY DEF ServerTyped
<1>2. \A i \in Existing : invites[i] \in Invitations /\ invites[i].org \in made
  BY DEF ServerTyped, Existing
<1>3. Range(reqs) \subseteq Requests /\ \A r \in Range(reqs) : r.org # None \/ r.kind \in {"create", "accept"}
  BY DEF ReqsTyped, Sound, Range
<1>4. ASSUME NEW u \in Users
      PROVE  /\ {ui[u].page, ui[u].first} \subseteq Pages \cup {None} /\ ui[u].id \in Orgs \cup {None}
             /\ ui[u].orgs = None \/ Range(ui[u].orgs) \subseteq made
             /\ ui[u].dialog = None \/ ui[u].dialog \in Dialogs
             /\ \A o \in Orgs : ui[u].lists[o] = None \/ ui[u].lists[o] \in [Users -> MaybeRole]
             /\ stored[u] \in made \cup {None}
  <2>1. ui[u] \in PageRecords /\ PageSound(ui[u]) /\ stored[u] \in made \cup {None}
    BY DEF UiTyped
  <2> QED BY <2>1 DEF PageRecords, PageSound, Shows
<1>5. ASSUME NEW i \in Invs PROVE Range(joined[i]) \subseteq Users
  BY DEF ServerTyped, Range
<1>6. marks \subseteq {"moved", "crossed", "again", "twins"}
  BY DEF MarksTyped
<1> QED BY <1>1, <1>2, <1>3, <1>4, <1>5, <1>6 DEF TypeOK

\* What the page takes the active organization to be is one that exists.
LEMMA ActiveFacts ==
  ASSUME NEW page \in PageRecords, Shows(page)
  PROVE  Active(page) \in made \cup {None}
<1>1. CASE page.orgs = None
  BY <1>1 DEF Active
<1>2. CASE page.orgs # None
  <2>1. page.orgs \in Seq(Orgs) /\ Range(page.orgs) \subseteq made
    BY <1>2 DEF PageRecords, Shows
  <2>2. page.orgs # <<>> => Head(page.orgs) \in Range(page.orgs)
    BY <2>1 DEF Range
  <2>3. First(page.orgs) \in made \cup {None}
    BY <2>1, <2>2 DEF First
  <2> QED BY <1>2, <2>1, <2>3 DEF Active, Shows
<1> QED BY <1>1, <1>2

LEMMA ActiveOf ==
  ASSUME NEW p, NEW q, p.orgs = q.orgs, p.id = q.id
  PROVE  Active(p) = Active(q)
  BY DEF Active

LEMMA RowsKeptFacts ==
  ASSUME NEW page \in PageRecords, Shows(page)
  PROVE  /\ RowsKept(page) \in PageRecords /\ PageSound(RowsKept(page))
         /\ Active(RowsKept(page)) = Active(page)
         /\ RowsKept(page) = page \/ RowsKept(page) = [page EXCEPT !.dialog = None]
<1>1. RowsKept(page) = page \/ RowsKept(page) = [page EXCEPT !.dialog = None]
  BY DEF RowsKept
<1>2. CASE RowsKept(page) = [page EXCEPT !.dialog = None]
  <2>1. RowsKept(page) \in PageRecords /\ Shows(RowsKept(page)) /\ RowsKept(page).dialog = None
    BY <1>2 DEF PageRecords, Shows
  <2>2. RowsKept(page).orgs = page.orgs /\ RowsKept(page).id = page.id
    BY <1>2 DEF PageRecords
  <2> QED BY <1>2, <2>1, <2>2, ActiveOf DEF PageSound
<1>3. CASE RowsKept(page) = page /\ page.dialog = None
  BY <1>3 DEF PageSound
<1>4. CASE RowsKept(page) = page /\ page.dialog # None
  <2>1. Active(page) # None
    <3>1. SUFFICES ASSUME Active(page) = None PROVE FALSE
      OBVIOUS
    <3>2. RowsKept(page) = [page EXCEPT !.dialog = None]
      BY <1>4, <3>1 DEF RowsKept
    <3>3. [page EXCEPT !.dialog = None].dialog = None
      BY DEF PageRecords
    <3> QED BY <1>4, <3>2, <3>3
  <2> QED BY <1>4, <2>1 DEF PageSound
<1> QED BY <1>1, <1>2, <1>3, <1>4

----------------------------------------------------------------------------
(* What a page or an answer does to the requests.                          *)

\* s are the requests, of which some may have lost their hearer.
Hushed(s) ==
  /\ s \in Seq(Requests) /\ Len(s) = Len(reqs)
  /\ \A j \in DOMAIN reqs : \E d \in BOOLEAN : s[j] = [reqs[j] EXCEPT !.deaf = d]
\* The step leaves requests, and adds at most those of new.
Sends(new) ==
  /\ reqs' \in Seq(Requests)
  /\ \E f : Heirs(f) /\ \A j \in DOMAIN reqs' : f[j] = 0 => reqs'[j] \in new

LEMMA HushedSelf ==
  ASSUME TypeInv
  PROVE  Hushed(reqs)
<1>1. reqs \in Seq(Requests)
  BY DEF TypeInv, ReqsTyped
<1>2. ASSUME NEW j \in DOMAIN reqs PROVE reqs[j].deaf \in BOOLEAN /\ reqs[j] = [reqs[j] EXCEPT !.deaf = reqs[j].deaf]
  <2>1. reqs[j] \in Requests
    BY <1>1
  <2> QED BY <2>1 DEF Requests
<1> QED BY <1>1, <1>2 DEF Hushed

LEMMA HushedDeafened ==
  ASSUME TypeInv, NEW u
  PROVE  Hushed(Deafened(u))
<1>1. reqs \in Seq(Requests)
  BY DEF TypeInv, ReqsTyped
<1>2. ASSUME NEW j \in DOMAIN reqs
      PROVE  /\ (reqs[j].deaf \/ reqs[j].by = u) \in BOOLEAN
             /\ [reqs[j] EXCEPT !.deaf = @ \/ reqs[j].by = u] = [reqs[j] EXCEPT !.deaf = (reqs[j].deaf \/ reqs[j].by = u)]
             /\ [reqs[j] EXCEPT !.deaf = @ \/ reqs[j].by = u] \in Requests
  <2>1. reqs[j] \in Requests
    BY <1>1
  <2>2. (reqs[j].deaf \/ reqs[j].by = u) \in BOOLEAN
    OBVIOUS
  <2> QED BY <2>1, <2>2 DEF Requests
<1>3. Deafened(u) \in Seq(Requests) /\ Len(Deafened(u)) = Len(reqs)
      /\ \A j \in DOMAIN reqs : Deafened(u)[j] = [reqs[j] EXCEPT !.deaf = @ \/ reqs[j].by = u]
  BY <1>1, <1>2 DEF Deafened
<1> QED BY <1>2, <1>3 DEF Hushed

LEMMA HushedLost ==
  ASSUME TypeInv, NEW k \in DOMAIN reqs
  PROVE  Hushed([reqs EXCEPT ![k].deaf = TRUE])
<1>1. reqs \in Seq(Requests)
  BY DEF TypeInv, ReqsTyped
<1>2. \A j \in DOMAIN reqs : reqs[j] \in Requests
  BY <1>1
<1>3. [reqs[k] EXCEPT !.deaf = TRUE] \in Requests
  BY <1>2 DEF Requests
<1>4. [reqs EXCEPT ![k].deaf = TRUE] \in Seq(Requests) /\ Len([reqs EXCEPT ![k].deaf = TRUE]) = Len(reqs)
  BY <1>1, <1>3
<1>5. ASSUME NEW j \in DOMAIN reqs
      PROVE  \E d \in BOOLEAN : [reqs EXCEPT ![k].deaf = TRUE][j] = [reqs[j] EXCEPT !.deaf = d]
  <2>1. CASE j = k
    BY <2>1
  <2>2. CASE j # k
    <3>1. Hushed(reqs)
      BY HushedSelf
    <3> QED BY <3>1, <2>2 DEF Hushed
  <2> QED BY <2>1, <2>2
<1> QED BY <1>4, <1>5 DEF Hushed

LEMMA SendsHushed ==
  ASSUME TypeInv, Hushed(reqs'), NEW new
  PROVE  Sends(new)
<1>1. reqs \in Seq(Requests) /\ reqs' \in Seq(Requests) /\ DOMAIN reqs' = DOMAIN reqs /\ 0 \notin DOMAIN reqs
  BY DEF TypeInv, ReqsTyped, Hushed
<1> DEFINE f == [j \in DOMAIN reqs' |-> j]
<1>2. f \in [DOMAIN reqs' -> DOMAIN reqs \cup {0}] /\ \A j \in DOMAIN reqs' : f[j] = j /\ f[j] # 0
  BY <1>1
<1> HIDE DEF f
<1>3. Heirs(f)
  BY <1>1, <1>2 DEF Heirs, Hushed
<1> QED BY <1>1, <1>2, <1>3 DEF Sends

LEMMA SendsAppended ==
  ASSUME TypeInv, NEW s, Hushed(s), NEW r \in Requests, r.step = "sent", reqs' = Append(s, r)
  PROVE  Sends({r})
<1>1. PICK n \in Nat : n = Len(reqs)
  BY DEF TypeInv, ReqsTyped
<1>2. reqs \in Seq(Requests) /\ DOMAIN reqs = 1..n /\ s \in Seq(Requests) /\ Len(s) = n
  BY <1>1 DEF TypeInv, ReqsTyped, Hushed
<1>3. reqs' \in Seq(Requests) /\ DOMAIN reqs' = 1..(n + 1) /\ reqs'[n + 1] = r /\ \A j \in 1..n : reqs'[j] = s[j]
  BY <1>2, AppendProperties
<1> DEFINE f == [j \in DOMAIN reqs' |-> IF j = n + 1 THEN 0 ELSE j]
<1>4. /\ f \in [DOMAIN reqs' -> DOMAIN reqs \cup {0}]
      /\ \A j \in 1..n : f[j] = j /\ f[j] # 0
      /\ f[n + 1] = 0
      /\ \A j \in 1..(n + 1) : j = n + 1 \/ j \in 1..n
  BY <1>2, <1>3
<1> HIDE DEF f
<1>5. Heirs(f)
  <2>1. ASSUME NEW j \in DOMAIN reqs'
        PROVE  /\ f[j] = 0 => reqs'[j].step = "sent"
               /\ f[j] # 0 => \E d \in BOOLEAN : reqs'[j] = [reqs[f[j]] EXCEPT !.deaf = d]
    <3>1. CASE j = n + 1
      BY <3>1, <1>3, <1>4
    <3>2. CASE j \in 1..n
      BY <3>2, <1>2, <1>3, <1>4 DEF Hushed
    <3> QED BY <3>1, <3>2, <1>3, <1>4
  <2>2. \A j, l \in DOMAIN reqs' : f[j] = f[l] /\ f[j] # 0 => j = l
    BY <1>3, <1>4
  <2> QED BY <1>4, <2>1, <2>2 DEF Heirs
<1>6. \A j \in DOMAIN reqs' : f[j] = 0 => reqs'[j] = r
  BY <1>3, <1>4
<1> QED BY <1>3, <1>5, <1>6 DEF Sends

LEMMA SendsRemoved ==
  ASSUME TypeInv, NEW s, Hushed(s), NEW k \in DOMAIN reqs, reqs' = RemoveAt(s, k), NEW new
  PROVE  Sends(new)
<1>1. PICK n \in Nat : n = Len(reqs)
  BY DEF TypeInv, ReqsTyped
<1>2. reqs \in Seq(Requests) /\ DOMAIN reqs = 1..n /\ s \in Seq(Requests) /\ Len(s) = n /\ DOMAIN s = 1..n
  BY <1>1 DEF TypeInv, ReqsTyped, Hushed
<1>3. reqs' \in Seq(Requests) /\ Len(reqs') = n - 1 /\ \A j \in 1..(n - 1) : reqs'[j] = s[Old(k, j)]
  BY <1>2, RemoveAtFacts
<1>4. DOMAIN reqs' = 1..(n - 1)
  BY <1>3
<1>5. \A j \in 1..(n - 1) : Old(k, j) \in 1..n /\ Old(k, j) # 0
  BY <1>1, <1>2 DEF Old
<1>6. \A j, l \in 1..(n - 1) : Old(k, j) = Old(k, l) => j = l
  BY <1>1, <1>2 DEF Old
<1> DEFINE f == [j \in DOMAIN reqs' |-> Old(k, j)]
<1>7. f \in [DOMAIN reqs' -> DOMAIN reqs \cup {0}] /\ \A j \in 1..(n - 1) : f[j] = Old(k, j) /\ f[j] # 0
  BY <1>2, <1>4, <1>5
<1> HIDE DEF f
<1>8. \A j \in 1..(n - 1) : \E d \in BOOLEAN : reqs'[j] = [reqs[f[j]] EXCEPT !.deaf = d]
  BY <1>2, <1>3, <1>5, <1>7 DEF Hushed
<1>9. Heirs(f)
  BY <1>4, <1>6, <1>7, <1>8 DEF Heirs
<1> QED BY <1>3, <1>4, <1>7, <1>9 DEF Sends

LEMMA SendsTyped ==
  ASSUME TypeInv, NEW new, Sends(new), \A r \in new : Sound(r), UNCHANGED <<made, invites>>
  PROVE  ReqsTyped'
<1>1. PICK f : Heirs(f) /\ \A j \in DOMAIN reqs' : f[j] = 0 => reqs'[j] \in new
  BY DEF Sends
<1>2. ASSUME NEW j \in DOMAIN reqs' PROVE Sound(reqs'[j])
  <2>1. CASE f[j] = 0
    BY <1>1, <2>1
  <2>2. CASE f[j] # 0
    <3>1. f[j] \in DOMAIN reqs
      BY <1>1, <2>2 DEF Heirs
    <3>2. PICK d \in BOOLEAN : reqs'[j] = [reqs[f[j]] EXCEPT !.deaf = d]
      BY <1>1, <2>2 DEF Heirs
    <3>3. reqs[f[j]] \in Requests /\ Sound(reqs[f[j]])
      BY <3>1 DEF TypeInv, ReqsTyped
    <3>4. Sound([reqs[f[j]] EXCEPT !.deaf = d])
      BY <3>3 DEF Sound, Requests
    <3> QED BY <3>2, <3>4
  <2> QED BY <2>1, <2>2
<1>3. reqs' \in Seq(Requests)
  BY DEF Sends
<1>4. (\A j \in DOMAIN reqs : Sound(reqs[j]))'
  <2>1. ASSUME NEW j \in DOMAIN reqs' PROVE (Sound(reqs[j]))'
    BY <1>2, <2>1 DEF Sound, Existing
  <2> QED BY <2>1
<1> QED BY <1>3, <1>4 DEF ReqsTyped

----------------------------------------------------------------------------
(* What a page or an answer does to the page that is shown.                *)

\* The page of u lists t among the members of o, and not as an OWNER.
ShownBelow(u, o, t) == ui[u].lists[o] # None /\ ui[u].lists[o][t] \notin {None, "OWNER"}

\* The lists of the new page are those of the old one, or just fetched.
ListsFollow(u, page) == \A o \in Orgs : page.lists[o] \in {None, ui[u].lists[o], role[o]}
\* Its dialog is that of the old page, or is opened for a row that is shown.
DialogFollows(u, page) ==
  \/ page.dialog = None
  \/ page.dialog = ui[u].dialog /\ (Active(page) = Active(ui[u]) \/ "moved" \in marks')
  \/ /\ Active(page) = Active(ui[u])
     /\ page.dialog.kind \in {"role", "remove"} => ShownBelow(u, Active(page), page.dialog.user)
Turns(u, page) ==
  /\ page \in PageRecords /\ PageSound(page) /\ ui' = [ui EXCEPT ![u] = page]
  /\ ListsFollow(u, page) /\ DialogFollows(u, page)

\* A request about a member is confirmed in a dialog, or clicked in a row.
Justified(u, r) ==
  r.kind \in {"role", "remove"} =>
    \/ /\ ui[u].dialog # None /\ ui[u].dialog.kind \in {"role", "remove"}
       /\ ui[u].dialog.user = r.user /\ r.org = Active(ui[u])
    \/ ShownBelow(u, r.org, r.user)
Posts(u, new) == Sends(new) /\ \A r \in new : Sound(r) /\ Justified(u, r)
Stores(u) == \E x \in made \cup {None} : stored' = [stored EXCEPT ![u] = x]

\* Every step of a page, and every answer, is of this form.
ClientStep ==
  /\ UNCHANGED <<plan, server>> /\ marks \subseteq marks' /\ marks' \subseteq marks \cup {"moved"}
  /\ \E u \in Users : \E page, new : Turns(u, page) /\ Posts(u, new) /\ Stores(u)

LEMMA PageTyped ==
  ASSUME TypeInv, NEW u \in Users
  PROVE  /\ ui \in [Users -> PageRecords] /\ ui[u] \in PageRecords /\ PageSound(ui[u])
         /\ Shows(ui[u]) /\ Active(ui[u]) \in made \cup {None}
         /\ made \subseteq Orgs /\ stored[u] \in made \cup {None} /\ stored \in [Users -> Orgs \cup {None}]
<1>1. ui[u] \in PageRecords /\ PageSound(ui[u]) /\ Shows(ui[u])
  BY DEF TypeInv, UiTyped, PageSound
<1> QED BY <1>1, ActiveFacts DEF TypeInv, UiTyped, ServerTyped

LEMMA StoresSame ==
  ASSUME TypeInv, NEW u \in Users, stored' = stored
  PROVE  Stores(u)
<1>1. stored = [stored EXCEPT ![u] = stored[u]] /\ stored[u] \in made \cup {None}
  BY PageTyped
<1> QED BY <1>1 DEF Stores

LEMMA StoresOne ==
  ASSUME TypeInv, NEW u \in Users, NEW x \in made \cup {None}, stored' = [stored EXCEPT ![u] = x]
  PROVE  Stores(u)
  BY DEF Stores

\* The page keeps its lists and organizations; the dialog stays or is closed.
LEMMA TurnsAlike ==
  ASSUME TypeInv, NEW u \in Users, NEW page \in PageRecords, ui' = [ui EXCEPT ![u] = page],
         page.orgs = ui[u].orgs, page.id = ui[u].id, page.lists = ui[u].lists,
         page.dialog \in {None, ui[u].dialog}
  PROVE  Turns(u, page)
<1>1. Active(page) = Active(ui[u])
  BY ActiveOf
<1>2. PageSound(page)
  BY <1>1, PageTyped DEF PageSound, Shows
<1> QED BY <1>1, <1>2 DEF Turns, ListsFollow, DialogFollows

LEMMA TurnsSame ==
  ASSUME TypeInv, NEW u \in Users, ui' = ui
  PROVE  Turns(u, ui[u])
<1>1. ui = [ui EXCEPT ![u] = ui[u]]
  BY PageTyped
<1> QED BY <1>1, PageTyped, TurnsAlike

LEMMA TurnsFresh ==
  ASSUME TypeInv, NEW u \in Users, NEW page \in Pages \cup {None}, ui' = [ui EXCEPT ![u] = Fresh(page)]
  PROVE  Turns(u, Fresh(page))
<1>1. Fresh(page) \in PageRecords /\ Fresh(page).dialog = None /\ Fresh(page).orgs = None
      /\ Fresh(page).id = None /\ \A o \in Orgs : Fresh(page).lists[o] = None
  BY DEF Fresh, PageRecords
<1>2. PageSound(Fresh(page))
  BY <1>1 DEF PageSound, Shows
<1> QED BY <1>1, <1>2 DEF Turns, ListsFollow, DialogFollows

\* The rows of a new page are kept as far as its list has them.
LEMMA TurnsKept ==
  ASSUME TypeInv, NEW u \in Users, NEW page \in PageRecords, Shows(page), ListsFollow(u, page),
         page.dialog \in {None, ui[u].dialog},
         \/ Active(page) = Active(ui[u])
         \/ marks' = marks \cup MovedUnder(ui[u], RowsKept(page)),
         ui' = [ui EXCEPT ![u] = RowsKept(page)]
  PROVE  Turns(u, RowsKept(page))
<1>1. /\ RowsKept(page) \in PageRecords /\ PageSound(RowsKept(page))
      /\ Active(RowsKept(page)) = Active(page)
      /\ RowsKept(page) = page \/ RowsKept(page) = [page EXCEPT !.dialog = None]
  BY RowsKeptFacts
<1>2. RowsKept(page).lists = page.lists /\ RowsKept(page).dialog \in {None, ui[u].dialog}
  BY <1>1 DEF PageRecords
<1>3. DialogFollows(u, RowsKept(page))
  <2>1. CASE RowsKept(page).dialog = None
    BY <2>1 DEF DialogFollows
  <2>2. CASE Active(page) = Active(ui[u])
    BY <1>1, <1>2, <2>2 DEF DialogFollows
  <2>3. CASE RowsKept(page).dialog # None /\ Active(page) # Active(ui[u])
    <3>1. MovedUnder(ui[u], RowsKept(page)) = {"moved"}
      BY <1>1, <1>2, <2>3 DEF MovedUnder, MarkIf
    <3> QED BY <1>1, <1>2, <2>3, <3>1 DEF DialogFollows
  <2> QED BY <2>1, <2>2, <2>3
<1> QED BY <1>1, <1>2, <1>3 DEF Turns, ListsFollow

LEMMA BecomeMarks ==
  ASSUME NEW u, NEW page, Become(u, page)
  PROVE  marks \subseteq marks' /\ marks' \subseteq marks \cup {"moved"}
  BY DEF Become, MovedUnder, MarkIf

\* The order in which ME lists the organizations of a user.
LEMMA OrgSeqs ==
  ASSUME TypeInv, NEW u \in Users, NEW orgs \in SetToSeqs(OrgsOf(u))
  PROVE  orgs \in Seq(Orgs) /\ Range(orgs) \subseteq made
<1>1. OrgsOf(u) \subseteq made /\ OrgsOf(u) \subseteq Orgs
  BY DEF OrgsOf, TypeInv, ServerTyped
<1>2. Cardinality(OrgsOf(u)) \in Nat
  BY <1>1, OrganizationsAssumption, FS_Subset, FS_CardinalityType
<1>3. orgs \in [1..Cardinality(OrgsOf(u)) -> OrgsOf(u)]
  BY DEF SetToSeqs
<1>4. orgs \in Seq(OrgsOf(u))
  BY <1>2, <1>3
<1>5. orgs \in Seq(Orgs)
  BY <1>1, <1>4
<1> QED BY <1>1, <1>3, <1>5 DEF Range

LEMMA WithOrgsFacts ==
  ASSUME TypeInv, NEW u \in Users, NEW orgs \in Seq(Orgs), Range(orgs) \subseteq made,
         NEW kept, NEW page, page = WithOrgs(u, ui[u], orgs, kept)
  PROVE  \E p \in PageRecords :
           /\ Shows(p) /\ ListsFollow(u, p) /\ p.dialog = ui[u].dialog
           /\ page = RowsKept(p) /\ page.id \in made \cup {None}
<1> DEFINE id == IF ui[u].id = None /\ orgs # <<>>
                 THEN IF kept \in Range(orgs) THEN kept ELSE Head(orgs) ELSE ui[u].id
           p == [ui[u] EXCEPT !.orgs = orgs, !.id = id]
<1>1. ui[u] \in PageRecords /\ Shows(ui[u]) /\ made \subseteq Orgs
  BY PageTyped
<1>2. orgs # <<>> => Head(orgs) \in made
  BY DEF Range
<1>3. id \in made \cup {None}
  BY <1>1, <1>2 DEF Shows
<1>4. page = RowsKept(p)
  BY DEF WithOrgs
<1> HIDE DEF id
<1>5. p \in PageRecords /\ p.orgs = orgs /\ p.id = id /\ p.lists = ui[u].lists /\ p.dialog = ui[u].dialog
  BY <1>1, <1>3 DEF PageRecords
<1> HIDE DEF p
<1>6. Shows(p) /\ ListsFollow(u, p)
  BY <1>1, <1>3, <1>5 DEF Shows, ListsFollow
<1>7. RowsKept(p).id = p.id
  BY <1>5, <1>6, RowsKeptFacts DEF PageRecords
<1> QED BY <1>3, <1>4, <1>5, <1>6, <1>7

----------------------------------------------------------------------------
(* The pages' own steps.                                                   *)

\* A step that sends nothing and marks nothing.
LEMMA Silent ==
  ASSUME TypeInv, NEW u \in Users, NEW page, Turns(u, page), Stores(u), Hushed(reqs'),
         UNCHANGED <<plan, server, marks>>
  PROVE  ClientStep
<1>1. Sends({})
  BY SendsHushed
<1>2. Posts(u, {})
  BY <1>1 DEF Posts
<1> QED BY <1>2 DEF ClientStep

\* A step that sends one request.
LEMMA Posting ==
  ASSUME TypeInv, NEW u \in Users, NEW page, Turns(u, page), NEW r \in Requests, r.step = "sent",
         Sound(r), Justified(u, r), NEW s, Hushed(s), reqs' = Append(s, r),
         UNCHANGED <<plan, server, stored, marks>>
  PROVE  ClientStep
<1>1. Sends({r})
  BY SendsAppended
<1>2. Posts(u, {r}) /\ Stores(u)
  BY <1>1, StoresSame DEF Posts
<1> QED BY <1>2 DEF ClientStep

LEMMA VisitStep ==
  ASSUME TypeInv, NEW u \in Users, NEW page \in Pages, Visit(u, page)
  PROVE  ClientStep
<1>1. Turns(u, Fresh(page)) /\ Stores(u) /\ Hushed(reqs')
  BY TurnsFresh, StoresSame, HushedDeafened DEF Visit
<1> QED BY <1>1, Silent DEF Visit

LEMMA MeArrivesStep ==
  ASSUME TypeInv, NEW u \in Users, MeArrives(u)
  PROVE  ClientStep
<1>1. PICK orgs \in SetToSeqs(OrgsOf(u)) :
        /\ Become(u, WithOrgs(u, ui[u], orgs, stored[u]))
        /\ Remembered(u, WithOrgs(u, ui[u], orgs, stored[u]), stored[u])
  BY DEF MeArrives
<1>2. PICK page : page = WithOrgs(u, ui[u], orgs, stored[u])
  OBVIOUS
<1>3. orgs \in Seq(Orgs) /\ Range(orgs) \subseteq made
  BY OrgSeqs
<1>4. PICK p \in PageRecords :
           /\ Shows(p) /\ ListsFollow(u, p) /\ p.dialog = ui[u].dialog
           /\ page = RowsKept(p) /\ page.id \in made \cup {None}
  BY <1>2, <1>3, WithOrgsFacts
<1>5. ui' = [ui EXCEPT ![u] = RowsKept(p)] /\ marks' = marks \cup MovedUnder(ui[u], RowsKept(p))
  BY <1>1, <1>2, <1>4 DEF Become
<1>6. Turns(u, page)
  BY <1>4, <1>5, TurnsKept
<1>7. Stores(u)
  BY <1>1, <1>2, <1>4, StoresOne, PageTyped DEF Remembered
<1>8. Posts(u, {})
  BY HushedSelf, SendsHushed DEF Posts, MeArrives
<1>9. marks \subseteq marks' /\ marks' \subseteq marks \cup {"moved"}
  BY <1>1, BecomeMarks
<1> QED BY <1>6, <1>7, <1>8, <1>9 DEF ClientStep, MeArrives

LEMMA NavigateStep ==
  ASSUME TypeInv, NEW u \in Users, NEW page \in Pages, Navigate(u, page)
  PROVE  ClientStep
<1> DEFINE p == [ui[u] EXCEPT !.page = page, !.dialog = None, !.saving = FALSE]
<1>1. ui \in [Users -> PageRecords] /\ ui[u] \in PageRecords
  BY PageTyped
<1>2. p \in PageRecords /\ p.orgs = ui[u].orgs /\ p.id = ui[u].id /\ p.lists = ui[u].lists /\ p.dialog = None
  BY <1>1 DEF PageRecords
<1>3. ui' = [ui EXCEPT ![u] = p]
  BY <1>1 DEF Navigate
<1> HIDE DEF p
<1>4. Turns(u, p)
  BY <1>2, <1>3, TurnsAlike
<1> QED BY <1>4, StoresSame, HushedSelf, Silent DEF Navigate

LEMMA ToOnboardingStep ==
  ASSUME TypeInv, NEW u \in Users, ToOnboarding(u)
  PROVE  ClientStep
<1> DEFINE p == [ui[u] EXCEPT !.first = IF @ = ui[u].page THEN "onboarding" ELSE @,
                              !.page = "onboarding", !.saving = FALSE]
<1>1. ui \in [Users -> PageRecords] /\ ui[u] \in PageRecords
  BY PageTyped
<1>2. p \in PageRecords /\ p.orgs = ui[u].orgs /\ p.id = ui[u].id /\ p.lists = ui[u].lists /\ p.dialog = ui[u].dialog
  BY <1>1 DEF PageRecords, Pages
<1>3. ui' = [ui EXCEPT ![u] = p]
  BY <1>1 DEF ToOnboarding
<1> HIDE DEF p
<1>4. Turns(u, p)
  BY <1>2, <1>3, TurnsAlike
<1> QED BY <1>4, StoresSame, HushedSelf, Silent DEF ToOnboarding

LEMMA SwitchStep ==
  ASSUME TypeInv, NEW u \in Users, NEW o \in Orgs, Switch(u, o)
  PROVE  ClientStep
<1> DEFINE p == [ui[u] EXCEPT !.id = o]
<1>1. ui \in [Users -> PageRecords] /\ ui[u] \in PageRecords /\ Shows(ui[u])
  BY PageTyped
<1>2. p \in PageRecords /\ p.orgs = ui[u].orgs /\ p.id = o /\ p.lists = ui[u].lists /\ p.dialog = None
  BY <1>1 DEF PageRecords, Switch
<1>3. ui' = [ui EXCEPT ![u] = p] /\ o \in made
  BY <1>1 DEF Switch, Shows
<1> HIDE DEF p
<1>4. Turns(u, p)
  BY <1>1, <1>2, <1>3 DEF Turns, PageSound, Shows, ListsFollow, DialogFollows
<1>5. Stores(u)
  BY <1>3, StoresOne DEF Switch
<1> QED BY <1>4, <1>5, HushedSelf, Silent DEF Switch

LEMMA PostTyped ==
  ASSUME NEW u \in Users, NEW kind \in Kinds
  PROVE  Post(u, kind) \in Requests /\ Post(u, kind).step = "sent" /\ Post(u, kind).kind = kind
         /\ Post(u, kind).org = None
  BY DEF Post, Requests, MaybeRole

LEMMA CreateStep ==
  ASSUME TypeInv, NEW u \in Users, Create(u)
  PROVE  ClientStep
<1> DEFINE r == Post(u, "create")
<1>1. "create" \in Kinds
  BY DEF Kinds
<1>2. r \in Requests /\ r.step = "sent" /\ Sound(r) /\ Justified(u, r)
  BY <1>1, PostTyped DEF Sound, Justified
<1> QED BY <1>2, TurnsSame, HushedSelf, Posting DEF Create, Send

LEMMA SaveStep ==
  ASSUME TypeInv, NEW u \in Users, Save(u)
  PROVE  ClientStep
<1> DEFINE r == [Post(u, "save") EXCEPT !.org = Active(ui[u])]
           p == [ui[u] EXCEPT !.saving = TRUE]
<1>1. "save" \in Kinds /\ Active(ui[u]) \in made /\ made \subseteq Orgs
  BY PageTyped DEF Kinds, Save
<1>2. r \in Requests /\ r.step = "sent" /\ r.kind = "save" /\ r.org = Active(ui[u])
  BY <1>1 DEF Post, Requests, MaybeRole
<1>3. ui \in [Users -> PageRecords] /\ ui[u] \in PageRecords
  BY PageTyped
<1>4. p \in PageRecords /\ p.orgs = ui[u].orgs /\ p.id = ui[u].id /\ p.lists = ui[u].lists /\ p.dialog = ui[u].dialog
  BY <1>3 DEF PageRecords
<1>5. ui' = [ui EXCEPT ![u] = p]
  BY <1>3 DEF Save
<1>6. reqs' = Append(reqs, r) /\ UNCHANGED <<plan, server, stored, marks>>
  BY DEF Save, Send
<1> HIDE DEF p, r
<1>7. Sound(r) /\ Justified(u, r)
  BY <1>1, <1>2, NoneFacts DEF Sound, Justified
<1>8. Turns(u, p)
  BY <1>4, <1>5, TurnsAlike
<1> QED BY <1>2, <1>6, <1>7, <1>8, HushedSelf, Posting

LEMMA OnMembersFacts ==
  ASSUME TypeInv, NEW u \in Users, OnMembers(u)
  PROVE  Active(ui[u]) \in made /\ Active(ui[u]) # None /\ Active(ui[u]) \in Orgs
  BY PageTyped DEF OnMembers

LEMMA FetchMembersStep ==
  ASSUME TypeInv, NEW u \in Users, FetchMembers(u)
  PROVE  ClientStep
<1> DEFINE o == Active(ui[u])
           p == [ui[u] EXCEPT !.lists[o] = role[o]]
<1>1. ui \in [Users -> PageRecords] /\ ui[u] \in PageRecords /\ Shows(ui[u])
  BY PageTyped
<1>2. o \in made /\ o \in Orgs /\ role[o] \in [Users -> MaybeRole]
  BY OnMembersFacts DEF FetchMembers, TypeInv, ServerTyped
<1>3. ui' = [ui EXCEPT ![u] = RowsKept(p)] /\ UNCHANGED <<plan, server, reqs, stored, marks>>
  BY DEF FetchMembers
<1> HIDE DEF o
<1>4. p \in PageRecords /\ p.orgs = ui[u].orgs /\ p.id = ui[u].id /\ p.dialog = ui[u].dialog
      /\ p.lists = [ui[u].lists EXCEPT ![o] = role[o]]
  BY <1>1, <1>2 DEF PageRecords
<1>5. ui[u].lists \in [Orgs -> {None} \cup [Users -> MaybeRole]]
  BY <1>1 DEF PageRecords
<1> HIDE DEF p
<1>6. Shows(p) /\ ListsFollow(u, p)
  BY <1>1, <1>2, <1>4, <1>5 DEF Shows, ListsFollow
<1>7. Turns(u, RowsKept(p))
  BY <1>3, <1>4, <1>6, ActiveOf, TurnsKept
<1> QED BY <1>3, <1>7, StoresSame, HushedSelf, Silent

\* A row that can be acted on is shown.
LEMMA RowShown ==
  ASSUME NEW u \in Users, NEW t \in Users, RowOf(u, t) \notin {None, "OWNER"}
  PROVE  ShownBelow(u, Active(ui[u]), t)
  BY DEF RowOf, Rows, ShownBelow

LEMMA ClickRoleStep ==
  ASSUME TypeInv, NEW u \in Users, NEW t \in Users, NEW r \in plan.grants, ClickRole(u, t, r)
  PROVE  ClientStep
<1> DEFINE q == ChangeOf(u, t, r)
<1>1. Active(ui[u]) \in made /\ Active(ui[u]) # None /\ Active(ui[u]) \in Orgs
  BY OnMembersFacts DEF ClickRole, Clickable
<1>2. r \in Roles
  BY PlanFacts DEF TypeInv, ServerTyped
<1>3. q \in Requests /\ q.step = "sent" /\ q.kind = "role" /\ q.org = Active(ui[u]) /\ q.user = t /\ q.role = r
  BY <1>1, <1>2 DEF ChangeOf, Post, Requests, MaybeRole, Kinds
<1>4. RowOf(u, t) \notin {None, "OWNER"}
  BY RoleNames, NoneFacts DEF ClickRole, AtOnce
<1>5. reqs' = Append(reqs, q) /\ UNCHANGED <<plan, server, stored, marks, ui>>
  BY DEF ClickRole, Send
<1> HIDE DEF q
<1>6. Sound(q) /\ Justified(u, q)
  BY <1>1, <1>2, <1>3, <1>4, RowShown, NoneFacts DEF Sound, Justified
<1> QED BY <1>3, <1>5, <1>6, TurnsSame, HushedSelf, Posting

\* A dialog is opened below the list.
LEMMA AskStep ==
  ASSUME TypeInv, NEW u \in Users, NEW dialog \in Dialogs, Ask(u, dialog),
         dialog.kind \in {"role", "remove"} => ShownBelow(u, Active(ui[u]), dialog.user),
         dialog.kind = "revoke" => dialog.inv \in Existing
  PROVE  ClientStep
<1> DEFINE p == [ui[u] EXCEPT !.dialog = dialog]
<1>1. ui \in [Users -> PageRecords] /\ ui[u] \in PageRecords /\ Shows(ui[u])
  BY PageTyped
<1>2. Active(ui[u]) # None
  BY OnMembersFacts DEF Ask, Clickable
<1>3. p \in PageRecords /\ p.orgs = ui[u].orgs /\ p.id = ui[u].id /\ p.lists = ui[u].lists /\ p.dialog = dialog
  BY <1>1 DEF PageRecords
<1>4. ui' = [ui EXCEPT ![u] = p] /\ UNCHANGED <<plan, server, reqs, stored, marks>>
  BY <1>1 DEF Ask
<1> HIDE DEF p
<1>5. Active(p) = Active(ui[u])
  BY <1>3, ActiveOf
<1>6. Turns(u, p)
  BY <1>1, <1>2, <1>3, <1>4, <1>5 DEF Turns, PageSound, Shows, ListsFollow, DialogFollows
<1> QED BY <1>4, <1>6, StoresSame, HushedSelf, Silent

LEMMA AskRoleStep ==
  ASSUME TypeInv, NEW u \in Users, NEW t \in Users, NEW r \in plan.grants, AskRole(u, t, r)
  PROVE  ClientStep
<1> DEFINE d == [kind |-> "role", user |-> t, role |-> r]
<1>1. r \in Roles
  BY PlanFacts DEF TypeInv, ServerTyped
<1>2. d \in Dialogs /\ d.kind = "role" /\ d.user = t
  BY <1>1 DEF Dialogs
<1>3. RowOf(u, t) \notin {None, "OWNER"}
  BY RoleNames, NoneFacts DEF AskRole, Confirmed
<1>4. Ask(u, d)
  BY DEF AskRole
<1> QED BY <1>2, <1>3, <1>4, RowShown, AskStep

LEMMA AskRemoveStep ==
  ASSUME TypeInv, NEW u \in Users, NEW t \in Users, AskRemove(u, t)
  PROVE  ClientStep
<1> DEFINE d == [kind |-> "remove", user |-> t]
<1>1. d \in Dialogs /\ d.kind = "remove" /\ d.user = t
  BY DEF Dialogs
<1>2. RowOf(u, t) \notin {None, "OWNER"}
  BY DEF AskRemove, Removable
<1>3. Ask(u, d)
  BY DEF AskRemove
<1> QED BY <1>1, <1>2, <1>3, RowShown, AskStep

LEMMA AskRevokeStep ==
  ASSUME TypeInv, NEW u \in Users, NEW i \in Invs, AskRevoke(u, i)
  PROVE  ClientStep
<1> DEFINE d == [kind |-> "revoke", inv |-> i]
<1>1. d \in Dialogs /\ d.kind = "revoke" /\ d.inv = i
  BY DEF Dialogs
<1>2. i \in Existing /\ Ask(u, d)
  BY DEF AskRevoke
<1> QED BY <1>1, <1>2, AskStep

LEMMA DialogClosed ==
  ASSUME TypeInv, NEW u \in Users, ui' = [ui EXCEPT ![u].dialog = None]
  PROVE  Turns(u, [ui[u] EXCEPT !.dialog = None])
<1> DEFINE p == [ui[u] EXCEPT !.dialog = None]
<1>1. ui \in [Users -> PageRecords] /\ ui[u] \in PageRecords
  BY PageTyped
<1>2. p \in PageRecords /\ p.orgs = ui[u].orgs /\ p.id = ui[u].id /\ p.lists = ui[u].lists /\ p.dialog = None
  BY <1>1 DEF PageRecords
<1>3. ui' = [ui EXCEPT ![u] = p]
  BY <1>1
<1> HIDE DEF p
<1>4. Turns(u, p)
  BY <1>2, <1>3, TurnsAlike
<1> QED BY <1>4 DEF p

LEMMA DismissStep ==
  ASSUME TypeInv, NEW u \in Users, Dismiss(u)
  PROVE  ClientStep
  BY DialogClosed, StoresSame, HushedSelf, Silent DEF Dismiss

\* A confirmation sends r about what the dialog was opened for, and closes it.
LEMMA ConfirmStep ==
  ASSUME TypeInv, NEW u \in Users, ui[u].dialog # None, NEW r \in Requests, r.step = "sent",
         r.kind = ui[u].dialog.kind, r.org = Active(ui[u]),
         r.kind = "role" => r.user = ui[u].dialog.user /\ r.role = ui[u].dialog.role,
         r.kind = "remove" => r.user = ui[u].dialog.user,
         r.kind = "revoke" => r.inv = ui[u].dialog.inv,
         Send(r), ui' = [ui EXCEPT ![u].dialog = None]
  PROVE  ClientStep
<1>1. ui[u] \in PageRecords /\ PageSound(ui[u]) /\ Shows(ui[u]) /\ Active(ui[u]) \in made \cup {None}
  BY PageTyped
<1>2. Active(ui[u]) # None
  BY <1>1 DEF PageSound
<1>3. ui[u].dialog \in Dialogs
  BY <1>1 DEF PageRecords
<1>4. r.kind \in {"role", "remove", "revoke"}
  BY <1>3 DEF Dialogs
<1>5. /\ r.kind \in {"role", "remove"} => r.user = ui[u].dialog.user /\ r.user # None
      /\ r.kind = "role" => r.role # None
      /\ r.kind = "revoke" => r.inv \in Existing
  <2>1. CASE r.kind = "role"
    <3>1. ui[u].dialog.user \in Users /\ ui[u].dialog.role \in Roles
      BY <1>3, <2>1 DEF Dialogs
    <3> QED BY <2>1, <3>1, NoneFacts
  <2>2. CASE r.kind = "remove"
    <3>1. ui[u].dialog.user \in Users
      BY <1>3, <2>2 DEF Dialogs
    <3> QED BY <2>2, <3>1, NoneFacts
  <2>3. CASE r.kind = "revoke"
    BY <1>1, <2>3 DEF Shows
  <2> QED BY <1>4, <2>1, <2>2, <2>3
<1>6. Sound(r)
  BY <1>1, <1>2, <1>4, <1>5 DEF Sound
<1>7. Justified(u, r)
  BY <1>4, <1>5 DEF Justified
<1>8. reqs' = Append(reqs, r) /\ UNCHANGED <<plan, server, stored, marks>>
  BY DEF Send
<1> QED BY <1>6, <1>7, <1>8, DialogClosed, HushedSelf, Posting

LEMMA ConfirmRoleStep ==
  ASSUME TypeInv, NEW u \in Users, ConfirmRole(u)
  PROVE  ClientStep
<1> DEFINE q == ChangeOf(u, ui[u].dialog.user, ui[u].dialog.role)
<1>1. ui[u] \in PageRecords /\ Active(ui[u]) \in made \cup {None} /\ made \subseteq Orgs
  BY PageTyped
<1>2. ui[u].dialog \in Dialogs /\ ui[u].dialog # None /\ ui[u].dialog.kind = "role"
  BY <1>1 DEF PageRecords, ConfirmRole
<1>3. ui[u].dialog.user \in Users /\ ui[u].dialog.role \in Roles
  BY <1>2 DEF Dialogs
<1>4. q \in Requests /\ q.step = "sent" /\ q.kind = "role" /\ q.org = Active(ui[u])
      /\ q.user = ui[u].dialog.user /\ q.role = ui[u].dialog.role
  BY <1>1, <1>3 DEF ChangeOf, Post, Requests, MaybeRole, Kinds
<1>5. Send(q) /\ ui' = [ui EXCEPT ![u].dialog = None]
  BY DEF ConfirmRole
<1> HIDE DEF q
<1> QED BY <1>2, <1>4, <1>5, ConfirmStep

LEMMA ConfirmRemoveStep ==
  ASSUME TypeInv, NEW u \in Users, ConfirmRemove(u)
  PROVE  ClientStep
<1> DEFINE q == [Post(u, "remove") EXCEPT !.org = Active(ui[u]), !.user = ui[u].dialog.user]
<1>1. ui[u] \in PageRecords /\ Active(ui[u]) \in made \cup {None} /\ made \subseteq Orgs
  BY PageTyped
<1>2. ui[u].dialog \in Dialogs /\ ui[u].dialog # None /\ ui[u].dialog.kind = "remove"
  BY <1>1 DEF PageRecords, ConfirmRemove
<1>3. ui[u].dialog.user \in Users
  BY <1>2 DEF Dialogs
<1>4. q \in Requests /\ q.step = "sent" /\ q.kind = "remove" /\ q.org = Active(ui[u])
      /\ q.user = ui[u].dialog.user
  BY <1>1, <1>3 DEF Post, Requests, MaybeRole, Kinds
<1>5. Send(q) /\ ui' = [ui EXCEPT ![u].dialog = None]
  BY DEF ConfirmRemove
<1> HIDE DEF q
<1> QED BY <1>2, <1>4, <1>5, ConfirmStep

LEMMA ConfirmRevokeStep ==
  ASSUME TypeInv, NEW u \in Users, ConfirmRevoke(u)
  PROVE  ClientStep
<1> DEFINE q == [Post(u, "revoke") EXCEPT !.org = Active(ui[u]), !.inv = ui[u].dialog.inv]
<1>1. ui[u] \in PageRecords /\ Active(ui[u]) \in made \cup {None} /\ made \subseteq Orgs
  BY PageTyped
<1>2. ui[u].dialog \in Dialogs /\ ui[u].dialog # None /\ ui[u].dialog.kind = "revoke"
  BY <1>1 DEF PageRecords, ConfirmRevoke
<1>3. ui[u].dialog.inv \in Invs
  BY <1>2 DEF Dialogs
<1>4. q \in Requests /\ q.step = "sent" /\ q.kind = "revoke" /\ q.org = Active(ui[u])
      /\ q.inv = ui[u].dialog.inv
  BY <1>1, <1>3 DEF Post, Requests, MaybeRole, Kinds
<1>5. Send(q) /\ ui' = [ui EXCEPT ![u].dialog = None]
  BY DEF ConfirmRevoke
<1> HIDE DEF q
<1> QED BY <1>2, <1>4, <1>5, ConfirmStep

LEMMA InviteStep ==
  ASSUME TypeInv, NEW u \in Users, NEW t \in Users, NEW r \in plan.grants, Invite(u, t, r)
  PROVE  ClientStep
<1> DEFINE q == [Post(u, "invite") EXCEPT !.org = Active(ui[u]), !.user = t, !.role = r]
<1>1. Active(ui[u]) \in made /\ Active(ui[u]) # None /\ Active(ui[u]) \in Orgs
  BY OnMembersFacts DEF Invite, Clickable
<1>2. r \in Roles /\ r # "OWNER"
  BY PlanFacts DEF TypeInv, ServerTyped, Invite
<1>3. q \in Requests /\ q.step = "sent" /\ q.kind = "invite" /\ q.org = Active(ui[u]) /\ q.user = t /\ q.role = r
  BY <1>1, <1>2 DEF Post, Requests, MaybeRole, Kinds
<1>4. reqs' = Append(reqs, q) /\ UNCHANGED <<plan, server, stored, marks, ui>>
  BY DEF Invite, Send
<1> HIDE DEF q
<1>5. Sound(q) /\ Justified(u, q)
  BY <1>1, <1>2, <1>3, NoneFacts DEF Sound, Justified
<1> QED BY <1>3, <1>4, <1>5, TurnsSame, HushedSelf, Posting

LEMMA OpenInvitationStep ==
  ASSUME TypeInv, NEW u \in Users, NEW i \in Invs, OpenInvitation(u, i)
  PROVE  ClientStep
<1> DEFINE q == [Post(u, "accept") EXCEPT !.inv = i]
<1>1. q \in Requests /\ q.step = "sent" /\ q.kind = "accept" /\ q.inv = i /\ q.org = None
  BY DEF Post, Requests, MaybeRole, Kinds
<1>2. /\ reqs' = Append(Deafened(u), q) /\ UNCHANGED <<plan, server, stored, marks>>
      /\ ui' = [ui EXCEPT ![u] = Fresh("accept")] /\ i \in Existing
  BY DEF OpenInvitation
<1> HIDE DEF q
<1>3. Sound(q) /\ Justified(u, q)
  BY <1>1, <1>2 DEF Sound, Justified
<1>4. Turns(u, Fresh("accept"))
  BY <1>2, TurnsFresh DEF Pages
<1> QED BY <1>1, <1>2, <1>3, <1>4, HushedDeafened, Posting

LEMMA PageStep ==
  ASSUME TypeInv, NEW u \in Users, Page(u)
  PROVE  ClientStep
<1>1. CASE \E page \in Pages : Visit(u, page) \/ Navigate(u, page)
  BY <1>1, VisitStep, NavigateStep
<1>2. CASE MeArrives(u) \/ ToOnboarding(u) \/ FetchMembers(u) \/ Create(u) \/ Save(u) \/ Dismiss(u)
  BY <1>2, MeArrivesStep, ToOnboardingStep, FetchMembersStep, CreateStep, SaveStep, DismissStep
<1>3. CASE ConfirmRole(u) \/ ConfirmRemove(u) \/ ConfirmRevoke(u)
  BY <1>3, ConfirmRoleStep, ConfirmRemoveStep, ConfirmRevokeStep
<1>4. CASE \E o \in Orgs : Switch(u, o)
  BY <1>4, SwitchStep
<1>5. CASE \E t \in Users : AskRemove(u, t)
  BY <1>5, AskRemoveStep
<1>6. CASE \E t \in Users, r \in plan.grants : ClickRole(u, t, r) \/ AskRole(u, t, r)
  BY <1>6, ClickRoleStep, AskRoleStep
<1>7. CASE \E t \in Visitors, r \in plan.grants : Invite(u, t, r)
  BY <1>7, InviteStep DEF Visitors
<1>8. CASE \E i \in Invs : AskRevoke(u, i) \/ OpenInvitation(u, i)
  BY <1>8, AskRevokeStep, OpenInvitationStep
<1> QED BY <1>1, <1>2, <1>3, <1>4, <1>5, <1>6, <1>7, <1>8 DEF Page

----------------------------------------------------------------------------
(* The answers.                                                            *)

LEMMA RequestTyped ==
  ASSUME TypeInv, NEW k \in DOMAIN reqs
  PROVE  reqs[k] \in Requests /\ Sound(reqs[k]) /\ reqs[k].by \in Users
<1>1. reqs[k] \in Requests /\ Sound(reqs[k])
  BY DEF TypeInv, ReqsTyped
<1> QED BY <1>1 DEF Requests

\* An answer takes a request away, or its hearer.
LEMMA AnswerSends ==
  ASSUME TypeInv, NEW k \in DOMAIN reqs, NEW u,
         \/ reqs' = RemoveAt(reqs, k)
         \/ reqs' = [reqs EXCEPT ![k].deaf = TRUE]
         \/ reqs' = RemoveAt(Deafened(u), k)
  PROVE  Sends({})
  BY HushedSelf, HushedLost, HushedDeafened, SendsRemoved, SendsHushed

\* An answer that changes at most the page and the stored organization of u.
LEMMA Answering ==
  ASSUME TypeInv, NEW u \in Users, NEW page, Turns(u, page), Stores(u), Sends({}),
         UNCHANGED <<plan, server>>,
         marks \subseteq marks', marks' \subseteq marks \cup {"moved"}
  PROVE  ClientStep
<1>1. Posts(u, {})
  BY DEF Posts
<1> QED BY <1>1 DEF ClientStep

LEMMA SavingEnds ==
  ASSUME TypeInv, NEW u \in Users, ui' = [ui EXCEPT ![u].saving = FALSE]
  PROVE  \E page : Turns(u, page)
<1> DEFINE p == [ui[u] EXCEPT !.saving = FALSE]
<1>1. ui \in [Users -> PageRecords] /\ ui[u] \in PageRecords
  BY PageTyped
<1>2. p \in PageRecords /\ p.orgs = ui[u].orgs /\ p.id = ui[u].id /\ p.lists = ui[u].lists /\ p.dialog = ui[u].dialog
  BY <1>1 DEF PageRecords
<1>3. ui' = [ui EXCEPT ![u] = p]
  BY <1>1
<1> HIDE DEF p
<1> QED BY <1>2, <1>3, TurnsAlike

LEMMA PlainAnswer ==
  ASSUME TypeInv, NEW k \in DOMAIN reqs, Unheard(k) \/ NothingToDo(k) \/ CheckoutFails(k)
  PROVE  ClientStep
<1>1. reqs' = RemoveAt(reqs, k) /\ UNCHANGED <<plan, server, client, marks>>
  BY DEF Unheard, NothingToDo, CheckoutFails, Heard, Answered
<1>2. reqs[k].by \in Users /\ Sends({})
  BY <1>1, RequestTyped, AnswerSends
<1>3. Turns(reqs[k].by, ui[reqs[k].by]) /\ Stores(reqs[k].by)
  BY <1>1, <1>2, TurnsSame, StoresSame DEF client
<1> QED BY <1>1, <1>2, <1>3, Answering

LEMMA LostStep ==
  ASSUME TypeInv, NEW k \in DOMAIN reqs, Lost(k)
  PROVE  ClientStep
<1>1. reqs[k].by \in Users /\ Sends({})
  BY RequestTyped, AnswerSends DEF Lost
<1>2. \E page : Turns(reqs[k].by, page)
  BY <1>1, SavingEnds, TurnsSame DEF Lost
<1>3. Stores(reqs[k].by)
  BY <1>1, StoresSame DEF Lost
<1> QED BY <1>1, <1>2, <1>3, Answering DEF Lost

LEMMA SaveRefusedStep ==
  ASSUME TypeInv, NEW k \in DOMAIN reqs, SaveRefused(k)
  PROVE  ClientStep
<1>1. reqs[k].by \in Users /\ Sends({})
  BY RequestTyped, AnswerSends DEF SaveRefused, Heard, Answered
<1>2. \E page : Turns(reqs[k].by, page)
  BY <1>1, SavingEnds DEF SaveRefused
<1>3. Stores(reqs[k].by)
  BY <1>1, StoresSame DEF SaveRefused
<1> QED BY <1>1, <1>2, <1>3, Answering DEF SaveRefused

LEMMA RevokedStep ==
  ASSUME TypeInv, NEW k \in DOMAIN reqs, Revoked(k)
  PROVE  ClientStep
<1>1. reqs[k].by \in Users /\ Sends({})
  BY RequestTyped, AnswerSends DEF Revoked, Heard, Answered
<1>2. \E page : Turns(reqs[k].by, page)
  BY <1>1, DialogClosed, TurnsSame DEF Revoked
<1>3. Stores(reqs[k].by)
  BY <1>1, StoresSame DEF Revoked
<1> QED BY <1>1, <1>2, <1>3, Answering DEF Revoked

LEMMA SavedStep ==
  ASSUME TypeInv, NEW k \in DOMAIN reqs, Saved(k)
  PROVE  ClientStep
<1> DEFINE u == reqs[k].by
           p == [ui[u] EXCEPT !.id = reqs[k].org]
<1>1. u \in Users /\ Sends({})
  BY RequestTyped, AnswerSends DEF Saved, Heard, Answered
<1>2. reqs[k].org \in made /\ made \subseteq Orgs
  BY RequestTyped, <1>1, PageTyped DEF Sound, Saved, Heard
<1>3. Become(u, RowsKept(p)) /\ stored' = [stored EXCEPT ![u] = reqs[k].org]
  BY DEF Saved
<1> HIDE DEF u
<1>4. ui[u] \in PageRecords /\ Shows(ui[u])
  BY <1>1, PageTyped
<1>5. p \in PageRecords /\ p.orgs = ui[u].orgs /\ p.id = reqs[k].org /\ p.lists = ui[u].lists /\ p.dialog = ui[u].dialog
  BY <1>2, <1>4 DEF PageRecords
<1> HIDE DEF p
<1>6. Shows(p) /\ ListsFollow(u, p)
  BY <1>2, <1>4, <1>5 DEF Shows, ListsFollow
<1>7. Turns(u, RowsKept(p))
  BY <1>1, <1>3, <1>5, <1>6, TurnsKept DEF Become
<1>8. Stores(u)
  BY <1>1, <1>2, <1>3, StoresOne
<1> QED BY <1>1, <1>3, <1>7, <1>8, BecomeMarks, Answering DEF Saved

LEMMA AppendRange ==
  ASSUME NEW S, NEW s \in Seq(S), NEW x \in S
  PROVE  Append(s, x) \in Seq(S) /\ Range(Append(s, x)) \subseteq Range(s) \cup {x}
<1>1. PICK n \in Nat : n = Len(s)
  OBVIOUS
<1>2. Append(s, x) \in Seq(S) /\ DOMAIN Append(s, x) = 1..(n + 1) /\ DOMAIN s = 1..n
      /\ Append(s, x)[n + 1] = x /\ \A j \in 1..n : Append(s, x)[j] = s[j]
  BY <1>1, AppendProperties
<1>3. \A j \in 1..(n + 1) : j = n + 1 \/ j \in 1..n
  OBVIOUS
<1> QED BY <1>2, <1>3 DEF Range

LEMMA CreatedStep ==
  ASSUME TypeInv, NEW k \in DOMAIN reqs, Created(k)
  PROVE  ClientStep
<1> DEFINE u == reqs[k].by
           o == reqs[k].org
           p == [ui[u] EXCEPT !.orgs = IF @ = None THEN None ELSE Append(@, o), !.id = o,
                              !.page = IF @ = "onboarding" THEN "home" ELSE @]
<1>1. u \in Users /\ Sends({})
  BY RequestTyped, AnswerSends DEF Created, Heard, Answered
<1>2. o \in made /\ made \subseteq Orgs
  BY RequestTyped, <1>1, PageTyped DEF Sound, Created, Heard
<1>3. Become(u, RowsKept(p)) /\ stored' = [stored EXCEPT ![u] = o] /\ UNCHANGED <<plan, server>>
  BY DEF Created
<1> HIDE DEF u, o
<1>4. ui[u] \in PageRecords /\ Shows(ui[u])
  BY <1>1, PageTyped
<1>5. ui[u].orgs # None => /\ Append(ui[u].orgs, o) \in Seq(Orgs) /\ Range(Append(ui[u].orgs, o)) \subseteq made
  <2>1. ui[u].orgs # None => ui[u].orgs \in Seq(Orgs) /\ Range(ui[u].orgs) \subseteq made
    BY <1>4 DEF PageRecords, Shows
  <2> QED BY <1>2, <2>1, AppendRange
<1>6. p \in PageRecords /\ p.orgs = (IF ui[u].orgs = None THEN None ELSE Append(ui[u].orgs, o))
      /\ p.id = o /\ p.lists = ui[u].lists /\ p.dialog = ui[u].dialog
  BY <1>2, <1>4, <1>5 DEF PageRecords, Pages, Dashboard
<1> HIDE DEF p
<1>7. Shows(p) /\ ListsFollow(u, p)
  BY <1>2, <1>4, <1>5, <1>6 DEF Shows, ListsFollow
<1>8. Turns(u, RowsKept(p))
  BY <1>1, <1>3, <1>6, <1>7, TurnsKept DEF Become
<1>9. Stores(u)
  BY <1>1, <1>2, <1>3, StoresOne
<1> QED BY <1>1, <1>3, <1>8, <1>9, BecomeMarks, Answering

LEMMA CheckoutLeavesStep ==
  ASSUME TypeInv, NEW k \in DOMAIN reqs, CheckoutLeaves(k)
  PROVE  ClientStep
<1>1. reqs[k].by \in Users /\ Sends({})
  BY RequestTyped, AnswerSends DEF CheckoutLeaves
<1>2. Turns(reqs[k].by, Closed)
  BY <1>1, TurnsFresh DEF CheckoutLeaves, Closed
<1>3. Stores(reqs[k].by)
  BY <1>1, StoresSame DEF CheckoutLeaves
<1> QED BY <1>1, <1>2, <1>3, Answering DEF CheckoutLeaves

LEMMA AppendedFacts ==
  ASSUME TypeInv, NEW u \in Users, NEW o \in made, ui[u].orgs # None
  PROVE  /\ Appended(ui[u].orgs, o) \in Seq(Orgs) /\ Range(Appended(ui[u].orgs, o)) \subseteq made
<1>1. ui[u] \in PageRecords /\ Shows(ui[u]) /\ made \subseteq Orgs
  BY PageTyped
<1>2. ui[u].orgs \in Seq(Orgs) /\ Range(ui[u].orgs) \subseteq made
  BY <1>1 DEF PageRecords, Shows
<1> QED BY <1>1, <1>2, AppendRange DEF Appended

LEMMA AcceptedStep ==
  ASSUME TypeInv, NEW k \in DOMAIN reqs, Accepted(k)
  PROVE  ClientStep
<1> DEFINE u == reqs[k].by
           o == reqs[k].org
           orgs == Appended(ui[u].orgs, o)
           page == IF orgs = None THEN ui[u] ELSE WithOrgs(u, ui[u], orgs, o)
<1>1. u \in Users /\ Sends({})
  BY RequestTyped, AnswerSends DEF Accepted, Heard, Answered
<1>2. o \in made /\ made \subseteq Orgs
  BY RequestTyped, <1>1, PageTyped DEF Sound, Accepted, Heard
<1>3. UNCHANGED <<plan, server>>
  BY DEF Accepted
<1>4. IF ui[u].page = "accept"
      THEN Become(u, [page EXCEPT !.page = "home"]) /\ stored' = [stored EXCEPT ![u] = o]
      ELSE UNCHANGED <<client, marks>>
  BY DEF Accepted
<1> HIDE DEF u, o, page, orgs
<1>5. CASE ui[u].page # "accept"
  <2>1. ui' = ui /\ stored' = stored /\ marks' = marks
    BY <1>4, <1>5 DEF client
  <2>2. Turns(u, ui[u]) /\ Stores(u)
    BY <1>1, <2>1, TurnsSame, StoresSame
  <2> QED BY <1>1, <1>3, <2>1, <2>2, Answering
<1>6. CASE ui[u].page = "accept"
  <2> DEFINE q == [page EXCEPT !.page = "home"]
  <2>1. Become(u, q) /\ stored' = [stored EXCEPT ![u] = o]
    BY <1>4, <1>6
  <2>2. "home" \in Pages
    BY DEF Pages, Dashboard
  <2>3. Turns(u, q)
    <3>1. CASE orgs = None
      <4>1. page = ui[u] /\ ui[u] \in PageRecords
        BY <1>1, <3>1, PageTyped DEF page
      <4>2. q \in PageRecords /\ q.orgs = ui[u].orgs /\ q.id = ui[u].id /\ q.lists = ui[u].lists /\ q.dialog = ui[u].dialog
        BY <2>2, <4>1 DEF PageRecords
      <4>3. ui' = [ui EXCEPT ![u] = q]
        BY <2>1 DEF Become
      <4> HIDE DEF q
      <4> QED BY <1>1, <4>2, <4>3, TurnsAlike
    <3>2. CASE orgs # None
      <4>1. ui[u].orgs # None
        BY <3>2 DEF orgs, Appended
      <4>2. orgs \in Seq(Orgs) /\ Range(orgs) \subseteq made
        BY <1>1, <1>2, <4>1, AppendedFacts DEF orgs
      <4>3. page = WithOrgs(u, ui[u], orgs, o)
        BY <3>2 DEF page
      <4>4. PICK p \in PageRecords :
              /\ Shows(p) /\ ListsFollow(u, p) /\ p.dialog = ui[u].dialog
              /\ page = RowsKept(p) /\ page.id \in made \cup {None}
        BY <1>1, <4>2, <4>3, WithOrgsFacts
      <4>5. /\ page \in PageRecords /\ PageSound(page) /\ Active(page) = Active(p)
            /\ page = p \/ page = [p EXCEPT !.dialog = None]
        BY <4>4, RowsKeptFacts
      <4>6. page.lists = p.lists /\ page.dialog \in {None, ui[u].dialog}
        BY <4>4, <4>5 DEF PageRecords
      <4>7. q \in PageRecords /\ q.orgs = page.orgs /\ q.id = page.id /\ q.lists = page.lists /\ q.dialog = page.dialog
        BY <2>2, <4>5 DEF PageRecords
      <4>8. ui' = [ui EXCEPT ![u] = q] /\ marks' = marks \cup MovedUnder(ui[u], q)
        BY <2>1 DEF Become
      <4> HIDE DEF q
      <4>9. Active(q) = Active(page)
        BY <4>7, ActiveOf
      <4>10. PageSound(q) /\ ListsFollow(u, q)
        BY <4>4, <4>5, <4>6, <4>7, <4>9 DEF PageSound, Shows, ListsFollow
      <4>11. DialogFollows(u, q)
        <5>1. CASE q.dialog = None \/ Active(q) = Active(ui[u])
          BY <4>6, <4>7, <5>1 DEF DialogFollows
        <5>2. CASE q.dialog # None /\ Active(q) # Active(ui[u])
          <6>1. MovedUnder(ui[u], q) = {"moved"}
            BY <4>6, <4>7, <5>2 DEF MovedUnder, MarkIf
          <6> QED BY <4>6, <4>7, <4>8, <5>2, <6>1 DEF DialogFollows
        <5> QED BY <5>1, <5>2
      <4> QED BY <4>7, <4>8, <4>10, <4>11 DEF Turns
    <3> QED BY <3>1, <3>2
  <2>4. Stores(u)
    BY <1>1, <1>2, <2>1, StoresOne
  <2> HIDE DEF q
  <2> QED BY <1>1, <1>3, <2>1, <2>3, <2>4, BecomeMarks, Answering
<1> QED BY <1>5, <1>6

LEMMA AnswerStep ==
  ASSUME TypeInv, NEW k \in DOMAIN reqs, Answer(k)
  PROVE  ClientStep
  BY PlainAnswer, LostStep, SaveRefusedStep, RevokedStep, SavedStep, CreatedStep,
     CheckoutLeavesStep, AcceptedStep DEF Answer

----------------------------------------------------------------------------
(* The service.                                                            *)

LEMMA ClientTyped ==
  ASSUME TypeInv, ClientStep
  PROVE  TypeInv'
<1>1. UNCHANGED <<plan, server>> /\ marks' \subseteq marks \cup {"moved"}
  BY DEF ClientStep
<1>2. PICK u \in Users : \E page, new : Turns(u, page) /\ Posts(u, new) /\ Stores(u)
  BY DEF ClientStep
<1>3. PICK page, new : Turns(u, page) /\ Posts(u, new) /\ Stores(u)
  BY <1>2
<1>4. ServerTyped'
  BY <1>1 DEF server, TypeInv, ServerTyped, Existing
<1>5. ReqsTyped'
  BY <1>1, <1>3, SendsTyped DEF server, Posts
<1>6. MarksTyped'
  BY <1>1 DEF TypeInv, MarksTyped
<1>7. \A p : PageSound(p) => PageSound(p)'
  BY <1>1 DEF server, PageSound, Shows, Existing, Active, First
<1>8. ui' \in [Users -> PageRecords] /\ \A v \in Users : PageSound(ui'[v])
  BY <1>3, PageTyped DEF Turns, TypeInv, UiTyped
<1>9. \A v \in Users : PageSound(ui[v])'
  <2>1. ASSUME NEW v \in Users PROVE PageSound(ui[v])'
    <3>1. PICK p : p = ui'[v]
      OBVIOUS
    <3>2. PageSound(p)
      BY <1>8, <3>1
    <3>3. PageSound(p)'
      BY <1>7, <3>2
    <3> QED BY <3>1, <3>3 DEF PageSound, Shows, Active, First
  <2> QED BY <2>1
<1>10. stored' \in [Users -> Orgs \cup {None}] /\ \A v \in Users : stored'[v] \in made' \cup {None}
  <2>1. PICK x \in made \cup {None} : stored' = [stored EXCEPT ![u] = x]
    BY <1>3 DEF Stores
  <2> QED BY <1>1, <2>1, PageTyped DEF server
<1>11. UiTyped'
  BY <1>8, <1>9, <1>10 DEF UiTyped
<1> QED BY <1>4, <1>5, <1>6, <1>11 DEF TypeInv

\* Organizations and invitations are never deleted.
Grown == made \subseteq made' /\ Existing \subseteq Existing'

\* A handler moves requests on: they load, are refused, or have written and
\* answer about an organization.
Advances ==
  /\ reqs' \in Seq(Requests) /\ Len(reqs') = Len(reqs)
  /\ \A j \in DOMAIN reqs :
       \/ reqs'[j] = reqs[j]
       \/ \E step \in {"loaded", "no"} : reqs'[j] = [reqs[j] EXCEPT !.step = step]
       \/ \E o \in made' : /\ reqs'[j] = [reqs[j] EXCEPT !.step = "ok", !.org = o]
                           /\ o = reqs[j].org \/ reqs[j].kind \in {"create", "accept"}

LEMMA AdvancesDomain ==
  ASSUME TypeInv, Advances
  PROVE  DOMAIN reqs' = DOMAIN reqs
<1>1. reqs \in Seq(Requests) /\ reqs' \in Seq(Requests) /\ Len(reqs') = Len(reqs)
  BY DEF Advances, TypeInv, ReqsTyped
<1> QED BY <1>1

LEMMA AdvancesTyped ==
  ASSUME TypeInv, Advances, Grown, made' \subseteq Orgs
  PROVE  ReqsTyped'
<1>1. DOMAIN reqs' = DOMAIN reqs
  BY AdvancesDomain
<1>2. ASSUME NEW r \in Requests, Sound(r), NEW q,
             \/ q = r
             \/ \E step \in {"loaded", "no"} : q = [r EXCEPT !.step = step]
             \/ \E o \in made' : q = [r EXCEPT !.step = "ok", !.org = o]
      PROVE  Sound(q)'
  <2>1. /\ r.org \in made' \cup {None}
        /\ r.kind \notin {"create", "accept"} => r.org # None
        /\ r.step = "ok" => r.org # None
        /\ r.kind \in {"accept", "revoke"} => r.inv \in Existing'
        /\ r.kind \in {"role", "remove", "invite"} => r.user # None
        /\ r.kind \in {"role", "invite"} => r.role # None
        /\ r.kind = "invite" => r.role # "OWNER"
    BY <1>2 DEF Sound, Grown
  <2>2. CASE q = r
    BY <2>1, <2>2 DEF Sound
  <2>3. ASSUME NEW step \in {"loaded", "no"}, q = [r EXCEPT !.step = step] PROVE Sound(q)'
    <3>1. /\ q.org = r.org /\ q.kind = r.kind /\ q.step = step /\ q.inv = r.inv
          /\ q.user = r.user /\ q.role = r.role
      BY <2>3 DEF Requests
    <3> QED BY <2>1, <3>1 DEF Sound
  <2>4. ASSUME NEW o \in made', q = [r EXCEPT !.step = "ok", !.org = o] PROVE Sound(q)'
    <3>1. /\ q.org = o /\ q.kind = r.kind /\ q.inv = r.inv /\ q.user = r.user /\ q.role = r.role
      BY <2>4 DEF Requests
    <3>2. o # None
      BY NoneFacts
    <3> QED BY <2>1, <3>1, <3>2 DEF Sound
  <2> QED BY <1>2, <2>2, <2>3, <2>4
<1>3. ASSUME NEW j \in DOMAIN reqs' PROVE Sound(reqs[j])'
  <2>1. reqs[j] \in Requests /\ Sound(reqs[j])
    BY <1>1, RequestTyped
  <2>2. PICK q : q = reqs'[j]
    OBVIOUS
  <2>3. \/ q = reqs[j]
        \/ \E step \in {"loaded", "no"} : q = [reqs[j] EXCEPT !.step = step]
        \/ \E o \in made' : q = [reqs[j] EXCEPT !.step = "ok", !.org = o]
    BY <1>1, <2>2 DEF Advances
  <2>4. Sound(q)'
    BY <1>2, <2>1, <2>3
  <2> QED BY <2>2, <2>4 DEF Sound
<1> QED BY <1>3 DEF ReqsTyped, Advances

LEMMA UiStays ==
  ASSUME TypeInv, Grown, UNCHANGED client
  PROVE  UiTyped'
<1>1. ASSUME NEW u \in Users PROVE PageSound(ui[u])'
  <2>1. PageSound(ui[u]) /\ ui' = ui
    BY PageTyped DEF client
  <2> QED BY <2>1 DEF PageSound, Shows, Active, First, Grown
<1>2. \A u \in Users : stored'[u] \in made' \cup {None}
  BY PageTyped DEF client, Grown
<1> QED BY <1>1, <1>2 DEF client, TypeInv, UiTyped

LEMMA SteppedAdvances ==
  ASSUME TypeInv, NEW k \in DOMAIN reqs, NEW step \in {"loaded", "no", "ok"},
         reqs' = Stepped(k, step), step = "ok" => reqs[k].org \in made'
  PROVE  Advances
<1>1. reqs \in Seq(Requests) /\ reqs[k] \in Requests
  BY RequestTyped DEF TypeInv, ReqsTyped
<1>2. [reqs[k] EXCEPT !.step = step] \in Requests
  BY <1>1 DEF Requests
<1>3. reqs' = [reqs EXCEPT ![k] = [reqs[k] EXCEPT !.step = step]]
  BY DEF Stepped
<1>4. reqs' \in Seq(Requests) /\ Len(reqs') = Len(reqs)
  BY <1>1, <1>2, <1>3
<1>5. reqs'[k] = [reqs[k] EXCEPT !.step = step] /\ \A j \in DOMAIN reqs : j # k => reqs'[j] = reqs[j]
  BY <1>1, <1>3
<1>6. step = "ok" => [reqs[k] EXCEPT !.step = step] = [reqs[k] EXCEPT !.step = "ok", !.org = reqs[k].org]
  BY <1>1 DEF Requests
<1> QED BY <1>4, <1>5, <1>6 DEF Advances

LEMMA LoadTyped ==
  ASSUME TypeInv, NEW k \in DOMAIN reqs, Load(k)
  PROVE  TypeInv' /\ Advances /\ Grown
<1>1. UNCHANGED <<plan, server, client>>
  BY DEF Load
<1>2. Grown
  BY <1>1 DEF server, Grown, Existing
<1>3. Advances
  <2>1. reqs[k] \in Requests /\ Sound(reqs[k]) /\ made' = made
    BY <1>1, RequestTyped DEF server
  <2>2. NothingToWrite(reqs[k]) => reqs[k].org \in made'
    BY <2>1 DEF NothingToWrite, Sound
  <2> QED BY <2>2, SteppedAdvances DEF Load
<1>4. ServerTyped'
  BY <1>1 DEF server, TypeInv, ServerTyped, Existing
<1>5. MarksTyped'
  BY DEF Load, Overlaps, MarkIf, MarksTyped, TypeInv
<1>6. made' \subseteq Orgs
  BY <1>4 DEF ServerTyped
<1> QED BY <1>1, <1>2, <1>3, <1>4, <1>5, <1>6, AdvancesTyped, UiStays DEF TypeInv

\* A write is of the type once the server's part is.
LEMMA WriteTyped ==
  ASSUME TypeInv, Advances, Grown, ServerTyped', UNCHANGED <<client, marks>>
  PROVE  TypeInv'
<1>1. made' \subseteq Orgs
  BY DEF ServerTyped
<1> QED BY <1>1, AdvancesTyped, UiStays DEF TypeInv, MarksTyped

LEMMA WriteCreateTyped ==
  ASSUME TypeInv, NEW k \in DOMAIN reqs, WriteCreate(k)
  PROVE  TypeInv' /\ Advances /\ Grown
<1>1. PICK o \in Orgs \ made, refused \in SUBSET {j \in DOMAIN reqs \ {k} :
                                   reqs[j].kind = "create" /\ reqs[j].step = "loaded"} :
        /\ made' = made \cup {o} /\ role' = [role EXCEPT ![o][reqs[k].by] = "OWNER"]
        /\ reqs' = [j \in DOMAIN reqs |->
                     CASE j = k -> [reqs[j] EXCEPT !.step = "ok", !.org = o]
                       [] j \in refused -> [reqs[j] EXCEPT !.step = "no"]
                       [] OTHER -> reqs[j]]
  BY DEF WriteCreate
<1>2. UNCHANGED <<plan, ended, client, marks, invites, joined>>
  BY DEF WriteCreate, Ready
<1>3. Grown
  BY <1>1, <1>2 DEF Grown, Existing
<1>4. reqs \in Seq(Requests) /\ k \notin refused
  BY <1>1 DEF TypeInv, ReqsTyped
<1>5. ASSUME NEW j \in DOMAIN reqs
      PROVE  /\ reqs'[j] \in Requests
             /\ \/ reqs'[j] = reqs[j]
                \/ \E step \in {"loaded", "no"} : reqs'[j] = [reqs[j] EXCEPT !.step = step]
                \/ \E x \in made' : /\ reqs'[j] = [reqs[j] EXCEPT !.step = "ok", !.org = x]
                                    /\ x = reqs[j].org \/ reqs[j].kind \in {"create", "accept"}
  <2>1. reqs[j] \in Requests /\ o \in made' /\ o \in Orgs
    BY <1>1, RequestTyped
  <2>2. [reqs[j] EXCEPT !.step = "ok", !.org = o] \in Requests /\ [reqs[j] EXCEPT !.step = "no"] \in Requests
    BY <2>1, <1>1 DEF Requests
  <2>3. CASE j = k
    <3>1. reqs'[j] = [reqs[j] EXCEPT !.step = "ok", !.org = o] /\ reqs[j].kind = "create"
      BY <1>1, <2>3 DEF WriteCreate, Ready
    <3> QED BY <2>1, <2>2, <3>1
  <2>4. CASE j # k /\ j \in refused
    <3>1. reqs'[j] = [reqs[j] EXCEPT !.step = "no"]
      BY <1>1, <2>4
    <3> QED BY <2>1, <2>2, <3>1
  <2>5. CASE j # k /\ j \notin refused
    <3>1. reqs'[j] = reqs[j]
      BY <1>1, <2>5
    <3> QED BY <2>1, <3>1
  <2> QED BY <2>3, <2>4, <2>5
<1>6. Advances
  <2>1. DOMAIN reqs' = DOMAIN reqs
    BY <1>1
  <2>2. PICK n \in Nat : n = Len(reqs)
    BY <1>4
  <2>3. reqs' \in [1..n -> Requests]
    <3>1. DOMAIN reqs = 1..n
      BY <1>4, <2>2
    <3>2. reqs' = [j \in 1..n |-> reqs'[j]]
      BY <1>1, <3>1
    <3> QED BY <1>5, <3>1, <3>2
  <2>4. reqs' \in Seq(Requests) /\ Len(reqs') = Len(reqs)
    BY <2>2, <2>3
  <2> QED BY <1>5, <2>4 DEF Advances
<1>7. ServerTyped'
  <2>1. reqs[k].by \in Users
    BY RequestTyped
  <2>2. role' \in [Orgs -> [Users -> MaybeRole]]
    BY <1>1, <2>1, RoleNames DEF TypeInv, ServerTyped, MaybeRole
  <2>3. \A q \in Orgs \ made', u \in Users : role'[q][u] = None
    BY <1>1 DEF TypeInv, ServerTyped
  <2> QED BY <1>1, <1>2, <2>2, <2>3 DEF TypeInv, ServerTyped, Existing
<1> QED BY <1>2, <1>3, <1>6, <1>7, WriteTyped

\* The requests about members and invitations name an organization.
LEMMA ReadyFacts ==
  ASSUME TypeInv, NEW k \in DOMAIN reqs, NEW kind \in Kinds \ {"create"}, Ready(k, kind)
  PROVE  /\ reqs[k].by \in Users
         /\ kind # "accept" => reqs[k].org \in made /\ reqs[k].org \in Orgs
         /\ kind \in {"role", "remove", "invite"} => reqs[k].user \in Users
         /\ kind \in {"role", "invite"} => reqs[k].role \in Roles
         /\ kind \in {"accept", "revoke"} => reqs[k].inv \in Existing
         /\ reqs[k].step = "loaded" /\ reqs[k].kind = kind
         /\ UNCHANGED <<plan, ended, client, marks>>
<1>1. reqs[k] \in Requests /\ Sound(reqs[k])
  BY RequestTyped
<1>2. made \subseteq Orgs
  BY DEF TypeInv, ServerTyped
<1> QED BY <1>1, <1>2 DEF Ready, Requests, Sound, MaybeRole

LEMMA WriteSaveTyped ==
  ASSUME TypeInv, NEW k \in DOMAIN reqs, WriteSave(k)
  PROVE  TypeInv' /\ Advances /\ Grown
<1>1. "save" \in Kinds \ {"create"} /\ Ready(k, "save") /\ UNCHANGED <<made, role, invites, joined>>
  BY DEF Kinds, WriteSave
<1>2. Grown /\ ServerTyped'
  BY <1>1, ReadyFacts DEF Grown, Existing, TypeInv, ServerTyped
<1>3. Advances
  BY <1>1, ReadyFacts, SteppedAdvances DEF WriteSave
<1> QED BY <1>1, <1>2, <1>3, ReadyFacts, WriteTyped

\* The role of a user changes in an organization that exists.
LEMMA RoleTyped ==
  ASSUME TypeInv, NEW o \in made, NEW u \in Users, NEW r \in MaybeRole,
         role' = [role EXCEPT ![o][u] = r], UNCHANGED <<plan, made, ended, invites, joined>>
  PROVE  Grown /\ ServerTyped'
<1>1. role' \in [Orgs -> [Users -> MaybeRole]]
  BY DEF TypeInv, ServerTyped
<1>2. \A q \in Orgs \ made', v \in Users : role'[q][v] = None
  BY DEF TypeInv, ServerTyped
<1> QED BY <1>1, <1>2 DEF TypeInv, ServerTyped, Existing, Grown

LEMMA WriteRoleTyped ==
  ASSUME TypeInv, NEW k \in DOMAIN reqs, WriteRole(k)
  PROVE  TypeInv' /\ Advances /\ Grown
<1>1. /\ "role" \in Kinds \ {"create"} /\ Ready(k, "role") /\ UNCHANGED <<made, invites, joined>>
      /\ role' = [role EXCEPT ![reqs[k].org][reqs[k].user] = reqs[k].role]
  BY DEF Kinds, WriteRole
<1>2. /\ reqs[k].org \in made /\ reqs[k].user \in Users /\ reqs[k].role \in MaybeRole
      /\ UNCHANGED <<plan, ended, client, marks>>
  BY <1>1, ReadyFacts DEF MaybeRole
<1>3. Grown /\ ServerTyped'
  BY <1>1, <1>2, RoleTyped
<1>4. Advances
  BY <1>1, <1>2, SteppedAdvances DEF WriteRole
<1> QED BY <1>2, <1>3, <1>4, WriteTyped

LEMMA WriteRemoveTyped ==
  ASSUME TypeInv, NEW k \in DOMAIN reqs, WriteRemove(k)
  PROVE  TypeInv' /\ Advances /\ Grown
<1>1. /\ "remove" \in Kinds \ {"create"} /\ Ready(k, "remove") /\ UNCHANGED <<made, invites, joined>>
      /\ role' = [role EXCEPT ![reqs[k].org][reqs[k].user] = None]
  BY DEF Kinds, WriteRemove
<1>2. /\ reqs[k].org \in made /\ reqs[k].user \in Users
      /\ UNCHANGED <<plan, ended, client, marks>>
  BY <1>1, ReadyFacts
<1>3. Grown /\ ServerTyped'
  BY <1>1, <1>2, RoleTyped DEF MaybeRole
<1>4. reqs \in Seq(Requests)
  BY DEF TypeInv, ReqsTyped
<1> DEFINE Gone(j) == /\ j # k /\ reqs[j].kind = "role" /\ reqs[j].step = "loaded"
                      /\ reqs[j].org = reqs[k].org /\ reqs[j].user = reqs[k].user
<1>5. reqs' = [j \in DOMAIN reqs |->
               CASE j = k -> [reqs[j] EXCEPT !.step = "ok"]
                 [] Gone(j) -> [reqs[j] EXCEPT !.step = "no"]
                 [] OTHER -> reqs[j]]
  BY DEF WriteRemove
<1>a. ~Gone(k)
  OBVIOUS
<1> HIDE DEF Gone
<1>6. ASSUME NEW j \in DOMAIN reqs
      PROVE  /\ reqs'[j] \in Requests
             /\ \/ reqs'[j] = reqs[j]
                \/ \E step \in {"loaded", "no"} : reqs'[j] = [reqs[j] EXCEPT !.step = step]
                \/ \E x \in made' : /\ reqs'[j] = [reqs[j] EXCEPT !.step = "ok", !.org = x]
                                    /\ x = reqs[j].org \/ reqs[j].kind \in {"create", "accept"}
  <2>1. reqs[j] \in Requests
    BY <1>4
  <2>2. [reqs[j] EXCEPT !.step = "ok"] \in Requests /\ [reqs[j] EXCEPT !.step = "no"] \in Requests
        /\ [reqs[j] EXCEPT !.step = "ok"] = [reqs[j] EXCEPT !.step = "ok", !.org = reqs[j].org]
    BY <2>1 DEF Requests
  <2>3. CASE j = k
    <3>1. reqs'[j] = [reqs[j] EXCEPT !.step = "ok"] /\ reqs[j].org \in made'
      BY <1>1, <1>2, <1>5, <1>a, <2>3
    <3> QED BY <2>1, <2>2, <3>1
  <2>4. CASE j # k /\ Gone(j)
    <3>1. reqs'[j] = [reqs[j] EXCEPT !.step = "no"]
      BY <1>5, <2>4
    <3> QED BY <2>1, <2>2, <3>1
  <2>5. CASE j # k /\ ~Gone(j)
    <3>1. reqs'[j] = reqs[j]
      BY <1>5, <2>5
    <3> QED BY <2>1, <3>1
  <2> QED BY <2>3, <2>4, <2>5
<1>7. Advances
  <2>1. PICK n \in Nat : n = Len(reqs)
    BY <1>4
  <2>2. reqs' \in [1..n -> Requests]
    <3>1. DOMAIN reqs = 1..n
      BY <1>4, <2>1
    <3>2. reqs' = [j \in 1..n |-> reqs'[j]]
      BY <1>5, <3>1
    <3> QED BY <1>6, <3>1, <3>2
  <2>3. reqs' \in Seq(Requests) /\ Len(reqs') = Len(reqs)
    BY <2>1, <2>2
  <2> QED BY <1>6, <2>3 DEF Advances
<1> QED BY <1>2, <1>3, <1>7, WriteTyped

\* There is an identifier for the next invitation.
LEMMA FreshInv ==
  ASSUME TypeInv, Cardinality(Existing) < plan.invs
  PROVE  (CHOOSE i \in Invs \ Existing : TRUE) \in Invs \ Existing
<1>1. Invs \ Existing # {}
  <2>1. SUFFICES ASSUME Invs \ Existing = {} PROVE FALSE
    OBVIOUS
  <2>2. Existing = Invs
    BY <2>1 DEF Existing
  <2>3. plan.invs \in Nat /\ plan.invs <= Cardinality(Invs)
    BY PlanFacts DEF TypeInv, ServerTyped
  <2>4. Cardinality(Invs) \in Nat
    BY OrganizationsAssumption, FS_CardinalityType
  <2> QED BY <2>2, <2>3, <2>4
<1> QED BY <1>1

LEMMA WriteInviteTyped ==
  ASSUME TypeInv, NEW k \in DOMAIN reqs, WriteInvite(k)
  PROVE  TypeInv' /\ Advances /\ Grown
<1> DEFINE i == CHOOSE i \in Invs \ Existing : TRUE
           new == [org |-> reqs[k].org, user |-> reqs[k].user, role |-> reqs[k].role, status |-> "PENDING"]
<1>1. /\ "invite" \in Kinds \ {"create"} /\ Ready(k, "invite") /\ UNCHANGED <<made, role, joined>>
      /\ invites' = [invites EXCEPT ![i] = new] /\ Cardinality(Existing) < plan.invs
  BY DEF Kinds, WriteInvite
<1>2. /\ reqs[k].org \in made /\ reqs[k].org \in Orgs /\ reqs[k].user \in Users /\ reqs[k].role \in Roles
      /\ UNCHANGED <<plan, ended, client, marks>>
  BY <1>1, ReadyFacts
<1>3. reqs[k].role # "OWNER"
  BY <1>1, RequestTyped DEF Sound, Ready
<1>4. i \in Invs \ Existing
  BY <1>1, FreshInv
<1>5. new \in Invitations /\ new.org \in made
  BY <1>2, <1>3 DEF Invitations
<1> HIDE DEF i, new
<1>6. /\ invites' \in [Invs -> {None} \cup Invitations] /\ invites'[i] = new
      /\ \A j \in Invs : j # i => invites'[j] = invites[j]
  BY <1>1, <1>4, <1>5 DEF TypeInv, ServerTyped
<1>7. Existing' = Existing \cup {i}
  BY <1>4, <1>5, <1>6, NoneFacts DEF Existing
<1>8. Grown
  BY <1>1, <1>7 DEF Grown
<1>9. ServerTyped'
  BY <1>1, <1>2, <1>5, <1>6, <1>7 DEF TypeInv, ServerTyped, Existing
<1>10. Advances
  BY <1>1, <1>2, SteppedAdvances DEF WriteInvite
<1> QED BY <1>2, <1>8, <1>9, <1>10, WriteTyped

\* The status of an invitation changes.
LEMMA StatusTyped ==
  ASSUME TypeInv, NEW i \in Existing, NEW s \in {"PENDING", "ACCEPTED", "REVOKED"},
         invites' = [invites EXCEPT ![i].status = s]
  PROVE  /\ invites' \in [Invs -> {None} \cup Invitations] /\ Existing' = Existing
         /\ \A j \in Existing : invites'[j].org = invites[j].org /\ invites'[j].user = invites[j].user
         /\ invites'[i].status = s
         /\ \A j \in Invs : j # i => invites'[j] = invites[j]
<1>1. invites \in [Invs -> {None} \cup Invitations] /\ i \in Invs /\ invites[i] # None
  BY DEF TypeInv, ServerTyped, Existing
<1> DEFINE new == [invites[i] EXCEPT !.status = s]
<1>2. new \in Invitations /\ new.org = invites[i].org /\ new.user = invites[i].user /\ new.status = s
  BY <1>1 DEF Invitations
<1>3. invites' = [invites EXCEPT ![i] = new]
  BY <1>1
<1> HIDE DEF new
<1>4. invites' \in [Invs -> {None} \cup Invitations] /\ invites'[i] = new
      /\ \A j \in Invs : j # i => invites'[j] = invites[j]
  BY <1>1, <1>2, <1>3
<1>5. Existing' = Existing
  BY <1>1, <1>2, <1>4, NoneFacts DEF Existing
<1> QED BY <1>2, <1>4, <1>5 DEF Existing

LEMMA WriteRevokeTyped ==
  ASSUME TypeInv, NEW k \in DOMAIN reqs, WriteRevoke(k)
  PROVE  TypeInv' /\ Advances /\ Grown
<1>1. /\ "revoke" \in Kinds \ {"create"} /\ Ready(k, "revoke") /\ UNCHANGED <<made, role, joined>>
      /\ invites' = [invites EXCEPT ![reqs[k].inv].status = "REVOKED"]
  BY DEF Kinds, WriteRevoke
<1>2. reqs[k].org \in made /\ reqs[k].inv \in Existing /\ UNCHANGED <<plan, ended, client, marks>>
  BY <1>1, ReadyFacts
<1>3. /\ invites' \in [Invs -> {None} \cup Invitations] /\ Existing' = Existing
      /\ \A j \in Existing : invites'[j].org = invites[j].org
  BY <1>1, <1>2, StatusTyped
<1>4. Grown /\ ServerTyped'
  BY <1>1, <1>2, <1>3 DEF TypeInv, ServerTyped, Grown
<1>5. Advances
  BY <1>1, <1>2, SteppedAdvances DEF WriteRevoke
<1> QED BY <1>2, <1>4, <1>5, WriteTyped

LEMMA WriteAcceptTyped ==
  ASSUME TypeInv, NEW k \in DOMAIN reqs, WriteAccept(k)
  PROVE  TypeInv' /\ Advances /\ Grown
<1> DEFINE i == reqs[k].inv
           o == invites[i].org
           u == reqs[k].by
<1>1. /\ "accept" \in Kinds \ {"create"} /\ Ready(k, "accept") /\ made' = made
      /\ IF role[o][u] = None
         THEN /\ role' = [role EXCEPT ![o][u] = invites[i].role]
              /\ invites' = [invites EXCEPT ![i].status = "ACCEPTED"]
              /\ joined' = [joined EXCEPT ![i] = Append(@, u)]
              /\ reqs' = [reqs EXCEPT ![k].step = "ok", ![k].org = o]
         ELSE reqs' = Stepped(k, "no") /\ UNCHANGED <<role, invites, joined>>
  BY DEF Kinds, WriteAccept
<1>2. u \in Users /\ i \in Existing /\ UNCHANGED <<plan, ended, client, marks>>
  BY <1>1, ReadyFacts
<1>3. i \in Invs /\ invites[i] \in Invitations /\ o \in made /\ made \subseteq Orgs
  BY <1>2 DEF TypeInv, ServerTyped, Existing
<1> HIDE DEF i, o, u
<1>4. CASE role[o][u] = None
  <2>1. invites[i].role \in MaybeRole
    BY <1>3 DEF Invitations, MaybeRole
  <2>2. role' \in [Orgs -> [Users -> MaybeRole]]
    <3>1. role \in [Orgs -> [Users -> MaybeRole]] /\ role' = [role EXCEPT ![o][u] = invites[i].role]
      BY <1>1, <1>4 DEF TypeInv, ServerTyped
    <3> QED BY <1>2, <1>3, <2>1, <3>1
  <2>3. \A q \in Orgs \ made', v \in Users : role'[q][v] = None
    BY <1>1, <1>3, <1>4 DEF TypeInv, ServerTyped
  <2>4. /\ invites' \in [Invs -> {None} \cup Invitations] /\ Existing' = Existing
        /\ \A j \in Existing : invites'[j].org = invites[j].org
    BY <1>1, <1>2, <1>4, StatusTyped
  <2>5. joined' \in [Invs -> Seq(Users)]
    <3>1. joined \in [Invs -> Seq(Users)] /\ joined' = [joined EXCEPT ![i] = Append(@, u)]
      BY <1>1, <1>4 DEF TypeInv, ServerTyped
    <3>2. Append(joined[i], u) \in Seq(Users)
      BY <1>2, <1>3, <3>1
    <3> QED BY <3>1, <3>2
  <2>6. Grown /\ ServerTyped'
    BY <1>1, <1>2, <2>2, <2>3, <2>4, <2>5 DEF TypeInv, ServerTyped, Grown
  <2>7. Advances
    <3> DEFINE new == [reqs[k] EXCEPT !.step = "ok", !.org = o]
    <3>1. reqs \in Seq(Requests) /\ reqs[k] \in Requests
      BY RequestTyped DEF TypeInv, ReqsTyped
    <3>2. new \in Requests
      BY <1>3, <3>1 DEF Requests
    <3>3. reqs' = [reqs EXCEPT ![k] = new]
      BY <1>1, <1>4, <3>1
    <3> HIDE DEF new
    <3>4. reqs' \in Seq(Requests) /\ Len(reqs') = Len(reqs)
          /\ reqs'[k] = new /\ \A j \in DOMAIN reqs : j # k => reqs'[j] = reqs[j]
      BY <3>1, <3>2, <3>3
    <3>5. o \in made' /\ reqs[k].kind = "accept"
      BY <1>1, <1>3 DEF Ready
    <3> QED BY <3>4, <3>5 DEF Advances, new
  <2> QED BY <1>2, <2>6, <2>7, WriteTyped
<1>5. CASE role[o][u] # None
  <2>1. reqs' = Stepped(k, "no") /\ UNCHANGED <<role, invites, joined>>
    BY <1>1, <1>5
  <2>2. Grown /\ ServerTyped'
    BY <1>1, <1>2, <2>1 DEF TypeInv, ServerTyped, Existing, Grown
  <2>3. Advances
    BY <2>1, SteppedAdvances
  <2> QED BY <1>2, <2>2, <2>3, WriteTyped
<1> QED BY <1>4, <1>5

LEMMA WriteStep ==
  ASSUME TypeInv, NEW k \in DOMAIN reqs, Write(k)
  PROVE  TypeInv' /\ Advances /\ Grown
  BY WriteCreateTyped, WriteSaveTyped, WriteRoleTyped, WriteRemoveTyped, WriteInviteTyped,
     WriteRevokeTyped, WriteAcceptTyped DEF Write

LEMMA ExpireTyped ==
  ASSUME TypeInv, NEW i \in Invs, Expire(i)
  PROVE  TypeInv'
<1>1. ServerTyped'
  BY DEF Expire, TypeInv, ServerTyped, Existing
<1>2. Grown /\ UNCHANGED <<reqs, client, marks>>
  BY DEF Expire, Grown, Existing
<1>3. reqs' \in Seq(Requests) /\ reqs' = reqs
  BY <1>2 DEF TypeInv, ReqsTyped
<1>4. Advances
  BY <1>3 DEF Advances
<1> QED BY <1>1, <1>2, <1>4, WriteTyped

LEMMA TypeInit == Init => TypeInv
<1> SUFFICES ASSUME Init PROVE TypeInv
  OBVIOUS
<1>1. plan \in Plans /\ role = plan.start /\ made = {o \in Orgs : Members(o) # {}}
      /\ invites = [i \in Invs |-> None] /\ ended = {} /\ joined = [i \in Invs |-> <<>>]
      /\ reqs = <<>> /\ ui = [u \in Users |-> Closed] /\ stored = [u \in Users |-> None] /\ marks = {}
  BY DEF Init
<1>2. role \in [Orgs -> [Users -> MaybeRole]]
  BY <1>1, PlanFacts
<1>3. \A o \in Orgs \ made, u \in Users : role[o][u] = None
  BY <1>1 DEF Members
<1>4. invites \in [Invs -> {None} \cup Invitations] /\ Existing = {}
  BY <1>1 DEF Existing
<1>5. joined \in [Invs -> Seq(Users)]
  BY <1>1
<1>6. ServerTyped
  BY <1>1, <1>2, <1>3, <1>4, <1>5 DEF ServerTyped
<1>7. ReqsTyped
  BY <1>1 DEF ReqsTyped
<1>8. Closed \in PageRecords /\ PageSound(Closed)
  BY DEF Closed, Fresh, PageRecords, PageSound, Shows
<1>9. UiTyped
  BY <1>1, <1>8 DEF UiTyped
<1> QED BY <1>1, <1>6, <1>7, <1>9 DEF TypeInv, MarksTyped

\* A step of the system is one of the users and answers, or of the service.
LEMMA NextCases ==
  ASSUME TypeInv, [Next]_vars
  PROVE  \/ UNCHANGED vars
         \/ ClientStep
         \/ \E k \in DOMAIN reqs : Load(k) \/ Write(k)
         \/ \E i \in Invs : Expire(i)
  BY PageStep, AnswerStep DEF Next, Visitors

LEMMA TypeStep ==
  ASSUME TypeInv, [Next]_vars
  PROVE  TypeInv'
<1>1. CASE UNCHANGED vars
  BY <1>1 DEF vars, server, client, TypeInv, ServerTyped, ReqsTyped, UiTyped, MarksTyped, Existing,
              Sound, PageSound, Shows, Active, First
<1>2. CASE ClientStep
  BY <1>2, ClientTyped
<1>3. CASE \E k \in DOMAIN reqs : Load(k) \/ Write(k)
  BY <1>3, LoadTyped, WriteStep
<1>4. CASE \E i \in Invs : Expire(i)
  BY <1>4, ExpireTyped
<1> QED BY <1>1, <1>2, <1>3, <1>4, NextCases

\* Every variable has its type in every reachable state: an organization that is
\* shown, named by a request or by an invitation exists, and nobody is invited as
\* an OWNER (org_service, invitation_service, the members pages).
THEOREM OrganizationsTyped == Spec => []TypeOK
<1>1. TypeInv /\ [Next]_vars => TypeInv'
  BY TypeStep
<1>2. Spec => []TypeInv
  BY TypeInit, <1>1, PTL DEF Spec
<1> QED BY <1>2, TypeWhole, PTL

----------------------------------------------------------------------------
(* An organization keeps an OWNER.                                         *)

\* Nothing on the page is aimed at w: every list of o shows w as an OWNER, and
\* no dialog for o is about w.
Spares(page, o, w) ==
  /\ page.lists[o] # None => page.lists[o][w] = "OWNER"
  /\ page.dialog # None /\ page.dialog.kind \in {"role", "remove"} /\ Active(page) = o
       => page.dialog.user # w
\* Nor is a request.
Harmless(r, o, w) == r.kind \in {"role", "remove"} /\ r.org = o => r.user # w

\* One OWNER nobody can touch: no page has ever listed w otherwise.
Keeper(o, w) ==
  /\ role[o][w] = "OWNER"
  /\ \A u \in Users : Spares(ui[u], o, w)
  /\ \A j \in DOMAIN reqs : Harmless(reqs[j], o, w)
KeeperInv == "moved" \notin marks => \A o \in made : \E w \in Users : Keeper(o, w)
OwnerInv == TypeInv /\ KeeperInv

LEMMA KeeperNext ==
  ASSUME NEW o, NEW w, role'[o][w] = "OWNER",
         \A u \in Users : Spares(ui'[u], o, w),
         \A j \in DOMAIN reqs' : Harmless(reqs'[j], o, w)
  PROVE  Keeper(o, w)'
<1>1. ASSUME NEW u \in Users PROVE Spares(ui[u], o, w)'
  <2>1. Spares(ui'[u], o, w)
    OBVIOUS
  <2> QED BY <2>1 DEF Spares, Active, First
<1>2. ASSUME NEW j \in DOMAIN reqs' PROVE Harmless(reqs[j], o, w)'
  <2>1. Harmless(reqs'[j], o, w)
    BY <1>2
  <2> QED BY <2>1 DEF Harmless
<1> QED BY <1>1, <1>2 DEF Keeper

LEMMA ClientKeeps ==
  ASSUME TypeInv, ClientStep, "moved" \notin marks', NEW o \in made, NEW w \in Users, Keeper(o, w)
  PROVE  Keeper(o, w)'
<1>1. PICK u \in Users : \E page, new : Turns(u, page) /\ Posts(u, new) /\ Stores(u)
  BY DEF ClientStep
<1>2. PICK page, new : Turns(u, page) /\ Posts(u, new) /\ Stores(u)
  BY <1>1
<1>3. role' = role /\ o \in Orgs /\ role[o][w] = "OWNER"
  BY DEF ClientStep, server, Keeper, TypeInv, ServerTyped
<1>4. \A v \in Users : Spares(ui[v], o, w)
  BY DEF Keeper
<1>5. ASSUME NEW t, ShownBelow(u, o, t) PROVE t # w
  <2>1. ui[u].lists[o] # None => ui[u].lists[o][w] = "OWNER"
    BY <1>4 DEF Spares
  <2> QED BY <1>5, <2>1 DEF ShownBelow
<1>6. Spares(page, o, w)
  <2>1. page.lists[o] # None => page.lists[o][w] = "OWNER"
    <3>1. page.lists[o] \in {None, ui[u].lists[o], role[o]}
      BY <1>2, <1>3 DEF Turns, ListsFollow
    <3>2. ui[u].lists[o] # None => ui[u].lists[o][w] = "OWNER"
      BY <1>4 DEF Spares
    <3> QED BY <1>3, <3>1, <3>2
  <2>2. ASSUME page.dialog # None, page.dialog.kind \in {"role", "remove"}, Active(page) = o
        PROVE  page.dialog.user # w
    <3>1. CASE page.dialog = ui[u].dialog /\ Active(page) = Active(ui[u])
      BY <1>4, <2>2, <3>1 DEF Spares
    <3>2. CASE page.dialog.kind \in {"role", "remove"} => ShownBelow(u, Active(page), page.dialog.user)
      BY <1>5, <2>2, <3>2
    <3> QED BY <1>2, <2>2, <3>1, <3>2 DEF Turns, DialogFollows
  <2> QED BY <2>1, <2>2 DEF Spares
<1>7. \A v \in Users : Spares(ui'[v], o, w)
  <2>1. ui' = [ui EXCEPT ![u] = page] /\ ui \in [Users -> PageRecords]
    BY <1>2, PageTyped DEF Turns
  <2>2. \A v \in Users : ui'[v] = IF v = u THEN page ELSE ui[v]
    BY <2>1
  <2> QED BY <1>4, <1>6, <2>2
<1>8. ASSUME NEW j \in DOMAIN reqs' PROVE Harmless(reqs'[j], o, w)
  <2>1. PICK f : Heirs(f) /\ \A l \in DOMAIN reqs' : f[l] = 0 => reqs'[l] \in new
    BY <1>2 DEF Posts, Sends
  <2>2. CASE f[j] = 0
    <3>1. reqs'[j] \in new /\ Justified(u, reqs'[j])
      BY <1>2, <2>1, <2>2 DEF Posts
    <3>2. PICK r : r = reqs'[j]
      OBVIOUS
    <3>3. Justified(u, r)
      BY <3>1, <3>2
    <3>4. Spares(ui[u], o, w)
      BY <1>4
    <3>5. Harmless(r, o, w)
      <4>1. SUFFICES ASSUME r.kind \in {"role", "remove"}, r.org = o PROVE r.user # w
        BY DEF Harmless
      <4>2. CASE ShownBelow(u, r.org, r.user)
        BY <1>5, <4>1, <4>2
      <4>3. CASE ~ShownBelow(u, r.org, r.user)
        BY <3>3, <3>4, <4>1, <4>3 DEF Justified, Spares
      <4> QED BY <4>2, <4>3
    <3> QED BY <3>2, <3>5
  <2>3. CASE f[j] # 0
    <3>1. f[j] \in DOMAIN reqs
      BY <2>1, <2>3 DEF Heirs
    <3>2. PICK d \in BOOLEAN : reqs'[j] = [reqs[f[j]] EXCEPT !.deaf = d]
      BY <2>1, <2>3 DEF Heirs
    <3>3. PICK r : r = reqs[f[j]]
      OBVIOUS
    <3>4. r \in Requests /\ Harmless(r, o, w)
      BY <3>1, <3>3, RequestTyped DEF Keeper
    <3>5. Harmless([r EXCEPT !.deaf = d], o, w)
      BY <3>4 DEF Harmless, Requests
    <3> QED BY <3>2, <3>3, <3>5
  <2> QED BY <2>2, <2>3
<1> QED BY <1>3, <1>7, <1>8, KeeperNext

\* What a handler does to the requests leaves them harmless.
LEMMA ServiceKeeps ==
  ASSUME TypeInv, Advances, ui' = ui, NEW o \in made, NEW w \in Users, Keeper(o, w),
         role'[o][w] = "OWNER"
  PROVE  Keeper(o, w)'
<1>1. \A u \in Users : Spares(ui'[u], o, w)
  BY DEF Keeper
<1>2. ASSUME NEW j \in DOMAIN reqs' PROVE Harmless(reqs'[j], o, w)
  <2>1. j \in DOMAIN reqs
    BY AdvancesDomain
  <2>2. PICK r, q : r = reqs[j] /\ q = reqs'[j]
    OBVIOUS
  <2>3. r \in Requests /\ Harmless(r, o, w)
    BY <2>1, <2>2, RequestTyped DEF Keeper
  <2>4. \/ q = r
        \/ \E step \in {"loaded", "no"} : q = [r EXCEPT !.step = step]
        \/ \E x \in made' : /\ q = [r EXCEPT !.step = "ok", !.org = x]
                            /\ x = r.org \/ r.kind \in {"create", "accept"}
    BY <2>1, <2>2 DEF Advances
  <2>5. q.kind = r.kind /\ q.user = r.user /\ (q.org = r.org \/ r.kind \in {"create", "accept"})
    BY <2>3, <2>4 DEF Requests
  <2>6. Harmless(q, o, w)
    BY <2>3, <2>5 DEF Harmless
  <2> QED BY <2>2, <2>6
<1> QED BY <1>1, <1>2, KeeperNext

\* The creator of an organization is one: nobody has a page or a request about it yet.
LEMMA CreatorKeeps ==
  ASSUME TypeInv, NEW o \in Orgs \ made, NEW w \in Users, role'[o][w] = "OWNER", ui' = ui, Advances,
         NEW k \in DOMAIN reqs, reqs[k].kind = "create"
  PROVE  Keeper(o, w)'
<1>1. ASSUME NEW u \in Users PROVE Spares(ui'[u], o, w)
  <2>1. Shows(ui[u]) /\ Active(ui[u]) \in made \cup {None} /\ o # None
    BY PageTyped, NoneFacts
  <2>2. ui[u].lists[o] = None /\ Active(ui[u]) # o
    BY <2>1 DEF Shows
  <2> QED BY <2>2 DEF Spares
<1>2. ASSUME NEW j \in DOMAIN reqs' PROVE Harmless(reqs'[j], o, w)
  <2>1. j \in DOMAIN reqs
    BY AdvancesDomain
  <2>2. PICK r, q : r = reqs[j] /\ q = reqs'[j]
    OBVIOUS
  <2>3. r \in Requests /\ Sound(r)
    BY <2>1, <2>2, RequestTyped
  <2>4. \/ q = r
        \/ \E step \in {"loaded", "no"} : q = [r EXCEPT !.step = step]
        \/ \E x \in made' : /\ q = [r EXCEPT !.step = "ok", !.org = x]
                            /\ x = r.org \/ r.kind \in {"create", "accept"}
    BY <2>1, <2>2 DEF Advances
  <2>5. q.kind = r.kind /\ (q.org = r.org \/ r.kind \in {"create", "accept"})
    BY <2>3, <2>4 DEF Requests
  <2>6. r.kind \in {"role", "remove"} => r.org # o
    BY <2>3, NoneFacts DEF Sound
  <2> QED BY <2>2, <2>5, <2>6 DEF Harmless
<1> QED BY <1>1, <1>2, KeeperNext

LEMMA OwnerInit == Init => OwnerInv
<1> SUFFICES ASSUME Init PROVE KeeperInv
  BY TypeInit DEF OwnerInv
<1>1. plan \in Plans /\ role = plan.start /\ made = {o \in Orgs : Members(o) # {}}
      /\ reqs = <<>> /\ ui = [u \in Users |-> Closed]
  BY DEF Init
<1>2. ASSUME NEW o \in made PROVE \E w \in Users : Keeper(o, w)
  <2>1. o \in Orgs /\ Members(o) # {} /\ Owned(role[o])
    BY <1>1, <1>2, PlanFacts
  <2>2. PICK w \in Users : role[o][w] = "OWNER"
    BY <2>1 DEF Owned, Members
  <2>3. \A u \in Users : Spares(ui[u], o, w)
    BY <1>1, <2>1 DEF Closed, Fresh, Spares
  <2>4. DOMAIN reqs = {}
    BY <1>1
  <2> QED BY <2>2, <2>3, <2>4 DEF Keeper
<1> QED BY <1>2 DEF KeeperInv

LEMMA OwnerStep ==
  ASSUME OwnerInv, [Next]_vars
  PROVE  OwnerInv'
<1>0. TypeInv /\ TypeInv'
  BY TypeStep DEF OwnerInv
<1> SUFFICES ASSUME "moved" \notin marks', NEW o \in made' PROVE \E w \in Users : Keeper(o, w)'
  BY <1>0 DEF OwnerInv, KeeperInv
<1>1. CASE UNCHANGED vars
  <2>1. made' = made /\ ui' = ui /\ reqs' = reqs /\ role' = role /\ marks' = marks
    BY <1>1 DEF vars, server, client
  <2>2. PICK w \in Users : Keeper(o, w)
    BY <2>1 DEF OwnerInv, KeeperInv
  <2>3. Keeper(o, w)'
    BY <2>1, <2>2, KeeperNext DEF Keeper
  <2> QED BY <2>3
<1>2. CASE ClientStep
  <2>1. made' = made /\ "moved" \notin marks
    BY <1>2 DEF ClientStep, server
  <2>2. PICK w \in Users : Keeper(o, w)
    BY <2>1 DEF OwnerInv, KeeperInv
  <2> QED BY <1>0, <1>2, <2>1, <2>2, ClientKeeps
<1>3. ASSUME NEW k \in DOMAIN reqs, Load(k) PROVE \E w \in Users : Keeper(o, w)'
  <2>1. made' = made /\ ui' = ui /\ role' = role /\ marks \subseteq marks'
    BY <1>3 DEF Load, server, client
  <2>2. PICK w \in Users : Keeper(o, w)
    BY <2>1 DEF OwnerInv, KeeperInv
  <2>3. Advances /\ role'[o][w] = "OWNER"
    BY <1>0, <1>3, <2>1, <2>2, LoadTyped DEF Keeper
  <2> QED BY <1>0, <2>1, <2>2, <2>3, ServiceKeeps
<1>4. ASSUME NEW k \in DOMAIN reqs, Write(k) PROVE \E w \in Users : Keeper(o, w)'
  <2>1. Advances
    BY <1>0, <1>4, WriteStep
  <2>2. ui' = ui /\ marks' = marks
    BY <1>4 DEF Write, WriteCreate, WriteSave, WriteRole, WriteRemove, WriteInvite, WriteRevoke,
                WriteAccept, Ready, client
  <2>3. role \in [Orgs -> [Users -> MaybeRole]] /\ made \subseteq Orgs
    BY <1>0 DEF TypeInv, ServerTyped
  <2>4. reqs[k] \in Requests /\ Sound(reqs[k])
    BY <1>0, RequestTyped
  <2>5. CASE o \in made
    <3>1. PICK w \in Users : Keeper(o, w)
      BY <2>2, <2>5 DEF OwnerInv, KeeperInv
    <3>2. role[o][w] = "OWNER" /\ Harmless(reqs[k], o, w)
      BY <3>1 DEF Keeper
    <3>3. role'[o][w] = "OWNER"
      <4>1. CASE WriteCreate(k)
        <5>1. PICK x \in Orgs \ made : role' = [role EXCEPT ![x][reqs[k].by] = "OWNER"]
          BY <4>1 DEF WriteCreate
        <5> QED BY <2>3, <2>5, <3>2, <5>1
      <4>2. CASE WriteSave(k) \/ WriteInvite(k) \/ WriteRevoke(k)
        BY <3>2, <4>2 DEF WriteSave, WriteInvite, WriteRevoke
      <4>3. CASE WriteRole(k)
        <5>1. role' = [role EXCEPT ![reqs[k].org][reqs[k].user] = reqs[k].role]
              /\ ~(reqs[k].org = o /\ reqs[k].user = w)
          BY <3>2, <4>3 DEF WriteRole, Ready, Harmless
        <5> QED BY <2>3, <2>5, <3>2, <5>1
      <4>4. CASE WriteRemove(k)
        <5>1. role' = [role EXCEPT ![reqs[k].org][reqs[k].user] = None]
              /\ ~(reqs[k].org = o /\ reqs[k].user = w)
          BY <3>2, <4>4 DEF WriteRemove, Ready, Harmless
        <5> QED BY <2>3, <2>5, <3>2, <5>1
      <4>5. CASE WriteAccept(k)
        <5>1. CASE role' = role
          BY <3>2, <5>1
        <5>2. CASE role' # role
          <6> DEFINE x == invites[reqs[k].inv].org
                     v == reqs[k].by
          <6>1. role[x][v] = None /\ role' = [role EXCEPT ![x][v] = invites[reqs[k].inv].role]
            BY <4>5, <5>2 DEF WriteAccept
          <6> HIDE DEF x, v
          <6>2. ~(x = o /\ v = w)
            BY <3>2, <6>1, NoneFacts, RoleNames
          <6> QED BY <2>3, <2>5, <3>2, <6>1, <6>2
        <5> QED BY <5>1, <5>2
      <4> QED BY <1>4, <4>1, <4>2, <4>3, <4>4, <4>5 DEF Write
    <3> QED BY <1>0, <2>1, <2>2, <2>5, <3>1, <3>3, ServiceKeeps
  <2>6. CASE o \notin made
    <3>1. WriteCreate(k)
      BY <1>4, <2>6 DEF Write, WriteSave, WriteRole, WriteRemove, WriteInvite, WriteRevoke, WriteAccept
    <3>2. PICK x \in Orgs \ made : made' = made \cup {x} /\ role' = [role EXCEPT ![x][reqs[k].by] = "OWNER"]
      BY <3>1 DEF WriteCreate
    <3>3. x = o /\ reqs[k].by \in Users /\ reqs[k].kind = "create"
      BY <2>4, <2>6, <3>1, <3>2 DEF Requests, WriteCreate, Ready
    <3>4. role'[o][reqs[k].by] = "OWNER"
      BY <2>3, <3>2, <3>3
    <3> QED BY <1>0, <2>1, <2>2, <3>2, <3>3, <3>4, CreatorKeeps
  <2> QED BY <2>5, <2>6
<1>5. ASSUME NEW i \in Invs, Expire(i) PROVE \E w \in Users : Keeper(o, w)'
  <2>1. made' = made /\ ui' = ui /\ reqs' = reqs /\ role' = role /\ marks' = marks
    BY <1>5 DEF Expire, client
  <2>2. PICK w \in Users : Keeper(o, w)
    BY <2>1 DEF OwnerInv, KeeperInv
  <2>3. Keeper(o, w)'
    BY <2>1, <2>2, KeeperNext DEF Keeper
  <2> QED BY <2>3
<1> QED BY <1>0, <1>1, <1>2, <1>3, <1>4, <1>5, NextCases

\* However old the lists of the members pages are, and although the service
\* lets an ADMIN remove an OWNER, an organization never loses its last OWNER,
\* unless the active organization changes under an open dialog.
THEOREM OwnersAreKept == Spec => []KeepsOwner
<1>1. OwnerInv /\ [Next]_vars => OwnerInv'
  BY OwnerStep
<1>2. Spec => []OwnerInv
  BY OwnerInit, <1>1, PTL DEF Spec
<1>3. OwnerInv => KeepsOwner
  BY DEF OwnerInv, KeeperInv, Keeper, KeepsOwner
<1> QED BY <1>2, <1>3, PTL

----------------------------------------------------------------------------
(* What an invitation promises.                                            *)

\* A transaction of this kind has decided, and not written yet.
Decided(r, kind) == r.kind = kind /\ r.step = "loaded"
PendingInv(i) == i \in Existing /\ invites[i].status = "PENDING"

\* Only the user an invitation was sent to joins by it, and nobody before it is answered.
BaseInv ==
  /\ \A i \in Invs : i \notin Existing \/ invites[i].status = "PENDING" => joined[i] = <<>>
  /\ \A i \in Existing : Range(joined[i]) \subseteq {invites[i].user}
  /\ \A j \in DOMAIN reqs :
       Decided(reqs[j], "accept") => invites[reqs[j].inv].user = reqs[j].by

\* Without an overlap, whoever is about to revoke an invitation finds it unaccepted.
CrossInv ==
  "crossed" \notin marks =>
    /\ \A i \in Existing : invites[i].status = "ACCEPTED" <=> joined[i] # <<>>
    /\ \A j \in DOMAIN reqs :
         Decided(reqs[j], "revoke") => invites[reqs[j].inv].status # "ACCEPTED"
    /\ \A j, l \in DOMAIN reqs :
         Decided(reqs[j], "revoke") /\ Decided(reqs[l], "accept") => reqs[j].inv # reqs[l].inv

\* Without an overlap, whoever is about to accept an invitation is the first.
AgainInv ==
  "again" \notin marks =>
    /\ \A i \in Invs : Len(joined[i]) <= 1
    /\ \A j \in DOMAIN reqs : Decided(reqs[j], "accept") => joined[reqs[j].inv] = <<>>
    /\ \A j, l \in DOMAIN reqs :
         Decided(reqs[j], "accept") /\ Decided(reqs[l], "accept") /\ j # l => reqs[j].inv # reqs[l].inv

\* Without an overlap, whoever is about to invite an address finds no pending invitation of it.
Addressed(i, o, u) == PendingInv(i) /\ invites[i].org = o /\ invites[i].user = u
TwinInv ==
  "twins" \notin marks =>
    /\ \A i, j \in Invs : PendingInv(j) /\ Addressed(i, invites[j].org, invites[j].user) => i = j
    /\ \A j \in DOMAIN reqs, i \in Invs :
         Decided(reqs[j], "invite") => ~Addressed(i, reqs[j].org, reqs[j].user)
    /\ \A j, l \in DOMAIN reqs :
         Decided(reqs[j], "invite") /\ Decided(reqs[l], "invite") /\ j # l
           => ~(reqs[j].org = reqs[l].org /\ reqs[j].user = reqs[l].user)

InviteInv == TypeInv /\ BaseInv /\ CrossInv /\ AgainInv /\ TwinInv

\* What a decision is about.
SameDecision(q, r) ==
  q.kind = r.kind /\ r.step = "loaded" /\ q.inv = r.inv /\ q.by = r.by /\ q.org = r.org /\ q.user = r.user
\* Every transaction that has decided after the step had decided before it.
OldDecisions(f) ==
  /\ \A j \in DOMAIN reqs' : reqs'[j].step = "loaded" => f[j] \in DOMAIN reqs /\ SameDecision(reqs'[j], reqs[f[j]])
  /\ \A j, l \in DOMAIN reqs' : reqs'[j].step = "loaded" /\ reqs'[l].step = "loaded" /\ j # l => f[j] # f[l]

LEMMA OldDecided ==
  ASSUME NEW f, OldDecisions(f), NEW j \in DOMAIN reqs', NEW kind, Decided(reqs'[j], kind)
  PROVE  /\ f[j] \in DOMAIN reqs /\ Decided(reqs[f[j]], kind)
         /\ reqs'[j].inv = reqs[f[j]].inv /\ reqs'[j].by = reqs[f[j]].by
         /\ reqs'[j].org = reqs[f[j]].org /\ reqs'[j].user = reqs[f[j]].user
  BY DEF OldDecisions, Decided, SameDecision

LEMMA ClientDecisions ==
  ASSUME TypeInv, ClientStep
  PROVE  \E f : OldDecisions(f)
<1>1. PICK u \in Users : \E page, new : Turns(u, page) /\ Posts(u, new) /\ Stores(u)
  BY DEF ClientStep
<1>2. PICK new : Sends(new)
  BY <1>1 DEF Posts
<1>3. PICK f : Heirs(f)
  BY <1>2 DEF Sends
<1>4. ASSUME NEW j \in DOMAIN reqs', reqs'[j].step = "loaded"
      PROVE  f[j] \in DOMAIN reqs /\ f[j] # 0 /\ SameDecision(reqs'[j], reqs[f[j]])
  <2>1. f[j] # 0 /\ f[j] \in DOMAIN reqs
    BY <1>3, <1>4 DEF Heirs
  <2>2. PICK d \in BOOLEAN : reqs'[j] = [reqs[f[j]] EXCEPT !.deaf = d]
    BY <1>3, <2>1 DEF Heirs
  <2>3. PICK r, q : r = reqs[f[j]] /\ q = reqs'[j]
    OBVIOUS
  <2>4. r \in Requests /\ q = [r EXCEPT !.deaf = d] /\ q.step = "loaded"
    BY <1>4, <2>1, <2>2, <2>3, RequestTyped
  <2>5. SameDecision(q, r)
    BY <2>4 DEF SameDecision, Requests
  <2> QED BY <2>1, <2>3, <2>5
<1>5. OldDecisions(f)
  BY <1>3, <1>4 DEF OldDecisions, Heirs
<1> QED BY <1>5

\* Where invitations stay as they are, fewer decisions change nothing.
LEMMA StaysPromised ==
  ASSUME InviteInv, NEW f, OldDecisions(f), UNCHANGED <<invites, joined>>,
         marks \subseteq marks'
  PROVE  BaseInv' /\ CrossInv' /\ AgainInv' /\ TwinInv'
<1>1. Existing' = Existing /\ invites' = invites /\ joined' = joined
  BY DEF Existing
<1>2. BaseInv'
  <2>1. ASSUME NEW j \in DOMAIN reqs', Decided(reqs'[j], "accept")
        PROVE  invites[reqs'[j].inv].user = reqs'[j].by
    BY <2>1, OldDecided DEF InviteInv, BaseInv
  <2> QED BY <1>1, <2>1 DEF InviteInv, BaseInv, Decided
<1>3. CrossInv'
  <2>1. SUFFICES ASSUME "crossed" \notin marks
        PROVE  /\ \A i \in Existing' : invites'[i].status = "ACCEPTED" <=> joined'[i] # <<>>
               /\ \A j \in DOMAIN reqs' :
                    Decided(reqs'[j], "revoke") => invites'[reqs'[j].inv].status # "ACCEPTED"
               /\ \A j, l \in DOMAIN reqs' :
                    Decided(reqs'[j], "revoke") /\ Decided(reqs'[l], "accept") => reqs'[j].inv # reqs'[l].inv
    BY DEF CrossInv, Decided
  <2>2. ASSUME NEW j \in DOMAIN reqs', Decided(reqs'[j], "revoke")
        PROVE  invites[reqs'[j].inv].status # "ACCEPTED"
    BY <2>1, <2>2, OldDecided DEF InviteInv, CrossInv
  <2>3. ASSUME NEW j \in DOMAIN reqs', NEW l \in DOMAIN reqs',
               Decided(reqs'[j], "revoke"), Decided(reqs'[l], "accept")
        PROVE  reqs'[j].inv # reqs'[l].inv
    BY <2>1, <2>3, OldDecided DEF InviteInv, CrossInv
  <2> QED BY <1>1, <2>1, <2>2, <2>3 DEF InviteInv, CrossInv
<1>4. AgainInv'
  <2>1. SUFFICES ASSUME "again" \notin marks
        PROVE  /\ \A i \in Invs : Len(joined'[i]) <= 1
               /\ \A j \in DOMAIN reqs' : Decided(reqs'[j], "accept") => joined'[reqs'[j].inv] = <<>>
               /\ \A j, l \in DOMAIN reqs' :
                    Decided(reqs'[j], "accept") /\ Decided(reqs'[l], "accept") /\ j # l
                      => reqs'[j].inv # reqs'[l].inv
    BY DEF AgainInv, Decided
  <2>2. ASSUME NEW j \in DOMAIN reqs', Decided(reqs'[j], "accept")
        PROVE  joined[reqs'[j].inv] = <<>>
    BY <2>1, <2>2, OldDecided DEF InviteInv, AgainInv
  <2>3. ASSUME NEW j \in DOMAIN reqs', NEW l \in DOMAIN reqs', j # l,
               Decided(reqs'[j], "accept"), Decided(reqs'[l], "accept")
        PROVE  reqs'[j].inv # reqs'[l].inv
    <3>1. f[j] # f[l]
      BY <2>3 DEF OldDecisions, Decided
    <3> QED BY <2>1, <2>3, <3>1, OldDecided DEF InviteInv, AgainInv
  <2> QED BY <1>1, <2>1, <2>2, <2>3 DEF InviteInv, AgainInv
<1>5. TwinInv'
  <2>0. \A i : /\ PendingInv(i)' <=> PendingInv(i)
               /\ \A o, u : Addressed(i, o, u)' <=> Addressed(i, o, u)
    BY <1>1 DEF PendingInv, Addressed
  <2>1. SUFFICES ASSUME "twins" \notin marks
        PROVE  /\ \A i, j \in Invs : PendingInv(j) /\ Addressed(i, invites[j].org, invites[j].user) => i = j
               /\ \A j \in DOMAIN reqs', i \in Invs :
                    Decided(reqs'[j], "invite") => ~Addressed(i, reqs'[j].org, reqs'[j].user)
               /\ \A j, l \in DOMAIN reqs' :
                    Decided(reqs'[j], "invite") /\ Decided(reqs'[l], "invite") /\ j # l
                      => ~(reqs'[j].org = reqs'[l].org /\ reqs'[j].user = reqs'[l].user)
    BY <1>1 DEF TwinInv, Decided, PendingInv, Addressed
  <2>2. ASSUME NEW j \in DOMAIN reqs', NEW i \in Invs, Decided(reqs'[j], "invite")
        PROVE  ~Addressed(i, reqs'[j].org, reqs'[j].user)
    BY <2>1, <2>2, OldDecided DEF InviteInv, TwinInv
  <2>3. ASSUME NEW j \in DOMAIN reqs', NEW l \in DOMAIN reqs', j # l,
               Decided(reqs'[j], "invite"), Decided(reqs'[l], "invite")
        PROVE  ~(reqs'[j].org = reqs'[l].org /\ reqs'[j].user = reqs'[l].user)
    <3>1. f[j] # f[l]
      BY <2>3 DEF OldDecisions, Decided
    <3> QED BY <2>1, <2>3, <3>1, OldDecided DEF InviteInv, TwinInv
  <2> QED BY <2>1, <2>2, <2>3 DEF InviteInv, TwinInv
<1> QED BY <1>2, <1>3, <1>4, <1>5

\* A write leaves the decisions of the others.
Settles(k) ==
  \A j \in DOMAIN reqs' : reqs'[j].step = "loaded" => j \in DOMAIN reqs /\ j # k /\ reqs'[j] = reqs[j]

LEMMA SettledDecisions ==
  ASSUME NEW k, Settles(k)
  PROVE  \E f : OldDecisions(f)
<1> DEFINE f == [j \in DOMAIN reqs' |-> j]
<1>1. \A j \in DOMAIN reqs' : f[j] = j
  OBVIOUS
<1> HIDE DEF f
<1>2. OldDecisions(f)
  BY <1>1 DEF Settles, OldDecisions, SameDecision
<1> QED BY <1>2

LEMMA SteppedSettles ==
  ASSUME TypeInv, NEW k \in DOMAIN reqs, NEW step \in {"no", "ok"}, reqs' = Stepped(k, step)
  PROVE  Settles(k)
<1>1. reqs[k] \in Requests
  BY RequestTyped
<1>2. reqs \in Seq(Requests)
  BY DEF TypeInv, ReqsTyped
<1>3. [reqs[k] EXCEPT !.step = step].step = step
  BY <1>1 DEF Requests
<1>4. /\ DOMAIN reqs' = DOMAIN reqs /\ reqs'[k].step = step
      /\ \A j \in DOMAIN reqs : j # k => reqs'[j] = reqs[j]
  BY <1>2, <1>3 DEF Stepped
<1> QED BY <1>4 DEF Settles

LEMMA WriteSettles ==
  ASSUME TypeInv, NEW k \in DOMAIN reqs, Write(k)
  PROVE  Settles(k)
<1>1. CASE WriteSave(k) \/ WriteRole(k) \/ WriteInvite(k) \/ WriteRevoke(k)
  BY <1>1, SteppedSettles DEF WriteSave, WriteRole, WriteInvite, WriteRevoke
<1>2. CASE WriteCreate(k)
  <2>1. PICK o \in Orgs \ made, refused \in SUBSET {j \in DOMAIN reqs \ {k} :
                                   reqs[j].kind = "create" /\ reqs[j].step = "loaded"} :
          reqs' = [j \in DOMAIN reqs |->
                     CASE j = k -> [reqs[j] EXCEPT !.step = "ok", !.org = o]
                       [] j \in refused -> [reqs[j] EXCEPT !.step = "no"]
                       [] OTHER -> reqs[j]]
    BY <1>2 DEF WriteCreate
  <2>2. ASSUME NEW j \in DOMAIN reqs', reqs'[j].step = "loaded"
        PROVE  j \in DOMAIN reqs /\ j # k /\ reqs'[j] = reqs[j]
    <3>1. j \in DOMAIN reqs /\ k \notin refused
      BY <2>1
    <3>2. reqs[j] \in Requests
      BY <3>1, RequestTyped
    <3>3. [reqs[j] EXCEPT !.step = "ok", !.org = o].step = "ok" /\ [reqs[j] EXCEPT !.step = "no"].step = "no"
      BY <3>2 DEF Requests
    <3>4. j # k
      <4>1. j = k => reqs'[j] = [reqs[j] EXCEPT !.step = "ok", !.org = o]
        BY <2>1, <3>1
      <4> QED BY <2>2, <3>3, <4>1
    <3>5. j \notin refused
      <4>1. j # k /\ j \in refused => reqs'[j] = [reqs[j] EXCEPT !.step = "no"]
        BY <2>1, <3>1
      <4> QED BY <2>2, <3>3, <3>4, <4>1
    <3> QED BY <2>1, <3>1, <3>4, <3>5
  <2> QED BY <2>2 DEF Settles
<1>3. CASE WriteRemove(k)
  <2> DEFINE Gone(j) == /\ j # k /\ reqs[j].kind = "role" /\ reqs[j].step = "loaded"
                        /\ reqs[j].org = reqs[k].org /\ reqs[j].user = reqs[k].user
  <2>1. reqs' = [j \in DOMAIN reqs |->
               CASE j = k -> [reqs[j] EXCEPT !.step = "ok"]
                 [] Gone(j) -> [reqs[j] EXCEPT !.step = "no"]
                 [] OTHER -> reqs[j]]
    BY <1>3 DEF WriteRemove
  <2>a. ~Gone(k)
    OBVIOUS
  <2> HIDE DEF Gone
  <2>2. ASSUME NEW j \in DOMAIN reqs', reqs'[j].step = "loaded"
        PROVE  j \in DOMAIN reqs /\ j # k /\ reqs'[j] = reqs[j]
    <3>1. j \in DOMAIN reqs
      BY <2>1
    <3>2. reqs[j] \in Requests
      BY <3>1, RequestTyped
    <3>3. [reqs[j] EXCEPT !.step = "ok"].step = "ok" /\ [reqs[j] EXCEPT !.step = "no"].step = "no"
      BY <3>2 DEF Requests
    <3>4. j # k
      <4>1. j = k => reqs'[j] = [reqs[j] EXCEPT !.step = "ok"]
        BY <2>1, <2>a, <3>1
      <4> QED BY <2>2, <3>3, <4>1
    <3>5. ~Gone(j)
      <4>1. j # k /\ Gone(j) => reqs'[j] = [reqs[j] EXCEPT !.step = "no"]
        BY <2>1, <3>1
      <4> QED BY <2>2, <3>3, <3>4, <4>1
    <3> QED BY <2>1, <3>1, <3>4, <3>5
  <2> QED BY <2>2 DEF Settles
<1>4. CASE WriteAccept(k)
  <2>1. CASE reqs' = Stepped(k, "no")
    BY <2>1, SteppedSettles
  <2>2. CASE reqs' = [reqs EXCEPT ![k].step = "ok", ![k].org = invites[reqs[k].inv].org]
    <3> DEFINE new == [reqs[k] EXCEPT !.step = "ok", !.org = invites[reqs[k].inv].org]
    <3>1. reqs \in Seq(Requests) /\ reqs[k] \in Requests
      BY RequestTyped DEF TypeInv, ReqsTyped
    <3>2. new.step = "ok"
      BY <3>1 DEF Requests
    <3>3. reqs' = [reqs EXCEPT ![k] = new]
      BY <2>2, <3>1
    <3> HIDE DEF new
    <3> QED BY <3>1, <3>2, <3>3 DEF Settles
  <2> QED BY <1>4, <2>1, <2>2 DEF WriteAccept
<1> QED BY <1>1, <1>2, <1>3, <1>4 DEF Write

\* A handler decides on what it loads; another that has decided about the same
\* invitation or address is an overlap.
LEMMA LoadPromised ==
  ASSUME InviteInv, NEW k \in DOMAIN reqs, Load(k)
  PROVE  BaseInv' /\ CrossInv' /\ AgainInv' /\ TwinInv'
<1>1. TypeInv /\ UNCHANGED <<plan, server, client>> /\ marks \subseteq marks' /\ reqs[k].step = "sent"
  BY DEF InviteInv, Load
<1>2. CASE \E step \in {"no", "ok"} : reqs' = Stepped(k, step)
  <2>1. Settles(k)
    BY <1>1, <1>2, SteppedSettles
  <2> QED BY <1>1, <2>1, SettledDecisions, StaysPromised DEF server
<1>3. CASE /\ Allowed(reqs[k]) /\ reqs' = Stepped(k, "loaded")
           /\ marks' = marks \cup Overlaps(reqs[k])
  <2>1. reqs' = Stepped(k, "loaded") /\ marks' = marks \cup Overlaps(reqs[k])
    BY <1>3
  <2>2. PICK r : r = reqs[k]
    OBVIOUS
  <2>3. reqs \in Seq(Requests) /\ r \in Requests /\ Sound(r)
    BY <1>1, <2>2, RequestTyped DEF TypeInv, ReqsTyped
  <2>4. PICK q : q = [r EXCEPT !.step = "loaded"]
    OBVIOUS
  <2>5. q.kind = r.kind /\ q.inv = r.inv /\ q.by = r.by /\ q.org = r.org /\ q.user = r.user /\ q.step = "loaded"
    BY <2>3, <2>4 DEF Requests
  <2>6. /\ DOMAIN reqs' = DOMAIN reqs /\ reqs'[k] = q
        /\ \A j \in DOMAIN reqs : j # k => reqs'[j] = reqs[j]
    BY <2>1, <2>2, <2>3, <2>4 DEF Stepped
  <2>7. \A j \in DOMAIN reqs' : \A kind : Decided(reqs'[j], kind) =>
          \/ j = k /\ r.kind = kind
          \/ j # k /\ Decided(reqs[j], kind) /\ reqs[j] \in Loaded(kind)
    BY <2>5, <2>6 DEF Decided, Loaded, Range
  <2>8. Existing' = Existing /\ invites' = invites /\ joined' = joined
    BY <1>1 DEF server, Existing
  <2>9. r.kind \in {"accept", "revoke"} => r.inv \in Existing /\ r.inv \in Invs /\ invites[r.inv].status = "PENDING"
    BY <1>3, <2>2, <2>3 DEF Allowed, AcceptAllowed, RevokeAllowed, Sound, Existing
  <2>10. r.kind \in {"accept", "revoke"} => joined[r.inv] = <<>>
    BY <2>9 DEF InviteInv, BaseInv
  <2>11. r.kind = "accept" => invites[r.inv].user = r.by
    BY <1>3, <2>2 DEF Allowed, AcceptAllowed
  <2>12. r.kind = "invite" => \A i \in Invs : ~Addressed(i, r.org, r.user)
    BY <1>3, <2>2 DEF Allowed, InviteAllowed, PendingFor, Addressed, PendingInv
  <2>13. BaseInv'
    <3>1. ASSUME NEW j \in DOMAIN reqs', Decided(reqs'[j], "accept")
          PROVE  invites[reqs'[j].inv].user = reqs'[j].by
      <4>1. CASE j = k /\ r.kind = "accept"
        BY <2>5, <2>6, <2>11, <4>1
      <4>2. CASE j # k /\ Decided(reqs[j], "accept")
        BY <2>6, <4>2 DEF InviteInv, BaseInv
      <4> QED BY <2>7, <3>1, <4>1, <4>2
    <3> QED BY <2>8, <3>1 DEF InviteInv, BaseInv, Decided
  <2>14. CrossInv'
    <3>1. SUFFICES ASSUME "crossed" \notin marks'
          PROVE  /\ \A i \in Existing' : invites'[i].status = "ACCEPTED" <=> joined'[i] # <<>>
                 /\ \A j \in DOMAIN reqs' :
                      Decided(reqs'[j], "revoke") => invites'[reqs'[j].inv].status # "ACCEPTED"
                 /\ \A j, l \in DOMAIN reqs' :
                      Decided(reqs'[j], "revoke") /\ Decided(reqs'[l], "accept") => reqs'[j].inv # reqs'[l].inv
      BY DEF CrossInv, Decided
    <3>2. "crossed" \notin marks /\ "crossed" \notin Overlaps(r)
      BY <2>1, <2>2, <3>1
    <3>3. /\ r.kind = "accept" => \A x \in Loaded("revoke") : x.inv # r.inv
          /\ r.kind = "revoke" => \A x \in Loaded("accept") : x.inv # r.inv
      BY <3>2 DEF Overlaps, MarkIf
    <3>4. ASSUME NEW j \in DOMAIN reqs', Decided(reqs'[j], "revoke")
          PROVE  invites[reqs'[j].inv].status # "ACCEPTED"
      <4>1. CASE j = k /\ r.kind = "revoke"
        BY <2>5, <2>6, <2>9, <4>1
      <4>2. CASE j # k /\ Decided(reqs[j], "revoke")
        BY <2>6, <3>2, <4>2 DEF InviteInv, CrossInv
      <4> QED BY <2>7, <3>4, <4>1, <4>2
    <3>5. ASSUME NEW j \in DOMAIN reqs', NEW l \in DOMAIN reqs',
                 Decided(reqs'[j], "revoke"), Decided(reqs'[l], "accept")
          PROVE  reqs'[j].inv # reqs'[l].inv
      <4>1. CASE j = k /\ l = k
        BY <2>5, <2>6, <3>5, <4>1 DEF Decided
      <4>2. CASE j = k /\ l # k
        BY <2>5, <2>6, <2>7, <3>3, <3>5, <4>2
      <4>3. CASE j # k /\ l = k
        BY <2>5, <2>6, <2>7, <3>3, <3>5, <4>3
      <4>4. CASE j # k /\ l # k
        BY <2>6, <2>7, <3>2, <3>5, <4>4 DEF InviteInv, CrossInv
      <4> QED BY <4>1, <4>2, <4>3, <4>4
    <3> QED BY <2>8, <3>2, <3>4, <3>5 DEF InviteInv, CrossInv
  <2>15. AgainInv'
    <3>1. SUFFICES ASSUME "again" \notin marks'
          PROVE  /\ \A i \in Invs : Len(joined'[i]) <= 1
                 /\ \A j \in DOMAIN reqs' : Decided(reqs'[j], "accept") => joined'[reqs'[j].inv] = <<>>
                 /\ \A j, l \in DOMAIN reqs' :
                      Decided(reqs'[j], "accept") /\ Decided(reqs'[l], "accept") /\ j # l
                        => reqs'[j].inv # reqs'[l].inv
      BY DEF AgainInv, Decided
    <3>2. "again" \notin marks /\ "again" \notin Overlaps(r)
      BY <2>1, <2>2, <3>1
    <3>3. r.kind = "accept" => \A x \in Loaded("accept") : x.inv # r.inv
      BY <3>2 DEF Overlaps, MarkIf
    <3>4. ASSUME NEW j \in DOMAIN reqs', Decided(reqs'[j], "accept")
          PROVE  joined[reqs'[j].inv] = <<>>
      <4>1. CASE j = k /\ r.kind = "accept"
        BY <2>5, <2>6, <2>10, <4>1
      <4>2. CASE j # k /\ Decided(reqs[j], "accept")
        BY <2>6, <3>2, <4>2 DEF InviteInv, AgainInv
      <4> QED BY <2>7, <3>4, <4>1, <4>2
    <3>5. ASSUME NEW j \in DOMAIN reqs', NEW l \in DOMAIN reqs', j # l,
                 Decided(reqs'[j], "accept"), Decided(reqs'[l], "accept")
          PROVE  reqs'[j].inv # reqs'[l].inv
      <4>1. CASE j = k
        BY <2>5, <2>6, <2>7, <3>3, <3>5, <4>1
      <4>2. CASE l = k
        BY <2>5, <2>6, <2>7, <3>3, <3>5, <4>2
      <4>3. CASE j # k /\ l # k
        BY <2>6, <2>7, <3>2, <3>5, <4>3 DEF InviteInv, AgainInv
      <4> QED BY <4>1, <4>2, <4>3
    <3> QED BY <2>8, <3>2, <3>4, <3>5 DEF InviteInv, AgainInv
  <2>16. TwinInv'
    <3>0. \A i : /\ PendingInv(i)' <=> PendingInv(i)
                 /\ \A o, u : Addressed(i, o, u)' <=> Addressed(i, o, u)
      BY <2>8 DEF PendingInv, Addressed
    <3>1. SUFFICES ASSUME "twins" \notin marks'
          PROVE  /\ \A i, j \in Invs : PendingInv(j) /\ Addressed(i, invites[j].org, invites[j].user) => i = j
                 /\ \A j \in DOMAIN reqs', i \in Invs :
                      Decided(reqs'[j], "invite") => ~Addressed(i, reqs'[j].org, reqs'[j].user)
                 /\ \A j, l \in DOMAIN reqs' :
                      Decided(reqs'[j], "invite") /\ Decided(reqs'[l], "invite") /\ j # l
                        => ~(reqs'[j].org = reqs'[l].org /\ reqs'[j].user = reqs'[l].user)
      BY <2>8 DEF TwinInv, Decided, PendingInv, Addressed
    <3>2. "twins" \notin marks /\ "twins" \notin Overlaps(r)
      BY <2>1, <2>2, <3>1
    <3>3. r.kind = "invite" => \A x \in Loaded("invite") : ~(x.org = r.org /\ x.user = r.user)
      BY <3>2 DEF Overlaps, MarkIf
    <3>4. ASSUME NEW j \in DOMAIN reqs', NEW i \in Invs, Decided(reqs'[j], "invite")
          PROVE  ~Addressed(i, reqs'[j].org, reqs'[j].user)
      <4>1. CASE j = k /\ r.kind = "invite"
        BY <2>5, <2>6, <2>12, <4>1
      <4>2. CASE j # k /\ Decided(reqs[j], "invite")
        BY <2>6, <3>2, <4>2 DEF InviteInv, TwinInv
      <4> QED BY <2>7, <3>4, <4>1, <4>2
    <3>5. ASSUME NEW j \in DOMAIN reqs', NEW l \in DOMAIN reqs', j # l,
                 Decided(reqs'[j], "invite"), Decided(reqs'[l], "invite")
          PROVE  ~(reqs'[j].org = reqs'[l].org /\ reqs'[j].user = reqs'[l].user)
      <4>1. CASE j = k
        BY <2>5, <2>6, <2>7, <3>3, <3>5, <4>1
      <4>2. CASE l = k
        BY <2>5, <2>6, <2>7, <3>3, <3>5, <4>2
      <4>3. CASE j # k /\ l # k
        BY <2>6, <2>7, <3>2, <3>5, <4>3 DEF InviteInv, TwinInv
      <4> QED BY <4>1, <4>2, <4>3
    <3> QED BY <3>2, <3>4, <3>5 DEF InviteInv, TwinInv
  <2> QED BY <2>13, <2>14, <2>15, <2>16
<1>4. \/ \E step \in {"no", "ok"} : reqs' = Stepped(k, step)
      \/ /\ Allowed(reqs[k]) /\ reqs' = Stepped(k, "loaded")
         /\ marks' = marks \cup Overlaps(reqs[k])
  <2>1. CASE NothingToWrite(reqs[k])
    BY <2>1 DEF Load
  <2>2. CASE ~NothingToWrite(reqs[k])
    BY <2>2 DEF Load
  <2> QED BY <2>1, <2>2
<1> QED BY <1>2, <1>3, <1>4

LEMMA TwinNext ==
  ASSUME "twins" \notin marks' =>
           /\ \A i, j \in Invs : /\ PendingInv(i)' /\ PendingInv(j)'
                                 /\ invites'[i].org = invites'[j].org /\ invites'[i].user = invites'[j].user
                                 => i = j
           /\ \A j \in DOMAIN reqs', i \in Invs :
                Decided(reqs'[j], "invite")
                  => ~(PendingInv(i)' /\ invites'[i].org = reqs'[j].org /\ invites'[i].user = reqs'[j].user)
           /\ \A j, l \in DOMAIN reqs' :
                Decided(reqs'[j], "invite") /\ Decided(reqs'[l], "invite") /\ j # l
                  => ~(reqs'[j].org = reqs'[l].org /\ reqs'[j].user = reqs'[l].user)
  PROVE  TwinInv'
  BY DEF TwinInv, Decided, PendingInv, Addressed

\* Where fewer invitations are pending, addresses stay invited once.
LEMMA TwinShrinks ==
  ASSUME InviteInv, NEW k, Settles(k), marks' = marks,
         \A i \in Invs : PendingInv(i)' =>
            PendingInv(i) /\ invites'[i].org = invites[i].org /\ invites'[i].user = invites[i].user
  PROVE  TwinInv'
<1> SUFFICES ASSUME "twins" \notin marks
    PROVE  /\ \A i, j \in Invs : /\ PendingInv(i)' /\ PendingInv(j)'
                                 /\ invites'[i].org = invites'[j].org /\ invites'[i].user = invites'[j].user
                                 => i = j
           /\ \A j \in DOMAIN reqs', i \in Invs :
                Decided(reqs'[j], "invite")
                  => ~(PendingInv(i)' /\ invites'[i].org = reqs'[j].org /\ invites'[i].user = reqs'[j].user)
           /\ \A j, l \in DOMAIN reqs' :
                Decided(reqs'[j], "invite") /\ Decided(reqs'[l], "invite") /\ j # l
                  => ~(reqs'[j].org = reqs'[l].org /\ reqs'[j].user = reqs'[l].user)
  BY TwinNext
<1>0. \A j \in DOMAIN reqs' : \A kind : Decided(reqs'[j], kind)
        => j \in DOMAIN reqs /\ reqs'[j] = reqs[j] /\ Decided(reqs[j], kind)
  BY DEF Settles, Decided
<1>1. ASSUME NEW i \in Invs, NEW j \in Invs, PendingInv(i)', PendingInv(j)',
             invites'[i].org = invites'[j].org, invites'[i].user = invites'[j].user
      PROVE  i = j
  BY <1>1 DEF InviteInv, TwinInv, Addressed
<1>2. ASSUME NEW j \in DOMAIN reqs', NEW i \in Invs, Decided(reqs'[j], "invite")
      PROVE  ~(PendingInv(i)' /\ invites'[i].org = reqs'[j].org /\ invites'[i].user = reqs'[j].user)
  BY <1>0, <1>2 DEF InviteInv, TwinInv, Addressed
<1>3. ASSUME NEW j \in DOMAIN reqs', NEW l \in DOMAIN reqs', j # l,
             Decided(reqs'[j], "invite"), Decided(reqs'[l], "invite")
      PROVE  ~(reqs'[j].org = reqs'[l].org /\ reqs'[j].user = reqs'[l].user)
  BY <1>0, <1>3 DEF InviteInv, TwinInv
<1> QED BY <1>1, <1>2, <1>3

\* What a settled write leaves of the decisions.
LEMMA SettledDecided ==
  ASSUME NEW k, Settles(k), NEW j \in DOMAIN reqs', NEW kind, Decided(reqs'[j], kind)
  PROVE  j \in DOMAIN reqs /\ j # k /\ reqs'[j] = reqs[j] /\ Decided(reqs[j], kind)
  BY DEF Settles, Decided

LEMMA DecidedFacts ==
  ASSUME TypeInv, NEW j \in DOMAIN reqs, NEW kind \in {"accept", "revoke"}, Decided(reqs[j], kind)
  PROVE  reqs[j].inv \in Existing /\ reqs[j].inv \in Invs
  BY RequestTyped DEF Decided, Sound, Existing

LEMMA InvitePromised ==
  ASSUME InviteInv, NEW k \in DOMAIN reqs, WriteInvite(k)
  PROVE  BaseInv' /\ CrossInv' /\ AgainInv' /\ TwinInv'
<1> DEFINE i == CHOOSE i \in Invs \ Existing : TRUE
           new == [org |-> reqs[k].org, user |-> reqs[k].user, role |-> reqs[k].role, status |-> "PENDING"]
<1>0. TypeInv /\ Settles(k)
  BY WriteSettles DEF InviteInv, Write
<1>1. /\ Ready(k, "invite") /\ UNCHANGED <<made, role, joined, marks>>
      /\ invites' = [invites EXCEPT ![i] = new]
  BY DEF WriteInvite, Ready
<1>2. i \in Invs \ Existing
  BY <1>0, FreshInv DEF WriteInvite
<1>3. new.org = reqs[k].org /\ new.user = reqs[k].user /\ new.status = "PENDING"
  OBVIOUS
<1>4. reqs[k].org \in Orgs /\ reqs[k].user \in Users /\ reqs[k].role \in Roles /\ reqs[k].role # "OWNER"
  BY <1>0, <1>1, ReadyFacts, RequestTyped DEF Kinds, Sound, Ready
<1>5. new # None
  BY <1>4, NoneFacts DEF Invitations
<1> HIDE DEF i, new
<1>6. invites'[i] = new /\ \A j \in Invs : j # i => invites'[j] = invites[j]
  BY <1>0, <1>1, <1>2 DEF TypeInv, ServerTyped
<1>7. Existing' = Existing \cup {i}
  BY <1>2, <1>5, <1>6 DEF Existing
<1>8. joined' = joined /\ marks' = marks /\ joined[i] = <<>>
  BY <1>1, <1>2 DEF InviteInv, BaseInv
<1>9. Decided(reqs[k], "invite")
  BY <1>1 DEF Ready, Decided
<1>10. \A j \in Existing : j # i /\ j \in Invs /\ invites'[j] = invites[j]
  BY <1>2, <1>6 DEF Existing
<1>11. BaseInv'
  <2>1. \A j \in Invs : j \notin Existing' \/ invites'[j].status = "PENDING" => joined'[j] = <<>>
    BY <1>6, <1>7, <1>8 DEF InviteInv, BaseInv
  <2>2. \A j \in Existing' : Range(joined'[j]) \subseteq {invites'[j].user}
    <3>1. Range(joined[i]) = {}
      BY <1>8 DEF Range
    <3> QED BY <1>7, <1>8, <1>10, <3>1 DEF InviteInv, BaseInv
  <2>3. ASSUME NEW j \in DOMAIN reqs', Decided(reqs'[j], "accept")
        PROVE  invites'[reqs'[j].inv].user = reqs'[j].by
    <3>1. j \in DOMAIN reqs /\ reqs'[j] = reqs[j] /\ Decided(reqs[j], "accept")
      BY <1>0, <2>3, SettledDecided
    <3>2. reqs[j].inv \in Existing
      BY <1>0, <3>1, DecidedFacts
    <3> QED BY <1>10, <3>1, <3>2 DEF InviteInv, BaseInv
  <2> QED BY <2>1, <2>2, <2>3 DEF BaseInv, Decided
<1>12. CrossInv'
  <2>1. SUFFICES ASSUME "crossed" \notin marks
        PROVE  /\ \A j \in Existing' : invites'[j].status = "ACCEPTED" <=> joined'[j] # <<>>
               /\ \A j \in DOMAIN reqs' :
                    Decided(reqs'[j], "revoke") => invites'[reqs'[j].inv].status # "ACCEPTED"
               /\ \A j, l \in DOMAIN reqs' :
                    Decided(reqs'[j], "revoke") /\ Decided(reqs'[l], "accept") => reqs'[j].inv # reqs'[l].inv
    BY <1>8 DEF CrossInv, Decided
  <2>2. \A j \in Existing' : invites'[j].status = "ACCEPTED" <=> joined'[j] # <<>>
    BY <1>3, <1>6, <1>7, <1>8, <1>10, <2>1 DEF InviteInv, CrossInv
  <2>3. ASSUME NEW j \in DOMAIN reqs', Decided(reqs'[j], "revoke")
        PROVE  invites'[reqs'[j].inv].status # "ACCEPTED"
    <3>1. j \in DOMAIN reqs /\ reqs'[j] = reqs[j] /\ Decided(reqs[j], "revoke")
      BY <1>0, <2>3, SettledDecided
    <3>2. reqs[j].inv \in Existing
      BY <1>0, <3>1, DecidedFacts
    <3> QED BY <1>10, <2>1, <3>1, <3>2 DEF InviteInv, CrossInv
  <2>4. ASSUME NEW j \in DOMAIN reqs', NEW l \in DOMAIN reqs',
               Decided(reqs'[j], "revoke"), Decided(reqs'[l], "accept")
        PROVE  reqs'[j].inv # reqs'[l].inv
    BY <1>0, <2>1, <2>4, SettledDecided DEF InviteInv, CrossInv
  <2> QED BY <2>2, <2>3, <2>4
<1>13. AgainInv'
  <2>1. SUFFICES ASSUME "again" \notin marks
        PROVE  /\ \A j \in Invs : Len(joined'[j]) <= 1
               /\ \A j \in DOMAIN reqs' : Decided(reqs'[j], "accept") => joined'[reqs'[j].inv] = <<>>
               /\ \A j, l \in DOMAIN reqs' :
                    Decided(reqs'[j], "accept") /\ Decided(reqs'[l], "accept") /\ j # l
                      => reqs'[j].inv # reqs'[l].inv
    BY <1>8 DEF AgainInv, Decided
  <2>2. ASSUME NEW j \in DOMAIN reqs', Decided(reqs'[j], "accept")
        PROVE  joined'[reqs'[j].inv] = <<>>
    BY <1>0, <1>8, <2>1, <2>2, SettledDecided DEF InviteInv, AgainInv
  <2>3. ASSUME NEW j \in DOMAIN reqs', NEW l \in DOMAIN reqs', j # l,
               Decided(reqs'[j], "accept"), Decided(reqs'[l], "accept")
        PROVE  reqs'[j].inv # reqs'[l].inv
    BY <1>0, <2>1, <2>3, SettledDecided DEF InviteInv, AgainInv
  <2> QED BY <1>8, <2>1, <2>2, <2>3 DEF InviteInv, AgainInv
<1>14. TwinInv'
  <2>1. SUFFICES ASSUME "twins" \notin marks
        PROVE  /\ \A x, y \in Invs : /\ PendingInv(x)' /\ PendingInv(y)'
                                     /\ invites'[x].org = invites'[y].org /\ invites'[x].user = invites'[y].user
                                     => x = y
               /\ \A j \in DOMAIN reqs', x \in Invs :
                    Decided(reqs'[j], "invite")
                      => ~(PendingInv(x)' /\ invites'[x].org = reqs'[j].org /\ invites'[x].user = reqs'[j].user)
               /\ \A j, l \in DOMAIN reqs' :
                    Decided(reqs'[j], "invite") /\ Decided(reqs'[l], "invite") /\ j # l
                      => ~(reqs'[j].org = reqs'[l].org /\ reqs'[j].user = reqs'[l].user)
    BY <1>8, TwinNext
  <2>2. \A x \in Invs : x # i => (PendingInv(x)' <=> PendingInv(x)) /\ invites'[x] = invites[x]
    BY <1>6, <1>7 DEF PendingInv
  <2>3. /\ \A x \in Invs : ~Addressed(x, reqs[k].org, reqs[k].user)
        /\ \A x, y \in Invs : PendingInv(y) /\ Addressed(x, invites[y].org, invites[y].user) => x = y
    BY <1>9, <2>1 DEF InviteInv, TwinInv
  <2>4. ASSUME NEW x \in Invs, NEW y \in Invs, PendingInv(x)', PendingInv(y)',
               invites'[x].org = invites'[y].org, invites'[x].user = invites'[y].user
        PROVE  x = y
    <3>1. CASE x # i /\ y # i
      BY <2>2, <2>3, <2>4, <3>1 DEF Addressed
    <3>2. CASE x = i /\ y # i
      BY <1>3, <1>6, <2>2, <2>3, <2>4, <3>2 DEF Addressed
    <3>3. CASE x # i /\ y = i
      BY <1>3, <1>6, <2>2, <2>3, <2>4, <3>3 DEF Addressed
    <3> QED BY <3>1, <3>2, <3>3
  <2>5. ASSUME NEW j \in DOMAIN reqs', NEW x \in Invs, Decided(reqs'[j], "invite")
        PROVE  ~(PendingInv(x)' /\ invites'[x].org = reqs'[j].org /\ invites'[x].user = reqs'[j].user)
    <3>1. j \in DOMAIN reqs /\ j # k /\ reqs'[j] = reqs[j] /\ Decided(reqs[j], "invite")
      BY <1>0, <2>5, SettledDecided
    <3>2. CASE x = i
      <4>1. ~(reqs[k].org = reqs[j].org /\ reqs[k].user = reqs[j].user)
        BY <1>9, <2>1, <3>1 DEF InviteInv, TwinInv
      <4> QED BY <1>3, <1>6, <3>1, <3>2, <4>1
    <3>3. CASE x # i
      <4>1. ~Addressed(x, reqs[j].org, reqs[j].user)
        BY <2>1, <3>1 DEF InviteInv, TwinInv
      <4> QED BY <2>2, <3>1, <3>3, <4>1 DEF Addressed
    <3> QED BY <3>2, <3>3
  <2>6. ASSUME NEW j \in DOMAIN reqs', NEW l \in DOMAIN reqs', j # l,
               Decided(reqs'[j], "invite"), Decided(reqs'[l], "invite")
        PROVE  ~(reqs'[j].org = reqs'[l].org /\ reqs'[j].user = reqs'[l].user)
    BY <1>0, <2>1, <2>6, SettledDecided DEF InviteInv, TwinInv
  <2> QED BY <2>4, <2>5, <2>6
<1> QED BY <1>11, <1>12, <1>13, <1>14

LEMMA RevokePromised ==
  ASSUME InviteInv, NEW k \in DOMAIN reqs, WriteRevoke(k)
  PROVE  BaseInv' /\ CrossInv' /\ AgainInv' /\ TwinInv'
<1> DEFINE i == reqs[k].inv
<1>0. TypeInv /\ Settles(k)
  BY WriteSettles DEF InviteInv, Write
<1>1. joined' = joined /\ marks' = marks /\ invites' = [invites EXCEPT ![i].status = "REVOKED"]
  BY DEF WriteRevoke, Ready
<1>2. Decided(reqs[k], "revoke")
  BY DEF WriteRevoke, Ready, Decided
<1>3. i \in Existing /\ i \in Invs
  BY <1>0, <1>2, DecidedFacts
<1> HIDE DEF i
<1>4. /\ Existing' = Existing /\ invites'[i].status = "REVOKED"
      /\ \A j \in Existing : invites'[j].org = invites[j].org /\ invites'[j].user = invites[j].user
      /\ \A j \in Invs : j # i => invites'[j] = invites[j]
  BY <1>0, <1>1, <1>3, StatusTyped
<1>5. BaseInv'
  <2>1. \A j \in Invs : j \notin Existing' \/ invites'[j].status = "PENDING" => joined'[j] = <<>>
    BY <1>1, <1>3, <1>4 DEF InviteInv, BaseInv
  <2>2. \A j \in Existing' : Range(joined'[j]) \subseteq {invites'[j].user}
    BY <1>1, <1>4 DEF InviteInv, BaseInv
  <2>3. ASSUME NEW j \in DOMAIN reqs', Decided(reqs'[j], "accept")
        PROVE  invites'[reqs'[j].inv].user = reqs'[j].by
    <3>1. j \in DOMAIN reqs /\ reqs'[j] = reqs[j] /\ Decided(reqs[j], "accept")
      BY <1>0, <2>3, SettledDecided
    <3>2. reqs[j].inv \in Existing
      BY <1>0, <3>1, DecidedFacts
    <3> QED BY <1>4, <3>1, <3>2 DEF InviteInv, BaseInv
  <2> QED BY <2>1, <2>2, <2>3 DEF BaseInv, Decided
<1>6. CrossInv'
  <2>1. SUFFICES ASSUME "crossed" \notin marks
        PROVE  /\ \A j \in Existing' : invites'[j].status = "ACCEPTED" <=> joined'[j] # <<>>
               /\ \A j \in DOMAIN reqs' :
                    Decided(reqs'[j], "revoke") => invites'[reqs'[j].inv].status # "ACCEPTED"
               /\ \A j, l \in DOMAIN reqs' :
                    Decided(reqs'[j], "revoke") /\ Decided(reqs'[l], "accept") => reqs'[j].inv # reqs'[l].inv
    BY <1>1 DEF CrossInv, Decided
  <2>2. joined[i] = <<>>
    BY <1>2, <1>3, <2>1 DEF InviteInv, CrossInv, i
  <2>3. \A j \in Existing : j \in Invs
    BY DEF Existing
  <2>4. \A j \in Existing' : invites'[j].status = "ACCEPTED" <=> joined'[j] # <<>>
    BY <1>1, <1>4, <2>1, <2>2, <2>3 DEF InviteInv, CrossInv
  <2>5. ASSUME NEW j \in DOMAIN reqs', Decided(reqs'[j], "revoke")
        PROVE  invites'[reqs'[j].inv].status # "ACCEPTED"
    <3>1. j \in DOMAIN reqs /\ reqs'[j] = reqs[j] /\ Decided(reqs[j], "revoke")
      BY <1>0, <2>5, SettledDecided
    <3>2. reqs[j].inv \in Existing
      BY <1>0, <3>1, DecidedFacts
    <3> QED BY <1>4, <2>1, <2>3, <3>1, <3>2 DEF InviteInv, CrossInv
  <2>6. ASSUME NEW j \in DOMAIN reqs', NEW l \in DOMAIN reqs',
               Decided(reqs'[j], "revoke"), Decided(reqs'[l], "accept")
        PROVE  reqs'[j].inv # reqs'[l].inv
    BY <1>0, <2>1, <2>6, SettledDecided DEF InviteInv, CrossInv
  <2> QED BY <2>4, <2>5, <2>6
<1>7. AgainInv'
  <2>1. SUFFICES ASSUME "again" \notin marks
        PROVE  /\ \A j \in Invs : Len(joined'[j]) <= 1
               /\ \A j \in DOMAIN reqs' : Decided(reqs'[j], "accept") => joined'[reqs'[j].inv] = <<>>
               /\ \A j, l \in DOMAIN reqs' :
                    Decided(reqs'[j], "accept") /\ Decided(reqs'[l], "accept") /\ j # l
                      => reqs'[j].inv # reqs'[l].inv
    BY <1>1 DEF AgainInv, Decided
  <2>2. ASSUME NEW j \in DOMAIN reqs', Decided(reqs'[j], "accept")
        PROVE  joined'[reqs'[j].inv] = <<>>
    BY <1>0, <1>1, <2>1, <2>2, SettledDecided DEF InviteInv, AgainInv
  <2>3. ASSUME NEW j \in DOMAIN reqs', NEW l \in DOMAIN reqs', j # l,
               Decided(reqs'[j], "accept"), Decided(reqs'[l], "accept")
        PROVE  reqs'[j].inv # reqs'[l].inv
    BY <1>0, <2>1, <2>3, SettledDecided DEF InviteInv, AgainInv
  <2> QED BY <1>1, <2>1, <2>2, <2>3 DEF InviteInv, AgainInv
<1>8. TwinInv'
  <2>1. ASSUME NEW j \in Invs, PendingInv(j)'
        PROVE  PendingInv(j) /\ invites'[j].org = invites[j].org /\ invites'[j].user = invites[j].user
    BY <1>4, <2>1 DEF PendingInv
  <2> QED BY <1>0, <1>1, <2>1, TwinShrinks
<1> QED BY <1>5, <1>6, <1>7, <1>8

LEMMA AppendFacts ==
  ASSUME NEW S, NEW s \in Seq(S), NEW x \in S
  PROVE  Append(s, x) # <<>> /\ (s = <<>> => Len(Append(s, x)) = 1)
<1>1. Len(Append(s, x)) = Len(s) + 1 /\ Len(s) \in Nat
  BY AppendProperties
<1>2. Len(<<>>) = 0
  OBVIOUS
<1> QED BY <1>1, <1>2

LEMMA AcceptPromised ==
  ASSUME InviteInv, NEW k \in DOMAIN reqs, WriteAccept(k)
  PROVE  BaseInv' /\ CrossInv' /\ AgainInv' /\ TwinInv'
<1> DEFINE i == reqs[k].inv
           u == reqs[k].by
<1>0. TypeInv /\ Settles(k)
  BY WriteSettles DEF InviteInv, Write
<1>a. CASE UNCHANGED <<invites, joined>>
  <2>1. marks' = marks
    BY DEF WriteAccept, Ready
  <2> QED BY <1>0, <1>a, <2>1, SettledDecisions, StaysPromised
<1>b. CASE ~UNCHANGED <<invites, joined>>
  <2>1. marks' = marks /\ invites' = [invites EXCEPT ![i].status = "ACCEPTED"]
        /\ joined' = [joined EXCEPT ![i] = Append(@, u)]
    BY <1>b DEF WriteAccept, Ready
  <2>2. Decided(reqs[k], "accept")
    BY DEF WriteAccept, Ready, Decided
  <2>3. i \in Existing /\ i \in Invs /\ u \in Users /\ joined \in [Invs -> Seq(Users)]
    BY <1>0, <2>2, DecidedFacts, RequestTyped DEF TypeInv, ServerTyped
  <2>4. invites[i].user = u
    BY <2>2 DEF InviteInv, BaseInv
  <2>5. \A j \in DOMAIN reqs' : \A kind : Decided(reqs'[j], kind)
          => j \in DOMAIN reqs /\ j # k /\ reqs'[j] = reqs[j] /\ Decided(reqs[j], kind)
    BY <1>0, SettledDecided
  <2>6. /\ "crossed" \notin marks => \A j \in DOMAIN reqs : Decided(reqs[j], "revoke") => reqs[j].inv # i
        /\ "again" \notin marks => joined[i] = <<>>
        /\ "again" \notin marks => \A j \in DOMAIN reqs : Decided(reqs[j], "accept") /\ j # k => reqs[j].inv # i
    BY <2>2 DEF InviteInv, CrossInv, AgainInv
  <2> HIDE DEF i, u
  <2>7. /\ Existing' = Existing /\ invites'[i].status = "ACCEPTED"
        /\ \A j \in Existing : invites'[j].org = invites[j].org /\ invites'[j].user = invites[j].user
        /\ \A j \in Invs : j # i => invites'[j] = invites[j]
    BY <1>0, <2>1, <2>3, StatusTyped
  <2>8. joined'[i] = Append(joined[i], u) /\ \A j \in Invs : j # i => joined'[j] = joined[j]
    BY <2>1, <2>3
  <2>9. joined'[i] # <<>> /\ (joined[i] = <<>> => Len(joined'[i]) = 1)
    BY <2>3, <2>8, AppendFacts
  <2>10. Range(joined'[i]) \subseteq Range(joined[i]) \cup {u}
    BY <2>3, <2>8, AppendRange
  <2>11. \A j \in Existing : j \in Invs
    BY DEF Existing
  <2>12. BaseInv'
    <3>1. \A j \in Invs : j \notin Existing' \/ invites'[j].status = "PENDING" => joined'[j] = <<>>
      BY <2>3, <2>7, <2>8 DEF InviteInv, BaseInv
    <3>2. \A j \in Existing' : Range(joined'[j]) \subseteq {invites'[j].user}
      BY <2>3, <2>4, <2>7, <2>8, <2>10, <2>11 DEF InviteInv, BaseInv
    <3>3. ASSUME NEW j \in DOMAIN reqs', Decided(reqs'[j], "accept")
          PROVE  invites'[reqs'[j].inv].user = reqs'[j].by
      <4>1. j \in DOMAIN reqs /\ reqs'[j] = reqs[j] /\ Decided(reqs[j], "accept")
        BY <2>5, <3>3
      <4>2. reqs[j].inv \in Existing
        BY <1>0, <4>1, DecidedFacts
      <4> QED BY <2>7, <4>1, <4>2 DEF InviteInv, BaseInv
    <3> QED BY <3>1, <3>2, <3>3 DEF BaseInv, Decided
  <2>13. CrossInv'
    <3>1. SUFFICES ASSUME "crossed" \notin marks
          PROVE  /\ \A j \in Existing' : invites'[j].status = "ACCEPTED" <=> joined'[j] # <<>>
                 /\ \A j \in DOMAIN reqs' :
                      Decided(reqs'[j], "revoke") => invites'[reqs'[j].inv].status # "ACCEPTED"
                 /\ \A j, l \in DOMAIN reqs' :
                      Decided(reqs'[j], "revoke") /\ Decided(reqs'[l], "accept") => reqs'[j].inv # reqs'[l].inv
      BY <2>1 DEF CrossInv, Decided
    <3>2. \A j \in Existing' : invites'[j].status = "ACCEPTED" <=> joined'[j] # <<>>
      BY <2>7, <2>8, <2>9, <2>11, <3>1 DEF InviteInv, CrossInv
    <3>3. ASSUME NEW j \in DOMAIN reqs', Decided(reqs'[j], "revoke")
          PROVE  invites'[reqs'[j].inv].status # "ACCEPTED"
      <4>1. j \in DOMAIN reqs /\ reqs'[j] = reqs[j] /\ Decided(reqs[j], "revoke")
        BY <2>5, <3>3
      <4>2. reqs[j].inv \in Invs /\ reqs[j].inv # i
        BY <1>0, <2>6, <3>1, <4>1, DecidedFacts
      <4> QED BY <2>7, <3>1, <4>1, <4>2 DEF InviteInv, CrossInv
    <3>4. ASSUME NEW j \in DOMAIN reqs', NEW l \in DOMAIN reqs',
                 Decided(reqs'[j], "revoke"), Decided(reqs'[l], "accept")
          PROVE  reqs'[j].inv # reqs'[l].inv
      BY <2>5, <3>1, <3>4 DEF InviteInv, CrossInv
    <3> QED BY <3>2, <3>3, <3>4
  <2>14. AgainInv'
    <3>1. SUFFICES ASSUME "again" \notin marks
          PROVE  /\ \A j \in Invs : Len(joined'[j]) <= 1
                 /\ \A j \in DOMAIN reqs' : Decided(reqs'[j], "accept") => joined'[reqs'[j].inv] = <<>>
                 /\ \A j, l \in DOMAIN reqs' :
                      Decided(reqs'[j], "accept") /\ Decided(reqs'[l], "accept") /\ j # l
                        => reqs'[j].inv # reqs'[l].inv
      BY <2>1 DEF AgainInv, Decided
    <3>2. ASSUME NEW j \in Invs PROVE Len(joined'[j]) <= 1
      <4>1. CASE j = i
        <5>1. Len(joined'[i]) = 1
          BY <2>6, <2>9, <3>1
        <5> QED BY <4>1, <5>1
      <4>2. CASE j # i
        BY <2>8, <3>1, <4>2 DEF InviteInv, AgainInv
      <4> QED BY <4>1, <4>2
    <3>3. ASSUME NEW j \in DOMAIN reqs', Decided(reqs'[j], "accept")
          PROVE  joined'[reqs'[j].inv] = <<>>
      <4>1. j \in DOMAIN reqs /\ j # k /\ reqs'[j] = reqs[j] /\ Decided(reqs[j], "accept")
        BY <2>5, <3>3
      <4>2. reqs[j].inv \in Invs /\ reqs[j].inv # i
        BY <1>0, <2>6, <3>1, <4>1, DecidedFacts
      <4> QED BY <2>8, <3>1, <4>1, <4>2 DEF InviteInv, AgainInv
    <3>4. ASSUME NEW j \in DOMAIN reqs', NEW l \in DOMAIN reqs', j # l,
                 Decided(reqs'[j], "accept"), Decided(reqs'[l], "accept")
          PROVE  reqs'[j].inv # reqs'[l].inv
      BY <2>5, <3>1, <3>4 DEF InviteInv, AgainInv
    <3> QED BY <3>2, <3>3, <3>4
  <2>15. TwinInv'
    <3>1. ASSUME NEW j \in Invs, PendingInv(j)'
          PROVE  PendingInv(j) /\ invites'[j].org = invites[j].org /\ invites'[j].user = invites[j].user
      BY <2>7, <3>1 DEF PendingInv
    <3> QED BY <1>0, <2>1, <3>1, TwinShrinks
  <2> QED BY <2>12, <2>13, <2>14, <2>15
<1> QED BY <1>a, <1>b

LEMMA InviteInit == Init => InviteInv
<1> SUFFICES ASSUME Init PROVE InviteInv
  OBVIOUS
<1>1. invites = [i \in Invs |-> None] /\ joined = [i \in Invs |-> <<>>] /\ reqs = <<>> /\ TypeInv
  BY TypeInit DEF Init
<1>2. Existing = {} /\ DOMAIN reqs = {} /\ \A i \in Invs : joined[i] = <<>> /\ Len(joined[i]) <= 1
  BY <1>1 DEF Existing
<1> QED BY <1>1, <1>2 DEF InviteInv, BaseInv, CrossInv, AgainInv, TwinInv, PendingInv

LEMMA InviteStays ==
  ASSUME InviteInv, [Next]_vars
  PROVE  InviteInv'
<1>0. TypeInv /\ TypeInv'
  BY TypeStep DEF InviteInv
<1>1. ASSUME UNCHANGED <<reqs, invites, joined, marks>>
      PROVE  BaseInv' /\ CrossInv' /\ AgainInv' /\ TwinInv'
  <2> DEFINE f == [j \in DOMAIN reqs' |-> j]
  <2>1. \A j \in DOMAIN reqs' : f[j] = j
    OBVIOUS
  <2> HIDE DEF f
  <2>2. OldDecisions(f)
    BY <1>1, <2>1 DEF OldDecisions, SameDecision
  <2> QED BY <1>1, <2>2, StaysPromised
<1>2. CASE UNCHANGED vars
  BY <1>0, <1>1, <1>2 DEF vars, server, InviteInv
<1>3. CASE ClientStep
  <2>1. UNCHANGED <<invites, joined>> /\ marks \subseteq marks' /\ \E f : OldDecisions(f)
    BY <1>0, <1>3, ClientDecisions DEF ClientStep, server
  <2> QED BY <1>0, <2>1, StaysPromised DEF InviteInv
<1>4. ASSUME NEW k \in DOMAIN reqs, Load(k) PROVE InviteInv'
  BY <1>0, <1>4, LoadPromised DEF InviteInv
<1>5. ASSUME NEW k \in DOMAIN reqs, Write(k) PROVE InviteInv'
  <2>1. CASE WriteInvite(k) \/ WriteRevoke(k) \/ WriteAccept(k)
    BY <1>0, <2>1, InvitePromised, RevokePromised, AcceptPromised DEF InviteInv
  <2>2. CASE WriteCreate(k) \/ WriteSave(k) \/ WriteRole(k) \/ WriteRemove(k)
    <3>1. UNCHANGED <<invites, joined, marks>>
      BY <2>2 DEF WriteCreate, WriteSave, WriteRole, WriteRemove, Ready
    <3>2. \E f : OldDecisions(f)
      BY <1>0, <1>5, WriteSettles, SettledDecisions
    <3> QED BY <1>0, <3>1, <3>2, StaysPromised DEF InviteInv
  <2> QED BY <1>5, <2>1, <2>2 DEF Write
<1>6. ASSUME NEW i \in Invs, Expire(i) PROVE InviteInv'
  BY <1>0, <1>1, <1>6 DEF Expire, InviteInv
<1> QED BY <1>0, <1>2, <1>3, <1>4, <1>5, <1>6, NextCases

LEMMA PromisesKept == InviteInv => InvitationsHold
<1> SUFFICES ASSUME InviteInv PROVE InvitationsHold
  OBVIOUS
<1>1. ASSUME NEW i \in Existing
      PROVE  /\ "crossed" \notin marks => (invites[i].status = "ACCEPTED" <=> joined[i] # <<>>)
             /\ "again" \notin marks => Len(joined[i]) <= 1
             /\ Range(joined[i]) \subseteq {invites[i].user}
  BY <1>1 DEF InviteInv, BaseInv, CrossInv, AgainInv, Existing
<1>2. ASSUME "twins" \notin marks, NEW o \in Orgs, NEW u \in Users
      PROVE  Cardinality(PendingFor(o, u)) <= 1
  <2>1. \A i, j \in PendingFor(o, u) : i = j
    BY <1>2 DEF PendingFor, Existing, InviteInv, TwinInv, PendingInv, Addressed
  <2>2. CASE PendingFor(o, u) = {}
    BY <2>2, FS_EmptySet
  <2>3. CASE PendingFor(o, u) # {}
    <3>1. PICK i : PendingFor(o, u) = {i}
      BY <2>1, <2>3
    <3> QED BY <3>1, FS_Singleton
  <2> QED BY <2>2, <2>3
<1> QED BY <1>1, <1>2 DEF InvitationsHold

\* An invitation admits only the user it was sent to, once, and is ACCEPTED exactly
\* when it did; an address has one pending invitation: unless transactions that
\* decide about the same invitation or address overlap, for any number of them.
THEOREM InvitationsKept == Spec => []InvitationsHold
<1>1. InviteInv /\ [Next]_vars => InviteInv'
  BY InviteStays
<1>2. Spec => []InviteInv
  BY InviteInit, <1>1, PTL DEF Spec
<1> QED BY <1>2, PromisesKept, PTL
=====
