---------------------------- MODULE EditorProofs ----------------------------
(***************************************************************************)
(* Proofs about module Editor: the types; that "Saved" means stored; and   *)
(* that leaving drops nothing.                                             *)
(***************************************************************************)
EXTENDS Editor, SequenceTheorems, WellFoundedInduction, TLAPS

USE EditorAssumption

----------------------------------------------------------------------------
(* Lists of requests.                                                      *)

\* The place, before request i was taken away, of the request now at j, and back.
Old(i, j) == IF j < i THEN j ELSE j + 1
New(i, k) == IF k < i THEN k ELSE k - 1

LEMMA RemoveAtFacts ==
  ASSUME NEW S, NEW s \in Seq(S), NEW i \in DOMAIN s
  PROVE  /\ RemoveAt(s, i) \in Seq(S) /\ Len(RemoveAt(s, i)) = Len(s) - 1
         /\ \A j \in 1..(Len(s) - 1) : RemoveAt(s, i)[j] = s[Old(i, j)]
<1>1. i \in 1..Len(s) /\ Len(s) \in Nat
  OBVIOUS
<1>2. SubSeq(s, 1, i - 1) \in Seq(S) /\ Len(SubSeq(s, 1, i - 1)) = i - 1
      /\ \A j \in 1..(i - 1) : SubSeq(s, 1, i - 1)[j] = s[j]
  BY <1>1
<1>3. SubSeq(s, i + 1, Len(s)) \in Seq(S) /\ Len(SubSeq(s, i + 1, Len(s))) = Len(s) - i
      /\ \A j \in 1..(Len(s) - i) : SubSeq(s, i + 1, Len(s))[j] = s[i + j]
  BY <1>1
<1> DEFINE a == SubSeq(s, 1, i - 1)
           b == SubSeq(s, i + 1, Len(s))
<1>4. PICK n \in Nat : n = Len(s)
  BY <1>1
<1> HIDE DEF a, b
<1>5. a \in Seq(S) /\ Len(a) = i - 1 /\ \A j \in 1..(i - 1) : a[j] = s[j]
  BY <1>2 DEF a
<1>6. b \in Seq(S) /\ Len(b) = n - i /\ \A j \in 1..(n - i) : b[j] = s[i + j]
  BY <1>3, <1>4 DEF b
<1>7. RemoveAt(s, i) = a \o b
  BY DEF RemoveAt, a, b
<1>8. a \o b \in Seq(S) /\ Len(a \o b) = n - 1
  <2>1. a \o b \in Seq(S) /\ Len(a \o b) = Len(a) + Len(b)
    BY <1>5, <1>6, ConcatProperties
  <2>2. (i - 1) + (n - i) = n - 1
    BY <1>1, <1>4
  <2> QED BY <2>1, <2>2, <1>5, <1>6
<1>9. ASSUME NEW j \in 1..(n - 1) PROVE (a \o b)[j] = s[Old(i, j)]
  <2>1. CASE j < i
    <3>1. (a \o b)[j] = a[j]
      BY <1>1, <1>4, <1>5, <1>6, <2>1
    <3> QED BY <3>1, <1>1, <1>4, <1>5, <2>1 DEF Old
  <2>2. CASE ~(j < i)
    <3>1. (a \o b)[j] = b[j - (i - 1)]
      BY <1>1, <1>4, <1>5, <1>6, <2>2
    <3>2. j - (i - 1) \in 1..(n - i) /\ i + (j - (i - 1)) = j + 1
      BY <1>1, <1>4, <2>2
    <3>3. b[j - (i - 1)] = s[i + (j - (i - 1))]
      BY <3>2, <1>6
    <3> QED BY <3>1, <3>2, <3>3, <2>2 DEF Old
  <2> QED BY <2>1, <2>2
<1> QED BY <1>4, <1>7, <1>8, <1>9

\* Some requests are gone, the others keep their order; all but i are left.
Shrunk(h) ==
  /\ h \in [DOMAIN reqs' -> DOMAIN reqs]
  /\ \A j, k \in DOMAIN reqs' : (j < k => h[j] < h[k]) /\ (h[j] = h[k] => j = k)
  /\ \A j \in DOMAIN reqs' : reqs'[j] = reqs[h[j]]
Removed(i, h) ==
  /\ Shrunk(h) /\ \A j \in DOMAIN reqs' : h[j] # i
  /\ \A k \in DOMAIN reqs \ {i} : \E j \in DOMAIN reqs' : h[j] = k
\* x is new at n, the last place.
Posted(x, n) ==
  /\ n \notin DOMAIN reqs /\ DOMAIN reqs' = DOMAIN reqs \cup {n}
  /\ reqs'[n] = x /\ \A j \in DOMAIN reqs : reqs'[j] = reqs[j] /\ j < n
  /\ n \in Nat
\* Request i has become r.
Changed(i, r) ==
  /\ DOMAIN reqs' = DOMAIN reqs /\ reqs'[i] = r
  /\ \A j \in DOMAIN reqs \ {i} : reqs'[j] = reqs[j]

Listed == reqs \in Seq(Request)
LEMMA Places == ASSUME Listed PROVE DOMAIN reqs \subseteq Nat /\ \A i \in DOMAIN reqs : reqs[i] \in Request
  BY DEF Listed

LEMMA SameList ==
  ASSUME Listed, UNCHANGED reqs
  PROVE  Listed' /\ \E h : Shrunk(h) /\ \A j \in DOMAIN reqs : h[j] = j
<1> DEFINE h == [j \in DOMAIN reqs |-> j]
<1>1. Shrunk(h)
  BY DEF Shrunk
<1>2. \A j \in DOMAIN reqs : h[j] = j
  OBVIOUS
<1> QED BY <1>1, <1>2 DEF Listed

LEMMA NoList ==
  ASSUME reqs' = <<>>
  PROVE  Listed' /\ \E h : Shrunk(h)
<1> DEFINE h == [j \in {} |-> j]
<1>1. DOMAIN reqs' = {}
  OBVIOUS
<1>2. Shrunk(h)
  BY <1>1 DEF Shrunk
<1>3. Listed'
  BY DEF Listed
<1> QED BY <1>2, <1>3

LEMMA RemovedList ==
  ASSUME Listed, NEW i \in DOMAIN reqs, reqs' = RemoveAt(reqs, i)
  PROVE  Listed' /\ \E h : Removed(i, h)
<1> DEFINE n == Len(reqs)
           h == [j \in 1..(n - 1) |-> Old(i, j)]
<1>1. n \in Nat /\ i \in 1..n /\ DOMAIN reqs = 1..n
  BY DEF Listed
<1>2. reqs' \in Seq(Request) /\ Len(reqs') = n - 1 /\ \A j \in 1..(n - 1) : reqs'[j] = reqs[Old(i, j)]
  BY RemoveAtFacts DEF Listed
<1> HIDE DEF n
<1>3. DOMAIN reqs' = 1..(n - 1)
  BY <1>2
<1>4. \A j \in 1..(n - 1) : Old(i, j) \in 1..n /\ Old(i, j) # i
  BY <1>1 DEF Old
<1>5. \A j, k \in 1..(n - 1) : /\ j < k => Old(i, j) < Old(i, k)
                               /\ Old(i, j) = Old(i, k) => j = k
  BY <1>1 DEF Old
<1>6. ASSUME NEW k \in 1..n, k # i PROVE New(i, k) \in 1..(n - 1) /\ Old(i, New(i, k)) = k
  BY <1>1, <1>6 DEF Old, New
<1>7. h \in [1..(n - 1) -> 1..n] /\ \A j \in 1..(n - 1) : h[j] = Old(i, j)
  BY <1>4
<1> HIDE DEF h
<1>8. Shrunk(h)
  BY <1>1, <1>2, <1>3, <1>5, <1>7 DEF Shrunk
<1>9. Removed(i, h)
  BY <1>1, <1>3, <1>4, <1>6, <1>7, <1>8 DEF Removed
<1> QED BY <1>2, <1>9 DEF Listed

LEMMA PostedList ==
  ASSUME Listed, NEW x \in Request, reqs' = Append(reqs, x)
  PROVE  Listed' /\ \E n : Posted(x, n)
<1>1. Len(reqs) \in Nat /\ DOMAIN reqs = 1..Len(reqs)
  BY DEF Listed
<1>2. /\ DOMAIN reqs' = 1..(Len(reqs) + 1) /\ reqs'[Len(reqs) + 1] = x
      /\ \A j \in 1..Len(reqs) : reqs'[j] = reqs[j]
  BY <1>1 DEF Listed
<1>3. Posted(x, Len(reqs) + 1)
  BY <1>1, <1>2 DEF Posted
<1> QED BY <1>3 DEF Listed

LEMMA ChangedList ==
  ASSUME Listed, NEW i \in DOMAIN reqs, NEW r \in Request, reqs' = [reqs EXCEPT ![i] = r]
  PROVE  Listed' /\ Changed(i, r)
  BY DEF Listed, Changed

----------------------------------------------------------------------------
(* What a save sends.                                                      *)

LEMMA PayloadIn == \A t : Payload(t) \subseteq t
  BY DEF Payload

LEMMA PayloadGrows ==
  ASSUME NEW t, NEW u, t \subseteq u
  PROVE  Payload(t) \subseteq Payload(u)
  BY DEF Payload, Has, CardOf

LEMMA PayloadAgain == \A t : Payload(Payload(t)) = Payload(t)
<1> SUFFICES ASSUME NEW t, NEW e \in Payload(t) PROVE e \in Payload(Payload(t))
  BY PayloadIn
<1>1. e \in t /\ e.form # "settings"
  BY DEF Payload
<1>2. CASE e.form \in Cards
  <2>1. PICK f \in t : f.form = e.form /\ f.entry = e.entry /\ f.field \in NamingFields[e.form]
    BY <1>2 DEF Payload, Has, CardOf
  <2>2. f \in CardOf(t, f) /\ f.field \in NamingFields[f.form]
    BY <2>1 DEF CardOf
  <2>3. f \in Payload(t)
    BY <1>1, <2>1, <2>2 DEF Payload, Has
  <2>4. Has(Payload(t), e, NamingFields[e.form])
    BY <2>1, <2>3 DEF Has, CardOf
  <2> QED BY <1>1, <2>4 DEF Payload
<1>3. CASE e.form \notin Cards
  BY <1>1, <1>3 DEF Payload
<1> QED BY <1>2, <1>3

----------------------------------------------------------------------------
(* The types, and what the editor's page and the requests under way know.  *)

Write(r) == r.kind \in {"post", "put"}
Own(r) == Write(r) /\ Mine(r)
IsBlank == doc = None /\ text = {} /\ dirty = FALSE /\ saving = FALSE /\ timer = None /\ armed = FALSE
\* Every resume there ever was.
Used == UNION Range(created)

StoreInv ==
  /\ plan \in Plans /\ plan.budget \in Nat
  /\ server \in [Docs -> Copies] /\ cache \in [Docs -> Copies]
  /\ mount \in 0..plan.budget /\ fails \in 0..plan.budget
  /\ created \in [0..plan.budget -> SUBSET Docs]
  /\ \A d \in Docs : server[d] # None \/ cache[d] # None => d \in Used
  /\ \A d \in Docs : server[d] # None => Payload(server[d]) = server[d]
EditTyped ==
  /\ page \in {"list", "editor", "closed"} /\ errored \in BOOLEAN
  /\ route \in Used \cup {None} /\ doc \in Used \cup {None}
  /\ text \in SUBSET Edits /\ dirty \in BOOLEAN /\ saving \in BOOLEAN /\ armed \in BOOLEAN
  /\ timer \in [doc : Used \cup {None}, text : SUBSET Edits] \cup {None}
\* Without its resume the editor is blank; what is dirty armed the timer, which has
\* captured the text.
EditFits ==
  /\ page # "editor" => IsBlank /\ route = None
  /\ page = "editor" /\ route # None =>
       /\ cache[route] = None => IsBlank
       /\ cache[route] # None => doc # None
       /\ timer # None => timer.doc # None
  /\ dirty = TRUE => armed = TRUE
  /\ timer # None => timer.text = text
\* A request of one of the editors up to m about one of the resumes in U.
Sane(m, U, r) ==
  /\ r.by \in 0..m /\ r.doc \in U \cup {None}
  /\ Write(r) => Payload(r.body) = r.body
  /\ r.kind = "post" /\ r.step = "sent" => r.doc = None
  /\ r.kind # "post" \/ r.step = "done" => r.doc # None
  /\ r.kind \in {"post", "put", "master"} /\ r.step = "done" => r.reply # None
AllSane == \A i \in DOMAIN reqs : Sane(mount, Used, reqs[i])
\* The editor of a resume saves only once it has it, and creates none.
PutsOnly ==
  page = "editor" /\ route # None =>
    \A i \in DOMAIN reqs : Own(reqs[i]) => cache[route] # None /\ reqs[i].kind = "put"
Base == StoreInv /\ EditTyped /\ EditFits /\ Listed /\ AllSane /\ PutsOnly /\ marks \subseteq Marks

LEMMA NoneFacts == None \notin Docs /\ None \notin SUBSET Edits /\ Docs \subseteq Nat
  OBVIOUS

LEMMA UsedIs == created \in [0..plan.budget -> SUBSET Docs] =>
  /\ Used \subseteq Docs
  /\ \A d : d \in Used <=> \E m \in 0..plan.budget : d \in created[m]
  BY DEF Used, Range

LEMMA UsedSame == UNCHANGED created => Used' = Used
  BY DEF Used, Range

\* Mounts and failures are counted within the budget.
Counted(n, m) == m = n \/ (mount + fails < plan.budget /\ m = n + 1)
LEMMA StoreSame ==
  ASSUME StoreInv, UNCHANGED <<plan, server, cache, created>>,
         Counted(mount, mount'), Counted(fails, fails')
  PROVE  StoreInv' /\ Used' = Used /\ mount <= mount'
<1>1. Used' = Used
  BY UsedSame
<1>2. mount' \in 0..plan.budget /\ fails' \in 0..plan.budget /\ mount <= mount'
  BY DEF StoreInv, Counted
<1> QED BY <1>1, <1>2 DEF StoreInv

\* A copy arrives in the cache.
LEMMA StoreCached ==
  ASSUME StoreInv, UNCHANGED <<plan, server, created, mount, fails>>,
         NEW d \in Used, NEW c \in Copies, cache' = [cache EXCEPT ![d] = c]
  PROVE  StoreInv' /\ Used' = Used /\ mount <= mount'
<1>1. Used' = Used /\ mount <= mount'
  BY UsedSame DEF StoreInv
<1>2. cache' \in [Docs -> Copies]
  BY DEF StoreInv
<1>3. \A e \in Docs : cache'[e] = cache[e] \/ e = d
  BY DEF StoreInv
<1> QED BY <1>1, <1>2, <1>3 DEF StoreInv

LEMMA SaneStays ==
  ASSUME NEW r, NEW m, NEW n, NEW U, NEW V, Sane(m, U, r), m \in Nat, n \in Nat, m <= n, U \subseteq V
  PROVE  Sane(n, V, r)
  BY DEF Sane

LEMMA SaneShrunk ==
  ASSUME StoreInv, StoreInv', AllSane, mount <= mount', Used \subseteq Used', NEW h, Shrunk(h)
  PROVE  AllSane'
<1>1. mount \in Nat /\ mount' \in Nat
  BY DEF StoreInv
<1>2. \A i \in DOMAIN reqs : Sane(mount', Used', reqs[i])
  BY <1>1, SaneStays DEF AllSane
<1> QED BY <1>2 DEF Shrunk, AllSane

LEMMA SanePosted ==
  ASSUME StoreInv, StoreInv', AllSane, mount <= mount', Used \subseteq Used', NEW x, NEW n, Posted(x, n),
         Sane(mount', Used', x)
  PROVE  AllSane'
<1>1. mount \in Nat /\ mount' \in Nat
  BY DEF StoreInv
<1>2. \A i \in DOMAIN reqs : Sane(mount', Used', reqs[i])
  BY <1>1, SaneStays DEF AllSane
<1> QED BY <1>2 DEF Posted, AllSane

LEMMA SaneChanged ==
  ASSUME StoreInv, StoreInv', AllSane, mount <= mount', Used \subseteq Used', NEW i, NEW r, Changed(i, r),
         Sane(mount', Used', r)
  PROVE  AllSane'
<1>1. mount \in Nat /\ mount' \in Nat
  BY DEF StoreInv
<1>2. \A j \in DOMAIN reqs : Sane(mount', Used', reqs[j])
  BY <1>1, SaneStays DEF AllSane
<1> QED BY <1>2 DEF Changed, AllSane

\* The editor is where it was, and keeps its resume.
Stays == /\ UNCHANGED <<page, route, mount>>
         /\ page = "editor" /\ route # None /\ cache[route] # None => cache'[route] # None
LEMMA PutsShrunk ==
  ASSUME PutsOnly, Stays, NEW h, Shrunk(h)
  PROVE  PutsOnly'
  BY DEF PutsOnly, Stays, Shrunk, Own, Write, Mine

LEMMA PutsPosted ==
  ASSUME PutsOnly, Stays, NEW x, NEW n, Posted(x, n),
         page = "editor" /\ route # None /\ Write(x) => cache[route] # None /\ x.kind = "put"
  PROVE  PutsOnly'
  BY DEF PutsOnly, Stays, Posted, Own, Write, Mine

LEMMA PutsChanged ==
  ASSUME PutsOnly, Stays, NEW i \in DOMAIN reqs, NEW r, Changed(i, r),
         r.kind = reqs[i].kind, r.by = reqs[i].by
  PROVE  PutsOnly'
<1> SUFFICES ASSUME page = "editor", route # None, NEW j \in DOMAIN reqs',
                    Write(reqs'[j]), reqs'[j].by = mount
             PROVE  cache'[route] # None /\ reqs'[j].kind = "put"
  BY DEF PutsOnly, Stays, Own, Mine, Write
<1>1. j \in DOMAIN reqs /\ reqs'[j].kind = reqs[j].kind /\ reqs'[j].by = reqs[j].by
  BY DEF Changed
<1>2. Own(reqs[j])
  BY <1>1 DEF Own, Write, Mine, Stays
<1> QED BY <1>1, <1>2 DEF PutsOnly, Stays

\* Nobody of the editor that is opened has saved yet.
LEMMA PutsNone ==
  ASSUME AllSane, StoreInv, mount' = mount + 1, UNCHANGED reqs
  PROVE  PutsOnly'
<1>1. \A i \in DOMAIN reqs : reqs[i].by # mount'
  BY DEF AllSane, Sane, StoreInv
<1> QED BY <1>1 DEF PutsOnly, Own, Mine

----------------------------------------------------------------------------
(* Steps that leave the requests alone.                                    *)

\* The editor of resume d has its copy c.
LEMMA EditLoads ==
  ASSUME Base, NEW d \in Used, NEW c \in SUBSET Edits, LoadFrom(d, c), UNCHANGED created,
         page' = "editor", route' = d, errored' \in BOOLEAN, cache'[d] # None,
         timer = None, armed \in BOOLEAN, saving \in BOOLEAN
  PROVE  EditTyped' /\ EditFits'
<1>1. /\ doc' = d /\ text' = c /\ dirty' = FALSE /\ timer' = None
      /\ armed' \in BOOLEAN /\ saving' \in BOOLEAN /\ Used' = Used
  BY UsedSame DEF LoadFrom
<1>2. d # None
  BY UsedIs, NoneFacts DEF Base, StoreInv
<1>3. EditTyped'
  BY <1>1 DEF EditTyped
<1>4. EditFits'
  BY <1>1, <1>2 DEF EditFits
<1> QED BY <1>3, <1>4

LEMMA BaseOpen ==
  ASSUME Base, NEW d \in Docs, Open(d)
  PROVE  Base'
<1>1. /\ page = "list" /\ mount + fails < plan.budget /\ (server[d] # None \/ cache[d] # None)
      /\ page' = "editor" /\ route' = d /\ mount' = mount + 1
      /\ UNCHANGED <<plan, server, cache, reqs, errored, fails, created>>
  BY DEF Open
<1>2. d \in Used /\ IsBlank
  BY <1>1 DEF Base, StoreInv, EditFits
<1>3. StoreInv' /\ Used' = Used /\ mount <= mount'
  BY <1>1, StoreSame DEF Base, Counted
<1>4. Listed' /\ \E h : Shrunk(h)
  BY <1>1, SameList DEF Base
<1>5. AllSane' /\ PutsOnly'
  BY <1>1, <1>3, <1>4, SaneShrunk, PutsNone DEF Base
<1>6. CASE cache[d] = None
  <2>1. IsBlank' /\ UNCHANGED marks
    BY <1>6 DEF Open, Blank, IsBlank
  <2>2. EditTyped'
    BY <1>1, <1>2, <1>3, <2>1 DEF EditTyped, Base, IsBlank
  <2>3. EditFits'
    BY <1>1, <1>6, <2>1 DEF EditFits, IsBlank
  <2> QED BY <1>3, <1>4, <1>5, <2>1, <2>2, <2>3 DEF Base
<1>7. CASE cache[d] # None
  <2>1. LoadFrom(d, cache[d]) /\ marks' = marks \cup MarkIf(Outdated(d, cache[d]), "stale")
    BY <1>7 DEF Open
  <2>2. cache[d] \in SUBSET Edits
    <3>1. cache[d] \in Copies
      BY DEF Base, StoreInv
    <3> QED BY <3>1, <1>7 DEF Copies
  <2>3. EditTyped' /\ EditFits'
    <3>1. timer = None /\ armed \in BOOLEAN /\ saving \in BOOLEAN /\ errored' \in BOOLEAN
      BY <1>1, <1>2 DEF IsBlank, Base, EditTyped
    <3> QED BY <1>1, <1>2, <1>7, <2>1, <2>2, <3>1, EditLoads
  <2>4. marks' \subseteq Marks
    BY <2>1 DEF Base, MarkIf, Marks
  <2> QED BY <1>3, <1>4, <1>5, <2>3, <2>4 DEF Base
<1> QED BY <1>6, <1>7

LEMMA BaseOpenNew ==
  ASSUME Base, OpenNew
  PROVE  Base'
<1>1. /\ page = "list" /\ mount + fails < plan.budget /\ page' = "editor" /\ mount' = mount + 1
      /\ UNCHANGED <<plan, server, cache, reqs, route, errored, fails, created, marks>>
      /\ UNCHANGED <<doc, text, dirty, saving, timer, armed>>
  BY DEF OpenNew, edited
<1>2. IsBlank /\ route = None
  BY <1>1 DEF Base, EditFits
<1>3. StoreInv' /\ Used' = Used /\ mount <= mount'
  BY <1>1, StoreSame DEF Base, Counted
<1>4. Listed' /\ \E h : Shrunk(h)
  BY <1>1, SameList DEF Base
<1>5. AllSane' /\ PutsOnly'
  BY <1>1, <1>3, <1>4, SaneShrunk, PutsNone DEF Base
<1>6. EditTyped'
  BY <1>1, <1>3 DEF EditTyped, Base
<1>7. EditFits'
  BY <1>1, <1>2 DEF EditFits, IsBlank
<1> QED BY <1>1, <1>3, <1>4, <1>5, <1>6, <1>7 DEF Base

LEMMA BaseFetch ==
  ASSUME Base, Fetch
  PROVE  Base'
<1>1. /\ page = "editor" /\ route # None /\ server[route] # None
      /\ cache' = [cache EXCEPT ![route] = server[route]] /\ errored' = FALSE
      /\ UNCHANGED <<plan, server, reqs, page, route, mount, fails, created>>
  BY DEF Fetch
<1>2. route \in Used /\ route \in Docs /\ server[route] \in SUBSET Edits /\ server[route] \in Copies
  <2>1. route \in Used
    BY <1>1 DEF Base, EditTyped
  <2>2. route \in Docs
    BY <2>1, UsedIs DEF Base, StoreInv
  <2>3. server[route] \in Copies
    BY <2>2 DEF Base, StoreInv
  <2> QED BY <1>1, <2>1, <2>2, <2>3 DEF Copies
<1>3. StoreInv' /\ Used' = Used /\ mount <= mount'
  BY <1>1, <1>2, StoreCached DEF Base
<1>4. Listed' /\ \E h : Shrunk(h)
  BY <1>1, SameList DEF Base
<1>5. cache'[route] # None /\ Stays
  BY <1>1, <1>2 DEF Stays, Base, StoreInv
<1>6. AllSane' /\ PutsOnly'
  BY <1>3, <1>4, <1>5, SaneShrunk, PutsShrunk DEF Base
<1>7. CASE cache[route] = None
  <2>1. LoadFrom(route, server[route]) /\ marks' = marks \cup MarkIf(Outdated(route, server[route]), "stale")
    BY <1>7 DEF Fetch
  <2>2. timer = None /\ armed \in BOOLEAN /\ saving \in BOOLEAN /\ errored' \in BOOLEAN
    BY <1>1, <1>7 DEF Base, EditFits, IsBlank, EditTyped
  <2>3. EditTyped' /\ EditFits'
    BY <1>1, <1>2, <1>5, <2>1, <2>2, EditLoads
  <2>4. marks' \subseteq Marks
    BY <2>1 DEF Base, MarkIf, Marks
  <2> QED BY <1>3, <1>4, <1>6, <2>3, <2>4 DEF Base
<1>8. CASE cache[route] # None
  <2>1. UNCHANGED <<doc, text, dirty, saving, timer, armed>> /\ UNCHANGED marks
    BY <1>8 DEF Fetch, edited
  <2>2. EditTyped'
    BY <1>1, <1>3, <2>1 DEF EditTyped, Base
  <2>3. EditFits'
    BY <1>1, <1>5, <1>8, <2>1 DEF EditFits, Base
  <2> QED BY <1>3, <1>4, <1>6, <2>1, <2>2, <2>3 DEF Base
<1> QED BY <1>7, <1>8

LEMMA BaseFetchFails ==
  ASSUME Base, FetchFails
  PROVE  Base'
<1>1. /\ Counted(fails, fails') /\ errored' = TRUE
      /\ UNCHANGED <<plan, server, cache, reqs, page, route, mount, created, marks>>
      /\ UNCHANGED <<doc, text, dirty, saving, timer, armed>>
  BY DEF FetchFails, edited, Counted
<1>2. StoreInv' /\ Used' = Used /\ mount <= mount'
  BY <1>1, StoreSame DEF Base, Counted
<1>3. Listed' /\ \E h : Shrunk(h)
  BY <1>1, SameList DEF Base
<1>4. AllSane' /\ PutsOnly'
  BY <1>1, <1>2, <1>3, SaneShrunk, PutsShrunk DEF Base, Stays
<1>5. EditTyped'
  BY <1>1, <1>2 DEF EditTyped, Base
<1>6. EditFits'
  BY <1>1 DEF EditFits, Base, IsBlank
<1> QED BY <1>1, <1>2, <1>3, <1>4, <1>5, <1>6 DEF Base

LEMMA BaseType ==
  ASSUME Base, NEW e \in Edits, Type(e)
  PROVE  Base'
<1>1. /\ page = "editor" /\ (route # None => cache[route] # None)
      /\ text' = text \cup {e} /\ dirty' = TRUE /\ timer' = [doc |-> doc, text |-> text'] /\ armed' = TRUE
      /\ UNCHANGED <<plan, server, cache, reqs, page, route, errored, mount, doc, saving,
                     fails, created, marks>>
  BY DEF Type, Shown
<1>2. StoreInv' /\ Used' = Used /\ mount <= mount'
  BY <1>1, StoreSame DEF Base, Counted
<1>3. Listed' /\ \E h : Shrunk(h)
  BY <1>1, SameList DEF Base
<1>4. AllSane' /\ PutsOnly'
  BY <1>1, <1>2, <1>3, SaneShrunk, PutsShrunk DEF Base, Stays
<1>5. EditTyped'
  BY <1>1, <1>2 DEF EditTyped, Base
<1>6. EditFits'
  BY <1>1 DEF EditFits, Base
<1> QED BY <1>1, <1>2, <1>3, <1>4, <1>5, <1>6 DEF Base


----------------------------------------------------------------------------
(* Steps that send a request.                                              *)

LEMMA MarksGrow == \A M, c, m : M \subseteq Marks /\ m \in Marks => M \cup MarkIf(c, m) \subseteq Marks
  BY DEF MarkIf

LEMMA SentIs ==
  ASSUME Base, NEW kind \in {"post", "put", "master", "delete"}, NEW d \in Used \cup {None}, NEW b \in SUBSET Edits,
         kind = "post" <=> d = None, Payload(b) = b
  PROVE  Sent(kind, d, b) \in Request /\ Sane(mount, Used, Sent(kind, d, b))
<1>1. mount \in Nat /\ Used \subseteq Docs
  BY UsedIs DEF Base, StoreInv
<1>2. Sent(kind, d, b) \in Request
  BY <1>1, NoneFacts DEF Sent, Request, Copies
<1>3. Sane(mount, Used, Sent(kind, d, b))
  BY <1>1, NoneFacts DEF Sent, Sane, Write
<1> QED BY <1>2, <1>3

LEMMA SaveIs ==
  ASSUME Base, NEW d \in Used \cup {None}, NEW t \in SUBSET Edits, page = "editor"
  PROVE  LET x == Save(d, t) IN
         /\ x \in Request /\ Sane(mount, Used, x)
         /\ x.kind = (IF d = None THEN "post" ELSE "put") /\ Write(x)
         /\ x.doc = d /\ x.body = Payload(t) /\ x.step = "sent" /\ x.by = mount /\ x.reply = None
<1>1. Payload(t) \in SUBSET Edits /\ Payload(Payload(t)) = Payload(t)
  BY PayloadIn, PayloadAgain
<1>2. PICK k \in {"post", "put"} : k = IF d = None THEN "post" ELSE "put"
  OBVIOUS
<1>3. Save(d, t) = Sent(k, d, Payload(t))
  BY <1>2 DEF Save
<1>4. Save(d, t) \in Request /\ Sane(mount, Used, Save(d, t))
  BY <1>1, <1>2, <1>3, SentIs
<1>5. LET x == Save(d, t) IN
      x.kind = k /\ x.doc = d /\ x.body = Payload(t) /\ x.step = "sent" /\ x.by = mount /\ x.reply = None
  BY <1>3 DEF Sent
<1> QED BY <1>2, <1>4, <1>5 DEF Write

LEMMA Appended ==
  ASSUME Base, UNCHANGED <<plan, server, cache, created, mount, fails, page, route>>,
         NEW x \in Request, Sane(mount, Used, x), reqs' = Append(reqs, x),
         page = "editor" /\ route # None /\ Write(x) => cache[route] # None /\ x.kind = "put"
  PROVE  StoreInv' /\ Used' = Used /\ Listed' /\ AllSane' /\ PutsOnly' /\ \E n : Posted(x, n)
<1>1. StoreInv' /\ Used' = Used /\ mount <= mount' /\ mount' = mount
  BY StoreSame DEF Base, Counted
<1>2. Listed' /\ \E n : Posted(x, n)
  BY PostedList DEF Base
<1>3. AllSane'
  BY <1>1, <1>2, SanePosted DEF Base
<1>4. PutsOnly'
  BY <1>2, PutsPosted DEF Base, Stays
<1> QED BY <1>1, <1>2, <1>3, <1>4

\* The editor sends text t to resume d.
LEMMA BaseSaves ==
  ASSUME Base, page = "editor", NEW d \in Used \cup {None}, NEW t \in SUBSET Edits,
         route # None => cache[route] # None /\ d # None,
         reqs' = Append(reqs, Save(d, t)), saving' = TRUE, timer' = None,
         UNCHANGED <<plan, server, cache, page, route, errored, mount, doc, text, dirty, armed, fails, created, marks>>
  PROVE  Base'
<1>1. Save(d, t) \in Request /\ Sane(mount, Used, Save(d, t)) /\ (d # None => Save(d, t).kind = "put")
  BY SaveIs
<1>2. StoreInv' /\ Used' = Used /\ Listed' /\ AllSane' /\ PutsOnly'
  BY <1>1, Appended
<1>3. EditTyped'
  BY <1>2 DEF EditTyped, Base
<1>4. EditFits'
  BY DEF EditFits, Base
<1>5. marks' \subseteq Marks
  BY DEF Base
<1> QED BY <1>2, <1>3, <1>4, <1>5 DEF Base

LEMMA BaseTimerFires ==
  ASSUME Base, TimerFires
  PROVE  Base'
<1>1. /\ page = "editor" /\ timer # None /\ reqs' = Append(reqs, Save(timer.doc, timer.text))
      /\ saving' = TRUE /\ timer' = None
      /\ UNCHANGED <<plan, server, cache, page, route, errored, mount, doc, text, dirty, armed, fails, created, marks>>
  BY DEF TimerFires
<1>2. timer.doc \in Used \cup {None} /\ timer.text \in SUBSET Edits
  BY <1>1 DEF Base, EditTyped
<1>3. route # None => cache[route] # None /\ timer.doc # None
  BY <1>1 DEF Base, EditFits, IsBlank
<1> QED BY <1>1, <1>2, <1>3, BaseSaves

LEMMA BaseSaveNow ==
  ASSUME Base, SaveNow
  PROVE  Base'
<1>1. /\ page = "editor" /\ (route # None => cache[route] # None) /\ reqs' = Append(reqs, Save(doc, text))
      /\ saving' = TRUE /\ timer' = None
      /\ UNCHANGED <<plan, server, cache, page, route, errored, mount, doc, text, dirty, armed, fails, created, marks>>
  BY DEF SaveNow, Shown
<1>2. doc \in Used \cup {None} /\ text \in SUBSET Edits
  BY DEF Base, EditTyped
<1>3. route # None => doc # None
  BY <1>1 DEF Base, EditFits
<1> QED BY <1>1, <1>2, <1>3, BaseSaves

LEMMA BaseAsks ==
  ASSUME Base, NEW kind \in {"master", "delete"}, NEW d \in Used, reqs' = Append(reqs, Sent(kind, d, {})),
         UNCHANGED <<plan, server, cache, page, route, errored, mount, edited, fails, created, marks>>
  PROVE  Base'
<1>1. d # None /\ Payload({}) = {}
  BY UsedIs, NoneFacts, PayloadIn DEF Base, StoreInv
<1>2. Sent(kind, d, {}) \in Request /\ Sane(mount, Used, Sent(kind, d, {})) /\ ~Write(Sent(kind, d, {}))
  <2>1. Sent(kind, d, {}).kind = kind
    BY DEF Sent
  <2> QED BY <1>1, <2>1, SentIs DEF Write
<1>3. StoreInv' /\ Used' = Used /\ Listed' /\ AllSane' /\ PutsOnly'
  BY <1>2, Appended
<1>4. UNCHANGED <<doc, text, dirty, saving, timer, armed>>
  BY DEF edited
<1>5. EditTyped'
  BY <1>3, <1>4 DEF EditTyped, Base
<1>6. EditFits'
  BY <1>4 DEF EditFits, Base, IsBlank
<1> QED BY <1>3, <1>5, <1>6 DEF Base

LEMMA BaseToggleMaster ==
  ASSUME Base, ToggleMaster
  PROVE  Base'
<1>1. doc \in Used
  BY DEF ToggleMaster, Base, EditTyped
<1> QED BY <1>1, BaseAsks DEF ToggleMaster

LEMMA BaseListMenu ==
  ASSUME Base, NEW d \in Docs, ListMenu(d)
  PROVE  Base'
<1>1. d \in Used
  BY DEF ListMenu, Base, StoreInv
<1>2. PICK kind \in {"master", "delete"} : reqs' = Append(reqs, Sent(kind, d, {}))
  BY DEF ListMenu
<1> QED BY <1>1, <1>2, BaseAsks DEF ListMenu

\* The editor is gone.
LEMMA EditAway ==
  ASSUME Base, Blank, page' \in {"list", "closed"}, route' = None, errored' = FALSE, Used' = Used
  PROVE  EditTyped' /\ EditFits' /\ PutsOnly'
<1>1. EditTyped'
  BY DEF Blank, EditTyped
<1>2. EditFits'
  BY DEF Blank, EditFits, IsBlank
<1> QED BY <1>1, <1>2 DEF PutsOnly

LEMMA BaseLeave ==
  ASSUME Base, Leave
  PROVE  Base'
<1> DEFINE flush == armed /\ dirty
<1>1. /\ page = "editor" /\ page' = "list" /\ route' = None /\ errored' = FALSE /\ Blank
      /\ UNCHANGED <<plan, server, cache, mount, fails, created>>
      /\ reqs' = (IF flush THEN Append(reqs, Save(doc, text)) ELSE reqs)
      /\ marks' = marks \cup MarkIf(~flush /\ Uncovered, "dropped")
  BY DEF Leave
<1>2. StoreInv' /\ Used' = Used /\ mount <= mount'
  BY <1>1, StoreSame DEF Base, Counted
<1>3. Listed' /\ AllSane'
  <2>1. CASE flush
    <3>1. doc \in Used \cup {None} /\ text \in SUBSET Edits
      BY DEF Base, EditTyped
    <3>2. Save(doc, text) \in Request /\ Sane(mount', Used', Save(doc, text))
      BY <1>1, <1>2, <3>1, SaveIs
    <3>3. Listed' /\ \E n : Posted(Save(doc, text), n)
      BY <1>1, <2>1, <3>2, PostedList DEF Base
    <3> QED BY <1>2, <3>2, <3>3, SanePosted DEF Base
  <2>2. CASE ~flush
    <3>1. Listed' /\ \E h : Shrunk(h)
      BY <1>1, <2>2, SameList DEF Base
    <3> QED BY <1>2, <3>1, SaneShrunk DEF Base
  <2> QED BY <2>1, <2>2
<1>4. EditTyped' /\ EditFits' /\ PutsOnly'
  BY <1>1, <1>2, EditAway
<1>5. marks' \subseteq Marks
  <2> HIDE DEF flush
  <2> QED BY <1>1, MarksGrow DEF Base, Marks
<1> QED BY <1>2, <1>3, <1>4, <1>5 DEF Base

LEMMA BaseCloseTab ==
  ASSUME Base, CloseTab
  PROVE  Base'
<1>1. /\ page' = "closed" /\ route' = None /\ errored' = FALSE /\ Blank /\ reqs' = <<>>
      /\ UNCHANGED <<plan, server, cache, mount, fails, created>>
      /\ marks' = marks \cup MarkIf(~dirty /\ Uncovered, "dropped")
  BY DEF CloseTab
<1>2. StoreInv' /\ Used' = Used /\ mount <= mount'
  BY <1>1, StoreSame DEF Base, Counted
<1>3. Listed' /\ \E h : Shrunk(h)
  BY <1>1, NoList
<1>4. AllSane'
  BY <1>2, <1>3, SaneShrunk DEF Base
<1>5. EditTyped' /\ EditFits' /\ PutsOnly'
  BY <1>1, <1>2, EditAway
<1>6. marks' \subseteq Marks
  BY <1>1, MarksGrow DEF Base, Marks
<1> QED BY <1>2, <1>3, <1>4, <1>5, <1>6 DEF Base

----------------------------------------------------------------------------
(* Steps of the API, and answers.                                          *)

LEMMA Smallest ==
  ASSUME NEW T, T \subseteq Nat, T # {}
  PROVE  \E m \in T : \A n \in T : ~(n < m)
<1>1. PICK m \in T : \A n \in T : <<n, m>> \notin OpToRel(<, Nat)
  BY WFMin, NatLessThanWellFounded, Zenon
<1>2. \A n \in T : ~(n < m)
  BY <1>1 DEF OpToRel
<1> QED BY <1>2

LEMMA MinIn ==
  ASSUME NEW T, T \subseteq Nat, T # {}
  PROVE  Min(T) \in T
<1>1. PICK m \in T : \A n \in T : ~(n < m)
  BY Smallest
<1>2. \A n \in T : m <= n
  BY <1>1
<1> QED BY <1>2 DEF Min

\* What becomes of request r.
Became(r, step, d, copy) == [r EXCEPT !.step = step, !.doc = d, !.reply = copy]
LEMMA BecameIs ==
  ASSUME NEW r \in Request, NEW step \in {"sent", "done", "failed"}, NEW d \in Docs \cup {None}, NEW copy \in Copies
  PROVE  LET x == Became(r, step, d, copy) IN
         /\ x \in Request /\ x.kind = r.kind /\ x.by = r.by /\ x.body = r.body
         /\ x.step = step /\ x.doc = d /\ x.reply = copy
  BY DEF Became, Request

LEMMA Finished ==
  ASSUME Listed, NEW i \in DOMAIN reqs, NEW step \in {"sent", "done", "failed"},
         NEW d \in Docs \cup {None}, NEW copy \in Copies, Finish(i, step, d, copy)
  PROVE  Listed' /\ Changed(i, Became(reqs[i], step, d, copy))
<1>1. reqs[i] \in Request
  BY Places
<1>2. Became(reqs[i], step, d, copy) \in Request
  BY <1>1, BecameIs
<1>3. reqs' = [reqs EXCEPT ![i] = Became(reqs[i], step, d, copy)]
  BY DEF Finish, Became
<1> QED BY <1>2, <1>3, ChangedList

LEMMA StoreServed ==
  ASSUME StoreInv, UNCHANGED <<plan, cache, mount, fails, created>>, NEW d \in Used, NEW c \in Copies,
         c # None => Payload(c) = c, server' = [server EXCEPT ![d] = c]
  PROVE  StoreInv' /\ Used' = Used /\ mount <= mount'
<1>1. Used' = Used /\ mount <= mount' /\ d \in Docs
  BY UsedSame, UsedIs DEF StoreInv
<1>2. server' \in [Docs -> Copies]
  BY DEF StoreInv
<1>3. \A e \in Docs : server'[e] = IF e = d THEN c ELSE server[e]
  BY DEF StoreInv
<1>4. \A e \in Docs : server'[e] # None => Payload(server'[e]) = server'[e]
  BY <1>3 DEF StoreInv
<1> QED BY <1>1, <1>2, <1>3, <1>4 DEF StoreInv

LEMMA UsedMore ==
  ASSUME created \in [0..plan.budget -> SUBSET Docs], NEW m \in 0..plan.budget, NEW d \in Docs,
         created' = [created EXCEPT ![m] = @ \cup {d}], UNCHANGED plan
  PROVE  created' \in [0..plan.budget -> SUBSET Docs] /\ Used' = Used \cup {d}
         /\ \A n \in 0..plan.budget : created'[n] = IF n = m THEN created[n] \cup {d} ELSE created[n]
<1>1. created' \in [0..plan.budget -> SUBSET Docs]
      /\ \A n \in 0..plan.budget : created'[n] = IF n = m THEN created[n] \cup {d} ELSE created[n]
  OBVIOUS
<1>2. \A x : x \in Used' <=> \E n \in 0..plan.budget : x \in created'[n]
  BY <1>1 DEF Used, Range
<1>3. \A x : x \in Used <=> \E n \in 0..plan.budget : x \in created[n]
  BY UsedIs
<1>4. \A x : x \in Used' <=> x \in Used \cup {d}
  BY <1>1, <1>2, <1>3
<1> QED BY <1>1, <1>4

LEMMA StoreCreated ==
  ASSUME StoreInv, UNCHANGED <<plan, cache, mount, fails>>, NEW d \in Docs, NEW c \in Copies,
         c # None => Payload(c) = c, server' = [server EXCEPT ![d] = c],
         NEW m \in 0..plan.budget, created' = [created EXCEPT ![m] = @ \cup {d}]
  PROVE  StoreInv' /\ Used' = Used \cup {d} /\ mount <= mount'
<1>1. created' \in [0..plan.budget -> SUBSET Docs] /\ Used' = Used \cup {d} /\ mount <= mount'
  <2>1. created \in [0..plan.budget -> SUBSET Docs] /\ mount <= mount'
    BY DEF StoreInv
  <2> QED BY <2>1, UsedMore
<1>2. server' \in [Docs -> Copies]
  BY DEF StoreInv
<1>3. \A e \in Docs : server'[e] = IF e = d THEN c ELSE server[e]
  BY DEF StoreInv
<1>4. \A e \in Docs : server'[e] # None => Payload(server'[e]) = server'[e]
  BY <1>3 DEF StoreInv
<1> QED BY <1>1, <1>2, <1>3, <1>4 DEF StoreInv

\* Request i becomes r; the browser does not move.
LEMMA BaseServed ==
  ASSUME Base, StoreInv', Used \subseteq Used', UNCHANGED <<plan, cache, page, route, errored, mount, edited>>,
         NEW i \in DOMAIN reqs, NEW r, Listed', Changed(i, r), Sane(mount, Used', r),
         r.kind = reqs[i].kind, r.by = reqs[i].by, marks' \subseteq Marks
  PROVE  Base'
<1>1. AllSane'
  BY SaneChanged DEF Base, StoreInv
<1>2. PutsOnly'
  BY PutsChanged DEF Base, Stays
<1>3. UNCHANGED <<doc, text, dirty, saving, timer, armed>>
  BY DEF edited
<1>4. EditTyped'
  BY <1>3 DEF EditTyped, Base
<1>5. EditFits'
  BY <1>3 DEF EditFits, Base, IsBlank
<1> QED BY <1>1, <1>2, <1>4, <1>5 DEF Base

\* What a step of the API that answers request i does.
Served(i, step, d, copy) ==
  /\ Listed' /\ Changed(i, Became(reqs[i], step, d, copy))
  /\ reqs[i] \in Request /\ Became(reqs[i], step, d, copy) \in Request
  /\ Sane(mount, Used, reqs[i]) /\ Sane(mount, Used', Became(reqs[i], step, d, copy))
  /\ StoreInv' /\ Used \subseteq Used'

LEMMA ServedBase ==
  ASSUME Base, NEW i \in DOMAIN reqs, NEW step \in {"sent", "done", "failed"}, NEW d \in Docs \cup {None},
         NEW copy \in Copies, Served(i, step, d, copy),
         UNCHANGED <<plan, cache, page, route, errored, mount, edited>>, marks' \subseteq Marks
  PROVE  Base'
<1>1. LET r == Became(reqs[i], step, d, copy) IN r.kind = reqs[i].kind /\ r.by = reqs[i].by
  BY BecameIs DEF Served
<1> QED BY <1>1, BaseServed DEF Served

LEMMA PostServed ==
  ASSUME Base, NEW i \in DOMAIN reqs, reqs[i].step = "sent", ServePost(i, reqs[i]),
         UNCHANGED <<plan, cache, page, route, errored, mount, edited, fails>>
  PROVE  \E d \in Docs \ Used : /\ Served(i, "done", d, reqs[i].body) /\ Used' = Used \cup {d} /\ reqs[i].body \in SUBSET Edits
                                /\ server' = [server EXCEPT ![d] = reqs[i].body] /\ d # None
<1> DEFINE d == Min(Unused)
<1>1. /\ reqs[i].kind = "post" /\ server' = [server EXCEPT ![d] = reqs[i].body] /\ Finish(i, "done", d, reqs[i].body)
      /\ created' = [created EXCEPT ![reqs[i].by] = @ \cup {d}] /\ Unused # {}
  BY DEF ServePost
<1>2. Unused = Docs \ Used
  BY DEF Unused, Used
<1>3. d \in Docs \ Used
  BY <1>1, <1>2, MinIn, NoneFacts
<1> HIDE DEF d
<1>4. reqs[i] \in Request /\ Sane(mount, Used, reqs[i]) /\ mount \in 0..plan.budget /\ plan.budget \in Nat
  <2>1. reqs[i] \in Request
    BY Places DEF Base
  <2> QED BY <2>1 DEF Base, AllSane, StoreInv
<1>5. reqs[i].by \in 0..plan.budget /\ reqs[i].by \in 0..mount /\ mount \in Nat
  BY <1>4 DEF Sane
<1>6. reqs[i].body \in SUBSET Edits
  BY <1>4 DEF Request
<1>7. Payload(reqs[i].body) = reqs[i].body
  BY <1>1, <1>4 DEF Sane, Write
<1>8. StoreInv' /\ Used' = Used \cup {d}
  BY <1>1, <1>3, <1>5, <1>6, <1>7, StoreCreated DEF Base, Copies
<1>9. d # None /\ reqs[i].body # None
  BY <1>3, <1>6, NoneFacts
<1> DEFINE r == Became(reqs[i], "done", d, reqs[i].body)
<1>10. /\ r \in Request /\ r.kind = "post" /\ r.by = reqs[i].by /\ r.body = reqs[i].body
       /\ r.step = "done" /\ r.doc = d /\ r.reply = reqs[i].body
  BY <1>1, <1>3, <1>4, <1>6, BecameIs DEF Copies
<1>11. Listed' /\ Changed(i, r)
  BY <1>1, <1>3, <1>6, Finished DEF Base, Copies
<1> HIDE DEF r
<1>12. Sane(mount, Used', r)
  BY <1>5, <1>7, <1>8, <1>9, <1>10 DEF Sane
<1>13. Served(i, "done", d, reqs[i].body)
  BY <1>4, <1>8, <1>10, <1>11, <1>12 DEF Served, r
<1> QED BY <1>1, <1>3, <1>6, <1>8, <1>9, <1>13

LEMMA PutServed ==
  ASSUME Base, NEW i \in DOMAIN reqs, reqs[i].step = "sent", ServePut(i, reqs[i]),
         UNCHANGED <<plan, cache, page, route, errored, mount, edited, fails>>
  PROVE  /\ reqs[i].doc \in Used /\ reqs[i].body \in SUBSET Edits /\ Used' = Used
         /\ Served(i, "done", reqs[i].doc, reqs[i].body)
<1>1. /\ reqs[i].kind = "put" /\ server' = [server EXCEPT ![reqs[i].doc] = reqs[i].body]
      /\ Finish(i, "done", reqs[i].doc, reqs[i].body) /\ UNCHANGED created
  BY DEF ServePut
<1>2. reqs[i] \in Request /\ Sane(mount, Used, reqs[i])
  BY Places DEF Base, AllSane
<1>3. reqs[i].doc \in Used /\ reqs[i].doc \in Docs /\ reqs[i].doc # None
  <2>1. reqs[i].doc \in Used
    BY <1>1, <1>2 DEF Sane
  <2> QED BY <2>1, UsedIs, NoneFacts DEF Base, StoreInv
<1>4. reqs[i].body \in SUBSET Edits /\ reqs[i].body # None
  BY <1>2, NoneFacts DEF Request
<1>5. Payload(reqs[i].body) = reqs[i].body
  BY <1>1, <1>2 DEF Sane, Write
<1>6. StoreInv' /\ Used' = Used
  BY <1>1, <1>3, <1>4, <1>5, StoreServed DEF Base, Copies
<1> DEFINE r == Became(reqs[i], "done", reqs[i].doc, reqs[i].body)
<1>7. /\ r \in Request /\ r.kind = "put" /\ r.by = reqs[i].by /\ r.body = reqs[i].body
      /\ r.step = "done" /\ r.doc = reqs[i].doc /\ r.reply = reqs[i].body
  <2>1. reqs[i].doc \in Docs \cup {None} /\ reqs[i].body \in Copies
    BY <1>3, <1>4 DEF Copies
  <2> QED BY <1>1, <1>2, <2>1 DEF Became, Request
<1>8. Listed' /\ Changed(i, r)
  BY <1>1, <1>3, <1>4, Finished DEF Base, Copies
<1> HIDE DEF r
<1>9. Sane(mount, Used', r)
  BY <1>2, <1>3, <1>4, <1>5, <1>6, <1>7 DEF Sane
<1>10. Served(i, "done", reqs[i].doc, reqs[i].body)
  BY <1>2, <1>6, <1>7, <1>8, <1>9 DEF Served, r
<1> QED BY <1>3, <1>4, <1>6, <1>10

LEMMA MasterServed ==
  ASSUME Base, NEW i \in DOMAIN reqs, reqs[i].step = "sent", ServeMaster(i, reqs[i]),
         UNCHANGED <<plan, cache, page, route, errored, mount, edited, fails>>
  PROVE  /\ reqs[i].doc \in Used /\ server[reqs[i].doc] \in SUBSET Edits /\ Used' = Used
         /\ Served(i, "done", reqs[i].doc, server[reqs[i].doc])
<1>1. /\ reqs[i].kind = "master" /\ server[reqs[i].doc] # None /\ UNCHANGED <<plan, server, created, marks>>
      /\ Finish(i, "done", reqs[i].doc, server[reqs[i].doc])
  BY DEF ServeMaster
<1>2. reqs[i] \in Request /\ Sane(mount, Used, reqs[i])
  BY Places DEF Base, AllSane
<1>3. reqs[i].doc \in Used /\ reqs[i].doc \in Docs /\ reqs[i].doc # None
  <2>1. reqs[i].doc \in Used
    BY <1>1, <1>2 DEF Sane
  <2> QED BY <2>1, UsedIs, NoneFacts DEF Base, StoreInv
<1>4. server[reqs[i].doc] \in Copies
  BY <1>3 DEF Base, StoreInv
<1>5. StoreInv' /\ Used' = Used
  BY <1>1, StoreSame DEF Base, Counted
<1> DEFINE r == Became(reqs[i], "done", reqs[i].doc, server[reqs[i].doc])
<1>6. /\ r \in Request /\ r.kind = "master" /\ r.by = reqs[i].by /\ r.body = reqs[i].body
      /\ r.step = "done" /\ r.doc = reqs[i].doc /\ r.reply = server[reqs[i].doc]
  BY <1>1, <1>2, <1>3, <1>4, BecameIs
<1>7. Listed' /\ Changed(i, r)
  BY <1>1, <1>3, <1>4, Finished DEF Base
<1> HIDE DEF r
<1>8. Sane(mount, Used', r)
  BY <1>1, <1>2, <1>3, <1>5, <1>6 DEF Sane, Write
<1>9. Served(i, "done", reqs[i].doc, server[reqs[i].doc])
  BY <1>2, <1>5, <1>6, <1>7, <1>8 DEF Served, r
<1> QED BY <1>1, <1>3, <1>4, <1>5, <1>9 DEF Copies

LEMMA DeleteServed ==
  ASSUME Base, NEW i \in DOMAIN reqs, reqs[i].step = "sent", ServeDelete(i, reqs[i]),
         UNCHANGED <<plan, cache, page, route, errored, mount, edited, fails>>
  PROVE  reqs[i].doc \in Used /\ Used' = Used /\ Served(i, "done", reqs[i].doc, None)
<1>1. /\ reqs[i].kind = "delete" /\ server' = [server EXCEPT ![reqs[i].doc] = None]
      /\ Finish(i, "done", reqs[i].doc, None) /\ UNCHANGED created
  BY DEF ServeDelete
<1>2. reqs[i] \in Request /\ Sane(mount, Used, reqs[i])
  BY Places DEF Base, AllSane
<1>3. reqs[i].doc \in Used /\ reqs[i].doc \in Docs /\ reqs[i].doc # None
  <2>1. reqs[i].doc \in Used
    BY <1>1, <1>2 DEF Sane
  <2> QED BY <2>1, UsedIs, NoneFacts DEF Base, StoreInv
<1>4. StoreInv' /\ Used' = Used
  BY <1>1, <1>3, StoreServed DEF Base, Copies
<1> DEFINE r == Became(reqs[i], "done", reqs[i].doc, None)
<1>5. /\ r \in Request /\ r.kind = "delete" /\ r.by = reqs[i].by /\ r.body = reqs[i].body
      /\ r.step = "done" /\ r.doc = reqs[i].doc /\ r.reply = None
  BY <1>1, <1>2, <1>3, BecameIs DEF Copies
<1>6. Listed' /\ Changed(i, r)
  BY <1>1, <1>3, Finished DEF Base, Copies
<1> HIDE DEF r
<1>7. Sane(mount, Used', r)
  BY <1>1, <1>2, <1>3, <1>4, <1>5 DEF Sane, Write
<1>8. Served(i, "done", reqs[i].doc, None)
  BY <1>2, <1>4, <1>5, <1>6, <1>7 DEF Served, r
<1> QED BY <1>3, <1>4, <1>8

\* A request that fails keeps its resume.
LEMMA Failed ==
  ASSUME Base, NEW i \in DOMAIN reqs, reqs[i].step \in {"sent", "done"}, Finish(i, "failed", reqs[i].doc, None),
         UNCHANGED <<plan, server, cache, mount, created>>, Counted(fails, fails')
  PROVE  Served(i, "failed", reqs[i].doc, None) /\ Used' = Used /\ reqs[i].doc \in Docs \cup {None}
<1>1. reqs[i] \in Request /\ Sane(mount, Used, reqs[i])
  BY Places DEF Base, AllSane
<1>2. reqs[i].doc \in Docs \cup {None}
  BY <1>1 DEF Request
<1>3. StoreInv' /\ Used' = Used
  BY StoreSame DEF Base, Counted
<1> DEFINE r == Became(reqs[i], "failed", reqs[i].doc, None)
<1>4. /\ r \in Request /\ r.kind = reqs[i].kind /\ r.by = reqs[i].by /\ r.body = reqs[i].body
      /\ r.step = "failed" /\ r.doc = reqs[i].doc /\ r.reply = None
  <2>1. None \in Copies
    BY DEF Copies
  <2> QED BY <1>1, <1>2, <2>1 DEF Became, Request
<1>5. Listed' /\ Changed(i, r)
  BY <1>2, Finished DEF Base, Copies
<1> HIDE DEF r
<1>6. Sane(mount, Used', r)
  BY <1>1, <1>3, <1>4 DEF Sane, Write
<1>7. Served(i, "failed", reqs[i].doc, None)
  BY <1>1, <1>3, <1>4, <1>5, <1>6 DEF Served, r
<1> QED BY <1>2, <1>3, <1>7

LEMMA BaseServe ==
  ASSUME Base, NEW i \in DOMAIN reqs, Serve(i)
  PROVE  Base'
<1>1. /\ reqs[i].step = "sent" /\ UNCHANGED <<plan, cache, page, route, errored, mount, edited, fails>>
      /\ \/ ServePost(i, reqs[i]) \/ ServePut(i, reqs[i]) \/ ServeMaster(i, reqs[i])
         \/ ServeDelete(i, reqs[i]) \/ Refuse(i, reqs[i])
  BY DEF Serve
<1>2. marks' \subseteq Marks
  <2>1. \/ UNCHANGED marks
        \/ \E c, m : m \in {"reordered", "gone", "refused"} /\ marks' = marks \cup MarkIf(c, m)
    BY <1>1 DEF ServePost, ServePut, ServeMaster, ServeDelete, Refuse
  <2> QED BY <2>1, MarksGrow DEF Base, Marks
<1>3. CASE ServePost(i, reqs[i])
  <2>1. PICK d \in Docs \ Used : Served(i, "done", d, reqs[i].body) /\ reqs[i].body \in SUBSET Edits
    BY <1>1, <1>3, PostServed
  <2> QED BY <1>1, <1>2, <2>1, ServedBase DEF Copies
<1>4. CASE ServePut(i, reqs[i])
  <2>1. reqs[i].doc \in Docs /\ reqs[i].body \in Copies /\ Served(i, "done", reqs[i].doc, reqs[i].body)
    <3>1. reqs[i].doc \in Used /\ reqs[i].body \in SUBSET Edits /\ Served(i, "done", reqs[i].doc, reqs[i].body)
      BY <1>1, <1>4, PutServed
    <3> QED BY <3>1, UsedIs DEF Base, StoreInv, Copies
  <2> QED BY <1>1, <1>2, <2>1, ServedBase
<1>5. CASE ServeMaster(i, reqs[i])
  <2>1. reqs[i].doc \in Docs /\ server[reqs[i].doc] \in Copies /\ Served(i, "done", reqs[i].doc, server[reqs[i].doc])
    <3>1. reqs[i].doc \in Used /\ server[reqs[i].doc] \in SUBSET Edits /\ Served(i, "done", reqs[i].doc, server[reqs[i].doc])
      BY <1>1, <1>5, MasterServed
    <3> QED BY <3>1, UsedIs DEF Base, StoreInv, Copies
  <2> QED BY <1>1, <1>2, <2>1, ServedBase
<1>6. CASE ServeDelete(i, reqs[i])
  <2>1. reqs[i].doc \in Docs /\ Served(i, "done", reqs[i].doc, None)
    <3>1. reqs[i].doc \in Used /\ Served(i, "done", reqs[i].doc, None)
      BY <1>1, <1>6, DeleteServed
    <3> QED BY <3>1, UsedIs DEF Base, StoreInv
  <2> QED BY <1>1, <1>2, <2>1, ServedBase DEF Copies
<1>7. CASE Refuse(i, reqs[i])
  <2>1. Finish(i, "failed", reqs[i].doc, None) /\ UNCHANGED <<plan, server, created>>
    BY <1>7 DEF Refuse
  <2>2. Served(i, "failed", reqs[i].doc, None) /\ reqs[i].doc \in Docs \cup {None}
    BY <1>1, <2>1, Failed DEF Counted
  <2> QED BY <1>1, <1>2, <2>2, ServedBase DEF Copies
<1> QED BY <1>1, <1>3, <1>4, <1>5, <1>6, <1>7

LEMMA FailServed ==
  ASSUME Base, NEW i \in DOMAIN reqs, Fail(i)
  PROVE  Served(i, "failed", reqs[i].doc, None) /\ Used' = Used /\ reqs[i].doc \in Docs \cup {None}
<1>1. /\ reqs[i].step \in {"sent", "done"} /\ reqs' = [reqs EXCEPT ![i].step = "failed", ![i].reply = None]
      /\ UNCHANGED <<plan, server, cache, mount, created>> /\ Counted(fails, fails')
  BY DEF Fail, Counted
<1>2. Finish(i, "failed", reqs[i].doc, None)
  <2>1. reqs[i] \in Request
    BY Places DEF Base
  <2>2. [reqs[i] EXCEPT !.step = "failed", !.doc = reqs[i].doc, !.reply = None] = [reqs[i] EXCEPT !.step = "failed", !.reply = None]
    BY <2>1 DEF Request
  <2> QED BY <1>1, <2>2 DEF Finish
<1> QED BY <1>1, <1>2, Failed

LEMMA BaseFail ==
  ASSUME Base, NEW i \in DOMAIN reqs, Fail(i)
  PROVE  Base'
<1>1. Served(i, "failed", reqs[i].doc, None) /\ reqs[i].doc \in Docs \cup {None}
  BY FailServed
<1>2. UNCHANGED <<plan, cache, page, route, errored, mount, edited>> /\ marks' \subseteq Marks
  BY DEF Fail, Base, Marks
<1> QED BY <1>1, <1>2, ServedBase DEF Copies

----------------------------------------------------------------------------
LEMMA Answered ==
  ASSUME Base, NEW i \in DOMAIN reqs, Answer(i)
  PROVE  /\ reqs[i] \in Request /\ Sane(mount, Used, reqs[i])
         /\ Listed' /\ \E h : Removed(i, h)
         /\ UNCHANGED <<plan, server, page, route, mount, fails, created>>
<1>1. reqs' = RemoveAt(reqs, i) /\ UNCHANGED <<plan, server, page, route, mount, fails, created>>
  BY DEF Answer
<1>2. reqs[i] \in Request
  BY Places DEF Base
<1>3. Sane(mount, Used, reqs[i])
  BY DEF Base, AllSane
<1>4. Listed' /\ \E h : Removed(i, h)
  BY <1>1, RemovedList DEF Base
<1> QED BY <1>1, <1>2, <1>3, <1>4

\* What an answer does to the copies.
Cached(r) ==
  /\ StoreInv' /\ errored' \in BOOLEAN
  /\ \/ UNCHANGED cache
     \/ /\ r.doc \in Used /\ r.reply \in SUBSET Edits /\ cache'[r.doc] = r.reply
        /\ \A d \in Docs \ {r.doc} : cache'[d] = cache[d]

LEMMA CacheSet ==
  ASSUME Base, NEW r \in Request, Sane(mount, Used, r), r.kind \in {"put", "master"}, r.step = "done",
         SetQueryData(r), UNCHANGED <<plan, server, page, route, mount, fails, created>>
  PROVE  Cached(r)
<1>1. r.doc # None /\ r.doc \in Used /\ r.reply \in Copies /\ r.reply # None
  BY DEF Sane, Request
<1>2. r.doc \in Docs
  BY <1>1, UsedIs DEF Base, StoreInv
<1>3. cache' = [cache EXCEPT ![r.doc] = r.reply] /\ errored' \in BOOLEAN
  BY DEF SetQueryData, Base, EditTyped
<1>4. StoreInv'
  BY <1>1, <1>3, StoreCached DEF Base
<1>5. cache'[r.doc] = r.reply /\ \A d \in Docs \ {r.doc} : cache'[d] = cache[d]
  BY <1>2, <1>3 DEF Base, StoreInv
<1>6. r.reply \in SUBSET Edits
  BY <1>1 DEF Copies
<1> QED BY <1>1, <1>3, <1>4, <1>5, <1>6 DEF Cached

LEMMA CacheSame ==
  ASSUME Base, UNCHANGED <<plan, server, cache, errored, page, route, mount, fails, created>>, NEW r
  PROVE  Cached(r)
<1>1. StoreInv'
  BY StoreSame DEF Base, Counted
<1> QED BY <1>1 DEF Cached, Base, EditTyped

LEMMA CacheKeeps ==
  ASSUME Base, NEW r, Cached(r), UNCHANGED <<page, route, mount>>
  PROVE  /\ Stays
         /\ route # None => \/ cache'[route] = cache[route]
                            \/ route = r.doc /\ cache'[route] = r.reply /\ r.reply # None
<1>1. route # None => route \in Docs
  BY UsedIs DEF Base, EditTyped, StoreInv
<1>2. r.reply \in SUBSET Edits => r.reply # None
  BY NoneFacts
<1>3. route # None => \/ cache'[route] = cache[route]
                      \/ route = r.doc /\ cache'[route] = r.reply /\ r.reply # None
  BY <1>1, <1>2 DEF Cached
<1> QED BY <1>3 DEF Stays

LEMMA AnsweredLists ==
  ASSUME Base, NEW r, Cached(r), UNCHANGED <<created, page, route, mount>>, NEW i, NEW h, Removed(i, h)
  PROVE  AllSane' /\ PutsOnly' /\ Used' = Used
<1>1. Used' = Used /\ mount <= mount'
  BY UsedSame DEF Base, StoreInv
<1>2. AllSane'
  BY <1>1, SaneShrunk DEF Base, Cached, Removed
<1>3. PutsOnly'
  BY CacheKeeps, PutsShrunk DEF Base, Removed
<1> QED BY <1>1, <1>2, <1>3

\* The editor still waits for its resume, if it does.
Waits == page = "editor" /\ route # None /\ cache[route] = None => cache'[route] = None
\* The editor loads what r brought.
Loads(r) == /\ page = "editor" /\ route = r.doc /\ route # None /\ cache[route] = None
            /\ r.doc \in Used /\ r.reply \in SUBSET Edits /\ cache'[route] = r.reply
            /\ LoadFrom(r.doc, r.reply)
            /\ marks' = marks \cup MarkIf(Outdated(r.doc, r.reply), "stale")
LEMMA MayLoad ==
  ASSUME Base, NEW r, r.doc \in Docs, Cached(r), MaybeLoad(r), UNCHANGED <<page, route, mount>>
  PROVE  \/ Loads(r)
         \/ Waits /\ UNCHANGED <<doc, text, dirty, saving, timer, armed, marks>>
<1>1. CASE page = "editor" /\ route = r.doc /\ cache[r.doc] = None /\ cache'[r.doc] # None
  <2>1. r.doc \in Used /\ r.reply \in SUBSET Edits /\ cache'[r.doc] = r.reply
    BY <1>1 DEF Cached
  <2>2. LoadFrom(r.doc, r.reply) /\ marks' = marks \cup MarkIf(Outdated(r.doc, r.reply), "stale")
    BY <1>1 DEF MaybeLoad
  <2>3. route # None
    BY <1>1, NoneFacts
  <2> QED BY <1>1, <2>1, <2>2, <2>3 DEF Loads
<1>2. CASE ~(page = "editor" /\ route = r.doc /\ cache[r.doc] = None /\ cache'[r.doc] # None)
  <2>1. UNCHANGED <<doc, text, dirty, saving, timer, armed, marks>>
    BY <1>2 DEF MaybeLoad, edited
  <2>2. Waits
    BY <1>2, CacheKeeps DEF Waits
  <2> QED BY <2>1, <2>2
<1> QED BY <1>1, <1>2

LEMMA EditStays ==
  ASSUME Base, UNCHANGED <<page, route, mount, created>>, errored' \in BOOLEAN, Stays, Waits,
         UNCHANGED <<doc, text, dirty, timer, armed>>, saving' \in BOOLEAN, saving' => saving
  PROVE  EditTyped' /\ EditFits'
<1>1. Used' = Used
  BY UsedSame
<1>2. EditTyped'
  BY <1>1 DEF EditTyped, Base
<1>3. page # "editor" => IsBlank' /\ route' = None
  BY DEF Base, EditFits, IsBlank
<1>4. page = "editor" /\ route # None /\ cache'[route] = None => IsBlank'
  BY DEF Base, EditFits, IsBlank, Stays
<1>5. page = "editor" /\ route # None /\ cache'[route] # None => doc # None
  BY DEF Base, EditFits, Waits
<1> QED BY <1>2, <1>3, <1>4, <1>5 DEF Base, EditFits

\* What an answer leaves of the editor, beside the requests.
LEMMA BaseAnswered ==
  ASSUME Base, NEW i \in DOMAIN reqs, Answer(i), Cached(reqs[i]),
         EditTyped', EditFits', marks' \subseteq Marks
  PROVE  Base'
<1>1. Listed' /\ UNCHANGED <<plan, server, page, route, mount, fails, created>>
  BY Answered
<1>2. PICK h : Removed(i, h)
  BY Answered
<1>3. AllSane' /\ PutsOnly'
  BY <1>1, <1>2, AnsweredLists
<1> QED BY <1>1, <1>3 DEF Base, Cached

LEMMA BaseMayLoad ==
  ASSUME Base, NEW i \in DOMAIN reqs, Answer(i), Cached(reqs[i]), reqs[i].doc \in Docs, MaybeLoad(reqs[i])
  PROVE  Base'
<1>1. UNCHANGED <<page, route, mount, created>>
  BY Answered
<1>2. CASE Loads(reqs[i])
  <2>1. /\ page' = "editor" /\ route' = reqs[i].doc /\ LoadFrom(reqs[i].doc, reqs[i].reply)
        /\ reqs[i].doc \in Used /\ reqs[i].reply \in SUBSET Edits /\ cache'[reqs[i].doc] # None
    BY <1>1, <1>2, NoneFacts DEF Loads
  <2>2. timer = None /\ armed \in BOOLEAN /\ saving \in BOOLEAN /\ errored' \in BOOLEAN
    BY <1>2 DEF Loads, Base, EditFits, IsBlank, Cached
  <2>3. EditTyped' /\ EditFits'
    BY <1>1, <2>1, <2>2, EditLoads
  <2>4. marks' \subseteq Marks
    <3>1. marks' = marks \cup MarkIf(Outdated(reqs[i].doc, reqs[i].reply), "stale")
      BY <1>2 DEF Loads
    <3> QED BY <3>1 DEF Base, MarkIf, Marks
  <2> QED BY <2>3, <2>4, BaseAnswered
<1>3. CASE Waits /\ UNCHANGED <<doc, text, dirty, saving, timer, armed, marks>>
  <2>1. Stays /\ errored' \in BOOLEAN /\ saving' \in BOOLEAN
    BY <1>1, <1>3, CacheKeeps DEF Cached, Base, EditTyped
  <2>2. EditTyped' /\ EditFits'
    BY <1>1, <1>3, <2>1, EditStays
  <2> QED BY <1>3, <2>2, BaseAnswered DEF Base
<1> QED BY <1>1, <1>2, <1>3, MayLoad

\* A save of the open editor has been answered.
Merged(r) ==
  /\ r.step = "done" /\ Write(r) /\ Mine(r) /\ r.doc \in Used /\ r.doc # None
  /\ doc' = r.doc /\ dirty' = FALSE /\ saving' = FALSE /\ UNCHANGED <<text, timer, armed>>
  /\ marks' = marks \cup MarkIf(Payload(text) # r.body, "masked")
                    \cup MarkIf(Payload(text) # r.body /\ timer = None
                                  /\ {q \in Writes : Mine(q)} = {r}, "silent")

\* The cases of an answer to a save.
LEMMA SaveAnswered ==
  ASSUME Base, NEW i \in DOMAIN reqs, Answer(i), AnswerSave(i, reqs[i])
  PROVE  /\ Cached(reqs[i]) /\ reqs[i].doc \in Docs /\ Write(reqs[i]) /\ reqs[i].step = "done"
         /\ IF Mine(reqs[i]) THEN Merged(reqs[i]) ELSE MaybeLoad(reqs[i])
<1>1. reqs[i] \in Request /\ Sane(mount, Used, reqs[i]) /\ UNCHANGED <<plan, server, page, route, mount, fails, created>>
  BY Answered
<1>2. reqs[i].kind \in {"post", "put"} /\ reqs[i].step = "done"
  BY DEF AnswerSave
<1>3. reqs[i].doc # None /\ reqs[i].doc \in Used
  BY <1>1, <1>2 DEF Sane
<1>4. reqs[i].doc \in Docs
  BY <1>3, UsedIs DEF Base, StoreInv
<1>5. Cached(reqs[i])
  <2>1. CASE reqs[i].kind = "put"
    BY <1>1, <1>2, <2>1, CacheSet DEF AnswerSave
  <2>2. CASE reqs[i].kind # "put"
    BY <1>1, <2>2, CacheSame DEF AnswerSave
  <2> QED BY <2>1, <2>2
<1>6. IF Mine(reqs[i]) THEN Merged(reqs[i]) ELSE MaybeLoad(reqs[i])
  BY <1>2, <1>3 DEF AnswerSave, Merged, Write
<1> QED BY <1>2, <1>4, <1>5, <1>6 DEF Write

LEMMA BaseMerged ==
  ASSUME Base, NEW i \in DOMAIN reqs, Answer(i), Cached(reqs[i]), Merged(reqs[i])
  PROVE  Base'
<1>1. /\ Mine(reqs[i]) /\ Write(reqs[i]) /\ reqs[i].doc \in Used /\ reqs[i].doc # None
      /\ doc' = reqs[i].doc /\ dirty' = FALSE /\ saving' = FALSE /\ UNCHANGED <<text, timer, armed>>
  BY DEF Merged
<1>2. UNCHANGED <<page, route, mount, created>> /\ page = "editor"
  BY <1>1, Answered DEF Mine
<1>3. Used' = Used /\ Stays /\ errored' \in BOOLEAN
  BY <1>2, UsedSame, CacheKeeps DEF Cached
<1>4. EditTyped'
  BY <1>1, <1>2, <1>3 DEF EditTyped, Base
<1>5. route # None => cache[route] # None /\ cache'[route] # None
  BY <1>1, <1>2, <1>3 DEF Base, PutsOnly, Own, Stays
<1>6. EditFits'
  BY <1>1, <1>2, <1>5 DEF EditFits, Base
<1>7. marks' \subseteq Marks
  <2>1. \A c, d : marks \cup MarkIf(c, "masked") \cup MarkIf(d, "silent") \subseteq Marks
    BY MarksGrow DEF Base, Marks
  <2> QED BY <2>1 DEF Merged
<1> QED BY <1>4, <1>6, <1>7, BaseAnswered

LEMMA BaseAnswer ==
  ASSUME Base, NEW i \in DOMAIN reqs, Answer(i)
  PROVE  Base'
<1>1. /\ reqs[i] \in Request /\ Sane(mount, Used, reqs[i])
      /\ UNCHANGED <<plan, server, page, route, mount, fails, created>>
  BY Answered
<1>2. CASE AnswerSave(i, reqs[i])
  BY <1>2, SaveAnswered, BaseMerged, BaseMayLoad
<1>3. CASE SaveFailed(i, reqs[i])
  <2>1. /\ saving' = (saving /\ ~Mine(reqs[i])) /\ UNCHANGED <<cache, errored, doc, text, dirty, timer, armed>>
        /\ marks' = marks \cup MarkIf(Mine(reqs[i]) /\ ~dirty, "silent")
    BY <1>3 DEF SaveFailed
  <2>2. Cached(reqs[i]) /\ Stays /\ Waits
    BY <1>1, <2>1, CacheSame DEF Stays, Waits
  <2>3. saving' \in BOOLEAN /\ (saving' => saving) /\ errored' \in BOOLEAN
    BY <2>1, <2>2 DEF Cached
  <2>4. EditTyped' /\ EditFits'
    BY <1>1, <2>1, <2>2, <2>3, EditStays
  <2>5. marks' \subseteq Marks
    BY <2>1, MarksGrow DEF Base, Marks
  <2> QED BY <2>2, <2>4, <2>5, BaseAnswered
<1>4. CASE AnswerMaster(i, reqs[i])
  <2>1. reqs[i].kind = "master" /\ reqs[i].step = "done" /\ SetQueryData(reqs[i]) /\ MaybeLoad(reqs[i])
    BY <1>4 DEF AnswerMaster
  <2>2. Cached(reqs[i])
    BY <1>1, <2>1, CacheSet
  <2>3. reqs[i].doc \in Docs
    BY <1>1, <2>1 DEF Sane, Request
  <2> QED BY <2>1, <2>2, <2>3, BaseMayLoad
<1>5. CASE AnswerOther(i, reqs[i])
  <2>1. UNCHANGED <<cache, errored, edited, marks>>
    BY <1>5 DEF AnswerOther
  <2>2. Cached(reqs[i]) /\ Stays /\ Waits /\ errored' \in BOOLEAN /\ saving' \in BOOLEAN
    BY <1>1, <2>1, CacheSame DEF Stays, Waits, Base, EditTyped, edited
  <2>3. EditTyped' /\ EditFits'
    BY <1>1, <2>1, <2>2, EditStays DEF edited
  <2> QED BY <2>1, <2>2, <2>3, BaseAnswered DEF Base
<1> QED BY <1>2, <1>3, <1>4, <1>5 DEF Answer

----------------------------------------------------------------------------
(* Type correctness.                                                       *)

LEMMA BaseInit == Init => Base
<1> SUFFICES ASSUME Init PROVE Base
  OBVIOUS
<1>1. PICK D \in SUBSET Existing : /\ server = [d \in Docs |-> IF d \in D THEN {} ELSE None]
                                   /\ created = [m \in 0..plan.budget |-> IF m = 0 THEN D ELSE {}]
  BY DEF Init
<1>2. plan \in Plans /\ plan.budget \in Nat
  BY DEF Init
<1>3. created \in [0..plan.budget -> SUBSET Docs] /\ 0 \in 0..plan.budget /\ created[0] = D /\ D \subseteq Docs
  BY <1>1, <1>2
<1>4. D \subseteq Used
  BY <1>3, UsedIs
<1>5. {} \in Copies /\ None \in Copies /\ Payload({}) = {}
  BY PayloadIn DEF Copies
<1>6. server \in [Docs -> Copies] /\ \A d \in Docs : server[d] # None => d \in D /\ server[d] = {}
  BY <1>1, <1>5
<1>7. cache \in [Docs -> Copies] /\ \A d \in Docs : cache[d] = None
  BY <1>5 DEF Init
<1>8. mount = 0 /\ fails = 0
  BY DEF Init
<1>9. StoreInv
  BY <1>2, <1>3, <1>4, <1>5, <1>6, <1>7, <1>8 DEF StoreInv
<1>10. EditTyped /\ EditFits
  BY DEF Init, EditTyped, EditFits, IsBlank
<1>11. reqs = <<>> /\ marks = {} /\ page = "list"
  BY DEF Init
<1>12. Listed /\ AllSane /\ PutsOnly
  BY <1>11 DEF Listed, AllSane, PutsOnly
<1> QED BY <1>9, <1>10, <1>11, <1>12 DEF Base

LEMMA BaseStutters ==
  ASSUME Base, UNCHANGED vars
  PROVE  Base'
<1>1. UNCHANGED <<plan, server, cache, reqs, page, route, errored, mount, fails, created, marks>>
      /\ UNCHANGED <<doc, text, dirty, saving, timer, armed>>
  BY DEF vars, edited
<1>2. StoreInv' /\ Used' = Used
  BY <1>1, StoreSame DEF Base, Counted
<1>3. Listed' /\ AllSane' /\ PutsOnly'
  BY <1>1, <1>2 DEF Base, Listed, AllSane, PutsOnly, Own, Mine
<1>4. EditTyped' /\ EditFits'
  BY <1>1, <1>2 DEF Base, EditTyped, EditFits, IsBlank
<1> QED BY <1>1, <1>2, <1>3, <1>4 DEF Base

LEMMA BaseStep == Base /\ [Next]_vars => Base'
<1> SUFFICES ASSUME Base, [Next]_vars PROVE Base'
  OBVIOUS
<1>1. ASSUME NEW d \in Docs, Open(d) PROVE Base'
  BY <1>1, BaseOpen
<1>2. ASSUME NEW d \in Docs, ListMenu(d) PROVE Base'
  BY <1>2, BaseListMenu
<1>3. CASE OpenNew
  BY <1>3, BaseOpenNew
<1>4. CASE Fetch
  BY <1>4, BaseFetch
<1>5. CASE FetchFails
  BY <1>5, BaseFetchFails
<1>6. ASSUME NEW e \in Edits, Type(e) PROVE Base'
  BY <1>6, BaseType
<1>7. CASE TimerFires
  BY <1>7, BaseTimerFires
<1>8. CASE SaveNow
  BY <1>8, BaseSaveNow
<1>9. CASE ToggleMaster
  BY <1>9, BaseToggleMaster
<1>10. CASE Leave
  BY <1>10, BaseLeave
<1>11. CASE CloseTab
  BY <1>11, BaseCloseTab
<1>12. ASSUME NEW i \in DOMAIN reqs, Serve(i) PROVE Base'
  BY <1>12, BaseServe
<1>13. ASSUME NEW i \in DOMAIN reqs, Fail(i) PROVE Base'
  BY <1>13, BaseFail
<1>14. ASSUME NEW i \in DOMAIN reqs, Answer(i) PROVE Base'
  BY <1>14, BaseAnswer
<1>15. CASE UNCHANGED vars
  BY <1>15, BaseStutters
<1> QED BY <1>1, <1>2, <1>3, <1>4, <1>5, <1>6, <1>7, <1>8, <1>9, <1>10, <1>11, <1>12, <1>13, <1>14, <1>15 DEF Next

LEMMA BaseTypes == Base => TypeOK
<1> SUFFICES ASSUME Base PROVE TypeOK
  OBVIOUS
<1>1. Used \subseteq Docs
  BY UsedIs DEF Base, StoreInv
<1>2. text # None
  BY NoneFacts DEF Base, EditTyped
<1>3. timer \in [doc : Docs \cup {None}, text : SUBSET Edits] \cup {None}
  BY <1>1 DEF Base, EditTyped
<1>4. /\ plan \in Plans /\ server \in [Docs -> Copies] /\ cache \in [Docs -> Copies] /\ mount \in 0..plan.budget
      /\ fails \in 0..plan.budget /\ created \in [0..plan.budget -> SUBSET Docs] /\ marks \subseteq Marks
      /\ reqs \in Seq(Request)
  BY DEF Base, StoreInv, Listed
<1>5. /\ page \in {"list", "editor", "closed"} /\ route \in Docs \cup {None} /\ errored \in BOOLEAN
      /\ doc \in Docs \cup {None} /\ text \subseteq Edits
      /\ dirty \in BOOLEAN /\ saving \in BOOLEAN /\ armed \in BOOLEAN
  BY <1>1 DEF Base, EditTyped
<1> QED BY <1>2, <1>3, <1>4, <1>5 DEF TypeOK

LEMMA AlwaysBase == Spec => []Base
  BY BaseInit, BaseStep, PTL DEF Spec

\* In every session of the editor, whatever order the requests are answered in,
\* every variable keeps its type: a resume whose save, copy or deletion is under
\* way is one that was created, and a text is never taken for a missing copy
\* (save, useResumeEditor's effects, useResumes' hooks).
THEOREM EditorTyped == Spec => []TypeOK
  BY AlwaysBase, BaseTypes, PTL

----------------------------------------------------------------------------
(* What the steps are to the saves under way.                              *)

\* Marks are never taken back; this step drops nothing.
Marked == marks \subseteq marks' /\ ("dropped" \in marks' => "dropped" \in marks)
EditSame == UNCHANGED <<page, mount, doc, text, dirty, timer>>

\* A new editor without a resume, or waiting for its resume.
Fresh(h) ==
  /\ Shrunk(h) /\ UNCHANGED <<server, created>> /\ Marked
  /\ page' = "editor" /\ mount' = mount + 1 /\ IsBlank'
\* An editor nothing of which is under way gets resume d with copy c.
Loaded(h, d, c) ==
  /\ Shrunk(h) /\ UNCHANGED <<server, created>> /\ Marked
  /\ page' = "editor" /\ mount' \in {mount, mount + 1}
  /\ doc' = d /\ d \in Used /\ text' = c /\ dirty' = FALSE /\ timer' = None
  /\ \A j \in DOMAIN reqs' : Write(reqs'[j]) => reqs'[j].by # mount'
  /\ "stale" \notin marks' => ~Outdated(d, c)
\* The editor does not notice; a save of its own that goes away has failed.
Quiet(h) ==
  /\ Shrunk(h) /\ UNCHANGED <<server, created>> /\ Marked /\ EditSame
  /\ \A i \in DOMAIN reqs : (\A j \in DOMAIN reqs' : h[j] # i) =>
       (Own(reqs[i]) => reqs[i].step # "done" /\ (dirty \/ "silent" \in marks'))
Typed(e) ==
  /\ UNCHANGED <<reqs, server, created, page, mount, doc>> /\ Marked /\ page = "editor"
  /\ text' = text \cup {e} /\ dirty' = TRUE /\ timer' = [doc |-> doc, text |-> text']
\* The open editor sends its text; it stays open or is left.
Sends(x, n) ==
  /\ Posted(x, n) /\ UNCHANGED <<server, created, mount>> /\ Marked /\ page = "editor"
  /\ x.by = mount /\ x.step = "sent" /\ x.body = Payload(text)
  /\ x.doc = doc \/ (timer # None /\ x.doc = timer.doc)
  /\ \/ x.kind = "put" /\ x.doc # None
     \/ x.kind = "post" /\ x.doc = None
  /\ page' = "editor" => UNCHANGED <<doc, text, dirty>> /\ timer' = None
Asks(x, n) ==
  Posted(x, n) /\ ~Write(x) /\ UNCHANGED <<server, created>> /\ Marked /\ EditSame
\* The editor is left or closed without a save.
Leaves(h) ==
  /\ Shrunk(h) /\ UNCHANGED <<server, created, mount>> /\ page' # "editor"
  /\ marks \subseteq marks'
  /\ "dropped" \in marks' => "dropped" \in marks \/ (~dirty /\ Uncovered)
\* Request i is now r: the same, but for its answer.
Settled(i, r) ==
  /\ i \in DOMAIN reqs /\ Changed(i, r) /\ EditSame /\ Marked
  /\ r.kind = reqs[i].kind /\ r.by = reqs[i].by /\ r.body = reqs[i].body
Creates(i, r, d) ==
  /\ Settled(i, r) /\ r.kind = "post" /\ reqs[i].step = "sent" /\ r.step = "done" /\ r.doc = d /\ d \in Docs \ Used
  /\ server' = [server EXCEPT ![d] = r.body] /\ created' = [created EXCEPT ![r.by] = @ \cup {d}]
Stores(i, r) ==
  /\ Settled(i, r) /\ r.kind = "put" /\ reqs[i].step = "sent" /\ r.step = "done" /\ r.doc = reqs[i].doc /\ r.doc \in Used
  /\ server' = [server EXCEPT ![r.doc] = r.body] /\ UNCHANGED created
  /\ "reordered" \notin marks' =>
       \A j \in DOMAIN reqs : j < i /\ reqs[j].kind = "put" /\ reqs[j].doc = r.doc => reqs[j].step # "sent"
\* Anything else the API does with a request: it stores nothing new.
Ends(i, r) ==
  /\ Settled(i, r) /\ r.doc = reqs[i].doc /\ r.step # "sent" /\ (Write(r) => r.step = "failed")
  /\ UNCHANGED created /\ \A d \in Docs : server'[d] \in {server[d], None}
  /\ reqs[i].step = "sent" \/ "failed" \in marks'
\* The editor merges the answer to its save i.
Merges(i, h) ==
  /\ i \in DOMAIN reqs /\ Removed(i, h) /\ UNCHANGED <<server, created, page, mount, text, timer>> /\ Marked
  /\ Own(reqs[i]) /\ reqs[i].step = "done" /\ reqs[i].doc \in Used
  /\ doc' = reqs[i].doc /\ dirty' = FALSE
  /\ Payload(text) # reqs[i].body => "masked" \in marks'
  /\ Payload(text) # reqs[i].body /\ timer = None /\ {q \in Writes : Mine(q)} = {reqs[i]} => "silent" \in marks'
Step ==
  \/ \E h : Fresh(h) \/ Quiet(h) \/ Leaves(h)
  \/ \E h, d, c : Loaded(h, d, c)
  \/ \E e : Typed(e)
  \/ \E x, n : Sends(x, n) \/ Asks(x, n)
  \/ \E i, r : Stores(i, r) \/ Ends(i, r)
  \/ \E i, r, d : Creates(i, r, d)
  \/ \E i, h : Merges(i, h)

LEMMA QuietStep ==
  ASSUME Base, EditSame, UNCHANGED <<reqs, server, created, marks>>
  PROVE  Step
<1>1. PICK h : Shrunk(h) /\ \A j \in DOMAIN reqs : h[j] = j
  BY SameList DEF Base
<1>2. Quiet(h)
  BY <1>1 DEF Quiet, Marked
<1> QED BY <1>2 DEF Step

LEMMA StepOpen ==
  ASSUME Base, NEW d \in Docs, Open(d)
  PROVE  Step
<1>1. /\ page = "list" /\ (server[d] # None \/ cache[d] # None) /\ page' = "editor" /\ mount' = mount + 1
      /\ UNCHANGED <<server, reqs, created>>
  BY DEF Open
<1>2. PICK h : Shrunk(h) /\ \A j \in DOMAIN reqs : h[j] = j
  BY <1>1, SameList DEF Base
<1>3. d \in Used /\ timer = None
  BY <1>1 DEF Base, StoreInv, EditFits, IsBlank
<1>4. \A j \in DOMAIN reqs' : reqs'[j].by # mount'
  BY <1>1 DEF Base, AllSane, Sane, StoreInv
<1>5. CASE cache[d] = None
  <2>1. IsBlank' /\ UNCHANGED marks
    BY <1>5 DEF Open, Blank, IsBlank
  <2>2. Fresh(h)
    BY <1>1, <1>2, <2>1 DEF Fresh, Marked
  <2> QED BY <2>2 DEF Step
<1>6. CASE cache[d] # None
  <2>1. /\ doc' = d /\ text' = cache[d] /\ dirty' = FALSE /\ timer' = None
        /\ marks' = marks \cup MarkIf(Outdated(d, cache[d]), "stale")
    BY <1>3, <1>6 DEF Open, LoadFrom
  <2>2. Marked /\ ("stale" \notin marks' => ~Outdated(d, cache[d]))
    BY <2>1 DEF Marked, MarkIf
  <2>3. Loaded(h, d, cache[d])
    BY <1>1, <1>2, <1>3, <1>4, <2>1, <2>2 DEF Loaded
  <2> QED BY <2>3 DEF Step
<1> QED BY <1>5, <1>6

LEMMA StepOpenNew ==
  ASSUME Base, OpenNew
  PROVE  Step
<1>1. /\ page = "list" /\ page' = "editor" /\ mount' = mount + 1 /\ UNCHANGED <<server, reqs, created, marks>>
      /\ UNCHANGED <<doc, text, dirty, saving, timer, armed>>
  BY DEF OpenNew, edited
<1>2. PICK h : Shrunk(h)
  BY <1>1, SameList DEF Base
<1>3. IsBlank'
  BY <1>1 DEF Base, EditFits, IsBlank
<1>4. Fresh(h)
  BY <1>1, <1>2, <1>3 DEF Fresh, Marked
<1> QED BY <1>4 DEF Step

LEMMA StepFetch ==
  ASSUME Base, Fetch
  PROVE  Step
<1>1. page = "editor" /\ route # None /\ UNCHANGED <<server, reqs, page, mount, created>>
  BY DEF Fetch
<1>2. CASE cache[route] # None
  <2>1. EditSame /\ UNCHANGED marks
    BY <1>1, <1>2 DEF Fetch, edited, EditSame
  <2> QED BY <1>1, <2>1, QuietStep
<1>3. CASE cache[route] = None
  <2>1. PICK h : Shrunk(h)
    BY <1>1, SameList DEF Base
  <2>2. route \in Used /\ timer = None
    BY <1>1, <1>3 DEF Base, EditTyped, EditFits, IsBlank
  <2>3. \A j \in DOMAIN reqs' : Write(reqs'[j]) => reqs'[j].by # mount'
    BY <1>1, <1>3 DEF Base, PutsOnly, Own, Mine
  <2>4. /\ doc' = route /\ text' = server[route] /\ dirty' = FALSE /\ timer' = None
        /\ marks' = marks \cup MarkIf(Outdated(route, server[route]), "stale")
    BY <1>3, <2>2 DEF Fetch, LoadFrom
  <2>5. Marked /\ ("stale" \notin marks' => ~Outdated(route, server[route]))
    BY <2>4 DEF Marked, MarkIf
  <2>6. Loaded(h, route, server[route])
    BY <1>1, <2>1, <2>2, <2>3, <2>4, <2>5 DEF Loaded
  <2> QED BY <2>6 DEF Step
<1> QED BY <1>2, <1>3

\* A save of the editor is appended.
LEMMA SendsIs ==
  ASSUME Base, page = "editor", NEW d, d = doc \/ (timer # None /\ d = timer.doc), reqs' = Append(reqs, Save(d, text)),
         UNCHANGED <<server, created, mount>>, Marked,
         page' = "editor" => UNCHANGED <<doc, text, dirty>> /\ timer' = None
  PROVE  Step
<1>1. d \in Used \cup {None} /\ text \in SUBSET Edits
  BY DEF Base, EditTyped
<1>2. PICK x : x = Save(d, text)
  OBVIOUS
<1>3. /\ x \in Request /\ x.kind = (IF d = None THEN "post" ELSE "put")
      /\ x.doc = d /\ x.body = Payload(text) /\ x.step = "sent" /\ x.by = mount
  BY <1>1, <1>2, SaveIs
<1>4. PICK n : Posted(x, n)
  BY <1>2, <1>3, PostedList DEF Base
<1>5. Sends(x, n)
  BY <1>3, <1>4 DEF Sends
<1> QED BY <1>5 DEF Step

LEMMA StepTimerFires ==
  ASSUME Base, TimerFires
  PROVE  Step
<1>1. /\ page = "editor" /\ timer # None /\ reqs' = Append(reqs, Save(timer.doc, timer.text))
      /\ UNCHANGED <<server, created, page, mount, doc, text, dirty, marks>> /\ timer' = None
  BY DEF TimerFires
<1>2. timer.text = text
  BY <1>1 DEF Base, EditFits
<1>3. Marked
  BY <1>1 DEF Marked
<1> QED BY <1>1, <1>2, <1>3, SendsIs

LEMMA StepSaveNow ==
  ASSUME Base, SaveNow
  PROVE  Step
<1>1. /\ page = "editor" /\ reqs' = Append(reqs, Save(doc, text))
      /\ UNCHANGED <<server, created, page, mount, doc, text, dirty, marks>> /\ timer' = None
  BY DEF SaveNow, Shown
<1>2. Marked
  BY <1>1 DEF Marked
<1> QED BY <1>1, <1>2, SendsIs

LEMMA AsksIs ==
  ASSUME Base, NEW kind \in {"master", "delete"}, NEW d \in Used, reqs' = Append(reqs, Sent(kind, d, {})),
         UNCHANGED <<server, created, page, mount, edited, marks>>
  PROVE  Step
<1>1. d # None /\ Payload({}) = {}
  BY UsedIs, NoneFacts, PayloadIn DEF Base, StoreInv
<1>2. Sent(kind, d, {}) \in Request /\ ~Write(Sent(kind, d, {}))
  <2>1. Sent(kind, d, {}).kind = kind
    BY DEF Sent
  <2> QED BY <1>1, <2>1, SentIs DEF Write
<1>3. PICK n : Posted(Sent(kind, d, {}), n)
  BY <1>2, PostedList DEF Base
<1>4. Asks(Sent(kind, d, {}), n)
  BY <1>2, <1>3 DEF Asks, Marked, EditSame, edited
<1> QED BY <1>4 DEF Step

LEMMA StepLeave ==
  ASSUME Base, Leave
  PROVE  Step
<1> DEFINE flush == armed /\ dirty
<1>1. /\ page = "editor" /\ page' = "list" /\ UNCHANGED <<server, created, mount>>
      /\ reqs' = (IF flush THEN Append(reqs, Save(doc, text)) ELSE reqs)
      /\ marks' = marks \cup MarkIf(~flush /\ Uncovered, "dropped")
  BY DEF Leave
<1>2. CASE flush
  <2>1. Marked
    BY <1>1, <1>2 DEF Marked, MarkIf
  <2> QED BY <1>1, <1>2, <2>1, SendsIs
<1>3. CASE ~flush
  <2>1. PICK h : Shrunk(h)
    BY <1>1, <1>3, SameList DEF Base
  <2>2. ~dirty
    BY <1>3 DEF Base, EditFits, EditTyped
  <2>3. marks \subseteq marks' /\ ("dropped" \in marks' => "dropped" \in marks \/ Uncovered)
    BY <1>1 DEF MarkIf
  <2>4. Leaves(h)
    BY <1>1, <2>1, <2>2, <2>3 DEF Leaves
  <2> QED BY <2>4 DEF Step
<1> QED BY <1>2, <1>3

LEMMA StepCloseTab ==
  ASSUME Base, CloseTab
  PROVE  Step
<1>1. /\ page' = "closed" /\ reqs' = <<>> /\ UNCHANGED <<server, created, mount>>
      /\ marks' = marks \cup MarkIf(~dirty /\ Uncovered, "dropped")
  BY DEF CloseTab
<1>2. PICK h : Shrunk(h)
  BY <1>1, NoList
<1>3. marks \subseteq marks' /\ ("dropped" \in marks' => "dropped" \in marks \/ (~dirty /\ Uncovered))
  BY <1>1 DEF MarkIf
<1>4. Leaves(h)
  BY <1>1, <1>2, <1>3 DEF Leaves
<1> QED BY <1>4 DEF Step

LEMMA StepServe ==
  ASSUME Base, NEW i \in DOMAIN reqs, Serve(i)
  PROVE  Step
<1>1. /\ reqs[i].step = "sent" /\ UNCHANGED <<plan, cache, page, route, errored, mount, edited, fails>> /\ EditSame
      /\ \/ ServePost(i, reqs[i]) \/ ServePut(i, reqs[i]) \/ ServeMaster(i, reqs[i])
         \/ ServeDelete(i, reqs[i]) \/ Refuse(i, reqs[i])
  BY DEF Serve, EditSame, edited
<1>2. Marked
  <2>1. \/ UNCHANGED marks
        \/ \E c, m : m \in {"reordered", "gone", "refused"} /\ marks' = marks \cup MarkIf(c, m)
    BY <1>1 DEF ServePost, ServePut, ServeMaster, ServeDelete, Refuse
  <2> QED BY <2>1 DEF Marked, MarkIf
<1>3. CASE ServePost(i, reqs[i])
  <2>1. PICK d \in Docs \ Used : /\ Served(i, "done", d, reqs[i].body) /\ reqs[i].body \in SUBSET Edits
                                 /\ server' = [server EXCEPT ![d] = reqs[i].body] /\ d # None /\ Used' = Used \cup {d}
    BY <1>1, <1>3, PostServed
  <2>2. PICK r : r = Became(reqs[i], "done", d, reqs[i].body)
    OBVIOUS
  <2>3. /\ Changed(i, r) /\ r.kind = reqs[i].kind /\ r.by = reqs[i].by /\ r.body = reqs[i].body
        /\ r.step = "done" /\ r.doc = d
    BY <2>1, <2>2, BecameIs DEF Served, Copies
  <2>4. reqs[i].kind = "post" /\ created' = [created EXCEPT ![r.by] = @ \cup {d}]
    <3>1. reqs[i].kind = "post" /\ created' = [created EXCEPT ![r.by] = @ \cup {Min(Unused)}]
          /\ server' = [server EXCEPT ![Min(Unused)] = reqs[i].body] /\ Finish(i, "done", Min(Unused), reqs[i].body)
      BY <1>3, <2>3 DEF ServePost
    <3>2. reqs'[i].doc = Min(Unused)
      BY <3>1, Places DEF Finish, Base, Request, Listed
    <3>3. Min(Unused) = d
      BY <2>3, <3>2 DEF Changed
    <3> QED BY <3>1, <3>3
  <2>5. Creates(i, r, d)
    BY <1>1, <1>2, <2>1, <2>3, <2>4 DEF Creates, Settled
  <2> QED BY <2>5 DEF Step
<1>4. CASE ServePut(i, reqs[i])
  <2>1. /\ reqs[i].doc \in Used /\ reqs[i].body \in SUBSET Edits /\ Served(i, "done", reqs[i].doc, reqs[i].body)
        /\ reqs[i].kind = "put" /\ server' = [server EXCEPT ![reqs[i].doc] = reqs[i].body] /\ UNCHANGED created
    BY <1>1, <1>4, PutServed DEF ServePut
  <2>2. reqs[i].doc \in Docs
    BY <2>1, UsedIs DEF Base, StoreInv
  <2>3. PICK r : r = Became(reqs[i], "done", reqs[i].doc, reqs[i].body)
    OBVIOUS
  <2>4. /\ Changed(i, r) /\ r.kind = reqs[i].kind /\ r.by = reqs[i].by /\ r.body = reqs[i].body
        /\ r.step = "done" /\ r.doc = reqs[i].doc
    <3>1. reqs[i] \in Request /\ Changed(i, r)
      BY <2>1, <2>2, <2>3 DEF Served
    <3> QED BY <3>1, <2>3 DEF Became, Request
  <2>5. ASSUME "reordered" \notin marks', NEW j \in DOMAIN reqs, j < i, reqs[j].kind = "put", reqs[j].doc = r.doc
        PROVE  reqs[j].step # "sent"
    <3>1. j \in 1..(i - 1)
      BY <2>5 DEF Base, Listed
    <3>2. ~(\E k \in 1..(i - 1) : reqs[k].kind = "put" /\ reqs[k].doc = reqs[i].doc /\ reqs[k].step = "sent")
      BY <1>4, <2>5 DEF ServePut, MarkIf
    <3> QED BY <2>4, <2>5, <3>1, <3>2
  <2>6. Stores(i, r)
    BY <1>1, <1>2, <2>1, <2>4, <2>5 DEF Stores, Settled
  <2> QED BY <2>6 DEF Step
<1>5. CASE ServeMaster(i, reqs[i])
  <2>1. /\ reqs[i].doc \in Used /\ server[reqs[i].doc] \in SUBSET Edits /\ Served(i, "done", reqs[i].doc, server[reqs[i].doc])
        /\ reqs[i].kind = "master" /\ UNCHANGED <<server, created>>
    BY <1>1, <1>5, MasterServed DEF ServeMaster
  <2>2. reqs[i].doc \in Docs
    BY <2>1, UsedIs DEF Base, StoreInv
  <2>3. PICK r : r = Became(reqs[i], "done", reqs[i].doc, server[reqs[i].doc])
    OBVIOUS
  <2>4. /\ Changed(i, r) /\ r.kind = reqs[i].kind /\ r.by = reqs[i].by /\ r.body = reqs[i].body
        /\ r.step = "done" /\ r.doc = reqs[i].doc
    <3>1. PICK c : c = server[reqs[i].doc]
      OBVIOUS
    <3>2. c \in Copies /\ Served(i, "done", reqs[i].doc, c) /\ r = Became(reqs[i], "done", reqs[i].doc, c)
      BY <2>1, <2>3, <3>1 DEF Copies
    <3>3. Changed(i, r) /\ reqs[i] \in Request
      BY <3>2 DEF Served
    <3>4. /\ r.kind = reqs[i].kind /\ r.by = reqs[i].by /\ r.body = reqs[i].body
          /\ r.step = "done" /\ r.doc = reqs[i].doc
      BY <3>2, <3>3 DEF Became, Request
    <3> QED BY <3>3, <3>4
  <2>5. Ends(i, r)
    BY <1>1, <1>2, <2>1, <2>4 DEF Ends, Settled, Write
  <2> QED BY <2>5 DEF Step
<1>6. CASE ServeDelete(i, reqs[i])
  <2>1. /\ reqs[i].doc \in Used /\ Served(i, "done", reqs[i].doc, None)
        /\ reqs[i].kind = "delete" /\ server' = [server EXCEPT ![reqs[i].doc] = None] /\ UNCHANGED created
    BY <1>1, <1>6, DeleteServed DEF ServeDelete
  <2>2. reqs[i].doc \in Docs
    BY <2>1, UsedIs DEF Base, StoreInv
  <2>3. PICK r : r = Became(reqs[i], "done", reqs[i].doc, None)
    OBVIOUS
  <2>4. /\ Changed(i, r) /\ r.kind = reqs[i].kind /\ r.by = reqs[i].by /\ r.body = reqs[i].body
        /\ r.step = "done" /\ r.doc = reqs[i].doc
    <3>1. reqs[i] \in Request /\ Changed(i, r)
      BY <2>1, <2>2, <2>3 DEF Served
    <3> QED BY <3>1, <2>3 DEF Became, Request
  <2>5. \A d \in Docs : server'[d] \in {server[d], None}
    BY <2>1, <2>2 DEF Base, StoreInv
  <2>6. Ends(i, r)
    BY <1>1, <1>2, <2>1, <2>4, <2>5 DEF Ends, Settled, Write
  <2> QED BY <2>6 DEF Step
<1>7. CASE Refuse(i, reqs[i])
  <2>1. Finish(i, "failed", reqs[i].doc, None) /\ UNCHANGED <<plan, server, created>>
    BY <1>7 DEF Refuse
  <2>2. Served(i, "failed", reqs[i].doc, None) /\ reqs[i].doc \in Docs \cup {None}
    BY <1>1, <2>1, Failed DEF Counted
  <2>3. PICK r : r = Became(reqs[i], "failed", reqs[i].doc, None)
    OBVIOUS
  <2>4. /\ Changed(i, r) /\ r.kind = reqs[i].kind /\ r.by = reqs[i].by /\ r.body = reqs[i].body
        /\ r.step = "failed" /\ r.doc = reqs[i].doc
    <3>1. reqs[i] \in Request /\ Changed(i, r)
      BY <2>1, <2>2, <2>3 DEF Served
    <3> QED BY <3>1, <2>3 DEF Became, Request
  <2>5. Ends(i, r)
    BY <1>1, <1>2, <2>1, <2>4 DEF Ends, Settled
  <2> QED BY <2>5 DEF Step
<1> QED BY <1>1, <1>3, <1>4, <1>5, <1>6, <1>7

LEMMA StepFail ==
  ASSUME Base, NEW i \in DOMAIN reqs, Fail(i)
  PROVE  Step
<1>1. Served(i, "failed", reqs[i].doc, None) /\ reqs[i].doc \in Docs \cup {None}
  BY FailServed
<1>2. PICK r : r = Became(reqs[i], "failed", reqs[i].doc, None)
  OBVIOUS
<1>3. /\ Changed(i, r) /\ r.kind = reqs[i].kind /\ r.by = reqs[i].by /\ r.body = reqs[i].body
      /\ r.step = "failed" /\ r.doc = reqs[i].doc
  <2>1. reqs[i] \in Request /\ Changed(i, r)
    BY <1>1, <1>2 DEF Served
  <2> QED BY <2>1, <1>2 DEF Became, Request
<1>4. UNCHANGED <<server, created>> /\ EditSame /\ Marked /\ "failed" \in marks'
  BY DEF Fail, EditSame, edited, Marked
<1>5. Ends(i, r)
  BY <1>3, <1>4 DEF Ends, Settled
<1> QED BY <1>5 DEF Step

LEMMA RemovedIs ==
  ASSUME NEW i \in DOMAIN reqs, NEW h, Removed(i, h),
         NEW k \in DOMAIN reqs, \A j \in DOMAIN reqs' : h[j] # k
  PROVE  k = i
  BY DEF Removed

\* Request i goes, and the editor takes no notice, or loads the copy it brought.
LEMMA StepMayLoad ==
  ASSUME Base, NEW i \in DOMAIN reqs, Answer(i), Cached(reqs[i]), reqs[i].doc \in Docs, MaybeLoad(reqs[i]),
         ~Own(reqs[i])
  PROVE  Step
<1>1. UNCHANGED <<server, page, route, mount, created>>
  BY Answered
<1>2. PICK h : Removed(i, h)
  BY Answered
<1>3. Shrunk(h)
  BY <1>2 DEF Removed
<1>4. CASE Loads(reqs[i])
  <2>1. /\ page' = "editor" /\ route # None /\ cache[route] = None /\ reqs[i].doc \in Used
        /\ LoadFrom(reqs[i].doc, reqs[i].reply)
        /\ marks' = marks \cup MarkIf(Outdated(reqs[i].doc, reqs[i].reply), "stale")
    BY <1>1, <1>4 DEF Loads
  <2>2. timer = None
    BY <1>1, <2>1 DEF Base, EditFits, IsBlank
  <2>3. \A j \in DOMAIN reqs' : Write(reqs'[j]) => reqs'[j].by # mount'
    BY <1>1, <1>3, <2>1 DEF Base, PutsOnly, Own, Mine, Shrunk
  <2>4. doc' = reqs[i].doc /\ text' = reqs[i].reply /\ dirty' = FALSE /\ timer' = None
    BY <2>1, <2>2 DEF LoadFrom
  <2>5. Marked /\ ("stale" \notin marks' => ~Outdated(reqs[i].doc, reqs[i].reply))
    BY <2>1 DEF Marked, MarkIf
  <2>6. Loaded(h, reqs[i].doc, reqs[i].reply)
    BY <1>1, <1>3, <2>1, <2>3, <2>4, <2>5 DEF Loaded
  <2> QED BY <2>6 DEF Step
<1>5. CASE UNCHANGED <<doc, text, dirty, saving, timer, armed, marks>>
  <2>1. Quiet(h)
    BY <1>1, <1>2, <1>3, <1>5, RemovedIs DEF Quiet, Marked, EditSame
  <2> QED BY <2>1 DEF Step
<1> QED BY <1>1, <1>4, <1>5, MayLoad

LEMMA StepAnswer ==
  ASSUME Base, NEW i \in DOMAIN reqs, Answer(i)
  PROVE  Step
<1>1. /\ reqs[i] \in Request /\ Sane(mount, Used, reqs[i])
      /\ UNCHANGED <<plan, server, page, route, mount, fails, created>>
  BY Answered
<1>2. PICK h : Removed(i, h)
  BY Answered
<1>3. Shrunk(h)
  BY <1>2 DEF Removed
<1>4. CASE AnswerSave(i, reqs[i])
  <2>1. /\ Cached(reqs[i]) /\ reqs[i].doc \in Docs /\ Write(reqs[i])
        /\ IF Mine(reqs[i]) THEN Merged(reqs[i]) ELSE MaybeLoad(reqs[i])
    BY <1>4, SaveAnswered
  <2>2. CASE Mine(reqs[i])
    <3>1. /\ reqs[i].step = "done" /\ Own(reqs[i]) /\ reqs[i].doc \in Used
          /\ doc' = reqs[i].doc /\ dirty' = FALSE /\ UNCHANGED <<text, timer>>
      BY <2>1, <2>2 DEF Merged, Own
    <3>2. marks' = marks \cup MarkIf(Payload(text) # reqs[i].body, "masked")
                         \cup MarkIf(Payload(text) # reqs[i].body /\ timer = None
                                       /\ {q \in Writes : Mine(q)} = {reqs[i]}, "silent")
      BY <2>1, <2>2 DEF Merged
    <3>3. /\ Marked /\ (Payload(text) # reqs[i].body => "masked" \in marks')
          /\ Payload(text) # reqs[i].body /\ timer = None /\ {q \in Writes : Mine(q)} = {reqs[i]} => "silent" \in marks'
      BY <3>2 DEF Marked, MarkIf
    <3>4. Merges(i, h)
      BY <1>1, <1>2, <3>1, <3>3 DEF Merges
    <3> QED BY <3>4 DEF Step
  <2>3. CASE ~Mine(reqs[i])
    BY <2>1, <2>3, StepMayLoad DEF Own
  <2> QED BY <2>2, <2>3
<1>5. CASE SaveFailed(i, reqs[i])
  <2>1. /\ reqs[i].step = "failed" /\ EditSame
        /\ marks' = marks \cup MarkIf(Mine(reqs[i]) /\ ~dirty, "silent")
    BY <1>1, <1>5 DEF SaveFailed, EditSame
  <2>2. Marked /\ (Own(reqs[i]) => dirty \/ "silent" \in marks')
    BY <2>1 DEF Marked, MarkIf, Own
  <2>3. Quiet(h)
    BY <1>1, <1>2, <1>3, <2>1, <2>2, RemovedIs DEF Quiet
  <2> QED BY <2>3 DEF Step
<1>6. CASE AnswerMaster(i, reqs[i])
  <2>1. reqs[i].kind = "master" /\ reqs[i].step = "done" /\ SetQueryData(reqs[i]) /\ MaybeLoad(reqs[i])
    BY <1>6 DEF AnswerMaster
  <2>2. Cached(reqs[i])
    BY <1>1, <2>1, CacheSet
  <2>3. reqs[i].doc \in Docs /\ ~Own(reqs[i])
    BY <1>1, <2>1 DEF Sane, Request, Own, Write
  <2> QED BY <2>1, <2>2, <2>3, StepMayLoad
<1>7. CASE AnswerOther(i, reqs[i])
  <2>1. EditSame /\ UNCHANGED marks /\ ~Own(reqs[i])
    BY <1>1, <1>7 DEF AnswerOther, EditSame, edited, Own, Write
  <2>2. Quiet(h)
    BY <1>1, <1>2, <1>3, <2>1, RemovedIs DEF Quiet, Marked
  <2> QED BY <2>2 DEF Step
<1> QED BY <1>4, <1>5, <1>6, <1>7 DEF Answer

LEMMA StepIs == Base /\ [Next]_vars => Step
<1> SUFFICES ASSUME Base, [Next]_vars PROVE Step
  OBVIOUS
<1>1. ASSUME NEW d \in Docs, Open(d) PROVE Step
  BY <1>1, StepOpen
<1>2. ASSUME NEW d \in Docs, ListMenu(d) PROVE Step
  <2>1. d \in Used
    BY <1>2 DEF ListMenu, Base, StoreInv
  <2>2. PICK kind \in {"master", "delete"} : reqs' = Append(reqs, Sent(kind, d, {}))
    BY <1>2 DEF ListMenu
  <2> QED BY <1>2, <2>1, <2>2, AsksIs DEF ListMenu
<1>3. CASE OpenNew
  BY <1>3, StepOpenNew
<1>4. CASE Fetch
  BY <1>4, StepFetch
<1>5. CASE FetchFails
  BY <1>5, QuietStep DEF FetchFails, EditSame, edited
<1>6. ASSUME NEW e \in Edits, Type(e) PROVE Step
  <2>1. Typed(e)
    BY <1>6 DEF Type, Shown, Typed, Marked
  <2> QED BY <2>1 DEF Step
<1>7. CASE TimerFires
  BY <1>7, StepTimerFires
<1>8. CASE SaveNow
  BY <1>8, StepSaveNow
<1>9. CASE ToggleMaster
  <2>1. doc \in Used
    BY <1>9 DEF ToggleMaster, Base, EditTyped
  <2> QED BY <1>9, <2>1, AsksIs DEF ToggleMaster
<1>10. CASE Leave
  BY <1>10, StepLeave
<1>11. CASE CloseTab
  BY <1>11, StepCloseTab
<1>12. ASSUME NEW i \in DOMAIN reqs, Serve(i) PROVE Step
  BY <1>12, StepServe
<1>13. ASSUME NEW i \in DOMAIN reqs, Fail(i) PROVE Step
  BY <1>13, StepFail
<1>14. ASSUME NEW i \in DOMAIN reqs, Answer(i) PROVE Step
  BY <1>14, StepAnswer
<1>15. CASE UNCHANGED vars
  BY <1>15, QuietStep DEF vars, edited, EditSame
<1> QED BY <1>1, <1>2, <1>3, <1>4, <1>5, <1>6, <1>7, <1>8, <1>9, <1>10, <1>11, <1>12, <1>13, <1>14, <1>15 DEF Next

----------------------------------------------------------------------------
(* The resume a save has just created is known to nobody else.             *)

OwnAt(i) == Own(reqs[i])
DonePost(i) == reqs[i].kind = "post" /\ reqs[i].step = "done"
\* Save j is not about the resume post i has created, or is of a later editor.
Apart(i, j) == /\ reqs[j].kind = "put" /\ reqs[j].doc = reqs[i].doc => reqs[j].by > reqs[i].by
               /\ reqs[j].kind = "post" => reqs[j].doc # reqs[i].doc
NewPairs == \A i, j \in DOMAIN reqs : i # j /\ DonePost(i) => Apart(i, j)
NewMine == \A i \in DOMAIN reqs : DonePost(i) /\ OwnAt(i) =>
             doc # reqs[i].doc /\ (timer # None => timer.doc # reqs[i].doc)

\* What is known of each request; a sent post has no resume, a done one has.
LEMMA ReqIs ==
  ASSUME Base, NEW i \in DOMAIN reqs
  PROVE  /\ i \in Nat /\ reqs[i] \in Request /\ reqs[i].by \in Nat /\ reqs[i].by <= mount /\ mount \in Nat
         /\ reqs[i].doc \in Used \cup {None} /\ Used \subseteq Docs /\ None \notin Used
         /\ (Write(reqs[i]) => Payload(reqs[i].body) = reqs[i].body)
         /\ (reqs[i].kind = "post" /\ reqs[i].step = "sent" => reqs[i].doc = None)
         /\ (reqs[i].kind # "post" \/ reqs[i].step = "done" => reqs[i].doc # None)
<1>1. reqs[i] \in Request /\ i \in Nat
  BY Places DEF Base
<1>2. Sane(mount, Used, reqs[i]) /\ mount \in Nat
  BY DEF Base, AllSane, StoreInv
<1>3. Used \subseteq Docs /\ None \notin Used
  BY UsedIs, NoneFacts DEF Base, StoreInv
<1> QED BY <1>1, <1>2, <1>3 DEF Sane

LEMMA PairsShrunk ==
  ASSUME NewPairs, NEW h, Shrunk(h)
  PROVE  NewPairs'
<1> SUFFICES ASSUME NEW i \in DOMAIN reqs', NEW j \in DOMAIN reqs', i # j, DonePost(i)'
             PROVE  Apart(i, j)'
  BY DEF NewPairs
<1>1. h[i] \in DOMAIN reqs /\ h[j] \in DOMAIN reqs /\ h[i] # h[j] /\ reqs'[i] = reqs[h[i]] /\ reqs'[j] = reqs[h[j]]
  BY DEF Shrunk
<1>2. DonePost(h[i])
  BY <1>1 DEF DonePost
<1>3. Apart(h[i], h[j])
  BY <1>1, <1>2 DEF NewPairs
<1> QED BY <1>1, <1>3 DEF Apart

LEMMA MineShrunk ==
  ASSUME NewMine, NEW h, Shrunk(h), UNCHANGED <<page, mount, doc, timer>>
  PROVE  NewMine'
<1> SUFFICES ASSUME NEW i \in DOMAIN reqs', DonePost(i)', OwnAt(i)'
             PROVE  doc # reqs'[i].doc /\ (timer # None => timer.doc # reqs'[i].doc)
  BY DEF NewMine
<1>1. h[i] \in DOMAIN reqs /\ reqs'[i] = reqs[h[i]]
  BY DEF Shrunk
<1>2. DonePost(h[i]) /\ OwnAt(h[i])
  BY <1>1 DEF DonePost, OwnAt, Own, Mine
<1> QED BY <1>1, <1>2 DEF NewMine

\* Nobody has sent anything for the editor that is open now.
LEMMA NoOwn ==
  ASSUME \A j \in DOMAIN reqs' : Write(reqs'[j]) => reqs'[j].by # mount'
  PROVE  \A j \in DOMAIN reqs' : ~OwnAt(j)'
  BY DEF OwnAt, Own, Mine, Write

LEMMA FreshNoOwn ==
  ASSUME Base, NEW h, Fresh(h)
  PROVE  \A j \in DOMAIN reqs' : ~OwnAt(j)'
<1>1. ASSUME NEW j \in DOMAIN reqs' PROVE reqs'[j].by # mount'
  <2>1. h[j] \in DOMAIN reqs /\ reqs'[j] = reqs[h[j]]
    BY DEF Fresh, Shrunk
  <2>2. PICK k \in DOMAIN reqs : reqs'[j] = reqs[k]
    BY <2>1
  <2> QED BY <2>2, ReqIs DEF Fresh
<1> QED BY <1>1, NoOwn

LEMMA AwayNoOwn ==
  ASSUME page' # "editor"
  PROVE  \A j \in DOMAIN reqs' : ~OwnAt(j)'
  BY DEF OwnAt, Own, Mine

\* A request that changes its answer stays whose it was.
LEMMA SettledIs ==
  ASSUME NEW i, NEW r, Settled(i, r)
  PROVE  /\ DOMAIN reqs' = DOMAIN reqs /\ reqs'[i] = r /\ i \in DOMAIN reqs
         /\ \A j \in DOMAIN reqs : j # i => reqs'[j] = reqs[j]
         /\ \A j \in DOMAIN reqs : /\ reqs'[j].kind = reqs[j].kind /\ reqs'[j].by = reqs[j].by
                                   /\ reqs'[j].body = reqs[j].body /\ OwnAt(j)' = OwnAt(j)
<1>1. DOMAIN reqs' = DOMAIN reqs /\ reqs'[i] = r /\ i \in DOMAIN reqs
      /\ \A j \in DOMAIN reqs : j # i => reqs'[j] = reqs[j]
  BY DEF Settled, Changed
<1>2. \A j \in DOMAIN reqs : reqs'[j].kind = reqs[j].kind /\ reqs'[j].by = reqs[j].by /\ reqs'[j].body = reqs[j].body
  BY <1>1 DEF Settled
<1>3. \A j \in DOMAIN reqs : OwnAt(j)' = OwnAt(j)
  BY <1>2 DEF OwnAt, Own, Mine, Write, Settled, EditSame
<1> QED BY <1>1, <1>2, <1>3

LEMMA NewSends ==
  ASSUME Base, NewPairs, NewMine, NEW x, NEW n, Sends(x, n)
  PROVE  NewPairs' /\ NewMine'
<1>1. /\ n \notin DOMAIN reqs /\ DOMAIN reqs' = DOMAIN reqs \cup {n} /\ reqs'[n] = x
      /\ \A j \in DOMAIN reqs : reqs'[j] = reqs[j]
  BY DEF Sends, Posted
<1>2. x.by = mount /\ x.step = "sent" /\ page = "editor"
  BY DEF Sends
<1>3. NewPairs'
  <2> SUFFICES ASSUME NEW i \in DOMAIN reqs', NEW j \in DOMAIN reqs', i # j, DonePost(i)'
               PROVE  Apart(i, j)'
    BY DEF NewPairs
  <2>1. i \in DOMAIN reqs /\ DonePost(i) /\ reqs'[i] = reqs[i]
    BY <1>1, <1>2 DEF DonePost
  <2>2. CASE j \in DOMAIN reqs
    BY <1>1, <2>1, <2>2 DEF NewPairs, Apart
  <2>3. CASE j = n
    <3>1. reqs[i].doc # None /\ reqs[i].by \in Nat /\ reqs[i].by <= mount /\ mount \in Nat
      BY <2>1, ReqIs DEF DonePost
    <3>2. reqs[i].by = mount => x.doc # reqs[i].doc
      BY <1>2, <2>1 DEF NewMine, OwnAt, Own, Mine, Write, DonePost, Sends
    <3>3. x.doc = reqs[i].doc => x.by > reqs[i].by
      BY <1>2, <3>1, <3>2
    <3>4. x.kind = "post" => x.doc = None
      BY DEF Sends
    <3> QED BY <1>1, <2>1, <2>3, <3>1, <3>3, <3>4 DEF Apart
  <2> QED BY <1>1, <2>2, <2>3
<1>4. NewMine'
  <2> SUFFICES ASSUME NEW i \in DOMAIN reqs', DonePost(i)', OwnAt(i)'
               PROVE  doc' # reqs'[i].doc /\ (timer' # None => timer'.doc # reqs'[i].doc)
    BY DEF NewMine
  <2>1. i \in DOMAIN reqs /\ DonePost(i) /\ reqs'[i] = reqs[i]
    BY <1>1, <1>2 DEF DonePost
  <2>2. page' = "editor" /\ OwnAt(i)
    BY <1>2, <2>1 DEF OwnAt, Own, Mine, Sends
  <2> QED BY <2>1, <2>2 DEF NewMine, Sends
<1> QED BY <1>3, <1>4

LEMMA NewAsks ==
  ASSUME Base, NewPairs, NewMine, NEW x, NEW n, Asks(x, n)
  PROVE  NewPairs' /\ NewMine'
<1>1. /\ n \notin DOMAIN reqs /\ DOMAIN reqs' = DOMAIN reqs \cup {n} /\ reqs'[n] = x
      /\ \A j \in DOMAIN reqs : reqs'[j] = reqs[j]
  BY DEF Asks, Posted
<1>2. x.kind \notin {"post", "put"} /\ EditSame
  BY DEF Asks, Write
<1>3. NewPairs'
  <2> SUFFICES ASSUME NEW i \in DOMAIN reqs', NEW j \in DOMAIN reqs', i # j, DonePost(i)'
               PROVE  Apart(i, j)'
    BY DEF NewPairs
  <2>1. i \in DOMAIN reqs /\ DonePost(i) /\ reqs'[i] = reqs[i]
    BY <1>1, <1>2 DEF DonePost
  <2> QED BY <1>1, <1>2, <2>1 DEF NewPairs, Apart
<1>4. NewMine'
  <2> SUFFICES ASSUME NEW i \in DOMAIN reqs', DonePost(i)', OwnAt(i)'
               PROVE  doc' # reqs'[i].doc /\ (timer' # None => timer'.doc # reqs'[i].doc)
    BY DEF NewMine
  <2>1. i \in DOMAIN reqs /\ DonePost(i) /\ reqs'[i] = reqs[i]
    BY <1>1, <1>2 DEF DonePost
  <2>2. OwnAt(i)
    BY <1>2, <2>1 DEF OwnAt, Own, Mine, EditSame
  <2> QED BY <1>2, <2>1, <2>2 DEF NewMine, EditSame
<1> QED BY <1>3, <1>4

\* An answer that does not change the resume of a request, or makes no post done.
LEMMA NewSettles ==
  ASSUME Base, NewPairs, NewMine, NEW i, NEW r, Settled(i, r), r.doc = reqs[i].doc,
         ~(r.kind = "post" /\ r.step = "done")
  PROVE  NewPairs' /\ NewMine'
<1>1. \A j \in DOMAIN reqs : reqs'[j].doc = reqs[j].doc /\ (DonePost(j)' => DonePost(j))
  BY SettledIs DEF DonePost
<1>2. NewPairs'
  BY <1>1, SettledIs DEF NewPairs, Apart
<1>3. NewMine'
  BY <1>1, SettledIs DEF NewMine, Settled, EditSame
<1> QED BY <1>2, <1>3

LEMMA NewCreates ==
  ASSUME Base, NewPairs, NewMine, NEW i, NEW r, NEW d, Creates(i, r, d)
  PROVE  NewPairs' /\ NewMine'
<1>1. /\ r.kind = "post" /\ r.step = "done" /\ r.doc = d /\ d \in Docs \ Used /\ d # None /\ Settled(i, r)
  BY NoneFacts DEF Creates
<1>2. /\ DOMAIN reqs' = DOMAIN reqs /\ reqs'[i] = r /\ i \in DOMAIN reqs
      /\ \A j \in DOMAIN reqs : j # i => reqs'[j] = reqs[j]
  BY <1>1, SettledIs
<1>3. \A j \in DOMAIN reqs : reqs[j].doc # d
  BY <1>1, ReqIs
<1>4. NewPairs'
  <2> SUFFICES ASSUME NEW k \in DOMAIN reqs, NEW j \in DOMAIN reqs, k # j, DonePost(k)'
               PROVE  Apart(k, j)'
    BY <1>2 DEF NewPairs
  <2>1. CASE k = i
    BY <1>1, <1>2, <1>3, <2>1 DEF Apart
  <2>2. CASE k # i
    <3>1. DonePost(k) /\ reqs'[k] = reqs[k]
      BY <1>2, <2>2 DEF DonePost
    <3>2. Apart(k, j)
      BY <3>1 DEF NewPairs
    <3> QED BY <1>1, <1>2, <1>3, <3>1, <3>2 DEF Apart
  <2> QED BY <2>1, <2>2
<1>5. NewMine'
  <2> SUFFICES ASSUME NEW k \in DOMAIN reqs, DonePost(k)', OwnAt(k)'
               PROVE  doc # reqs'[k].doc /\ (timer # None => timer.doc # reqs'[k].doc)
    BY <1>1, <1>2 DEF NewMine, Settled, EditSame
  <2>1. CASE k = i
    BY <1>1, <1>2, <2>1 DEF Base, EditTyped
  <2>2. CASE k # i
    <3>1. DonePost(k) /\ OwnAt(k) /\ reqs'[k] = reqs[k]
      BY <1>1, <1>2, <2>2, SettledIs DEF DonePost
    <3> QED BY <3>1 DEF NewMine
  <2> QED BY <2>1, <2>2
<1> QED BY <1>4, <1>5

LEMMA NewMerges ==
  ASSUME Base, NewPairs, NewMine, NEW i, NEW h, Merges(i, h)
  PROVE  NewPairs' /\ NewMine'
<1>1. Shrunk(h) /\ (\A j \in DOMAIN reqs' : h[j] # i) /\ UNCHANGED <<page, mount, timer>> /\ doc' = reqs[i].doc
      /\ i \in DOMAIN reqs /\ OwnAt(i) /\ reqs[i].step = "done"
  BY DEF Merges, Removed, OwnAt
<1>2. NewPairs'
  BY <1>1, PairsShrunk
<1>3. NewMine'
  <2> SUFFICES ASSUME NEW j \in DOMAIN reqs', DonePost(j)', OwnAt(j)'
               PROVE  doc' # reqs'[j].doc /\ (timer' # None => timer'.doc # reqs'[j].doc)
    BY DEF NewMine
  <2>1. PICK k \in DOMAIN reqs : k = h[j] /\ k # i /\ reqs'[j] = reqs[k]
    BY <1>1 DEF Shrunk
  <2>2. DonePost(k) /\ OwnAt(k)
    BY <1>1, <2>1 DEF DonePost, OwnAt, Own, Mine
  <2>3. Apart(k, i)
    BY <1>1, <2>1, <2>2 DEF NewPairs
  <2>4. reqs[i].by = mount /\ reqs[k].by = mount /\ mount \in Nat /\ Write(reqs[i])
    BY <1>1, <2>2, ReqIs DEF OwnAt, Own, Mine
  <2>5. reqs[i].doc # reqs[k].doc
    BY <2>3, <2>4 DEF Apart, Write
  <2>6. timer # None => timer.doc # reqs[k].doc
    BY <2>2 DEF NewMine
  <2> QED BY <1>1, <2>1, <2>5, <2>6
<1> QED BY <1>2, <1>3

LEMMA NewStep ==
  ASSUME Base, NewPairs, NewMine, Step
  PROVE  NewPairs' /\ NewMine'
<1>1. ASSUME NEW h, Fresh(h) PROVE NewPairs' /\ NewMine'
  BY <1>1, PairsShrunk, FreshNoOwn DEF Fresh, NewMine
<1>2. ASSUME NEW h, Quiet(h) PROVE NewPairs' /\ NewMine'
  BY <1>2, PairsShrunk, MineShrunk DEF Quiet, EditSame
<1>3. ASSUME NEW h, Leaves(h) PROVE NewPairs' /\ NewMine'
  BY <1>3, PairsShrunk, AwayNoOwn DEF Leaves, NewMine
<1>4. ASSUME NEW h, NEW d, NEW c, Loaded(h, d, c) PROVE NewPairs' /\ NewMine'
  BY <1>4, PairsShrunk, NoOwn DEF Loaded, NewMine
<1>5. ASSUME NEW e, Typed(e) PROVE NewPairs' /\ NewMine'
  BY <1>5 DEF Typed, NewPairs, NewMine, Apart, DonePost, OwnAt, Own, Mine
<1>6. ASSUME NEW x, NEW n, Sends(x, n) \/ Asks(x, n) PROVE NewPairs' /\ NewMine'
  BY <1>6, NewSends, NewAsks
<1>7. ASSUME NEW i, NEW r, Stores(i, r) \/ Ends(i, r) PROVE NewPairs' /\ NewMine'
  BY <1>7, NewSettles DEF Stores, Ends, Write
<1>8. ASSUME NEW i, NEW r, NEW d, Creates(i, r, d) PROVE NewPairs' /\ NewMine'
  BY <1>8, NewCreates
<1>9. ASSUME NEW i, NEW h, Merges(i, h) PROVE NewPairs' /\ NewMine'
  BY <1>9, NewMerges
<1> QED BY <1>1, <1>2, <1>3, <1>4, <1>5, <1>6, <1>7, <1>8, <1>9 DEF Step

----------------------------------------------------------------------------
(* The saves of one editor grow, in the order they were sent.              *)

GrowInv ==
  \A i \in DOMAIN reqs : OwnAt(i) =>
    /\ reqs[i].body \subseteq Payload(text)
    /\ \A j \in DOMAIN reqs : i < j /\ OwnAt(j) => reqs[i].body \subseteq reqs[j].body

LEMMA GrowShrunk ==
  ASSUME GrowInv, NEW h, Shrunk(h), UNCHANGED <<page, mount, text>>
  PROVE  GrowInv'
<1>1. \A j \in DOMAIN reqs' : h[j] \in DOMAIN reqs /\ reqs'[j] = reqs[h[j]] /\ (OwnAt(j)' => OwnAt(h[j]))
  BY DEF Shrunk, OwnAt, Own, Mine
<1>2. \A j, k \in DOMAIN reqs' : j < k => h[j] < h[k]
  BY DEF Shrunk
<1> QED BY <1>1, <1>2 DEF GrowInv

LEMMA GrowPosted ==
  ASSUME Base, GrowInv, NEW x, NEW n, Posted(x, n), UNCHANGED <<page, mount, text>>,
         Own(x) => x.body = Payload(text)
  PROVE  GrowInv'
<1>1. /\ n \notin DOMAIN reqs /\ DOMAIN reqs' = DOMAIN reqs \cup {n} /\ reqs'[n] = x /\ n \in Nat
      /\ \A j \in DOMAIN reqs : reqs'[j] = reqs[j] /\ j < n /\ j \in Nat
  BY Places DEF Posted, Base
<1>2. \A j \in DOMAIN reqs : OwnAt(j)' = OwnAt(j)
  BY <1>1 DEF OwnAt, Own, Mine
<1>3. OwnAt(n)' => x.body = Payload(text)
  BY <1>1 DEF OwnAt, Own, Mine
<1> SUFFICES ASSUME NEW i \in DOMAIN reqs', OwnAt(i)'
             PROVE  /\ reqs'[i].body \subseteq Payload(text)
                    /\ \A j \in DOMAIN reqs' : i < j /\ OwnAt(j)' => reqs'[i].body \subseteq reqs'[j].body
  BY DEF GrowInv
<1>4. CASE i = n
  <2>1. \A j \in DOMAIN reqs' : ~(n < j)
    BY <1>1
  <2> QED BY <1>1, <1>3, <1>4, <2>1
<1>5. CASE i \in DOMAIN reqs
  <2>1. /\ reqs'[i] = reqs[i] /\ reqs[i].body \subseteq Payload(text)
        /\ \A j \in DOMAIN reqs : i < j /\ OwnAt(j) => reqs[i].body \subseteq reqs[j].body
    BY <1>1, <1>2, <1>5 DEF GrowInv
  <2> QED BY <1>1, <1>2, <1>3, <2>1
<1> QED BY <1>1, <1>4, <1>5

LEMMA GrowTyped ==
  ASSUME GrowInv, NEW e, Typed(e)
  PROVE  GrowInv'
<1>1. Payload(text) \subseteq Payload(text')
  BY PayloadGrows DEF Typed
<1> QED BY <1>1 DEF Typed, GrowInv, OwnAt, Own, Mine

LEMMA GrowStep ==
  ASSUME Base, GrowInv, Step
  PROVE  GrowInv'
<1>1. ASSUME NEW h, Fresh(h) PROVE GrowInv'
  BY <1>1, FreshNoOwn DEF GrowInv
<1>2. ASSUME NEW h, Quiet(h) PROVE GrowInv'
  BY <1>2, GrowShrunk DEF Quiet, EditSame
<1>3. ASSUME NEW h, Leaves(h) PROVE GrowInv'
  BY <1>3, AwayNoOwn DEF Leaves, GrowInv
<1>4. ASSUME NEW h, NEW d, NEW c, Loaded(h, d, c) PROVE GrowInv'
  BY <1>4, NoOwn DEF Loaded, GrowInv
<1>5. ASSUME NEW e, Typed(e) PROVE GrowInv'
  BY <1>5, GrowTyped
<1>6. ASSUME NEW x, NEW n, Sends(x, n) PROVE GrowInv'
  <2>1. CASE page' = "editor"
    <3>1. Posted(x, n) /\ UNCHANGED <<page, mount, text>> /\ x.body = Payload(text)
      BY <1>6, <2>1 DEF Sends
    <3> QED BY <3>1, GrowPosted
  <2>2. CASE page' # "editor"
    BY <2>2, AwayNoOwn DEF GrowInv
  <2> QED BY <2>1, <2>2
<1>7. ASSUME NEW x, NEW n, Asks(x, n) PROVE GrowInv'
  <2>1. Posted(x, n) /\ UNCHANGED <<page, mount, text>> /\ ~Own(x)
    BY <1>7 DEF Asks, EditSame, Own
  <2> QED BY <2>1, GrowPosted
<1>8. ASSUME NEW i, NEW r, Settled(i, r) PROVE GrowInv'
  BY <1>8, SettledIs DEF GrowInv, Settled, EditSame
<1>9. ASSUME NEW i, NEW h, Merges(i, h) PROVE GrowInv'
  BY <1>9, GrowShrunk DEF Merges, Removed
<1> QED BY <1>1, <1>2, <1>3, <1>4, <1>5, <1>6, <1>7, <1>8, <1>9 DEF Step, Stores, Ends, Creates

----------------------------------------------------------------------------
(* Saves of one resume take effect in the order they were sent, or         *)
(* "reordered" is marked.                                                  *)

PutAt(i) == reqs[i].kind = "put"
OrderInv ==
  "reordered" \notin marks =>
    \A i, j \in DOMAIN reqs : i < j /\ PutAt(i) /\ PutAt(j) /\ reqs[i].doc = reqs[j].doc /\ reqs[i].step = "sent"
                                => reqs[j].step # "done"

LEMMA OrderShrunk ==
  ASSUME OrderInv, NEW h, Shrunk(h), marks \subseteq marks'
  PROVE  OrderInv'
<1>1. \A j \in DOMAIN reqs' : h[j] \in DOMAIN reqs /\ reqs'[j] = reqs[h[j]] /\ (PutAt(j)' => PutAt(h[j]))
  BY DEF Shrunk, PutAt
<1>2. \A j, k \in DOMAIN reqs' : j < k => h[j] < h[k]
  BY DEF Shrunk
<1> QED BY <1>1, <1>2 DEF OrderInv

LEMMA OrderPosted ==
  ASSUME Base, OrderInv, NEW x, NEW n, Posted(x, n), marks \subseteq marks', x.kind = "put" => x.step # "done"
  PROVE  OrderInv'
<1>1. /\ n \notin DOMAIN reqs /\ DOMAIN reqs' = DOMAIN reqs \cup {n} /\ reqs'[n] = x /\ n \in Nat
      /\ \A j \in DOMAIN reqs : reqs'[j] = reqs[j] /\ j < n /\ j \in Nat
  BY Places DEF Posted, Base
<1> SUFFICES ASSUME "reordered" \notin marks', NEW i \in DOMAIN reqs', NEW j \in DOMAIN reqs', i < j, PutAt(i)', PutAt(j)',
                    reqs'[i].doc = reqs'[j].doc, reqs'[i].step = "sent"
             PROVE  reqs'[j].step # "done"
  BY DEF OrderInv
<1>2. CASE j = n
  BY <1>1, <1>2 DEF PutAt
<1>3. CASE j \in DOMAIN reqs
  <2>1. i \in DOMAIN reqs
    BY <1>1, <1>3
  <2> QED BY <1>1, <1>3, <2>1 DEF OrderInv, PutAt
<1> QED BY <1>1, <1>2, <1>3

\* A request that is answered, but no put that becomes done.
LEMMA OrderSettled ==
  ASSUME OrderInv, NEW i, NEW r, Settled(i, r), r.kind = "put" => r.doc = reqs[i].doc /\ r.step = "failed"
  PROVE  OrderInv'
<1>1. /\ DOMAIN reqs' = DOMAIN reqs /\ reqs'[i] = r /\ i \in DOMAIN reqs /\ r.kind = reqs[i].kind
      /\ \A j \in DOMAIN reqs : j # i => reqs'[j] = reqs[j]
  BY SettledIs DEF Settled
<1>2. marks \subseteq marks'
  BY DEF Settled, Marked
<1> SUFFICES ASSUME "reordered" \notin marks', NEW j \in DOMAIN reqs, NEW k \in DOMAIN reqs, j < k, PutAt(j)', PutAt(k)',
                    reqs'[j].doc = reqs'[k].doc, reqs'[j].step = "sent"
             PROVE  reqs'[k].step # "done"
  BY <1>1 DEF OrderInv
<1>3. j # i
  BY <1>1 DEF PutAt
<1>4. CASE k = i
  BY <1>1, <1>4 DEF PutAt
<1>5. CASE k # i
  BY <1>1, <1>2, <1>3, <1>5 DEF OrderInv, PutAt
<1> QED BY <1>4, <1>5

LEMMA OrderStores ==
  ASSUME OrderInv, NEW i, NEW r, Stores(i, r)
  PROVE  OrderInv'
<1>1. /\ DOMAIN reqs' = DOMAIN reqs /\ reqs'[i] = r /\ i \in DOMAIN reqs /\ r.step = "done" /\ r.doc = reqs[i].doc
      /\ \A j \in DOMAIN reqs : j # i => reqs'[j] = reqs[j]
  BY SettledIs DEF Stores
<1>2. marks \subseteq marks'
  BY DEF Stores, Settled, Marked
<1> SUFFICES ASSUME "reordered" \notin marks', NEW j \in DOMAIN reqs, NEW k \in DOMAIN reqs, j < k, PutAt(j)', PutAt(k)',
                    reqs'[j].doc = reqs'[k].doc, reqs'[j].step = "sent"
             PROVE  reqs'[k].step # "done"
  BY <1>1 DEF OrderInv
<1>3. j # i
  BY <1>1
<1>4. CASE k = i
  BY <1>1, <1>3, <1>4 DEF PutAt, Stores
<1>5. CASE k # i
  BY <1>1, <1>2, <1>3, <1>5 DEF OrderInv, PutAt
<1> QED BY <1>4, <1>5

LEMMA OrderStep ==
  ASSUME Base, OrderInv, Step
  PROVE  OrderInv'
<1>1. ASSUME NEW h, Fresh(h) \/ Quiet(h) \/ Leaves(h) PROVE OrderInv'
  BY <1>1, OrderShrunk DEF Fresh, Quiet, Leaves, Marked
<1>2. ASSUME NEW h, NEW d, NEW c, Loaded(h, d, c) PROVE OrderInv'
  BY <1>2, OrderShrunk DEF Loaded, Marked
<1>3. ASSUME NEW e, Typed(e) PROVE OrderInv'
  BY <1>3 DEF Typed, Marked, OrderInv, PutAt
<1>4. ASSUME NEW x, NEW n, Sends(x, n) \/ Asks(x, n) PROVE OrderInv'
  <2>1. Posted(x, n) /\ marks \subseteq marks' /\ (x.kind = "put" => x.step # "done")
    BY <1>4 DEF Sends, Asks, Marked, Write
  <2> QED BY <2>1, OrderPosted
<1>5. ASSUME NEW i, NEW r, Stores(i, r) PROVE OrderInv'
  BY <1>5, OrderStores
<1>6. ASSUME NEW i, NEW r, Ends(i, r) PROVE OrderInv'
  BY <1>6, OrderSettled DEF Ends, Write
<1>7. ASSUME NEW i, NEW r, NEW d, Creates(i, r, d) PROVE OrderInv'
  BY <1>7, OrderSettled DEF Creates
<1>8. ASSUME NEW i, NEW h, Merges(i, h) PROVE OrderInv'
  BY <1>8, OrderShrunk DEF Merges, Removed, Marked
<1> QED BY <1>1, <1>2, <1>3, <1>4, <1>5, <1>6, <1>7, <1>8 DEF Step

----------------------------------------------------------------------------
(* No other editor's save of the same resume is still to be stored, unless *)
(* the editor opened on an old copy.                                       *)

SentTo(d) == \E i \in DOMAIN reqs : PutAt(i) /\ ~OwnAt(i) /\ reqs[i].doc = d /\ reqs[i].step = "sent"
AloneInv ==
  "stale" \notin marks /\ page = "editor" =>
    \A d \in Docs : SentTo(d) => /\ doc # d /\ (timer # None => timer.doc # d)
                                /\ \A i \in DOMAIN reqs : OwnAt(i) => reqs[i].doc # d

LEMMA SentShrunk ==
  ASSUME NEW h, Shrunk(h), UNCHANGED <<page, mount>>
  PROVE  \A d : SentTo(d)' => SentTo(d)
<1>1. \A j \in DOMAIN reqs' : /\ h[j] \in DOMAIN reqs /\ reqs'[j] = reqs[h[j]] /\ (PutAt(j)' => PutAt(h[j]))
                              /\ (OwnAt(j)' <=> OwnAt(h[j]))
  BY DEF Shrunk, PutAt, OwnAt, Own, Mine
<1> QED BY <1>1 DEF SentTo

LEMMA SentPosted ==
  ASSUME NEW x, NEW n, Posted(x, n), UNCHANGED <<page, mount>>, Own(x) \/ ~Write(x)
  PROVE  \A d : SentTo(d)' => SentTo(d)
<1>1. /\ n \notin DOMAIN reqs /\ DOMAIN reqs' = DOMAIN reqs \cup {n} /\ reqs'[n] = x
      /\ \A j \in DOMAIN reqs : reqs'[j] = reqs[j]
  BY DEF Posted
<1>2. \A j \in DOMAIN reqs : (PutAt(j)' <=> PutAt(j)) /\ (OwnAt(j)' <=> OwnAt(j))
  BY <1>1 DEF PutAt, OwnAt, Own, Mine
<1>3. ~(PutAt(n)' /\ ~OwnAt(n)')
  BY <1>1 DEF PutAt, OwnAt, Own, Mine, Write
<1> QED BY <1>1, <1>2, <1>3 DEF SentTo

LEMMA SentSettled ==
  ASSUME NEW i, NEW r, Settled(i, r), r.step # "sent"
  PROVE  \A d : SentTo(d)' => SentTo(d)
<1>1. \A j \in DOMAIN reqs : (PutAt(j)' <=> PutAt(j)) /\ (OwnAt(j)' <=> OwnAt(j))
  BY SettledIs DEF PutAt
<1> QED BY <1>1, SettledIs DEF SentTo

LEMMA AloneLoaded ==
  ASSUME Base, NEW h, NEW d, NEW c, Loaded(h, d, c)
  PROVE  AloneInv'
<1>1. \A j \in DOMAIN reqs' : ~OwnAt(j)'
  BY NoOwn DEF Loaded
<1>2. timer' = None /\ doc' = d
  BY DEF Loaded
<1>3. ASSUME "stale" \notin marks', SentTo(d)' PROVE FALSE
  <2>1. PICK j \in DOMAIN reqs' : reqs'[j].doc = d /\ reqs'[j].step = "sent"
    BY <1>3 DEF SentTo
  <2>2. PICK k \in DOMAIN reqs : reqs'[j] = reqs[k]
    BY DEF Loaded, Shrunk
  <2>3. reqs[k] \in InFlight
    BY DEF InFlight, Range
  <2>4. Outdated(d, c)
    BY <2>1, <2>2, <2>3 DEF Outdated
  <2> QED BY <1>3, <2>4 DEF Loaded
<1> QED BY <1>1, <1>2, <1>3 DEF AloneInv

LEMMA AloneFresh ==
  ASSUME Base, NEW h, Fresh(h)
  PROVE  AloneInv'
<1>1. \A j \in DOMAIN reqs' : ~OwnAt(j)'
  BY FreshNoOwn
<1>2. timer' = None /\ doc' = None
  BY DEF Fresh, IsBlank
<1> QED BY <1>1, <1>2, NoneFacts DEF AloneInv

\* The editor and its saves keep to their resumes, and no save is new to others.
LEMMA AloneKept ==
  ASSUME AloneInv, page' = "editor" => page = "editor", marks \subseteq marks', \A d : SentTo(d)' => SentTo(d),
         page' = "editor" => doc' = doc \/ \E i \in DOMAIN reqs : OwnAt(i) /\ reqs[i].doc = doc',
         timer' # None => \/ timer'.doc = doc
                          \/ timer # None /\ timer'.doc = timer.doc,
         \A j \in DOMAIN reqs' : OwnAt(j)' =>
            \/ \E i \in DOMAIN reqs : OwnAt(i) /\ reqs'[j].doc = reqs[i].doc
            \/ reqs'[j].doc = doc \/ (timer # None /\ reqs'[j].doc = timer.doc)
            \/ ~SentTo(reqs'[j].doc)
  PROVE  AloneInv'
<1> SUFFICES ASSUME "stale" \notin marks', page' = "editor", NEW d \in Docs, SentTo(d)'
             PROVE  /\ doc' # d /\ (timer' # None => timer'.doc # d)
                    /\ \A j \in DOMAIN reqs' : OwnAt(j)' => reqs'[j].doc # d
  BY DEF AloneInv
<1>1. /\ SentTo(d) /\ doc # d /\ (timer # None => timer.doc # d)
      /\ \A i \in DOMAIN reqs : OwnAt(i) => reqs[i].doc # d
  BY DEF AloneInv
<1> QED BY <1>1

LEMMA AloneSends ==
  ASSUME AloneInv, NEW x, NEW n, Sends(x, n)
  PROVE  AloneInv'
<1> SUFFICES ASSUME page' = "editor" PROVE AloneInv'
  BY DEF AloneInv
<1>1. /\ page = "editor" /\ Posted(x, n) /\ UNCHANGED <<page, mount, doc>> /\ timer' = None /\ Own(x)
      /\ marks \subseteq marks'
  BY DEF Sends, Marked, Own, Mine, Write
<1>2. \A d : SentTo(d)' => SentTo(d)
  BY <1>1, SentPosted
<1>3. \A j \in DOMAIN reqs' : OwnAt(j)' =>
        \/ \E i \in DOMAIN reqs : OwnAt(i) /\ reqs'[j].doc = reqs[i].doc
        \/ reqs'[j].doc = doc \/ (timer # None /\ reqs'[j].doc = timer.doc)
  <2> SUFFICES ASSUME NEW j \in DOMAIN reqs', OwnAt(j)'
               PROVE  \/ \E i \in DOMAIN reqs : OwnAt(i) /\ reqs'[j].doc = reqs[i].doc
                      \/ reqs'[j].doc = doc \/ (timer # None /\ reqs'[j].doc = timer.doc)
    OBVIOUS
  <2>1. CASE j \in DOMAIN reqs
    <3>1. reqs'[j] = reqs[j] /\ OwnAt(j)
      BY <1>1, <2>1 DEF Posted, OwnAt, Own, Mine
    <3> QED BY <2>1, <3>1
  <2>2. CASE j = n
    BY <1>1, <2>2 DEF Posted, Sends
  <2> QED BY <1>1, <2>1, <2>2 DEF Posted
<1> QED BY <1>1, <1>2, <1>3, AloneKept

LEMMA AloneShrunk ==
  ASSUME AloneInv, NEW h, Shrunk(h), UNCHANGED <<page, mount, timer>>, marks \subseteq marks',
         doc' = doc \/ \E i \in DOMAIN reqs : OwnAt(i) /\ reqs[i].doc = doc'
  PROVE  AloneInv'
<1>1. \A d : SentTo(d)' => SentTo(d)
  BY SentShrunk
<1>2. \A j \in DOMAIN reqs' : OwnAt(j)' => \E i \in DOMAIN reqs : OwnAt(i) /\ reqs'[j].doc = reqs[i].doc
  BY DEF Shrunk, OwnAt, Own, Mine
<1> QED BY <1>1, <1>2, AloneKept

LEMMA AloneAsks ==
  ASSUME AloneInv, NEW x, NEW n, Asks(x, n)
  PROVE  AloneInv'
<1>1. Posted(x, n) /\ UNCHANGED <<page, mount, doc, timer>> /\ ~Write(x) /\ marks \subseteq marks'
  BY DEF Asks, EditSame, Marked
<1>2. \A d : SentTo(d)' => SentTo(d)
  BY <1>1, SentPosted
<1>3. \A j \in DOMAIN reqs' : OwnAt(j)' => j \in DOMAIN reqs /\ OwnAt(j) /\ reqs'[j] = reqs[j]
  BY <1>1 DEF Posted, OwnAt, Own, Mine
<1> QED BY <1>1, <1>2, <1>3, AloneKept

LEMMA AloneSettles ==
  ASSUME AloneInv, NEW i, NEW r, Settled(i, r), r.step # "sent", r.doc = reqs[i].doc \/ ~SentTo(r.doc)
  PROVE  AloneInv'
<1>1. UNCHANGED <<page, mount, doc, timer>> /\ marks \subseteq marks'
  BY DEF Settled, EditSame, Marked
<1>2. \A d : SentTo(d)' => SentTo(d)
  BY SentSettled
<1>3. \A j \in DOMAIN reqs' : OwnAt(j)' => \/ j \in DOMAIN reqs /\ OwnAt(j) /\ reqs'[j].doc = reqs[j].doc
                                          \/ ~SentTo(reqs'[j].doc)
  BY SettledIs
<1> QED BY <1>1, <1>2, <1>3, AloneKept

LEMMA AloneStep ==
  ASSUME Base, AloneInv, Step
  PROVE  AloneInv'
<1>1. ASSUME NEW h, Fresh(h) PROVE AloneInv'
  BY <1>1, AloneFresh
<1>2. ASSUME NEW h, Quiet(h) PROVE AloneInv'
  BY <1>2, AloneShrunk DEF Quiet, EditSame, Marked
<1>3. ASSUME NEW h, Leaves(h) PROVE AloneInv'
  BY <1>3 DEF Leaves, AloneInv
<1>4. ASSUME NEW h, NEW d, NEW c, Loaded(h, d, c) PROVE AloneInv'
  BY <1>4, AloneLoaded
<1>5. ASSUME NEW e, Typed(e) PROVE AloneInv'
  <2>1. UNCHANGED <<reqs, page, mount, doc>> /\ timer'.doc = doc /\ marks \subseteq marks'
    BY <1>5 DEF Typed, Marked
  <2>2. \A d : SentTo(d)' => SentTo(d)
    BY <2>1 DEF SentTo, PutAt, OwnAt, Own, Mine
  <2>3. \A j \in DOMAIN reqs : OwnAt(j)' <=> OwnAt(j)
    BY <2>1 DEF OwnAt, Own, Mine
  <2> QED BY <2>1, <2>2, <2>3, AloneKept
<1>6. ASSUME NEW x, NEW n, Sends(x, n) \/ Asks(x, n) PROVE AloneInv'
  BY <1>6, AloneSends, AloneAsks
<1>7. ASSUME NEW i, NEW r, Stores(i, r) PROVE AloneInv'
  BY <1>7, AloneSettles DEF Stores
<1>8. ASSUME NEW i, NEW r, Ends(i, r) PROVE AloneInv'
  BY <1>8, AloneSettles DEF Ends
<1>9. ASSUME NEW i, NEW r, NEW d, Creates(i, r, d) PROVE AloneInv'
  <2>1. ~SentTo(d)
    BY <1>9, ReqIs DEF Creates, SentTo
  <2> QED BY <1>9, <2>1, AloneSettles DEF Creates
<1>10. ASSUME NEW i, NEW h, Merges(i, h) PROVE AloneInv'
  BY <1>10, AloneShrunk DEF Merges, Removed, OwnAt, Marked
<1> QED BY <1>1, <1>2, <1>3, <1>4, <1>5, <1>6, <1>7, <1>8, <1>9, <1>10 DEF Step

----------------------------------------------------------------------------
(* The store holds no more than the editor shows, and at least what its    *)
(* answered saves held, unless a mark excuses it.                          *)

Order == Base /\ NewPairs /\ NewMine /\ GrowInv /\ OrderInv /\ AloneInv
HoldInv ==
  page = "editor" /\ marks \cap {"stale", "reordered"} = {} =>
    /\ doc # None /\ server[doc] # None => server[doc] \subseteq Payload(text)
    /\ \A i \in DOMAIN reqs : OwnAt(i) /\ reqs[i].step = "done" /\ server[reqs[i].doc] # None =>
         reqs[i].body \subseteq server[reqs[i].doc] /\ server[reqs[i].doc] \subseteq Payload(text)

LEMMA OwnIs ==
  ASSUME Base, NEW i \in DOMAIN reqs, OwnAt(i)
  PROVE  page = "editor" /\ reqs[i].by = mount /\ mount \in Nat /\ reqs[i].kind \in {"post", "put"}
  BY DEF OwnAt, Own, Mine, Write, Base, StoreInv

\* The API stores a save: what becomes of each resume.
LEMMA StoredIs ==
  ASSUME Base, NEW d \in Docs, NEW c, server' = [server EXCEPT ![d] = c]
  PROVE  server'[d] = c /\ \A e \in Docs : e # d => server'[e] = server[e]
  BY DEF Base, StoreInv

LEMMA DocsIn == Base => (doc # None => doc \in Docs) /\ Used \subseteq Docs
  BY UsedIs DEF Base, EditTyped, StoreInv

\* The editor got a copy that is not outdated.
LEMMA LoadedIs ==
  ASSUME Base, NEW h, NEW d, NEW c, Loaded(h, d, c), "stale" \notin marks'
  PROVE  /\ doc' = d /\ text' = c /\ d \in Docs /\ UNCHANGED server /\ \A j \in DOMAIN reqs' : ~OwnAt(j)'
         /\ server[d] # None => server[d] = c /\ Payload(text') = server[d]
<1>1. doc' = d /\ text' = c /\ d \in Docs /\ UNCHANGED server
  BY DocsIn DEF Loaded
<1>2. \A j \in DOMAIN reqs' : ~OwnAt(j)'
  BY NoOwn DEF Loaded
<1>3. server[d] \in {c, None}
  BY DEF Loaded, Outdated
<1>4. server[d] # None => Payload(server[d]) = server[d]
  BY <1>1 DEF Base, StoreInv
<1> QED BY <1>1, <1>2, <1>3, <1>4

LEMMA HoldLoaded ==
  ASSUME Base, NEW h, NEW d, NEW c, Loaded(h, d, c)
  PROVE  HoldInv'
<1> SUFFICES ASSUME marks' \cap {"stale", "reordered"} = {}
             PROVE  /\ doc' # None /\ server'[doc'] # None => server'[doc'] \subseteq Payload(text')
                    /\ \A j \in DOMAIN reqs' : ~OwnAt(j)'
  BY DEF HoldInv
<1>1. /\ doc' = d /\ UNCHANGED server /\ (\A j \in DOMAIN reqs' : ~OwnAt(j)')
      /\ server[d] # None => Payload(text') = server[d]
  BY LoadedIs
<1> QED BY <1>1

\* Nothing stored changes, nothing more is done, and the text does not shrink.
LEMMA HoldKept ==
  ASSUME HoldInv, page' = "editor" => page = "editor", marks \subseteq marks', UNCHANGED server,
         Payload(text) \subseteq Payload(text'),
         page' = "editor" => doc' = doc \/ \E i \in DOMAIN reqs : OwnAt(i) /\ reqs[i].step = "done" /\ doc' = reqs[i].doc,
         \A j \in DOMAIN reqs' : OwnAt(j)' /\ reqs'[j].step = "done" =>
            \E i \in DOMAIN reqs : OwnAt(i) /\ reqs'[j] = reqs[i]
  PROVE  HoldInv'
<1> SUFFICES ASSUME page' = "editor", marks' \cap {"stale", "reordered"} = {}
             PROVE  /\ doc' # None /\ server[doc'] # None => server[doc'] \subseteq Payload(text')
                    /\ \A j \in DOMAIN reqs' : OwnAt(j)' /\ reqs'[j].step = "done" /\ server[reqs'[j].doc] # None =>
                         reqs'[j].body \subseteq server[reqs'[j].doc] /\ server[reqs'[j].doc] \subseteq Payload(text')
  BY DEF HoldInv
<1>1. /\ doc # None /\ server[doc] # None => server[doc] \subseteq Payload(text')
      /\ \A i \in DOMAIN reqs : OwnAt(i) /\ reqs[i].step = "done" /\ server[reqs[i].doc] # None =>
           reqs[i].body \subseteq server[reqs[i].doc] /\ server[reqs[i].doc] \subseteq Payload(text')
  BY DEF HoldInv
<1> QED BY <1>1

LEMMA HoldStores ==
  ASSUME Order, HoldInv, NEW i, NEW r, Stores(i, r)
  PROVE  HoldInv'
<1> SUFFICES ASSUME page' = "editor", marks' \cap {"stale", "reordered"} = {}
             PROVE  /\ doc # None /\ server'[doc] # None => server'[doc] \subseteq Payload(text)
                    /\ \A j \in DOMAIN reqs' : OwnAt(j)' /\ reqs'[j].step = "done" /\ server'[reqs'[j].doc] # None =>
                         reqs'[j].body \subseteq server'[reqs'[j].doc] /\ server'[reqs'[j].doc] \subseteq Payload(text)
  BY DEF HoldInv, Stores, Settled, EditSame
<1>1. /\ Settled(i, r) /\ r.kind = "put" /\ reqs[i].step = "sent" /\ r.doc = reqs[i].doc /\ r.doc \in Docs
      /\ r.body = reqs[i].body /\ reqs[i].kind = "put" /\ page = "editor" /\ marks \subseteq marks'
  BY DocsIn DEF Order, Stores, Settled, EditSame, Marked
<1>2. /\ DOMAIN reqs' = DOMAIN reqs /\ reqs'[i] = r /\ i \in DOMAIN reqs
      /\ \A j \in DOMAIN reqs : j # i => reqs'[j] = reqs[j]
      /\ \A j \in DOMAIN reqs : OwnAt(j)' = OwnAt(j)
  BY <1>1, SettledIs
<1>3. server'[r.doc] = r.body /\ \A e \in Docs : e # r.doc => server'[e] = server[e]
  BY <1>1, StoredIs DEF Order, Stores
<1>4. /\ doc # None /\ server[doc] # None => server[doc] \subseteq Payload(text)
      /\ \A j \in DOMAIN reqs : OwnAt(j) /\ reqs[j].step = "done" /\ server[reqs[j].doc] # None =>
           reqs[j].body \subseteq server[reqs[j].doc] /\ server[reqs[j].doc] \subseteq Payload(text)
  BY <1>1 DEF HoldInv
<1>5. doc # None => doc \in Docs
  BY DocsIn DEF Order
<1>6. \A j \in DOMAIN reqs : OwnAt(j) /\ reqs[j].step = "done" => reqs[j].doc \in Docs
  BY ReqIs DEF Order
<1>7. CASE OwnAt(i)
  <2>1. r.body \subseteq Payload(text)
    BY <1>1, <1>2, <1>7 DEF Order, GrowInv
  <2>2. doc # None /\ server'[doc] # None => server'[doc] \subseteq Payload(text)
    BY <1>3, <1>4, <1>5, <2>1
  <2>3. ASSUME NEW j \in DOMAIN reqs, j # i, OwnAt(j), reqs[j].step = "done", reqs[j].doc = r.doc
        PROVE  reqs[j].body \subseteq r.body
    <3>1. reqs[i].by = mount /\ reqs[j].by = mount /\ mount \in Nat /\ reqs[j].kind \in {"post", "put"}
      BY <1>2, <1>7, <2>3, OwnIs DEF Order
    <3>2. CASE reqs[j].kind = "post"
      <4>1. Apart(j, i)
        BY <1>2, <2>3, <3>2 DEF Order, NewPairs, DonePost
      <4> QED BY <1>1, <2>3, <3>1, <4>1 DEF Apart
    <3>3. CASE reqs[j].kind = "put"
      <4>1. i \in Nat /\ j \in Nat
        BY <1>2, Places DEF Order, Base
      <4>2. ~(i < j)
        BY <1>1, <1>2, <2>3, <3>3 DEF Order, OrderInv, PutAt
      <4>3. j < i
        BY <2>3, <4>1, <4>2
      <4> QED BY <1>1, <1>2, <1>7, <2>3, <4>3 DEF Order, GrowInv
    <3> QED BY <3>1, <3>2, <3>3
  <2>4. ASSUME NEW j \in DOMAIN reqs, OwnAt(j), reqs'[j].step = "done", server'[reqs'[j].doc] # None
        PROVE  reqs'[j].body \subseteq server'[reqs'[j].doc] /\ server'[reqs'[j].doc] \subseteq Payload(text)
    <3>1. CASE j = i
      BY <1>2, <1>3, <2>1, <3>1
    <3>2. CASE j # i /\ reqs[j].doc = r.doc
      <4>1. reqs'[j] = reqs[j] /\ reqs[j].step = "done"
        BY <1>2, <2>4, <3>2
      <4>2. reqs[j].body \subseteq r.body
        BY <2>3, <2>4, <3>2, <4>1
      <4> QED BY <1>3, <2>1, <3>2, <4>1, <4>2
    <3>3. CASE j # i /\ reqs[j].doc # r.doc
      <4>1. reqs'[j] = reqs[j] /\ reqs[j].step = "done"
        BY <1>2, <2>4, <3>3
      <4>2. server'[reqs[j].doc] = server[reqs[j].doc]
        BY <1>3, <1>6, <2>4, <3>3, <4>1
      <4> QED BY <1>4, <2>4, <4>1, <4>2
    <3> QED BY <3>1, <3>2, <3>3
  <2> QED BY <1>2, <2>2, <2>4
<1>8. CASE ~OwnAt(i)
  <2>1. SentTo(r.doc)
    BY <1>1, <1>2, <1>8 DEF SentTo, PutAt
  <2>2. doc # r.doc /\ \A j \in DOMAIN reqs : OwnAt(j) => reqs[j].doc # r.doc
    BY <1>1, <2>1 DEF Order, AloneInv
  <2>3. doc # None /\ server'[doc] # None => server'[doc] \subseteq Payload(text)
    BY <1>3, <1>4, <1>5, <2>2
  <2>4. ASSUME NEW j \in DOMAIN reqs, OwnAt(j), reqs'[j].step = "done", server'[reqs'[j].doc] # None
        PROVE  reqs'[j].body \subseteq server'[reqs'[j].doc] /\ server'[reqs'[j].doc] \subseteq Payload(text)
    <3>1. j # i /\ reqs'[j] = reqs[j] /\ reqs[j].step = "done"
      BY <1>2, <1>8, <2>4
    <3>2. reqs[j].doc \in Docs /\ reqs[j].doc # r.doc
      BY <1>6, <2>2, <2>4, <3>1
    <3>3. server'[reqs[j].doc] = server[reqs[j].doc]
      BY <1>3, <3>2
    <3> QED BY <1>4, <2>4, <3>1, <3>3
  <2> QED BY <1>2, <2>3, <2>4
<1> QED BY <1>7, <1>8

LEMMA HoldCreates ==
  ASSUME Order, HoldInv, NEW i, NEW r, NEW d, Creates(i, r, d)
  PROVE  HoldInv'
<1> SUFFICES ASSUME page' = "editor", marks' \cap {"stale", "reordered"} = {}
             PROVE  /\ doc # None /\ server'[doc] # None => server'[doc] \subseteq Payload(text)
                    /\ \A j \in DOMAIN reqs' : OwnAt(j)' /\ reqs'[j].step = "done" /\ server'[reqs'[j].doc] # None =>
                         reqs'[j].body \subseteq server'[reqs'[j].doc] /\ server'[reqs'[j].doc] \subseteq Payload(text)
  BY DEF HoldInv, Creates, Settled, EditSame
<1>1. /\ Settled(i, r) /\ r.doc = d /\ d \in Docs /\ d \notin Used
      /\ r.body = reqs[i].body /\ page = "editor" /\ marks \subseteq marks'
  BY DEF Creates, Settled, EditSame, Marked
<1>2. /\ DOMAIN reqs' = DOMAIN reqs /\ reqs'[i] = r /\ i \in DOMAIN reqs
      /\ \A j \in DOMAIN reqs : j # i => reqs'[j] = reqs[j]
      /\ \A j \in DOMAIN reqs : OwnAt(j)' = OwnAt(j)
  BY <1>1, SettledIs
<1>3. server'[d] = r.body /\ \A e \in Docs : e # d => server'[e] = server[e]
  BY <1>1, StoredIs DEF Order, Creates
<1>4. /\ doc # None /\ server[doc] # None => server[doc] \subseteq Payload(text)
      /\ \A j \in DOMAIN reqs : OwnAt(j) /\ reqs[j].step = "done" /\ server[reqs[j].doc] # None =>
           reqs[j].body \subseteq server[reqs[j].doc] /\ server[reqs[j].doc] \subseteq Payload(text)
  BY <1>1 DEF HoldInv
<1>5. doc # None => doc \in Docs /\ doc # d
  BY <1>1, DocsIn DEF Order, Base, EditTyped
<1>6. \A j \in DOMAIN reqs : OwnAt(j) /\ reqs[j].step = "done" => reqs[j].doc \in Docs /\ reqs[j].doc # d
  BY <1>1, ReqIs DEF Order
<1>7. doc # None /\ server'[doc] # None => server'[doc] \subseteq Payload(text)
  BY <1>3, <1>4, <1>5
<1>8. ASSUME NEW j \in DOMAIN reqs, OwnAt(j), reqs'[j].step = "done", server'[reqs'[j].doc] # None
      PROVE  reqs'[j].body \subseteq server'[reqs'[j].doc] /\ server'[reqs'[j].doc] \subseteq Payload(text)
  <2>1. CASE j = i
    <3>1. r.body \subseteq Payload(text)
      BY <1>1, <1>2, <1>8, <2>1 DEF Order, GrowInv
    <3> QED BY <1>1, <1>2, <1>3, <2>1, <3>1
  <2>2. CASE j # i
    <3>1. reqs'[j] = reqs[j] /\ reqs[j].step = "done"
      BY <1>2, <1>8, <2>2
    <3>2. reqs[j].doc \in Docs /\ server'[reqs[j].doc] = server[reqs[j].doc]
      BY <1>3, <1>6, <1>8, <3>1
    <3> QED BY <1>4, <1>8, <3>1, <3>2
  <2> QED BY <2>1, <2>2
<1> QED BY <1>2, <1>7, <1>8

LEMMA HoldEnds ==
  ASSUME Order, HoldInv, NEW i, NEW r, Ends(i, r)
  PROVE  HoldInv'
<1> SUFFICES ASSUME page' = "editor", marks' \cap {"stale", "reordered"} = {}
             PROVE  /\ doc # None /\ server'[doc] # None => server'[doc] \subseteq Payload(text)
                    /\ \A j \in DOMAIN reqs' : OwnAt(j)' /\ reqs'[j].step = "done" /\ server'[reqs'[j].doc] # None =>
                         reqs'[j].body \subseteq server'[reqs'[j].doc] /\ server'[reqs'[j].doc] \subseteq Payload(text)
  BY DEF HoldInv, Ends, Settled, EditSame
<1>1. Settled(i, r) /\ (Write(r) => r.step = "failed") /\ page = "editor" /\ marks \subseteq marks'
  BY DEF Ends, Settled, EditSame, Marked
<1>2. /\ DOMAIN reqs' = DOMAIN reqs /\ reqs'[i] = r /\ i \in DOMAIN reqs
      /\ \A j \in DOMAIN reqs : j # i => reqs'[j] = reqs[j]
      /\ \A j \in DOMAIN reqs : OwnAt(j)' = OwnAt(j)
  BY <1>1, SettledIs
<1>3. \A e \in Docs : server'[e] # None => server'[e] = server[e]
  BY DEF Ends
<1>4. /\ doc # None /\ server[doc] # None => server[doc] \subseteq Payload(text)
      /\ \A j \in DOMAIN reqs : OwnAt(j) /\ reqs[j].step = "done" /\ server[reqs[j].doc] # None =>
           reqs[j].body \subseteq server[reqs[j].doc] /\ server[reqs[j].doc] \subseteq Payload(text)
  BY <1>1 DEF HoldInv
<1>5. doc # None => doc \in Docs
  BY DocsIn DEF Order
<1>6. \A j \in DOMAIN reqs : OwnAt(j) /\ reqs[j].step = "done" => reqs[j].doc \in Docs
  BY ReqIs DEF Order
<1>7. doc # None /\ server'[doc] # None => server'[doc] \subseteq Payload(text)
  BY <1>3, <1>4, <1>5
<1>8. ASSUME NEW j \in DOMAIN reqs, OwnAt(j), reqs'[j].step = "done", server'[reqs'[j].doc] # None
      PROVE  reqs'[j].body \subseteq server'[reqs'[j].doc] /\ server'[reqs'[j].doc] \subseteq Payload(text)
  <2>1. j # i
    BY <1>1, <1>2, <1>8 DEF OwnAt, Own, Write, Settled
  <2>2. reqs'[j] = reqs[j] /\ reqs[j].step = "done"
    BY <1>2, <1>8, <2>1
  <2>3. reqs[j].doc \in Docs /\ server'[reqs[j].doc] # None
    BY <1>6, <1>8, <2>2
  <2>4. server'[reqs[j].doc] = server[reqs[j].doc]
    BY <1>3, <2>3
  <2> QED BY <1>4, <1>8, <2>2, <2>3, <2>4
<1> QED BY <1>2, <1>7, <1>8

LEMMA HoldStep ==
  ASSUME Order, HoldInv, Step
  PROVE  HoldInv'
<1>0. Base
  BY DEF Order
<1>1. ASSUME NEW h, Fresh(h) PROVE HoldInv'
  BY <1>0, <1>1, FreshNoOwn DEF Fresh, IsBlank, HoldInv
<1>2. ASSUME NEW h, Quiet(h) PROVE HoldInv'
  <2>1. UNCHANGED <<page, doc, text, server>> /\ marks \subseteq marks'
    BY <1>2 DEF Quiet, EditSame, Marked
  <2>2. \A j \in DOMAIN reqs' : OwnAt(j)' => \E i \in DOMAIN reqs : OwnAt(i) /\ reqs'[j] = reqs[i]
    BY <1>2 DEF Quiet, EditSame, Shrunk, OwnAt, Own, Mine
  <2> QED BY <2>1, <2>2, HoldKept
<1>3. ASSUME NEW h, Leaves(h) PROVE HoldInv'
  BY <1>3 DEF Leaves, HoldInv
<1>4. ASSUME NEW h, NEW d, NEW c, Loaded(h, d, c) PROVE HoldInv'
  BY <1>0, <1>4, HoldLoaded
<1>5. ASSUME NEW e, Typed(e) PROVE HoldInv'
  <2>1. UNCHANGED <<reqs, page, mount, doc, server>> /\ marks \subseteq marks' /\ Payload(text) \subseteq Payload(text')
    BY <1>5, PayloadGrows DEF Typed, Marked
  <2>2. \A j \in DOMAIN reqs : OwnAt(j)' <=> OwnAt(j)
    BY <2>1 DEF OwnAt, Own, Mine
  <2> QED BY <2>1, <2>2, HoldKept
<1>6. ASSUME NEW x, NEW n, Sends(x, n) \/ Asks(x, n) PROVE HoldInv'
  <2>1. CASE page' # "editor"
    BY <2>1 DEF HoldInv
  <2>2. CASE page' = "editor"
    <3>1. /\ UNCHANGED <<page, mount, doc, text, server>> /\ marks \subseteq marks' /\ Posted(x, n)
          /\ Write(x) => x.step = "sent"
      BY <1>6, <2>2 DEF Sends, Asks, EditSame, Marked
    <3>2. ASSUME NEW j \in DOMAIN reqs', OwnAt(j)', reqs'[j].step = "done"
          PROVE  \E i \in DOMAIN reqs : OwnAt(i) /\ reqs'[j] = reqs[i]
      <4>1. j \in DOMAIN reqs /\ reqs'[j] = reqs[j]
        BY <3>1, <3>2 DEF Posted, OwnAt, Own
      <4> QED BY <3>1, <3>2, <4>1 DEF OwnAt, Own, Mine
    <3> QED BY <3>1, <3>2, HoldKept
  <2> QED BY <2>1, <2>2
<1>7. ASSUME NEW i, NEW r, Stores(i, r) PROVE HoldInv'
  BY <1>7, HoldStores
<1>8. ASSUME NEW i, NEW r, Ends(i, r) PROVE HoldInv'
  BY <1>8, HoldEnds
<1>9. ASSUME NEW i, NEW r, NEW d, Creates(i, r, d) PROVE HoldInv'
  BY <1>9, HoldCreates
<1>10. ASSUME NEW i, NEW h, Merges(i, h) PROVE HoldInv'
  <2>1. /\ UNCHANGED <<page, mount, text, server>> /\ marks \subseteq marks' /\ Shrunk(h)
        /\ i \in DOMAIN reqs /\ OwnAt(i) /\ reqs[i].step = "done" /\ doc' = reqs[i].doc
    BY <1>10 DEF Merges, Removed, Marked, OwnAt
  <2>2. \A j \in DOMAIN reqs' : OwnAt(j)' => \E k \in DOMAIN reqs : OwnAt(k) /\ reqs'[j] = reqs[k]
    BY <2>1 DEF Shrunk, OwnAt, Own, Mine
  <2> QED BY <2>1, <2>2, HoldKept
<1> QED BY <1>1, <1>2, <1>3, <1>4, <1>5, <1>6, <1>7, <1>8, <1>9, <1>10 DEF Step

----------------------------------------------------------------------------
(* What is not dirty is stored, or a save of this editor will store it.    *)

CoverInv ==
  page = "editor" /\ marks \cap {"stale", "reordered", "masked"} = {} /\ dirty = FALSE =>
    /\ doc = None => text = {}
    /\ doc # None /\ server[doc] # None => Payload(text) \subseteq server[doc]
    /\ \A i \in DOMAIN reqs : OwnAt(i) /\ PutAt(i) /\ reqs[i].step = "sent" /\ reqs[i].doc = doc =>
         Payload(text) \subseteq reqs[i].body

LEMMA CoverLoaded ==
  ASSUME Base, NEW h, NEW d, NEW c, Loaded(h, d, c)
  PROVE  CoverInv'
<1> SUFFICES ASSUME marks' \cap {"stale", "reordered", "masked"} = {}
             PROVE  /\ doc' # None
                    /\ server'[doc'] # None => Payload(text') \subseteq server'[doc']
                    /\ \A j \in DOMAIN reqs' : ~OwnAt(j)'
  BY DEF CoverInv
<1>1. /\ doc' = d /\ d \in Docs /\ UNCHANGED server /\ (\A j \in DOMAIN reqs' : ~OwnAt(j)')
      /\ server[d] # None => Payload(text') = server[d]
  BY LoadedIs
<1> QED BY <1>1, NoneFacts

\* Nothing that was stored becomes less, and no old save is sent anew.
LEMMA CoverKept ==
  ASSUME Base, CoverInv, page' = "editor" => UNCHANGED <<page, doc, text, dirty>>, marks \subseteq marks',
         \A d \in Docs : server'[d] \in {server[d], None},
         \A j \in DOMAIN reqs' : OwnAt(j)' /\ PutAt(j)' /\ reqs'[j].step = "sent" =>
            \/ \E i \in DOMAIN reqs : OwnAt(i) /\ PutAt(i) /\ reqs'[j] = reqs[i]
            \/ Payload(text) \subseteq reqs'[j].body
  PROVE  CoverInv'
<1> SUFFICES ASSUME page' = "editor", marks' \cap {"stale", "reordered", "masked"} = {}, dirty' = FALSE
             PROVE  /\ doc = None => text = {}
                    /\ doc # None /\ server'[doc] # None => Payload(text) \subseteq server'[doc]
                    /\ \A j \in DOMAIN reqs' : OwnAt(j)' /\ PutAt(j)' /\ reqs'[j].step = "sent" /\ reqs'[j].doc = doc =>
                         Payload(text) \subseteq reqs'[j].body
  BY DEF CoverInv
<1>1. /\ doc = None => text = {}
      /\ doc # None /\ server[doc] # None => Payload(text) \subseteq server[doc]
      /\ \A i \in DOMAIN reqs : OwnAt(i) /\ PutAt(i) /\ reqs[i].step = "sent" /\ reqs[i].doc = doc =>
           Payload(text) \subseteq reqs[i].body
  BY DEF CoverInv
<1>2. doc # None => doc \in Docs
  BY DocsIn
<1> QED BY <1>1, <1>2

LEMMA CoverStores ==
  ASSUME Order, CoverInv, NEW i, NEW r, Stores(i, r)
  PROVE  CoverInv'
<1> SUFFICES ASSUME page' = "editor", marks' \cap {"stale", "reordered", "masked"} = {}, dirty' = FALSE
             PROVE  /\ doc = None => text = {}
                    /\ doc # None /\ server'[doc] # None => Payload(text) \subseteq server'[doc]
                    /\ \A j \in DOMAIN reqs' : OwnAt(j)' /\ PutAt(j)' /\ reqs'[j].step = "sent" /\ reqs'[j].doc = doc =>
                         Payload(text) \subseteq reqs'[j].body
  BY DEF CoverInv, Stores, Settled, EditSame
<1>1. /\ Settled(i, r) /\ r.kind = "put" /\ reqs[i].step = "sent" /\ r.step = "done" /\ r.doc = reqs[i].doc /\ r.doc \in Docs
      /\ r.body = reqs[i].body /\ reqs[i].kind = "put" /\ page = "editor" /\ marks \subseteq marks' /\ dirty = FALSE
  BY DocsIn DEF Order, Stores, Settled, EditSame, Marked
<1>2. /\ DOMAIN reqs' = DOMAIN reqs /\ reqs'[i] = r /\ i \in DOMAIN reqs
      /\ \A j \in DOMAIN reqs : j # i => reqs'[j] = reqs[j]
      /\ \A j \in DOMAIN reqs : OwnAt(j)' = OwnAt(j)
  BY <1>1, SettledIs
<1>3. server'[r.doc] = r.body /\ \A e \in Docs : e # r.doc => server'[e] = server[e]
  BY <1>1, StoredIs DEF Order, Stores
<1>4. /\ doc = None => text = {}
      /\ doc # None /\ server[doc] # None => Payload(text) \subseteq server[doc]
      /\ \A j \in DOMAIN reqs : OwnAt(j) /\ PutAt(j) /\ reqs[j].step = "sent" /\ reqs[j].doc = doc =>
           Payload(text) \subseteq reqs[j].body
  BY <1>1 DEF CoverInv
<1>5. doc # None => doc \in Docs
  BY DocsIn DEF Order
<1>6. doc = r.doc => Payload(text) \subseteq r.body
  <2>1. CASE OwnAt(i)
    BY <1>1, <1>2, <1>4, <2>1 DEF PutAt
  <2>2. CASE ~OwnAt(i)
    <3>1. SentTo(r.doc)
      BY <1>1, <1>2, <2>2 DEF SentTo, PutAt
    <3> QED BY <1>1, <3>1 DEF Order, AloneInv
  <2> QED BY <2>1, <2>2
<1>7. doc # None /\ server'[doc] # None => Payload(text) \subseteq server'[doc]
  BY <1>3, <1>4, <1>5, <1>6
<1>8. \A j \in DOMAIN reqs : reqs'[j].step = "sent" => j # i
  BY <1>1, <1>2
<1>9. \A j \in DOMAIN reqs' : OwnAt(j)' /\ PutAt(j)' /\ reqs'[j].step = "sent" /\ reqs'[j].doc = doc =>
        Payload(text) \subseteq reqs'[j].body
  BY <1>2, <1>4, <1>8 DEF PutAt
<1> QED BY <1>4, <1>7, <1>9

LEMMA CoverCreates ==
  ASSUME Order, CoverInv, NEW i, NEW r, NEW d, Creates(i, r, d)
  PROVE  CoverInv'
<1> SUFFICES ASSUME page' = "editor", marks' \cap {"stale", "reordered", "masked"} = {}, dirty' = FALSE
             PROVE  /\ doc = None => text = {}
                    /\ doc # None /\ server'[doc] # None => Payload(text) \subseteq server'[doc]
                    /\ \A j \in DOMAIN reqs' : OwnAt(j)' /\ PutAt(j)' /\ reqs'[j].step = "sent" /\ reqs'[j].doc = doc =>
                         Payload(text) \subseteq reqs'[j].body
  BY DEF CoverInv, Creates, Settled, EditSame
<1>1. /\ Settled(i, r) /\ r.kind = "post" /\ d \in Docs /\ d \notin Used
      /\ page = "editor" /\ marks \subseteq marks' /\ dirty = FALSE
  BY DEF Creates, Settled, EditSame, Marked
<1>2. /\ DOMAIN reqs' = DOMAIN reqs /\ reqs'[i] = r /\ i \in DOMAIN reqs
      /\ \A j \in DOMAIN reqs : j # i => reqs'[j] = reqs[j]
      /\ \A j \in DOMAIN reqs : OwnAt(j)' = OwnAt(j)
  BY <1>1, SettledIs
<1>3. \A e \in Docs : e # d => server'[e] = server[e]
  BY <1>1, StoredIs DEF Order, Creates
<1>4. /\ doc = None => text = {}
      /\ doc # None /\ server[doc] # None => Payload(text) \subseteq server[doc]
      /\ \A j \in DOMAIN reqs : OwnAt(j) /\ PutAt(j) /\ reqs[j].step = "sent" /\ reqs[j].doc = doc =>
           Payload(text) \subseteq reqs[j].body
  BY <1>1 DEF CoverInv
<1>5. doc # None => doc \in Docs /\ doc # d
  BY <1>1, DocsIn DEF Order, Base, EditTyped
<1>6. doc # None /\ server'[doc] # None => Payload(text) \subseteq server'[doc]
  BY <1>3, <1>4, <1>5
<1>7. \A j \in DOMAIN reqs' : OwnAt(j)' /\ PutAt(j)' /\ reqs'[j].step = "sent" /\ reqs'[j].doc = doc =>
        Payload(text) \subseteq reqs'[j].body
  BY <1>1, <1>2, <1>4 DEF PutAt
<1> QED BY <1>4, <1>6, <1>7

LEMMA CoverMerges ==
  ASSUME Order, HoldInv, NEW i, NEW h, Merges(i, h)
  PROVE  CoverInv'
<1>1. /\ UNCHANGED <<page, mount, text, server>> /\ marks \subseteq marks' /\ Removed(i, h)
      /\ i \in DOMAIN reqs /\ OwnAt(i) /\ reqs[i].step = "done" /\ doc' = reqs[i].doc
      /\ Payload(text) # reqs[i].body => "masked" \in marks'
  BY DEF Merges, Marked, OwnAt
<1> SUFFICES ASSUME page' = "editor", marks' \cap {"stale", "reordered", "masked"} = {}
             PROVE  /\ doc' # None
                    /\ server[doc'] # None => Payload(text) \subseteq server[doc']
                    /\ \A j \in DOMAIN reqs' : OwnAt(j)' /\ PutAt(j)' /\ reqs'[j].step = "sent" /\ reqs'[j].doc = doc' =>
                         Payload(text) \subseteq reqs'[j].body
  BY <1>1 DEF CoverInv
<1>2. Payload(text) = reqs[i].body
  BY <1>1
<1>3. doc' # None
  BY <1>1, ReqIs DEF Order
<1>4. server[doc'] # None => Payload(text) \subseteq server[doc']
  BY <1>1, <1>2 DEF HoldInv
<1>5. ASSUME NEW j \in DOMAIN reqs', OwnAt(j)', PutAt(j)', reqs'[j].step = "sent", reqs'[j].doc = doc'
      PROVE  Payload(text) \subseteq reqs'[j].body
  <2>1. PICK k \in DOMAIN reqs : k = h[j] /\ k # i /\ reqs'[j] = reqs[k]
    BY <1>1 DEF Removed, Shrunk
  <2>2. OwnAt(k) /\ PutAt(k) /\ reqs[k].step = "sent" /\ reqs[k].doc = reqs[i].doc
    BY <1>1, <1>5, <2>1 DEF OwnAt, Own, Mine, PutAt
  <2>3. reqs[i].by = mount /\ reqs[k].by = mount /\ mount \in Nat /\ reqs[i].kind \in {"post", "put"} /\ i \in Nat /\ k \in Nat
    <3>1. Base
      BY DEF Order
    <3>2. reqs[i].by = mount /\ mount \in Nat /\ reqs[i].kind \in {"post", "put"} /\ i \in Nat
      BY <1>1, <3>1, OwnIs, ReqIs
    <3>3. reqs[k].by = mount /\ k \in Nat
      BY <2>2, <3>1, OwnIs, ReqIs
    <3> QED BY <3>2, <3>3
  <2>4. i < k
    <3>1. CASE reqs[i].kind = "post"
      <4>1. Apart(i, k)
        BY <1>1, <2>1, <3>1 DEF Order, NewPairs, DonePost
      <4> QED BY <2>2, <2>3, <4>1 DEF Apart, PutAt
    <3>2. CASE reqs[i].kind = "put"
      <4>1. "reordered" \notin marks
        BY <1>1
      <4>2. ~(k < i)
        BY <1>1, <2>2, <3>2, <4>1 DEF Order, OrderInv, PutAt
      <4> QED BY <2>1, <2>3, <4>2
    <3> QED BY <2>3, <3>1, <3>2
  <2> QED BY <1>1, <1>2, <2>1, <2>2, <2>4 DEF Order, GrowInv
<1> QED BY <1>3, <1>4, <1>5

LEMMA CoverStep ==
  ASSUME Order, HoldInv, CoverInv, Step
  PROVE  CoverInv'
<1>0. Base
  BY DEF Order
<1>1. ASSUME NEW h, Fresh(h) PROVE CoverInv'
  BY <1>0, <1>1, FreshNoOwn DEF Fresh, IsBlank, CoverInv
<1>2. ASSUME NEW h, Quiet(h) PROVE CoverInv'
  <2>1. UNCHANGED <<page, doc, text, dirty, server>> /\ marks \subseteq marks'
    BY <1>2 DEF Quiet, EditSame, Marked
  <2>2. \A j \in DOMAIN reqs' : OwnAt(j)' /\ PutAt(j)' => \E i \in DOMAIN reqs : OwnAt(i) /\ PutAt(i) /\ reqs'[j] = reqs[i]
    BY <1>2 DEF Quiet, EditSame, Shrunk, OwnAt, Own, Mine, PutAt
  <2> QED BY <1>0, <2>1, <2>2, CoverKept
<1>3. ASSUME NEW h, Leaves(h) PROVE CoverInv'
  BY <1>3 DEF Leaves, CoverInv
<1>4. ASSUME NEW h, NEW d, NEW c, Loaded(h, d, c) PROVE CoverInv'
  BY <1>0, <1>4, CoverLoaded
<1>5. ASSUME NEW e, Typed(e) PROVE CoverInv'
  BY <1>5 DEF Typed, CoverInv
<1>6. ASSUME NEW x, NEW n, Sends(x, n) \/ Asks(x, n) PROVE CoverInv'
  <2>1. CASE page' # "editor"
    BY <2>1 DEF CoverInv
  <2>2. CASE page' = "editor"
    <3>1. /\ UNCHANGED <<page, mount, doc, text, dirty, server>> /\ marks \subseteq marks' /\ Posted(x, n)
          /\ Write(x) => x.body = Payload(text)
      BY <1>6, <2>2 DEF Sends, Asks, EditSame, Marked
    <3>2. ASSUME NEW j \in DOMAIN reqs', OwnAt(j)', PutAt(j)'
          PROVE  \/ \E i \in DOMAIN reqs : OwnAt(i) /\ PutAt(i) /\ reqs'[j] = reqs[i]
                 \/ Payload(text) \subseteq reqs'[j].body
      <4>1. CASE j = n
        BY <3>1, <3>2, <4>1 DEF Posted, OwnAt, Own
      <4>2. CASE j \in DOMAIN reqs
        BY <3>1, <3>2, <4>2 DEF Posted, OwnAt, Own, Mine, PutAt
      <4> QED BY <3>1, <4>1, <4>2 DEF Posted
    <3> QED BY <1>0, <3>1, <3>2, CoverKept
  <2> QED BY <2>1, <2>2
<1>7. ASSUME NEW i, NEW r, Stores(i, r) PROVE CoverInv'
  BY <1>7, CoverStores
<1>8. ASSUME NEW i, NEW r, Ends(i, r) PROVE CoverInv'
  <2>1. /\ UNCHANGED <<page, doc, text, dirty>> /\ marks \subseteq marks' /\ (\A d \in Docs : server'[d] \in {server[d], None})
        /\ r.step # "sent" /\ Settled(i, r)
    BY <1>8 DEF Ends, Settled, EditSame, Marked
  <2>2. \A j \in DOMAIN reqs' : OwnAt(j)' /\ PutAt(j)' /\ reqs'[j].step = "sent" =>
           \E k \in DOMAIN reqs : OwnAt(k) /\ PutAt(k) /\ reqs'[j] = reqs[k]
    BY <2>1, SettledIs DEF PutAt
  <2> QED BY <1>0, <2>1, <2>2, CoverKept
<1>9. ASSUME NEW i, NEW r, NEW d, Creates(i, r, d) PROVE CoverInv'
  BY <1>9, CoverCreates
<1>10. ASSUME NEW i, NEW h, Merges(i, h) PROVE CoverInv'
  BY <1>10, CoverMerges
<1> QED BY <1>1, <1>2, <1>3, <1>4, <1>5, <1>6, <1>7, <1>8, <1>9, <1>10 DEF Step

----------------------------------------------------------------------------
(* Once nothing is under way, the store has what the editor shows.         *)

Settles == page = "editor" /\ doc # None /\ dirty = FALSE /\ timer = None /\ \A i \in DOMAIN reqs : ~OwnAt(i)
SavedInv == Settles /\ marks \cap {"reordered", "stale", "silent"} = {} => server[doc] \in {None, Payload(text)}

\* An editor that settles now did before, and what is stored did not change.
LEMMA SavedKept ==
  ASSUME Base, SavedInv, marks \subseteq marks', Settles' => UNCHANGED <<doc, text>>,
         Settles' /\ "silent" \notin marks' => Settles,
         Settles' /\ "stale" \notin marks' => server'[doc] \in {server[doc], None}
  PROVE  SavedInv'
<1> SUFFICES ASSUME Settles', marks' \cap {"reordered", "stale", "silent"} = {}
             PROVE  server'[doc'] \in {None, Payload(text')}
  BY DEF SavedInv
<1>1. UNCHANGED <<doc, text>> /\ server[doc] \in {None, Payload(text)}
  BY DEF SavedInv
<1> QED BY <1>1

LEMMA SavedMerges ==
  ASSUME Order, HoldInv, NEW i, NEW h, Merges(i, h)
  PROVE  SavedInv'
<1>1. /\ UNCHANGED <<page, mount, text, server, timer>> /\ marks \subseteq marks' /\ Removed(i, h)
      /\ i \in DOMAIN reqs /\ OwnAt(i) /\ reqs[i].step = "done" /\ doc' = reqs[i].doc
      /\ Payload(text) # reqs[i].body /\ timer = None /\ {q \in Writes : Mine(q)} = {reqs[i]} => "silent" \in marks'
  BY DEF Merges, Marked, OwnAt
<1> SUFFICES ASSUME Settles', marks' \cap {"reordered", "stale", "silent"} = {}
             PROVE  server[doc'] \in {None, Payload(text)}
  BY <1>1 DEF SavedInv
<1>2. \A k \in DOMAIN reqs : OwnAt(k) => k = i
  <2> SUFFICES ASSUME NEW k \in DOMAIN reqs, OwnAt(k), k # i PROVE FALSE
    OBVIOUS
  <2>1. PICK j \in DOMAIN reqs' : reqs'[j] = reqs[k]
    BY <1>1 DEF Removed, Shrunk
  <2>2. OwnAt(j)'
    BY <1>1, <2>1 DEF OwnAt, Own, Mine
  <2> QED BY <2>2 DEF Settles
<1>3. {q \in Writes : Mine(q)} = {reqs[i]}
  <2>1. \A q : q \in InFlight <=> \E k \in DOMAIN reqs : q = reqs[k]
    BY DEF InFlight, Range
  <2>2. \A q : q \in Writes /\ Mine(q) <=> \E k \in DOMAIN reqs : q = reqs[k] /\ OwnAt(k)
    BY <2>1 DEF Writes, OwnAt, Own, Write
  <2> QED BY <1>1, <1>2, <2>2
<1>4. Payload(text) = reqs[i].body
  BY <1>1, <1>3 DEF Settles
<1>5. page = "editor" /\ marks \cap {"stale", "reordered"} = {}
  BY <1>1 DEF Settles
<1>6. server[doc'] # None => reqs[i].body \subseteq server[doc'] /\ server[doc'] \subseteq Payload(text)
  BY <1>1, <1>5 DEF HoldInv
<1> QED BY <1>4, <1>6

LEMMA SavedStep ==
  ASSUME Order, HoldInv, SavedInv, Step
  PROVE  SavedInv'
<1>0. Base
  BY DEF Order
<1>1. ASSUME NEW h, Fresh(h) PROVE SavedInv'
  BY <1>1 DEF Fresh, IsBlank, SavedInv, Settles
<1>2. ASSUME NEW h, Quiet(h) PROVE SavedInv'
  <2>1. UNCHANGED <<page, mount, doc, text, dirty, timer, server>> /\ marks \subseteq marks' /\ Shrunk(h)
    BY <1>2 DEF Quiet, EditSame, Marked
  <2>2. ASSUME Settles', "silent" \notin marks', NEW i \in DOMAIN reqs, OwnAt(i) PROVE FALSE
    <3>1. CASE \A j \in DOMAIN reqs' : h[j] # i
      BY <1>2, <2>1, <2>2, <3>1 DEF Quiet, Settles, OwnAt
    <3>2. ASSUME NEW j \in DOMAIN reqs', h[j] = i PROVE FALSE
      <4>1. OwnAt(j)'
        BY <2>1, <2>2, <3>2 DEF Shrunk, OwnAt, Own, Mine
      <4> QED BY <2>2, <4>1 DEF Settles
    <3> QED BY <3>1, <3>2
  <2> QED BY <1>0, <2>1, <2>2, SavedKept DEF Settles
<1>3. ASSUME NEW h, Leaves(h) PROVE SavedInv'
  BY <1>3 DEF Leaves, SavedInv, Settles
<1>4. ASSUME NEW h, NEW d, NEW c, Loaded(h, d, c) PROVE SavedInv'
  BY <1>0, <1>4, LoadedIs DEF SavedInv
<1>5. ASSUME NEW e, Typed(e) PROVE SavedInv'
  BY <1>5 DEF Typed, SavedInv, Settles
<1>6. ASSUME NEW x, NEW n, Sends(x, n) PROVE SavedInv'
  <2>1. ~Settles'
    <3> SUFFICES ASSUME page' = "editor" PROVE \E j \in DOMAIN reqs' : OwnAt(j)'
      BY DEF Settles
    <3>1. n \in DOMAIN reqs' /\ OwnAt(n)'
      BY <1>6 DEF Sends, Posted, OwnAt, Own, Mine, Write
    <3> QED BY <3>1
  <2> QED BY <2>1 DEF SavedInv
<1>7. ASSUME NEW x, NEW n, Asks(x, n) PROVE SavedInv'
  <2>1. UNCHANGED <<page, mount, doc, text, dirty, timer, server>> /\ marks \subseteq marks' /\ Posted(x, n)
    BY <1>7 DEF Asks, EditSame, Marked
  <2>2. \A i \in DOMAIN reqs : i \in DOMAIN reqs' /\ (OwnAt(i) => OwnAt(i)')
    BY <2>1 DEF Posted, OwnAt, Own, Mine
  <2> QED BY <1>0, <2>1, <2>2, SavedKept DEF Settles
<1>8. ASSUME NEW i, NEW r, Settled(i, r), Settles' /\ "stale" \notin marks' => server'[doc] \in {server[doc], None}
      PROVE  SavedInv'
  <2>1. UNCHANGED <<page, doc, text, dirty, timer>> /\ marks \subseteq marks'
    BY <1>8 DEF Settled, EditSame, Marked
  <2>2. Settles' => Settles
    BY <1>8, <2>1, SettledIs DEF Settles
  <2> QED BY <1>0, <1>8, <2>1, <2>2, SavedKept
<1>9. ASSUME NEW i, NEW r, Stores(i, r) PROVE SavedInv'
  <2>1. Settled(i, r) /\ r.doc \in Docs /\ r.doc = reqs[i].doc /\ reqs[i].kind = "put" /\ reqs[i].step = "sent" /\ i \in DOMAIN reqs
    BY <1>0, <1>9, DocsIn DEF Stores, Settled
  <2>2. ASSUME Settles', "stale" \notin marks' PROVE server'[doc] = server[doc]
    <3>1. ~OwnAt(i)
      BY <2>1, <2>2, SettledIs DEF Settles
    <3>2. SentTo(r.doc)
      BY <2>1, <3>1 DEF SentTo, PutAt
    <3>3. page = "editor" /\ "stale" \notin marks /\ doc # None
      BY <2>1, <2>2 DEF Settles, Settled, EditSame, Marked
    <3>4. doc # r.doc /\ doc \in Docs
      BY <1>0, <2>1, <3>2, <3>3, DocsIn DEF Order, AloneInv
    <3> QED BY <1>0, <1>9, <2>1, <3>4, StoredIs DEF Stores
  <2> QED BY <1>8, <2>1, <2>2
<1>10. ASSUME NEW i, NEW r, Ends(i, r) PROVE SavedInv'
  <2>1. Settles' => doc \in Docs
    BY <1>0, <1>10, DocsIn DEF Settles, Ends, Settled, EditSame
  <2> QED BY <1>8, <1>10, <2>1 DEF Ends
<1>11. ASSUME NEW i, NEW r, NEW d, Creates(i, r, d) PROVE SavedInv'
  <2>1. ASSUME Settles' PROVE server'[doc] = server[doc]
    <3>1. doc # None /\ d \in Docs \ Used
      BY <1>11, <2>1 DEF Settles, Creates, Settled, EditSame
    <3>2. doc \in Docs /\ doc # d
      BY <1>0, <3>1, DocsIn DEF Base, EditTyped
    <3> QED BY <1>0, <1>11, <3>1, <3>2, StoredIs DEF Creates
  <2> QED BY <1>8, <1>11, <2>1 DEF Creates
<1>12. ASSUME NEW i, NEW h, Merges(i, h) PROVE SavedInv'
  BY <1>12, SavedMerges
<1> QED BY <1>1, <1>2, <1>3, <1>4, <1>5, <1>6, <1>7, <1>9, <1>10, <1>11, <1>12 DEF Step

----------------------------------------------------------------------------
(* The safety properties.                                                  *)

DropInv == "dropped" \in marks => marks \cap {"masked", "reordered", "stale"} # {}
Deep == Order /\ HoldInv /\ CoverInv /\ SavedInv /\ DropInv

\* What is not dirty when the editor goes was covered.
LEMMA NotUncovered ==
  ASSUME Base, CoverInv, dirty = FALSE, Uncovered
  PROVE  marks \cap {"masked", "reordered", "stale"} # {}
<1> SUFFICES ASSUME marks \cap {"masked", "reordered", "stale"} = {} PROVE FALSE
  OBVIOUS
<1>1. Payload(text) \ StoredAnywhere # {} /\ (doc = None \/ server[doc] # None)
  BY DEF Uncovered
<1>2. text # {}
  BY <1>1, PayloadIn
<1>3. page = "editor"
  BY <1>2 DEF Base, EditFits, IsBlank
<1>4. doc # None /\ doc \in Docs /\ server[doc] # None
  BY <1>1, <1>2, <1>3, DocsIn DEF CoverInv
<1>5. Payload(text) \subseteq server[doc]
  BY <1>3, <1>4 DEF CoverInv
<1>6. server[doc] \subseteq StoredAnywhere
  BY <1>4 DEF StoredAnywhere
<1> QED BY <1>1, <1>5, <1>6

LEMMA DropStep ==
  ASSUME Base, CoverInv, DropInv, Step
  PROVE  DropInv'
<1>1. ASSUME Marked PROVE DropInv'
  BY <1>1 DEF Marked, DropInv
<1>2. ASSUME NEW h, Leaves(h) PROVE DropInv'
  <2>1. marks \subseteq marks' /\ ("dropped" \in marks' => "dropped" \in marks \/ (dirty = FALSE /\ Uncovered))
    BY <1>2 DEF Leaves, Base, EditTyped
  <2>2. "dropped" \in marks' => marks \cap {"masked", "reordered", "stale"} # {}
    BY <2>1, NotUncovered DEF DropInv
  <2> QED BY <2>1, <2>2 DEF DropInv
<1> QED BY <1>1, <1>2 DEF Step, Fresh, Quiet, Loaded, Typed, Sends, Asks, Stores, Ends, Creates, Settled, Merges

LEMMA DeepInit == Init => Deep
<1> SUFFICES ASSUME Init PROVE Deep
  OBVIOUS
<1>1. Base
  BY BaseInit
<1>2. reqs = <<>> /\ marks = {} /\ page = "list" /\ mount = 0
  BY DEF Init
<1>3. DOMAIN reqs = {}
  BY <1>2
<1>4. Order
  BY <1>1, <1>2, <1>3 DEF Order, NewPairs, NewMine, GrowInv, OrderInv, AloneInv
<1>5. HoldInv /\ CoverInv /\ SavedInv /\ DropInv
  BY <1>2 DEF HoldInv, CoverInv, SavedInv, Settles, DropInv
<1> QED BY <1>4, <1>5 DEF Deep

LEMMA DeepStep == Deep /\ [Next]_vars => Deep'
<1> SUFFICES ASSUME Deep, [Next]_vars PROVE Deep'
  OBVIOUS
<1>1. Base /\ NewPairs /\ NewMine /\ GrowInv /\ OrderInv /\ AloneInv
  BY DEF Deep, Order
<1>2. HoldInv /\ CoverInv /\ SavedInv /\ DropInv
  BY DEF Deep
<1>3. Step /\ Base'
  BY <1>1, StepIs, BaseStep
<1>4. NewPairs' /\ NewMine'
  BY <1>1, <1>3, NewStep
<1>5. GrowInv' /\ OrderInv' /\ AloneInv'
  BY <1>1, <1>3, GrowStep, OrderStep, AloneStep
<1>6. Order /\ Order'
  BY <1>1, <1>3, <1>4, <1>5 DEF Order
<1>7. HoldInv'
  BY <1>2, <1>3, <1>6, HoldStep
<1>8. CoverInv'
  BY <1>2, <1>3, <1>6, CoverStep
<1>9. SavedInv'
  BY <1>2, <1>3, <1>6, SavedStep
<1>10. DropInv'
  BY <1>1, <1>2, <1>3, DropStep
<1> QED BY <1>6, <1>7, <1>8, <1>9, <1>10 DEF Deep

LEMMA AlwaysDeep == Spec => []Deep
  BY DeepInit, DeepStep, PTL DEF Spec

LEMMA DeepSaved == Deep => SavedMeansStored
<1> SUFFICES ASSUME Deep, page = "editor", doc # None, ~dirty, timer = None, Writes = {},
                    marks \cap {"reordered", "stale", "silent"} = {}, server[doc] # None
             PROVE  /\ server[doc] = Payload(text)
                    /\ \A e \in Preview(text) :
                         e.form \in Cards /\ Has(text, e, NamingFields[e.form]) => e \in server[doc]
  BY DEF SavedMeansStored
<1>1. \A i \in DOMAIN reqs : ~OwnAt(i)
  <2>1. \A i \in DOMAIN reqs : reqs[i] \in InFlight
    BY DEF InFlight, Range
  <2> QED BY <2>1 DEF Writes, OwnAt, Own, Write
<1>2. dirty = FALSE
  BY DEF Deep, Order, Base, EditTyped
<1>3. server[doc] = Payload(text)
  BY <1>1, <1>2 DEF Deep, SavedInv, Settles
<1>4. \A e \in Preview(text) : e.form \in Cards /\ Has(text, e, NamingFields[e.form]) => e \in Payload(text)
  BY DEF Preview, Payload
<1> QED BY <1>3, <1>4

\* While the toolbar says "Saved" and nothing is under way, the resume holds all
\* the editor would send, and every named card the preview shows, whatever
\* answers came late, as long as none of the excused marks is set: the saves of
\* one editor grow in the order they are sent, and nobody else's is still to be
\* stored (save, debouncedSave, updateState).
THEOREM SavedHolds == Spec => []SavedMeansStored
  BY AlwaysDeep, DeepSaved, PTL

\* Leaving the editor and closing its tab drop nothing typed: what is not dirty
\* is covered by the store, unless masked, reordered or stale (the unmount
\* effect, beforeunload).
THEOREM NothingDroppedHolds == Spec => []NothingDropped
<1>1. Deep => NothingDropped
  BY DEF Deep, DropInv, NothingDropped
<1> QED BY <1>1, AlwaysDeep, PTL
=============================================================================
