-------------------------- MODULE ExtensionProofs --------------------------
(***************************************************************************)
(* Proofs about module Extension: the types, and that a click on Shoot is  *)
(* charged once at most.  The lemmas on what an answer, a handler and the  *)
(* user do to the messages under way serve ExtensionSessionProofs too.     *)
(***************************************************************************)
EXTENDS Extension, SequenceTheorems, WellFoundedInduction, TLAPS

----------------------------------------------------------------------------
(* Lists of messages.                                                      *)

\* FirstOrg is an organization: the user has a first one.
LEMMA FirstOrgExists == FirstOrg \in Orgs
<1> DEFINE R == OpToRel(<, Nat)
<1>1. IsWellFoundedOn(R, Nat)
  BY NatLessThanWellFounded
<1>2. \E x \in Orgs : \A y \in Orgs : <<y, x>> \notin R
  <2> HIDE DEF R
  <2> QED BY <1>1, WFMin, ExtensionAssumption
<1>3. PICK x \in Orgs : \A y \in Orgs : <<y, x>> \notin R
  BY <1>2
<1>4. \A y \in Orgs : x <= y
  <2> SUFFICES ASSUME NEW y \in Orgs PROVE x <= y
    OBVIOUS
  <2>1. x \in Nat /\ y \in Nat
    BY ExtensionAssumption
  <2>2. <<y, x>> \notin R
    BY <1>3
  <2>3. ~(y < x)
    BY <2>1, <2>2 DEF OpToRel
  <2> QED BY <2>1, <2>3
<1> QED BY <1>4 DEF FirstOrg

\* The place, before call i was removed, of the call now at j.
Old(i, j) == IF j < i THEN j ELSE j + 1

\* What RemoveAt leaves.
LEMMA RemoveAtFacts ==
  ASSUME NEW S, NEW s \in Seq(S), NEW i \in DOMAIN s
  PROVE  /\ RemoveAt(s, i) \in Seq(S) /\ Len(RemoveAt(s, i)) = Len(s) - 1
         /\ \A j \in 1..(Len(s) - 1) : RemoveAt(s, i)[j] = s[Old(i, j)]
<1>1. i \in 1..Len(s) /\ Len(s) \in Nat
  OBVIOUS
<1>2. SubSeq(s, 1, i - 1) \in Seq(S) /\ Len(SubSeq(s, 1, i - 1)) = i - 1
      /\ \A j \in 1..(i - 1) : SubSeq(s, 1, i - 1)[j] = s[j]
  BY <1>1
<1>3. SubSeq(s, i + 1, Len(s)) \in Seq(S) /\ Len(SubSeq(s, i + 1, Len(s))) = Len(s) - i
      /\ \A j \in 1..(Len(s) - i) : SubSeq(s, i + 1, Len(s))[j] = s[i + j]
  BY <1>1
<1> DEFINE a == SubSeq(s, 1, i - 1)
           b == SubSeq(s, i + 1, Len(s))
<1>4. PICK n \in Nat : n = Len(s)
  BY <1>1
<1> HIDE DEF a, b
<1>5. a \in Seq(S) /\ Len(a) = i - 1 /\ \A j \in 1..(i - 1) : a[j] = s[j]
  BY <1>2 DEF a
<1>6. b \in Seq(S) /\ Len(b) = n - i /\ \A j \in 1..(n - i) : b[j] = s[i + j]
  BY <1>3, <1>4 DEF b
<1>7. RemoveAt(s, i) = a \o b
  BY DEF RemoveAt, a, b
<1>8. a \o b \in Seq(S) /\ Len(a \o b) = n - 1
  <2>1. a \o b \in Seq(S) /\ Len(a \o b) = Len(a) + Len(b)
    BY <1>5, <1>6, ConcatProperties
  <2>2. (i - 1) + (n - i) = n - 1
    BY <1>1, <1>4
  <2> QED BY <2>1, <2>2, <1>5, <1>6
<1>9. ASSUME NEW j \in 1..(n - 1) PROVE (a \o b)[j] = s[Old(i, j)]
  <2>1. CASE j < i
    <3>1. (a \o b)[j] = a[j]
      BY <1>1, <1>4, <1>5, <1>6, <2>1
    <3> QED BY <3>1, <1>1, <1>4, <1>5, <2>1 DEF Old
  <2>2. CASE ~(j < i)
    <3>1. (a \o b)[j] = b[j - (i - 1)]
      BY <1>1, <1>4, <1>5, <1>6, <2>2
    <3>2. j - (i - 1) \in 1..(n - i) /\ i + (j - (i - 1)) = j + 1
      BY <1>1, <1>4, <2>2
    <3>3. b[j - (i - 1)] = s[i + (j - (i - 1))]
      BY <3>2, <1>6
    <3> QED BY <3>1, <3>2, <3>3, <2>2 DEF Old
  <2> QED BY <2>1, <2>2
<1> QED BY <1>4, <1>7, <1>8, <1>9

----------------------------------------------------------------------------
(* Messages under way, and what an answer does to them.                    *)

\* A request of the options page for the sections of an organization.
OrgCall(c) == c.from = "options" /\ c.type = "API_REQUEST"
\* A message by which an opened popup finds out what to show.
FormCall(c) == c.from = "popup" /\ c.type \in {"REFRESH", "GET_ME"}

\* A request for an organization names one; a LOGOUT under way has a token.
Sound(c) == /\ OrgCall(c) => c.arg \in Orgs
            /\ c.type = "LOGOUT" /\ c.step = "http" => c.pair # None
CallsSound == \A i \in DOMAIN calls : Sound(calls[i])
\* The types, with what they need of the messages under way.
TypeInv == TypeOK /\ CallsSound

\* The types of the views.
Popups == [screen : {"closed", "loading", "login", "register", "mfa", "authenticated"},
           pending : SUBSET SignIns]
OptionPages == [screen : {"closed", "loading", "unauthenticated", "authenticated"},
                active : Orgs \cup {None}, shown : Orgs \cup {None},
                loading : BOOLEAN, error : BOOLEAN]
JobPages == [open : BOOLEAN, master : {"unknown", "yes", "no"}, modal : Jobs \cup {None},
             button : {"none", "disabled", "enabled"}, shot : Jobs \cup {None},
             here : BOOLEAN, phase : {"idle", "sent", "opening"}]

UisTyped == /\ popup \in Popups /\ options \in OptionPages /\ page \in JobPages
            /\ orgStore \in Orgs \cup {None}

\* A message a client sends on an answer.
Quiet(c) == c \in Call /\ c.step = "posted" /\ c.type \in {"GET_ME", "API_REQUEST", "REFRESH", "OPEN_POPUP"}
\* The call at j is that which was at Old(i, j).
Heir(i, j) == /\ j \in 1..(Len(calls) - 1) /\ Old(i, j) \in DOMAIN calls /\ Old(i, j) # i
              /\ calls'[j] = calls[Old(i, j)]
\* Call i is answered: the others stay in their order, one message may join them.
Drop(i) ==
  /\ calls' \in Seq(Call) /\ Len(calls') \in {Len(calls) - 1, Len(calls)}
  /\ \A j \in DOMAIN calls' : Heir(i, j) \/ (j = Len(calls) /\ Quiet(calls'[j]))
  /\ \A j \in DOMAIN calls \ {i} : \E k \in DOMAIN calls' : Heir(i, k) /\ Old(i, k) = j

LEMMA PostTyped ==
  ASSUME NEW type \in Types, NEW from \in Clients, NEW arg \in Nat \cup {None}
  PROVE  /\ Post(type, from, arg) \in Call /\ Post(type, from, arg).step = "posted"
         /\ Post(type, from, arg).type = type /\ Post(type, from, arg).from = from
         /\ Post(type, from, arg).arg = arg /\ Post(type, from, arg).pair = None
  BY DEF Post, Call, Steps

LEMMA UisFromType ==
  ASSUME TypeOK
  PROVE UisTyped
  BY DEF TypeOK, UisTyped, Popups, OptionPages, JobPages

\* An answer drops its message.
LEMMA DropFacts ==
  ASSUME TypeOK, NEW i \in DOMAIN calls, NEW new \in Seq(Call), Len(new) \in {0, 1},
         Len(new) = 1 => Quiet(new[1]), calls' = RemoveAt(calls, i) \o new
  PROVE  /\ Drop(i)
         /\ \A j \in DOMAIN calls' : Heir(i, j) \/ (j = Len(calls) /\ Len(new) = 1 /\ calls'[j] = new[1])
         /\ Len(new) = 1 => Len(calls') = Len(calls) /\ calls'[Len(calls)] = new[1]
<1>1. calls \in Seq(Call)
  BY DEF TypeOK
<1>2. PICK n \in Nat : n = Len(calls)
  BY <1>1
<1>3. i \in 1..n /\ DOMAIN calls = 1..n
  BY <1>1, <1>2
<1> DEFINE r == RemoveAt(calls, i)
<1>4. r \in Seq(Call) /\ Len(r) = n - 1 /\ \A j \in 1..(n - 1) : r[j] = calls[Old(i, j)]
  BY <1>1, <1>2, RemoveAtFacts
<1> HIDE DEF r
<1>5. calls' = r \o new
  BY DEF r
<1>6. calls' \in Seq(Call) /\ Len(calls') = (n - 1) + Len(new)
      /\ \A j \in 1..((n - 1) + Len(new)) : calls'[j] = IF j <= n - 1 THEN r[j] ELSE new[j - (n - 1)]
  BY <1>4, <1>5, ConcatProperties
<1>7. \A j \in 1..(n - 1) : Old(i, j) \in 1..n /\ Old(i, j) # i
  BY <1>3 DEF Old
<1>8. DOMAIN calls' = 1..Len(calls')
  BY <1>6
<1>9. ASSUME NEW j \in 1..(n - 1) PROVE Heir(i, j) /\ j \in DOMAIN calls'
  <2>1. j \in 1..((n - 1) + Len(new)) /\ j <= n - 1
    BY <1>3
  <2>2. calls'[j] = calls[Old(i, j)]
    BY <2>1, <1>6, <1>4
  <2>3. j \in DOMAIN calls'
    BY <2>1, <1>6, <1>8
  <2>4. Old(i, j) \in DOMAIN calls /\ Old(i, j) # i
    BY <1>3, <1>7
  <2>5. j \in 1..(Len(calls) - 1)
    BY <1>2
  <2> QED BY <2>2, <2>3, <2>4, <2>5 DEF Heir
<1>10. ASSUME NEW j \in DOMAIN calls', j \notin 1..(n - 1)
       PROVE j = n /\ Len(new) = 1 /\ calls'[j] = new[1]
  <2>1. j \in 1..((n - 1) + Len(new))
    BY <1>6, <1>8, <1>10
  <2>2. Len(new) = 1 /\ j = n /\ ~(j <= n - 1) /\ j - (n - 1) = 1
    <3>1. CASE Len(new) = 0
      BY <3>1, <2>1, <1>3, <1>10
    <3>2. CASE Len(new) = 1
      BY <3>2, <2>1, <1>3, <1>10
    <3> QED BY <3>1, <3>2
  <2>3. calls'[j] = new[j - (n - 1)]
    BY <2>1, <2>2, <1>6
  <2> QED BY <2>2, <2>3
<1>11. \A j \in DOMAIN calls' : Heir(i, j) \/ (j = n /\ Len(new) = 1 /\ calls'[j] = new[1])
  BY <1>9, <1>10
<1>12. ASSUME NEW j \in DOMAIN calls \ {i} PROVE \E k \in DOMAIN calls' : Heir(i, k) /\ Old(i, k) = j
  <2>1. CASE j < i
    <3>1. j \in 1..(n - 1) /\ Old(i, j) = j
      BY <2>1, <1>3 DEF Old
    <3> QED BY <3>1, <1>9
  <2>2. CASE ~(j < i)
    <3>1. j - 1 \in 1..(n - 1) /\ Old(i, j - 1) = j
      BY <2>2, <1>3 DEF Old
    <3> QED BY <3>1, <1>9
  <2> QED BY <2>1, <2>2
<1>13. Len(calls') \in {n - 1, n}
  <2>1. CASE Len(new) = 0
    BY <2>1, <1>6, <1>3
  <2>2. CASE Len(new) = 1
    BY <2>2, <1>6, <1>3
  <2> QED BY <2>1, <2>2
<1>14. Len(new) = 1 => Len(calls') = n /\ calls'[n] = new[1]
  <2> SUFFICES ASSUME Len(new) = 1 PROVE Len(calls') = n /\ calls'[n] = new[1]
    OBVIOUS
  <2>1. Len(calls') = n
    BY <1>6, <1>3
  <2>2. n \in DOMAIN calls' /\ n \notin 1..(n - 1)
    BY <2>1, <1>8, <1>3
  <2> QED BY <2>1, <2>2, <1>10
<1>15. Drop(i)
  BY <1>2, <1>6, <1>11, <1>12, <1>13 DEF Drop
<1> QED BY <1>2, <1>11, <1>14, <1>15

\* The message a client sends on an answer.
Sent(i, c) ==
  /\ Quiet(c) /\ c.from = calls[i].from
  /\ FormCall(c) => FormCall(calls[i]) /\ popup' = popup
  /\ OrgCall(c) => /\ options'.screen = "authenticated" /\ c.arg = options'.active /\ c.arg \in Orgs

\* Message i goes, and at most one of its client comes.
SendsAtMostOne(i) == \E new \in Seq(Call) :
  /\ Len(new) \in {0, 1} /\ (Len(new) = 1 => Sent(i, new[1]))
  /\ calls' = RemoveAt(calls, i) \o new

LEMMA CallTyped ==
  ASSUME TypeOK, NEW i \in DOMAIN calls
  PROVE calls[i] \in Call
  BY DEF TypeOK

\* The names of messages and clients the code uses.
LEMMA Names ==
  /\ {"GET_ME", "API_REQUEST", "REFRESH", "OPEN_POPUP", "LOGOUT", "SHOOT_JOB"} \cup SignIns \subseteq Types
  /\ "popup" \in Clients /\ "options" \in Clients /\ "page" \in Clients
  BY DEF Types, Clients

LEMMA SendsNone ==
  ASSUME TypeOK, NEW i \in DOMAIN calls, calls' = RemoveAt(calls, i) \o <<>>
  PROVE SendsAtMostOne(i)
<1>1. <<>> \in Seq(Call) /\ Len(<<>>) = 0
  OBVIOUS
<1>2. Len(<<>>) \in {0, 1} /\ (Len(<<>>) = 1 => Sent(i, <<>>[1]))
  BY <1>1
<1> QED BY <1>1, <1>2 DEF SendsAtMostOne

LEMMA SendsOne ==
  ASSUME TypeOK, NEW i \in DOMAIN calls, NEW c, Sent(i, c), calls' = RemoveAt(calls, i) \o <<c>>
  PROVE SendsAtMostOne(i)
<1>1. c \in Call
  BY DEF Sent, Quiet
<1>2. <<c>> \in Seq(Call) /\ Len(<<c>>) = 1 /\ <<c>>[1] = c
  BY <1>1
<1>3. Len(<<c>>) \in {0, 1} /\ (Len(<<c>>) = 1 => Sent(i, <<c>>[1]))
  BY <1>2
<1> QED BY <1>2, <1>3 DEF SendsAtMostOne

\* The popup, the options page and the page send one message at most.
LEMMA PopupSends ==
  ASSUME TypeOK, NEW i \in DOMAIN calls, NEW res, calls[i].from = "popup",
         PopupTakes(calls[i], res, RemoveAt(calls, i))
  PROVE SendsAtMostOne(i)
<1> DEFINE r == RemoveAt(calls, i)
           c == calls[i]
<1>1. CASE /\ c.type = "REFRESH"
           /\ Send(r, <<Post("GET_ME", "popup", None)>>)
           /\ UNCHANGED popup
  <2>1. /\ Post("GET_ME", "popup", None) \in Call /\ Post("GET_ME", "popup", None).step = "posted"
        /\ Post("GET_ME", "popup", None).type = "GET_ME" /\ Post("GET_ME", "popup", None).from = "popup"
    BY Names DEF Post, Call, Steps
  <2>2. Sent(i, Post("GET_ME", "popup", None))
    BY <1>1, <2>1 DEF Sent, Quiet, FormCall, OrgCall
  <2> QED BY <1>1, <2>2, SendsOne DEF Send
<1>2. CASE Send(r, <<>>)
  BY <1>2, SendsNone DEF Send
<1> QED BY <1>1, <1>2 DEF PopupTakes

LEMMA OptionsSends ==
  ASSUME TypeOK, NEW i \in DOMAIN calls, NEW res, calls[i].from = "options",
         OptionsTakes(calls[i], res, RemoveAt(calls, i))
  PROVE SendsAtMostOne(i)
<1> DEFINE r == RemoveAt(calls, i)
           c == calls[i]
<1>1. CASE /\ c.type = "REFRESH"
           /\ Send(r, <<Post("GET_ME", "options", None)>>)
  <2>1. /\ Post("GET_ME", "options", None) \in Call /\ Post("GET_ME", "options", None).step = "posted"
        /\ Post("GET_ME", "options", None).type = "GET_ME" /\ Post("GET_ME", "options", None).from = "options"
    BY Names DEF Post, Call, Steps
  <2>2. Sent(i, Post("GET_ME", "options", None))
    BY <1>1, <2>1 DEF Sent, Quiet, FormCall, OrgCall
  <2> QED BY <1>1, <2>2, SendsOne DEF Send
<1>2. CASE /\ c.type = "GET_ME" /\ res = "ok"
           /\ LET o == IF orgStore # None THEN orgStore ELSE FirstOrg IN
                /\ options' = Fetching(o)
                /\ Send(r, <<Post("API_REQUEST", "options", o)>>)
  <2> DEFINE o == IF orgStore # None THEN orgStore ELSE FirstOrg
  <2>1. o \in Orgs
    BY FirstOrgExists DEF TypeOK
  <2>2. o \in Nat
    BY <2>1, ExtensionAssumption
  <2>3. options' = Fetching(o) /\ Send(r, <<Post("API_REQUEST", "options", o)>>)
    BY <1>2
  <2> HIDE DEF o
  <2>4. /\ Post("API_REQUEST", "options", o) \in Call /\ Post("API_REQUEST", "options", o).step = "posted"
        /\ Post("API_REQUEST", "options", o).type = "API_REQUEST"
        /\ Post("API_REQUEST", "options", o).from = "options" /\ Post("API_REQUEST", "options", o).arg = o
    BY <2>2, PostTyped, Names
  <2>5. options'.screen = "authenticated" /\ options'.active = o
    BY <2>3 DEF TypeOK, Fetching
  <2>6. Sent(i, Post("API_REQUEST", "options", o))
    BY <2>1, <2>4, <2>5 DEF Sent, Quiet, FormCall, OrgCall
  <2> QED BY <2>3, <2>6, SendsOne DEF Send
<1>3. CASE Send(r, <<>>)
  BY <1>3, SendsNone DEF Send
<1> QED BY <1>1, <1>2, <1>3 DEF OptionsTakes

LEMMA PageSends ==
  ASSUME TypeOK, NEW i \in DOMAIN calls, NEW res, calls[i].from = "page",
         PageTakes(calls[i], res, RemoveAt(calls, i))
  PROVE SendsAtMostOne(i)
<1> DEFINE r == RemoveAt(calls, i)
<1>1. ASSUME NEW type \in {"REFRESH", "API_REQUEST", "OPEN_POPUP"}
      PROVE  /\ Post(type, "page", None) \in Call /\ Post(type, "page", None).step = "posted"
             /\ Post(type, "page", None).type = type /\ Post(type, "page", None).from = "page"
    BY Names DEF Post, Call, Steps
<1>2. CASE \E type \in {"REFRESH", "OPEN_POPUP"} : Send(r, <<Post(type, "page", None)>>)
  <2>1. PICK type \in {"REFRESH", "OPEN_POPUP"} : Send(r, <<Post(type, "page", None)>>)
    BY <1>2
  <2>2. Sent(i, Post(type, "page", None))
    BY <1>1 DEF Sent, Quiet, FormCall, OrgCall
  <2> QED BY <2>1, <2>2, SendsOne DEF Send
<1>3. CASE Send(r, <<[Post("API_REQUEST", "page", None) EXCEPT !.tries = 1]>>)
  <2> DEFINE p == [Post("API_REQUEST", "page", None) EXCEPT !.tries = 1]
  <2>1. p \in Call /\ p.step = "posted" /\ p.type = "API_REQUEST" /\ p.from = "page"
    <3>1. Post("API_REQUEST", "page", None) \in Call
      BY <1>1
    <3> QED BY <3>1 DEF Call, Post
  <2>2. Sent(i, p)
    BY <2>1 DEF Sent, Quiet, FormCall, OrgCall
  <2> QED BY <1>3, <2>2, SendsOne DEF Send
<1>4. CASE Send(r, <<>>)
  BY <1>4, SendsNone DEF Send
<1> QED BY <1>2, <1>3, <1>4 DEF PageTakes

\* What an answer does to the messages under way.
LEMMA RespondFacts ==
  ASSUME TypeOK, NEW i \in DOMAIN calls, NEW res, Respond(i, res)
  PROVE  /\ Drop(i)
         /\ \A j \in DOMAIN calls' : Heir(i, j) \/ (j = Len(calls) /\ Sent(i, calls'[j]))
<1>1. SendsAtMostOne(i)
  <2>1. CASE calls[i].from = "gone" /\ calls' = RemoveAt(calls, i)
    <3>1. RemoveAt(calls, i) \in Seq(Call)
      BY RemoveAtFacts DEF TypeOK
    <3>2. RemoveAt(calls, i) \o <<>> = RemoveAt(calls, i)
      BY <3>1, ConcatEmptySeq
    <3> QED BY <2>1, <3>2, SendsNone
  <2>2. CASE calls[i].from = "popup" /\ PopupTakes(calls[i], res, RemoveAt(calls, i))
    BY <2>2, PopupSends
  <2>3. CASE calls[i].from = "options" /\ OptionsTakes(calls[i], res, RemoveAt(calls, i))
    BY <2>3, OptionsSends
  <2>4. CASE calls[i].from = "page" /\ PageTakes(calls[i], res, RemoveAt(calls, i))
    BY <2>4, PageSends
  <2> QED BY <2>1, <2>2, <2>3, <2>4 DEF Respond
<1>2. PICK new \in Seq(Call) : Len(new) \in {0, 1} /\ (Len(new) = 1 => Sent(i, new[1]))
                               /\ calls' = RemoveAt(calls, i) \o new
  BY <1>1 DEF SendsAtMostOne
<1>3. Len(new) = 1 => Quiet(new[1])
  BY <1>2 DEF Sent
<1>4. Drop(i) /\ \A j \in DOMAIN calls' : Heir(i, j) \/ (j = Len(calls) /\ Len(new) = 1 /\ calls'[j] = new[1])
  BY <1>2, <1>3, DropFacts
<1> QED BY <1>2, <1>4

----------------------------------------------------------------------------
(* The parts of the types.                                                 *)

\* The parts of the type invariant.
CallsTyped == calls \in Seq(Call) /\ CallsSound
StoreTyped ==
  /\ up \in BOOLEAN /\ cache \in Pairs \cup {None} /\ storage \in Pairs \cup {None}
  /\ writes \in Seq(Pairs \cup {None})
  /\ refresh \in [pair : Pairs, step : {"sent", "served"}, reply : Pairs \cup {None}] \cup {None}
RestTyped ==
  /\ plan \in Plans /\ issued \in Pairs /\ revoked \subseteq Pairs /\ expired \subseteq Pairs
  /\ charges \in [Clicks -> Nat] /\ clicks \in 0..MaxClicks /\ spent \in 0..plan.budget
  /\ signedOut \in BOOLEAN /\ marks \subseteq {"killed", "crossed", "overtaken"}

LEMMA TypeParts ==
  ASSUME TypeInv
  PROVE  CallsTyped /\ StoreTyped /\ RestTyped /\ UisTyped
  BY DEF TypeInv, TypeOK, CallsTyped, StoreTyped, RestTyped, UisTyped, Popups, OptionPages, JobPages

LEMMA TypeWhole ==
  ASSUME CallsTyped', StoreTyped', RestTyped', UisTyped'
  PROVE  TypeInv'
  BY DEF TypeInv, TypeOK, CallsTyped, StoreTyped, RestTyped, UisTyped, Popups, OptionPages, JobPages

LEMMA PlanFacts ==
  ASSUME NEW p \in Plans
  PROVE  p.pairs \in 1..MaxPairs /\ p.budget \in Nat /\ MaxPairs \in Nat /\ MaxClicks \in Nat
  BY ExtensionAssumption

LEMMA NoneFacts == None \notin Pairs /\ None \notin Orgs /\ None \notin Jobs /\ None \notin Nat
  BY ExtensionAssumption DEF Pairs

\* Call i becomes c, the others stay.
Sets(i, c) ==
  /\ calls' \in Seq(Call) /\ DOMAIN calls' = DOMAIN calls
  /\ \A j \in DOMAIN calls : calls'[j] = IF j = i THEN c ELSE calls[j]

LEMMA SetCallFacts ==
  ASSUME calls \in Seq(Call), NEW i \in DOMAIN calls, NEW c \in Call, SetCall(i, c)
  PROVE  Sets(i, c)
  BY DEF SetCall, Sets

\* A call c joins.
Grows(c) ==
  /\ calls' \in Seq(Call) /\ Len(calls') = Len(calls) + 1 /\ calls'[Len(calls) + 1] = c
  /\ \A j \in DOMAIN calls : j \in DOMAIN calls' /\ calls'[j] = calls[j]
  /\ \A j \in DOMAIN calls' : j \in DOMAIN calls \/ j = Len(calls) + 1
  /\ Len(calls) + 1 \in DOMAIN calls' /\ Len(calls) + 1 \notin DOMAIN calls

LEMMA GrowsFacts ==
  ASSUME calls \in Seq(Call), NEW c \in Call, calls' = Append(calls, c)
  PROVE  Grows(c)
<1>1. PICK n \in Nat : n = Len(calls)
  OBVIOUS
<1>2. DOMAIN calls = 1..n
  BY <1>1
<1>3. calls' \in Seq(Call) /\ Len(calls') = n + 1 /\ \A j \in 1..n : calls'[j] = calls[j]
  BY <1>1, AppendProperties
<1>4. calls'[n + 1] = c
  BY <1>1, AppendProperties
<1>5. DOMAIN calls' = 1..(n + 1)
  BY <1>3
<1>6. \A j \in 1..(n + 1) : j \in 1..n \/ j = n + 1
  OBVIOUS
<1>7. n + 1 \in 1..(n + 1) /\ n + 1 \notin 1..n /\ 1..n \subseteq 1..(n + 1)
  OBVIOUS
<1> QED BY <1>1, <1>2, <1>3, <1>4, <1>5, <1>6, <1>7 DEF Grows

\* The view of a client is closed.
Left(client) ==
  /\ calls' \in Seq(Call) /\ DOMAIN calls' = DOMAIN calls
  /\ \A j \in DOMAIN calls :
       /\ calls[j].from # client => calls'[j] = calls[j]
       /\ calls[j].from = client => calls'[j] = [calls[j] EXCEPT !.from = "gone"]

LEMMA LeavesFacts ==
  ASSUME calls \in Seq(Call), NEW client \in Clients, Leaves(client)
  PROVE  Left(client)
<1>1. \A j \in DOMAIN calls : calls[j] \in Call
  OBVIOUS
<1>2. \A j \in DOMAIN calls : [calls[j] EXCEPT !.from = "gone"] \in Call
  BY <1>1 DEF Call
<1>3. \A j \in DOMAIN calls : (IF calls[j].from = client THEN [calls[j] EXCEPT !.from = "gone"] ELSE calls[j]) \in Call
  BY <1>1, <1>2
<1> DEFINE F(j) == IF calls[j].from = client THEN [calls[j] EXCEPT !.from = "gone"] ELSE calls[j]
<1>4. \A j \in DOMAIN calls : F(j) \in Call
  BY <1>3
<1>5. calls' = [j \in DOMAIN calls |-> F(j)]
  BY DEF Leaves
<1> HIDE DEF F
<1>6. calls' \in Seq(Call) /\ DOMAIN calls' = DOMAIN calls
  BY <1>4, <1>5
<1>7. \A j \in DOMAIN calls : calls'[j] = F(j)
  BY <1>5
<1> QED BY <1>6, <1>7 DEF Left, F

\* The handlers that awaited the refresh went on.
WentOn(p) ==
  /\ calls' \in Seq(Call) /\ DOMAIN calls' = DOMAIN calls
  /\ \A j \in DOMAIN calls : calls'[j] = GoOn(calls[j], p)

LEMMA GoOnTyped ==
  ASSUME NEW c \in Call, NEW p \in Pairs \cup {None}
  PROVE  /\ GoOn(c, p) \in Call
         /\ GoOn(c, p).type = c.type /\ GoOn(c, p).from = c.from /\ GoOn(c, p).arg = c.arg
<1>1. [c EXCEPT !.step = "denied"] \in Call /\ [c EXCEPT !.step = "refreshed"] \in Call
  BY DEF Call, Steps
<1>2. [c EXCEPT !.step = "http", !.pair = p, !.tries = 1] \in Call
  <2>1. "http" \in Steps /\ 1 \in 0..1
    BY DEF Steps
  <2> QED BY <2>1 DEF Call
<1> QED BY <1>1, <1>2 DEF GoOn, Call

LEMMA GoOnFacts ==
  ASSUME calls \in Seq(Call), NEW p \in Pairs \cup {None}, calls' = [i \in DOMAIN calls |-> GoOn(calls[i], p)]
  PROVE  WentOn(p)
<1>1. \A j \in DOMAIN calls : GoOn(calls[j], p) \in Call
  BY GoOnTyped
<1> QED BY <1>1 DEF WentOn

(* Calls stay typed. *)
LEMMA DropTyped ==
  ASSUME TypeInv, NEW i \in DOMAIN calls, NEW res, Respond(i, res)
  PROVE  CallsTyped'
<1>1. Drop(i) /\ \A j \in DOMAIN calls' : Heir(i, j) \/ (j = Len(calls) /\ Sent(i, calls'[j]))
  BY RespondFacts DEF TypeInv
<1>2. \A j \in DOMAIN calls' : Sound(calls'[j])
  BY <1>1 DEF Heir, Sent, Quiet, TypeInv, CallsSound, Sound
<1> QED BY <1>1, <1>2 DEF CallsTyped, CallsSound, Drop

LEMMA SetTyped ==
  ASSUME TypeInv, NEW i \in DOMAIN calls, NEW c \in Call, c.type = calls[i].type, c.arg = calls[i].arg,
         c.from = calls[i].from, Sound(c), SetCall(i, c)
  PROVE  CallsTyped' /\ UisTyped'
<1>1. Sets(i, c)
  BY SetCallFacts DEF TypeInv, TypeOK
<1>2. \A j \in DOMAIN calls' : Sound(calls'[j])
  BY <1>1 DEF Sets, TypeInv, CallsSound
<1>3. UisTyped'
  BY UisFromType DEF TypeInv, SetCall, uis, UisTyped
<1> QED BY <1>1, <1>2, <1>3 DEF CallsTyped, CallsSound, Sets

LEMMA GrowsTyped ==
  ASSUME TypeInv, NEW c \in Call, Sound(c), calls' = Append(calls, c)
  PROVE  CallsTyped'
<1>1. Grows(c)
  BY GrowsFacts DEF TypeInv, TypeOK
<1>2. \A j \in DOMAIN calls' : Sound(calls'[j])
  BY <1>1 DEF Grows, TypeInv, CallsSound
<1> QED BY <1>1, <1>2 DEF CallsTyped, CallsSound, Grows

LEMMA LeftTyped ==
  ASSUME TypeInv, NEW client \in Clients, Leaves(client)
  PROVE  CallsTyped'
<1>1. Left(client)
  BY LeavesFacts DEF TypeInv, TypeOK
<1>2. \A j \in DOMAIN calls' : Sound(calls'[j])
  <2>1. \A j \in DOMAIN calls : calls[j] \in Call
    BY DEF TypeInv, TypeOK
  <2>2. \A j \in DOMAIN calls : Sound(calls[j]) => Sound([calls[j] EXCEPT !.from = "gone"])
    BY <2>1 DEF Call, Sound, OrgCall
  <2> QED BY <1>1, <2>2 DEF Left, TypeInv, CallsSound
<1> QED BY <1>1, <1>2 DEF CallsTyped, CallsSound, Left

LEMMA WentOnTyped ==
  ASSUME TypeInv, NEW p \in Pairs \cup {None}, calls' = [i \in DOMAIN calls |-> GoOn(calls[i], p)]
  PROVE  CallsTyped'
<1>1. WentOn(p)
  BY GoOnFacts DEF TypeInv, TypeOK
<1>2. \A j \in DOMAIN calls : calls[j] \in Call
  BY DEF TypeInv, TypeOK
<1>3. \A j \in DOMAIN calls : Sound(calls[j]) => Sound(GoOn(calls[j], p))
  BY <1>2 DEF GoOn, Call, Sound, OrgCall
<1>4. \A j \in DOMAIN calls' : Sound(calls'[j])
  BY <1>1, <1>3 DEF WentOn, TypeInv, CallsSound
<1> QED BY <1>1, <1>4 DEF CallsTyped, CallsSound, WentOn

----------------------------------------------------------------------------
(* Views and handlers keep their types.                                    *)

\* The views stay typed when they take an answer.
LEMMA PopupTyped ==
  ASSUME UisTyped, NEW c, NEW res, NEW rest, PopupTakes(c, res, rest)
  PROVE  UisTyped'
<1>1. popup' \in Popups
  <2>1. CASE popup' = popup
    BY <2>1 DEF UisTyped
  <2>2. CASE popup' = [popup EXCEPT !.screen = IF res = "ok" THEN "authenticated" ELSE "login"]
    BY <2>2 DEF UisTyped, Popups
  <2>3. CASE popup' = [screen |-> CASE res = "ok" -> "authenticated"
                                    [] res = "mfa" -> "mfa"
                                    [] OTHER -> popup.screen,
                       pending |-> popup.pending \ {c.type}]
    <3>1. popup.pending \ {c.type} \in SUBSET SignIns
      BY DEF UisTyped, Popups
    <3>2. CASE res = "ok"
      BY <2>3, <3>1, <3>2 DEF Popups
    <3>3. CASE res # "ok" /\ res = "mfa"
      BY <2>3, <3>1, <3>3 DEF Popups
    <3>4. CASE res # "ok" /\ res # "mfa"
      <4>1. popup.screen \in {"closed", "loading", "login", "register", "mfa", "authenticated"}
        BY DEF UisTyped, Popups
      <4>2. popup' = [screen |-> popup.screen, pending |-> popup.pending \ {c.type}]
        BY <2>3, <3>4
      <4> QED BY <3>1, <4>1, <4>2 DEF Popups
    <3> QED BY <3>2, <3>3, <3>4
  <2>4. CASE popup' = [screen |-> "login", pending |-> popup.pending \ {"LOGIN"}]
    BY <2>4 DEF UisTyped, Popups
  <2> QED BY <2>1, <2>2, <2>3, <2>4 DEF PopupTakes
<1>2. UNCHANGED <<options, page, orgStore>>
  BY DEF PopupTakes
<1> QED BY <1>1, <1>2 DEF UisTyped

LEMMA FetchingTyped ==
  ASSUME options \in OptionPages, NEW o \in Orgs
  PROVE  Fetching(o) \in OptionPages
  BY DEF OptionPages, Fetching

LEMMA OptionsTyped ==
  ASSUME UisTyped, NEW c, c.type = "API_REQUEST" => c.arg \in Orgs, NEW res, NEW rest, OptionsTakes(c, res, rest)
  PROVE  UisTyped'
<1>0. options \in OptionPages /\ orgStore \in Orgs \cup {None}
  BY DEF UisTyped
<1>1. options' \in OptionPages
  <2>1. CASE options' = options
    BY <1>0, <2>1
  <2>2. CASE options' = Fetching(IF orgStore # None THEN orgStore ELSE FirstOrg)
    <3>1. (IF orgStore # None THEN orgStore ELSE FirstOrg) \in Orgs
      BY <1>0, FirstOrgExists
    <3> QED BY <1>0, <2>2, <3>1, FetchingTyped
  <2>3. CASE options' = [options EXCEPT !.screen = "unauthenticated"]
    BY <1>0, <2>3 DEF OptionPages
  <2>4. CASE c.type = "API_REQUEST" /\ options' = [options EXCEPT !.shown = c.arg, !.loading = FALSE]
    BY <1>0, <2>4 DEF OptionPages
  <2>5. CASE options' = [options EXCEPT !.error = TRUE, !.loading = FALSE]
    BY <1>0, <2>5 DEF OptionPages
  <2> QED BY <2>1, <2>2, <2>3, <2>4, <2>5 DEF OptionsTakes
<1>2. UNCHANGED <<popup, page>> /\ orgStore' \in Orgs \cup {None}
  BY <1>0 DEF OptionsTakes
<1> QED BY <1>1, <1>2 DEF UisTyped

LEMMA ShotEndedTyped ==
  ASSUME page \in JobPages
  PROVE  ShotEnded \in JobPages
  BY DEF JobPages, ShotEnded

LEMMA PageTyped ==
  ASSUME UisTyped, NEW c, NEW res, NEW rest, PageTakes(c, res, rest)
  PROVE  UisTyped'
<1>0. page \in JobPages
  BY DEF UisTyped
<1>1. page' \in JobPages
  <2>1. CASE page' = page
    BY <1>0, <2>1
  <2>2. CASE page' = Checked(res = "ok" /\ plan.master)
    BY <1>0, <2>2 DEF JobPages, Checked
  <2>3. CASE page' = [page EXCEPT !.phase = "opening"]
    BY <1>0, <2>3 DEF JobPages
  <2>4. CASE page' = ShotEnded
    BY <1>0, <2>4, ShotEndedTyped
  <2> QED BY <2>1, <2>2, <2>3, <2>4 DEF PageTakes
<1>2. UNCHANGED <<popup, options, orgStore>>
  BY DEF PageTakes
<1> QED BY <1>1, <1>2 DEF UisTyped

\* An answer keeps the messages and the views typed.
LEMMA RespondTyped ==
  ASSUME TypeInv, NEW i \in DOMAIN calls, NEW res, Respond(i, res)
  PROVE  CallsTyped' /\ UisTyped'
<1>1. UisTyped
  BY TypeParts
<1>2. CallsTyped'
  BY DropTyped
<1>3. UisTyped'
  <2>1. CASE UNCHANGED uis
    BY <1>1, <2>1 DEF UisTyped, uis
  <2>2. CASE PopupTakes(calls[i], res, RemoveAt(calls, i))
    BY <1>1, <2>2, PopupTyped
  <2>3. CASE calls[i].from = "options" /\ OptionsTakes(calls[i], res, RemoveAt(calls, i))
    <3>1. calls[i].type = "API_REQUEST" => calls[i].arg \in Orgs
      BY <2>3 DEF TypeInv, CallsSound, Sound, OrgCall
    <3> QED BY <1>1, <2>3, <3>1, OptionsTyped
  <2>4. CASE PageTakes(calls[i], res, RemoveAt(calls, i))
    BY <1>1, <2>4, PageTyped
  <2> QED BY <2>1, <2>2, <2>3, <2>4 DEF Respond
<1> QED BY <1>2, <1>3

(* The handlers. *)
LEMMA MarkedTyped ==
  ASSUME RestTyped, NEW i, Marked(i)
  PROVE  signedOut' \in BOOLEAN /\ marks' \subseteq {"killed", "crossed", "overtaken"}
  BY DEF RestTyped, Marked, MarkIf

LEMMA RefreshTyped ==
  ASSUME TypeInv, NEW i \in DOMAIN calls, JoinRefresh(i)
  PROVE  /\ CallsTyped' /\ UisTyped'
         /\ refresh' \in [pair : Pairs, step : {"sent", "served"}, reply : Pairs \cup {None}] \cup {None}
<1>1. calls[i] \in Call
  BY CallTyped DEF TypeInv
<1>2. [calls[i] EXCEPT !.step = "refreshing", !.pair = None] \in Call
  BY <1>1 DEF Call, Steps
<1>3. CallsTyped' /\ UisTyped'
  <2> DEFINE c == [calls[i] EXCEPT !.step = "refreshing", !.pair = None]
  <2>1. c \in Call /\ c.type = calls[i].type /\ c.arg = calls[i].arg /\ c.from = calls[i].from
        /\ Sound(c)
    <3>1. Sound(calls[i])
      BY DEF TypeInv, CallsSound
    <3> QED BY <1>1, <1>2, <3>1 DEF Call, Sound, OrgCall
  <2>2. SetCall(i, c)
    BY DEF JoinRefresh
  <2> HIDE DEF c
  <2> QED BY <2>1, <2>2, SetTyped
<1>4. refresh' \in [pair : Pairs, step : {"sent", "served"}, reply : Pairs \cup {None}] \cup {None}
  BY DEF JoinRefresh, TypeInv, TypeOK
<1> QED BY <1>3, <1>4

LEMMA ClearTyped ==
  ASSUME TypeInv, ClearTokens
  PROVE  cache' \in Pairs \cup {None} /\ storage' \in Pairs \cup {None} /\ writes' \in Seq(Pairs \cup {None})
<1>1. writes \in Seq(Pairs \cup {None})
  BY DEF TypeInv, TypeOK
<1>2. writes' \in Seq(Pairs \cup {None})
  BY <1>1, AppendProperties DEF ClearTokens
<1> QED BY <1>2 DEF ClearTokens, TypeInv, TypeOK

LEMMA SetTokensTyped ==
  ASSUME TypeInv, NEW p \in Pairs, SetTokens(p)
  PROVE  cache' \in Pairs \cup {None} /\ storage' \in Pairs \cup {None} /\ writes' \in Seq(Pairs \cup {None})
<1>1. writes \in Seq(Pairs \cup {None})
  BY DEF TypeInv, TypeOK
<1>2. writes' \in Seq(Pairs \cup {None})
  BY <1>1, AppendProperties DEF SetTokens
<1> QED BY <1>2 DEF SetTokens, TypeInv, TypeOK

LEMMA ClearedTyped ==
  ASSUME TypeInv, NEW i \in DOMAIN calls, Cleared(i)
  PROVE  /\ CallsTyped' /\ UisTyped'
         /\ cache' \in Pairs \cup {None} /\ storage' \in Pairs \cup {None} /\ writes' \in Seq(Pairs \cup {None})
         /\ signedOut' \in BOOLEAN /\ marks' \subseteq {"killed", "crossed", "overtaken"}
<1>1. CallsTyped' /\ UisTyped'
  BY RespondTyped DEF Cleared
<1>2. signedOut' \in BOOLEAN /\ marks' \subseteq {"killed", "crossed", "overtaken"}
  BY DEF Cleared, MarkIf, TypeInv, TypeOK
<1> QED BY <1>1, <1>2, ClearTyped DEF Cleared

\* openPopup answers its message and may open the popup, which sends its first one.
LEMMA OpenPopupDrops ==
  ASSUME TypeInv, NEW i \in DOMAIN calls, HandleOpenPopup(i)
  PROVE  /\ Drop(i)
         /\ \A j \in DOMAIN calls' : Heir(i, j) \/ (j = Len(calls) /\ calls'[j] = Post("REFRESH", "popup", None)
                                                    /\ popup.screen = "closed" /\ popup'.screen = "loading")
<1> DEFINE opens == popup.screen = "closed" /\ "popup" \in plan.clients
           p == Post("REFRESH", "popup", None)
<1>1. p \in Call /\ Quiet(p) /\ ~OrgCall(p)
  BY Names DEF Post, Call, Steps, Quiet, OrgCall
<1>2. \E new \in Seq(Call) : /\ Len(new) \in {0, 1} /\ (Len(new) = 1 => new[1] = p /\ opens)
                             /\ calls' = RemoveAt(calls, i) \o new
  <2> HIDE DEF p
  <2>1. <<>> \in Seq(Call) /\ Len(<<>>) = 0 /\ <<p>> \in Seq(Call) /\ Len(<<p>>) = 1 /\ <<p>>[1] = p
    BY <1>1
  <2>2. calls' = RemoveAt(calls, i) \o IF opens THEN <<p>> ELSE <<>>
    BY DEF HandleOpenPopup, p
  <2>3. CASE opens
    <3>1. calls' = RemoveAt(calls, i) \o <<p>>
      BY <2>2, <2>3
    <3>2. Len(<<p>>) \in {0, 1} /\ (Len(<<p>>) = 1 => <<p>>[1] = p /\ opens)
      BY <2>1, <2>3
    <3> QED BY <2>1, <3>1, <3>2
  <2>4. CASE ~opens
    <3>1. calls' = RemoveAt(calls, i) \o <<>>
      BY <2>2, <2>4
    <3>2. Len(<<>>) \in {0, 1} /\ (Len(<<>>) = 1 => <<>>[1] = p /\ opens)
      BY <2>1
    <3> QED BY <2>1, <3>1, <3>2
  <2> QED BY <2>3, <2>4
<1>3. PICK new \in Seq(Call) : /\ Len(new) \in {0, 1} /\ (Len(new) = 1 => new[1] = p /\ opens)
                               /\ calls' = RemoveAt(calls, i) \o new
  BY <1>2
<1> HIDE DEF p, opens
<1>4. Drop(i) /\ \A j \in DOMAIN calls' : Heir(i, j) \/ (j = Len(calls) /\ calls'[j] = p /\ opens)
  BY <1>1, <1>3, DropFacts DEF TypeInv
<1>5. opens => popup.screen = "closed" /\ popup'.screen = "loading"
  BY DEF HandleOpenPopup, opens, ClosedPopup
<1> QED BY <1>4, <1>5 DEF p

\* Each handler keeps the types.
LEMMA HandleTyped ==
  ASSUME TypeInv, NEW i \in DOMAIN calls, Handle(i)
  PROVE  TypeInv'
<1>0. CallsTyped /\ StoreTyped /\ RestTyped /\ UisTyped /\ calls[i] \in Call /\ Sound(calls[i])
  BY TypeParts, CallTyped DEF TypeInv, CallsSound
<1> USE <1>0
<1>1. UNCHANGED <<plan, clicks, spent, up, server, storage>>
  BY DEF Handle, bounds, HandleRefresh, HandleUnauthorized, HandleLogoutLocally, HandleByRequest,
         HandleOpenPopup, store, Cleared, ClearTokens, history, server
<1>2. CASE HandleRefresh(i)
  <2>1. CallsTyped' /\ UisTyped'
        /\ refresh' \in [pair : Pairs, step : {"sent", "served"}, reply : Pairs \cup {None}] \cup {None}
    <3>1. CASE JoinRefresh(i)
      BY <3>1, RefreshTyped
    <3>2. CASE Respond(i, "refused") /\ UNCHANGED refresh
      BY <3>2, RespondTyped DEF StoreTyped
    <3> QED BY <1>2, <3>1, <3>2 DEF HandleRefresh
  <2>2. UNCHANGED <<cache, writes, signedOut, marks>>
    BY <1>2 DEF HandleRefresh, store, history
  <2>3. StoreTyped' /\ RestTyped'
    BY <1>1, <2>1, <2>2 DEF StoreTyped, RestTyped, server
  <2> QED BY <2>1, <2>3, TypeWhole
<1>3. CASE HandleUnauthorized(i)
  <2>1. CallsTyped' /\ UisTyped'
    BY <1>3, RespondTyped DEF HandleUnauthorized
  <2>2. UNCHANGED <<cache, writes, refresh>>
    BY <1>3 DEF HandleUnauthorized, store
  <2>3. signedOut' \in BOOLEAN /\ marks' \subseteq {"killed", "crossed", "overtaken"}
    BY <1>3, MarkedTyped DEF HandleUnauthorized
  <2>4. StoreTyped' /\ RestTyped'
    BY <1>1, <2>2, <2>3 DEF StoreTyped, RestTyped, server
  <2> QED BY <2>1, <2>4, TypeWhole
<1>4. CASE HandleLogoutLocally(i)
  <2>1. Cleared(i) /\ UNCHANGED refresh
    BY <1>4 DEF HandleLogoutLocally
  <2>2. StoreTyped' /\ RestTyped'
    BY <1>1, <2>1, ClearedTyped DEF StoreTyped, RestTyped, server
  <2> QED BY <2>1, <2>2, ClearedTyped, TypeWhole
<1>5. CASE HandleByRequest(i)
  <2> DEFINE c == [calls[i] EXCEPT !.step = "http", !.pair = cache]
  <2>1. c \in Call /\ c.type = calls[i].type /\ c.arg = calls[i].arg /\ c.from = calls[i].from
        /\ Sound(c)
    BY <1>5 DEF Call, Steps, StoreTyped, HandleByRequest, Sound, OrgCall
  <2>2. SetCall(i, c)
    BY <1>5 DEF HandleByRequest
  <2> HIDE DEF c
  <2>3. CallsTyped' /\ UisTyped'
    BY <2>1, <2>2, SetTyped
  <2>4. UNCHANGED <<cache, writes, refresh, marks>> /\ signedOut' \in BOOLEAN
    BY <1>5 DEF HandleByRequest, store, RestTyped
  <2>5. StoreTyped' /\ RestTyped'
    BY <1>1, <2>4 DEF StoreTyped, RestTyped, server
  <2> QED BY <2>3, <2>5, TypeWhole
<1>6. CASE HandleOpenPopup(i)
  <2>4. Drop(i) /\ \A j \in DOMAIN calls' : Heir(i, j) \/ (j = Len(calls) /\ calls'[j] = Post("REFRESH", "popup", None))
    BY <1>6, OpenPopupDrops
  <2>5. CallsTyped'
    <3>1. \A j \in DOMAIN calls' : Sound(calls'[j])
      BY <2>4, Names DEF Heir, TypeInv, CallsSound, Sound, Post, OrgCall
    <3> QED BY <2>4, <3>1 DEF CallsTyped, CallsSound, Drop
  <2>6. page' \in JobPages
    BY <1>6, ShotEndedTyped DEF HandleOpenPopup, UisTyped
  <2>7. popup' \in Popups
    <3>1. [ClosedPopup EXCEPT !.screen = "loading"] \in Popups
      BY DEF ClosedPopup, Popups
    <3> QED BY <1>6, <3>1 DEF HandleOpenPopup, UisTyped
  <2>8. UNCHANGED <<cache, writes, refresh, options, orgStore, signedOut>>
    BY <1>6 DEF HandleOpenPopup, store
  <2>9. marks' \subseteq {"killed", "crossed", "overtaken"}
    BY <1>6 DEF HandleOpenPopup, RestTyped
  <2>10. StoreTyped' /\ RestTyped' /\ UisTyped'
    BY <1>1, <2>6, <2>7, <2>8, <2>9 DEF StoreTyped, RestTyped, UisTyped, server
  <2> QED BY <2>5, <2>10, TypeWhole
<1> QED BY <1>2, <1>3, <1>4, <1>5, <1>6 DEF Handle

LEMMA ChargeTyped ==
  ASSUME charges \in [Clicks -> Nat], NEW k, charges' = [charges EXCEPT ![k] = @ + 1]
  PROVE  charges' \in [Clicks -> Nat]
<1>1. charges' = [x \in Clicks |-> IF x = k THEN charges[k] + 1 ELSE charges[x]]
  OBVIOUS
<1>2. \A x \in Clicks : (IF x = k THEN charges[k] + 1 ELSE charges[x]) \in Nat
  OBVIOUS
<1> QED BY <1>1, <1>2

LEMMA AnsweredTyped ==
  ASSUME TypeInv, NEW i \in DOMAIN calls, Answered(i)
  PROVE  TypeInv'
<1>0. CallsTyped /\ StoreTyped /\ RestTyped /\ UisTyped /\ calls[i] \in Call /\ Sound(calls[i])
  BY TypeParts, CallTyped DEF TypeInv, CallsSound
<1> USE <1>0
<1>1. UNCHANGED <<plan, clicks, spent, up, expired>>
  BY DEF Answered, bounds, SignInAnswered, SignInRefused, MfaAsked, ReadAnswered, ShotAnswered,
         ShotUnauthorized, LogoutServed, LogoutEnds, server
<1>2. CASE SignInAnswered(i)
  <2>1. issued + 1 \in Pairs
    BY <1>2, PlanFacts DEF SignInAnswered, RestTyped, Pairs
  <2>2. cache' \in Pairs \cup {None} /\ storage' \in Pairs \cup {None} /\ writes' \in Seq(Pairs \cup {None})
    BY <1>2, <2>1, SetTokensTyped DEF SignInAnswered
  <2>3. CallsTyped' /\ UisTyped'
    <3>1. CASE SetCall(i, [calls[i] EXCEPT !.step = "me", !.pair = issued'])
      <4> DEFINE c == [calls[i] EXCEPT !.step = "me", !.pair = issued']
      <4>1. c \in Call /\ c.type = calls[i].type /\ c.arg = calls[i].arg /\ c.from = calls[i].from
            /\ Sound(c)
        BY <1>2, <2>1 DEF Call, Steps, SignInAnswered, Sound, OrgCall
      <4>2. PICK d \in Call : d = c
        BY <4>1
      <4> QED BY <3>1, <4>1, <4>2, SetTyped
    <3>2. CASE Respond(i, "ok")
      BY <3>2, RespondTyped
    <3> QED BY <1>2, <3>1, <3>2 DEF SignInAnswered
  <2>4. UNCHANGED <<revoked, charges, refresh, signedOut, marks>> /\ issued' \in Pairs
    BY <1>2, <2>1 DEF SignInAnswered, history
  <2>5. StoreTyped' /\ RestTyped'
    BY <1>1, <2>2, <2>4 DEF StoreTyped, RestTyped
  <2> QED BY <2>3, <2>5, TypeWhole
<1>3. CASE SignInRefused(i) \/ MfaAsked(i)
  <2>1. (Respond(i, "refused") \/ Respond(i, "mfa")) /\ UNCHANGED <<server, store, refresh, history>>
    BY <1>3 DEF SignInRefused, MfaAsked
  <2>2. CallsTyped' /\ UisTyped'
    BY <2>1, RespondTyped
  <2>3. StoreTyped' /\ RestTyped'
    BY <1>1, <2>1 DEF StoreTyped, RestTyped, server, store, history
  <2> QED BY <2>2, <2>3, TypeWhole
<1>4. CASE ReadAnswered(i)
  <2>1. CallsTyped' /\ UisTyped'
    BY <1>4, RespondTyped DEF ReadAnswered
  <2>2. UNCHANGED <<server, store, refresh>>
    BY <1>4 DEF ReadAnswered
  <2>3. signedOut' \in BOOLEAN /\ marks' \subseteq {"killed", "crossed", "overtaken"}
    BY <1>4, MarkedTyped DEF ReadAnswered
  <2>4. StoreTyped' /\ RestTyped'
    BY <1>1, <2>2, <2>3 DEF StoreTyped, RestTyped, server, store
  <2> QED BY <2>1, <2>4, TypeWhole
<1>5. CASE ShotAnswered(i)
  <2>1. CallsTyped' /\ UisTyped'
    BY <1>5, RespondTyped DEF ShotAnswered
  <2>2. charges' \in [Clicks -> Nat]
    BY <1>5, ChargeTyped DEF ShotAnswered, RestTyped
  <2>3. UNCHANGED <<issued, revoked, store, refresh, history>>
    BY <1>5 DEF ShotAnswered
  <2>4. StoreTyped' /\ RestTyped'
    BY <1>1, <2>2, <2>3 DEF StoreTyped, RestTyped, store, history
  <2> QED BY <2>1, <2>4, TypeWhole
<1>6. CASE ShotUnauthorized(i)
  <2>1. CallsTyped' /\ UisTyped'
        /\ refresh' \in [pair : Pairs, step : {"sent", "served"}, reply : Pairs \cup {None}] \cup {None}
    <3>1. CASE JoinRefresh(i)
      BY <3>1, RefreshTyped
    <3>2. CASE Respond(i, "refused") /\ UNCHANGED refresh
      BY <3>2, RespondTyped DEF StoreTyped
    <3> QED BY <1>6, <3>1, <3>2 DEF ShotUnauthorized
  <2>2. UNCHANGED <<server, store, history>>
    BY <1>6 DEF ShotUnauthorized
  <2>3. StoreTyped' /\ RestTyped'
    BY <1>1, <2>1, <2>2 DEF StoreTyped, RestTyped, server, store, history
  <2> QED BY <2>1, <2>3, TypeWhole
<1>7. CASE LogoutServed(i)
  <2> DEFINE c == [calls[i] EXCEPT !.step = "served"]
  <2>1. c \in Call /\ c.type = calls[i].type /\ c.arg = calls[i].arg /\ c.from = calls[i].from
        /\ Sound(c)
    BY DEF Call, Steps, Sound, OrgCall
  <2>2. SetCall(i, c)
    BY <1>7 DEF LogoutServed
  <2> HIDE DEF c
  <2>3. CallsTyped' /\ UisTyped'
    BY <2>1, <2>2, SetTyped
  <2>4. calls[i].pair \in Pairs
    BY <1>7 DEF LogoutServed, At, Sound, Call
  <2>5. StoreTyped' /\ RestTyped'
    BY <1>1, <1>7, <2>4 DEF StoreTyped, RestTyped, store, history, LogoutServed
  <2> QED BY <2>3, <2>5, TypeWhole
<1>8. CASE LogoutEnds(i)
  <2>1. Cleared(i) /\ UNCHANGED <<server, refresh>>
    BY <1>8 DEF LogoutEnds
  <2>2. StoreTyped' /\ RestTyped'
    BY <1>1, <2>1, ClearedTyped DEF StoreTyped, RestTyped, server
  <2> QED BY <2>1, <2>2, ClearedTyped, TypeWhole
<1> QED BY <1>2, <1>3, <1>4, <1>5, <1>6, <1>7, <1>8 DEF Answered

LEMMA DisturbTyped ==
  ASSUME RestTyped, Disturb, plan' = plan
  PROVE  spent' \in 0..plan'.budget
  BY PlanFacts DEF RestTyped, Disturb

LEMMA LostTyped ==
  ASSUME TypeInv, NEW i \in DOMAIN calls, Lost(i)
  PROVE  TypeInv'
<1>0. CallsTyped /\ StoreTyped /\ RestTyped /\ UisTyped /\ calls[i] \in Call /\ Sound(calls[i])
  BY TypeParts, CallTyped DEF TypeInv, CallsSound
<1> USE <1>0
<1>1. UNCHANGED <<plan, clicks, up, issued, revoked, expired, store, refresh>>
  BY DEF Lost, RequestFails
<1>2. CallsTyped' /\ UisTyped'
  <2>1. CASE SetCall(i, [calls[i] EXCEPT !.step = "served"])
    <3> DEFINE c == [calls[i] EXCEPT !.step = "served"]
    <3>1. c \in Call /\ c.type = calls[i].type /\ c.arg = calls[i].arg /\ c.from = calls[i].from
          /\ Sound(c)
      BY DEF Call, Steps, Sound, OrgCall
    <3>2. SetCall(i, c)
      BY <2>1
    <3> HIDE DEF c
    <3> QED BY <3>1, <3>2, SetTyped
  <2>2. CASE Respond(i, "refused")
    BY <2>2, RespondTyped
  <2> QED BY <2>1, <2>2 DEF Lost, RequestFails
<1>3. charges' \in [Clicks -> Nat]
  BY ChargeTyped DEF Lost, RequestFails, RestTyped
<1>4. signedOut' \in BOOLEAN /\ marks' \subseteq {"killed", "crossed", "overtaken"}
  BY MarkedTyped DEF Lost, RequestFails
<1>5. spent' \in 0..plan'.budget
  BY <1>1, DisturbTyped DEF Lost
<1>6. StoreTyped' /\ RestTyped'
  BY <1>1, <1>3, <1>4, <1>5 DEF StoreTyped, RestTyped, store
<1> QED BY <1>2, <1>6, TypeWhole

LEMMA AfterRefreshTyped ==
  ASSUME TypeInv, NEW i \in DOMAIN calls, AfterRefresh(i)
  PROVE  TypeInv'
<1>0. StoreTyped /\ RestTyped
  BY TypeParts
<1>1. CallsTyped' /\ UisTyped'
  BY RespondTyped DEF AfterRefresh
<1>2. StoreTyped' /\ RestTyped'
  BY <1>0 DEF AfterRefresh, StoreTyped, RestTyped, bounds, server, store, history
<1> QED BY <1>1, <1>2, TypeWhole

\* So do the steps of the worker and of the API.
LEMMA WorkerTyped ==
  ASSUME TypeInv, RefreshServed \/ RefreshArrives \/ Wake \/ WriteLands \/ Kill \/ Alarm \/ \E p \in Pairs : TokensEnd(p)
  PROVE  TypeInv'
<1>0. CallsTyped /\ StoreTyped /\ RestTyped /\ UisTyped
  BY TypeParts
<1> USE <1>0
<1>1. CASE RefreshServed
  <2>1. CallsTyped' /\ UisTyped'
    BY <1>1 DEF RefreshServed, CallsTyped, UisTyped, uis, CallsSound
  <2>2. refresh \in [pair : Pairs, step : {"sent", "served"}, reply : Pairs \cup {None}]
    BY <1>1 DEF RefreshServed, StoreTyped
  <2>3. [refresh EXCEPT !.step = "served"] \in [pair : Pairs, step : {"sent", "served"}, reply : Pairs \cup {None}]
    BY <2>2
  <2>4. /\ issued' \in Pairs
        /\ refresh' \in [pair : Pairs, step : {"sent", "served"}, reply : Pairs \cup {None}] \cup {None}
        /\ spent' \in 0..plan'.budget
    <3>1. CASE /\ issued < plan.pairs
               /\ issued' = issued + 1 /\ refresh' = [refresh EXCEPT !.step = "served", !.reply = issued + 1]
               /\ UNCHANGED spent
      <4>1. issued + 1 \in Pairs
        BY <3>1, PlanFacts DEF RestTyped, Pairs
      <4>2. UNCHANGED plan
        BY <1>1 DEF RefreshServed
      <4> QED BY <3>1, <4>1, <4>2, <2>2 DEF RestTyped
    <3>2. CASE refresh' = [refresh EXCEPT !.step = "served"] /\ UNCHANGED <<issued, spent>>
      BY <1>1, <2>3, <3>2 DEF RestTyped, RefreshServed
    <3>3. CASE refresh' = [refresh EXCEPT !.step = "served"] /\ Disturb /\ UNCHANGED issued
      BY <1>1, <2>3, <3>3, DisturbTyped DEF RestTyped, RefreshServed
    <3> QED BY <1>1, <3>1, <3>2, <3>3 DEF RefreshServed
  <2>5. StoreTyped' /\ RestTyped'
    BY <1>1, <2>4 DEF RefreshServed, StoreTyped, RestTyped, store, history
  <2> QED BY <2>1, <2>5, TypeWhole
<1>2. CASE RefreshArrives
  <2>1. refresh.reply \in Pairs \cup {None}
    BY <1>2 DEF RefreshArrives, StoreTyped
  <2>2. CallsTyped'
    BY <1>2, <2>1, WentOnTyped DEF RefreshArrives
  <2>3. cache' \in Pairs \cup {None} /\ storage' \in Pairs \cup {None} /\ writes' \in Seq(Pairs \cup {None})
    <3>1. CASE refresh.reply = None
      BY <1>2, <3>1 DEF RefreshArrives, StoreTyped, store
    <3>2. CASE refresh.reply # None
      BY <1>2, <2>1, <3>2, SetTokensTyped DEF RefreshArrives
    <3> QED BY <3>1, <3>2
  <2>4. StoreTyped' /\ RestTyped' /\ UisTyped'
    BY <1>2, <2>3 DEF RefreshArrives, StoreTyped, RestTyped, UisTyped, bounds, server, uis, history
  <2> QED BY <2>2, <2>4, TypeWhole
<1>3. CASE Wake
  <2>1. CallsTyped' /\ StoreTyped' /\ RestTyped' /\ UisTyped'
    BY <1>3 DEF Wake, CallsTyped, CallsSound, StoreTyped, RestTyped, UisTyped, bounds, server, uis, history
  <2> QED BY <2>1, TypeWhole
<1>4. CASE WriteLands
  <2>1. Head(writes) \in Pairs \cup {None} /\ Tail(writes) \in Seq(Pairs \cup {None})
    BY <1>4, HeadTailProperties DEF WriteLands, StoreTyped
  <2>2. CallsTyped' /\ StoreTyped' /\ RestTyped' /\ UisTyped'
    BY <1>4, <2>1 DEF WriteLands, CallsTyped, CallsSound, StoreTyped, RestTyped, UisTyped, bounds, server, uis, history
  <2> QED BY <2>2, TypeWhole
<1>5. CASE Kill
  <2>1. <<>> \in Seq(Call) /\ <<>> \in Seq(Pairs \cup {None}) /\ DOMAIN <<>> = {}
    OBVIOUS
  <2>2. CallsTyped'
    BY <1>5, <2>1 DEF Kill, CallsTyped, CallsSound
  <2>3. page' \in JobPages
    BY <1>5 DEF Kill, UisTyped, JobPages
  <2>4. marks' \subseteq {"killed", "crossed", "overtaken"} /\ signedOut' \in BOOLEAN
    BY <1>5 DEF Kill, RestTyped, MarkIf
  <2>5. spent' \in 0..plan'.budget
    BY <1>5, DisturbTyped DEF Kill
  <2>6. StoreTyped' /\ RestTyped' /\ UisTyped'
    BY <1>5, <2>1, <2>3, <2>4, <2>5 DEF Kill, StoreTyped, RestTyped, UisTyped, server
  <2> QED BY <2>2, <2>6, TypeWhole
<1>6. CASE Alarm
  <2>1. spent' \in 0..plan'.budget
    BY <1>6, DisturbTyped DEF Alarm
  <2> DEFINE c == IF up THEN cache ELSE storage
  <2>2. c \in Pairs \cup {None}
    BY DEF StoreTyped
  <2>3. /\ cache' = c /\ up' = TRUE
        /\ refresh' = IF refresh = None /\ c # None THEN [pair |-> c, step |-> "sent", reply |-> None] ELSE refresh
    BY <1>6 DEF Alarm
  <2> HIDE DEF c
  <2>4. refresh' \in [pair : Pairs, step : {"sent", "served"}, reply : Pairs \cup {None}] \cup {None}
    BY <2>2, <2>3 DEF StoreTyped
  <2>5. CallsTyped' /\ StoreTyped' /\ RestTyped' /\ UisTyped'
    BY <1>6, <2>1, <2>2, <2>3, <2>4 DEF Alarm, CallsTyped, CallsSound, StoreTyped, RestTyped, UisTyped, server, uis, history
  <2> QED BY <2>5, TypeWhole
<1>7. ASSUME NEW p \in Pairs, TokensEnd(p) PROVE TypeInv'
  <2>1. spent' \in 0..plan'.budget
    BY <1>7, DisturbTyped DEF TokensEnd
  <2>2. CallsTyped' /\ StoreTyped' /\ RestTyped' /\ UisTyped'
    BY <1>7, <2>1 DEF TokensEnd, CallsTyped, CallsSound, StoreTyped, RestTyped, UisTyped, store, uis, history
  <2> QED BY <2>2, TypeWhole
<1> QED BY <1>1, <1>2, <1>3, <1>4, <1>5, <1>6, <1>7

LEMMA SendsTyped ==
  ASSUME TypeInv, NEW type \in Types, NEW from \in Clients, NEW arg \in Nat \cup {None},
         from = "options" /\ type = "API_REQUEST" => arg \in Orgs, Sends(type, from, arg)
  PROVE  CallsTyped'
<1> DEFINE c == Post(type, from, arg)
<1>1. c \in Call /\ Sound(c)
  BY PostTyped DEF Sound, OrgCall
<1>2. calls' = Append(calls, c)
  BY DEF Sends
<1> HIDE DEF c
<1> QED BY <1>1, <1>2, GrowsTyped

\* What the user does to one client leaves the others alone.
LEMMA OnlyFacts ==
  ASSUME NEW client \in Clients, Only(client)
  PROVE  /\ UNCHANGED <<plan, server, up, store, refresh, signedOut>>
         /\ client # "popup" => UNCHANGED popup
         /\ client # "options" => UNCHANGED <<options, orgStore>>
         /\ client # "page" => UNCHANGED <<page, clicks>>
  BY DEF Only, Clients

LEMMA RestStays ==
  ASSUME RestTyped, UNCHANGED <<plan, server, up, store, refresh, signedOut>>,
         clicks' \in 0..MaxClicks, spent' = spent \/ Disturb, marks' \subseteq marks, StoreTyped
  PROVE  RestTyped' /\ StoreTyped'
<1>1. spent' \in 0..plan'.budget
  BY DisturbTyped DEF RestTyped
<1> QED BY <1>1 DEF RestTyped, StoreTyped, server, store

\* And those of the user.
LEMMA PopupUserTyped ==
  ASSUME TypeInv, OpenPopup \/ ClosePopup \/ SwitchLinks \/ PopupLogout \/ \E type \in SignIns : Submit(type)
  PROVE  TypeInv'
<1>0. CallsTyped /\ StoreTyped /\ RestTyped /\ UisTyped /\ "popup" \in Clients
  BY TypeParts, Names
<1> USE <1>0
<1>1. Only("popup")
  BY DEF OpenPopup, ClosePopup, SwitchLinks, PopupLogout, Submit
<1>2. UNCHANGED <<plan, server, up, store, refresh, signedOut, options, orgStore, page, clicks>>
  BY <1>1, OnlyFacts
<1>3. RestTyped' /\ StoreTyped'
  <2>1. spent' = spent \/ Disturb
    BY DEF OpenPopup, ClosePopup, SwitchLinks, PopupLogout, Submit
  <2>2. marks' \subseteq marks
    BY DEF OpenPopup, ClosePopup, SwitchLinks, PopupLogout, Submit
  <2>3. clicks' \in 0..MaxClicks
    BY <1>2 DEF RestTyped
  <2> QED BY <1>2, <2>1, <2>2, <2>3, RestStays
<1>4. popup' \in Popups => UisTyped'
  BY <1>2 DEF UisTyped
<1>5. CASE OpenPopup
  <2>1. CallsTyped'
    BY <1>5, SendsTyped, Names DEF OpenPopup
  <2>2. popup' \in Popups
    BY <1>5 DEF OpenPopup, UisTyped, Popups
  <2> QED BY <1>3, <1>4, <2>1, <2>2, TypeWhole
<1>6. CASE ClosePopup
  <2>1. CallsTyped'
    BY <1>6, LeftTyped DEF ClosePopup
  <2>2. popup' \in Popups
    BY <1>6 DEF ClosePopup, ClosedPopup, Popups
  <2> QED BY <1>3, <1>4, <2>1, <2>2, TypeWhole
<1>7. CASE SwitchLinks
  <2>1. CallsTyped'
    BY <1>7 DEF SwitchLinks, CallsTyped, CallsSound
  <2>2. popup' \in Popups
    BY <1>7 DEF SwitchLinks, UisTyped, Popups
  <2> QED BY <1>3, <1>4, <2>1, <2>2, TypeWhole
<1>8. CASE PopupLogout
  <2>1. CallsTyped'
    BY <1>8, SendsTyped, Names DEF PopupLogout
  <2>2. popup' \in Popups
    BY <1>8 DEF PopupLogout, UisTyped
  <2> QED BY <1>3, <1>4, <2>1, <2>2, TypeWhole
<1>9. ASSUME NEW type \in SignIns, Submit(type) PROVE TypeInv'
  <2>0. type \in Types
    BY Names
  <2>1. CallsTyped'
    BY <1>9, <2>0, SendsTyped DEF Submit
  <2>2. popup' \in Popups
    BY <1>9 DEF Submit, UisTyped, Popups
  <2> QED BY <1>3, <1>4, <2>1, <2>2, TypeWhole
<1> QED BY <1>5, <1>6, <1>7, <1>8, <1>9

LEMMA OptionsUserTyped ==
  ASSUME TypeInv, OpenOptions \/ CloseOptions \/ OptionsLogout \/ \E o \in Orgs : SwitchOrg(o)
  PROVE  TypeInv'
<1>0. CallsTyped /\ StoreTyped /\ RestTyped /\ UisTyped /\ "options" \in Clients
  BY TypeParts, Names
<1> USE <1>0
<1>1. Only("options")
  BY DEF OpenOptions, CloseOptions, OptionsLogout, SwitchOrg
<1>2. UNCHANGED <<plan, server, up, store, refresh, signedOut, popup, page, clicks>>
  BY <1>1, OnlyFacts
<1>3. RestTyped' /\ StoreTyped'
  <2>1. spent' = spent \/ Disturb
    BY DEF OpenOptions, CloseOptions, OptionsLogout, SwitchOrg
  <2>2. marks' \subseteq marks
    BY DEF OpenOptions, CloseOptions, OptionsLogout, SwitchOrg
  <2>3. clicks' \in 0..MaxClicks
    BY <1>2 DEF RestTyped
  <2> QED BY <1>2, <2>1, <2>2, <2>3, RestStays
<1>4. options' \in OptionPages /\ orgStore' \in Orgs \cup {None} => UisTyped'
  BY <1>2 DEF UisTyped
<1>5. CASE OpenOptions
  <2>1. CallsTyped'
    BY <1>5, SendsTyped, Names DEF OpenOptions
  <2>2. options' \in OptionPages /\ orgStore' = orgStore
    BY <1>5 DEF OpenOptions, UisTyped, OptionPages
  <2> QED BY <1>3, <1>4, <2>1, <2>2, TypeWhole DEF UisTyped
<1>6. CASE CloseOptions
  <2>1. CallsTyped'
    BY <1>6, LeftTyped DEF CloseOptions
  <2>2. options' \in OptionPages /\ orgStore' = orgStore
    BY <1>6 DEF CloseOptions, ClosedOptions, OptionPages
  <2> QED BY <1>3, <1>4, <2>1, <2>2, TypeWhole DEF UisTyped
<1>7. CASE OptionsLogout
  <2>1. CallsTyped'
    BY <1>7, SendsTyped, Names DEF OptionsLogout
  <2>2. options' = options /\ orgStore' = orgStore
    BY <1>7 DEF OptionsLogout
  <2> QED BY <1>3, <1>4, <2>1, <2>2, TypeWhole DEF UisTyped
<1>8. ASSUME NEW o \in Orgs, SwitchOrg(o) PROVE TypeInv'
  <2>1. o \in Nat
    BY ExtensionAssumption
  <2>2. CallsTyped'
    BY <1>8, <2>1, SendsTyped, Names DEF SwitchOrg
  <2>3. options' \in OptionPages /\ orgStore' \in Orgs \cup {None}
    BY <1>8, FetchingTyped DEF SwitchOrg, UisTyped
  <2> QED BY <1>3, <1>4, <2>2, <2>3, TypeWhole
<1> QED BY <1>5, <1>6, <1>7, <1>8

LEMMA PageUserTyped ==
  ASSUME TypeInv, OpenPage \/ ClosePage \/ ClickShoot \/ PopupRace \/ \E j \in Jobs \cup {None} : ShowModal(j)
  PROVE  TypeInv'
<1>0. CallsTyped /\ StoreTyped /\ RestTyped /\ UisTyped /\ "page" \in Clients
  BY TypeParts, Names
<1> USE <1>0
<1>1. Only("page")
  BY DEF OpenPage, ClosePage, ClickShoot, PopupRace, ShowModal
<1>2. UNCHANGED <<plan, server, up, store, refresh, signedOut, popup, options, orgStore>>
  BY <1>1, OnlyFacts
<1>3. RestTyped' /\ StoreTyped'
  <2>1. spent' = spent \/ Disturb
    BY DEF OpenPage, ClosePage, ClickShoot, PopupRace, ShowModal
  <2>2. marks' \subseteq marks
    BY DEF OpenPage, ClosePage, ClickShoot, PopupRace, ShowModal
  <2>3. clicks' \in 0..MaxClicks
    <3>1. clicks' = clicks \/ (clicks < MaxClicks /\ clicks' = clicks + 1)
      BY DEF OpenPage, ClosePage, ClickShoot, PopupRace, ShowModal
    <3> QED BY <3>1, ExtensionAssumption DEF RestTyped
  <2> QED BY <1>2, <2>1, <2>2, <2>3, RestStays
<1>4. page' \in JobPages => UisTyped'
  BY <1>2 DEF UisTyped
<1>5. CASE OpenPage
  <2>1. CallsTyped'
    BY <1>5, SendsTyped, Names DEF OpenPage
  <2>2. page' \in JobPages
    BY <1>5 DEF OpenPage, UisTyped, JobPages
  <2> QED BY <1>3, <1>4, <2>1, <2>2, TypeWhole
<1>6. CASE ClosePage
  <2>1. CallsTyped'
    BY <1>6, LeftTyped DEF ClosePage
  <2>2. page' \in JobPages
    BY <1>6 DEF ClosePage, ClosedPage, JobPages
  <2> QED BY <1>3, <1>4, <2>1, <2>2, TypeWhole
<1>7. CASE ClickShoot
  <2>0. clicks' \in Nat
    BY <1>7 DEF ClickShoot, RestTyped
  <2>1. CallsTyped'
    <3>1. PICK n \in Nat : n = clicks'
      BY <2>0
    <3>2. Sends("SHOOT_JOB", "page", n)
      BY <1>7, <3>1 DEF ClickShoot
    <3> QED BY <3>2, SendsTyped, Names
  <2>2. page' \in JobPages
    BY <1>7 DEF ClickShoot, UisTyped, JobPages
  <2> QED BY <1>3, <1>4, <2>1, <2>2, TypeWhole
<1>8. CASE PopupRace
  <2>1. CallsTyped'
    BY <1>8, LeftTyped DEF PopupRace
  <2>2. page' \in JobPages
    BY <1>8, ShotEndedTyped DEF PopupRace, UisTyped
  <2> QED BY <1>3, <1>4, <2>1, <2>2, TypeWhole
<1>9. ASSUME NEW j \in Jobs \cup {None}, ShowModal(j) PROVE TypeInv'
  <2>1. CallsTyped'
    BY <1>9 DEF ShowModal, CallsTyped, CallsSound
  <2>2. page' \in JobPages
    BY <1>9 DEF ShowModal, UisTyped, JobPages
  <2> QED BY <1>3, <1>4, <2>1, <2>2, TypeWhole
<1> QED BY <1>5, <1>6, <1>7, <1>8, <1>9

LEMMA TypeInit ==
  ASSUME Init
  PROVE  TypeInv
<1>1. plan.pairs \in 1..MaxPairs /\ plan.budget \in Nat
  BY PlanFacts DEF Init
<1>2. 1 \in Pairs /\ 0 \in 0..plan.budget /\ 0 \in 0..MaxClicks
  BY <1>1, ExtensionAssumption DEF Pairs
<1>3. <<>> \in Seq(Call) /\ <<>> \in Seq(Pairs \cup {None}) /\ DOMAIN <<>> = {}
  OBVIOUS
<1>4. popup \in Popups /\ options \in OptionPages /\ page \in JobPages
  BY DEF Init, ClosedPopup, ClosedOptions, ClosedPage, Popups, OptionPages, JobPages
<1>5. TypeOK
  BY <1>2, <1>3, <1>4 DEF Init, TypeOK, Popups, OptionPages, JobPages
<1>6. CallsSound
  BY <1>3 DEF Init, CallsSound
<1> QED BY <1>5, <1>6 DEF TypeInv

LEMMA TypeStep ==
  ASSUME TypeInv, [Next]_vars
  PROVE  TypeInv'
<1>1. CASE UNCHANGED vars
  BY <1>1 DEF vars, server, store, uis, history, TypeInv, TypeOK, CallsSound
<1>2. CASE User \/ PopupRace
  BY <1>2, PopupUserTyped, OptionsUserTyped, PageUserTyped DEF User
<1>3. CASE RefreshServed \/ RefreshArrives \/ Wake \/ WriteLands \/ Kill \/ Alarm \/ \E p \in Pairs : TokensEnd(p)
  BY <1>3, WorkerTyped
<1>4. ASSUME NEW i \in DOMAIN calls, Progress(i) \/ Lost(i) PROVE TypeInv'
  BY <1>4, HandleTyped, AnsweredTyped, AfterRefreshTyped, LostTyped DEF Progress
<1> QED BY <1>1, <1>2, <1>3, <1>4 DEF Next

\* Every variable has its type in every reachable state: a refresh has tokens to
\* send, answers come for messages of a client, storage holds whole pairs.
THEOREM ExtensionTyped == Spec => []TypeOK
<1>1. Init => TypeInv
  BY TypeInit
<1>2. TypeInv /\ [Next]_vars => TypeInv'
  BY TypeStep
<1>3. TypeInv => TypeOK
  BY DEF TypeInv
<1> QED BY <1>1, <1>2, <1>3, PTL DEF Spec

----------------------------------------------------------------------------
(* Shots are charged once.                                                 *)

\* A click on Shoot that is under way.
ShotCall(c) == c.type = "SHOOT_JOB"
\* No click is charged twice, none before it is made.
ChargesInv == \A k \in Clicks : charges[k] <= 1 /\ (k > clicks => charges[k] = 0)
\* A shot under way has not been charged, and each click has one message at most.
ShotsInv ==
  /\ \A i \in DOMAIN calls : ShotCall(calls[i]) => calls[i].arg \in 1..clicks /\ charges[calls[i].arg] = 0
  /\ \A i, j \in DOMAIN calls :
       ShotCall(calls[i]) /\ ShotCall(calls[j]) /\ calls[i].arg = calls[j].arg => i = j
ShotInv == TypeInv /\ ChargesInv /\ ShotsInv

\* The shots under way afterwards are shots that were under way before.
FollowsShots(f) ==
  /\ \A j \in DOMAIN calls' : ShotCall(calls'[j]) =>
       /\ f[j] \in DOMAIN calls /\ ShotCall(calls[f[j]]) /\ calls'[j].arg = calls[f[j]].arg
       /\ charges'[calls[f[j]].arg] = charges[calls[f[j]].arg]
  /\ \A j, k \in DOMAIN calls' : ShotCall(calls'[j]) /\ ShotCall(calls'[k]) /\ f[j] = f[k] => j = k

LEMMA FollowShots ==
  ASSUME ShotsInv, clicks' = clicks, NEW f, FollowsShots(f)
  PROVE  ShotsInv'
  BY DEF ShotsInv, FollowsShots

LEMMA OldInjective ==
  ASSUME NEW i \in Nat, NEW j \in Nat, NEW k \in Nat, Old(i, j) = Old(i, k)
  PROVE  j = k
  BY DEF Old

\* What the kinds of steps do to the shots under way.
LEMMA DropShots ==
  ASSUME ShotInv, NEW i \in DOMAIN calls, Drop(i), clicks' = clicks,
         \A j \in DOMAIN calls \ {i} : ShotCall(calls[j]) => charges'[calls[j].arg] = charges[calls[j].arg]
  PROVE  ShotsInv'
<1> DEFINE f == [j \in DOMAIN calls' |-> Old(i, j)]
<1>1. \A j \in DOMAIN calls' : f[j] = Old(i, j)
  OBVIOUS
<1> HIDE DEF f
<1>2. \A j \in DOMAIN calls' : ShotCall(calls'[j]) => Heir(i, j)
  BY DEF Drop, Quiet, ShotCall
<1>3. \A j \in DOMAIN calls' : ShotCall(calls'[j]) =>
        /\ f[j] \in DOMAIN calls /\ ShotCall(calls[f[j]]) /\ calls'[j].arg = calls[f[j]].arg
        /\ charges'[calls[f[j]].arg] = charges[calls[f[j]].arg]
  BY <1>1, <1>2 DEF Heir
<1>4. DOMAIN calls' \subseteq Nat /\ i \in Nat
  BY DEF Drop, ShotInv, TypeInv, TypeOK
<1>5. \A j, k \in DOMAIN calls' : f[j] = f[k] => j = k
  BY <1>1, <1>4, OldInjective
<1>6. FollowsShots(f)
  BY <1>3, <1>5 DEF FollowsShots
<1> QED BY <1>6, FollowShots DEF ShotInv

LEMMA StayingShots ==
  ASSUME ShotInv, clicks' = clicks, charges' = charges, DOMAIN calls' = DOMAIN calls,
         \A j \in DOMAIN calls : calls'[j].type = calls[j].type /\ calls'[j].arg = calls[j].arg
  PROVE  ShotsInv'
<1> DEFINE f == [j \in DOMAIN calls' |-> j]
<1>1. \A j \in DOMAIN calls' : f[j] = j
  OBVIOUS
<1> HIDE DEF f
<1>2. FollowsShots(f)
  BY <1>1 DEF FollowsShots, ShotCall
<1> QED BY <1>2, FollowShots DEF ShotInv

LEMMA SetShots ==
  ASSUME ShotInv, clicks' = clicks, charges' = charges, NEW i \in DOMAIN calls, NEW c \in Call,
         c.type = calls[i].type, c.arg = calls[i].arg, SetCall(i, c)
  PROVE  ShotsInv'
<1>1. Sets(i, c)
  BY SetCallFacts DEF ShotInv, TypeInv, TypeOK
<1>2. \A j \in DOMAIN calls : calls'[j].type = calls[j].type /\ calls'[j].arg = calls[j].arg
  BY <1>1 DEF Sets
<1> QED BY <1>1, <1>2, StayingShots DEF Sets

LEMMA RespondShots ==
  ASSUME ShotInv, clicks' = clicks, charges' = charges, NEW i \in DOMAIN calls, NEW res, Respond(i, res)
  PROVE  ShotsInv'
  BY DropShots, RespondFacts DEF ShotInv, TypeInv

LEMMA SendShots ==
  ASSUME ShotInv, clicks' = clicks, charges' = charges, NEW c \in Call, ~ShotCall(c), calls' = Append(calls, c)
  PROVE  ShotsInv'
<1>1. Grows(c)
  BY GrowsFacts DEF ShotInv, TypeInv, TypeOK
<1> DEFINE f == [j \in DOMAIN calls' |-> j]
<1>2. \A j \in DOMAIN calls' : f[j] = j
  OBVIOUS
<1> HIDE DEF f
<1>3. FollowsShots(f)
  BY <1>1, <1>2 DEF FollowsShots, Grows
<1> QED BY <1>3, FollowShots DEF ShotInv

LEMMA LeftShots ==
  ASSUME ShotInv, clicks' = clicks, charges' = charges, NEW client \in Clients, Leaves(client)
  PROVE  ShotsInv'
<1>1. Left(client)
  BY LeavesFacts DEF ShotInv, TypeInv, TypeOK
<1>2. \A j \in DOMAIN calls : calls[j] \in Call
  BY DEF ShotInv, TypeInv, TypeOK
<1>3. \A j \in DOMAIN calls : calls'[j].type = calls[j].type /\ calls'[j].arg = calls[j].arg
  BY <1>1, <1>2 DEF Left, Call
<1> QED BY <1>1, <1>3, StayingShots DEF Left

LEMMA WentOnShots ==
  ASSUME ShotInv, clicks' = clicks, charges' = charges, NEW p \in Pairs \cup {None},
         calls' = [i \in DOMAIN calls |-> GoOn(calls[i], p)]
  PROVE  ShotsInv'
<1>1. WentOn(p)
  BY GoOnFacts DEF ShotInv, TypeInv, TypeOK
<1>2. \A j \in DOMAIN calls : calls[j] \in Call
  BY DEF ShotInv, TypeInv, TypeOK
<1>3. \A j \in DOMAIN calls : calls'[j].type = calls[j].type /\ calls'[j].arg = calls[j].arg
  BY <1>1, <1>2, GoOnTyped DEF WentOn
<1> QED BY <1>1, <1>3, StayingShots DEF WentOn

\* Only a shot that is answered, or lost, charges, and only for its own click.
LEMMA ChargeOnce ==
  ASSUME ShotInv, NEW i \in DOMAIN calls, ShotCall(calls[i]), clicks' = clicks, Drop(i),
         charges' = [charges EXCEPT ![calls[i].arg] = @ + 1]
  PROVE  ChargesInv' /\ ShotsInv'
<1> DEFINE a == calls[i].arg
<1>1. a \in 1..clicks /\ charges[a] = 0 /\ clicks \in 0..MaxClicks /\ charges \in [Clicks -> Nat]
  BY DEF ShotInv, ShotsInv, TypeInv, TypeOK
<1>2. a \in Clicks /\ MaxClicks \in Nat
  BY <1>1, ExtensionAssumption DEF Clicks
<1> HIDE DEF a
<1>3. charges' = [k \in Clicks |-> IF k = a THEN charges[a] + 1 ELSE charges[k]]
  BY <1>1 DEF a
<1>4. ChargesInv'
  BY <1>1, <1>2, <1>3 DEF ShotInv, ChargesInv, Clicks
<1>5. \A j \in DOMAIN calls \ {i} : ShotCall(calls[j]) => calls[j].arg # a /\ calls[j].arg \in 1..clicks
  BY DEF ShotInv, ShotsInv, a
<1>6. 1..clicks \subseteq Clicks
  BY <1>1, <1>2 DEF Clicks
<1>7. \A j \in DOMAIN calls \ {i} : ShotCall(calls[j]) => charges'[calls[j].arg] = charges[calls[j].arg]
  BY <1>3, <1>5, <1>6
<1> QED BY <1>4, <1>7, DropShots

\* What the user does to the messages under way.
LEMMA UserSends ==
  ASSUME User \/ PopupRace
  PROVE  \/ \E client \in Clients : Leaves(client)
         \/ calls' = calls
         \/ ClickShoot
         \/ \E type \in {"REFRESH", "LOGOUT", "API_REQUEST"} \cup SignIns, from \in Clients, arg \in Nat \cup {None} :
              Sends(type, from, arg)
<1>1. CASE OpenPopup \/ PopupLogout \/ OpenOptions \/ OptionsLogout \/ OpenPage
  BY <1>1, Names DEF OpenPopup, PopupLogout, OpenOptions, OptionsLogout, OpenPage
<1>2. CASE ClosePopup \/ CloseOptions \/ ClosePage \/ PopupRace
  BY <1>2, Names DEF ClosePopup, CloseOptions, ClosePage, PopupRace
<1>3. CASE SwitchLinks \/ \E j \in Jobs \cup {None} : ShowModal(j)
  BY <1>3 DEF SwitchLinks, ShowModal
<1>4. ASSUME NEW type \in SignIns, Submit(type)
      PROVE  \E from \in Clients, arg \in Nat \cup {None} : Sends(type, from, arg)
  BY <1>4, Names DEF Submit
<1>5. ASSUME NEW o \in Orgs, SwitchOrg(o)
      PROVE  \E from \in Clients, arg \in Nat \cup {None} : Sends("API_REQUEST", from, arg)
  BY <1>5, Names, ExtensionAssumption DEF SwitchOrg
<1> QED BY <1>1, <1>2, <1>3, <1>4, <1>5 DEF User

LEMMA UserCalls ==
  ASSUME TypeInv, User \/ PopupRace
  PROVE  \/ \E client \in Clients : Left(client)
         \/ calls' = calls
         \/ \E c \in Call : c.step = "posted" /\ Grows(c)
<1>0. calls \in Seq(Call)
  BY DEF TypeInv, TypeOK
<1>1. ASSUME NEW client \in Clients, Leaves(client) PROVE Left(client)
  BY <1>0, <1>1, LeavesFacts
<1>2. ASSUME NEW type \in Types, NEW from \in Clients, NEW arg \in Nat \cup {None}, Sends(type, from, arg)
      PROVE  \E c \in Call : c.step = "posted" /\ Grows(c)
  <2> DEFINE c == Post(type, from, arg)
  <2>1. c \in Call /\ c.step = "posted"
    BY PostTyped
  <2>2. calls' = Append(calls, c)
    BY <1>2 DEF Sends
  <2> HIDE DEF c
  <2> QED BY <1>0, <2>1, <2>2, GrowsFacts
<1>3. CASE ClickShoot
  <2>1. clicks' \in Nat
    BY <1>3 DEF ClickShoot, TypeInv, TypeOK
  <2>2. PICK n \in Nat : n = clicks'
    BY <2>1
  <2>3. Sends("SHOOT_JOB", "page", n)
    BY <1>3, <2>2 DEF ClickShoot
  <2> QED BY <1>2, <2>3, Names
<1> QED BY <1>1, <1>2, <1>3, UserSends, Names

\* Every step keeps the invariant.
LEMMA ShotStep ==
  ASSUME ShotInv, [Next]_vars
  PROVE  ShotInv'
<1>1. TypeInv'
  BY TypeStep DEF ShotInv
<1>2. ASSUME clicks' = clicks, charges' = charges, ShotsInv' PROVE ShotInv'
  BY <1>1, <1>2 DEF ShotInv, ChargesInv
<1>3. CASE UNCHANGED vars
  <2>1. ShotsInv'
    BY <1>3 DEF vars, ShotInv, ShotsInv, server
  <2> QED BY <1>2, <1>3, <2>1 DEF vars, server
<1>4. ASSUME NEW i \in DOMAIN calls, Handle(i) PROVE ShotInv'
  <2>0. calls[i] \in Call
    BY CallTyped DEF ShotInv, TypeInv
  <2>1. clicks' = clicks /\ charges' = charges
    BY <1>4 DEF Handle, bounds, HandleRefresh, HandleUnauthorized, HandleLogoutLocally, HandleByRequest,
         HandleOpenPopup, server
  <2>2. CASE \E res : Respond(i, res)
    BY <1>2, <2>1, <2>2, RespondShots
  <2>3. CASE HandleByRequest(i)
    <3> DEFINE c == [calls[i] EXCEPT !.step = "http", !.pair = cache]
    <3>1. c \in Call /\ c.type = calls[i].type /\ c.arg = calls[i].arg
      BY <2>0 DEF Call, Steps, ShotInv, TypeInv, TypeOK
    <3>2. SetCall(i, c)
      BY <2>3 DEF HandleByRequest
    <3> HIDE DEF c
    <3> QED BY <1>2, <2>1, <3>1, <3>2, SetShots
  <2>4. CASE JoinRefresh(i)
    <3> DEFINE c == [calls[i] EXCEPT !.step = "refreshing", !.pair = None]
    <3>1. c \in Call /\ c.type = calls[i].type /\ c.arg = calls[i].arg
      BY <2>0 DEF Call, Steps
    <3>2. SetCall(i, c)
      BY <2>4 DEF JoinRefresh
    <3> HIDE DEF c
    <3> QED BY <1>2, <2>1, <3>1, <3>2, SetShots
  <2>5. CASE HandleOpenPopup(i)
    BY <1>2, <2>1, <2>5, OpenPopupDrops, DropShots DEF ShotInv
  <2> QED BY <1>4, <2>2, <2>3, <2>4, <2>5 DEF Handle, HandleRefresh, HandleUnauthorized, HandleLogoutLocally, Cleared
<1>5. ASSUME NEW i \in DOMAIN calls, Answered(i) PROVE ShotInv'
  <2>0. calls[i] \in Call
    BY CallTyped DEF ShotInv, TypeInv
  <2>1. clicks' = clicks
    BY <1>5 DEF Answered, bounds
  <2>2. CASE charges' = charges /\ \E res : Respond(i, res)
    BY <1>2, <2>1, <2>2, RespondShots
  <2>3. CASE charges' = charges /\ \E c \in Call : c.type = calls[i].type /\ c.arg = calls[i].arg /\ SetCall(i, c)
    BY <1>2, <2>1, <2>3, SetShots
  <2>4. CASE ShotAnswered(i)
    <3>1. ShotCall(calls[i]) /\ Drop(i)
      BY <2>4, RespondFacts DEF ShotAnswered, At, ShotCall, ShotInv, TypeInv
    <3>2. ChargesInv' /\ ShotsInv'
      BY <2>1, <2>4, <3>1, ChargeOnce DEF ShotAnswered
    <3> QED BY <1>1, <3>2 DEF ShotInv
  <2>5. CASE SignInAnswered(i)
    <3>1. charges' = charges
      BY <2>5 DEF SignInAnswered
    <3>2. CASE SetCall(i, [calls[i] EXCEPT !.step = "me", !.pair = issued'])
      <4>1. issued' \in Pairs
        BY <1>1 DEF TypeInv, TypeOK
      <4>2. [calls[i] EXCEPT !.step = "me", !.pair = issued'] \in Call
        BY <2>0, <4>1 DEF Call, Steps
      <4>3. /\ [calls[i] EXCEPT !.step = "me", !.pair = issued'].type = calls[i].type
            /\ [calls[i] EXCEPT !.step = "me", !.pair = issued'].arg = calls[i].arg
        BY <2>0 DEF Call
      <4>4. PICK c \in Call : c = [calls[i] EXCEPT !.step = "me", !.pair = issued']
        BY <4>2
      <4>5. c.type = calls[i].type /\ c.arg = calls[i].arg /\ SetCall(i, c)
        BY <3>2, <4>3, <4>4
      <4> QED BY <2>3, <3>1, <4>5
    <3> QED BY <2>2, <2>5, <3>1, <3>2 DEF SignInAnswered
  <2>6. CASE ShotUnauthorized(i)
    <3>1. charges' = charges
      BY <2>6 DEF ShotUnauthorized, server
    <3>2. CASE JoinRefresh(i)
      <4> DEFINE c == [calls[i] EXCEPT !.step = "refreshing", !.pair = None]
      <4>1. c \in Call /\ c.type = calls[i].type /\ c.arg = calls[i].arg
        BY <2>0 DEF Call, Steps
      <4>2. SetCall(i, c)
        BY <3>2 DEF JoinRefresh
      <4> HIDE DEF c
      <4> QED BY <2>3, <3>1, <4>1, <4>2
    <3> QED BY <2>2, <2>6, <3>1, <3>2 DEF ShotUnauthorized
  <2>7. CASE LogoutServed(i)
    <3> DEFINE c == [calls[i] EXCEPT !.step = "served"]
    <3>1. c \in Call /\ c.type = calls[i].type /\ c.arg = calls[i].arg
      BY <2>0 DEF Call, Steps
    <3>2. SetCall(i, c) /\ charges' = charges
      BY <2>7 DEF LogoutServed
    <3> HIDE DEF c
    <3> QED BY <2>3, <3>1, <3>2
  <2>8. CASE SignInRefused(i) \/ MfaAsked(i) \/ ReadAnswered(i) \/ LogoutEnds(i)
    <3>1. charges' = charges /\ \E res : Respond(i, res)
      BY <2>8 DEF SignInRefused, MfaAsked, ReadAnswered, LogoutEnds, Cleared, server
    <3> QED BY <2>2, <3>1
  <2> QED BY <1>5, <2>4, <2>5, <2>6, <2>7, <2>8 DEF Answered
<1>6. ASSUME NEW i \in DOMAIN calls, AfterRefresh(i) PROVE ShotInv'
  <2>1. clicks' = clicks /\ charges' = charges /\ \E res : Respond(i, res)
    BY <1>6 DEF AfterRefresh, bounds, server
  <2> QED BY <1>2, <2>1, RespondShots
<1>7. ASSUME NEW i \in DOMAIN calls, Lost(i) PROVE ShotInv'
  <2>0. calls[i] \in Call
    BY CallTyped DEF ShotInv, TypeInv
  <2>1. clicks' = clicks
    BY <1>7 DEF Lost
  <2>2. CASE calls[i].type = "LOGOUT"
    <3> DEFINE c == [calls[i] EXCEPT !.step = "served"]
    <3>1. c \in Call /\ c.type = calls[i].type /\ c.arg = calls[i].arg
      BY <2>0 DEF Call, Steps
    <3>2. SetCall(i, c) /\ charges' = charges
      BY <1>7, <2>2 DEF Lost, RequestFails
    <3> HIDE DEF c
    <3> QED BY <1>2, <2>1, <3>1, <3>2, SetShots
  <2>3. CASE calls[i].type # "LOGOUT" /\ charges' = charges
    <3>1. Respond(i, "refused")
      BY <1>7, <2>3 DEF Lost, RequestFails
    <3> QED BY <1>2, <2>1, <2>3, <3>1, RespondShots
  <2>4. CASE calls[i].type # "LOGOUT" /\ charges' # charges
    <3>1. Respond(i, "refused") /\ ShotCall(calls[i]) /\ charges' = [charges EXCEPT ![calls[i].arg] = @ + 1]
      BY <1>7, <2>4 DEF Lost, RequestFails, ShotCall
    <3>2. Drop(i)
      BY <3>1, RespondFacts DEF ShotInv, TypeInv
    <3>3. ChargesInv' /\ ShotsInv'
      BY <2>1, <3>1, <3>2, ChargeOnce
    <3> QED BY <1>1, <3>3 DEF ShotInv
  <2> QED BY <2>2, <2>3, <2>4
<1>8. CASE RefreshServed \/ Wake \/ WriteLands \/ Alarm \/ \E p \in Pairs : TokensEnd(p)
  <2>1. UNCHANGED <<clicks, charges, calls>>
    BY <1>8 DEF RefreshServed, Wake, WriteLands, Alarm, TokensEnd, bounds, server
  <2>2. ShotsInv'
    BY <2>1 DEF ShotInv, ShotsInv
  <2> QED BY <1>2, <2>1, <2>2
<1>9. CASE RefreshArrives
  <2>1. clicks' = clicks /\ charges' = charges
    BY <1>9 DEF RefreshArrives, bounds, server
  <2>2. refresh.reply \in Pairs \cup {None}
    BY <1>9 DEF RefreshArrives, ShotInv, TypeInv, TypeOK
  <2> QED BY <1>2, <1>9, <2>1, <2>2, WentOnShots DEF RefreshArrives
<1>10. CASE Kill
  <2>1. clicks' = clicks /\ charges' = charges /\ calls' = <<>>
    BY <1>10 DEF Kill, server
  <2>2. DOMAIN calls' = {}
    BY <2>1
  <2>3. ShotsInv'
    BY <2>2 DEF ShotsInv
  <2> QED BY <1>2, <2>1, <2>3
<1>11. CASE ClickShoot
  <2>1. clicks' = clicks + 1 /\ charges' = charges /\ Sends("SHOOT_JOB", "page", clicks')
    BY <1>11 DEF ClickShoot, Only, server
  <2>2. clicks \in Nat /\ charges \in [Clicks -> Nat] /\ clicks < MaxClicks /\ MaxClicks \in Nat
    BY <1>11, ExtensionAssumption DEF ShotInv, TypeInv, TypeOK, ClickShoot
  <2>3. PICK n \in Nat : n = clicks + 1
    BY <2>2
  <2> DEFINE c == Post("SHOOT_JOB", "page", n)
  <2>4. c \in Call /\ c.arg = n
    BY <2>3, Names DEF Post, Call, Steps
  <2>5. calls' = Append(calls, c)
    BY <2>1, <2>3 DEF Sends
  <2> HIDE DEF c
  <2>6. Grows(c)
    BY <2>4, <2>5, GrowsFacts DEF ShotInv, TypeInv, TypeOK
  <2>7. n \in Clicks /\ charges[n] = 0
    BY <2>2, <2>3 DEF ShotInv, ChargesInv, Clicks
  <2>8. ChargesInv'
    BY <2>1, <2>2 DEF ShotInv, ChargesInv, Clicks
  <2>9. \A j \in DOMAIN calls : ShotCall(calls[j]) => calls[j].arg \in 1..clicks /\ charges[calls[j].arg] = 0
    BY DEF ShotInv, ShotsInv
  <2>10. n \notin 1..clicks /\ n \in 1..(clicks + 1) /\ 1..clicks \subseteq 1..(clicks + 1)
    BY <2>2, <2>3
  <2>11. \A j \in DOMAIN calls' : ShotCall(calls'[j]) => calls'[j].arg \in 1..(clicks + 1) /\ charges[calls'[j].arg] = 0
    BY <2>4, <2>6, <2>7, <2>9, <2>10 DEF Grows
  <2>12. ASSUME NEW j \in DOMAIN calls', NEW k \in DOMAIN calls', ShotCall(calls'[j]), ShotCall(calls'[k]),
                calls'[j].arg = calls'[k].arg
         PROVE  j = k
    <3>1. j \in DOMAIN calls /\ k \in DOMAIN calls => j = k
      BY <2>6, <2>12 DEF Grows, ShotInv, ShotsInv
    <3>2. \A x \in DOMAIN calls : ShotCall(calls'[x]) => calls'[x].arg # n
      BY <2>6, <2>9, <2>10 DEF Grows
    <3> QED BY <2>4, <2>6, <2>12, <3>1, <3>2 DEF Grows
  <2>13. ShotsInv'
    BY <2>1, <2>11, <2>12 DEF ShotsInv
  <2> QED BY <1>1, <2>8, <2>13 DEF ShotInv
<1>12. CASE (User /\ ~ClickShoot) \/ PopupRace
  <2>1. clicks' = clicks /\ charges' = charges
    BY <1>12 DEF User, PopupRace, OpenPopup, ClosePopup, SwitchLinks, PopupLogout, Submit, OpenOptions, CloseOptions,
         OptionsLogout, SwitchOrg, OpenPage, ClosePage, ShowModal, Only, server
  <2>2. CASE \E client \in Clients : Leaves(client)
    BY <1>2, <2>1, <2>2, LeftShots
  <2>3. CASE calls' = calls
    <3>1. ShotsInv'
      BY <2>1, <2>3 DEF ShotInv, ShotsInv
    <3> QED BY <1>2, <2>1, <3>1
  <2>4. CASE \E type \in Types \ {"SHOOT_JOB"}, from \in Clients, arg \in Nat \cup {None} : Sends(type, from, arg)
    <3>1. PICK type \in Types \ {"SHOOT_JOB"}, from \in Clients, arg \in Nat \cup {None} : Sends(type, from, arg)
      BY <2>4
    <3>2. Post(type, from, arg) \in Call /\ ~ShotCall(Post(type, from, arg))
      BY PostTyped DEF ShotCall
    <3>3. calls' = Append(calls, Post(type, from, arg))
      BY <3>1 DEF Sends
    <3> QED BY <1>2, <2>1, <3>2, <3>3, SendShots
  <2>5. \/ \E client \in Clients : Leaves(client)
        \/ calls' = calls
        \/ \E type \in Types \ {"SHOOT_JOB"}, from \in Clients, arg \in Nat \cup {None} : Sends(type, from, arg)
    <3>1. ~ClickShoot => \/ \E client \in Clients : Leaves(client)
                         \/ calls' = calls
                         \/ \E type \in {"REFRESH", "LOGOUT", "API_REQUEST"} \cup SignIns, from \in Clients,
                              arg \in Nat \cup {None} : Sends(type, from, arg)
      BY <1>12, UserSends
    <3>2. ASSUME ClickShoot, PopupRace PROVE FALSE
      BY <3>2 DEF ClickShoot, PopupRace, ShotInv, TypeInv, TypeOK
    <3>3. {"REFRESH", "LOGOUT", "API_REQUEST"} \cup SignIns \subseteq Types \ {"SHOOT_JOB"}
      BY DEF Types, SignIns
    <3> QED BY <1>12, <3>1, <3>2, <3>3
  <2> QED BY <2>2, <2>3, <2>4, <2>5
<1>13. CASE User \/ PopupRace
  BY <1>11, <1>12, <1>13
<1> QED BY <1>3, <1>4, <1>5, <1>6, <1>7, <1>8, <1>9, <1>10, <1>13 DEF Next, Progress

\* A click on Shoot is charged once at most, whatever expires, is refreshed, lost or
\* restarted meanwhile (SHOOT_JOB's retry after a 401).
THEOREM ShotsChargeOnce == Spec => []ShotOnce
<1>1. Init => ShotInv
  <2> SUFFICES ASSUME Init PROVE ShotInv
    OBVIOUS
  <2>1. DOMAIN calls = {}
    BY DEF Init
  <2>2. ChargesInv
    BY DEF Init, ChargesInv
  <2> QED BY <2>1, <2>2, TypeInit DEF ShotInv, ShotsInv
<1>2. ShotInv /\ [Next]_vars => ShotInv'
  BY ShotStep
<1>3. ShotInv => ShotOnce
  BY DEF ShotInv, ChargesInv, ShotOnce
<1> QED BY <1>1, <1>2, <1>3, PTL DEF Spec

=============================================================================
