----------------------- MODULE ExtensionSessionProofs -----------------------
(***************************************************************************)
(* Proofs about the session the extension keeps: a logout stays a logout,  *)
(* the popup shows the authenticated view only with tokens behind it, the  *)
(* options page shows the organization it calls active, and nobody waits   *)
(* for a message or a refresh that is not under way.                       *)
(***************************************************************************)
EXTENDS ExtensionProofs

----------------------------------------------------------------------------
(* The token store.                                                        *)

\* What the storage will hold when every write under way has landed.
LastWrite == IF writes = <<>> THEN storage ELSE writes[Len(writes)]
\* The cache of a running worker is that; a stopped worker has nothing under way.
StoreInv == /\ up => cache = LastWrite
            /\ ~up => writes = <<>> /\ refresh = None /\ cache = None

LEMMA AppendLast ==
  ASSUME TypeInv, NEW p \in Pairs \cup {None}, writes' = Append(writes, p)
  PROVE  LastWrite' = p
<1>1. writes \in Seq(Pairs \cup {None})
  BY DEF TypeInv, TypeOK
<1>2. PICK n \in Nat : n = Len(writes)
  BY <1>1
<1>3. Len(writes') = n + 1 /\ writes'[n + 1] = p
  BY <1>1, <1>2, AppendProperties
<1>4. writes' # <<>>
  <2>1. Len(<<>>) = 0 /\ n + 1 # 0
    OBVIOUS
  <2> QED BY <1>3, <2>1
<1> QED BY <1>3, <1>4 DEF LastWrite

LEMMA LandLast ==
  ASSUME TypeInv, WriteLands
  PROVE  LastWrite' = LastWrite
<1>1. writes \in Seq(Pairs \cup {None}) /\ writes # <<>> /\ storage' = Head(writes) /\ writes' = Tail(writes)
  BY DEF TypeInv, TypeOK, WriteLands
<1>2. PICK n \in Nat : n = Len(writes)
  BY <1>1
<1>3. n > 0 /\ Len(writes') = n - 1 /\ \A j \in 1..(n - 1) : writes'[j] = writes[j + 1]
  BY <1>1, <1>2, HeadTailProperties
<1>4. CASE n = 1
  <2>1. Len(writes') = 0
    BY <1>3, <1>4
  <2>2. writes' = <<>>
    BY <1>1, <2>1, HeadTailProperties, EmptySeq
  <2>3. Head(writes) = writes[1]
    BY <1>1
  <2> QED BY <1>1, <1>2, <1>4, <2>2, <2>3 DEF LastWrite
<1>5. CASE n # 1
  <2>1. n - 1 \in 1..(n - 1) /\ (n - 1) + 1 = n /\ n - 1 # 0
    BY <1>3, <1>5
  <2>2. writes' # <<>>
    <3>1. Len(<<>>) = 0
      OBVIOUS
    <3> QED BY <1>3, <2>1, <3>1
  <2>3. writes'[n - 1] = writes[(n - 1) + 1]
    BY <1>3, <2>1
  <2>4. LastWrite' = writes'[n - 1]
    BY <1>3, <2>2 DEF LastWrite
  <2>5. LastWrite = writes[n]
    BY <1>1, <1>2 DEF LastWrite
  <2> QED BY <2>1, <2>3, <2>4, <2>5
<1> QED BY <1>4, <1>5

\* Who writes the tokens.
LEMMA StoreMoves ==
  ASSUME TypeInv, StoreInv, [Next]_vars
  PROVE  \/ UNCHANGED <<store, up>> /\ (up \/ refresh' = refresh)
         \/ up /\ up' /\ (\E p \in Pairs : SetTokens(p) /\ ((\E i \in DOMAIN calls : SignInAnswered(i)) \/ RefreshArrives))
         \/ up /\ up' /\ (\E i \in DOMAIN calls : Cleared(i) /\ calls[i].type = "LOGOUT" /\ refresh' = refresh)
         \/ WriteLands
         \/ Kill
         \/ Wake
         \/ Alarm
<1>1. CASE UNCHANGED vars
  BY <1>1 DEF vars
<1>2. ASSUME NEW i \in DOMAIN calls, Handle(i)
      PROVE  (UNCHANGED <<store, up>> /\ up) \/ (up /\ up' /\ Cleared(i) /\ calls[i].type = "LOGOUT" /\ refresh' = refresh)
  BY <1>2 DEF Handle, HandleRefresh, HandleUnauthorized, HandleLogoutLocally, HandleByRequest, HandleOpenPopup, At
<1>3. ASSUME NEW i \in DOMAIN calls, Answered(i)
      PROVE  \/ UNCHANGED <<store, up>> /\ up
             \/ up /\ up' /\ Cleared(i) /\ calls[i].type = "LOGOUT" /\ refresh' = refresh
             \/ up /\ up' /\ \E p \in Pairs : SetTokens(p) /\ SignInAnswered(i)
  <2>1. up /\ up' = up
    BY <1>3 DEF Answered
  <2>2. CASE SignInAnswered(i)
    <3>1. issued + 1 \in Pairs
      BY <2>2, PlanFacts DEF SignInAnswered, TypeInv, TypeOK, Pairs
    <3> QED BY <2>1, <2>2, <3>1 DEF SignInAnswered
  <2>3. CASE ~SignInAnswered(i) /\ ~LogoutEnds(i)
    <3>1. UNCHANGED store
      BY <1>3, <2>3 DEF Answered, SignInRefused, MfaAsked, ReadAnswered, ShotAnswered, ShotUnauthorized, LogoutServed
    <3> QED BY <2>1, <3>1
  <2>4. CASE LogoutEnds(i)
    BY <2>1, <2>4 DEF LogoutEnds, At
  <2> QED BY <2>2, <2>3, <2>4
<1>4. ASSUME NEW i \in DOMAIN calls, AfterRefresh(i) \/ Lost(i)
      PROVE  UNCHANGED <<store, up>> /\ up
  BY <1>4 DEF AfterRefresh, Lost, RequestFails
<1>5. CASE User \/ PopupRace \/ \E p \in Pairs : TokensEnd(p)
  BY <1>5 DEF User, PopupRace, TokensEnd, OpenPopup, ClosePopup, SwitchLinks, PopupLogout, Submit, OpenOptions,
     CloseOptions, OptionsLogout, SwitchOrg, OpenPage, ClosePage, ClickShoot, ShowModal, Only
<1>6. CASE RefreshServed
  BY <1>6 DEF RefreshServed
<1>7. CASE RefreshArrives
  <2>1. refresh.reply \in Pairs \cup {None} /\ up /\ up' = up
    BY <1>7 DEF RefreshArrives, TypeInv, TypeOK
  <2> QED BY <1>7, <2>1 DEF RefreshArrives
<1> QED BY <1>1, <1>2, <1>3, <1>4, <1>5, <1>6, <1>7 DEF Next, Progress

LEMMA StoreStep ==
  ASSUME TypeInv, StoreInv, [Next]_vars
  PROVE  StoreInv'
<1>1. CASE UNCHANGED <<store, up>> /\ (up \/ refresh' = refresh)
  BY <1>1 DEF StoreInv, LastWrite, store
<1>2. ASSUME NEW p \in Pairs, SetTokens(p), up' PROVE StoreInv'
  BY <1>2, AppendLast DEF SetTokens, StoreInv
<1>3. ASSUME NEW i \in DOMAIN calls, Cleared(i), up' PROVE StoreInv'
  BY <1>3, AppendLast DEF Cleared, ClearTokens, StoreInv
<1>4. CASE WriteLands
  <2>1. writes # <<>> /\ up' = up /\ cache' = cache
    BY <1>4 DEF WriteLands
  <2> QED BY <1>4, <2>1, LandLast DEF StoreInv
<1>5. CASE Kill
  BY <1>5 DEF Kill, StoreInv
<1>6. CASE Wake \/ Alarm
  BY <1>6 DEF Wake, Alarm, StoreInv, LastWrite
<1> QED BY <1>1, <1>2, <1>3, <1>4, <1>5, <1>6, StoreMoves

----------------------------------------------------------------------------
(* Signed out.                                                             *)

\* A sign-in that the API will answer with a pair of tokens.
Pending(c) == c.type \in SignIns /\ c.step = "http"
NoPending == \A i \in DOMAIN calls : ~Pending(calls[i])
\* Signed out: nothing is stored or will be, and nothing under way can bring tokens.
OutInv == signedOut => LastWrite = None /\ refresh = None /\ NoPending
SignedOutInv == TypeInv /\ StoreInv /\ OutInv

LEMMA DropPending ==
  ASSUME NoPending, NEW i, Drop(i)
  PROVE  NoPending'
  BY DEF Drop, Heir, Quiet, NoPending, Pending

LEMMA SetPending ==
  ASSUME TypeInv, NoPending, NEW i \in DOMAIN calls, NEW c \in Call, ~Pending(c), SetCall(i, c)
  PROVE  NoPending'
<1>1. Sets(i, c)
  BY SetCallFacts DEF TypeInv, TypeOK
<1> QED BY <1>1 DEF Sets, NoPending

LEMMA UserPending ==
  ASSUME TypeInv, NoPending, User \/ PopupRace
  PROVE  NoPending'
<1>0. \A j \in DOMAIN calls : calls[j] \in Call
  BY DEF TypeInv, TypeOK
<1>1. ASSUME NEW client \in Clients, Left(client) PROVE NoPending'
  <2>1. \A j \in DOMAIN calls : [calls[j] EXCEPT !.from = "gone"].step = calls[j].step
                                /\ [calls[j] EXCEPT !.from = "gone"].type = calls[j].type
    BY <1>0 DEF Call
  <2>2. \A j \in DOMAIN calls : calls'[j].step = calls[j].step /\ calls'[j].type = calls[j].type
    BY <1>1, <2>1 DEF Left
  <2>3. DOMAIN calls' = DOMAIN calls
    BY <1>1 DEF Left
  <2> QED BY <2>2, <2>3 DEF NoPending, Pending
<1>2. CASE calls' = calls
  BY <1>2 DEF NoPending
<1>3. ASSUME NEW c \in Call, c.step = "posted", Grows(c) PROVE NoPending'
  BY <1>3 DEF Grows, NoPending, Pending
<1> QED BY <1>1, <1>2, <1>3, UserCalls

LEMMA OutStep ==
  ASSUME SignedOutInv, [Next]_vars
  PROVE  OutInv'
<1>0. TypeInv /\ StoreInv /\ OutInv /\ calls \in Seq(Call)
  BY DEF SignedOutInv, TypeInv, TypeOK
<1> USE <1>0
<1> SUFFICES ASSUME signedOut' PROVE LastWrite' = None /\ refresh' = None /\ NoPending'
  BY DEF OutInv
<1>1. ASSUME NEW i \in DOMAIN calls, Cleared(i), refresh' = refresh PROVE LastWrite' = None /\ refresh' = None /\ NoPending'
  <2>1. LastWrite' = None
    BY <1>1, AppendLast DEF Cleared, ClearTokens
  <2>2. refresh = None /\ ~SignInUnderWay({"http"})
    BY <1>1 DEF Cleared
  <2>3. NoPending
    BY <2>2 DEF SignInUnderWay, Range, NoPending, Pending
  <2>4. Drop(i)
    BY <1>1, RespondFacts DEF Cleared, TypeInv
  <2> QED BY <1>1, <2>1, <2>2, <2>3, <2>4, DropPending
<1>2. ASSUME signedOut PROVE cache = None /\ LastWrite = None /\ refresh = None /\ NoPending
  BY <1>2 DEF OutInv, StoreInv
<1>3. ASSUME signedOut, UNCHANGED <<store, refresh>>, NoPending' PROVE LastWrite' = None /\ refresh' = None /\ NoPending'
  BY <1>2, <1>3 DEF LastWrite, store
<1>4. ASSUME NEW i \in DOMAIN calls, signedOut, NEW res, Respond(i, res) PROVE NoPending'
  <2>1. Drop(i)
    BY <1>4, RespondFacts DEF TypeInv
  <2> QED BY <1>2, <1>4, <2>1, DropPending
<1>5. ASSUME NEW i \in DOMAIN calls, signedOut, JoinRefresh(i) PROVE NoPending' /\ refresh' = refresh
  <2>0. calls[i] \in Call
    OBVIOUS
  <2> DEFINE c == [calls[i] EXCEPT !.step = "refreshing", !.pair = None]
  <2>1. c \in Call /\ ~Pending(c)
    BY <2>0 DEF Call, Steps, Pending
  <2>2. SetCall(i, c)
    BY <1>5 DEF JoinRefresh
  <2> HIDE DEF c
  <2>3. NoPending'
    BY <1>2, <1>5, <2>1, <2>2, SetPending
  <2> QED BY <1>2, <1>5, <2>3 DEF JoinRefresh
<1>6. CASE UNCHANGED vars
  <2>1. signedOut /\ UNCHANGED <<store, refresh, calls>>
    BY <1>6 DEF vars, history
  <2> QED BY <1>2, <1>3, <2>1 DEF NoPending
<1>7. ASSUME NEW i \in DOMAIN calls, Handle(i) PROVE LastWrite' = None /\ refresh' = None /\ NoPending'
  <2>0. calls[i] \in Call
    OBVIOUS
  <2>1. CASE HandleRefresh(i)
    <3>1. signedOut /\ UNCHANGED store
      BY <2>1 DEF HandleRefresh, history
    <3> QED BY <1>3, <1>4, <1>5, <2>1, <3>1 DEF HandleRefresh
  <2>2. CASE HandleUnauthorized(i)
    <3>1. signedOut /\ UNCHANGED <<store, refresh>>
      BY <2>2 DEF HandleUnauthorized, Marked
    <3> QED BY <1>3, <1>4, <2>2, <3>1 DEF HandleUnauthorized
  <2>3. CASE HandleLogoutLocally(i)
    BY <1>1, <2>3 DEF HandleLogoutLocally
  <2>4. CASE HandleByRequest(i)
    <3> DEFINE c == [calls[i] EXCEPT !.step = "http", !.pair = cache]
    <3>1. signedOut /\ calls[i].type \notin SignIns /\ UNCHANGED <<store, refresh>>
      BY <2>4 DEF HandleByRequest
    <3>2. c \in Call /\ ~Pending(c)
      BY <2>0, <3>1 DEF Call, Steps, Pending, TypeInv, TypeOK
    <3>3. SetCall(i, c)
      BY <2>4 DEF HandleByRequest
    <3> HIDE DEF c
    <3> QED BY <1>2, <1>3, <3>1, <3>2, <3>3, SetPending
  <2>5. CASE HandleOpenPopup(i)
    <3>1. signedOut /\ UNCHANGED <<store, refresh>>
      BY <2>5 DEF HandleOpenPopup
    <3>2. Drop(i)
      BY <2>5, OpenPopupDrops
    <3> QED BY <1>2, <1>3, <3>1, <3>2, DropPending
  <2> QED BY <1>7, <2>1, <2>2, <2>3, <2>4, <2>5 DEF Handle
<1>8. ASSUME NEW i \in DOMAIN calls, Answered(i) PROVE LastWrite' = None /\ refresh' = None /\ NoPending'
  <2>0. calls[i] \in Call
    OBVIOUS
  <2>1. CASE SignInAnswered(i)
    <3>1. signedOut /\ Pending(calls[i])
      BY <2>1 DEF SignInAnswered, history, Pending
    <3> QED BY <1>2, <3>1 DEF NoPending
  <2>2. CASE SignInRefused(i) \/ MfaAsked(i) \/ ReadAnswered(i) \/ ShotAnswered(i)
    <3>1. signedOut /\ UNCHANGED <<store, refresh>> /\ \E res : Respond(i, res)
      BY <2>2 DEF SignInRefused, MfaAsked, ReadAnswered, ShotAnswered, Marked, history
    <3> QED BY <1>3, <1>4, <3>1
  <2>3. CASE ShotUnauthorized(i)
    <3>1. signedOut /\ UNCHANGED store
      BY <2>3 DEF ShotUnauthorized, history
    <3> QED BY <1>3, <1>4, <1>5, <2>3, <3>1 DEF ShotUnauthorized
  <2>4. CASE LogoutServed(i)
    <3> DEFINE c == [calls[i] EXCEPT !.step = "served"]
    <3>1. signedOut /\ UNCHANGED <<store, refresh>>
      BY <2>4 DEF LogoutServed, history
    <3>2. c \in Call /\ ~Pending(c)
      BY <2>0 DEF Call, Steps, Pending
    <3>3. SetCall(i, c)
      BY <2>4 DEF LogoutServed
    <3> HIDE DEF c
    <3> QED BY <1>2, <1>3, <3>1, <3>2, <3>3, SetPending
  <2>5. CASE LogoutEnds(i)
    BY <1>1, <2>5 DEF LogoutEnds
  <2> QED BY <1>8, <2>1, <2>2, <2>3, <2>4, <2>5 DEF Answered
<1>9. ASSUME NEW i \in DOMAIN calls, AfterRefresh(i) PROVE LastWrite' = None /\ refresh' = None /\ NoPending'
  <2>1. signedOut /\ UNCHANGED <<store, refresh>>
    BY <1>9 DEF AfterRefresh, history
  <2> QED BY <1>3, <1>4, <1>9, <2>1 DEF AfterRefresh
<1>10. ASSUME NEW i \in DOMAIN calls, Lost(i) PROVE LastWrite' = None /\ refresh' = None /\ NoPending'
  <2>0. calls[i] \in Call
    OBVIOUS
  <2>1. signedOut /\ UNCHANGED <<store, refresh>>
    BY <1>10 DEF Lost, RequestFails, Marked
  <2>2. CASE Respond(i, "refused")
    BY <1>3, <1>4, <2>1, <2>2
  <2>3. CASE SetCall(i, [calls[i] EXCEPT !.step = "served"])
    <3> DEFINE c == [calls[i] EXCEPT !.step = "served"]
    <3>1. c \in Call /\ ~Pending(c)
      BY <2>0 DEF Call, Steps, Pending
    <3>2. SetCall(i, c)
      BY <2>3
    <3> HIDE DEF c
    <3> QED BY <1>2, <1>3, <2>1, <3>1, <3>2, SetPending
  <2> QED BY <1>10, <2>2, <2>3 DEF Lost, RequestFails
<1>11. CASE User \/ PopupRace
  <2>1. signedOut /\ UNCHANGED <<store, refresh>>
    BY <1>11 DEF User, PopupRace, OpenPopup, ClosePopup, SwitchLinks, PopupLogout, Submit, OpenOptions, CloseOptions,
       OptionsLogout, SwitchOrg, OpenPage, ClosePage, ClickShoot, ShowModal, Only
  <2> QED BY <1>2, <1>3, <1>11, <2>1, UserPending
<1>12. CASE RefreshServed \/ RefreshArrives
  <2>1. signedOut /\ refresh # None
    BY <1>12 DEF RefreshServed, RefreshArrives, history
  <2> QED BY <1>2, <2>1
<1>13. CASE \E p \in Pairs : TokensEnd(p)
  <2>1. signedOut /\ UNCHANGED <<store, refresh, calls>>
    BY <1>13 DEF TokensEnd, history
  <2> QED BY <1>2, <1>3, <2>1 DEF NoPending
<1>14. CASE Wake
  <2>1. signedOut /\ UNCHANGED <<storage, writes, refresh, calls>>
    BY <1>14 DEF Wake, history
  <2> QED BY <1>2, <2>1 DEF NoPending, LastWrite
<1>15. CASE WriteLands
  <2>1. signedOut /\ UNCHANGED <<refresh, calls>>
    BY <1>15 DEF WriteLands, history
  <2> QED BY <1>2, <1>15, <2>1, LandLast DEF NoPending
<1>16. CASE Kill
  <2>1. signedOut /\ writes = <<>> /\ writes' = <<>> /\ storage' = storage /\ refresh' = None /\ calls' = <<>>
    BY <1>16 DEF Kill
  <2> QED BY <1>2, <2>1 DEF NoPending, LastWrite
<1>17. CASE Alarm
  <2>1. signedOut /\ UNCHANGED <<storage, writes, calls>>
    BY <1>17 DEF Alarm, history
  <2>2. (IF up THEN cache ELSE storage) = None
    BY <1>2, <2>1 DEF StoreInv, LastWrite
  <2>3. refresh' = refresh
    BY <1>17, <2>2 DEF Alarm
  <2> QED BY <1>2, <2>1, <2>3 DEF NoPending, LastWrite
<1> QED BY <1>6, <1>7, <1>8, <1>9, <1>10, <1>11, <1>12, <1>13, <1>14, <1>15, <1>16, <1>17 DEF Next, Progress

\* After a logout no token comes back, neither from the worker nor from the storage a
\* restarted worker reads, unless a refresh or a sign-in was under way at the clear, or
\* the worker was stopped before the removal landed (AuthService.logout, the token store).
THEOREM SignedOutHolds == Spec => []SignedOutStays
<1>1. Init => SignedOutInv
  BY TypeInit DEF Init, SignedOutInv, StoreInv, OutInv
<1>2. SignedOutInv /\ [Next]_vars => SignedOutInv'
  BY TypeStep, StoreStep, OutStep DEF SignedOutInv
<1>3. SignedOutInv => SignedOutStays
  BY DEF SignedOutInv, StoreInv, OutInv, LastWrite, SignedOutStays
<1> QED BY <1>1, <1>2, <1>3, PTL DEF Spec

----------------------------------------------------------------------------
(* What the popup awaits.                                                  *)

\* A message of the popup that is open.
PopupCall(c) == c.from = "popup"
\* A closed popup awaits nothing; a loading one only what it sent on opening, and
\* that is one message.
PopupInv ==
  /\ popup.screen = "closed" => \A i \in DOMAIN calls : ~PopupCall(calls[i])
  /\ popup.screen = "loading" => \A i \in DOMAIN calls : PopupCall(calls[i]) => FormCall(calls[i])
  /\ popup.screen # "loading" => \A i \in DOMAIN calls : ~FormCall(calls[i])
  /\ \A i, j \in DOMAIN calls : FormCall(calls[i]) /\ FormCall(calls[j]) => i = j

\* The messages of the popup are ones it had.
FollowsPopup(f) ==
  /\ \A j \in DOMAIN calls' : PopupCall(calls'[j]) =>
       f[j] \in DOMAIN calls /\ PopupCall(calls[f[j]]) /\ calls'[j].type = calls[f[j]].type
  /\ \A j, k \in DOMAIN calls' : PopupCall(calls'[j]) /\ PopupCall(calls'[k]) /\ f[j] = f[k] => j = k

LEMMA FollowPopup ==
  ASSUME PopupInv, popup'.screen = popup.screen, NEW f, FollowsPopup(f)
  PROVE  PopupInv'
<1>1. \A j \in DOMAIN calls' : FormCall(calls'[j]) => PopupCall(calls'[j]) /\ f[j] \in DOMAIN calls /\ FormCall(calls[f[j]])
  BY DEF FollowsPopup, FormCall, PopupCall
<1>2. \A j \in DOMAIN calls' : PopupCall(calls'[j]) /\ FormCall(calls[f[j]]) => FormCall(calls'[j])
  BY DEF FollowsPopup, FormCall, PopupCall
<1>3. popup'.screen = "closed" => \A j \in DOMAIN calls' : ~PopupCall(calls'[j])
  BY DEF FollowsPopup, PopupInv
<1>4. popup'.screen = "loading" => \A j \in DOMAIN calls' : PopupCall(calls'[j]) => FormCall(calls'[j])
  BY <1>2 DEF FollowsPopup, PopupInv
<1>5. popup'.screen # "loading" => \A j \in DOMAIN calls' : ~FormCall(calls'[j])
  BY <1>1 DEF PopupInv
<1>6. \A j, k \in DOMAIN calls' : FormCall(calls'[j]) /\ FormCall(calls'[k]) => j = k
  BY <1>1 DEF PopupInv, FollowsPopup
<1> QED BY <1>3, <1>4, <1>5, <1>6 DEF PopupInv

LEMMA StayingPopup ==
  ASSUME PopupInv, popup'.screen = popup.screen, DOMAIN calls' = DOMAIN calls,
         \A j \in DOMAIN calls : PopupCall(calls'[j]) => PopupCall(calls[j]) /\ calls'[j].type = calls[j].type
  PROVE  PopupInv'
<1> DEFINE f == [j \in DOMAIN calls' |-> j]
<1>1. \A j \in DOMAIN calls' : f[j] = j
  OBVIOUS
<1> HIDE DEF f
<1>2. FollowsPopup(f)
  BY <1>1 DEF FollowsPopup
<1> QED BY <1>2, FollowPopup

LEMMA DropPopup ==
  ASSUME TypeInv, PopupInv, popup'.screen = popup.screen, NEW i \in DOMAIN calls, Drop(i),
         \A j \in DOMAIN calls' : PopupCall(calls'[j]) => Heir(i, j)
  PROVE  PopupInv'
<1> DEFINE f == [j \in DOMAIN calls' |-> Old(i, j)]
<1>1. \A j \in DOMAIN calls' : f[j] = Old(i, j)
  OBVIOUS
<1> HIDE DEF f
<1>2. DOMAIN calls' \subseteq Nat /\ i \in Nat
  BY DEF Drop, TypeInv, TypeOK
<1>3. \A j, k \in DOMAIN calls' : f[j] = f[k] => j = k
  BY <1>1, <1>2, OldInjective
<1>4. FollowsPopup(f)
  BY <1>1, <1>3 DEF FollowsPopup, Heir
<1> QED BY <1>4, FollowPopup

\* The message of a popup that has just been opened is the only one of it.
LEMMA OpenedPopup ==
  ASSUME popup'.screen = "loading",
         \A j, k \in DOMAIN calls' : PopupCall(calls'[j]) /\ PopupCall(calls'[k]) => FormCall(calls'[j]) /\ j = k
  PROVE  PopupInv'
<1>1. \A j \in DOMAIN calls' : FormCall(calls'[j]) => PopupCall(calls'[j])
  BY DEF FormCall, PopupCall
<1> QED BY <1>1 DEF PopupInv

\* A screen with forms or the authenticated view.
LEMMA FormPopup ==
  ASSUME popup'.screen \notin {"closed", "loading"}, \A j \in DOMAIN calls' : ~FormCall(calls'[j])
  PROVE  PopupInv'
  BY DEF PopupInv

LEMMA RespondPopup ==
  ASSUME TypeInv, PopupInv, NEW i \in DOMAIN calls, NEW res, Respond(i, res)
  PROVE  PopupInv'
<1>1. Drop(i) /\ \A j \in DOMAIN calls' : Heir(i, j) \/ (j = Len(calls) /\ Sent(i, calls'[j]))
  BY RespondFacts DEF TypeInv
<1>2. CASE calls[i].from # "popup"
  <2>1. popup' = popup
    BY <1>2 DEF Respond, uis, OptionsTakes, PageTakes
  <2>2. \A j \in DOMAIN calls' : PopupCall(calls'[j]) => Heir(i, j)
    BY <1>1, <1>2 DEF Sent, PopupCall
  <2> QED BY <1>1, <2>1, <2>2, DropPopup
<1>3. CASE calls[i].from = "popup"
  <2>0. PopupTakes(calls[i], res, RemoveAt(calls, i)) /\ PopupCall(calls[i])
    BY <1>3 DEF Respond, PopupCall
  <2>1. \A j \in DOMAIN calls' : Heir(i, j) => Old(i, j) \in DOMAIN calls /\ Old(i, j) # i /\ calls'[j] = calls[Old(i, j)]
    BY DEF Heir
  <2>2. CASE FormCall(calls[i])
    <3>1. popup.screen = "loading"
      BY <2>2 DEF PopupInv
    <3>2. \A j \in DOMAIN calls : PopupCall(calls[j]) => j = i
      BY <2>2, <3>1 DEF PopupInv
    <3>3. \A j \in DOMAIN calls' : PopupCall(calls'[j]) => j = Len(calls) /\ Sent(i, calls'[j])
      BY <1>1, <2>1, <3>2
    <3>4. CASE calls[i].type = "REFRESH"
      <4>1. popup' = popup /\ calls' = RemoveAt(calls, i) \o <<Post("GET_ME", "popup", None)>>
        BY <2>0, <3>4 DEF PopupTakes, Send, SignIns
      <4> DEFINE p == Post("GET_ME", "popup", None)
      <4>2. p \in Call /\ Quiet(p) /\ FormCall(p)
        BY Names DEF Post, Call, Steps, Quiet, FormCall
      <4>3. <<p>> \in Seq(Call) /\ Len(<<p>>) = 1 /\ <<p>>[1] = p
        BY <4>2
      <4>4. Len(calls') = Len(calls) /\ calls'[Len(calls)] = p
        <5> DEFINE new == <<p>>
        <5>1. new \in Seq(Call) /\ Len(new) = 1 /\ new[1] = p /\ Quiet(new[1])
          BY <4>2, <4>3
        <5>2. Len(new) \in {0, 1} /\ calls' = RemoveAt(calls, i) \o new
          BY <4>1, <5>1
        <5> HIDE DEF new, p
        <5> QED BY <5>1, <5>2, DropFacts DEF TypeInv
      <4> HIDE DEF p
      <4>5. \A j, k \in DOMAIN calls' : PopupCall(calls'[j]) /\ PopupCall(calls'[k]) => FormCall(calls'[j]) /\ j = k
        BY <3>3, <4>2, <4>4
      <4> QED BY <3>1, <4>1, <4>5, OpenedPopup
    <3>5. CASE calls[i].type = "GET_ME"
      <4>1. popup' = [popup EXCEPT !.screen = IF res = "ok" THEN "authenticated" ELSE "login"]
        BY <2>0, <3>5 DEF PopupTakes, SignIns
      <4>2. popup'.screen \notin {"closed", "loading"} /\ popup' # popup
        BY <3>1, <4>1 DEF TypeInv, TypeOK
      <4>3. \A j \in DOMAIN calls' : ~FormCall(calls'[j])
        BY <3>3, <4>2 DEF Sent, FormCall, PopupCall
      <4> QED BY <4>2, <4>3, FormPopup
    <3> QED BY <2>2, <3>4, <3>5 DEF FormCall
  <2>3. CASE ~FormCall(calls[i])
    <3>1. popup.screen \notin {"closed", "loading"}
      BY <2>0, <2>3 DEF PopupInv
    <3>2. \A j \in DOMAIN calls : ~FormCall(calls[j])
      BY <3>1 DEF PopupInv
    <3>3. \A j \in DOMAIN calls' : ~FormCall(calls'[j])
      BY <1>1, <2>1, <2>3, <3>2 DEF Sent
    <3>4. calls[i].type \in SignIns \cup {"LOGOUT"}
      BY <2>0, <2>3 DEF PopupTakes, FormCall, PopupCall
    <3>5. popup'.screen \notin {"closed", "loading"}
      <4>1. CASE calls[i].type = "LOGOUT"
        BY <2>0, <4>1 DEF PopupTakes, SignIns
      <4>2. CASE calls[i].type \in SignIns
        <5>1. popup' = [screen |-> CASE res = "ok" -> "authenticated"
                                    [] res = "mfa" -> "mfa"
                                    [] OTHER -> popup.screen,
                       pending |-> popup.pending \ {calls[i].type}]
          BY <2>0, <4>2 DEF PopupTakes, SignIns
        <5>2. popup'.screen = "authenticated" \/ popup'.screen = "mfa" \/ popup'.screen = popup.screen
          BY <5>1
        <5> QED BY <3>1, <5>2
      <4> QED BY <3>4, <4>1, <4>2
    <3> QED BY <3>3, <3>5, FormPopup
  <2> QED BY <2>2, <2>3
<1> QED BY <1>2, <1>3

----------------------------------------------------------------------------
(* What becomes of the messages in a step.                                 *)

\* Who awaits the refresh, and who asks for the user of a new pair.
StepSound(c) ==
  /\ c.step \in {"refreshing", "refreshed", "denied"} => c.type \in {"REFRESH", "SHOOT_JOB"}
  /\ c.step = "me" => c.type \in SignIns
StepInv == \A i \in DOMAIN calls : StepSound(calls[i])

\* The call i goes one step further, the others stay.
Moves(i, c) ==
  /\ c \in Call /\ SetCall(i, c) /\ Sets(i, c)
  /\ c.type = calls[i].type /\ c.from = calls[i].from /\ c.arg = calls[i].arg
Moved(i) ==
  \E c \in Call : /\ Moves(i, c) /\ popup' = popup
                  /\ \/ /\ c.step = "refreshing" /\ calls[i].type \in {"REFRESH", "SHOOT_JOB"}
                        /\ JoinRefresh(i) /\ UNCHANGED <<store, up>>
                     \/ c.step = "http" /\ c.pair = cache /\ up /\ UNCHANGED <<store, up>>
                     \/ c.step = "me" /\ calls[i].type \in SignIns /\ SignInAnswered(i)
                     \/ c.step = "served" /\ UNCHANGED <<store, up>>

\* An answer "ok" comes from the API, from a clear or from a refresh.
Replies(i) ==
  up /\ \E res : /\ Respond(i, res)
                 /\ res = "ok" => \/ SignInAnswered(i) \/ ReadAnswered(i) \/ ShotAnswered(i)
                                  \/ Cleared(i) /\ calls[i].type = "LOGOUT"
                                  \/ AfterRefresh(i)
                 /\ calls[i].type = "API_REQUEST" => Marked(i) \/ calls[i].step \in {"refreshed", "denied"}

\* Everything that can become of the messages under way in a step.
LEMMA CallsNext ==
  ASSUME TypeInv, [Next]_vars
  PROVE  \/ UNCHANGED <<calls, uis>>
         \/ \E i \in DOMAIN calls : Replies(i)
         \/ \E i \in DOMAIN calls : Moved(i)
         \/ \E i \in DOMAIN calls : HandleOpenPopup(i)
         \/ RefreshArrives
         \/ Kill
         \/ User \/ PopupRace
<1>0. calls \in Seq(Call) /\ cache \in Pairs \cup {None}
  BY DEF TypeInv, TypeOK
<1>1. ASSUME NEW i \in DOMAIN calls, NEW c \in Call, SetCall(i, c), c.type = calls[i].type, c.from = calls[i].from,
             c.arg = calls[i].arg
      PROVE  Moves(i, c) /\ popup' = popup
  <2>1. Sets(i, c)
    BY <1>0, <1>1, SetCallFacts
  <2> QED BY <1>1, <2>1 DEF Moves, SetCall, uis
<1>2. ASSUME NEW i \in DOMAIN calls, JoinRefresh(i), calls[i].type \in {"REFRESH", "SHOOT_JOB"}, UNCHANGED <<store, up>>
      PROVE  Moved(i)
  <2> DEFINE c == [calls[i] EXCEPT !.step = "refreshing", !.pair = None]
  <2>0. calls[i] \in Call
    BY <1>0
  <2>1. c \in Call /\ c.type = calls[i].type /\ c.from = calls[i].from /\ c.arg = calls[i].arg /\ c.step = "refreshing"
    BY <2>0 DEF Call, Steps
  <2>2. SetCall(i, c)
    BY <1>2 DEF JoinRefresh
  <2> HIDE DEF c
  <2>3. Moves(i, c) /\ popup' = popup
    BY <1>1, <2>1, <2>2
  <2> QED BY <1>2, <2>1, <2>3 DEF Moved
<1>3. ASSUME NEW i \in DOMAIN calls, HandleByRequest(i), up, up' = up PROVE Moved(i)
  <2> DEFINE c == [calls[i] EXCEPT !.step = "http", !.pair = cache]
  <2>0. calls[i] \in Call
    BY <1>0
  <2>1. c \in Call /\ c.type = calls[i].type /\ c.from = calls[i].from /\ c.arg = calls[i].arg /\ c.step = "http" /\ c.pair = cache
    BY <1>0, <2>0 DEF Call, Steps
  <2>2. SetCall(i, c) /\ UNCHANGED store
    BY <1>3 DEF HandleByRequest
  <2> HIDE DEF c
  <2>3. Moves(i, c) /\ popup' = popup
    BY <1>1, <2>1, <2>2
  <2> QED BY <1>3, <2>1, <2>2, <2>3 DEF Moved
<1>4. ASSUME NEW i \in DOMAIN calls, SignInAnswered(i), SetCall(i, [calls[i] EXCEPT !.step = "me", !.pair = issued'])
      PROVE  Moved(i)
  <2>0. calls[i] \in Call /\ issued' \in Pairs
    BY <1>0, <1>4, PlanFacts DEF SignInAnswered, TypeInv, TypeOK, Pairs
  <2>1. /\ [calls[i] EXCEPT !.step = "me", !.pair = issued'] \in Call
        /\ [calls[i] EXCEPT !.step = "me", !.pair = issued'].type = calls[i].type
        /\ [calls[i] EXCEPT !.step = "me", !.pair = issued'].from = calls[i].from
        /\ [calls[i] EXCEPT !.step = "me", !.pair = issued'].arg = calls[i].arg
        /\ [calls[i] EXCEPT !.step = "me", !.pair = issued'].step = "me"
    BY <2>0 DEF Call, Steps
  <2>2. PICK c \in Call : c = [calls[i] EXCEPT !.step = "me", !.pair = issued']
    BY <2>1
  <2>3. Moves(i, c) /\ popup' = popup
    BY <1>1, <1>4, <2>1, <2>2
  <2>4. c.step = "me" /\ calls[i].type \in SignIns
    BY <1>4, <2>1, <2>2 DEF SignInAnswered
  <2> QED BY <1>4, <2>3, <2>4 DEF Moved
<1>5. ASSUME NEW i \in DOMAIN calls, SetCall(i, [calls[i] EXCEPT !.step = "served"]), UNCHANGED <<store, up>>
      PROVE  Moved(i)
  <2> DEFINE c == [calls[i] EXCEPT !.step = "served"]
  <2>0. calls[i] \in Call
    BY <1>0
  <2>1. c \in Call /\ c.type = calls[i].type /\ c.from = calls[i].from /\ c.arg = calls[i].arg /\ c.step = "served"
    BY <2>0 DEF Call, Steps
  <2>2. SetCall(i, c)
    BY <1>5
  <2> HIDE DEF c
  <2>3. Moves(i, c) /\ popup' = popup
    BY <1>1, <2>1, <2>2
  <2> QED BY <1>5, <2>1, <2>3 DEF Moved
<1>6. ASSUME NEW i \in DOMAIN calls, Handle(i)
      PROVE  Replies(i) \/ Moved(i) \/ HandleOpenPopup(i)
  <2>1. up /\ up' = up
    BY <1>6 DEF Handle
  <2>2. CASE HandleRefresh(i)
    <3>1. calls[i].type \in {"REFRESH", "SHOOT_JOB"} /\ UNCHANGED store
      BY <2>2 DEF HandleRefresh, At
    <3> QED BY <1>2, <2>1, <2>2, <3>1 DEF HandleRefresh, Replies
  <2>3. CASE HandleUnauthorized(i) \/ HandleLogoutLocally(i)
    BY <2>1, <2>3 DEF HandleUnauthorized, HandleLogoutLocally, At, Cleared, Replies
  <2> QED BY <1>3, <1>6, <2>1, <2>2, <2>3 DEF Handle
<1>7. ASSUME NEW i \in DOMAIN calls, Answered(i)
      PROVE  Replies(i) \/ Moved(i)
  <2>1. up /\ up' = up
    BY <1>7 DEF Answered
  <2>2. CASE SignInAnswered(i)
    <3>1. calls[i].type # "API_REQUEST"
      BY <2>2 DEF SignInAnswered, SignIns
    <3> QED BY <1>4, <2>1, <2>2, <3>1 DEF SignInAnswered, Replies
  <2>3. CASE ShotUnauthorized(i)
    <3>1. calls[i].type \in {"REFRESH", "SHOOT_JOB"} /\ UNCHANGED store
      BY <2>3 DEF ShotUnauthorized, At
    <3> QED BY <1>2, <2>1, <2>3, <3>1 DEF ShotUnauthorized, Replies
  <2>4. CASE LogoutServed(i)
    BY <1>5, <2>1, <2>4 DEF LogoutServed
  <2>5. CASE SignInRefused(i) \/ MfaAsked(i)
    <3>1. calls[i].type # "API_REQUEST"
      BY <2>5 DEF SignInRefused, MfaAsked, At, SignIns
    <3> QED BY <2>1, <2>5, <3>1 DEF SignInRefused, MfaAsked, Replies
  <2>6. CASE ReadAnswered(i) \/ ShotAnswered(i) \/ LogoutEnds(i)
    BY <2>1, <2>6 DEF ReadAnswered, ShotAnswered, LogoutEnds, At, Cleared, Replies
  <2> QED BY <1>7, <2>2, <2>3, <2>4, <2>5, <2>6 DEF Answered
<1>8. ASSUME NEW i \in DOMAIN calls, AfterRefresh(i) PROVE Replies(i)
  BY <1>8 DEF AfterRefresh, Replies
<1>9. ASSUME NEW i \in DOMAIN calls, Lost(i) PROVE Replies(i) \/ Moved(i)
  <2>1. up /\ up' = up /\ UNCHANGED store
    BY <1>9 DEF Lost, RequestFails
  <2> QED BY <1>5, <1>9, <2>1 DEF Lost, RequestFails, Replies
<1>10. CASE UNCHANGED vars
  BY <1>10 DEF vars
<1>11. CASE RefreshServed \/ Wake \/ WriteLands \/ Alarm \/ \E p \in Pairs : TokensEnd(p)
  BY <1>11 DEF RefreshServed, Wake, WriteLands, Alarm, TokensEnd
<1> QED BY <1>6, <1>7, <1>8, <1>9, <1>10, <1>11 DEF Next, Progress

LEMMA StepStep ==
  ASSUME TypeInv, StepInv, [Next]_vars
  PROVE  StepInv'
<1>0. calls \in Seq(Call)
  BY DEF TypeInv, TypeOK
<1>1. CASE UNCHANGED <<calls, uis>>
  BY <1>1 DEF StepInv, StepSound
<1>2. ASSUME NEW i \in DOMAIN calls, Drop(i) PROVE StepInv'
  BY <1>2 DEF Drop, Heir, Quiet, StepInv, StepSound
<1>3. ASSUME NEW i \in DOMAIN calls, Moved(i) PROVE StepInv'
  <2>1. PICK c \in Call : Moves(i, c) /\ StepSound(c)
    BY <1>3 DEF Moved, Moves, StepSound
  <2> QED BY <2>1 DEF Moves, Sets, StepInv, StepSound
<1>4. CASE RefreshArrives
  <2>1. refresh.reply \in Pairs \cup {None}
    BY <1>4 DEF RefreshArrives, TypeInv, TypeOK
  <2>2. WentOn(refresh.reply)
    BY <1>0, <1>4, <2>1, GoOnFacts DEF RefreshArrives
  <2>3. \A j \in DOMAIN calls : calls[j] \in Call /\ StepSound(calls[j])
    BY <1>0 DEF StepInv
  <2>4. \A j \in DOMAIN calls : StepSound(GoOn(calls[j], refresh.reply))
    BY <2>3 DEF GoOn, StepSound, Call
  <2> QED BY <2>2, <2>4 DEF WentOn, StepInv, StepSound
<1>5. CASE Kill
  <2>1. calls' = <<>>
    BY <1>5 DEF Kill
  <2> QED BY <2>1 DEF StepInv
<1>6. CASE User \/ PopupRace
  <2>1. ASSUME NEW client \in Clients, Left(client) PROVE StepInv'
    <3>1. \A j \in DOMAIN calls : calls[j] \in Call /\ StepSound(calls[j])
      BY <1>0 DEF StepInv
    <3>2. \A j \in DOMAIN calls : StepSound([calls[j] EXCEPT !.from = "gone"])
      BY <3>1 DEF StepSound, Call
    <3>3. \A j \in DOMAIN calls' : StepSound(calls'[j])
      BY <2>1, <3>1, <3>2 DEF Left
    <3> QED BY <3>3 DEF StepInv, StepSound
  <2>2. CASE calls' = calls
    BY <2>2 DEF StepInv, StepSound
  <2>3. ASSUME NEW c \in Call, c.step = "posted", Grows(c) PROVE StepInv'
    <3>1. StepSound(c)
      BY <2>3 DEF StepSound
    <3>2. \A j \in DOMAIN calls' : StepSound(calls'[j])
      BY <2>3, <3>1 DEF Grows, StepInv
    <3> QED BY <3>2 DEF StepInv, StepSound
  <2> QED BY <1>6, <2>1, <2>2, <2>3, UserCalls
<1>7. ASSUME NEW i \in DOMAIN calls, Replies(i) PROVE StepInv'
  BY <1>2, <1>7, RespondFacts DEF Replies, TypeInv
<1>8. ASSUME NEW i \in DOMAIN calls, HandleOpenPopup(i) PROVE StepInv'
  BY <1>2, <1>8, OpenPopupDrops
<1> QED BY <1>1, <1>3, <1>4, <1>5, <1>6, <1>7, <1>8, CallsNext

\* What is done in other clients leaves the popup alone.
LEMMA OtherPopup ==
  ASSUME TypeInv, PopupInv, popup' = popup,
         \/ \E client \in {"options", "page"} : Leaves(client)
         \/ calls' = calls
         \/ \E type \in Types, client \in {"options", "page"}, arg \in Nat \cup {None} : Sends(type, client, arg)
  PROVE  PopupInv'
<1>0. calls \in Seq(Call) /\ \A j \in DOMAIN calls : calls[j] \in Call
  BY DEF TypeInv, TypeOK
<1>1. ASSUME NEW client \in {"options", "page"}, Leaves(client) PROVE PopupInv'
  <2>1. Left(client)
    BY <1>0, <1>1, LeavesFacts, Names
  <2>2. \A j \in DOMAIN calls : [calls[j] EXCEPT !.from = "gone"].from = "gone"
    BY <1>0 DEF Call
  <2>3. \A j \in DOMAIN calls : PopupCall(calls'[j]) => calls'[j] = calls[j]
    BY <2>1, <2>2 DEF Left, PopupCall
  <2>4. DOMAIN calls' = DOMAIN calls
    BY <2>1 DEF Left
  <2> QED BY <2>3, <2>4, StayingPopup DEF PopupCall
<1>2. CASE calls' = calls
  BY <1>2 DEF PopupInv, FormCall, PopupCall
<1>3. ASSUME NEW type \in Types, NEW client \in {"options", "page"}, NEW arg \in Nat \cup {None}, Sends(type, client, arg)
      PROVE  PopupInv'
  <2> DEFINE c == Post(type, client, arg)
  <2>1. c \in Call /\ c.from = client
    BY PostTyped, Names
  <2>2. calls' = Append(calls, c)
    BY <1>3 DEF Sends
  <2> HIDE DEF c
  <2>3. Grows(c)
    BY <1>0, <2>1, <2>2, GrowsFacts
  <2> DEFINE f == [j \in DOMAIN calls' |-> j]
  <2>4. \A j \in DOMAIN calls' : f[j] = j
    OBVIOUS
  <2> HIDE DEF f
  <2>5. FollowsPopup(f)
    BY <2>1, <2>3, <2>4 DEF FollowsPopup, Grows, PopupCall
  <2> QED BY <2>5, FollowPopup
<1> QED BY <1>1, <1>2, <1>3

LEMMA OtherUser ==
  ASSUME TypeInv,
         \/ OpenOptions \/ CloseOptions \/ OptionsLogout \/ \E o \in Orgs : SwitchOrg(o)
         \/ OpenPage \/ ClosePage \/ ClickShoot \/ PopupRace \/ \E j \in Jobs \cup {None} : ShowModal(j)
  PROVE  /\ popup' = popup
         /\ \/ \E client \in {"options", "page"} : Leaves(client)
            \/ calls' = calls
            \/ \E type \in Types, client \in {"options", "page"}, arg \in Nat \cup {None} : Sends(type, client, arg)
<1>1. popup' = popup
  BY DEF OpenOptions, CloseOptions, OptionsLogout, SwitchOrg, OpenPage, ClosePage, ClickShoot, PopupRace, ShowModal, Only
<1>2. CASE OpenOptions \/ OptionsLogout \/ OpenPage
  BY <1>1, <1>2, Names DEF OpenOptions, OptionsLogout, OpenPage
<1>3. CASE CloseOptions \/ ClosePage \/ PopupRace
  BY <1>1, <1>3 DEF CloseOptions, ClosePage, PopupRace
<1>4. CASE \E j \in Jobs \cup {None} : ShowModal(j)
  BY <1>1, <1>4 DEF ShowModal
<1>5. CASE \E o \in Orgs : SwitchOrg(o)
  <2>1. PICK o \in Orgs : Sends("API_REQUEST", "options", o)
    BY <1>5 DEF SwitchOrg
  <2>2. o \in Nat
    BY ExtensionAssumption
  <2> QED BY <1>1, <2>1, <2>2, Names
<1>6. CASE ClickShoot
  <2>1. clicks' \in Nat /\ Sends("SHOOT_JOB", "page", clicks')
    BY <1>6 DEF ClickShoot, TypeInv, TypeOK
  <2>2. PICK n \in Nat : n = clicks'
    BY <2>1
  <2>3. Sends("SHOOT_JOB", "page", n)
    BY <2>1, <2>2
  <2> QED BY <1>1, <2>3, Names
<1> QED BY <1>2, <1>3, <1>4, <1>5, <1>6

LEMMA UserPopup ==
  ASSUME TypeInv, PopupInv, OpenPopup \/ ClosePopup \/ SwitchLinks \/ PopupLogout \/ \E type \in SignIns : Submit(type)
  PROVE  PopupInv'
<1>0. calls \in Seq(Call) /\ \A j \in DOMAIN calls : calls[j] \in Call
  BY DEF TypeInv, TypeOK
<1>1. CASE OpenPopup
  <2> DEFINE c == Post("REFRESH", "popup", None)
  <2>1. c \in Call /\ FormCall(c)
    BY Names DEF Post, Call, Steps, FormCall
  <2>2. calls' = Append(calls, c) /\ popup.screen = "closed" /\ popup'.screen = "loading"
    BY <1>1 DEF OpenPopup, Sends, TypeInv, TypeOK
  <2> HIDE DEF c
  <2>3. Grows(c)
    BY <1>0, <2>1, <2>2, GrowsFacts
  <2>4. \A j \in DOMAIN calls : ~PopupCall(calls[j])
    BY <2>2 DEF PopupInv
  <2>5. \A j, k \in DOMAIN calls' : PopupCall(calls'[j]) /\ PopupCall(calls'[k]) => FormCall(calls'[j]) /\ j = k
    BY <2>1, <2>3, <2>4 DEF Grows
  <2> QED BY <2>2, <2>5, OpenedPopup
<1>2. CASE ClosePopup
  <2>1. popup'.screen = "closed"
    BY <1>2 DEF ClosePopup, ClosedPopup
  <2>2. Left("popup")
    BY <1>0, <1>2, LeavesFacts, Names DEF ClosePopup
  <2>3. \A j \in DOMAIN calls : [calls[j] EXCEPT !.from = "gone"].from = "gone"
    BY <1>0 DEF Call
  <2>4. \A j \in DOMAIN calls' : ~PopupCall(calls'[j])
    BY <2>2, <2>3 DEF Left, PopupCall
  <2>5. \A j \in DOMAIN calls' : ~FormCall(calls'[j])
    BY <2>4 DEF FormCall, PopupCall
  <2> QED BY <2>1, <2>4, <2>5 DEF PopupInv
<1>3. ASSUME popup.screen \notin {"closed", "loading"}, popup'.screen \notin {"closed", "loading"},
             NEW c \in Call, ~FormCall(c), calls' = Append(calls, c)
      PROVE  PopupInv'
  <2>1. Grows(c)
    BY <1>0, <1>3, GrowsFacts
  <2>2. \A j \in DOMAIN calls : ~FormCall(calls[j])
    BY <1>3 DEF PopupInv
  <2>3. \A j \in DOMAIN calls' : ~FormCall(calls'[j])
    BY <1>3, <2>1, <2>2 DEF Grows
  <2> QED BY <1>3, <2>3, FormPopup
<1>4. CASE SwitchLinks
  <2>1. popup.screen \notin {"closed", "loading"} /\ popup'.screen \notin {"closed", "loading"} /\ calls' = calls
    BY <1>4 DEF SwitchLinks
  <2>2. \A j \in DOMAIN calls' : ~FormCall(calls'[j])
    BY <2>1 DEF PopupInv
  <2> QED BY <2>1, <2>2, FormPopup
<1>5. CASE PopupLogout
  <2> DEFINE c == Post("LOGOUT", "popup", None)
  <2>1. c \in Call /\ ~FormCall(c)
    BY Names DEF Post, Call, Steps, FormCall
  <2>2. calls' = Append(calls, c) /\ popup.screen = "authenticated" /\ popup' = popup
    BY <1>5 DEF PopupLogout, Sends
  <2> HIDE DEF c
  <2> QED BY <1>3, <2>1, <2>2
<1>6. ASSUME NEW type \in SignIns, Submit(type) PROVE PopupInv'
  <2> DEFINE c == Post(type, "popup", None)
  <2>1. type \in Types /\ type \notin {"REFRESH", "GET_ME"}
    BY DEF Types, SignIns
  <2>2. c \in Call /\ ~FormCall(c)
    BY <2>1, Names DEF Post, Call, Steps, FormCall
  <2>3. calls' = Append(calls, c) /\ popup.screen \in {"login", "register", "mfa"} /\ popup'.screen = popup.screen
    BY <1>6 DEF Submit, Sends, LoginForm, RegisterForm, MfaForm, TypeInv, TypeOK
  <2> HIDE DEF c
  <2> QED BY <1>3, <2>2, <2>3
<1> QED BY <1>1, <1>2, <1>4, <1>5, <1>6

LEMMA PopupStep ==
  ASSUME TypeInv, PopupInv, [Next]_vars
  PROVE  PopupInv'
<1>1. CASE UNCHANGED <<calls, uis>>
  BY <1>1 DEF uis, PopupInv, FormCall, PopupCall
<1>2. ASSUME NEW i \in DOMAIN calls, Replies(i) PROVE PopupInv'
  BY <1>2, RespondPopup DEF Replies
<1>3. ASSUME NEW i \in DOMAIN calls, Moved(i) PROVE PopupInv'
  <2>1. PICK c \in Call : Moves(i, c) /\ popup' = popup
    BY <1>3 DEF Moved
  <2>2. \A j \in DOMAIN calls : calls'[j].type = calls[j].type /\ calls'[j].from = calls[j].from
    BY <2>1 DEF Moves, Sets
  <2>3. DOMAIN calls' = DOMAIN calls
    BY <2>1 DEF Moves, Sets
  <2> QED BY <2>1, <2>2, <2>3, StayingPopup DEF PopupCall
<1>4. ASSUME NEW i \in DOMAIN calls, HandleOpenPopup(i) PROVE PopupInv'
  <2>1. /\ Drop(i)
        /\ \A j \in DOMAIN calls' : Heir(i, j) \/ (j = Len(calls) /\ calls'[j] = Post("REFRESH", "popup", None)
                                                   /\ popup.screen = "closed" /\ popup'.screen = "loading")
    BY <1>4, OpenPopupDrops
  <2>2. popup' = popup \/ (popup.screen = "closed" /\ popup'.screen = "loading")
    BY <1>4 DEF HandleOpenPopup, ClosedPopup
  <2>3. CASE popup' = popup
    <3>1. \A j \in DOMAIN calls' : Heir(i, j)
      BY <2>1, <2>3
    <3> QED BY <2>1, <2>3, <3>1, DropPopup
  <2>4. CASE popup.screen = "closed" /\ popup'.screen = "loading"
    <3>1. \A j \in DOMAIN calls : ~PopupCall(calls[j])
      BY <2>4 DEF PopupInv
    <3>2. FormCall(Post("REFRESH", "popup", None))
      BY DEF FormCall, Post
    <3>3. \A j, k \in DOMAIN calls' : PopupCall(calls'[j]) /\ PopupCall(calls'[k]) => FormCall(calls'[j]) /\ j = k
      BY <2>1, <3>1, <3>2 DEF Heir
    <3> QED BY <2>4, <3>3, OpenedPopup
  <2> QED BY <2>2, <2>3, <2>4
<1>5. CASE RefreshArrives
  <2>1. refresh.reply \in Pairs \cup {None} /\ popup' = popup /\ calls \in Seq(Call)
    BY <1>5 DEF RefreshArrives, TypeInv, TypeOK, uis
  <2>2. WentOn(refresh.reply)
    BY <1>5, <2>1, GoOnFacts DEF RefreshArrives
  <2>3. \A j \in DOMAIN calls : calls'[j].type = calls[j].type /\ calls'[j].from = calls[j].from
    BY <2>1, <2>2, GoOnTyped DEF WentOn
  <2>4. DOMAIN calls' = DOMAIN calls
    BY <2>2 DEF WentOn
  <2> QED BY <2>1, <2>3, <2>4, StayingPopup DEF PopupCall
<1>6. CASE Kill
  <2>1. calls' = <<>> /\ popup' = popup
    BY <1>6 DEF Kill
  <2> QED BY <2>1 DEF PopupInv
<1>7. CASE User \/ PopupRace
  BY <1>7, UserPopup, OtherUser, OtherPopup DEF User
<1> QED BY <1>1, <1>2, <1>3, <1>4, <1>5, <1>6, <1>7, CallsNext

----------------------------------------------------------------------------
(* Signed in.                                                              *)

\* A message that will show the popup authenticated when the API accepts its token.
Showing(c) == c.from = "popup" /\ (c.step = "me" \/ (c.type = "GET_ME" /\ c.step = "http" /\ c.pair # None))
NotShown == popup.screen # "authenticated" /\ \A i \in DOMAIN calls : ~Showing(calls[i])
\* Without tokens, now or once every write landed, no popup shows or will show the
\* authenticated view.
TokenInv == "crossed" \notin marks /\ LastWrite = None => NotShown
SignedInInv == TypeInv /\ StoreInv /\ StepInv /\ PopupInv /\ TokenInv

\* An answer shows the authenticated view only if it is "ok" and of a message that may.
LEMMA ShownByAnswer ==
  ASSUME TypeInv, NEW i \in DOMAIN calls, NEW res, Respond(i, res), popup.screen # "authenticated",
         res # "ok" \/ calls[i].from # "popup" \/ calls[i].type \notin SignIns \cup {"GET_ME"}
  PROVE  popup'.screen # "authenticated"
<1>1. CASE calls[i].from # "popup"
  BY <1>1 DEF Respond, uis, OptionsTakes, PageTakes
<1>2. CASE calls[i].from = "popup"
  <2>1. PopupTakes(calls[i], res, RemoveAt(calls, i))
    BY <1>2 DEF Respond
  <2>2. CASE calls[i].type \in {"REFRESH", "LOGOUT"}
    BY <2>1, <2>2 DEF PopupTakes, SignIns
  <2>3. CASE calls[i].type = "GET_ME"
    <3>1. res # "ok" /\ popup' = [popup EXCEPT !.screen = IF res = "ok" THEN "authenticated" ELSE "login"]
      BY <1>2, <2>1, <2>3 DEF PopupTakes, SignIns
    <3> QED BY <3>1 DEF TypeInv, TypeOK
  <2>4. CASE calls[i].type \in SignIns
    <3>1. res # "ok" /\ popup' = [screen |-> CASE res = "ok" -> "authenticated"
                                    [] res = "mfa" -> "mfa"
                                    [] OTHER -> popup.screen,
                       pending |-> popup.pending \ {calls[i].type}]
      BY <1>2, <2>1, <2>4 DEF PopupTakes, SignIns
    <3>2. popup'.screen = "mfa" \/ popup'.screen = popup.screen
      BY <3>1
    <3> QED BY <3>2
  <2> QED BY <2>1, <2>2, <2>3, <2>4 DEF PopupTakes
<1> QED BY <1>1, <1>2

\* While no token is kept, no answer shows the popup authenticated.
LEMMA RepliesNotShown ==
  ASSUME TypeInv, StepInv, NotShown, LastWrite' = None, NEW i \in DOMAIN calls, Replies(i)
  PROVE  NotShown'
<1>1. PICK res : /\ Respond(i, res)
                 /\ res = "ok" => \/ SignInAnswered(i) \/ ReadAnswered(i) \/ ShotAnswered(i)
                                  \/ Cleared(i) /\ calls[i].type = "LOGOUT"
                                  \/ AfterRefresh(i)
  BY DEF Replies
<1>2. Drop(i)
  BY <1>1, RespondFacts DEF TypeInv
<1>3. \A j \in DOMAIN calls' : ~Showing(calls'[j])
  BY <1>2 DEF Drop, Heir, Quiet, NotShown, Showing
<1>4. popup.screen # "authenticated" /\ ~Showing(calls[i])
  BY DEF NotShown
<1>5. popup'.screen # "authenticated"
  <2>1. CASE res # "ok" \/ calls[i].from # "popup" \/ calls[i].type \notin SignIns \cup {"GET_ME"}
    BY <1>1, <1>4, <2>1, ShownByAnswer
  <2>2. CASE SignInAnswered(i)
    <3>1. issued + 1 \in Pairs /\ writes' = Append(writes, issued + 1)
      BY <2>2, PlanFacts DEF SignInAnswered, SetTokens, TypeInv, TypeOK, Pairs
    <3>2. LastWrite' = issued + 1
      BY <3>1, AppendLast
    <3> QED BY <3>1, <3>2, NoneFacts
  <2>3. CASE ReadAnswered(i) /\ ~Works(calls[i].pair)
    <3>1. Respond(i, "refused")
      BY <2>3 DEF ReadAnswered
    <3> QED BY <1>4, <3>1, ShownByAnswer
  <2>4. CASE ReadAnswered(i) /\ Works(calls[i].pair) /\ calls[i].from = "popup" /\ calls[i].type \in SignIns \cup {"GET_ME"}
    <3>1. calls[i].pair # None
      BY <2>4 DEF Works
    <3>2. calls[i].step = "me" \/ (calls[i].type = "GET_ME" /\ calls[i].step = "http")
      BY <2>4 DEF ReadAnswered, SignIns
    <3> QED BY <1>4, <2>4, <3>1, <3>2 DEF Showing
  <2>5. CASE calls[i].type \in {"LOGOUT", "SHOOT_JOB"}
    BY <2>1, <2>5 DEF SignIns
  <2>6. CASE AfterRefresh(i) /\ calls[i].step # "refreshed"
    <3>1. Respond(i, "refused")
      BY <2>6 DEF AfterRefresh
    <3> QED BY <1>4, <3>1, ShownByAnswer
  <2>7. CASE calls[i].step = "refreshed"
    <3>1. calls[i].type \in {"REFRESH", "SHOOT_JOB"}
      BY <2>7 DEF StepInv, StepSound
    <3> QED BY <2>1, <3>1 DEF SignIns
  <2> QED BY <1>1, <2>1, <2>2, <2>3, <2>4, <2>5, <2>6, <2>7 DEF ShotAnswered, At
<1> QED BY <1>3, <1>5 DEF NotShown

LEMMA UserNotShown ==
  ASSUME TypeInv, NotShown, User \/ PopupRace
  PROVE  NotShown'
<1>0. \A j \in DOMAIN calls : calls[j] \in Call
  BY DEF TypeInv, TypeOK
<1>1. \A j \in DOMAIN calls' : ~Showing(calls'[j])
  <2>1. ASSUME NEW client \in Clients, Left(client) PROVE \A j \in DOMAIN calls' : ~Showing(calls'[j])
    <3>1. \A j \in DOMAIN calls : [calls[j] EXCEPT !.from = "gone"].from = "gone"
      BY <1>0 DEF Call
    <3>2. \A j \in DOMAIN calls : ~Showing([calls[j] EXCEPT !.from = "gone"])
      BY <3>1 DEF Showing
    <3> QED BY <2>1, <3>2 DEF Left, NotShown
  <2>2. CASE calls' = calls
    BY <2>2 DEF NotShown
  <2>3. ASSUME NEW c \in Call, c.step = "posted", Grows(c) PROVE \A j \in DOMAIN calls' : ~Showing(calls'[j])
    <3>1. ~Showing(c)
      BY <2>3 DEF Showing
    <3> QED BY <2>3, <3>1 DEF Grows, NotShown
  <2> QED BY <2>1, <2>2, <2>3, UserCalls
<1>2. popup'.screen # "authenticated"
  <2>1. CASE OpenPopup \/ \E type \in SignIns : Submit(type)
    BY <2>1 DEF OpenPopup, Submit, NotShown, TypeInv, TypeOK
  <2>2. CASE ClosePopup \/ SwitchLinks \/ PopupLogout
    BY <2>2 DEF ClosePopup, ClosedPopup, SwitchLinks, PopupLogout, NotShown
  <2>3. CASE popup' = popup
    BY <2>3 DEF NotShown
  <2> QED BY <2>1, <2>2, <2>3, OtherUser DEF User
<1> QED BY <1>1, <1>2 DEF NotShown

\* While no token is kept, no step shows the popup authenticated.
LEMMA StaysNotShown ==
  ASSUME TypeInv, StoreInv, StepInv, NotShown, LastWrite = None, LastWrite' = None, [Next]_vars
  PROVE  NotShown'
<1>0. calls \in Seq(Call)
  BY DEF TypeInv, TypeOK
<1>1. CASE UNCHANGED <<calls, uis>>
  BY <1>1 DEF uis, NotShown, Showing
<1>2. ASSUME NEW i \in DOMAIN calls, Moved(i) PROVE NotShown'
  <2>1. PICK c \in Call : /\ Moves(i, c) /\ popup' = popup
                          /\ \/ c.step = "refreshing"
                             \/ c.step = "http" /\ c.pair = cache /\ up
                             \/ c.step = "me" /\ SignInAnswered(i)
                             \/ c.step = "served"
    BY <1>2 DEF Moved
  <2>2. ~SignInAnswered(i)
    <3> SUFFICES ASSUME SignInAnswered(i) PROVE FALSE
      OBVIOUS
    <3>1. issued + 1 \in Pairs /\ writes' = Append(writes, issued + 1)
      BY PlanFacts DEF SignInAnswered, SetTokens, TypeInv, TypeOK, Pairs
    <3>2. LastWrite' = issued + 1
      BY <3>1, AppendLast
    <3> QED BY <3>1, <3>2, NoneFacts
  <2>3. ~Showing(c)
    BY <2>1, <2>2 DEF Showing, StoreInv
  <2> QED BY <2>1, <2>3 DEF Moves, Sets, NotShown
<1>3. ASSUME NEW i \in DOMAIN calls, HandleOpenPopup(i) PROVE NotShown'
  <2>1. Drop(i)
    BY <1>3, OpenPopupDrops
  <2>2. \A j \in DOMAIN calls' : ~Showing(calls'[j])
    BY <2>1 DEF Drop, Heir, Quiet, NotShown, Showing
  <2>3. popup'.screen = "loading" \/ popup' = popup
    BY <1>3 DEF HandleOpenPopup, ClosedPopup
  <2> QED BY <2>2, <2>3 DEF NotShown
<1>4. CASE RefreshArrives
  <2>1. refresh.reply \in Pairs \cup {None} /\ popup' = popup
    BY <1>4 DEF RefreshArrives, TypeInv, TypeOK, uis
  <2>2. WentOn(refresh.reply)
    BY <1>0, <1>4, <2>1, GoOnFacts DEF RefreshArrives
  <2>3. \A j \in DOMAIN calls : calls[j] \in Call /\ ~Showing(calls[j])
    BY <1>0 DEF NotShown
  <2>4. \A j \in DOMAIN calls : ~Showing(GoOn(calls[j], refresh.reply))
    BY <2>3 DEF GoOn, Showing, Call
  <2> QED BY <2>1, <2>2, <2>4 DEF WentOn, NotShown
<1>5. CASE Kill
  <2>1. calls' = <<>> /\ popup' = popup
    BY <1>5 DEF Kill
  <2> QED BY <2>1 DEF NotShown
<1> QED BY <1>1, <1>2, <1>3, <1>4, <1>5, CallsNext, RepliesNotShown, UserNotShown

\* Either the popup opens, or a mark for crossed tokens stays.
LEMMA MarksStay ==
  ASSUME TypeInv, [Next]_vars
  PROVE  \/ marks \subseteq marks'
         \/ OpenPopup
         \/ \E i \in DOMAIN calls : HandleOpenPopup(i) /\ popup.screen = "closed"
<1>1. CASE UNCHANGED marks
  BY <1>1
<1>2. ASSUME NEW i \in DOMAIN calls, Marked(i) \/ Cleared(i) PROVE marks \subseteq marks'
  BY <1>2 DEF Marked, Cleared
<1>3. ASSUME NEW i \in DOMAIN calls, Handle(i), ~(HandleOpenPopup(i) /\ popup.screen = "closed")
      PROVE  marks \subseteq marks'
  <2>1. ASSUME HandleOpenPopup(i), popup.screen # "closed" PROVE marks \subseteq marks'
    <3>1. marks' = marks \ MarkIf(FALSE, "crossed")
      BY <2>1 DEF HandleOpenPopup
    <3>2. MarkIf(FALSE, "crossed") = {}
      BY DEF MarkIf
    <3> QED BY <3>1, <3>2
  <2>2. ASSUME HandleRefresh(i) \/ HandleByRequest(i) PROVE marks \subseteq marks'
    BY <2>2 DEF HandleRefresh, HandleByRequest, history
  <2>3. ASSUME HandleUnauthorized(i) \/ HandleLogoutLocally(i) PROVE marks \subseteq marks'
    BY <1>2, <2>3 DEF HandleUnauthorized, HandleLogoutLocally
  <2> QED BY <1>3, <2>1, <2>2, <2>3 DEF Handle
<1>4. ASSUME NEW i \in DOMAIN calls, Answered(i) PROVE marks \subseteq marks'
  BY <1>2, <1>4 DEF Answered, SignInAnswered, SignInRefused, MfaAsked, ReadAnswered, ShotAnswered, ShotUnauthorized,
     LogoutServed, LogoutEnds, history
<1>5. ASSUME NEW i \in DOMAIN calls, AfterRefresh(i) \/ Lost(i) PROVE marks \subseteq marks'
  BY <1>2, <1>5 DEF AfterRefresh, Lost, RequestFails, history
<1>6. CASE UNCHANGED vars
  BY <1>6 DEF vars, history
<1>7. CASE RefreshServed \/ RefreshArrives \/ Wake \/ WriteLands \/ Alarm \/ \E p \in Pairs : TokensEnd(p)
  BY <1>7 DEF RefreshServed, RefreshArrives, Wake, WriteLands, Alarm, TokensEnd, history
<1>8. CASE Kill
  BY <1>8 DEF Kill
<1>9. CASE (User /\ ~OpenPopup) \/ PopupRace
  BY <1>9 DEF User, PopupRace, ClosePopup, SwitchLinks, PopupLogout, Submit, OpenOptions, CloseOptions,
     OptionsLogout, SwitchOrg, OpenPage, ClosePage, ClickShoot, ShowModal
<1> QED BY <1>3, <1>4, <1>5, <1>6, <1>7, <1>8, <1>9 DEF Next, Progress

LEMMA OpensNotShown ==
  ASSUME TypeInv, PopupInv, OpenPopup \/ \E i \in DOMAIN calls : HandleOpenPopup(i) /\ popup.screen = "closed"
  PROVE  NotShown'
<1>0. calls \in Seq(Call)
  BY DEF TypeInv, TypeOK
<1>1. \A j \in DOMAIN calls : ~Showing(calls[j])
  BY DEF OpenPopup, PopupInv, PopupCall, Showing
<1>2. CASE OpenPopup
  <2> DEFINE c == Post("REFRESH", "popup", None)
  <2>1. c \in Call /\ ~Showing(c)
    BY Names DEF Post, Call, Steps, Showing
  <2>2. calls' = Append(calls, c) /\ popup'.screen = "loading"
    BY <1>2 DEF OpenPopup, Sends, TypeInv, TypeOK
  <2> HIDE DEF c
  <2>3. Grows(c)
    BY <1>0, <2>1, <2>2, GrowsFacts
  <2> QED BY <1>1, <2>1, <2>2, <2>3 DEF Grows, NotShown
<1>3. ASSUME NEW i \in DOMAIN calls, HandleOpenPopup(i), popup.screen = "closed" PROVE NotShown'
  <2>1. Drop(i)
    BY <1>3, OpenPopupDrops
  <2>2. \A j \in DOMAIN calls' : ~Showing(calls'[j])
    BY <1>1, <2>1 DEF Drop, Heir, Quiet, Showing
  <2>3. popup'.screen = "loading" \/ popup' = popup
    BY <1>3 DEF HandleOpenPopup, ClosedPopup
  <2> QED BY <1>3, <2>2, <2>3 DEF NotShown
<1> QED BY <1>2, <1>3

\* A logout from the popup leaves it on the login form.
LEMMA ClearedNotShown ==
  ASSUME TypeInv, StepInv, PopupInv, "crossed" \notin marks', NEW i \in DOMAIN calls, Cleared(i), calls[i].type = "LOGOUT"
  PROVE  NotShown'
<1>1. calls[i].from = "popup" /\ ~SignInUnderWay({"me"}) /\ Respond(i, "ok")
  BY DEF Cleared, MarkIf
<1>2. popup'.screen = "login"
  BY <1>1 DEF Respond, PopupTakes, SignIns
<1>3. Drop(i)
  BY <1>1, RespondFacts DEF TypeInv
<1>4. \A j \in DOMAIN calls : calls[j].step # "me"
  BY <1>1 DEF SignInUnderWay, Range, StepInv, StepSound
<1>5. \A j \in DOMAIN calls : ~FormCall(calls[j])
  BY <1>1 DEF PopupInv, PopupCall, FormCall
<1>6. \A j \in DOMAIN calls : ~Showing(calls[j])
  BY <1>4, <1>5 DEF Showing, FormCall
<1>7. \A j \in DOMAIN calls' : ~Showing(calls'[j])
  BY <1>3, <1>6 DEF Drop, Heir, Quiet, Showing
<1> QED BY <1>2, <1>7 DEF NotShown

LEMMA TokenStep ==
  ASSUME SignedInInv, [Next]_vars
  PROVE  TokenInv'
<1>0. TypeInv /\ StoreInv /\ StepInv /\ PopupInv /\ TokenInv
  BY DEF SignedInInv
<1> SUFFICES ASSUME "crossed" \notin marks', LastWrite' = None PROVE NotShown'
  BY DEF TokenInv
<1>1. CASE ~(marks \subseteq marks')
  BY <1>0, <1>1, MarksStay, OpensNotShown
<1>2. CASE marks \subseteq marks' /\ LastWrite = None
  <2>1. NotShown
    BY <1>0, <1>2 DEF TokenInv
  <2> QED BY <1>0, <1>2, <2>1, StaysNotShown
<1>3. CASE LastWrite # None
  <2>1. CASE UNCHANGED store
    BY <1>3, <2>1 DEF store, LastWrite
  <2>2. ASSUME NEW p \in Pairs, SetTokens(p) PROVE FALSE
    BY <1>0, <2>2, AppendLast, NoneFacts DEF SetTokens
  <2>3. ASSUME NEW i \in DOMAIN calls, Cleared(i), calls[i].type = "LOGOUT" PROVE NotShown'
    BY <1>0, <2>3, ClearedNotShown
  <2>4. CASE WriteLands
    BY <1>0, <1>3, <2>4, LandLast
  <2>5. CASE Kill
    <3>1. writes = <<>> /\ writes' = <<>> /\ storage' = storage
      BY <2>5 DEF Kill, MarkIf
    <3> QED BY <1>3, <3>1 DEF LastWrite
  <2>6. CASE Wake \/ Alarm
    BY <1>3, <2>6 DEF Wake, Alarm, LastWrite
  <2> QED BY <1>0, <2>1, <2>2, <2>3, <2>4, <2>5, <2>6, StoreMoves
<1> QED BY <1>1, <1>2, <1>3

\* The popup shows the authenticated view only while the worker has tokens, unless they
\* were cleared from another view, during another sign-in, or lost with the worker.
THEOREM SignedInHolds == Spec => []SignedInMeansTokens
<1>1. Init => SignedInInv
  <2> SUFFICES ASSUME Init PROVE SignedInInv
    OBVIOUS
  <2>1. calls = <<>> /\ popup.screen = "closed" /\ up = FALSE /\ cache = None /\ writes = <<>> /\ refresh = None
    BY DEF Init, ClosedPopup
  <2>2. DOMAIN calls = {}
    BY <2>1
  <2>3. StoreInv /\ StepInv /\ TokenInv
    BY <2>1, <2>2 DEF StoreInv, StepInv, TokenInv, NotShown
  <2>4. PopupInv
    BY <2>1, <2>2 DEF PopupInv
  <2> QED BY <2>3, <2>4, TypeInit DEF SignedInInv
<1>2. SignedInInv /\ [Next]_vars => SignedInInv'
  BY TypeStep, StoreStep, StepStep, PopupStep, TokenStep DEF SignedInInv
<1>3. SignedInInv => SignedInMeansTokens
  BY DEF SignedInInv, StoreInv, TokenInv, NotShown, SignedInMeansTokens
<1> QED BY <1>1, <1>2, <1>3, PTL DEF Spec

----------------------------------------------------------------------------
(* The organization of the options page.                                   *)

\* Nothing was answered out of order or lost, as far as the options page is concerned.
InOrder == marks \cap {"overtaken", "killed"} = {}
NoOrgCall == \A i \in DOMAIN calls : ~OrgCall(calls[i])
LastOrgCall(i) == OrgCall(calls[i]) /\ \A j \in DOMAIN calls : j > i => ~OrgCall(calls[j])
\* The newest request is for the active organization; without one, that is what is shown.
OrgsAgree ==
  options.screen = "authenticated" =>
    /\ NoOrgCall => options.error \/ options.shown = options.active
    /\ \A i \in DOMAIN calls : LastOrgCall(i) => calls[i].arg = options.active
OrgInv == InOrder => OrgsAgree
OrgShownInv == TypeInv /\ StepInv /\ OrgInv

\* The requests of the options page stay the same and in their order.
KeepsOrgs(f) ==
  /\ \A j \in DOMAIN calls' : OrgCall(calls'[j]) =>
       f[j] \in DOMAIN calls /\ OrgCall(calls[f[j]]) /\ calls'[j].arg = calls[f[j]].arg
  /\ \A k \in DOMAIN calls : OrgCall(calls[k]) => \E j \in DOMAIN calls' : f[j] = k /\ OrgCall(calls'[j])
  /\ \A j, k \in DOMAIN calls' : j <= k => f[j] <= f[k]
  /\ \A j \in DOMAIN calls' : f[j] \in Nat

LEMMA KeptOrgs ==
  ASSUME TypeInv, calls' \in Seq(Call), OrgsAgree, options' = options, NEW f, KeepsOrgs(f)
  PROVE  OrgsAgree'
<1>0. DOMAIN calls' \subseteq Nat /\ DOMAIN calls \subseteq Nat
  BY DEF TypeInv, TypeOK
<1>1. NoOrgCall' => NoOrgCall
  BY DEF KeepsOrgs, NoOrgCall
<1>2. ASSUME NEW j \in DOMAIN calls', LastOrgCall(j)'
      PROVE  f[j] \in DOMAIN calls /\ LastOrgCall(f[j]) /\ calls'[j].arg = calls[f[j]].arg
  <2>1. OrgCall(calls'[j])
    BY <1>2 DEF LastOrgCall
  <2>2. f[j] \in DOMAIN calls /\ OrgCall(calls[f[j]]) /\ calls'[j].arg = calls[f[j]].arg
    BY <2>1 DEF KeepsOrgs
  <2>3. ASSUME NEW k \in DOMAIN calls, k > f[j], OrgCall(calls[k]) PROVE FALSE
    <3>1. PICK m \in DOMAIN calls' : f[m] = k /\ OrgCall(calls'[m])
      BY <2>3 DEF KeepsOrgs
    <3>2. ~(m > j)
      BY <1>2, <3>1 DEF LastOrgCall
    <3>3. m <= j
      BY <1>0, <3>2
    <3>4. f[m] <= f[j] /\ f[m] \in Nat /\ f[j] \in Nat
      BY <3>3 DEF KeepsOrgs
    <3> QED BY <2>3, <3>1, <3>4
  <2> QED BY <2>2, <2>3 DEF LastOrgCall
<1> QED BY <1>1, <1>2 DEF OrgsAgree

LEMMA StayingOrgs ==
  ASSUME TypeInv, calls' \in Seq(Call), OrgsAgree, options' = options,
         \A j \in DOMAIN calls : j \in DOMAIN calls',
         \A j \in DOMAIN calls' : OrgCall(calls'[j]) => j \in DOMAIN calls,
         \A j \in DOMAIN calls : (OrgCall(calls'[j]) <=> OrgCall(calls[j])) /\ (OrgCall(calls[j]) => calls'[j].arg = calls[j].arg)
  PROVE  OrgsAgree'
<1> DEFINE f == [j \in DOMAIN calls' |-> j]
<1>1. \A j \in DOMAIN calls' : f[j] = j
  OBVIOUS
<1>2. DOMAIN calls' \subseteq Nat
  OBVIOUS
<1> HIDE DEF f
<1>3. KeepsOrgs(f)
  BY <1>1, <1>2 DEF KeepsOrgs
<1> QED BY <1>3, KeptOrgs

LEMMA OldOrder ==
  ASSUME NEW i \in Nat, NEW j \in Nat, NEW k \in Nat, j <= k
  PROVE  Old(i, j) <= Old(i, k) /\ Old(i, j) \in Nat
  BY DEF Old

LEMMA DropOrgs ==
  ASSUME TypeInv, OrgsAgree, options' = options, NEW i \in DOMAIN calls, Drop(i), ~OrgCall(calls[i]),
         \A j \in DOMAIN calls' : OrgCall(calls'[j]) => Heir(i, j)
  PROVE  OrgsAgree'
<1>0. calls' \in Seq(Call) /\ DOMAIN calls' \subseteq Nat /\ i \in Nat
  BY DEF Drop, TypeInv, TypeOK
<1> DEFINE f == [j \in DOMAIN calls' |-> Old(i, j)]
<1>1. \A j \in DOMAIN calls' : f[j] = Old(i, j)
  OBVIOUS
<1> HIDE DEF f
<1>2. \A j \in DOMAIN calls' : f[j] \in Nat
  BY <1>0, <1>1 DEF Old
<1>3. \A j, k \in DOMAIN calls' : j <= k => f[j] <= f[k]
  <2> SUFFICES ASSUME NEW j \in DOMAIN calls', NEW k \in DOMAIN calls', j <= k PROVE f[j] <= f[k]
    OBVIOUS
  <2>1. j \in Nat /\ k \in Nat
    BY <1>0
  <2>2. Old(i, j) <= Old(i, k)
    BY <1>0, <2>1, OldOrder
  <2> QED BY <1>1, <2>2
<1>4. \A k \in DOMAIN calls : OrgCall(calls[k]) => \E j \in DOMAIN calls' : f[j] = k /\ OrgCall(calls'[j])
  <2> SUFFICES ASSUME NEW k \in DOMAIN calls, OrgCall(calls[k]) PROVE \E j \in DOMAIN calls' : f[j] = k /\ OrgCall(calls'[j])
    OBVIOUS
  <2>1. PICK j \in DOMAIN calls' : Heir(i, j) /\ Old(i, j) = k
    BY DEF Drop
  <2> QED BY <1>1, <2>1 DEF Heir
<1>5. \A j \in DOMAIN calls' : OrgCall(calls'[j]) =>
       f[j] \in DOMAIN calls /\ OrgCall(calls[f[j]]) /\ calls'[j].arg = calls[f[j]].arg
  BY <1>1 DEF Heir
<1>6. KeepsOrgs(f)
  BY <1>2, <1>3, <1>4, <1>5 DEF KeepsOrgs
<1> QED BY <1>0, <1>6, KeptOrgs

\* A request for another organization is the newest.
LEMMA NewOrgs ==
  ASSUME calls' \in Seq(Call), NEW n \in DOMAIN calls', OrgCall(calls'[n]), calls'[n].arg = options'.active,
         \A j \in DOMAIN calls' : j <= n
  PROVE  OrgsAgree'
<1>1. ~NoOrgCall'
  BY DEF NoOrgCall
<1>2. \A j \in DOMAIN calls' : LastOrgCall(j)' => j = n
  <2> SUFFICES ASSUME NEW j \in DOMAIN calls', LastOrgCall(j)', j # n PROVE FALSE
    OBVIOUS
  <2>1. DOMAIN calls' \subseteq Nat
    OBVIOUS
  <2>2. n > j
    BY <2>1
  <2> QED BY <2>2 DEF LastOrgCall
<1> QED BY <1>1, <1>2 DEF OrgsAgree

\* The answer to the earliest request of the options page.
LEMMA AnsweredOrgs ==
  ASSUME TypeInv, OrgsAgree, NEW i \in DOMAIN calls, NEW res, OrgCall(calls[i]), ~Overtakes(i),
         OptionsTakes(calls[i], res, RemoveAt(calls, i)), Drop(i)
  PROVE  OrgsAgree'
<1>0. calls' \in Seq(Call) /\ DOMAIN calls' \subseteq Nat /\ i \in Nat /\ DOMAIN calls \subseteq Nat
  BY DEF Drop, TypeInv, TypeOK
<1>1. options' = IF res = "ok" THEN [options EXCEPT !.shown = calls[i].arg, !.loading = FALSE]
                               ELSE [options EXCEPT !.error = TRUE, !.loading = FALSE]
  BY DEF OptionsTakes, OrgCall
<1>2. /\ options'.screen = options.screen /\ options'.active = options.active
      /\ options'.error \/ options'.shown = calls[i].arg
  BY <1>1 DEF TypeInv, TypeOK
<1> SUFFICES ASSUME options.screen = "authenticated"
             PROVE  /\ NoOrgCall' => options'.error \/ options'.shown = options'.active
                    /\ \A j \in DOMAIN calls' : LastOrgCall(j)' => calls'[j].arg = options'.active
  BY <1>2 DEF OrgsAgree
<1>3. \A k \in DOMAIN calls : OrgCall(calls[k]) => k >= i
  <2> SUFFICES ASSUME NEW k \in DOMAIN calls, OrgCall(calls[k]), k < i PROVE FALSE
    BY <1>0
  <2>1. k \in 1..(i - 1)
    BY <1>0 DEF TypeInv, TypeOK
  <2> QED BY <2>1 DEF Overtakes, OrgCall
<1>4. ASSUME NoOrgCall' PROVE LastOrgCall(i)
  <2>1. \A k \in DOMAIN calls \ {i} : ~OrgCall(calls[k])
    BY <1>4 DEF NoOrgCall, Drop, Heir
  <2> QED BY <1>0, <2>1 DEF LastOrgCall
<1>5. ASSUME NEW j \in DOMAIN calls', LastOrgCall(j)' PROVE calls'[j].arg = options'.active
  <2>1. OrgCall(calls'[j]) /\ \A m \in DOMAIN calls' : m > j => ~OrgCall(calls'[m])
    BY <1>5 DEF LastOrgCall
  <2>2. Heir(i, j)
    <3>1. calls' = RemoveAt(calls, i) \o <<>>
      BY DEF OptionsTakes, OrgCall, Send
    <3>2. PICK new \in Seq(Call) : Len(new) = 0 /\ new = <<>>
      <4>1. <<>> \in Seq(Call) /\ Len(<<>>) = 0
        OBVIOUS
      <4> QED BY <4>1
    <3>3. Len(new) \in {0, 1} /\ Len(new) # 1 /\ calls' = RemoveAt(calls, i) \o new
      BY <3>1, <3>2
    <3>4. \A m \in DOMAIN calls' : Heir(i, m) \/ Len(new) = 1
      BY <3>3, DropFacts DEF TypeInv
    <3> QED BY <3>3, <3>4
  <2>3. ASSUME NEW k \in DOMAIN calls, k > Old(i, j), OrgCall(calls[k]) PROVE FALSE
    <3>1. Old(i, j) \in DOMAIN calls /\ OrgCall(calls[Old(i, j)]) /\ Old(i, j) # i
      BY <2>1, <2>2 DEF Heir
    <3>2. k # i
      BY <1>0, <1>3, <2>3, <3>1
    <3>3. PICK m \in DOMAIN calls' : Heir(i, m) /\ Old(i, m) = k
      BY <3>2 DEF Drop
    <3>4. ~(m > j)
      BY <2>1, <2>3, <3>3 DEF Heir
    <3>5. m \in Nat /\ j \in Nat /\ m <= j
      BY <1>0, <3>4
    <3>6. Old(i, m) <= Old(i, j)
      BY <1>0, <3>5, OldOrder
    <3> QED BY <1>0, <2>3, <3>1, <3>3, <3>6
  <2>4. LastOrgCall(Old(i, j)) /\ Old(i, j) \in DOMAIN calls /\ calls'[j] = calls[Old(i, j)]
    BY <2>1, <2>2, <2>3 DEF LastOrgCall, Heir
  <2>5. calls[Old(i, j)].arg = options.active
    BY <2>4 DEF OrgsAgree
  <2> QED BY <1>2, <2>4, <2>5
<1>6. NoOrgCall' => calls[i].arg = options.active
  BY <1>4 DEF OrgsAgree
<1> QED BY <1>2, <1>5, <1>6

\* A refused, accepted or local answer to any message, in order.
LEMMA RespondOrgs ==
  ASSUME TypeInv, OrgsAgree, NEW i \in DOMAIN calls, NEW res, Respond(i, res), OrgCall(calls[i]) => ~Overtakes(i)
  PROVE  OrgsAgree'
<1>0. calls \in Seq(Call)
  BY DEF TypeInv, TypeOK
<1>1. Drop(i) /\ \A j \in DOMAIN calls' : Heir(i, j) \/ (j = Len(calls) /\ Sent(i, calls'[j]))
  BY RespondFacts DEF TypeInv
<1>2. CASE calls[i].from # "options"
  <2>1. options' = options
    BY <1>2 DEF Respond, uis, PopupTakes, PageTakes
  <2>2. \A j \in DOMAIN calls' : OrgCall(calls'[j]) => Heir(i, j)
    BY <1>1, <1>2 DEF Sent, OrgCall
  <2>3. ~OrgCall(calls[i])
    BY <1>2 DEF OrgCall
  <2> QED BY <1>1, <2>1, <2>2, <2>3, DropOrgs
<1>3. CASE calls[i].from = "options"
  <2>0. OptionsTakes(calls[i], res, RemoveAt(calls, i))
    BY <1>3 DEF Respond
  <2>1. CASE calls[i].type = "REFRESH"
    <3>1. options' = options /\ calls' = RemoveAt(calls, i) \o <<Post("GET_ME", "options", None)>>
      BY <2>0, <2>1 DEF OptionsTakes, Send
    <3> DEFINE p == Post("GET_ME", "options", None)
    <3>2. p \in Call /\ Quiet(p) /\ ~OrgCall(p)
      BY Names DEF Post, Call, Steps, Quiet, OrgCall
    <3>3. calls' = RemoveAt(calls, i) \o <<p>>
      BY <3>1
    <3> HIDE DEF p
    <3>4. PICK new \in Seq(Call) : Len(new) = 1 /\ new[1] = p /\ new = <<p>>
      <4>1. <<p>> \in Seq(Call) /\ Len(<<p>>) = 1 /\ <<p>>[1] = p
        BY <3>2
      <4> QED BY <4>1
    <3>5. Len(new) \in {0, 1} /\ Quiet(new[1]) /\ calls' = RemoveAt(calls, i) \o new
      BY <3>2, <3>3, <3>4
    <3>6. \A j \in DOMAIN calls' : Heir(i, j) \/ calls'[j] = new[1]
      BY <3>5, DropFacts DEF TypeInv
    <3>7. \A j \in DOMAIN calls' : OrgCall(calls'[j]) => Heir(i, j)
      BY <3>2, <3>4, <3>6
    <3>8. ~OrgCall(calls[i])
      BY <2>1 DEF OrgCall
    <3> QED BY <1>1, <3>1, <3>7, <3>8, DropOrgs
  <2>2. CASE calls[i].type = "GET_ME" /\ res = "ok"
    <3> DEFINE o == IF orgStore # None THEN orgStore ELSE FirstOrg
               p == Post("API_REQUEST", "options", o)
    <3>1. o \in Orgs
      BY FirstOrgExists DEF TypeInv, TypeOK
    <3>2. o \in Nat
      BY <3>1, ExtensionAssumption
    <3>3. options' = Fetching(o) /\ calls' = RemoveAt(calls, i) \o <<p>>
      BY <2>0, <2>2 DEF OptionsTakes, Send
    <3> HIDE DEF o
    <3>4. p \in Call /\ Quiet(p) /\ OrgCall(p) /\ p.arg = o
      BY <3>2, Names DEF Post, Call, Steps, Quiet, OrgCall
    <3>5. options'.active = o
      BY <3>3 DEF TypeInv, TypeOK, Fetching
    <3> HIDE DEF p
    <3>6. PICK new \in Seq(Call) : Len(new) = 1 /\ new[1] = p /\ new = <<p>>
      <4>1. <<p>> \in Seq(Call) /\ Len(<<p>>) = 1 /\ <<p>>[1] = p
        BY <3>4
      <4> QED BY <4>1
    <3>7. Len(new) \in {0, 1} /\ Quiet(new[1]) /\ calls' = RemoveAt(calls, i) \o new
      BY <3>3, <3>4, <3>6
    <3>8. Len(calls') = Len(calls) /\ calls'[Len(calls)] = p
      BY <3>6, <3>7, DropFacts DEF TypeInv
    <3>9. calls' \in Seq(Call)
      BY <1>1 DEF Drop
    <3>10. PICK n \in Nat : n = Len(calls)
      BY <1>0
    <3>11. n \in DOMAIN calls' /\ \A j \in DOMAIN calls' : j <= n
      <4>1. n >= 1
        BY <1>0, <3>10
      <4>2. DOMAIN calls' = 1..n
        BY <3>8, <3>9, <3>10
      <4> QED BY <4>1, <4>2
    <3> QED BY <3>4, <3>5, <3>8, <3>9, <3>10, <3>11, NewOrgs
  <2>3. CASE calls[i].type = "API_REQUEST"
    <3>1. OrgCall(calls[i])
      BY <1>3, <2>3 DEF OrgCall
    <3> QED BY <1>1, <2>0, <3>1, AnsweredOrgs
  <2>4. CASE (calls[i].type = "GET_ME" /\ res # "ok") \/ calls[i].type = "LOGOUT"
    <3>1. options'.screen = "unauthenticated"
      BY <2>0, <2>4 DEF OptionsTakes, TypeInv, TypeOK
    <3> QED BY <3>1 DEF OrgsAgree
  <2> QED BY <2>0, <2>1, <2>2, <2>3, <2>4 DEF OptionsTakes
<1> QED BY <1>2, <1>3

\* What is not done in the options page leaves its requests alone.
LEMMA OtherOrgs ==
  ASSUME TypeInv, OrgsAgree, options' = options,
         \/ \E client \in {"popup", "page"} : Left(client)
         \/ calls' = calls
         \/ \E c \in Call : Grows(c) /\ ~OrgCall(c)
  PROVE  OrgsAgree'
<1>0. calls \in Seq(Call) /\ \A j \in DOMAIN calls : calls[j] \in Call
  BY DEF TypeInv, TypeOK
<1>1. ASSUME NEW client \in {"popup", "page"}, Left(client) PROVE OrgsAgree'
  <2>1. \A j \in DOMAIN calls : [calls[j] EXCEPT !.from = "gone"].from = "gone"
    BY <1>0 DEF Call
  <2>2. \A j \in DOMAIN calls : (OrgCall(calls'[j]) <=> OrgCall(calls[j])) /\ (OrgCall(calls[j]) => calls'[j].arg = calls[j].arg)
    BY <1>1, <2>1 DEF Left, OrgCall
  <2>3. calls' \in Seq(Call) /\ DOMAIN calls' = DOMAIN calls
    BY <1>1 DEF Left
  <2> QED BY <2>2, <2>3, StayingOrgs
<1>2. CASE calls' = calls
  BY <1>0, <1>2, StayingOrgs
<1>3. ASSUME NEW c \in Call, Grows(c), ~OrgCall(c) PROVE OrgsAgree'
  <2>1. calls' \in Seq(Call) /\ \A j \in DOMAIN calls : j \in DOMAIN calls' /\ calls'[j] = calls[j]
    BY <1>3 DEF Grows
  <2>2. \A j \in DOMAIN calls' : OrgCall(calls'[j]) => j \in DOMAIN calls
    BY <1>3 DEF Grows
  <2> QED BY <2>1, <2>2, StayingOrgs
<1> QED BY <1>1, <1>2, <1>3

LEMMA UserOrgs ==
  ASSUME TypeInv, OrgsAgree, User \/ PopupRace
  PROVE  OrgsAgree'
<1>0. calls \in Seq(Call)
  BY DEF TypeInv, TypeOK
<1>1. CASE OpenOptions \/ CloseOptions
  <2>1. options'.screen # "authenticated"
    BY <1>1 DEF OpenOptions, CloseOptions, ClosedOptions, TypeInv, TypeOK
  <2> QED BY <2>1 DEF OrgsAgree
<1>2. ASSUME NEW o \in Orgs, SwitchOrg(o) PROVE OrgsAgree'
  <2> DEFINE c == Post("API_REQUEST", "options", o)
  <2>1. o \in Nat
    BY ExtensionAssumption
  <2>2. c \in Call /\ OrgCall(c) /\ c.arg = o
    BY <2>1, Names DEF Post, Call, Steps, OrgCall
  <2>3. calls' = Append(calls, c) /\ options'.active = o
    BY <1>2 DEF SwitchOrg, Sends, Fetching, TypeInv, TypeOK
  <2> HIDE DEF c
  <2>4. PICK n \in Nat : n = Len(calls)
    BY <1>0
  <2>5. calls' \in Seq(Call) /\ Len(calls') = n + 1 /\ calls'[n + 1] = c
    BY <1>0, <2>2, <2>3, <2>4, AppendProperties
  <2>6. n + 1 \in DOMAIN calls' /\ \A j \in DOMAIN calls' : j <= n + 1
    <3>1. DOMAIN calls' = 1..(n + 1)
      BY <2>5
    <3> QED BY <2>4, <3>1
  <2> QED BY <2>2, <2>3, <2>5, <2>6, NewOrgs
<1>3. ASSUME NEW type \in Types, NEW from \in Clients, NEW arg \in Nat \cup {None}, Sends(type, from, arg),
             from # "options" \/ type # "API_REQUEST"
      PROVE  \E c \in Call : Grows(c) /\ ~OrgCall(c)
  <2> DEFINE c == Post(type, from, arg)
  <2>1. c \in Call /\ ~OrgCall(c)
    BY <1>3, PostTyped DEF OrgCall
  <2>2. calls' = Append(calls, c)
    BY <1>3 DEF Sends
  <2> HIDE DEF c
  <2> QED BY <1>0, <2>1, <2>2, GrowsFacts
<1>4. CASE OpenPopup \/ PopupLogout \/ OpenPage
  <2>1. options' = options
    BY <1>4 DEF OpenPopup, PopupLogout, OpenPage, Only
  <2>2. Sends("REFRESH", "popup", None) \/ Sends("LOGOUT", "popup", None) \/ Sends("API_REQUEST", "page", None)
    BY <1>4 DEF OpenPopup, PopupLogout, OpenPage
  <2>3. \E c \in Call : Grows(c) /\ ~OrgCall(c)
    BY <1>3, <2>2, Names
  <2> QED BY <2>1, <2>3, OtherOrgs
<1>5. CASE OptionsLogout
  <2>1. options' = options /\ Sends("LOGOUT", "options", None)
    BY <1>5 DEF OptionsLogout
  <2>2. \E c \in Call : Grows(c) /\ ~OrgCall(c)
    BY <1>3, <2>1, Names
  <2> QED BY <2>1, <2>2, OtherOrgs
<1>6. ASSUME NEW type \in SignIns, Submit(type) PROVE OrgsAgree'
  <2>1. options' = options /\ Sends(type, "popup", None)
    BY <1>6 DEF Submit, Only
  <2>2. \E c \in Call : Grows(c) /\ ~OrgCall(c)
    BY <1>3, <2>1, Names
  <2> QED BY <2>1, <2>2, OtherOrgs
<1>7. CASE ClickShoot
  <2>1. clicks' \in Nat /\ options' = options
    BY <1>7 DEF ClickShoot, Only, TypeInv, TypeOK
  <2>2. PICK n \in Nat : n = clicks'
    BY <2>1
  <2>3. Sends("SHOOT_JOB", "page", n)
    BY <1>7, <2>2 DEF ClickShoot
  <2>4. \E c \in Call : Grows(c) /\ ~OrgCall(c)
    BY <1>3, <2>3, Names
  <2> QED BY <2>1, <2>4, OtherOrgs
<1>8. CASE ClosePopup \/ ClosePage \/ PopupRace
  <2>1. options' = options /\ (Leaves("popup") \/ Leaves("page"))
    BY <1>8 DEF ClosePopup, ClosePage, PopupRace, Only
  <2>2. Left("popup") \/ Left("page")
    BY <1>0, <2>1, LeavesFacts, Names
  <2> QED BY <2>1, <2>2, OtherOrgs
<1>9. CASE SwitchLinks \/ \E j \in Jobs \cup {None} : ShowModal(j)
  <2>1. options' = options /\ calls' = calls
    BY <1>9 DEF SwitchLinks, ShowModal, Only
  <2> QED BY <2>1, OtherOrgs
<1> QED BY <1>1, <1>2, <1>4, <1>5, <1>6, <1>7, <1>8, <1>9 DEF User

\* Opening the popup forgets one mark; the others stay.
LEMMA OnlyCrossedGoes ==
  ASSUME TypeInv, [Next]_vars
  PROVE  marks \ {"crossed"} \subseteq marks'
<1>1. CASE OpenPopup
  BY <1>1 DEF OpenPopup
<1>2. ASSUME NEW i \in DOMAIN calls, HandleOpenPopup(i) PROVE marks \ {"crossed"} \subseteq marks'
  BY <1>2 DEF HandleOpenPopup, MarkIf
<1> QED BY <1>1, <1>2, MarksStay

LEMMA OrgStep ==
  ASSUME OrgShownInv, [Next]_vars
  PROVE  OrgInv'
<1>0. TypeInv /\ StepInv /\ OrgInv /\ calls \in Seq(Call)
  BY DEF OrgShownInv, TypeInv, TypeOK
<1> SUFFICES ASSUME InOrder' PROVE OrgsAgree'
  BY DEF OrgInv
<1>1. marks \ {"crossed"} \subseteq marks'
  BY <1>0, OnlyCrossedGoes
<1>2. InOrder /\ OrgsAgree
  BY <1>0, <1>1 DEF InOrder, OrgInv
<1>3. CASE UNCHANGED <<calls, uis>>
  <2>1. calls' = calls /\ options' = options
    BY <1>3 DEF uis
  <2> QED BY <1>0, <1>2, <2>1, OtherOrgs
<1>4. ASSUME NEW i \in DOMAIN calls, Replies(i) PROVE OrgsAgree'
  <2>1. PICK res : Respond(i, res) /\ (calls[i].type = "API_REQUEST" => Marked(i) \/ calls[i].step \in {"refreshed", "denied"})
    BY <1>4 DEF Replies
  <2>2. ASSUME OrgCall(calls[i]), Overtakes(i) PROVE FALSE
    <3>1. Marked(i)
      BY <1>0, <2>1, <2>2 DEF OrgCall, StepInv, StepSound
    <3> QED BY <2>2, <3>1 DEF Marked, MarkIf, InOrder
  <2> QED BY <1>0, <1>2, <2>1, <2>2, RespondOrgs
<1>5. ASSUME NEW i \in DOMAIN calls, Moved(i) PROVE OrgsAgree'
  <2>1. PICK c \in Call : Moves(i, c)
    BY <1>5 DEF Moved
  <2>2. \A j \in DOMAIN calls : calls'[j].type = calls[j].type /\ calls'[j].from = calls[j].from /\ calls'[j].arg = calls[j].arg
    BY <2>1 DEF Moves, Sets
  <2>3. DOMAIN calls' = DOMAIN calls /\ calls' \in Seq(Call) /\ options' = options
    BY <2>1 DEF Moves, Sets, SetCall, uis
  <2>4. \A j \in DOMAIN calls : (OrgCall(calls'[j]) <=> OrgCall(calls[j])) /\ (OrgCall(calls[j]) => calls'[j].arg = calls[j].arg)
    BY <2>2 DEF OrgCall
  <2> QED BY <1>0, <1>2, <2>3, <2>4, StayingOrgs
<1>6. ASSUME NEW i \in DOMAIN calls, HandleOpenPopup(i) PROVE OrgsAgree'
  <2>1. Drop(i) /\ \A j \in DOMAIN calls' : Heir(i, j) \/ calls'[j] = Post("REFRESH", "popup", None)
    BY <1>0, <1>6, OpenPopupDrops
  <2>2. options' = options /\ ~OrgCall(calls[i])
    BY <1>6 DEF HandleOpenPopup, At, OrgCall
  <2>3. ~OrgCall(Post("REFRESH", "popup", None))
    BY DEF OrgCall, Post
  <2>4. \A j \in DOMAIN calls' : OrgCall(calls'[j]) => Heir(i, j)
    BY <2>1, <2>3
  <2> QED BY <1>0, <1>2, <2>1, <2>2, <2>4, DropOrgs
<1>7. CASE RefreshArrives
  <2>1. refresh.reply \in Pairs \cup {None} /\ options' = options
    BY <1>0, <1>7 DEF RefreshArrives, TypeInv, TypeOK, uis
  <2>2. WentOn(refresh.reply)
    BY <1>0, <1>7, <2>1, GoOnFacts DEF RefreshArrives
  <2>3. \A j \in DOMAIN calls : calls'[j].type = calls[j].type /\ calls'[j].from = calls[j].from /\ calls'[j].arg = calls[j].arg
    BY <1>0, <2>1, <2>2, GoOnTyped DEF WentOn
  <2>4. DOMAIN calls' = DOMAIN calls /\ calls' \in Seq(Call)
    BY <2>2 DEF WentOn
  <2>5. \A j \in DOMAIN calls : (OrgCall(calls'[j]) <=> OrgCall(calls[j])) /\ (OrgCall(calls[j]) => calls'[j].arg = calls[j].arg)
    BY <2>3 DEF OrgCall
  <2> QED BY <1>0, <1>2, <2>1, <2>4, <2>5, StayingOrgs
<1>8. CASE Kill
  <2>1. calls' = <<>> /\ calls = <<>> /\ options' = options
    BY <1>8 DEF Kill, MarkIf, InOrder
  <2> QED BY <1>0, <1>2, <2>1, OtherOrgs
<1> QED BY <1>0, <1>2, <1>3, <1>4, <1>5, <1>6, <1>7, <1>8, UserOrgs, CallsNext

\* Once the options page is not loading, its sections show the organization it calls
\* active, or an error, unless answers overtook each other (switchOrg).
THEOREM OrgShownHolds == Spec => []OrgShown
<1>1. Init => OrgShownInv
  <2> SUFFICES ASSUME Init PROVE OrgShownInv
    OBVIOUS
  <2>1. DOMAIN calls = {} /\ options.screen = "closed"
    BY DEF Init, ClosedOptions
  <2> QED BY <2>1, TypeInit DEF OrgShownInv, StepInv, OrgInv, OrgsAgree
<1>2. OrgShownInv /\ [Next]_vars => OrgShownInv'
  BY TypeStep, StepStep, OrgStep DEF OrgShownInv
<1>3. OrgShownInv => OrgShown
  BY DEF OrgShownInv, OrgInv, InOrder, OrgsAgree, NoOrgCall, OrgCall, From, Range, OrgShown
<1> QED BY <1>1, <1>2, <1>3, PTL DEF Spec

----------------------------------------------------------------------------
(* What UisSettle rests on: who waits has its message under way.           *)

\* A message of the client, of one of the types, is under way.
Awaits(client, types) == \E i \in DOMAIN calls : calls[i].from = client /\ calls[i].type \in types

\* The popup loads or has sent a form; a shot was sent.
PopupAwaits ==
  /\ popup.screen = "loading" => Awaits("popup", {"REFRESH", "GET_ME"})
  /\ \A type \in popup.pending : Awaits("popup", {type})
PageAwaits ==
  /\ page.phase = "sent" => Awaits("page", {"SHOOT_JOB"}) /\ page.shot # None
  /\ page.shot # None => page.phase # "idle"
  /\ page.here \/ page.button # "none" => page.modal # None
AwaitInv == ("killed" \notin marks => PopupAwaits) /\ PageAwaits

\* Every message but those in K is still under way.
Kept(K) ==
  \A j \in DOMAIN calls \ K : \E k \in DOMAIN calls' : calls'[k].type = calls[j].type /\ calls'[k].from = calls[j].from

LEMMA AwaitsOn ==
  ASSUME NEW K, Kept(K), NEW client, NEW types, Awaits(client, types),
         \A j \in K : ~(calls[j].from = client /\ calls[j].type \in types)
  PROVE  Awaits(client, types)'
<1>1. PICK j \in DOMAIN calls : calls[j].from = client /\ calls[j].type \in types
  BY DEF Awaits
<1>2. PICK k \in DOMAIN calls' : calls'[k].type = calls[j].type /\ calls'[k].from = calls[j].from
  BY <1>1 DEF Kept
<1> QED BY <1>1, <1>2 DEF Awaits

LEMMA DropKept ==
  ASSUME NEW i \in DOMAIN calls, Drop(i)
  PROVE  Kept({i})
<1>1. ASSUME NEW j \in DOMAIN calls \ {i}
      PROVE  \E k \in DOMAIN calls' : calls'[k].type = calls[j].type /\ calls'[k].from = calls[j].from
  <2>1. PICK k \in DOMAIN calls' : Heir(i, k) /\ Old(i, k) = j
    BY DEF Drop
  <2> QED BY <2>1 DEF Heir
<1> QED BY <1>1 DEF Kept

\* The message sent on an answer is under way.
LEMMA SentArrives ==
  ASSUME TypeInv, NEW i \in DOMAIN calls, NEW p \in Call, Quiet(p), calls' = RemoveAt(calls, i) \o <<p>>
  PROVE  \E k \in DOMAIN calls' : calls'[k] = p
<1>1. <<p>> \in Seq(Call) /\ Len(<<p>>) = 1 /\ <<p>>[1] = p
  OBVIOUS
<1>2. PICK new \in Seq(Call) : new = <<p>>
  BY <1>1
<1>3. Len(new) = 1 /\ new[1] = p /\ calls' = RemoveAt(calls, i) \o new /\ Quiet(new[1])
  BY <1>1, <1>2
<1>4. Len(calls') = Len(calls) /\ calls'[Len(calls)] = p /\ Drop(i)
  BY <1>3, DropFacts DEF TypeInv
<1>5. Len(calls) \in DOMAIN calls'
  <2>1. calls \in Seq(Call) /\ calls' \in Seq(Call) /\ DOMAIN calls # {}
    BY <1>4 DEF TypeInv, TypeOK, Drop
  <2> QED BY <1>4, <2>1
<1> QED BY <1>4, <1>5

LEMMA SendsArrives ==
  ASSUME TypeInv, NEW type \in Types, NEW from \in Clients, NEW arg \in Nat \cup {None}, Sends(type, from, arg)
  PROVE  Awaits(from, {type})' /\ Kept({})
<1>0. calls \in Seq(Call)
  BY DEF TypeInv, TypeOK
<1>1. PICK c \in Call : c = Post(type, from, arg)
  BY PostTyped
<1>2. c.type = type /\ c.from = from /\ calls' = Append(calls, c)
  BY <1>1, PostTyped DEF Sends
<1>3. Grows(c)
  BY <1>0, <1>2, GrowsFacts
<1> QED BY <1>2, <1>3 DEF Grows, Awaits, Kept

\* Leaving hides only the messages of the client that leaves.
LEMMA LeftAwaits ==
  ASSUME calls \in Seq(Call), NEW client \in Clients, Left(client), NEW other, other # client, NEW types, Awaits(other, types)
  PROVE  Awaits(other, types)'
  BY DEF Left, Awaits

LEMMA RespondKept ==
  ASSUME TypeInv, NEW i \in DOMAIN calls, NEW res, Respond(i, res)
  PROVE  Kept({i})
  BY RespondFacts, DropKept DEF TypeInv

\* What stays of the page's message when others go.
LEMMA PageAwaitsOn ==
  ASSUME PageAwaits, page' = page, NEW K, Kept(K), \A j \in K : ~(calls[j].from = "page" /\ calls[j].type = "SHOOT_JOB")
  PROVE  PageAwaits'
<1>1. Awaits("page", {"SHOOT_JOB"}) => Awaits("page", {"SHOOT_JOB"})'
  BY AwaitsOn
<1> QED BY <1>1 DEF PageAwaits

LEMMA PopupAwaitsOn ==
  ASSUME PopupAwaits, NEW K, Kept(K),
         popup'.screen = "loading" => popup.screen = "loading" /\ \A j \in K : ~FormCall(calls[j]),
         popup'.pending \subseteq popup.pending,
         \A j \in K, type \in popup'.pending : ~(calls[j].from = "popup" /\ calls[j].type = type)
  PROVE  PopupAwaits'
<1>1. popup'.screen = "loading" => Awaits("popup", {"REFRESH", "GET_ME"})'
  <2> SUFFICES ASSUME popup'.screen = "loading" PROVE Awaits("popup", {"REFRESH", "GET_ME"})'
    OBVIOUS
  <2>1. Awaits("popup", {"REFRESH", "GET_ME"})
    BY DEF PopupAwaits
  <2>2. \A j \in K : ~(calls[j].from = "popup" /\ calls[j].type \in {"REFRESH", "GET_ME"})
    BY DEF FormCall
  <2> QED BY <2>1, <2>2, AwaitsOn
<1>2. ASSUME NEW type \in popup'.pending PROVE Awaits("popup", {type})'
  <2>1. Awaits("popup", {type})
    BY DEF PopupAwaits
  <2>2. \A j \in K : ~(calls[j].from = "popup" /\ calls[j].type \in {type})
    OBVIOUS
  <2> QED BY <2>1, <2>2, AwaitsOn
<1> QED BY <1>1, <1>2 DEF PopupAwaits

\* A shot that ended awaits nothing.
LEMMA ShotEndedAwaits ==
  ASSUME TypeInv, PageAwaits, page' = ShotEnded
  PROVE  PageAwaits'
<1>1. /\ page'.shot = None /\ page'.here = FALSE /\ page'.phase = "idle" /\ page'.modal = page.modal
      /\ page'.button # "none" => page.here \/ page.button # "none"
  BY DEF ShotEnded, TypeInv, TypeOK
<1> QED BY <1>1 DEF PageAwaits

\* An answer to the popup.
LEMMA RespondPopupAwaits ==
  ASSUME TypeInv, PopupAwaits, NEW i \in DOMAIN calls, NEW res, Respond(i, res)
  PROVE  PopupAwaits'
<1>0. Kept({i}) /\ popup \in Popups
  BY RespondKept, UisFromType DEF TypeInv, UisTyped
<1>1. CASE calls[i].from # "popup"
  <2>1. popup' = popup
    BY <1>1 DEF Respond, uis, OptionsTakes, PageTakes
  <2> QED BY <1>0, <1>1, <2>1, PopupAwaitsOn DEF FormCall
<1>2. ASSUME calls[i].from = "popup", calls[i].type = "REFRESH" PROVE PopupAwaits'
  <2> DEFINE p == Post("GET_ME", "popup", None)
  <2>1. p \in Call /\ Quiet(p) /\ p.from = "popup" /\ p.type = "GET_ME"
    BY Names DEF Post, Call, Steps, Quiet
  <2>2. popup' = popup /\ calls' = RemoveAt(calls, i) \o <<p>>
    BY <1>2 DEF Respond, PopupTakes, Send, SignIns
  <2> HIDE DEF p
  <2>3. Awaits("popup", {"REFRESH", "GET_ME"})'
    BY <2>1, <2>2, SentArrives DEF Awaits
  <2>4. ASSUME NEW type \in popup.pending PROVE Awaits("popup", {type})'
    <3>1. Awaits("popup", {type}) /\ type \in SignIns
      BY <1>0, <2>4 DEF PopupAwaits, Popups
    <3>2. \A j \in {i} : ~(calls[j].from = "popup" /\ calls[j].type \in {type})
      BY <1>2, <3>1 DEF SignIns
    <3> QED BY <1>0, <3>1, <3>2, AwaitsOn
  <2> QED BY <2>2, <2>3, <2>4 DEF PopupAwaits
<1>3. ASSUME calls[i].from = "popup", calls[i].type # "REFRESH" PROVE PopupAwaits'
  <2>0. PopupTakes(calls[i], res, RemoveAt(calls, i))
    BY <1>3 DEF Respond
  <2>1. CASE calls[i].type = "GET_ME"
    <3>1. popup'.screen # "loading" /\ popup'.pending = popup.pending
      BY <1>0, <2>0, <2>1 DEF PopupTakes, SignIns, Popups
    <3>2. \A type \in popup.pending : type # "GET_ME"
      BY <1>0 DEF Popups, SignIns
    <3> QED BY <1>0, <2>1, <3>1, <3>2, PopupAwaitsOn
  <2>2. CASE calls[i].type \in SignIns
    <3>1. popup' = [screen |-> CASE res = "ok" -> "authenticated"
                                 [] res = "mfa" -> "mfa"
                                 [] OTHER -> popup.screen,
                    pending |-> popup.pending \ {calls[i].type}]
      BY <2>0, <2>2 DEF PopupTakes, SignIns
    <3>2. popup'.screen = "authenticated" \/ popup'.screen = "mfa" \/ popup'.screen = popup.screen
      BY <3>1
    <3>3. popup'.pending = popup.pending \ {calls[i].type} /\ ~FormCall(calls[i])
      BY <2>2, <3>1 DEF FormCall, SignIns
    <3> QED BY <1>0, <3>2, <3>3, PopupAwaitsOn
  <2>3. CASE calls[i].type = "LOGOUT"
    <3>1. popup'.screen # "loading" /\ popup'.pending \subseteq popup.pending
      BY <2>0, <2>3 DEF PopupTakes, SignIns
    <3>2. \A type \in popup.pending : type # "LOGOUT"
      BY <1>0 DEF Popups, SignIns
    <3> QED BY <1>0, <2>3, <3>1, <3>2, PopupAwaitsOn
  <2> QED BY <1>3, <2>0, <2>1, <2>2, <2>3 DEF PopupTakes
<1> QED BY <1>1, <1>2, <1>3

\* An answer to the page.
LEMMA RespondPageAwaits ==
  ASSUME TypeInv, PageAwaits, NEW i \in DOMAIN calls, NEW res, Respond(i, res)
  PROVE  PageAwaits'
<1>0. Kept({i}) /\ page \in JobPages
  BY RespondKept, UisFromType DEF TypeInv, UisTyped
<1>1. CASE calls[i].from # "page"
  <2>1. page' = page
    BY <1>1 DEF Respond, uis, OptionsTakes, PopupTakes
  <2> QED BY <1>0, <1>1, <2>1, PageAwaitsOn
<1>2. CASE calls[i].from = "page" /\ calls[i].type # "SHOOT_JOB"
  <2>0. PageTakes(calls[i], res, RemoveAt(calls, i))
    BY <1>2 DEF Respond
  <2>1. CASE page' = page
    BY <1>0, <1>2, <2>1, PageAwaitsOn
  <2>2. ASSUME NEW has \in BOOLEAN, page' = Checked(has) PROVE PageAwaits'
    <3>1. /\ page'.shot = page.shot /\ page'.here = page.here /\ page'.phase = page.phase /\ page'.modal = page.modal
          /\ page'.button # "none" => page.button # "none"
      BY <1>0, <2>2 DEF Checked, JobPages
    <3>2. Awaits("page", {"SHOOT_JOB"}) => Awaits("page", {"SHOOT_JOB"})'
      BY <1>0, <1>2, AwaitsOn
    <3> QED BY <3>1, <3>2 DEF PageAwaits
  <2>3. page' = page \/ \E has \in BOOLEAN : page' = Checked(has)
    BY <1>2, <2>0 DEF PageTakes
  <2> QED BY <2>1, <2>2, <2>3
<1>3. CASE calls[i].from = "page" /\ calls[i].type = "SHOOT_JOB"
  <2>0. page' = [page EXCEPT !.phase = "opening"] \/ page' = ShotEnded
    BY <1>3 DEF Respond, PageTakes
  <2>1. CASE page' = [page EXCEPT !.phase = "opening"]
    <3>1. /\ page'.shot = page.shot /\ page'.here = page.here /\ page'.phase = "opening" /\ page'.modal = page.modal
          /\ page'.button = page.button
      BY <1>0, <2>1 DEF JobPages
    <3> QED BY <3>1 DEF PageAwaits
  <2> QED BY <2>0, <2>1, ShotEndedAwaits
<1> QED BY <1>1, <1>2, <1>3

\* openPopup: the popup it opens asks for its session; the shot ends.
LEMMA OpenPopupAwaits ==
  ASSUME TypeInv, NEW i \in DOMAIN calls, HandleOpenPopup(i)
  PROVE  (PopupAwaits => PopupAwaits') /\ (PageAwaits => PageAwaits')
<1>0. Kept({i}) /\ calls[i].type = "OPEN_POPUP" /\ popup \in Popups
  BY OpenPopupDrops, DropKept, UisFromType DEF HandleOpenPopup, At, TypeInv, UisTyped
<1>1. PageAwaits => PageAwaits'
  <2>1. page' = page \/ page' = ShotEnded
    BY DEF HandleOpenPopup
  <2> QED BY <1>0, <2>1, PageAwaitsOn, ShotEndedAwaits
<1>2. ASSUME PopupAwaits PROVE PopupAwaits'
  <2> DEFINE opens == popup.screen = "closed" /\ "popup" \in plan.clients
             p == Post("REFRESH", "popup", None)
  <2>1. CASE opens
    <3>1. p \in Call /\ Quiet(p) /\ p.from = "popup" /\ p.type = "REFRESH"
      BY Names DEF Post, Call, Steps, Quiet
    <3>2. calls' = RemoveAt(calls, i) \o <<p>> /\ popup'.pending = {}
      BY <2>1 DEF HandleOpenPopup, ClosedPopup
    <3> HIDE DEF p
    <3>3. Awaits("popup", {"REFRESH", "GET_ME"})'
      BY <3>1, <3>2, SentArrives DEF Awaits
    <3> QED BY <3>2, <3>3 DEF PopupAwaits
  <2>2. CASE ~opens
    <3>1. popup' = popup
      BY <2>2 DEF HandleOpenPopup
    <3>2. \A type \in popup.pending : type # "OPEN_POPUP"
      BY <1>0 DEF Popups, SignIns
    <3> QED BY <1>0, <1>2, <3>1, <3>2, PopupAwaitsOn DEF FormCall
  <2> QED BY <2>1, <2>2
<1> QED BY <1>1, <1>2

\* What the user does to one client keeps the messages of the others.
LEMMA UserPopupAwaits ==
  ASSUME TypeInv, PopupAwaits, User \/ PopupRace
  PROVE  PopupAwaits'
<1>0. calls \in Seq(Call) /\ popup \in Popups
  BY UisFromType DEF TypeInv, TypeOK, UisTyped
<1>1. CASE OpenPopup
  <2>1. Sends("REFRESH", "popup", None) /\ popup'.pending = popup.pending
    BY <1>0, <1>1 DEF OpenPopup, Popups
  <2>2. Awaits("popup", {"REFRESH"})' /\ Kept({})
    BY <2>1, SendsArrives, Names
  <2>3. Awaits("popup", {"REFRESH", "GET_ME"})'
    BY <2>2 DEF Awaits
  <2>4. \A type \in popup.pending : Awaits("popup", {type})'
    BY <2>2, AwaitsOn DEF PopupAwaits
  <2> QED BY <2>1, <2>3, <2>4 DEF PopupAwaits
<1>2. CASE ClosePopup
  BY <1>2 DEF ClosePopup, ClosedPopup, PopupAwaits
<1>3. ASSUME NEW type \in SignIns, Submit(type) PROVE PopupAwaits'
  <2>1. Sends(type, "popup", None) /\ popup'.pending = popup.pending \cup {type} /\ popup'.screen # "loading"
    BY <1>0, <1>3 DEF Submit, LoginForm, RegisterForm, MfaForm, Popups
  <2>2. Awaits("popup", {type})' /\ Kept({})
    BY <2>1, SendsArrives, Names
  <2>3. \A t \in popup.pending : Awaits("popup", {t})'
    BY <2>2, AwaitsOn DEF PopupAwaits
  <2> QED BY <2>1, <2>2, <2>3 DEF PopupAwaits
<1>4. ASSUME Kept({}), popup'.screen = "loading" => popup.screen = "loading", popup'.pending \subseteq popup.pending
      PROVE  PopupAwaits'
  BY <1>4, PopupAwaitsOn
<1>5. CASE SwitchLinks
  <2>1. popup'.screen # "loading" /\ popup'.pending \subseteq popup.pending /\ calls' = calls
    BY <1>0, <1>5 DEF SwitchLinks, Popups
  <2>2. Kept({})
    BY <2>1 DEF Kept
  <2> QED BY <1>4, <2>1, <2>2
<1>6. CASE PopupLogout
  <2>1. Sends("LOGOUT", "popup", None) /\ popup' = popup
    BY <1>6 DEF PopupLogout
  <2>2. Kept({})
    BY <2>1, SendsArrives, Names
  <2> QED BY <1>4, <2>1, <2>2
<1>7. CASE \/ OpenOptions \/ CloseOptions \/ OptionsLogout \/ \E o \in Orgs : SwitchOrg(o)
           \/ OpenPage \/ ClosePage \/ ClickShoot \/ PopupRace \/ \E j \in Jobs \cup {None} : ShowModal(j)
  <2>0. popup' = popup
    BY <1>7, OtherUser
  <2>1. ASSUME NEW client \in {"options", "page"}, Leaves(client) PROVE PopupAwaits'
    <3>1. Left(client) /\ client \in Clients /\ client # "popup"
      BY <1>0, <2>1, LeavesFacts, Names
    <3>2. \A types : Awaits("popup", types) => Awaits("popup", types)'
      BY <1>0, <3>1, LeftAwaits
    <3> QED BY <2>0, <3>2 DEF PopupAwaits
  <2>2. ASSUME calls' = calls PROVE PopupAwaits'
    <3>1. Kept({})
      BY <2>2 DEF Kept
    <3> QED BY <1>4, <2>0, <3>1
  <2>3. ASSUME NEW type \in Types, NEW client \in {"options", "page"}, NEW arg \in Nat \cup {None}, Sends(type, client, arg)
        PROVE  PopupAwaits'
    <3>1. Kept({})
      BY <2>3, SendsArrives, Names
    <3> QED BY <1>4, <2>0, <3>1
  <2> QED BY <1>7, <2>1, <2>2, <2>3, OtherUser
<1> QED BY <1>1, <1>2, <1>3, <1>5, <1>6, <1>7 DEF User

LEMMA UserPageAwaits ==
  ASSUME TypeInv, PageAwaits, User \/ PopupRace
  PROVE  PageAwaits'
<1>0. calls \in Seq(Call) /\ page \in JobPages /\ clicks \in 0..MaxClicks /\ MaxClicks \in Nat
  BY UisFromType, ExtensionAssumption DEF TypeInv, TypeOK, UisTyped
<1>1. ASSUME page' = page, Kept({}) PROVE PageAwaits'
  BY <1>1, PageAwaitsOn
<1>2. CASE SwitchLinks
  <2>1. page' = page /\ calls' = calls
    BY <1>2 DEF SwitchLinks, Only
  <2>2. Kept({})
    BY <2>1 DEF Kept
  <2> QED BY <1>1, <2>1, <2>2
<1>3. CASE OpenPopup \/ PopupLogout \/ OpenOptions \/ OptionsLogout
  <2>1. page' = page
    BY <1>3 DEF OpenPopup, PopupLogout, OpenOptions, OptionsLogout, Only
  <2>2. \E type \in {"REFRESH", "LOGOUT"}, from \in Clients : Sends(type, from, None)
    BY <1>3, Names DEF OpenPopup, PopupLogout, OpenOptions, OptionsLogout
  <2>3. Kept({})
    BY <2>2, SendsArrives, Names
  <2> QED BY <1>1, <2>1, <2>3
<1>4. ASSUME NEW type \in SignIns, Submit(type) PROVE PageAwaits'
  <2>1. page' = page /\ Sends(type, "popup", None)
    BY <1>4 DEF Submit, Only
  <2>2. Kept({})
    BY <2>1, SendsArrives, Names
  <2> QED BY <1>1, <2>1, <2>2
<1>5. ASSUME NEW o \in Orgs, SwitchOrg(o) PROVE PageAwaits'
  <2>1. page' = page /\ Sends("API_REQUEST", "options", o) /\ o \in Nat
    BY <1>5, ExtensionAssumption DEF SwitchOrg, Only
  <2>2. Kept({})
    BY <2>1, SendsArrives, Names
  <2> QED BY <1>1, <2>1, <2>2
<1>6. CASE ClosePopup \/ CloseOptions
  <2>1. page' = page
    BY <1>6 DEF ClosePopup, CloseOptions, Only
  <2>2. PICK client \in {"popup", "options"} : Leaves(client)
    BY <1>6 DEF ClosePopup, CloseOptions
  <2>3. Left(client) /\ client \in Clients /\ client # "page"
    BY <1>0, <2>2, LeavesFacts, Names
  <2>4. Awaits("page", {"SHOOT_JOB"}) => Awaits("page", {"SHOOT_JOB"})'
    BY <1>0, <2>3, LeftAwaits
  <2> QED BY <2>1, <2>4 DEF PageAwaits
<1>7. CASE OpenPage
  <2>1. Sends("API_REQUEST", "page", None) /\ page' = [page EXCEPT !.open = TRUE]
    BY <1>7 DEF OpenPage
  <2>2. Kept({})
    BY <2>1, SendsArrives, Names
  <2>3. Awaits("page", {"SHOOT_JOB"}) => Awaits("page", {"SHOOT_JOB"})'
    BY <2>2, AwaitsOn
  <2>4. /\ page'.shot = page.shot /\ page'.here = page.here /\ page'.phase = page.phase /\ page'.modal = page.modal
        /\ page'.button = page.button
    BY <1>0, <2>1 DEF JobPages
  <2> QED BY <2>3, <2>4 DEF PageAwaits
<1>8. CASE ClosePage
  BY <1>8 DEF ClosePage, ClosedPage, PageAwaits
<1>9. CASE PopupRace
  BY <1>9, ShotEndedAwaits DEF PopupRace
<1>10. CASE ClickShoot
  <2>1. clicks' \in Nat /\ Sends("SHOOT_JOB", "page", clicks') /\ page.button = "enabled"
    BY <1>0, <1>10 DEF ClickShoot
  <2>2. PICK n \in Nat : n = clicks'
    BY <2>1
  <2>3. Sends("SHOOT_JOB", "page", n)
    BY <2>1, <2>2
  <2>4. Awaits("page", {"SHOOT_JOB"})'
    BY <2>3, SendsArrives, Names
  <2>5. page'.shot = page.modal /\ page'.modal = page.modal /\ page'.phase = "sent"
    BY <1>0, <1>10 DEF ClickShoot, JobPages
  <2>6. page.modal # None
    BY <2>1 DEF PageAwaits
  <2> QED BY <2>4, <2>5, <2>6 DEF PageAwaits
<1>11. ASSUME NEW j \in Jobs \cup {None}, ShowModal(j) PROVE PageAwaits'
  <2>1. /\ page'.shot = page.shot /\ page'.here = FALSE /\ page'.phase = page.phase /\ page'.modal = j
        /\ j = None => page'.button = "none"
    BY <1>0, <1>11 DEF ShowModal, JobPages
  <2>2. calls' = calls
    BY <1>11 DEF ShowModal
  <2>3. Awaits("page", {"SHOOT_JOB"}) => Awaits("page", {"SHOOT_JOB"})'
    BY <2>2 DEF Awaits
  <2> QED BY <2>1, <2>3 DEF PageAwaits
<1> QED BY <1>2, <1>3, <1>4, <1>5, <1>6, <1>7, <1>8, <1>9, <1>10, <1>11 DEF User

LEMMA KillAwaits ==
  ASSUME TypeInv, AwaitInv, Kill
  PROVE  AwaitInv'
<1>1. calls' = <<>> /\ popup' = popup
  BY DEF Kill
<1>2. PageAwaits'
  <2>1. CASE page.shot = None
    <3>1. page' = page
      BY <2>1 DEF Kill
    <3> QED BY <2>1, <3>1 DEF AwaitInv, PageAwaits
  <2>2. CASE page.shot # None
    <3>1. page' = ShotEnded
      BY <2>2 DEF Kill, ShotEnded
    <3> QED BY <3>1, ShotEndedAwaits DEF AwaitInv
  <2> QED BY <2>1, <2>2
<1>3. ASSUME "killed" \notin marks' PROVE PopupAwaits'
  <2>1. calls = <<>> /\ "killed" \notin marks
    BY <1>3 DEF Kill, MarkIf
  <2>2. PopupAwaits /\ calls' = calls
    BY <1>1, <2>1 DEF AwaitInv
  <2> QED BY <1>1, <2>2 DEF PopupAwaits, Awaits
<1> QED BY <1>2, <1>3 DEF AwaitInv

LEMMA AwaitStep ==
  ASSUME TypeInv, AwaitInv, [Next]_vars
  PROVE  AwaitInv'
<1>0. PageAwaits /\ ("killed" \notin marks' => PopupAwaits)
  BY OnlyCrossedGoes DEF AwaitInv
<1>1. CASE Kill
  BY <1>1, KillAwaits
<1>2. CASE UNCHANGED <<calls, uis>>
  BY <1>0, <1>2 DEF uis, AwaitInv, PopupAwaits, PageAwaits, Awaits
<1>3. ASSUME NEW i \in DOMAIN calls, Replies(i) PROVE AwaitInv'
  BY <1>0, <1>3, RespondPopupAwaits, RespondPageAwaits DEF Replies, AwaitInv
<1>4. ASSUME \A j \in DOMAIN calls : calls'[j].type = calls[j].type /\ calls'[j].from = calls[j].from,
             DOMAIN calls' = DOMAIN calls, UNCHANGED uis
      PROVE  AwaitInv'
  <2>1. Kept({}) /\ popup' = popup /\ page' = page
    BY <1>4 DEF Kept, uis
  <2>2. PageAwaits'
    BY <1>0, <2>1, PageAwaitsOn
  <2>3. PopupAwaits => PopupAwaits'
    BY <2>1, PopupAwaitsOn
  <2> QED BY <1>0, <2>2, <2>3 DEF AwaitInv
<1>5. ASSUME NEW i \in DOMAIN calls, Moved(i) PROVE AwaitInv'
  <2>1. PICK c \in Call : Moves(i, c)
    BY <1>5 DEF Moved
  <2> QED BY <1>4, <2>1 DEF Moves, Sets, SetCall
<1>6. CASE RefreshArrives
  <2>1. refresh.reply \in Pairs \cup {None} /\ UNCHANGED uis /\ calls \in Seq(Call)
    BY <1>6 DEF RefreshArrives, TypeInv, TypeOK
  <2>2. WentOn(refresh.reply)
    BY <1>6, <2>1, GoOnFacts DEF RefreshArrives
  <2> QED BY <1>4, <2>1, <2>2, GoOnTyped DEF WentOn
<1>7. ASSUME NEW i \in DOMAIN calls, HandleOpenPopup(i) PROVE AwaitInv'
  BY <1>0, <1>7, OpenPopupAwaits DEF AwaitInv
<1>8. CASE User \/ PopupRace
  BY <1>0, <1>8, UserPopupAwaits, UserPageAwaits DEF AwaitInv
<1> QED BY <1>1, <1>2, <1>3, <1>5, <1>6, <1>7, <1>8, CallsNext

----------------------------------------------------------------------------
(* Who joined the refresh has it under way.                                *)

JoinedInv == \A i \in DOMAIN calls : calls[i].step = "refreshing" => refresh # None

LEMMA IsRefresh ==
  ASSUME NEW p \in Pairs, NEW step \in {"sent", "served"}, NEW reply \in Pairs \cup {None}
  PROVE  [pair |-> p, step |-> step, reply |-> reply] # None
  BY RefreshAssumption

LEMMA JoinRefreshes ==
  ASSUME TypeInv, NEW i \in DOMAIN calls, JoinRefresh(i)
  PROVE  refresh' # None
  BY IsRefresh DEF JoinRefresh, TypeInv, TypeOK

\* Only its answer and a stop of the worker end a refresh.
LEMMA RefreshStays ==
  ASSUME TypeInv, [Next]_vars, refresh # None, ~RefreshArrives, ~Kill
  PROVE  refresh' # None
<1>1. CASE UNCHANGED refresh
  BY <1>1
<1>2. ASSUME NEW i \in DOMAIN calls, Handle(i) PROVE refresh' # None
  BY <1>1, <1>2, JoinRefreshes DEF Handle, HandleRefresh, HandleUnauthorized, HandleLogoutLocally, HandleByRequest,
     HandleOpenPopup
<1>3. ASSUME NEW i \in DOMAIN calls, Answered(i) PROVE refresh' # None
  BY <1>1, <1>3, JoinRefreshes DEF Answered, SignInAnswered, SignInRefused, MfaAsked, ReadAnswered, ShotAnswered,
     ShotUnauthorized, LogoutServed, LogoutEnds
<1>4. ASSUME NEW i \in DOMAIN calls, AfterRefresh(i) \/ Lost(i) PROVE refresh' # None
  BY <1>1, <1>4 DEF AfterRefresh, Lost, RequestFails
<1>5. CASE RefreshServed
  <2>1. refresh \in [pair : Pairs, step : {"sent", "served"}, reply : Pairs \cup {None}]
    BY DEF TypeInv, TypeOK
  <2>2. issued < plan.pairs => issued + 1 \in Pairs
    BY PlanFacts DEF TypeInv, TypeOK, Pairs
  <2>3. CASE refresh' = [refresh EXCEPT !.step = "served"]
    BY <2>1, <2>3, RefreshAssumption
  <2>4. CASE issued < plan.pairs /\ refresh' = [refresh EXCEPT !.step = "served", !.reply = issued + 1]
    BY <2>1, <2>2, <2>4, RefreshAssumption
  <2> QED BY <1>5, <2>3, <2>4 DEF RefreshServed
<1>6. CASE UNCHANGED vars
  BY <1>6 DEF vars
<1>7. CASE WriteLands \/ Wake \/ Alarm \/ \E p \in Pairs : TokensEnd(p)
  BY <1>7 DEF WriteLands, Wake, Alarm, TokensEnd
<1>8. CASE User \/ PopupRace
  <2>1. \E client \in Clients : Only(client)
    BY <1>8, Names DEF User, OpenPopup, ClosePopup, SwitchLinks, PopupLogout, Submit, OpenOptions, CloseOptions,
       OptionsLogout, SwitchOrg, OpenPage, ClosePage, ShowModal, ClickShoot, PopupRace
  <2> QED BY <2>1, OnlyFacts
<1> QED BY <1>2, <1>3, <1>4, <1>5, <1>6, <1>7, <1>8 DEF Next, Progress

LEMMA JoinedStep ==
  ASSUME TypeInv, JoinedInv, [Next]_vars
  PROVE  JoinedInv'
<1>0. calls \in Seq(Call) /\ \A j \in DOMAIN calls : calls[j] \in Call
  BY DEF TypeInv, TypeOK
<1>1. CASE RefreshArrives
  <2>1. refresh.reply \in Pairs \cup {None}
    BY <1>1 DEF RefreshArrives, TypeInv, TypeOK
  <2>2. WentOn(refresh.reply)
    BY <1>0, <1>1, <2>1, GoOnFacts DEF RefreshArrives
  <2>3. \A j \in DOMAIN calls : GoOn(calls[j], refresh.reply).step # "refreshing"
    BY <1>0 DEF GoOn, Call
  <2> QED BY <2>2, <2>3 DEF WentOn, JoinedInv
<1>2. CASE Kill
  <2>1. calls' = <<>>
    BY <1>2 DEF Kill
  <2> QED BY <2>1 DEF JoinedInv
<1> SUFFICES ASSUME ~RefreshArrives, ~Kill PROVE JoinedInv'
  BY <1>1, <1>2
<1>3. ASSUME \A j \in DOMAIN calls' :
               calls'[j].step = "refreshing" => \E k \in DOMAIN calls : calls[k].step = "refreshing"
      PROVE  JoinedInv'
  BY <1>3, RefreshStays DEF JoinedInv
<1>4. CASE UNCHANGED <<calls, uis>>
  BY <1>3, <1>4
<1>5. ASSUME NEW i \in DOMAIN calls, Drop(i) PROVE JoinedInv'
  BY <1>3, <1>5 DEF Drop, Heir, Quiet
<1>6. ASSUME NEW i \in DOMAIN calls, Moved(i) PROVE JoinedInv'
  <2>1. PICK c \in Call : Moves(i, c) /\ (c.step = "refreshing" => JoinRefresh(i))
    BY <1>6 DEF Moved
  <2>2. CASE c.step = "refreshing"
    BY <2>1, <2>2, JoinRefreshes DEF JoinedInv
  <2>3. CASE c.step # "refreshing"
    BY <1>3, <2>1, <2>3 DEF Moves, Sets
  <2> QED BY <2>2, <2>3
<1>7. ASSUME NEW i \in DOMAIN calls, Replies(i) PROVE JoinedInv'
  BY <1>5, <1>7, RespondFacts DEF Replies, TypeInv
<1>8. ASSUME NEW i \in DOMAIN calls, HandleOpenPopup(i) PROVE JoinedInv'
  BY <1>5, <1>8, OpenPopupDrops
<1>9. CASE User \/ PopupRace
  <2>1. ASSUME NEW client \in Clients, Left(client) PROVE JoinedInv'
    <3>1. \A j \in DOMAIN calls : [calls[j] EXCEPT !.from = "gone"].step = calls[j].step
      BY <1>0 DEF Call
    <3>2. \A j \in DOMAIN calls : calls'[j].step = calls[j].step
      BY <2>1, <3>1 DEF Left
    <3>3. DOMAIN calls' = DOMAIN calls
      BY <2>1 DEF Left
    <3> QED BY <1>3, <3>2, <3>3
  <2>2. CASE calls' = calls
    BY <1>3, <2>2
  <2>3. ASSUME NEW c \in Call, c.step = "posted", Grows(c) PROVE JoinedInv'
    BY <1>3, <2>3 DEF Grows
  <2> QED BY <1>9, <2>1, <2>2, <2>3, UserCalls
<1> QED BY <1>1, <1>2, <1>4, <1>6, <1>7, <1>8, <1>9, CallsNext

\* Whatever waits has what it waits for under way: a loading popup the message by
\* which it finds its session, a form that was sent its message, a shot its
\* SHOOT_JOB or the 300 ms, and whoever joined the refresh that refresh.
UnderWay ==
  /\ "killed" \notin marks => PopupAwaits
  /\ page.shot # None => page.phase = "opening" \/ Awaits("page", {"SHOOT_JOB"})
  /\ \A i \in DOMAIN calls : calls[i].step = "refreshing" => up /\ refresh # None

\* No view waits for a message that nobody sent or that was answered, and no
\* handler for a refresh that ended, except a popup after a stop of the worker
\* (sendMessage, attemptRefresh, handleShoot).
THEOREM NobodyWaitsInVain == Spec => []UnderWay
<1> DEFINE IInv == TypeInv /\ StoreInv /\ AwaitInv /\ JoinedInv
<1>1. Init => IInv
  <2> SUFFICES ASSUME Init PROVE IInv
    OBVIOUS
  <2>1. DOMAIN calls = {} /\ popup = ClosedPopup /\ page = ClosedPage
    BY DEF Init
  <2>2. PopupAwaits /\ PageAwaits
    BY <2>1 DEF PopupAwaits, PageAwaits, ClosedPopup, ClosedPage
  <2>3. StoreInv
    BY DEF Init, StoreInv
  <2> QED BY <2>1, <2>2, <2>3, TypeInit DEF AwaitInv, JoinedInv
<1>2. IInv /\ [Next]_vars => IInv'
  BY TypeStep, StoreStep, AwaitStep, JoinedStep
<1>3. IInv => UnderWay
  BY DEF AwaitInv, PageAwaits, JoinedInv, StoreInv, UnderWay, TypeInv, TypeOK
<1> QED BY <1>1, <1>2, <1>3, PTL DEF Spec
=============================================================================
