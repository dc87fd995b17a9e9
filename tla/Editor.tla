------------------------------- MODULE Editor -------------------------------
(***************************************************************************)
(* The resume editor of the web client (useResumeEditor and its pages):    *)
(* typing, the debounced save, the Save button, the flush when the editor  *)
(* is left, the copies React Query keeps, and the list of resumes, beside  *)
(* an API that may answer late, in another order, or not at all.           *)
(*                                                                         *)
(* The text of a resume is the set of the edits it reflects; taking a card *)
(* away is an edit too ("remove"), so that a text never shrinks.  Which    *)
(* resume is the master is left to module Resumes: here setting it only    *)
(* matters for the copy its answer brings.                                 *)
(***************************************************************************)
EXTENDS Naturals, FiniteSets, SequencesExt

CONSTANTS
  Docs,      \* identities of resumes, in the order of their creation
  Existing,  \* those that may be stored before the client starts
  Edits,     \* what may be typed: [form, entry, field]
  Plans,     \* bounds of a session: the edits the user may type, and how many
             \* visits to the editor and failures there are, together
  MaxReqs,   \* bound: requests in flight when the user or the timer adds one
  Followed,  \* bound: the edits EditsSettle follows to the store
  None

----------------------------------------------------------------------------
(* The forms: the fields of a card, and those that make it worth sending.  *)

ExperienceFields == {"company", "title", "location", "start", "end", "current", "bullets"}
EducationFields == {"school", "degree", "field", "start", "end", "gpa"}
SkillFields == {"name", "proficiency"}
ProjectFields == {"name", "description", "url", "technologies"}
CertificationFields == {"name", "issuer", "earned", "url"}
CardFields == [experience |-> ExperienceFields, education |-> EducationFields,
               skill |-> SkillFields, project |-> ProjectFields,
               certification |-> CertificationFields]
NamingFields == [experience |-> {"company", "title"}, education |-> {"school"},
                 skill |-> {"name"}, project |-> {"name"}, certification |-> {"name"}]
SettingsFields == {"template", "fontFamily", "fontSize", "accentColor", "margins"}
MonthFields == {"start", "end", "earned"}

Cards == DOMAIN CardFields
Fields(form) == CASE form \in Cards -> CardFields[form] \cup {"add", "remove"}
                  [] form = "settings" -> SettingsFields
                  [] OTHER -> {"content"}

ASSUME EditorAssumption ==
  /\ Docs \subseteq Nat /\ Existing \subseteq Docs
  /\ None \notin Docs /\ \A t \in SUBSET Edits : None # t
  /\ MaxReqs \in Nat /\ Followed \subseteq Edits
  /\ Plans \subseteq [edits : SUBSET Edits, budget : Nat]
  /\ \A e \in Edits : /\ e.form \in Cards \cup {"title", "summary", "settings"}
                      /\ e.entry \in Nat
                      /\ e.field \in Fields(e.form)

CardOf(text, e) == {f \in text : f.form = e.form /\ f.entry = e.entry}
Has(text, e, fields) == \E f \in CardOf(text, e) : f.field \in fields

\* What the controls of the page let the user change.
Typeable(text, e) ==
  /\ e \notin text
  /\ e.form \in Cards /\ e.field # "add" =>
       Has(text, e, {"add"}) /\ ~Has(text, e, {"remove"})
  /\ e.form = "experience" /\ e.field = "end" => ~Has(text, e, {"current"})

\* Mutant: a card needs every naming field, not one of them.
PayloadAllNames(text) ==
  {e \in text : /\ e.form # "settings"
                /\ e.form \in Cards =>
                     \A f \in NamingFields[e.form] : Has(text, e, {f})}

\* The part of a text a save sends: no settings, no card without a name.
Payload(text) ==
  {e \in text : /\ e.form # "settings"
                /\ e.form \in Cards => Has(text, e, NamingFields[e.form])}

\* What the preview in the middle shows: also cards that have no name yet.
Preview(text) ==
  {e \in text : /\ e.form \notin {"title", "settings"}
                /\ e.form \in Cards => ~Has(text, e, {"remove"})}

\* <input type="month"> yields YYYY-MM, which the API's date fields refuse.
Refused(body) == \E e \in body : /\ e.field \in MonthFields
                                 /\ ~Has(body, e, {"remove"})

----------------------------------------------------------------------------
VARIABLES
  plan,    \* the plan of this session
  server,  \* the stored text of each resume, None if there is none
  cache,   \* React Query's copy of each resume
  reqs,    \* the changes whose answer has not been dealt with, oldest first
  page,    \* "list", "editor" or "closed"
  route,   \* the resume in the editor's address, None for /new
  errored, \* the query of the editor's address ended in an error
  mount,   \* the number of the editor opened last
  doc,     \* state.resumeId
  text,    \* the rest of the editor's state
  dirty, saving,
  timer,   \* what the pending debounced save will send, None if none is
  armed,   \* debounceRef.current is set; a timer that fires leaves it set
  fails,   \* failures so far
  created, \* the resumes each editor has created; 0 created the first ones
  marks    \* history: what has crossed or gone wrong so far

edited == <<doc, text, dirty, saving, timer, armed>>
vars == <<plan, server, cache, reqs, page, route, errored, mount, edited, fails, created, marks>>

Copies == (SUBSET Edits) \cup {None}
Request == [kind : {"post", "put", "master", "delete"}, doc : Docs \cup {None},
            body : SUBSET Edits, by : Nat,
            step : {"sent", "done", "failed"}, reply : Copies]
Marks == {"failed", "refused", "masked", "silent", "reordered", "stale", "dropped", "gone"}

\* The editor's page shows its columns, neither "Loading" nor the error.
Shown == page = "editor" /\ ~errored /\ (route # None => cache[route] # None)
InFlight == Range(reqs)
Writes == {r \in InFlight : r.kind \in {"post", "put"}}
Mine(r) == page = "editor" /\ r.by = mount
StoredAnywhere == UNION {server[d] : d \in {x \in Docs : server[x] # None}}
Carried == UNION {r.body : r \in {q \in Writes : q.step = "sent"}}
MarkIf(cond, m) == IF cond THEN {m} ELSE {}

Sent(kind, d, body) ==
  [kind |-> kind, doc |-> d, body |-> body, reply |-> None, step |-> "sent",
   by |-> IF page = "editor" THEN mount ELSE 0]
Save(d, t) == Sent(IF d = None THEN "post" ELSE "put", d, Payload(t))

Init ==
  /\ plan \in Plans
  /\ \E D \in SUBSET Existing :
       /\ server = [d \in Docs |-> IF d \in D THEN {} ELSE None]
       /\ created = [m \in 0..plan.budget |-> IF m = 0 THEN D ELSE {}]
  /\ cache = [d \in Docs |-> None] /\ reqs = <<>>
  /\ page = "list" /\ route = None /\ errored = FALSE /\ mount = 0
  /\ doc = None /\ text = {}
  /\ dirty = FALSE /\ saving = FALSE /\ timer = None /\ armed = FALSE
  /\ fails = 0 /\ marks = {}

----------------------------------------------------------------------------
(* The pages.                                                              *)

\* The editor takes over a copy once, the first time there is one.
LoadFrom(d, copy) ==
  /\ doc' = d /\ text' = copy /\ dirty' = FALSE
  /\ UNCHANGED <<saving, timer, armed>>
\* The copy lacks what is stored or on its way.
Outdated(d, copy) == \/ server[d] \notin {copy, None}
                     \/ \E r \in InFlight : r.doc = d /\ r.step = "sent"
Blank == /\ doc' = None /\ text' = {} /\ dirty' = FALSE
         /\ saving' = FALSE /\ timer' = None /\ armed' = FALSE

\* Mutant: the editor does not wait for the resume.
OpenUnchecked(d) ==
  /\ page = "list" /\ mount + fails < plan.budget
  /\ server[d] # None \/ cache[d] # None
  /\ page' = "editor" /\ route' = d /\ mount' = mount + 1
  /\ LoadFrom(d, cache[d])
  /\ UNCHANGED <<plan, server, cache, reqs, errored, fails, created, marks>>

\* /dashboard/resumes/[id]/edit, reached from the list or the history.
Open(d) ==
  /\ page = "list" /\ mount + fails < plan.budget
  /\ server[d] # None \/ cache[d] # None
  /\ page' = "editor" /\ route' = d /\ mount' = mount + 1
  /\ IF cache[d] = None
     THEN Blank /\ UNCHANGED marks
     ELSE LoadFrom(d, cache[d]) /\ marks' = marks \cup MarkIf(Outdated(d, cache[d]), "stale")
  /\ UNCHANGED <<plan, server, cache, reqs, errored, fails, created>>

\* /dashboard/resumes/new
OpenNew ==
  /\ page = "list" /\ mount + fails < plan.budget
  /\ page' = "editor" /\ mount' = mount + 1
  /\ UNCHANGED <<plan, server, cache, reqs, route, errored, edited, fails, created, marks>>

\* The query of the address is answered: the first time, after invalidateQueries,
\* or because its copy is older than five minutes.
Fetch ==
  /\ page = "editor" /\ route # None /\ server[route] # None
  /\ cache' = [cache EXCEPT ![route] = server[route]]
  /\ errored' = FALSE
  /\ IF cache[route] = None
     THEN /\ LoadFrom(route, server[route])
          /\ marks' = marks \cup MarkIf(Outdated(route, server[route]), "stale")
     ELSE UNCHANGED <<edited, marks>>
  /\ UNCHANGED <<plan, server, reqs, page, route, mount, fails, created>>

\* An error hides the editor even if there is a copy; its state lives on.
FetchFails ==
  /\ page = "editor" /\ route # None
  /\ \/ server[route] = None /\ UNCHANGED fails
     \/ mount + fails < plan.budget /\ fails' = fails + 1
  /\ errored' = TRUE
  /\ UNCHANGED <<plan, server, cache, reqs, page, route, mount, edited, created, marks>>

\* A control of one of the columns or the toolbar calls updateState.
Type(e) ==
  /\ Shown /\ e \in plan.edits /\ Typeable(text, e)
  /\ text' = text \cup {e}
  /\ dirty' = TRUE
  /\ timer' = [doc |-> doc, text |-> text']
  /\ armed' = TRUE
  /\ UNCHANGED <<plan, server, cache, reqs, page, route, errored, mount, doc, saving,
                 fails, created, marks>>

\* Mutant: a timer that fires during a save gives up.
TimerFiresUnlessSaving ==
  /\ page = "editor" /\ timer # None /\ Len(reqs) < MaxReqs
  /\ reqs' = IF saving THEN reqs ELSE Append(reqs, Save(timer.doc, timer.text))
  /\ saving' = TRUE /\ timer' = None
  /\ UNCHANGED <<plan, server, cache, page, route, errored, mount, doc, text, dirty, armed,
                 fails, created, marks>>

\* 1500 ms after the last edit: the save works on what the timer captured.
TimerFires ==
  /\ page = "editor" /\ timer # None /\ Len(reqs) < MaxReqs
  /\ reqs' = Append(reqs, Save(timer.doc, timer.text))
  /\ saving' = TRUE /\ timer' = None
  /\ UNCHANGED <<plan, server, cache, page, route, errored, mount, doc, text, dirty, armed,
                 fails, created, marks>>

\* The Save buttons are disabled while saving or when nothing is dirty.
SaveNow ==
  /\ Shown /\ ~saving /\ dirty /\ Len(reqs) < MaxReqs
  /\ reqs' = Append(reqs, Save(doc, text))
  /\ saving' = TRUE /\ timer' = None
  /\ UNCHANGED <<plan, server, cache, page, route, errored, mount, doc, text, dirty, armed,
                 fails, created, marks>>

\* One click on a master switch or an item of the menu at a time.
Idle == Len(reqs) < MaxReqs /\ \A r \in InFlight : r.kind \notin {"master", "delete"}

ToggleMaster ==
  /\ Shown /\ doc # None /\ Idle
  /\ reqs' = Append(reqs, Sent("master", doc, {}))
  /\ UNCHANGED <<plan, server, cache, page, route, errored, mount, edited, fails, created, marks>>

\* The menu of a card of the list: "Set as Master", and "Delete" with its dialog.
ListMenu(d) ==
  /\ page = "list" /\ server[d] # None /\ Idle
  /\ \E kind \in {"master", "delete"} : reqs' = Append(reqs, Sent(kind, d, {}))
  /\ UNCHANGED <<plan, server, cache, page, route, errored, mount, edited, fails, created, marks>>

\* Something the payload takes is neither stored nor on its way, and the
\* resume was not deleted.
Uncovered == /\ Payload(text) \ (StoredAnywhere \cup Carried) # {}
             /\ doc = None \/ server[doc] # None

\* Mutant: only a timer that has not fired yet is flushed.
LeaveFlushesTimer ==
  /\ page = "editor"
  /\ LET flush == timer # None /\ dirty IN
       /\ reqs' = IF flush THEN Append(reqs, Save(doc, text)) ELSE reqs
       /\ marks' = marks \cup MarkIf(~flush /\ Uncovered, "dropped")
  /\ page' = "list" /\ route' = None /\ errored' = FALSE
  /\ Blank
  /\ UNCHANGED <<plan, server, cache, mount, fails, created>>

\* The editor is left within the application: what is dirty is flushed.
Leave ==
  /\ page = "editor"
  /\ LET flush == armed /\ dirty IN
       /\ reqs' = IF flush THEN Append(reqs, Save(doc, text)) ELSE reqs
       /\ marks' = marks \cup MarkIf(~flush /\ Uncovered, "dropped")
  /\ page' = "list" /\ route' = None /\ errored' = FALSE
  /\ Blank
  /\ UNCHANGED <<plan, server, cache, mount, fails, created>>

\* The tab is closed, or loaded anew by a link of the sidebar; the browser asks
\* first if the editor is dirty.  What the API still does with requests in
\* flight nobody sees any more.
CloseTab ==
  /\ page # "closed"
  /\ page' = "closed" /\ route' = None /\ errored' = FALSE
  /\ marks' = marks \cup MarkIf(~dirty /\ Uncovered, "dropped")
  /\ Blank /\ reqs' = <<>>
  /\ UNCHANGED <<plan, server, cache, mount, fails, created>>

----------------------------------------------------------------------------
(* The API takes a request; requests in flight may overtake one another.   *)
Finish(i, step, d, copy) ==
  reqs' = [reqs EXCEPT ![i].step = step, ![i].doc = d, ![i].reply = copy]
Unused == Docs \ UNION Range(created)

ServePost(i, r) ==
  /\ r.kind = "post" /\ ~Refused(r.body) /\ Unused # {}
  /\ LET d == Min(Unused) IN
       /\ server' = [server EXCEPT ![d] = r.body]
       /\ created' = [created EXCEPT ![r.by] = @ \cup {d}]
       /\ Finish(i, "done", d, r.body)
  /\ UNCHANGED marks

ServePut(i, r) ==
  /\ r.kind = "put" /\ ~Refused(r.body) /\ server[r.doc] # None
  /\ server' = [server EXCEPT ![r.doc] = r.body]
  /\ Finish(i, "done", r.doc, r.body)
  /\ marks' = marks \cup MarkIf(\E j \in 1..(i - 1) : /\ reqs[j].kind = "put"
                                                      /\ reqs[j].doc = r.doc
                                                      /\ reqs[j].step = "sent", "reordered")
  /\ UNCHANGED created

ServeMaster(i, r) ==
  /\ r.kind = "master" /\ server[r.doc] # None
  /\ Finish(i, "done", r.doc, server[r.doc])
  /\ UNCHANGED <<plan, server, created, marks>>

ServeDelete(i, r) ==
  /\ r.kind = "delete" /\ server[r.doc] # None
  /\ server' = [server EXCEPT ![r.doc] = None]
  /\ Finish(i, "done", r.doc, None)
  /\ marks' = marks \cup MarkIf(route = r.doc \/ doc = r.doc
                                  \/ \E q \in Writes : q.doc = r.doc, "gone")
  /\ UNCHANGED created

\* 404 and 422; a bound: a resume the identities do not suffice for is refused.
Refuse(i, r) ==
  /\ \/ r.kind # "post" /\ server[r.doc] = None
     \/ r.kind \in {"post", "put"} /\ Refused(r.body)
     \/ r.kind = "post" /\ Unused = {}
  /\ Finish(i, "failed", r.doc, None)
  /\ marks' = marks \cup MarkIf(r.kind \in {"post", "put"}, "refused")
  /\ UNCHANGED <<plan, server, created>>

Serve(i) ==
  /\ i \in DOMAIN reqs /\ reqs[i].step = "sent"
  /\ \/ ServePost(i, reqs[i])
     \/ ServePut(i, reqs[i])
     \/ ServeMaster(i, reqs[i])
     \/ ServeDelete(i, reqs[i])
     \/ Refuse(i, reqs[i])
  /\ UNCHANGED <<plan, cache, page, route, errored, mount, edited, fails>>

\* The request or its answer is lost, or the API answers 500.
Fail(i) ==
  /\ i \in DOMAIN reqs /\ reqs[i].step \in {"sent", "done"}
  /\ mount + fails < plan.budget
  /\ reqs' = [reqs EXCEPT ![i].step = "failed", ![i].reply = None]
  /\ fails' = fails + 1
  /\ marks' = marks \cup {"failed"}
  /\ UNCHANGED <<plan, server, cache, page, route, errored, mount, edited, created>>

----------------------------------------------------------------------------
(* The client takes an answer: first the hooks of useResumes, then the     *)
(* continuation of the editor that sent the request, if it is still open.  *)

SetQueryData(r) == /\ cache' = [cache EXCEPT ![r.doc] = r.reply]
                   /\ errored' = (errored /\ route # r.doc)

\* An editor that had no copy of its resume yet takes the first one.
MaybeLoad(r) ==
  IF page = "editor" /\ route = r.doc /\ cache[r.doc] = None /\ cache'[r.doc] # None
  THEN LoadFrom(r.doc, r.reply) /\ marks' = marks \cup MarkIf(Outdated(r.doc, r.reply), "stale")
  ELSE UNCHANGED <<edited, marks>>

\* Whatever was typed meanwhile, dirty is cleared; only the id is merged.
AnswerSave(i, r) ==
  /\ r.kind \in {"post", "put"} /\ r.step = "done"
  /\ IF r.kind = "put" THEN SetQueryData(r) ELSE UNCHANGED <<cache, errored>>
  /\ IF Mine(r)
     THEN /\ doc' = r.doc /\ dirty' = FALSE /\ saving' = FALSE
          /\ marks' = marks \cup MarkIf(Payload(text) # r.body, "masked")
                            \cup MarkIf(Payload(text) # r.body /\ timer = None
                                          /\ {q \in Writes : Mine(q)} = {r}, "silent")
          /\ UNCHANGED <<text, timer, armed>>
     ELSE MaybeLoad(r)

SaveFailed(i, r) ==
  /\ r.kind \in {"post", "put"} /\ r.step = "failed"
  /\ saving' = (saving /\ ~Mine(r))
  /\ marks' = marks \cup MarkIf(Mine(r) /\ ~dirty, "silent")
  /\ UNCHANGED <<cache, errored, doc, text, dirty, timer, armed>>

AnswerMaster(i, r) ==
  /\ r.kind = "master" /\ r.step = "done"
  /\ SetQueryData(r)
  /\ MaybeLoad(r)

AnswerOther(i, r) ==
  /\ \/ r.kind = "delete" /\ r.step = "done"
     \/ r.kind \in {"master", "delete"} /\ r.step = "failed"
  /\ UNCHANGED <<cache, errored, edited, marks>>

Answer(i) ==
  /\ page # "closed" /\ i \in DOMAIN reqs
  /\ \/ AnswerSave(i, reqs[i])
     \/ SaveFailed(i, reqs[i])
     \/ AnswerMaster(i, reqs[i])
     \/ AnswerOther(i, reqs[i])
  /\ reqs' = RemoveAt(reqs, i)
  /\ UNCHANGED <<plan, server, page, route, mount, fails, created>>

----------------------------------------------------------------------------
Next ==
  \/ \E d \in Docs : Open(d) \/ ListMenu(d)
  \/ OpenNew \/ Fetch \/ FetchFails
  \/ \E e \in Edits : Type(e)
  \/ TimerFires \/ SaveNow \/ ToggleMaster
  \/ Leave \/ CloseTab
  \/ \E i \in DOMAIN reqs : Serve(i) \/ Fail(i) \/ Answer(i)

\* Timers fire and requests are answered or fail; the user owes nothing.
Fairness == WF_vars(TimerFires) /\ WF_vars(Serve(1) \/ Answer(1))

Spec == Init /\ [][Next]_vars /\ Fairness

----------------------------------------------------------------------------
\* Every variable has its type: stored texts, copies, requests and the editor's own
\* state, whatever order the answers come in.
TypeOK ==
  /\ plan \in Plans
  /\ server \in [Docs -> Copies] /\ cache \in [Docs -> Copies]
  /\ reqs \in Seq(Request)
  /\ page \in {"list", "editor", "closed"} /\ route \in Docs \cup {None}
  /\ errored \in BOOLEAN /\ mount \in 0..plan.budget
  /\ doc \in Docs \cup {None} /\ text # None /\ text \subseteq Edits
  /\ dirty \in BOOLEAN /\ saving \in BOOLEAN /\ armed \in BOOLEAN
  /\ timer \in [doc : Docs \cup {None}, text : SUBSET Edits] \cup {None}
  /\ fails \in 0..plan.budget /\ created \in [0..plan.budget -> SUBSET Docs]
  /\ marks \subseteq Marks

\* "Saved" in the toolbar means stored: once nothing is dirty, no timer runs
\* and no save is under way, the resume holds what the payload takes of the
\* text, and so every named card the preview shows - unless saves overtook each
\* other, the editor opened on an old copy, or the last save failed or ended
\* after another had cleared dirty (save, updateState).
SavedMeansStored ==
  page = "editor" /\ doc # None /\ ~dirty /\ timer = None /\ Writes = {}
    /\ marks \cap {"reordered", "stale", "silent"} = {} /\ server[doc] # None
  => /\ server[doc] = Payload(text)
     /\ \A e \in Preview(text) :
          e.form \in Cards /\ Has(text, e, NamingFields[e.form]) => e \in server[doc]

\* docs/issues/023: "No duplicate/double-save fires when the debounce timer would
\* have fired naturally around the same time as the navigation": an editor opened
\* on a new resume creates one, however the timer, the button and the flush on
\* leaving fall together.
OneResumePerEditor ==
  \A m \in 1..plan.budget : Cardinality(created[m]) <= 1

\* Leaving the editor, or closing the tab without being asked, drops nothing
\* typed: it is stored or on its way - unless a save that ended cleared dirty
\* while later edits were waiting for the timer, saves overtook each other, or
\* the editor opened on a copy whose text is stored no more (unmount effect,
\* beforeunload).
NothingDropped ==
  "dropped" \in marks => marks \cap {"masked", "reordered", "stale"} # {}

\* Everything typed that a save takes is stored in the end, without a click,
\* unless the tab is closed, a request fails or is refused, saves overtake each
\* other, the resume is deleted, or the edit was dropped (debouncedSave, unmount).
EditsSettle ==
  \A e \in Followed :
    page = "editor" /\ dirty /\ e \in Payload(text)
      ~> \/ e \in StoredAnywhere
         \/ page = "closed"
         \/ marks \cap {"failed", "refused", "reordered", "dropped", "gone"} # {}

============================================================================
