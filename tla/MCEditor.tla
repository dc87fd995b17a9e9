----------------------------- MODULE MCEditor ------------------------------
(* Instances of Editor for TLC: two visits with the edits of one card, and *)
(* one visit, or one with a failure, with more edits.                      *)
EXTENDS Editor

Edit(form, entry, field) == [form |-> form, entry |-> entry, field |-> field]
Card(field) == Edit("experience", 1, field)
MCEdits == {Card("add"), Card("company"), Card("start"), Card("remove"),
            Edit("summary", 0, "content"), Edit("settings", 0, "margins")}
MCFollowed == {Card("company"), Edit("summary", 0, "content")}
MCPlans ==
  {[edits |-> {Card("add"), Card("company")}, budget |-> 2],
   [edits |-> {Card("add"), Card("company"), Card("start"), Card("remove")}, budget |-> 1],
   [edits |-> {Edit("summary", 0, "content"), Edit("settings", 0, "margins")}, budget |-> 1]}
=============================================================================
