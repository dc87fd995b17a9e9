--------------------------- MODULE MasterRegister ---------------------------
(***************************************************************************)
(* What the resumes of one user promise, without transactions, locks,      *)
(* deadlocks or failed requests: resumes come, one after the other, and    *)
(* go for good, and the master flag moves from its old holder to the new   *)
(* one in a single step.  It is lost only with the resume that has it.     *)
(* Module Resumes implements this.                                         *)
(***************************************************************************)
CONSTANT Resumes  \* identities of resumes

VARIABLES
  live,    \* the resumes the user has
  gone,    \* the resumes that were deleted
  master   \* those that have the master flag

vars == <<live, gone, master>>

Init ==
  /\ live \subseteq Resumes
  /\ gone = {}
  /\ master \subseteq live
  /\ \A x, y \in master : x = y

Create(x) ==
  /\ x \notin live \cup gone
  /\ live' = live \cup {x}
  /\ UNCHANGED <<gone, master>>

\* A resume that is created as the master takes the flag over at once.
CreateMaster(x) ==
  /\ x \notin live \cup gone
  /\ live' = live \cup {x}
  /\ master' = {x}
  /\ UNCHANGED gone

SetMaster(x) ==
  /\ x \in live
  /\ master' = {x}
  /\ UNCHANGED <<live, gone>>

Delete(x) ==
  /\ x \in live
  /\ live' = live \ {x}
  /\ gone' = gone \cup {x}
  /\ master' = master \ {x}

Next ==
  \E x \in Resumes : Create(x) \/ CreateMaster(x) \/ SetMaster(x) \/ Delete(x)

Spec == Init /\ [][Next]_vars
=============================================================================
