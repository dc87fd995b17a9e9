------------------------------ MODULE MCShoot ------------------------------
(* Instances of Shoot for TLC. *)
EXTENDS Shoot

CONSTANTS u1, r1, r2, r3, x1, x2

MCUserOf == [r \in Requests |-> u1]
MCResumeOf == [x \in Resumes |-> u1]
=============================================================================
