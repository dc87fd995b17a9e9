----------------------------- MODULE MCResumes -----------------------------
(* Instances of Resumes for TLC. *)
EXTENDS Resumes, TLC

CONSTANTS r1, r2, r3, a, b, c, d

MCPayloads == {{"list", "summary"}, {"list"}}
MCEmpties == {{}, {"summary"}}
RequestSymmetry == Permutations(Requests)
=============================================================================
