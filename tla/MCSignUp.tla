------------------------------- MODULE MCSignUp -------------------------------
(* Instances of SignUp for TLC. *)
EXTENDS SignUp, TLC

CONSTANTS r1, r2, r3, e1, e2, p1, p2

MCRoles == {"customer", "seller"}
Symmetry == Permutations(Req) \cup Permutations(Emails) \cup Permutations(Passwords)
=============================================================================
