--------------------------- MODULE MCRegistration ---------------------------
(* Two requests at a time for one e-mail address, which differ in nothing but *)
(* their name; one failing call or one crash.                                 *)
EXTENDS Registration, TLC

Symmetry == Permutations(Requests)

OneFailure == faults + crashes <= 1
=============================================================================
