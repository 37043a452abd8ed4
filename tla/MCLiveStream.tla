---------------------------- MODULE MCLiveStream ----------------------------
(* Two calls at a time for one device, two sessions.  Calls differ in nothing *)
(* but their name.                                                            *)
EXTENDS LiveStream, TLC

Symmetry == Permutations(Handlers)
=============================================================================
