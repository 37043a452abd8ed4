---------------------------- MODULE MCSpeedCheck ----------------------------
(* Speeds and limits are small numbers: 2 exceeds limit 1, nothing exceeds 2;
   limit 0 is a device without a limit. *)
EXTENDS SpeedCheck, TLC

CONSTANTS d1, c1, c2

OneDevice == {d1}
TwoChecks == {c1, c2}
SpeedValues == {0, 2}
LimitValues == {0, 1, 2}
=============================================================================
