------------------------- MODULE MCTelemetryIngest -------------------------
(* Two devices on one partition. *)
EXTENDS TelemetryIngest, TLC

CONSTANTS d1, d2

Dev == {d1, d2}

OnePart == {"p"}
OnOnePart == [d \in Dev |-> "p"]
=============================================================================
