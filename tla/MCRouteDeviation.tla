-------------------------- MODULE MCRouteDeviation --------------------------
(* Two plans of one device, two requests and two checks, of which at most
   MaxInFlight are under way at a time. *)
EXTENDS RouteDeviation, TLC

CONSTANTS p1, p2, d1, r1, r2, c1, c2, MaxInFlight

TwoPlans == {p1, p2}
OneDevice == {d1}
BothOfOne == [p \in TwoPlans |-> d1]
TwoRequests == {r1, r2}
TwoChecks == {c1, c2}
Symmetry == Permutations(TwoPlans) \cup Permutations(TwoRequests) \cup Permutations(TwoChecks)

InFlight == Cardinality({c \in Checks : ~CheckAt(c, "idle")})
              + Cardinality({r \in Requests : req[r].call # "idle"})

BoundedSpec == DeviationInit /\ [][DeviationNext /\ InFlight' <= MaxInFlight]_deviationVars

=============================================================================
