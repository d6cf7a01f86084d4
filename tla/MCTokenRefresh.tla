---- MODULE MCTokenRefresh ----
EXTENDS TokenRefresh, TLC
(* Calls differ only by name. *)
FlightSymmetry == Permutations(Flights)
====
