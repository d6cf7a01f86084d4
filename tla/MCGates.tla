------------------------------- MODULE MCGates -------------------------------
(* Gates for TLC: two credentials of one tenant. *)
EXTENDS Gates

OneFamily == [c \in Members |-> "tenant"]

\* In ticks: a suspicion's cooldown grows beyond that of a rate limit; the one
\* of a dead credential is longer than any Retry-After.
Lengths == [r \in CooldownReasons |->
    CASE r = "RateLimitExceeded"    -> [n \in Counts |-> 1]
      [] r = "ServerError"          -> [n \in Counts |-> 1]
      [] r = "SuspiciousActivity"   -> [n \in Counts |-> Min({n, 2})]
      [] r = "AuthTransient"        -> [n \in Counts |-> Min({n, 2})]
      [] r = "AuthenticationFailed" -> [n \in Counts |-> 3]]
Backoffs == [n \in Counts |-> Min({n, 3})]

=============================================================================
