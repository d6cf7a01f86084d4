------------------------------ MODULE MCAcquire ------------------------------
(* Acquire for TLC. *)
EXTENDS Acquire, TLC

\* The requests are interchangeable.
Perms == Permutations(Threads)

=============================================================================
