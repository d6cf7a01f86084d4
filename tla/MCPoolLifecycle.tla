--------------------------- MODULE MCPoolLifecycle ---------------------------
(* PoolLifecycle for TLC: credentials are numbers. *)
EXTENDS PoolLifecycle

\* 1 and 2 are clones of one account, as are 3 to 5.
Cloned(i) == i \div 3

=============================================================================
