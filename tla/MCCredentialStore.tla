-------------------------- MODULE MCCredentialStore --------------------------
(* CredentialStore for TLC.  Threads are interchangeable, and so are the   *)
(* refresh tokens of one account.                                          *)
EXTENDS CredentialStore, TLC

Symmetry == Permutations(Threads) \cup UNION {Permutations(a) : a \in Accounts}

=============================================================================
