---- MODULE MCProfileArn ----
EXTENDS ProfileArn, TLC
(* Tasks differ only by name. *)
TaskSymmetry == Permutations(Tasks)
====
