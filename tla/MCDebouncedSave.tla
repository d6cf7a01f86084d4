--------------------------- MODULE MCDebouncedSave ---------------------------
(* DebouncedSave for TLC: the workers are model values, given in the cfg. *)
(* They are not declared a symmetry set, which liveness would not allow.  *)
EXTENDS DebouncedSave

=============================================================================
