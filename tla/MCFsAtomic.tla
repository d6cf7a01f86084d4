----------------------------- MODULE MCFsAtomic -----------------------------
(* FsAtomic for TLC. *)
EXTENDS FsAtomic

=============================================================================
