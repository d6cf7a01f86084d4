-------------------------- MODULE MCWebSearchLoop --------------------------
(* Small instance of WebSearchLoop for TLC. *)
EXTENDS WebSearchLoop
=============================================================================
