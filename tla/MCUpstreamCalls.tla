-------------------------- MODULE MCUpstreamCalls --------------------------
(* Two credentials of different kinds, and one custom API. *)
EXTENDS UpstreamCalls
=============================================================================
