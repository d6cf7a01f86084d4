---------------------------- MODULE MCSseStream ----------------------------
(* Small instance of SseStream for TLC. *)
EXTENDS SseStream
=============================================================================
