--------------------------- MODULE MessageStream ---------------------------
(***************************************************************************)
(* What a client of the Anthropic API gets: the order of the events of one  *)
(* streamed message (the four rules of SseStateManager's comment,           *)
(* anthropic/stream.rs, and the place of an error among them). The client's *)
(* side of the connection is a log of events; the specification says which  *)
(* event may come next. Pings may come at any time and are left out.        *)
(*                                                                          *)
(* Comments in stream.rs ask for more: that a block is stopped before the   *)
(* next one starts. The code keeps to that for some pairs of blocks only;   *)
(* Beside says for which it does not.                                       *)
(***************************************************************************)
EXTENDS Naturals, Sequences

VARIABLE log

\* content_block_start is named by the kind of the block.
Kinds == {"text", "thinking", "tool_use"}

Event(type, block) == [type |-> type, block |-> block]
MessageEvents == {"message_start", "message_delta", "message_stop", "error"}
BlockEvents == Kinds \cup {"content_block_delta", "content_block_stop"}

\* A block is numbered after the blocks before it, and each of these is in the
\* log, so no number is greater than its length.
Blocks == 1..Len(log)
Events == { Event(t, 0) : t \in MessageEvents } \cup { Event(t, b) : t \in BlockEvents, b \in Blocks }

Seen(e) == \E i \in DOMAIN log : log[i] = e
SeenType(t) == Seen(Event(t, 0))
Started(b) == \E k \in Kinds : Seen(Event(k, b))
Stopped(b) == Seen(Event("content_block_stop", b))
IsOpen(b) == Started(b) /\ ~Stopped(b)
AllClosed == \A b \in Blocks : ~IsOpen(b)
OpenKinds == { k \in Kinds : \E b \in Blocks : Seen(Event(k, b)) /\ ~Stopped(b) }

\* The kinds of the open blocks among which a block of kind k may start: tools
\* run side by side, thinking may start in an open text; never is a text or a
\* thinking block open twice, or a tool or text started inside thinking.
Beside(k) == IF k = "thinking" THEN {"text", "tool_use"} ELSE {"tool_use"}

(* A message starts once and first. Blocks are numbered in the order they   *)
(* start; a block gets deltas and its one stop while it is open. The one    *)
(* message_delta waits for all blocks to be closed, message_stop ends the   *)
(* message. An error may come at any time before that.                      *)
Legal(e) ==
    CASE e.type = "message_start" -> ~SeenType("message_start")
      [] e.type \in Kinds ->
            /\ ~SeenType("message_delta") /\ SeenType("message_start") /\ ~Started(e.block)
            /\ \A b \in 1..(e.block - 1) : Started(b)
            /\ OpenKinds \subseteq Beside(e.type)
      [] e.type \in {"content_block_delta", "content_block_stop"} -> IsOpen(e.block)
      [] e.type = "message_delta" ->
            SeenType("message_start") /\ ~SeenType("message_delta") /\ AllClosed
      [] e.type = "message_stop" -> SeenType("message_delta") /\ ~SeenType("message_stop")
      [] OTHER -> ~SeenType("message_stop")

Init == log = <<>>

Receive(e) == log' = Append(log, e) /\ Legal(e)

Next == \E e \in Events : Receive(e)

Spec == Init /\ [][Next]_log
=============================================================================
