----------------------------- MODULE SseStream -----------------------------
(***************************************************************************)
(* One streamed answer: the upstream's frames, found in its bytes by        *)
(* EventStreamDecoder, become the client's events through StreamContext     *)
(* (anthropic/stream.rs). create_sse_stream (anthropic/handlers.rs) passes  *)
(* them on as they come, and may reopen the upstream while the client has   *)
(* seen nothing (first-token retry); create_buffered_sse_stream keeps them  *)
(* all to the end.                                                          *)
(*                                                                          *)
(* StreamContext is a record that the operators below transform; `out' is   *)
(* the batch of events a handler returns. Of texts only their effect is     *)
(* kept: a piece of text is emitted, held back in one of the filters'       *)
(* buffers or dropped; a thinking tag opens or closes; a tool call spelled  *)
(* out as text is turned into a tool block. Token counts become "something  *)
(* was produced".                                                           *)
(*                                                                          *)
(* Keep-alive pings, which may go out at any time, before message_start     *)
(* too, are left out: NoReopenAfterBytes speaks of the other events.        *)
(***************************************************************************)
EXTENDS Naturals, Sequences, FiniteSets, SequencesExt

CONSTANTS Tools,       \* tool_use_ids
          MaxFrames,   \* frames the upstream sends
          MaxPieces,   \* pieces of one frame's text
          MaxRetries,  \* first-token retries
          MaxErrors    \* DEFAULT_MAX_ERRORS (5), consecutive undecodable frames

ASSUME BoundsAssumption ==
    /\ {MaxFrames, MaxPieces, MaxRetries} \subseteq Nat /\ MaxErrors \in Nat \ {0}
    /\ IsFiniteSet(Tools)

VARIABLES
    thinking,   \* the client asked for thinking
    mode,       \* "plain", "retry" (with first-token retry) or "buffered"
    ctx,        \* StreamContext of the current upstream
    initial,    \* the events held back until the commit, in "buffered" all of them
    full,       \* buffer_overflowed
    committed,  \* something was written to the client
    used,       \* retries_used
    errors,     \* the decoder's error_count
    finished,   \* the last batch was returned
    emitted,    \* UsageEmitGuard.emitted
    outbox,     \* events returned and not yet taken by the client
    sent,       \* events the client took
    records,    \* usage records written for this stream
    noted,      \* the provider's usage records of reopenings that failed
    dropped,    \* the client closed the stream
    frames      \* frames the upstream sent (bound)

vars == <<thinking, mode, ctx, initial, full, committed, used, errors, finished, emitted,
          outbox, sent, records, noted, dropped, frames>>

M == INSTANCE MessageStream WITH log <- sent

E(type, block) == M!Event(type, block)

----------------------------------------------------------------------------
(* SseStateManager: blocks, numbered from 1, of a type, open or closed.     *)

\* handle_content_block_stop, for a block that is open
StopBlock(c, b) ==
    IF b \in DOMAIN c.blocks /\ c.blocks[b].open
    THEN [c EXCEPT !.blocks[b].open = FALSE,
                   !.out = Append(@, E("content_block_stop", b))]
    ELSE c

\* handle_content_block_delta: nothing is sent to a block that is not open.
Delta(c, b) ==
    IF b \in DOMAIN c.blocks /\ c.blocks[b].open
    THEN [c EXCEPT !.out = Append(@, E("content_block_delta", b))]
    ELSE c

\* The open blocks of the types, stopped in the order of their index.
StopOpen(c, types) ==
    LET run[b \in 0..Len(c.blocks)] ==
            IF b = 0 THEN c
            ELSE IF c.blocks[b].type \in types THEN StopBlock(run[b - 1], b) ELSE run[b - 1]
    IN  run[Len(c.blocks)]

\* next_block_index and handle_content_block_start: a tool closes open texts.
StartBlock(c, type) ==
    [IF type = "tool_use" THEN StopOpen([c EXCEPT !.hasTool = TRUE], {"text"}) ELSE c
        EXCEPT !.blocks = Append(@, [type |-> type, open |-> TRUE]),
               !.out = Append(@, E(type, Len(c.blocks) + 1))]

\* create_text_delta_events: into the open text block, or a new one.
TextDelta(c) ==
    IF c.text \in DOMAIN c.blocks /\ c.blocks[c.text].open
    THEN [Delta(c, c.text) EXCEPT !.body = TRUE]
    ELSE LET b == Len(c.blocks) + 1
         IN  [Delta(StartBlock(c, "text"), b) EXCEPT !.text = b, !.body = TRUE]

\* create_thinking_delta_event asks nobody whether the block is open.
ThinkingDelta(c) == [c EXCEPT !.out = Append(@, E("content_block_delta", c.think))]

OpenThinking(c) == [StartBlock(c, "thinking") EXCEPT !.think = Len(c.blocks) + 1,
                                                     !.inThinking = TRUE]

\* close_reasoning_thinking_block: an empty delta, the signature, the stop.
CloseThinking(c) ==
    [StopBlock(ThinkingDelta(ThinkingDelta(c)), c.think)
        EXCEPT !.inThinking = FALSE, !.extracted = TRUE]

\* Tools and the end of the stream close a thinking block that is open.
SealThinking(c) == IF thinking /\ c.inThinking THEN CloseThinking(c) ELSE c

----------------------------------------------------------------------------
(* StreamContext *)

NewContext == [blocks |-> <<>>, text |-> 0, think |-> 0, inThinking |-> FALSE,
               extracted |-> FALSE, reasoned |-> FALSE, tools |-> [t \in Tools |-> 0],
               pending |-> {}, hasTool |-> FALSE, terminal |-> FALSE, held |-> FALSE,
               body |-> FALSE, produced |-> FALSE, discarded |-> FALSE, ok |-> TRUE,
               told |-> FALSE, out |-> <<>>]

\* generate_initial_events
Initial(c) ==
    LET d == [c EXCEPT !.out = Append(@, E("message_start", 0))]
    IN  IF thinking THEN d ELSE [StartBlock(d, "text") EXCEPT !.text = 1]

\* reopen_stream's new context has gone through the initial events the client
\* will get from the first one.
FreshMutant == NewContext

Fresh == [Initial(NewContext) EXCEPT !.out = <<>>]

Fail(c) == [c EXCEPT !.ok = FALSE]

\* The in-band error event; also every error the stream itself adds.
Tell(c) == [c EXCEPT !.out = Append(@, E("error", 0)), !.told = TRUE]
TellOnce(c) == IF c.told THEN c ELSE Tell(c)

\* synthesize_tool_use: a tool call found in the text, whole or lacking fields.
Synthesize(c) ==
    LET b == Len(c.blocks) + 1
    IN  [StopBlock(Delta(StartBlock(c, "tool_use"), b), b)
            EXCEPT !.terminal = TRUE, !.body = TRUE]

\* "hold": kept back before it is counted as output, "keep": after.
Pieces == {"text", "open", "close", "invoke", "badinvoke", "hold", "keep"}

\* output_tokens grows: with thinking on for all text, else for what is visible.
Counts(c, p) ==
    p # "hold" /\ (thinking \/ (~c.inThinking /\ p \notin {"open", "close"}))

\* One piece of assistant text after the filters. With thinking on, a tag opens
\* the one thinking block of the text and closes it; without, what is between
\* the tags is dropped (strip_inline_thinking_when_disabled).
Piece(c, p) ==
    LET d == [c EXCEPT !.produced = @ \/ Counts(c, p)]
    IN  CASE p \in {"hold", "keep"} -> [d EXCEPT !.held = TRUE]
          [] p = "close" /\ c.inThinking ->
                IF thinking THEN CloseThinking(d) ELSE [d EXCEPT !.inThinking = FALSE]
          [] p = "close" /\ ~c.inThinking -> d
          [] p \notin {"hold", "keep", "close"} /\ c.inThinking ->
                IF thinking THEN ThinkingDelta(d) ELSE d
          [] p = "open" /\ ~c.inThinking /\ ~thinking -> [d EXCEPT !.inThinking = TRUE]
          [] p = "open" /\ ~c.inThinking /\ thinking /\ ~c.extracted -> OpenThinking(d)
          [] p = "invoke" /\ ~c.inThinking -> Synthesize(d)
          [] p = "badinvoke" /\ ~c.inThinking -> Fail(d)
          [] OTHER -> TextDelta(d)

\* process_assistant_response. Text after structured reasoning ends its block.
AssistantText(c, pieces) ==
    LET start == IF thinking /\ c.reasoned /\ c.inThinking /\ pieces # <<>>
                 THEN CloseThinking(c) ELSE c
        run[i \in 0..Len(pieces)] == IF i = 0 THEN start ELSE Piece(run[i - 1], pieces[i])
    IN  run[Len(pieces)]

\* process_reasoning_content
Reasoning(c) ==
    IF thinking
    THEN [ThinkingDelta(IF c.inThinking THEN c ELSE OpenThinking(c))
             EXCEPT !.reasoned = TRUE, !.produced = TRUE]
    ELSE [c EXCEPT !.discarded = TRUE]

\* fail_bug_c_if_missing and flush_tool_input: the whole input as one delta, or
\* a failure and no delta.
FlushTool(c, t, good) ==
    LET d == [c EXCEPT !.pending = @ \ {t}]
    IN  IF ~good THEN Fail(d)
        ELSE IF t \in c.pending THEN [Delta(d, d.tools[t]) EXCEPT !.produced = TRUE] ELSE d

\* Text held back for a thinking tag that never came goes before the tool.
ShowBeforeTool(c, wasThinking) ==
    IF thinking /\ c.held /\ (wasThinking \/ ~c.extracted)
    THEN [TextDelta(c) EXCEPT !.held = FALSE] ELSE c

OpenTool(c, t) ==
    IF c.tools[t] # 0 THEN StopOpen(c, {"text"})
    ELSE [StartBlock(c, "tool_use") EXCEPT !.tools[t] = Len(c.blocks) + 1]

CloseTool(c, t, good) ==
    StopBlock([FlushTool(c, t, good) EXCEPT !.terminal = TRUE], c.tools[t])

\* process_tool_use once its block is open: input is gathered until the stop.
ToolInput(c, t, input, stop, good) ==
    LET d == [c EXCEPT !.body = TRUE, !.pending = IF input THEN @ \cup {t} ELSE @]
    IN  IF stop THEN CloseTool(d, t, good) ELSE d

\* process_tool_use: thinking ends, what was held back comes first if it turns
\* out to be text, then the block.
ToolUse(c, t, first, input, stop, good) ==
    LET sealed == SealThinking([c EXCEPT !.hasTool = TRUE])
    IN  ToolInput(OpenTool(IF first THEN ShowBeforeTool(sealed, c.inThinking) ELSE sealed, t),
                  t, input, stop, good)

AllTypes == {"text", "tool_use", "thinking"}

\* The end of generate_final_events, when a terminal signal was seen or nothing
\* was shown: SseStateManager closes what is open and ends the message.
EndMessage(c) ==
    [StopOpen(c, AllTypes)
        EXCEPT !.out = @ \o <<E("message_delta", 0), E("message_stop", 0)>>]

\* The stages of generate_final_events. First the tools that got no stop, bad
\* being those whose gathered or missing input is unusable, in the order in which
\* a hash map hands out those that gathered some.
OpenTools(c) == { t \in Tools : c.tools[t] # 0 /\ c.blocks[c.tools[t]].open }

FlushPending(c, bad, order) ==
    LET Flush(d, t) == StopBlock(FlushTool(d, t, t \notin bad), d.tools[t])
        run[i \in 0..Len(order)] == IF i = 0 THEN c ELSE Flush(run[i - 1], order[i])
    IN  run[Len(order)]

EndTools(c, bad) == IF OpenTools(c) \cap bad # {} THEN Fail(c) ELSE c

\* Tools without parameters that never got a stop count as complete.
NoParam(c, bad) == c.pending = {} /\ OpenTools(c) \ bad # {}

\* What was held back is dropped as a marker, is a whole tool call after all, or
\* is text, counted as output or not.
ShowHeld(c, shown) ==
    CASE shown = "no" -> c
      [] shown = "invoke" -> Synthesize(c)
      [] shown = "badinvoke" -> Fail(c)
      [] OTHER -> [TextDelta(c) EXCEPT !.produced = @ \/ shown = "counted"]

\* Discarded reasoning stands in for a text that never came.
Degrade(c, degrade) ==
    IF degrade /\ ~thinking /\ ~c.body /\ c.ok /\ c.discarded
    THEN [TextDelta(c) EXCEPT !.terminal = TRUE, !.produced = TRUE] ELSE c

\* A message of thinking alone gets a text block too.
AddText(c) ==
    IF c.think # 0 /\ \A b \in DOMAIN c.blocks : c.blocks[b].type = "thinking"
    THEN [TextDelta(c) EXCEPT !.terminal = TRUE] ELSE c

\* Content and no terminal signal: the answer was cut off.
Conclude(c, noParam) ==
    IF c.ok /\ ~c.terminal /\ ~noParam /\ (c.body \/ c.hasTool)
    THEN TellOnce(Fail(StopOpen(c, AllTypes)))
    ELSE EndMessage(c)

\* generate_final_events
FinalEvents(c, bad, order, shown, degrade) ==
    LET ended == SealThinking(EndTools(FlushPending(c, bad, order), bad))
    IN  Conclude(AddText(Degrade(ShowHeld(ended, shown), degrade)), NoParam(c, bad))

----------------------------------------------------------------------------
(* create_sse_stream and create_buffered_sse_stream *)

Init ==
    /\ thinking \in BOOLEAN /\ mode \in {"plain", "retry", "buffered"}
    /\ ctx = Fresh
    /\ initial = Initial(NewContext).out
    /\ full = FALSE
    /\ committed = FALSE /\ used = 0 /\ errors = 0
    /\ finished = FALSE /\ emitted = FALSE
    /\ outbox = <<>> /\ sent = <<>> /\ records = <<>> /\ noted = 0
    /\ dropped = FALSE /\ frames = 0

Config == <<thinking, mode>>

\* The stream is polled again once the client took the last batch.
Polled == ~finished /\ ~dropped /\ outbox = <<>>
Selecting == Polled /\ (committed \/ mode # "plain")

\* One event of the batch is written to the client.
Deliver ==
    /\ outbox # <<>> /\ ~dropped
    /\ sent' = Append(sent, Head(outbox))
    /\ outbox' = Tail(outbox)
    /\ UNCHANGED <<Config, ctx, initial, full, committed, used, errors, finished, emitted,
                   records, noted, dropped, frames>>

\* Without first-token retry the initial events go out at once.
SendInitial ==
    /\ Polled /\ ~committed /\ mode = "plain"
    /\ committed' = TRUE
    /\ outbox' = initial /\ initial' = <<>>
    /\ UNCHANGED <<Config, ctx, full, used, errors, finished, emitted, sent, records, noted,
                   dropped, frames>>

\* A batch of a running stream. The first that is not empty commits, with the
\* initial events before it; process_and_buffer keeps it.
Commit(c) ==
    IF mode = "buffered" THEN initial' = initial \o c.out /\ UNCHANGED <<committed, outbox>>
    ELSE IF committed \/ c.out = <<>> THEN outbox' = c.out /\ UNCHANGED <<committed, initial>>
    ELSE committed' = TRUE /\ outbox' = initial \o c.out /\ initial' = <<>>

Continue(c) ==
    /\ Commit(c)
    /\ ctx' = [c EXCEPT !.out = <<>>]
    /\ frames' = frames + 1
    /\ UNCHANGED <<Config, used, finished, emitted, sent, records, noted, dropped>>

MayReceive == Selecting /\ frames < MaxFrames

\* is_stopped
Stopped == errors = MaxErrors

\* decode found a frame. In "buffered" its events may be what overflows the
\* buffer, which fails the answer; later frames are thrown away.
Frame(c) ==
    /\ MayReceive /\ ~Stopped /\ ~full
    /\ errors' = 0
    /\ \E over \in { o \in BOOLEAN : o => mode = "buffered" /\ c.out # <<>> } :
         full' = over /\ Continue(IF over THEN Fail(c) ELSE c)

TextFrame == \E n \in 0..MaxPieces : \E pieces \in [1..n -> Pieces] : Frame(AssistantText(ctx, pieces))
ReasoningFrame == Frame(Reasoning(ctx))
ToolFrame == \E t \in Tools, first, input, stop, good \in BOOLEAN :
                /\ stop \/ good
                /\ ctx.held \/ ~first
                /\ Frame(ToolUse(ctx, t, first, input, stop, good))
\* A toolUseEvent whose payload cannot be read: the answer has failed, the client
\* is told at the end.
BadToolFrame == Frame(Fail(ctx))
\* Event::Error, and Event::Exception but for the length limit.
ErrorFrame == Frame(Tell(Fail(ctx)))
\* A stop reason: contextUsage at 100%, the length limit, metadata.
StopFrame == Frame([ctx EXCEPT !.terminal = TRUE])

\* Bytes without a frame for the client: part of a frame, or a whole one that is
\* ignored (metering, an unknown event, a full buffer).
NoFrame ==
    /\ MayReceive /\ Continue(ctx)
    /\ errors' \in IF Stopped THEN {errors} ELSE {0, errors}
    /\ UNCHANGED full

\* decode fails: try_recover skips what it can, or the decoder stops for good.
\* create_sse_stream tells the client at once.
DecodeError ==
    /\ MayReceive /\ ~Stopped
    /\ errors' = errors + 1
    /\ Continue(IF errors' < MaxErrors THEN ctx
                ELSE IF mode = "buffered" THEN Fail(ctx) ELSE TellOnce(Fail(ctx)))
    /\ UNCHANGED full

\* UsageEmitGuard.emit: the outcome as the context has it now.
OutcomeOf(c, empty) == IF ~c.ok THEN "failed" ELSE IF empty THEN "empty" ELSE "success"

\* The last batch.
Finish(c, batch, empty) ==
    /\ ctx' = [c EXCEPT !.out = <<>>]
    /\ outbox' = batch
    /\ initial' = <<>>
    /\ finished' = TRUE /\ emitted' = TRUE
    /\ records' = IF emitted THEN records ELSE Append(records, OutcomeOf(c, empty))
    /\ UNCHANGED <<Config, full, used, errors, sent, dropped, frames>>

Endings == {"no", "invoke", "badinvoke", "counted", "uncounted"}

Finals(c) ==
    { FinalEvents(c, bad, order, shown, degrade) :
        bad \in SUBSET { t \in Tools : c.tools[t] # 0 },
        order \in SetToSeqs(c.pending),
        shown \in { e \in Endings : c.held \/ e = "no" },
        degrade \in { e \in BOOLEAN : c.discarded \/ ~e } }

\* near_empty_response: nothing produced, or next to nothing of a huge request.
MayBeEmpty(c) == { e \in BOOLEAN : IF c.hasTool THEN ~e ELSE ~c.produced => e }

\* What was held back, the error if the client was not told yet, the end of the
\* message. finish_and_get_all_events returns the first and the last together.
LastBatch(tell, c) ==
    LET error == IF tell THEN <<E("error", 0)>> ELSE <<>>
    IN  IF mode = "buffered" THEN error \o initial \o c.out ELSE initial \o error \o c.out

FinishTold(c, tell, empty) == Finish([c EXCEPT !.told = @ \/ tell], LastBatch(tell, c), empty)

\* The upstream failed.
FinishFailed == \E c \in Finals(Fail(ctx)) : FinishTold(c, ~c.told, FALSE)

\* The upstream ended. The context's end comes first, because it may find a
\* failure. An empty answer is an error and no end of the message.
UpstreamEndsMutant ==
    /\ Selecting
    /\ committed' = TRUE /\ UNCHANGED noted
    /\ \E c \in Finals(ctx) : \E empty \in MayBeEmpty(c) : FinishTold(c, FALSE, empty)

UpstreamEnds ==
    /\ Selecting
    /\ committed' = TRUE /\ UNCHANGED noted
    /\ \E c \in Finals(ctx) : \E empty \in MayBeEmpty(c) :
         IF c.ok /\ ~c.told /\ empty
         THEN Finish([c EXCEPT !.told = TRUE],
                     (IF mode = "buffered" THEN <<>> ELSE initial) \o <<E("error", 0)>>, TRUE)
         ELSE FinishTold(c, ~c.ok /\ ~c.told, empty)

\* reopen_stream: another upstream, a new context, nothing sent to the client.
Reopen ==
    /\ used' = used + 1
    /\ ctx' = Fresh
    /\ errors' = 0 /\ emitted' = FALSE
    /\ UNCHANGED <<Config, initial, full, committed, finished, outbox, sent, records, noted,
                   dropped, frames>>

MayReopenMutant == mode = "retry" /\ used < MaxRetries

MayReopen == ~committed /\ mode = "retry" /\ used < MaxRetries

FirstTokenTimeoutMutant == mode = "retry" /\ Selecting /\ ~committed /\ MayReopen /\ Reopen

\* The stream ends as failed without reopening or after a reopening whose call
\* failed. Of that call call_api_with_retry has left a usage record; the guard
\* writes the stream's own, of the upstream before.
GivesUp == FinishFailed /\ noted' = noted + (IF MayReopen THEN 1 ELSE 0)

\* The first token did not come in time: reopen, or end when that fails or the
\* retries are used up.
FirstTokenTimeout ==
    /\ mode = "retry" /\ Selecting /\ ~committed
    /\ \/ MayReopen /\ Reopen
       \/ GivesUp /\ UNCHANGED committed

\* The upstream's body cannot be read on.
ReadFails ==
    /\ Selecting
    /\ \/ MayReopen /\ Reopen
       \/ GivesUp /\ committed' = TRUE

\* The client closes the stream, also during a reopen: the guard is dropped.
ClientLeaves ==
    /\ ~dropped /\ ~(finished /\ outbox = <<>>)
    /\ dropped' = TRUE
    /\ emitted' = TRUE
    /\ records' = IF emitted THEN records ELSE Append(records, "interrupted")
    /\ UNCHANGED <<Config, ctx, initial, full, committed, used, errors, finished, outbox, sent,
                   noted, frames>>

Over == dropped \/ (finished /\ outbox = <<>>)

Done == Over /\ UNCHANGED vars

Next ==
    \/ Deliver \/ SendInitial
    \/ TextFrame \/ ReasoningFrame \/ ToolFrame \/ BadToolFrame \/ ErrorFrame \/ StopFrame
    \/ NoFrame \/ DecodeError
    \/ UpstreamEnds \/ FirstTokenTimeout \/ ReadFails
    \/ ClientLeaves \/ Done

Spec == Init /\ [][Next]_vars

\* A client takes what it is sent or leaves; the deadline of the first token is
\* a timer. Nothing is assumed of the upstream.
FairSpec == Spec /\ WF_vars(Deliver) /\ WF_vars(SendInitial) /\ WF_vars(FirstTokenTimeout)

----------------------------------------------------------------------------
(* Properties *)

Outcomes == {"success", "failed", "empty", "interrupted"}

TypeOK ==
    /\ {thinking, full, committed, finished, emitted, dropped} \subseteq BOOLEAN
    /\ mode \in {"plain", "retry", "buffered"} /\ errors \in 0..MaxErrors
    /\ used \in 0..MaxRetries /\ frames \in 0..MaxFrames
    /\ ctx.blocks \in Seq([type : AllTypes, open : BOOLEAN])
    /\ ctx.tools \in [Tools -> 0..Len(ctx.blocks)] /\ ctx.pending \subseteq Tools
    /\ {ctx.text, ctx.think} \subseteq 0..Len(ctx.blocks)
    /\ ctx.out = <<>>
    /\ records \in Seq(Outcomes) /\ noted \in Nat

\* Whatever the upstream sends, and over every reopening, the client's events
\* follow the protocol's order.
FollowsProtocol == M!Spec

\* A stream leaves exactly one usage record of its own, also when the client
\* leaves in the middle of a reopening or between the last batch and its delivery.
\* The provider leaves one beside it only if it was asked to reopen the upstream
\* and could not, once, and then the stream's own says "failed". Record and client
\* agree: what is recorded as a success ends with message_stop and holds no error;
\* every other ended stream holds an error.
OneTrueRecord ==
    /\ Len(records) <= 1
    /\ Over => Len(records) = 1
    /\ noted > 0 => noted = 1 /\ mode = "retry" /\ records = <<"failed">>
    /\ finished =>
        LET all == sent \o outbox IN
        IF records = <<"success">>
        THEN E("error", 0) \notin Range(all) /\ Last(all) = E("message_stop", 0)
        ELSE dropped \/ E("error", 0) \in Range(all)

\* Nothing of an abandoned upstream reaches the client: a stream that wrote
\* anything is never reopened.
NoReopenAfterBytes == [][used' # used => sent = <<>> /\ outbox = <<>>]_vars

\* With first-token retry a silent upstream cannot keep the client waiting.
FirstTokenDecides == mode = "retry" ~> committed \/ finished \/ dropped
=============================================================================
