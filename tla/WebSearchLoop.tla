--------------------------- MODULE WebSearchLoop ---------------------------
(***************************************************************************)
(* One streamed client request whose model may ask for web searches         *)
(* (anthropic/websearch.rs, with the MCP half of kiro/provider.rs).         *)
(*                                                                          *)
(* Two tasks share the request. The loop (run_web_search_loop) asks the     *)
(* model, answers a round of pure web_search calls by calling MCP, feeds    *)
(* the results back and asks again; it publishes its account after every    *)
(* round and tells the other task of each search as it begins and ends.     *)
(* The forwarder (the second spawn of mixed_websearch_stream_response)      *)
(* writes the client's event stream, and when the loop ends, panics or      *)
(* loses its client it must leave exactly one usage record of the request.  *)
(* The provider keeps records of its own beside it: one of each MCP call    *)
(* that it ends, and one of each call of the model that fails.              *)
(*                                                                          *)
(* Every call of either kind spends one of the request's shared calls. The  *)
(* model's rounds are UpstreamCalls' subject: here one spends some calls    *)
(* and answers or fails. Texts, queries and results are left out; a search  *)
(* is its begin and its done event.                                         *)
(***************************************************************************)
EXTENDS Naturals, Sequences, FiniteSetsExt, SequencesExt

CONSTANTS MaxCalls,     \* ABSOLUTE_MAX_TOTAL_RETRIES, the shared calls
          MaxRounds,    \* effective_web_search_rounds: max_uses, at most 5
          MaxSearches,  \* searches the model asks for in one round
          MaxCompress,  \* MAX_COMPRESS_RETRIES of run_round
          McpQuota,     \* compute_max_retries for the selectable accounts
          DirectCreds   \* accounts call_mcp_direct can take a token of

ASSUME BoundsAssumption ==
    /\ {MaxCalls, MaxRounds, MaxSearches, MaxCompress, DirectCreds} \subseteq Nat
    /\ McpQuota \in Nat \ {0}

VARIABLES
    left,       \* budget.remaining()
    calls,      \* calls really sent (history)
    pc,         \* where the loop is
    round,      \* round_idx
    compress,   \* compress_attempt of this round
    todo,       \* searches of this round not begun
    found,      \* searched: results of this round
    shown,      \* presentation: results of earlier rounds
    mcp,        \* this MCP call: attempts granted and left, the last error's kind
    published,  \* rounds in the progress cell
    result,     \* what the loop's task returned
    noted,      \* the provider's usage records: of MCP calls, of failed rounds
    hops,       \* the channel from the loop to the forwarder
    fwd,        \* where the forwarder is
    sent,       \* events the client received
    records,    \* the request's own usage records, in order
    gone,       \* the client closed the stream
    atLeave     \* rounds the model had answered when it did (history)

loopVars == <<left, calls, pc, round, compress, todo, found, shown, mcp, published, result,
              noted>>
vars == <<loopVars, hops, fwd, sent, records, gone, atLeave>>

Outcomes == {"ok", "err", "panic", "aborted"}
Running == "running"
NoCall == [granted |-> 0, tries |-> 0, poolDown |-> FALSE, direct |-> 0]

TypeOK ==
    /\ left \in 0..MaxCalls
    /\ calls \in Nat
    /\ pc \in {"round", "search", "mcp", "direct", "done"}
    /\ round \in 0..MaxRounds
    /\ compress \in 0..MaxCompress
    /\ todo \in 0..MaxSearches /\ found \in 0..MaxSearches
    /\ shown \in 0..(MaxRounds * MaxSearches)
    /\ mcp \in [granted : 0..McpQuota, tries : 0..McpQuota,
                poolDown : BOOLEAN, direct : 0..DirectCreds]
    /\ published \in 0..(MaxRounds + 1)
    /\ result \in [kind : Outcomes \cup {Running}, rounds : 0..(MaxRounds + 1)]
    /\ noted \in [mcp : Nat, failed : Nat]
    /\ hops \in Seq({"begin", "done"})
    /\ fwd \in {"start", "forward", "tail", "interrupt", "abort", "ended"}
    /\ sent \in Seq({"message_start", "begin", "done", "message_stop", "error"})
    /\ records \in Seq([kind : {"ok", "err", "interrupted"}, rounds : 0..(MaxRounds + 1)])
    /\ gone \in BOOLEAN
    /\ atLeave \in 0..(MaxRounds + 1)

Init ==
    /\ left = MaxCalls /\ calls = 0
    /\ pc = "round" /\ round = 0 /\ compress = 0
    /\ todo = 0 /\ found = 0 /\ shown = 0
    /\ mcp = NoCall
    /\ published = 0
    /\ result = [kind |-> Running, rounds |-> 0]
    /\ noted = [mcp |-> 0, failed |-> 0]
    /\ hops = <<>>
    /\ fwd = "start" /\ sent = <<>> /\ records = <<>>
    /\ gone = FALSE /\ atLeave = 0

----------------------------------------------------------------------------
(* The loop. A spent call is spent whatever it answers; the counter stops   *)
(* at zero.                                                                 *)

Consume(n) == /\ left' = left - Min({n, left})
              /\ calls' = calls + n

\* The task returns (or dies); its end of the hop channel is dropped with it.
Ends(kind, rounds) ==
    /\ pc' = "done"
    /\ result' = [kind |-> kind, rounds |-> rounds]

\* emit_record(build_mcp_record(..)): a call of call_mcp_with_retry has ended,
\* well or not; emit_record(fail_record): a call_api_with_retry has failed.
NotesMcp == noted' = [noted EXCEPT !.mcp = @ + 1]
NotesFailure == noted' = [noted EXCEPT !.failed = @ + 1]

LoopOnly == UNCHANGED <<fwd, sent, records, gone, atLeave>>

\* run_round: the body was too large; it is rebuilt from the uncompressed
\* conversation, smaller, and sent again.
CompressRetry ==
    /\ pc = "round" /\ compress < MaxCompress
    /\ \E k \in 1..left : Consume(k)
    /\ compress' = compress + 1
    /\ NotesFailure
    /\ UNCHANGED <<pc, round, todo, found, shown, mcp, published, result, hops>>
    /\ LoopOnly

\* run_round fails: no call left or the call fails for good, which the provider
\* has noted; or no body can be built, or the answer is an error, cut short or
\* an incomplete tool call, of which the provider knows nothing.
RoundFails ==
    /\ pc = "round"
    /\ \E k \in 0..left : Consume(k)
    /\ Ends("err", round)
    /\ NotesFailure \/ UNCHANGED noted
    /\ UNCHANGED <<round, compress, todo, found, shown, mcp, published, hops>>
    /\ LoopOnly

\* should_replay_round
Replays(n, clientTool) == n > 0 /\ ~clientTool /\ round < MaxRounds

\* The account of the round, as WebSearchProgress has it.
AccountedMutant == round

Accounted == round + 1

\* run_round answers, with n searches and maybe a client tool. The account of
\* the round is published before anything else happens to it; then either the
\* searches are made or the answer is the last.
RoundAnswers(n, clientTool) ==
    /\ pc = "round"
    /\ \E k \in 1..left : Consume(k)
    /\ published' = Accounted
    /\ IF Replays(n, clientTool)
       THEN pc' = "search" /\ todo' = n /\ UNCHANGED result
       ELSE Ends("ok", round + 1) /\ UNCHANGED todo
    /\ UNCHANGED <<round, compress, found, shown, mcp, hops, noted>>
    /\ LoopOnly

\* The next search: the client is told, then call_mcp_with_retry takes its
\* attempts from what is left.
BeginSearch ==
    /\ pc = "search" /\ todo > 0
    /\ todo' = todo - 1
    /\ hops' = Append(hops, "begin")
    /\ pc' = "mcp"
    /\ LET n == Min({McpQuota, left}) IN
       mcp' = [granted |-> n, tries |-> n, poolDown |-> FALSE, direct |-> DirectCreds]
    /\ UNCHANGED <<left, calls, round, compress, found, shown, published, result, noted>>
    /\ LoopOnly

\* All searches of the round are in the next request (append_search_round).
NextRound ==
    /\ pc = "search" /\ todo = 0
    /\ shown' = shown + found /\ found' = 0
    /\ round' = round + 1 /\ compress' = 0
    /\ pc' = "round"
    /\ UNCHANGED <<left, calls, todo, mcp, published, result, hops, noted>>
    /\ LoopOnly

----------------------------------------------------------------------------
(* One MCP call: call_mcp_with_retry, then perhaps call_mcp_direct.         *)

McpMoves == UNCHANGED <<round, compress, todo, shown, published>> /\ LoopOnly

\* acquire_context finds no account: the error is marked, nothing is sent.
McpNoAccount ==
    /\ pc = "mcp" /\ mcp.tries > 0
    /\ mcp' = [mcp EXCEPT !.tries = @ - 1, !.poolDown = TRUE]
    /\ UNCHANGED <<left, calls, pc, found, result, hops, noted>>
    /\ McpMoves

\* The account's endpoints are all sealed after 429s: nothing is sent.
McpNoEndpoint ==
    /\ pc = "mcp" /\ mcp.tries > 0
    /\ mcp' = [mcp EXCEPT !.tries = @ - 1, !.poolDown = FALSE]
    /\ UNCHANGED <<left, calls, pc, found, result, hops, noted>>
    /\ McpMoves

\* A call failed in a way another account, token or moment may mend: network,
\* quota, refreshed token, temporary limit, suspension, 401/403, 408/429/5xx.
McpRetry ==
    /\ pc = "mcp" /\ mcp.tries > 0
    /\ Consume(1)
    /\ mcp' = [mcp EXCEPT !.tries = @ - 1, !.poolDown = FALSE]
    /\ UNCHANGED <<pc, found, result, hops, noted>>
    /\ McpMoves

\* The attempts are given up early: an unsupported subscription or the third
\* temporary limit after a call, the wall clock before one.
McpStops ==
    /\ pc = "mcp" /\ mcp.tries > 0
    /\ \/ Consume(1) /\ mcp' = [mcp EXCEPT !.tries = 0, !.poolDown = FALSE]
       \/ /\ mcp.tries < mcp.granted
          /\ mcp' = [mcp EXCEPT !.tries = 0]
          /\ UNCHANGED <<left, calls>>
    /\ UNCHANGED <<pc, found, result, hops, noted>>
    /\ McpMoves

\* The call fails for good: no client, 400, another 4xx, no account left, or a
\* body that is no MCP answer, whose call is noted as a success by then. The
\* loop returns the error.
McpBails ==
    /\ pc = "mcp" /\ mcp.tries > 0
    /\ Consume(1) \/ UNCHANGED <<left, calls>>
    /\ NotesMcp
    /\ Ends("err", round + 1)
    /\ UNCHANGED <<mcp, found, hops>>
    /\ McpMoves

Found == /\ found' = found + 1
         /\ hops' = Append(hops, "done")
         /\ pc' = "search"
         /\ UNCHANGED <<mcp, result>>

McpAnswers ==
    /\ pc = "mcp" /\ mcp.tries > 0
    /\ Consume(1) /\ NotesMcp
    /\ Found
    /\ McpMoves

\* No attempt was granted: shared_budget_exhausted. What was found is kept
\* and the loop returns a success.
BudgetOut ==
    /\ pc = "mcp" /\ mcp.granted = 0
    /\ shown' = shown + found /\ found' = 0
    /\ NotesMcp
    /\ Ends("ok", round + 1)
    /\ UNCHANGED <<left, calls, round, compress, todo, mcp, published, hops>>
    /\ LoopOnly

McpGivesUpMutant ==
    /\ pc = "mcp" /\ mcp.granted > 0 /\ mcp.tries = 0
    /\ IF mcp.poolDown
       THEN mcp' = [mcp EXCEPT !.tries = Min({mcp.granted, left})] /\ UNCHANGED <<pc, result, noted>>
       ELSE Ends("err", round + 1) /\ NotesMcp /\ UNCHANGED mcp
    /\ UNCHANGED <<left, calls, found, hops>>
    /\ McpMoves

\* The attempts ran out. Only a last error "no account" leads to the direct
\* call; any other ends the loop.
McpGivesUp ==
    /\ pc = "mcp" /\ mcp.granted > 0 /\ mcp.tries = 0
    /\ IF mcp.poolDown THEN pc' = "direct" /\ UNCHANGED result
                       ELSE Ends("err", round + 1)
    /\ NotesMcp
    /\ UNCHANGED <<left, calls, mcp, found, hops>>
    /\ McpMoves

\* call_mcp_direct, which notes nothing, skips an account it was refused with in
\* the last minute.
DirectSkips ==
    /\ pc = "direct" /\ mcp.direct > 0
    /\ mcp' = [mcp EXCEPT !.direct = @ - 1]
    /\ UNCHANGED <<left, calls, pc, found, result, hops, noted>>
    /\ McpMoves

\* It is refused, and goes on with the next account while calls are left.
DirectGoesOnMutant == TRUE

DirectGoesOn == left' > 0

DirectFails ==
    /\ pc = "direct" /\ mcp.direct > 0
    /\ Consume(1)
    /\ mcp' = [mcp EXCEPT !.direct = @ - 1]
    /\ IF DirectGoesOn THEN UNCHANGED <<pc, result>> ELSE Ends("err", round + 1)
    /\ UNCHANGED <<found, hops, noted>>
    /\ McpMoves

DirectAnswers ==
    /\ pc = "direct" /\ mcp.direct > 0
    /\ Consume(1) /\ UNCHANGED noted
    /\ Found
    /\ McpMoves

DirectNone ==
    /\ pc = "direct" /\ mcp.direct = 0
    /\ Ends("err", round + 1)
    /\ UNCHANGED <<left, calls, mcp, found, hops, noted>>
    /\ McpMoves

\* The loop's task panics; the forwarder sees a JoinError.
LoopPanics ==
    /\ pc # "done"
    /\ Ends("panic", 0)
    /\ UNCHANGED <<left, calls, round, compress, todo, found, shown, mcp, published, hops, noted>>
    /\ LoopOnly

----------------------------------------------------------------------------
(* The forwarder and the client. A send fails once the client is gone.      *)

FwdOnly == UNCHANGED <<gone, atLeave>>

Report(kind, rounds) == records' = Append(records, [kind |-> kind, rounds |-> rounds])

\* message_start goes out at once; without a client the end is the usual one.
FwdStart ==
    /\ fwd = "start"
    /\ IF gone THEN fwd' = "interrupt" /\ UNCHANGED sent
               ELSE fwd' = "forward" /\ sent' = Append(sent, "message_start")
    /\ UNCHANGED <<loopVars, hops, records>> /\ FwdOnly

\* A hop is taken from the channel and sent (send_live_hop).
FwdHop ==
    /\ fwd = "forward" /\ hops # <<>>
    /\ hops' = Tail(hops)
    /\ IF gone THEN fwd' = "interrupt" /\ UNCHANGED sent
               ELSE sent' = Append(sent, Head(hops)) /\ UNCHANGED fwd
    /\ UNCHANGED <<loopVars, records>> /\ FwdOnly

\* The task is seen to have ended. The channel was looked at first, so what is
\* in it now came in between: it is drained before the end is reported. The
\* record of a panic is left to the common end.
FwdDrainMutant == sent

FwdDrain == IF gone THEN sent ELSE sent \o hops

FwdTaskEnded ==
    /\ fwd = "forward" /\ pc = "done"
    /\ hops' = <<>>
    /\ sent' = FwdDrain
    /\ IF result.kind = "panic" THEN UNCHANGED records
                                ELSE Report(result.kind, result.rounds)
    /\ fwd' = "tail"
    /\ UNCHANGED loopVars /\ FwdOnly

\* build_loop_sse_tail, or one error event.
FwdTail ==
    /\ fwd = "tail"
    /\ sent' = IF gone THEN sent
               ELSE Append(sent, IF result.kind = "ok" THEN "message_stop" ELSE "error")
    /\ fwd' = IF records = <<>> THEN "interrupt" ELSE "ended"
    /\ UNCHANGED <<loopVars, hops, records>> /\ FwdOnly

\* byte_tx.closed(): if the task has ended meanwhile its result is reported.
FwdClosed ==
    /\ fwd = "forward" /\ gone
    /\ IF result.kind \in {"ok", "err"}
       THEN Report(result.kind, result.rounds) /\ fwd' = "ended"
       ELSE fwd' = "interrupt" /\ UNCHANGED records
    /\ UNCHANGED <<loopVars, hops, sent>> /\ FwdOnly

\* A ping cannot be sent; the task may have ended since its branch was looked at.
FwdPingFails ==
    /\ fwd = "forward" /\ gone
    /\ fwd' = "interrupt"
    /\ UNCHANGED <<loopVars, hops, sent, records>> /\ FwdOnly

\* The common end: what is not reported is recorded from the progress cell,
\* then the task is aborted unless it has ended.
FwdInterrupt ==
    /\ fwd = "interrupt"
    /\ Report("interrupted", published)
    /\ fwd' = "abort"
    /\ UNCHANGED <<loopVars, hops, sent>> /\ FwdOnly

FwdAbort ==
    /\ fwd = "abort"
    /\ fwd' = "ended"
    /\ IF pc = "done" THEN UNCHANGED <<pc, result>> ELSE Ends("aborted", 0)
    /\ UNCHANGED <<left, calls, round, compress, todo, found, shown, mcp, published,
                   noted, hops, sent, records>>
    /\ FwdOnly

\* The rounds the model has answered.
Answered == CASE pc = "round" -> round
              [] pc = "done" -> result.rounds
              [] OTHER -> round + 1

ClientLeaves ==
    /\ ~gone /\ fwd # "ended"
    /\ gone' = TRUE /\ atLeave' = Answered
    /\ UNCHANGED <<loopVars, hops, fwd, sent, records>>

Finished == fwd = "ended" /\ pc = "done" /\ UNCHANGED vars

Loop ==
    \/ CompressRetry \/ RoundFails
    \/ \E n \in 0..MaxSearches, clientTool \in BOOLEAN : RoundAnswers(n, clientTool)
    \/ BeginSearch \/ NextRound
    \/ McpNoAccount \/ McpNoEndpoint \/ McpRetry \/ McpStops \/ McpBails \/ McpAnswers
    \/ BudgetOut \/ McpGivesUp
    \/ DirectSkips \/ DirectFails \/ DirectAnswers \/ DirectNone
    \/ LoopPanics

Forwarder ==
    \/ FwdStart \/ FwdHop \/ FwdTaskEnded \/ FwdTail \/ FwdClosed \/ FwdPingFails
    \/ FwdInterrupt \/ FwdAbort

Next == Loop \/ Forwarder \/ ClientLeaves \/ Finished

Spec == Init /\ [][Next]_vars

\* Both tasks are run by the runtime as long as they can go on: calls have
\* timeouts, and a client either takes what it is sent or leaves.
FairSpec == Spec /\ WF_vars(Loop) /\ WF_vars(Forwarder)

----------------------------------------------------------------------------
(* Properties *)

\* The calls of all rounds, searches and direct searches together stay within
\* the one budget of the request, though four loops draw on it.
BudgetHolds == calls <= MaxCalls /\ calls + left = MaxCalls

\* A request leaves exactly one usage record of its own, whichever of the loop's
\* end, the loop's panic and the client's leaving comes first and however they
\* race. It counts at least the rounds the model had answered when the client
\* left, and all of them when it stayed; "interrupted" is recorded only for a
\* client that left or a loop that panicked. The provider's records beside it
\* are one for every result of a search, plus one at most, of the search that
\* ended the loop or went on to a direct call, and one for every call that was
\* compressed and made again.
OneTrueRecord ==
    /\ Len(records) <= 1
    /\ fwd = "ended" =>
        LET r == records[1] IN
        /\ Len(records) = 1
        /\ r.rounds >= IF gone THEN atLeave ELSE result.rounds
        /\ r.kind = "interrupted" => gone \/ result.kind = "panic"
    /\ noted.mcp \in {shown + found, shown + found + 1}
    /\ noted.failed >= compress

\* The client's stream is well formed: message_start first, each search begun
\* before it is done and done before the next begins, nothing after the end.
\* One that stayed to the end of a successful request was shown every result
\* found, though they reach it through the channel and the end does not.
StreamComplete ==
    /\ \A i \in DOMAIN sent :
        /\ sent[i] = "message_start" <=> i = 1
        /\ sent[i] = "done" => sent[i - 1] = "begin"
        /\ sent[i] = "begin" => sent[i - 1] \in {"message_start", "done"}
        /\ sent[i] \in {"message_stop", "error"} => i = Len(sent)
    /\ fwd = "ended" /\ ~gone /\ result.kind = "ok" =>
        Cardinality({i \in DOMAIN sent : sent[i] = "done"}) = shown

\* Both tasks come to an end: an aborted loop does not run on for a client
\* that left.
BothEnd == <>(fwd = "ended" /\ pc = "done")
=============================================================================
