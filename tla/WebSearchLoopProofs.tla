------------------------ MODULE WebSearchLoopProofs ------------------------
(***************************************************************************)
(* Proofs about WebSearchLoop, for any numbers of calls, rounds, searches, *)
(* attempts and accounts.                                                  *)
(***************************************************************************)
EXTENDS WebSearchLoop, FiniteSetTheorems, SequenceTheorems, TLAPS

(* Where a search has begun and is not done.                               *)
Searching == {"mcp", "direct"}

(* Every call is drawn from the shared ones; one MCP call never has more   *)
(* attempts left than calls, and the direct call is only made with one     *)
(* left: the last attempt met no account and spent nothing.                *)
Drawn ==
    /\ calls + left = MaxCalls
    /\ pc = "mcp" => /\ mcp.tries <= left
                     /\ mcp.poolDown => mcp.tries < left
    /\ pc = "direct" => left > 0

(* The searches that so many rounds can make.                              *)
Room(r) == r * MaxSearches

(* The searches of a round are at most those that the model asked for.     *)
Counted ==
    /\ pc = "round" => todo = 0 /\ found = 0
    /\ pc = "search" => found + todo <= MaxSearches
    /\ pc \in Searching => found + todo < MaxSearches
    /\ pc \in {"search"} \cup Searching => round < MaxRounds
    /\ pc # "done" => shown <= Room(round)

(* The account of the loop is published before anything else happens to    *)
(* the round, and its result has the same account.                         *)
Accounts ==
    /\ pc = "round" => published = round
    /\ pc \in {"search"} \cup Searching => published = round + 1
    /\ pc # "done" => result = [kind |-> Running, rounds |-> 0]
    /\ pc = "done" => result.kind \in Outcomes
    /\ result.kind \in {"ok", "err"} => result.rounds = published
    /\ result.kind \in {"panic", "aborted"} => result.rounds = 0
    /\ gone => atLeave <= published

(* What is recorded, along the forwarder's way.                            *)
Recorded ==
    /\ fwd \in {"start", "forward", "interrupt"} => records = <<>>
    /\ fwd \in {"tail", "ended"} => pc = "done"
    /\ result.kind = "aborted" => fwd = "ended"
    /\ fwd \in {"interrupt", "abort"} => gone \/ result.kind = "panic"
    /\ fwd = "tail" =>
          records = IF result.kind = "panic" THEN <<>> ELSE <<[kind |-> result.kind, rounds |-> result.rounds]>>
    /\ fwd \in {"abort", "ended"} =>
          /\ Len(records) = 1
          /\ records[1].rounds >= IF gone THEN atLeave ELSE result.rounds
          /\ records[1].kind = "interrupted" => gone \/ result.kind = "panic"

(* The i-th event of a stream that has not ended: a search is begun at the *)
(* even places and done at the odd ones.                                   *)
Due(i) == IF i = 1 THEN "message_start" ELSE IF i % 2 = 0 THEN "begin" ELSE "done"

(* The events of the stream and of the channel together, while the         *)
(* forwarder takes them over.                                              *)
Before == IF fwd = "start" THEN 1 ELSE Len(sent)
Length == Before + Len(hops)

Streamed ==
    /\ fwd = "start" => sent = <<>>
    /\ fwd \in {"forward", "tail"} => sent # <<>>
    /\ fwd \in {"start", "forward"} =>
          /\ \A j \in 1..Len(hops) : hops[j] = Due(Before + j)
          /\ pc # "done" => Length = 2 * (shown + found) + (IF pc \in Searching THEN 2 ELSE 1)
          /\ result.kind = "ok" => Length \in {2 * shown + 1, 2 * shown + 2}
    /\ \A i \in 1..Len(sent) :
          \/ sent[i] = Due(i)
          \/ sent[i] \in {"message_stop", "error"} /\ i = Len(sent) /\ i > 1 /\ fwd \notin {"forward", "tail"}
    /\ ~gone /\ result.kind = "ok" =>
          /\ fwd = "tail" => Len(sent) \in {2 * shown + 1, 2 * shown + 2}
          /\ fwd = "ended" => Len(sent) \in {2 * shown + 2, 2 * shown + 3} /\ sent[Len(sent)] = "message_stop"

(* The attempts of one MCP call.                                           *)
McpCalls == [granted : 0..McpQuota, tries : 0..McpQuota, poolDown : BOOLEAN, direct : 0..DirectCreds]

(* The loop's part of the state.                                           *)
LoopTypeOK ==
    /\ left \in 0..MaxCalls
    /\ calls \in Nat
    /\ pc \in {"round", "search", "mcp", "direct", "done"}
    /\ round \in 0..MaxRounds
    /\ compress \in 0..MaxCompress
    /\ todo \in 0..MaxSearches /\ found \in 0..MaxSearches
    /\ shown \in 0..Room(MaxRounds)
    /\ mcp \in McpCalls
    /\ published \in 0..(MaxRounds + 1)
    /\ result \in [kind : Outcomes \cup {Running}, rounds : 0..(MaxRounds + 1)]
    /\ hops \in Seq({"begin", "done"})

(* The forwarder's part of the state.                                      *)
FwdTypeOK ==
    /\ fwd \in {"start", "forward", "tail", "interrupt", "abort", "ended"}
    /\ sent \in Seq({"message_start", "begin", "done", "message_stop", "error"})
    /\ records \in Seq([kind : {"ok", "err", "interrupted"}, rounds : 0..(MaxRounds + 1)])
    /\ gone \in BOOLEAN
    /\ atLeave \in 0..(MaxRounds + 1)

(* The inductive invariant of the two tasks.                               *)
IInv == LoopTypeOK /\ FwdTypeOK /\ Drawn /\ Counted /\ Accounts /\ Recorded /\ Streamed

(* How many events are due once the searches shown, found and begun are    *)
(* told.                                                                   *)
Told == 2 * (shown + found) + (IF pc \in Searching THEN 2 ELSE 1)

(* What a step of the loop tells the forwarder.                            *)
Tells ==
    /\ pc # "done" /\ result'.kind # "aborted"
    /\ \/ hops' = hops /\ pc' # "done" /\ Told' = Told
       \/ /\ hops' = Append(hops, "begin") /\ pc' # "done" /\ Told' = Told + 1
          /\ Told % 2 = 1
       \/ /\ hops' = Append(hops, "done") /\ pc' # "done" /\ Told' = Told + 1
          /\ Told % 2 = 0 /\ Told > 0
       \/ /\ hops' = hops /\ pc' = "done"
          /\ result'.kind = "ok" => Told \in {2 * shown' + 1, 2 * shown' + 2}

LoopKeeps == LoopTypeOK' /\ Drawn' /\ Counted' /\ Accounts' /\ Tells

(* The smaller of two numbers.                                             *)
LEMMA MinOfTwo ==
    ASSUME NEW a \in Nat, NEW b \in Nat
    PROVE  Min({a, b}) = IF a <= b THEN a ELSE b
<1> DEFINE m == IF a <= b THEN a ELSE b
<1>1. m \in {a, b} /\ \A y \in {a, b} : m =< y
  OBVIOUS
<1>2. \A x \in {a, b} : (\A y \in {a, b} : x =< y) => x = m
  OBVIOUS
<1> QED
  BY <1>1, <1>2 DEF Min

(* A call that is there is drawn from the shared ones.                     *)
LEMMA ConsumeDraws ==
    ASSUME LoopTypeOK, calls + left = MaxCalls, NEW n \in Nat, n <= left, Consume(n)
    PROVE  left' = left - n /\ left' \in 0..MaxCalls /\ calls' \in Nat /\ calls' + left' = MaxCalls
<1>1. left \in Nat /\ calls \in Nat /\ MaxCalls \in Nat
  BY BoundsAssumption DEF LoopTypeOK
<1>2. Min({n, left}) = n
  BY <1>1, MinOfTwo
<1> QED
  BY <1>1, <1>2 DEF Consume

(* What has been shown fits the rounds that were shown.                    *)
LEMMA ShownFits ==
    ASSUME NEW r \in Nat, r < MaxRounds, NEW s \in Nat, s <= Room(r), NEW f \in 0..MaxSearches
    PROVE  s + f <= Room(r + 1) /\ s + f \in 0..Room(MaxRounds)
<1>1. MaxRounds \in Nat /\ MaxSearches \in Nat
  BY BoundsAssumption
<1>2. (r + 1) * MaxSearches = r * MaxSearches + MaxSearches /\ r * MaxSearches \in Nat
  BY <1>1
<1>3. s + f <= (r + 1) * MaxSearches
  BY <1>1, <1>2 DEF Room
<1>4. (r + 1) * MaxSearches <= MaxRounds * MaxSearches
  <2>1. PICK k \in Nat : MaxRounds = (r + 1) + k
    <3>1. MaxRounds - (r + 1) \in Nat /\ MaxRounds = (r + 1) + (MaxRounds - (r + 1))
      BY <1>1
    <3> QED
      BY <3>1
  <2>2. ((r + 1) + k) * MaxSearches = (r + 1) * MaxSearches + k * MaxSearches /\ k * MaxSearches \in Nat
    BY <1>1
  <2> QED
    BY <1>1, <1>2, <2>1, <2>2
<1> QED
  BY <1>1, <1>2, <1>3, <1>4 DEF Room

(* An account that is tried leaves the record of the MCP call in its type. *)
LEMMA DirectSpent ==
    ASSUME NEW m \in McpCalls, NEW n \in Nat, n <= m.direct
    PROVE  [m EXCEPT !.direct = n] \in McpCalls
<1>1. n \in 0..DirectCreds
  BY BoundsAssumption DEF McpCalls
<1> QED
  BY <1>1 DEF McpCalls

(* Odd and even numbers of events.                                         *)
LEMMA Parity ==
    ASSUME NEW k \in Nat
    PROVE  (2 * k) % 2 = 0 /\ (2 * k + 1) % 2 = 1 /\ (2 * k + 2) % 2 = 0
OBVIOUS

(* The facts of a running loop that its steps use.                         *)
LEMMA AtLoop ==
    ASSUME IInv
    PROVE  /\ LoopTypeOK /\ Drawn /\ Counted /\ Accounts
           /\ {MaxCalls, MaxRounds, MaxSearches, MaxCompress, DirectCreds, McpQuota} \subseteq Nat
           /\ {left, calls, round, todo, found, shown, published, atLeave} \subseteq Nat
BY BoundsAssumption DEF IInv, LoopTypeOK, FwdTypeOK, McpCalls, Room

(* Everything of the loop's state but where it is and how it ends.         *)
DataTypeOK ==
    /\ left \in 0..MaxCalls /\ calls \in Nat /\ calls + left = MaxCalls
    /\ round \in 0..MaxRounds /\ compress \in 0..MaxCompress
    /\ todo \in 0..MaxSearches /\ found \in 0..MaxSearches
    /\ shown \in 0..Room(MaxRounds)
    /\ mcp \in McpCalls
    /\ published \in 0..(MaxRounds + 1)

(* The channel carries the begins and the ends of searches.                *)
HopsOK == hops \in Seq({"begin", "done"})

(* It is so before every step.                                             *)
LEMMA DataBefore == IInv => DataTypeOK
BY DEF IInv, LoopTypeOK, Drawn, DataTypeOK, McpCalls, Room

(* The loop ends with the account that it published.                       *)
LEMMA EndsKeep ==
    ASSUME IInv, pc # "done", DataTypeOK', LoopOnly, hops' = hops, published <= published',
           NEW kind \in {"ok", "err", "panic"}, NEW rounds,
           Ends(kind, rounds), rounds = IF kind = "panic" THEN 0 ELSE published',
           kind = "ok" => Told \in {2 * shown' + 1, 2 * shown' + 2}
    PROVE  LoopKeeps
<1>1. /\ LoopTypeOK /\ Accounts /\ MaxRounds \in Nat /\ published \in Nat /\ atLeave \in Nat /\ published' \in Nat
  <2>1. published' \in 0..(MaxRounds + 1)
    BY DEF DataTypeOK
  <2> QED
    BY <2>1, AtLoop
<1>2. pc' = "done" /\ result' = [kind |-> kind, rounds |-> rounds]
  BY DEF Ends
<1>3. rounds \in 0..(MaxRounds + 1)
  BY <1>1 DEF DataTypeOK
<1>4. LoopTypeOK'
  BY <1>1, <1>2, <1>3 DEF LoopTypeOK, DataTypeOK, Outcomes
<1>5. Drawn' /\ Counted'
  BY <1>2 DEF Drawn, Counted, DataTypeOK, Searching
<1>6. Accounts'
  BY <1>1, <1>2 DEF Accounts, LoopOnly, Outcomes, Searching, Running
<1>7. Tells
  BY <1>2 DEF Tells
<1> QED
  BY <1>4, <1>5, <1>6, <1>7 DEF LoopKeeps

(* The loop goes on.                                                       *)
LEMMA GoesOnKeeps ==
    ASSUME IInv, pc # "done", DataTypeOK', LoopOnly, result' = result, published <= published',
           pc' \in {"round", "search", "mcp", "direct"}, HopsOK',
           Drawn', Counted', Tells,
           pc' = "round" => published' = round', pc' # "round" => published' = round' + 1
    PROVE  LoopKeeps
<1>1. /\ LoopTypeOK /\ Accounts /\ MaxRounds \in Nat /\ published \in Nat /\ atLeave \in Nat /\ published' \in Nat
  <2>1. published' \in 0..(MaxRounds + 1)
    BY DEF DataTypeOK
  <2> QED
    BY <2>1, AtLoop
<1>2. LoopTypeOK'
  BY <1>1 DEF LoopTypeOK, DataTypeOK, HopsOK
<1>3. Accounts'
  BY <1>1 DEF Accounts, LoopOnly, Searching, Running
<1> QED
  BY <1>2, <1>3 DEF LoopKeeps

(* run_round.                                                              *)
LEMMA RoundsKeep ==
    ASSUME IInv, \/ CompressRetry \/ RoundFails
                 \/ \E n \in 0..MaxSearches, clientTool \in BOOLEAN : RoundAnswers(n, clientTool)
    PROVE  LoopKeeps
<1>0. /\ pc = "round" /\ LoopOnly /\ hops' = hops /\ UNCHANGED <<round, found, shown, mcp>>
      /\ LoopTypeOK /\ Drawn /\ Counted /\ Accounts /\ DataTypeOK
      /\ {MaxRounds, left, calls, round, todo, found, shown, published} \subseteq Nat
      /\ HopsOK /\ todo = 0 /\ found = 0 /\ published = round
      /\ Told = 2 * shown + 1
  <2>1. pc = "round" /\ LoopOnly /\ hops' = hops /\ UNCHANGED <<round, found, shown, mcp>>
    BY DEF CompressRetry, RoundFails, RoundAnswers
  <2>2. /\ LoopTypeOK /\ Drawn /\ Counted /\ Accounts /\ DataTypeOK
        /\ {MaxRounds, left, calls, round, todo, found, shown, published} \subseteq Nat
    BY AtLoop, DataBefore
  <2>3. HopsOK /\ todo = 0 /\ found = 0 /\ published = round
    BY <2>1, <2>2 DEF LoopTypeOK, Counted, Accounts, HopsOK
  <2> QED
    BY <2>1, <2>2, <2>3 DEF Told, Searching
<1>1. left' \in 0..MaxCalls /\ calls' \in Nat /\ calls' + left' = MaxCalls
  <2>1. PICK k \in 0..left : Consume(k)
    <3>1. \A k \in 1..left : k \in 0..left
      OBVIOUS
    <3> QED
      BY <3>1 DEF CompressRetry, RoundFails, RoundAnswers
  <2> QED
    BY <1>0, <2>1, ConsumeDraws DEF Drawn
<1>2. CASE CompressRetry
  <2>1. /\ compress' \in 0..MaxCompress /\ UNCHANGED <<pc, todo, published, result>>
    BY <1>0, <1>2, BoundsAssumption DEF CompressRetry, LoopTypeOK
  <2>2. DataTypeOK'
    BY <1>0, <1>1, <2>1 DEF DataTypeOK
  <2>3. Drawn' /\ Counted'
    BY <1>0, <1>1, <2>1 DEF Drawn, Counted, Searching
  <2>4. Tells
    BY <1>0, <2>1 DEF Tells, Told, Accounts, Running
  <2> QED
    BY <1>0, <2>1, <2>2, <2>3, <2>4, GoesOnKeeps DEF HopsOK
<1>3. CASE RoundFails
  <2>1. Ends("err", round) /\ UNCHANGED <<compress, todo, published>>
    BY <1>3 DEF RoundFails
  <2>2. DataTypeOK'
    BY <1>0, <1>1, <2>1 DEF DataTypeOK
  <2> QED
    BY <1>0, <2>1, <2>2, EndsKeep
<1>4. ASSUME NEW n \in 0..MaxSearches, NEW clientTool \in BOOLEAN, RoundAnswers(n, clientTool)
      PROVE  LoopKeeps
  <2>1. published' = round + 1 /\ published' \in 0..(MaxRounds + 1) /\ compress' = compress
    BY <1>0, <1>4 DEF RoundAnswers, Accounted, LoopTypeOK
  <2>2. CASE Replays(n, clientTool)
    <3>1. pc' = "search" /\ todo' = n /\ result' = result /\ round < MaxRounds
      BY <1>4, <2>2 DEF RoundAnswers, Replays
    <3>2. DataTypeOK'
      BY <1>0, <1>1, <2>1, <3>1 DEF DataTypeOK
    <3>3. Drawn' /\ Counted'
      BY <1>0, <1>1, <3>1, BoundsAssumption DEF Drawn, Counted, Searching
    <3>4. Tells
      BY <1>0, <3>1 DEF Tells, Told, Accounts, Running, Searching
    <3> QED
      BY <1>0, <2>1, <3>1, <3>2, <3>3, <3>4, GoesOnKeeps DEF HopsOK
  <2>3. CASE ~Replays(n, clientTool)
    <3>1. Ends("ok", round + 1) /\ todo' = todo
      BY <1>4, <2>3 DEF RoundAnswers
    <3>2. DataTypeOK'
      BY <1>0, <1>1, <2>1, <3>1 DEF DataTypeOK
    <3> QED
      BY <1>0, <2>1, <3>1, <3>2, EndsKeep
  <2> QED
    BY <2>2, <2>3
<1> QED
  BY <1>2, <1>3, <1>4

(* A search begins, or its round is over.                                  *)
LEMMA SearchesKeep ==
    ASSUME IInv, BeginSearch \/ NextRound
    PROVE  LoopKeeps
<1>1. /\ pc = "search" /\ LoopOnly /\ result' = result
      /\ UNCHANGED <<left, calls, published>>
  BY DEF BeginSearch, NextRound
<1>2. /\ LoopTypeOK /\ Drawn /\ Counted /\ Accounts /\ DataTypeOK
      /\ {MaxRounds, MaxSearches, McpQuota, DirectCreds, left, calls, round, todo, found, shown, published} \subseteq Nat
  BY AtLoop, DataBefore
<1>3. /\ HopsOK /\ found + todo <= MaxSearches /\ published = round + 1 /\ round < MaxRounds
      /\ shown <= Room(round) /\ Told = 2 * (shown + found) + 1
      /\ result.kind # "aborted"
  BY <1>1, <1>2 DEF LoopTypeOK, Counted, Accounts, HopsOK, Told, Searching, Running
<1>4. CASE BeginSearch
  <2>1. /\ todo > 0 /\ todo' = todo - 1 /\ hops' = Append(hops, "begin") /\ pc' = "mcp"
        /\ UNCHANGED <<round, compress, found, shown>>
    BY <1>4 DEF BeginSearch
  <2>2. PICK n \in Nat : /\ n <= McpQuota /\ n <= left
                         /\ mcp' = [granted |-> n, tries |-> n, poolDown |-> FALSE, direct |-> DirectCreds]
    <3>1. Min({McpQuota, left}) \in Nat /\ Min({McpQuota, left}) <= McpQuota /\ Min({McpQuota, left}) <= left
      BY <1>2, MinOfTwo
    <3> QED
      BY <1>4, <3>1 DEF BeginSearch
  <2>3. DataTypeOK'
    <3>1. mcp' \in McpCalls
      BY <1>2, <2>2, BoundsAssumption DEF McpCalls
    <3>2. todo' \in 0..MaxSearches
      BY <1>2, <2>1 DEF DataTypeOK
    <3> QED
      BY <1>1, <1>2, <2>1, <3>1, <3>2 DEF DataTypeOK
  <2>4. Drawn' /\ Counted'
    <3>1. mcp'.tries <= left' /\ mcp'.poolDown = FALSE
      BY <1>1, <2>2
    <3>2. found' + todo' < MaxSearches
      <4>1. todo \in Nat /\ found \in Nat /\ MaxSearches \in Nat /\ found + todo <= MaxSearches
        BY <1>2, <1>3
      <4>2. found' = found /\ todo' = todo - 1
        BY <2>1
      <4> QED
        BY <4>1, <4>2
    <3>3. Drawn'
      BY <1>1, <1>2, <2>1, <3>1 DEF Drawn
    <3>4. shown' <= Room(round') /\ round' < MaxRounds
      BY <1>3, <2>1
    <3>5. pc' # "round" /\ pc' # "search"
      BY <2>1
    <3>6. Counted'
      BY <3>2, <3>4, <3>5 DEF Counted
    <3> QED
      BY <3>3, <3>6
  <2>5. HopsOK'
    BY <1>3, <2>1, AppendProperties DEF HopsOK
  <2>6. Tells
    <3>1. Told' = Told + 1
      <4>1. Told' = 2 * (shown + found) + 2
        BY <2>1 DEF Told, Searching
      <4> QED
        BY <1>2, <1>3, <4>1
    <3>2. Told % 2 = 1
      BY <1>2, <1>3
    <3> QED
      BY <1>1, <1>3, <2>1, <3>1, <3>2 DEF Tells
  <2> QED
    BY <1>1, <1>2, <1>3, <2>1, <2>3, <2>4, <2>5, <2>6, GoesOnKeeps
<1>5. CASE NextRound
  <2>1. /\ todo = 0 /\ todo' = todo /\ hops' = hops /\ pc' = "round" /\ mcp' = mcp
        /\ shown' = shown + found /\ found' = 0 /\ round' = round + 1 /\ compress' = 0
    BY <1>5 DEF NextRound
  <2>2. shown' <= Room(round') /\ shown' \in 0..Room(MaxRounds)
    BY <1>2, <1>3, <2>1, ShownFits DEF DataTypeOK
  <2>3. DataTypeOK'
    BY <1>1, <1>2, <1>3, <2>1, <2>2, BoundsAssumption DEF DataTypeOK
  <2>4. Drawn' /\ Counted'
    BY <1>1, <1>2, <2>1, <2>2 DEF Drawn, Counted, Searching
  <2>5. Tells
    BY <1>1, <1>2, <1>3, <2>1 DEF Tells, Told, Searching
  <2> QED
    BY <1>1, <1>2, <1>3, <2>1, <2>3, <2>4, <2>5, GoesOnKeeps DEF HopsOK
<1> QED
  BY <1>4, <1>5

(* What the steps of a search know.                                        *)
LEMMA AtSearch ==
    ASSUME IInv, pc \in Searching
    PROVE  /\ LoopTypeOK /\ Drawn /\ Counted /\ Accounts /\ DataTypeOK /\ HopsOK
           /\ MaxRounds \in Nat /\ MaxSearches \in Nat /\ left \in Nat /\ calls \in Nat /\ round \in Nat
           /\ todo \in Nat /\ found \in Nat /\ shown \in Nat /\ published \in Nat
           /\ found + todo < MaxSearches /\ round < MaxRounds /\ published = round + 1
           /\ shown <= Room(round) /\ Told = 2 * (shown + found) + 2
           /\ result.kind # "aborted" /\ pc # "done"
           /\ calls + left = MaxCalls
           /\ mcp.tries \in Nat /\ mcp.direct \in Nat /\ mcp.poolDown \in BOOLEAN
<1>1. /\ LoopTypeOK /\ Drawn /\ Counted /\ Accounts /\ DataTypeOK
      /\ {MaxRounds, MaxSearches, left, calls, round, todo, found, shown, published} \subseteq Nat
  BY AtLoop, DataBefore
<1>2. /\ HopsOK /\ found + todo < MaxSearches /\ published = round + 1 /\ round < MaxRounds
      /\ shown <= Room(round) /\ result.kind # "aborted"
  BY <1>1 DEF LoopTypeOK, Counted, Accounts, HopsOK, Searching, Running
<1>3. mcp.tries \in Nat /\ mcp.direct \in Nat /\ mcp.poolDown \in BOOLEAN
  <2>1. mcp \in McpCalls
    BY <1>1 DEF DataTypeOK
  <2> QED
    BY <2>1, BoundsAssumption DEF McpCalls
<1> QED
  BY <1>1, <1>2, <1>3 DEF Told, Drawn, Searching

(* An attempt of a search fails, and others are left, of one kind or the    *)
(* other.                                                                  *)
LEMMA AttemptsKeep ==
    ASSUME IInv, pc \in Searching, pc' \in Searching,
           UNCHANGED <<round, compress, todo, shown, published, found, result, hops>>, LoopOnly,
           left' \in 0..MaxCalls, calls' \in Nat, Drawn',
           mcp' \in McpCalls
    PROVE  LoopKeeps
<1>1. DataTypeOK'
  BY AtSearch DEF DataTypeOK, Drawn
<1>2. Counted'
  BY AtSearch DEF Counted, Searching
<1>3. Tells
  BY AtSearch DEF Tells, Told, Searching
<1>4. pc # "done" /\ HopsOK'
  BY AtSearch DEF HopsOK
<1>5. published <= published' /\ published' = round' + 1
  BY AtSearch
<1>6. pc' \in {"round", "search", "mcp", "direct"} /\ pc' # "round"
  BY DEF Searching
<1> QED
  BY <1>1, <1>2, <1>3, <1>4, <1>5, <1>6, GoesOnKeeps

(* A search is answered.                                                   *)
LEMMA AnswersKeep ==
    ASSUME IInv, McpAnswers \/ DirectAnswers
    PROVE  LoopKeeps
<1>1. /\ pc \in Searching /\ Consume(1) /\ Found /\ McpMoves
  BY DEF McpAnswers, DirectAnswers, Searching
<1>2. left >= 1
  BY <1>1, AtSearch DEF McpAnswers, DirectAnswers, Drawn
<1>3. left' \in 0..MaxCalls /\ calls' \in Nat /\ calls' + left' = MaxCalls
  BY <1>1, <1>2, AtSearch, ConsumeDraws
<1>4. /\ found' = found + 1 /\ hops' = Append(hops, "done") /\ pc' = "search" /\ mcp' = mcp /\ result' = result
      /\ UNCHANGED <<round, compress, todo, shown, published>> /\ LoopOnly
  BY <1>1 DEF Found, McpMoves
<1>10. /\ DataTypeOK /\ found \in Nat /\ todo \in Nat /\ shown \in Nat /\ MaxSearches \in Nat
      /\ found + todo < MaxSearches /\ round < MaxRounds /\ shown <= Room(round) /\ calls + left = MaxCalls
      /\ Told = 2 * (shown + found) + 2
  BY <1>1, AtSearch
<1>11. found' \in 0..MaxSearches /\ found' + todo' <= MaxSearches
  BY <1>4, <1>10
<1>5. DataTypeOK'
  BY <1>3, <1>4, <1>10, <1>11 DEF DataTypeOK
<1>6. Drawn' /\ Counted'
  BY <1>3, <1>4, <1>10, <1>11 DEF Drawn, Counted, Searching
<1>7. HopsOK'
  BY <1>1, <1>4, AtSearch, AppendProperties DEF HopsOK
<1>8. Tells
  <2>1. Told % 2 = 0 /\ Told > 0
    BY <1>10, Parity
  <2>2. Told' = Told + 1
    BY <1>4, <1>10 DEF Told, Searching
  <2> QED
    BY <1>1, <1>4, <2>1, <2>2, AtSearch DEF Tells
<1>9. pc # "done" /\ published <= published' /\ published' = round' + 1
  BY <1>1, <1>4, AtSearch
<1> QED
  BY <1>4, <1>5, <1>6, <1>7, <1>8, <1>9, GoesOnKeeps

(* The attempts of call_mcp_with_retry.                                    *)
LEMMA McpKeeps ==
    ASSUME IInv, McpNoAccount \/ McpNoEndpoint \/ McpRetry \/ McpStops
    PROVE  LoopKeeps
<1>1. /\ pc = "mcp" /\ pc \in Searching /\ pc' = pc /\ mcp.tries > 0
      /\ UNCHANGED <<round, compress, todo, shown, published, found, result, hops>> /\ LoopOnly
  BY DEF McpNoAccount, McpNoEndpoint, McpRetry, McpStops, McpMoves, Searching
<1>2. /\ mcp \in McpCalls
      /\ mcp.tries <= left /\ (mcp.poolDown => mcp.tries < left)
      /\ left \in Nat /\ calls \in Nat /\ calls + left = MaxCalls /\ mcp.tries \in Nat /\ McpQuota \in Nat
      /\ MaxCalls \in Nat
  BY <1>1, AtSearch, BoundsAssumption DEF LoopTypeOK, Drawn
<1>3. ASSUME Consume(1) PROVE left' = left - 1 /\ left' \in 0..MaxCalls /\ calls' \in Nat /\ calls' + left' = MaxCalls
  BY <1>1, <1>2, <1>3, AtSearch, ConsumeDraws
<1> DEFINE Spent(n, b) ==
         /\ mcp' = [mcp EXCEPT !.tries = n, !.poolDown = b] /\ n <= mcp.tries
         /\ left' \in 0..MaxCalls /\ calls' \in Nat /\ calls' + left' = MaxCalls
         /\ n <= left' /\ (b => n < left')
<1>4. \E n \in Nat, b \in BOOLEAN : Spent(n, b)
  <2>0. mcp.tries - 1 \in Nat /\ mcp.tries - 1 < mcp.tries /\ mcp.tries - 1 < left /\ left \in 0..MaxCalls
    BY <1>1, <1>2
  <2>1. CASE McpNoAccount
    <3>1. Spent(mcp.tries - 1, TRUE)
      BY <1>2, <2>0, <2>1 DEF McpNoAccount
    <3> QED
      BY <2>0, <3>1
  <2>2. CASE McpNoEndpoint
    <3>1. Spent(mcp.tries - 1, FALSE)
      BY <1>2, <2>0, <2>2 DEF McpNoEndpoint
    <3> QED
      BY <2>0, <3>1
  <2>3. CASE McpRetry
    <3>1. mcp' = [mcp EXCEPT !.tries = mcp.tries - 1, !.poolDown = FALSE] /\ Consume(1)
      BY <2>3 DEF McpRetry
    <3>2. Spent(mcp.tries - 1, FALSE)
      BY <1>2, <1>3, <2>0, <3>1
    <3> QED
      BY <2>0, <3>2
  <2>4. CASE McpStops
    <3>1. CASE Consume(1) /\ mcp' = [mcp EXCEPT !.tries = 0, !.poolDown = FALSE]
      <4>1. Spent(0, FALSE)
        BY <1>1, <1>2, <1>3, <3>1
      <4> QED
        BY <4>1
    <3>2. CASE mcp' = [mcp EXCEPT !.tries = 0] /\ UNCHANGED <<left, calls>>
      <4>1. mcp' = [mcp EXCEPT !.tries = 0, !.poolDown = mcp.poolDown] /\ mcp.poolDown \in BOOLEAN
        BY <1>2, <3>2 DEF McpCalls
      <4>2. 0 <= mcp.tries /\ 0 < left /\ 0 <= left
        BY <1>2, <2>0
      <4>3. Spent(0, mcp.poolDown)
        BY <1>2, <2>0, <3>2, <4>1, <4>2
      <4> QED
        BY <4>1, <4>3
    <3> QED
      BY <2>4, <3>1, <3>2 DEF McpStops
  <2> QED
    BY <2>1, <2>2, <2>3, <2>4
<1>5. Drawn' /\ mcp' \in McpCalls /\ left' \in 0..MaxCalls /\ calls' \in Nat
  <2>1. PICK n \in Nat, b \in BOOLEAN : Spent(n, b)
    BY <1>4
  <2>2. mcp' \in McpCalls /\ mcp'.tries = n /\ mcp'.poolDown = b
    <3>1. n <= mcp.tries /\ mcp \in McpCalls /\ mcp' = [mcp EXCEPT !.tries = n, !.poolDown = b]
      BY <1>2, <2>1
    <3> HIDE DEF Spent
    <3>2. n \in 0..McpQuota
      BY <3>1, BoundsAssumption DEF McpCalls
    <3> QED
      BY <3>1, <3>2 DEF McpCalls
  <2> QED
    BY <1>1, <2>1, <2>2 DEF Drawn
<1> QED
  BY <1>1, <1>5, AttemptsKeep

(* The search fails, and with it the loop.                                 *)
LEMMA SearchEnds ==
    ASSUME IInv, pc \in Searching, LoopOnly, UNCHANGED <<round, compress, todo, shown, published, mcp, found, hops>>,
           left' \in 0..MaxCalls, calls' \in Nat, calls' + left' = MaxCalls, Ends("err", round + 1)
    PROVE  LoopKeeps
<1>1. DataTypeOK'
  BY AtSearch DEF DataTypeOK
<1>2. pc # "done" /\ hops' = hops /\ published <= published' /\ round + 1 = published'
  BY AtSearch
<1> QED
  BY <1>1, <1>2, EndsKeep

(* call_mcp_with_retry ends without an answer.                             *)
LEMMA McpEndsKeep ==
    ASSUME IInv, McpBails \/ McpGivesUp
    PROVE  LoopKeeps
<1>1. /\ pc = "mcp" /\ pc \in Searching /\ UNCHANGED <<mcp, found, hops>>
      /\ UNCHANGED <<round, compress, todo, shown, published>> /\ LoopOnly
  BY DEF McpBails, McpGivesUp, McpMoves, Searching
<1>2. CASE McpBails
  <2>1. left >= 1
    BY <1>1, <1>2, AtSearch DEF McpBails, Drawn
  <2>2. left' \in 0..MaxCalls /\ calls' \in Nat /\ calls' + left' = MaxCalls
    <3>1. CASE Consume(1)
      BY <1>1, <2>1, <3>1, AtSearch, ConsumeDraws
    <3>2. CASE UNCHANGED <<left, calls>>
      BY <1>1, <3>2, AtSearch DEF LoopTypeOK
    <3> QED
      BY <1>2, <3>1, <3>2 DEF McpBails
  <2> QED
    BY <1>1, <1>2, <2>2, SearchEnds DEF McpBails
<1>3. CASE McpGivesUp
  <2>1. left' \in 0..MaxCalls /\ calls' \in Nat /\ calls' + left' = MaxCalls /\ UNCHANGED <<left, calls>>
    BY <1>1, <1>3, AtSearch DEF McpGivesUp, LoopTypeOK
  <2>2. CASE mcp.poolDown
    <3>1. pc' = "direct" /\ result' = result /\ left > 0
      BY <1>1, <1>3, <2>2, AtSearch DEF McpGivesUp, Drawn
    <3>2. Drawn'
      BY <2>1, <3>1 DEF Drawn
    <3>3. mcp' \in McpCalls
      BY <1>1, AtSearch DEF LoopTypeOK
    <3>4. pc' \in Searching
      BY <3>1 DEF Searching
    <3> QED
      BY <1>1, <2>1, <3>1, <3>2, <3>3, <3>4, AttemptsKeep
  <2>3. CASE ~mcp.poolDown
    BY <1>1, <1>3, <2>1, <2>3, SearchEnds DEF McpGivesUp
  <2> QED
    BY <2>2, <2>3
<1> QED
  BY <1>2, <1>3

(* No attempt was granted: the loop ends well with what it found.          *)
LEMMA BudgetOutKeeps ==
    ASSUME IInv, BudgetOut
    PROVE  LoopKeeps
<1>1. /\ pc = "mcp" /\ pc \in Searching /\ LoopOnly /\ Ends("ok", round + 1)
      /\ shown' = shown + found /\ found' = 0
      /\ UNCHANGED <<left, calls, round, compress, todo, mcp, published, hops>>
  BY DEF BudgetOut, Searching
<1>2. shown' \in 0..Room(MaxRounds)
  BY <1>1, AtSearch, ShownFits DEF DataTypeOK
<1>3. DataTypeOK'
  BY <1>1, <1>2, AtSearch DEF DataTypeOK
<1>4. pc # "done" /\ hops' = hops /\ published <= published' /\ round + 1 = published'
      /\ Told \in {2 * shown' + 1, 2 * shown' + 2}
  BY <1>1, AtSearch
<1> QED
  BY <1>1, <1>3, <1>4, EndsKeep

(* call_mcp_direct.                                                        *)
LEMMA DirectKeeps ==
    ASSUME IInv, DirectSkips \/ DirectFails \/ DirectNone
    PROVE  LoopKeeps
<1>1. /\ pc = "direct" /\ pc \in Searching /\ UNCHANGED <<found, hops>>
      /\ UNCHANGED <<round, compress, todo, shown, published>> /\ LoopOnly
  BY DEF DirectSkips, DirectFails, DirectNone, McpMoves, Searching
<1>2. /\ mcp \in McpCalls
      /\ left \in Nat /\ left > 0 /\ left \in 0..MaxCalls /\ calls \in Nat /\ calls + left = MaxCalls
      /\ mcp.direct \in Nat /\ DirectCreds \in Nat
  BY <1>1, AtSearch, BoundsAssumption DEF LoopTypeOK, Drawn
<1> DEFINE spent == [mcp EXCEPT !.direct = @ - 1]
<1>3. mcp.direct > 0 =>
         spent \in McpCalls
  <2>1. mcp.direct > 0 => mcp.direct - 1 \in Nat /\ mcp.direct - 1 <= mcp.direct
    BY <1>2
  <2> QED
    BY <1>2, <2>1, DirectSpent
<1>4. CASE DirectSkips
  <2>1. mcp.direct > 0 /\ mcp' = spent /\ UNCHANGED <<left, calls, pc, result>>
    BY <1>4 DEF DirectSkips
  <2>2. Drawn'
    BY <1>1, <1>2, <2>1 DEF Drawn
  <2> QED
    BY <1>1, <1>2, <1>3, <2>1, <2>2, AttemptsKeep
<1>5. CASE DirectNone
  BY <1>1, <1>2, <1>5, SearchEnds DEF DirectNone
<1>6. CASE DirectFails
  <2>1. mcp.direct > 0 /\ mcp' = spent /\ Consume(1)
    BY <1>6 DEF DirectFails
  <2>2. left' \in 0..MaxCalls /\ calls' \in Nat /\ calls' + left' = MaxCalls
    BY <1>1, <1>2, <2>1, AtSearch, ConsumeDraws
  <2>3. CASE left' > 0
    <3>1. UNCHANGED <<pc, result>>
      BY <1>6, <2>3 DEF DirectFails, DirectGoesOn
    <3>2. Drawn'
      BY <1>1, <2>2, <2>3, <3>1 DEF Drawn
    <3> QED
      BY <1>1, <1>3, <2>1, <2>2, <3>1, <3>2, AttemptsKeep
  <2>4. CASE ~(left' > 0)
    <3>1. Ends("err", round + 1)
      BY <1>6, <2>4 DEF DirectFails, DirectGoesOn
    <3>2. DataTypeOK'
      BY <1>1, <1>3, <2>1, <2>2, AtSearch DEF DataTypeOK
    <3>3. pc # "done" /\ hops' = hops /\ published <= published' /\ round + 1 = published'
      BY <1>1, AtSearch
    <3> QED
      BY <1>1, <3>1, <3>2, <3>3, EndsKeep
  <2> QED
    BY <2>3, <2>4
<1> QED
  BY <1>4, <1>5, <1>6

(* The task of the loop panics.                                            *)
LEMMA PanicKeeps ==
    ASSUME IInv, LoopPanics
    PROVE  LoopKeeps
<1>1. /\ pc # "done" /\ Ends("panic", 0) /\ LoopOnly
      /\ UNCHANGED <<left, calls, round, compress, todo, found, shown, mcp, published, hops>>
  BY DEF LoopPanics
<1>2. DataTypeOK' /\ published <= published'
  BY <1>1, DataBefore, AtLoop DEF DataTypeOK
<1> QED
  BY <1>1, <1>2, EndsKeep

(* Every step of the loop.                                                 *)
LEMMA LoopSteps == ASSUME IInv, Loop PROVE LoopKeeps /\ LoopOnly
<1>1. LoopKeeps
  BY RoundsKeep, SearchesKeep, McpKeeps, McpEndsKeep, BudgetOutKeeps, AnswersKeep, DirectKeeps, PanicKeeps DEF Loop
<1>2. LoopOnly
  BY DEF Loop, CompressRetry, RoundFails, RoundAnswers, BeginSearch, NextRound, McpMoves, McpNoAccount, McpNoEndpoint,
         McpRetry, McpStops, McpBails, McpAnswers, BudgetOut, McpGivesUp, DirectSkips, DirectFails, DirectAnswers,
         DirectNone, LoopPanics
<1> QED
  BY <1>1, <1>2

(* The event after an odd number of events, and after an even one.         *)
LEMMA DueNext ==
    ASSUME NEW n \in Nat
    PROVE  /\ n % 2 = 1 => Due(n + 1) = "begin"
           /\ n % 2 = 0 /\ n > 0 => Due(n + 1) = "done"
<1>1. n % 2 = 1 => (n + 1) % 2 = 0 /\ n + 1 # 1
  OBVIOUS
<1>2. n % 2 = 0 => (n + 1) % 2 = 1
  OBVIOUS
<1> QED
  BY <1>1, <1>2 DEF Due

(* The loop's steps keep what has been sent and recorded in order.         *)
LEMMA LoopSafe ==
    ASSUME IInv, LoopKeeps, LoopOnly
    PROVE  IInv'
<1>1. /\ LoopTypeOK /\ FwdTypeOK /\ Accounts /\ Recorded /\ Streamed
      /\ pc # "done" /\ result = [kind |-> Running, rounds |-> 0]
      /\ UNCHANGED <<fwd, sent, records, gone, atLeave>>
  BY DEF IInv, LoopKeeps, Tells, LoopOnly, Accounts
<1>2. FwdTypeOK'
  BY <1>1 DEF LoopKeeps, FwdTypeOK
<1>3. Recorded'
  BY <1>1 DEF Recorded, LoopKeeps, Tells, Running
<1>4. Streamed'
  <2>1. fwd \notin {"tail", "ended"}
    BY <1>1 DEF Recorded
  <2>2. ASSUME fwd \in {"start", "forward"}
        PROVE  /\ \A j \in 1..Len(hops') : hops'[j] = Due(Before' + j)
               /\ pc' # "done" => Length' = Told'
               /\ result'.kind = "ok" => Length' \in {2 * shown' + 1, 2 * shown' + 2}
    <3>1. /\ hops \in Seq({"begin", "done"}) /\ Len(hops) \in Nat /\ Before \in Nat /\ Before' = Before
          /\ Length = Told /\ Told \in Nat /\ \A j \in 1..Len(hops) : hops[j] = Due(Before + j)
          /\ Length = Before + Len(hops) /\ Length' = Before + Len(hops')
      BY <1>1, <2>2 DEF LoopTypeOK, FwdTypeOK, Before, Streamed, Length, Told
    <3>2. CASE hops' = hops /\ pc' # "done" /\ Told' = Told
      <4>1. result'.kind # "ok"
        BY <3>2 DEF LoopKeeps, Accounts, Running
      <4> QED
        BY <3>1, <3>2, <4>1
    <3>3. CASE hops' = hops /\ pc' = "done" /\ (result'.kind = "ok" => Told \in {2 * shown' + 1, 2 * shown' + 2})
      BY <3>1, <3>3
    <3>4. ASSUME NEW e \in {"begin", "done"}, hops' = Append(hops, e), pc' # "done", Told' = Told + 1,
                 e = Due(Told + 1)
          PROVE  /\ \A j \in 1..Len(hops') : hops'[j] = Due(Before' + j)
                 /\ Length' = Told' /\ result'.kind # "ok"
      <4>1. result'.kind # "ok"
        BY <3>4 DEF LoopKeeps, Accounts, Running
      <4>2. Len(hops') = Len(hops) + 1 /\ \A j \in 1..Len(hops) : hops'[j] = hops[j]
        BY <3>1, <3>4, AppendProperties
      <4>3. hops'[Len(hops) + 1] = Due(Told + 1)
        BY <3>1, <3>4, AppendProperties
      <4>4. Told + 1 = Before + (Len(hops) + 1) /\ Told + 1 = Before' + Len(hops')
        BY <3>1, <4>2
      <4>5. ASSUME NEW j \in 1..Len(hops') PROVE hops'[j] = Due(Before' + j)
        <5>1. CASE j \in 1..Len(hops)
          BY <3>1, <4>2, <5>1
        <5>2. CASE j = Len(hops) + 1
          BY <3>1, <4>3, <4>4, <5>2
        <5> QED
          BY <3>1, <4>2, <5>1, <5>2
      <4> QED
        BY <3>1, <3>4, <4>1, <4>4, <4>5
    <3>5. Told % 2 = 1 => Due(Told + 1) = "begin"
      BY <3>1, DueNext
    <3>6. Told % 2 = 0 /\ Told > 0 => Due(Told + 1) = "done"
      BY <3>1, DueNext
    <3> QED
      BY <3>2, <3>3, <3>4, <3>5, <3>6 DEF LoopKeeps, Tells
  <2>3. \A i \in 1..Len(sent') :
          \/ sent'[i] = Due(i)
          \/ sent'[i] \in {"message_stop", "error"} /\ i = Len(sent') /\ i > 1 /\ fwd' \notin {"forward", "tail"}
    BY <1>1 DEF Streamed
  <2> QED
    BY <1>1, <2>1, <2>2, <2>3 DEF Streamed, Told
<1> QED
  BY <1>2, <1>3, <1>4 DEF IInv, LoopKeeps

(* What a client can be sent, and what can be recorded.                    *)
Events == {"message_start", "begin", "done", "message_stop", "error"}
UsageRecords == [kind : {"ok", "err", "interrupted"}, rounds : 0..(MaxRounds + 1)]

(* A step of the forwarder leaves the loop as it is.                       *)
LEMMA LoopAlone ==
    ASSUME IInv, UNCHANGED loopVars, hops' \in Seq({"begin", "done"}), UNCHANGED <<gone, atLeave>>
    PROVE  LoopTypeOK' /\ Drawn' /\ Counted' /\ Accounts'
BY AtLoop DEF loopVars, LoopTypeOK, Drawn, Counted, Accounts

(* The facts of the forwarder that its steps use.                          *)
LEMMA AtFwd ==
    ASSUME IInv
    PROVE  /\ LoopTypeOK /\ FwdTypeOK /\ Accounts /\ Recorded /\ Streamed
           /\ sent \in Seq(Events) /\ hops \in Seq({"begin", "done"}) /\ records \in Seq(UsageRecords)
           /\ published \in 0..(MaxRounds + 1) /\ result.rounds \in 0..(MaxRounds + 1)
           /\ result.kind \in Outcomes \cup {Running}
BY DEF IInv, LoopTypeOK, FwdTypeOK, Events, UsageRecords

(* A usage record is appended to none.                                     *)
LEMMA ReportIsFirst ==
    ASSUME IInv, records = <<>>, NEW kind \in {"ok", "err", "interrupted"}, NEW rounds \in 0..(MaxRounds + 1),
           Report(kind, rounds)
    PROVE  /\ records' = <<[kind |-> kind, rounds |-> rounds]>> /\ records' \in Seq(UsageRecords)
           /\ Len(records') = 1 /\ records'[1].kind = kind /\ records'[1].rounds = rounds
<1>1. records' = <<[kind |-> kind, rounds |-> rounds]>>
  BY DEF Report
<1>2. [kind |-> kind, rounds |-> rounds] \in UsageRecords
  BY DEF UsageRecords
<1> QED
  BY <1>1, <1>2

(* message_start.                                                          *)
LEMMA StartKeeps ==
    ASSUME IInv, FwdStart
    PROVE  IInv'
<1>1. /\ fwd = "start" /\ UNCHANGED <<loopVars, hops, records, gone, atLeave>>
      /\ sent = <<>> /\ records = <<>> /\ result.kind # "aborted"
  BY AtFwd DEF FwdStart, FwdOnly, Streamed, Recorded
<1>2. LoopTypeOK' /\ Drawn' /\ Counted' /\ Accounts'
  BY <1>1, AtFwd, LoopAlone
<1>3. CASE gone /\ fwd' = "interrupt" /\ sent' = sent
  <2>1. FwdTypeOK'
    BY <1>1, <1>3, AtFwd DEF FwdTypeOK
  <2>2. Recorded'
    BY <1>1, <1>3 DEF Recorded, loopVars
  <2>3. Streamed'
    BY <1>1, <1>3 DEF Streamed, loopVars
  <2> QED
    BY <1>2, <2>1, <2>2, <2>3 DEF IInv
<1>4. CASE fwd' = "forward" /\ sent' = Append(sent, "message_start")
  <2>1. sent' = <<"message_start">> /\ sent' \in Seq(Events) /\ Len(sent') = 1 /\ sent' # <<>> /\ sent'[1] = Due(1)
    BY <1>1, <1>4 DEF Events, Due
  <2>2. FwdTypeOK'
    BY <1>1, <1>4, <2>1, AtFwd DEF FwdTypeOK, Events
  <2>3. Recorded'
    BY <1>1, <1>4 DEF Recorded, loopVars
  <2>4. Before' = 1 /\ Before = 1 /\ Length' = Length /\ Told' = Told
    BY <1>1, <1>4, <2>1 DEF Before, Length, Told, loopVars
  <2>5. /\ \A j \in 1..Len(hops) : hops[j] = Due(1 + j)
        /\ pc # "done" => Length = Told
        /\ result.kind = "ok" => Length \in {2 * shown + 1, 2 * shown + 2}
    BY <1>1, <2>4, AtFwd DEF Streamed, Told
  <2>6. Streamed'
    BY <1>1, <1>4, <2>1, <2>4, <2>5 DEF Streamed, loopVars, Told
  <2> QED
    BY <1>2, <2>2, <2>3, <2>6 DEF IInv
<1> QED
  BY <1>3, <1>4 DEF FwdStart

(* send_live_hop.                                                          *)
LEMMA HopKeeps ==
    ASSUME IInv, FwdHop
    PROVE  IInv'
<1>1. /\ fwd = "forward" /\ hops # <<>> /\ hops' = Tail(hops) /\ UNCHANGED <<loopVars, records, gone, atLeave>>
      /\ sent # <<>> /\ records = <<>> /\ result.kind # "aborted"
      /\ \A i \in 1..Len(sent) : sent[i] = Due(i)
  BY AtFwd DEF FwdHop, FwdOnly, Streamed, Recorded
<1>2. /\ hops' \in Seq({"begin", "done"}) /\ Len(hops') = Len(hops) - 1 /\ Head(hops) \in {"begin", "done"}
      /\ \A j \in 1..Len(hops') : hops'[j] = hops[j + 1]
      /\ Head(hops) = hops[1] /\ Len(hops) \in Nat /\ Len(hops) >= 1 /\ Len(sent) \in Nat
  <2>1. hops \in Seq({"begin", "done"}) /\ sent \in Seq(Events)
    BY AtFwd
  <2>2. /\ hops' \in Seq({"begin", "done"}) /\ Len(hops') = Len(hops) - 1 /\ Head(hops) \in {"begin", "done"}
        /\ \A j \in 1..Len(hops') : hops'[j] = hops[j + 1]
    BY <1>1, <2>1, HeadTailProperties
  <2>3. Head(hops) = hops[1] /\ Len(hops) \in Nat /\ Len(hops) >= 1 /\ Len(sent) \in Nat
    BY <1>1, <2>1
  <2> QED
    BY <2>2, <2>3
<1>3. LoopTypeOK' /\ Drawn' /\ Counted' /\ Accounts'
  BY <1>1, <1>2, LoopAlone
<1>4. CASE gone /\ fwd' = "interrupt" /\ sent' = sent
  <2>1. FwdTypeOK'
    BY <1>1, <1>4, AtFwd DEF FwdTypeOK
  <2>2. Recorded'
    BY <1>1, <1>4 DEF Recorded, loopVars
  <2>3. Streamed'
    BY <1>1, <1>4 DEF Streamed, loopVars
  <2> QED
    BY <1>3, <2>1, <2>2, <2>3 DEF IInv
<1>5. CASE sent' = Append(sent, Head(hops)) /\ fwd' = fwd
  <2>1. /\ sent' \in Seq(Events) /\ sent' # <<>> /\ Len(sent') = Len(sent) + 1
        /\ \A i \in 1..Len(sent) : sent'[i] = sent[i]
        /\ sent'[Len(sent) + 1] = Head(hops)
    <3>1. sent \in Seq(Events) /\ Head(hops) \in Events
      BY <1>2, AtFwd DEF Events
    <3> QED
      BY <1>5, <3>1, AppendProperties
  <2>2. /\ \A j \in 1..Len(hops) : hops[j] = Due(Len(sent) + j)
        /\ pc # "done" => Len(sent) + Len(hops) = Told
        /\ result.kind = "ok" => Len(sent) + Len(hops) \in {2 * shown + 1, 2 * shown + 2}
    BY <1>1, AtFwd DEF Streamed, Before, Length, Told
  <2>3. sent'[Len(sent) + 1] = Due(Len(sent) + 1)
    BY <1>2, <2>1, <2>2
  <2>4. \A i \in 1..Len(sent') : sent'[i] = Due(i)
    BY <1>1, <1>2, <2>1, <2>3
  <2>5. \A j \in 1..Len(hops') : hops'[j] = Due(Len(sent') + j)
    <3> SUFFICES ASSUME NEW j \in 1..Len(hops') PROVE hops'[j] = Due(Len(sent') + j)
      OBVIOUS
    <3>1. j + 1 \in 1..Len(hops) /\ Len(sent) + (j + 1) = Len(sent') + j
      BY <1>2, <2>1
    <3>2. hops'[j] = Due(Len(sent) + (j + 1))
      BY <1>2, <2>2, <3>1
    <3> QED
      BY <3>1, <3>2
  <2>6. Before' = Len(sent') /\ Length' = Len(sent) + Len(hops) /\ Told' = Told
    BY <1>1, <1>2, <1>5, <2>1 DEF Before, Length, Told, loopVars
  <2>7. FwdTypeOK'
    BY <1>1, <1>5, <2>1, AtFwd DEF FwdTypeOK, Events
  <2>8. Recorded'
    BY <1>1, <1>5 DEF Recorded, loopVars
  <2>9. Streamed'
    BY <1>1, <1>5, <2>1, <2>2, <2>4, <2>5, <2>6 DEF Streamed, loopVars, Told
  <2> QED
    BY <1>3, <2>7, <2>8, <2>9 DEF IInv
<1> QED
  BY <1>4, <1>5 DEF FwdHop

(* The end of the task: the channel is drained before the end is told.     *)
LEMMA TaskEndedKeeps ==
    ASSUME IInv, FwdTaskEnded
    PROVE  IInv'
<1>1. /\ fwd = "forward" /\ fwd' = "tail" /\ pc = "done" /\ hops' = <<>> /\ sent' = FwdDrain
      /\ UNCHANGED <<loopVars, gone, atLeave>>
      /\ sent # <<>> /\ records = <<>> /\ result.kind \in {"ok", "err", "panic"}
      /\ \A i \in 1..Len(sent) : sent[i] = Due(i)
  BY AtFwd DEF FwdTaskEnded, FwdOnly, Streamed, Recorded, Accounts, Outcomes
<1>2. LoopTypeOK' /\ Drawn' /\ Counted' /\ Accounts'
  <2>1. hops' \in Seq({"begin", "done"})
    BY <1>1
  <2> QED
    BY <1>1, <2>1, LoopAlone
<1>3. /\ sent' \in Seq(Events) /\ sent' # <<>> /\ \A i \in 1..Len(sent') : sent'[i] = Due(i)
      /\ ~gone => Len(sent') = Len(sent) + Len(hops)
  <2>1. CASE gone
    BY <1>1, <2>1, AtFwd DEF FwdDrain
  <2>2. CASE ~gone
    <3>1. sent' = sent \o hops /\ sent \in Seq(Events) /\ hops \in Seq(Events)
      BY <1>1, <2>2, AtFwd DEF FwdDrain, Events
    <3>2. /\ sent' \in Seq(Events) /\ Len(sent') = Len(sent) + Len(hops)
          /\ \A i \in 1..Len(sent) + Len(hops) : sent'[i] = IF i <= Len(sent) THEN sent[i] ELSE hops[i - Len(sent)]
      BY <3>1, ConcatProperties
    <3>3. Len(sent) \in Nat /\ Len(hops) \in Nat /\ Len(sent) > 0
      BY <1>1, <3>1
    <3>4. \A j \in 1..Len(hops) : hops[j] = Due(Len(sent) + j)
      BY <1>1, AtFwd DEF Streamed, Before
    <3>5. ASSUME NEW i \in 1..Len(sent') PROVE sent'[i] = Due(i)
      <4>1. CASE i <= Len(sent)
        BY <1>1, <3>2, <3>3, <4>1
      <4>2. CASE ~(i <= Len(sent))
        <5>1. i - Len(sent) \in 1..Len(hops) /\ Len(sent) + (i - Len(sent)) = i
          BY <3>2, <3>3, <4>2
        <5>2. sent'[i] = hops[i - Len(sent)]
          BY <3>2, <4>2
        <5> QED
          BY <3>4, <5>1, <5>2
      <4> QED
        BY <4>1, <4>2
    <3>6. sent' # <<>>
      BY <3>2, <3>3
    <3> QED
      BY <2>2, <3>2, <3>5, <3>6
  <2> QED
    BY <2>1, <2>2
<1>4. records' = IF result.kind = "panic" THEN <<>> ELSE <<[kind |-> result.kind, rounds |-> result.rounds]>>
  BY <1>1, AtFwd, ReportIsFirst DEF FwdTaskEnded
<1>5. records' \in Seq(UsageRecords)
  <2>1. CASE result.kind = "panic"
    BY <1>4, <2>1
  <2>2. CASE result.kind # "panic"
    <3>1. Report(result.kind, result.rounds)
      BY <2>2 DEF FwdTaskEnded
    <3> QED
      BY <1>1, <2>2, <3>1, AtFwd, ReportIsFirst
  <2> QED
    BY <2>1, <2>2
<1>6. FwdTypeOK'
  BY <1>1, <1>3, <1>5, AtFwd DEF FwdTypeOK, Events, UsageRecords
<1>7. Recorded'
  BY <1>1, <1>4 DEF Recorded, loopVars
<1>8. Streamed'
  <2>1. result.kind = "ok" => Len(sent) + Len(hops) \in {2 * shown + 1, 2 * shown + 2}
    BY <1>1, AtFwd DEF Streamed, Before, Length
  <2> QED
    BY <1>1, <1>3, <2>1 DEF Streamed, loopVars
<1> QED
  BY <1>2, <1>6, <1>7, <1>8 DEF IInv

(* build_loop_sse_tail.                                                    *)
LEMMA TailKeeps ==
    ASSUME IInv, FwdTail
    PROVE  IInv'
<1>1. /\ fwd = "tail" /\ fwd' \in {"interrupt", "ended"} /\ UNCHANGED <<loopVars, hops, records, gone, atLeave>>
      /\ fwd' = "interrupt" => records = <<>>
      /\ fwd' = "ended" => records # <<>>
      /\ sent # <<>> /\ pc = "done" /\ result.kind # "aborted"
      /\ \A i \in 1..Len(sent) : sent[i] = Due(i)
      /\ records = IF result.kind = "panic" THEN <<>> ELSE <<[kind |-> result.kind, rounds |-> result.rounds]>>
  BY AtFwd DEF FwdTail, FwdOnly, Streamed, Recorded
<1>2. LoopTypeOK' /\ Drawn' /\ Counted' /\ Accounts'
  BY <1>1, AtFwd, LoopAlone
<1>3. PICK e \in {"message_stop", "error"} :
         /\ sent' = (IF gone THEN sent ELSE Append(sent, e))
         /\ result.kind = "ok" => e = "message_stop"
  <2>1. CASE result.kind = "ok"
    BY <2>1 DEF FwdTail
  <2>2. CASE result.kind # "ok"
    BY <2>2 DEF FwdTail
  <2> QED
    BY <2>1, <2>2
<1>4. CASE gone
  <2>1. sent' = sent /\ gone'
    BY <1>1, <1>3, <1>4
  <2>2. FwdTypeOK'
    BY <1>1, <2>1, AtFwd DEF FwdTypeOK
  <2>3. Streamed'
    BY <1>1, <2>1 DEF Streamed, loopVars
  <2>4. Recorded'
    <3>1. CASE fwd' = "interrupt"
      BY <1>1, <2>1, <3>1 DEF Recorded, loopVars
    <3>2. CASE fwd' = "ended"
      <4>1. /\ records = <<[kind |-> result.kind, rounds |-> result.rounds]>> /\ result.kind # "panic"
        BY <1>1, <3>2
      <4>2. result.kind \in {"ok", "err"}
        BY <1>1, <4>1, AtFwd DEF Accounts, Outcomes
      <4>3. result.rounds = published /\ atLeave <= published
        BY <1>4, <4>2, AtFwd DEF Accounts
      <4>4. Len(records) = 1 /\ records[1].rounds = result.rounds /\ records[1].kind = result.kind
        BY <4>1
      <4> QED
        BY <1>1, <1>4, <2>1, <3>2, <4>2, <4>3, <4>4 DEF Recorded, loopVars
    <3> QED
      BY <1>1, <3>1, <3>2
  <2> QED
    BY <1>2, <2>2, <2>3, <2>4 DEF IInv
<1>5. CASE ~gone
  <2>1. /\ sent' \in Seq(Events) /\ Len(sent') = Len(sent) + 1 /\ Len(sent) \in Nat /\ Len(sent) > 0
        /\ \A i \in 1..Len(sent) : sent'[i] = sent[i]
        /\ sent'[Len(sent) + 1] = e
    <3>1. sent \in Seq(Events) /\ e \in Events /\ sent' = Append(sent, e)
      BY <1>3, <1>5, AtFwd DEF Events
    <3> QED
      BY <1>1, <3>1, AppendProperties
  <2>2. FwdTypeOK'
    BY <1>1, <2>1, AtFwd DEF FwdTypeOK, Events
  <2>3. Recorded'
    <3>1. CASE fwd' = "interrupt"
      <4>1. result.kind = "panic"
        BY <1>1, <3>1
      <4> QED
        BY <1>1, <3>1, <4>1 DEF Recorded, loopVars
    <3>2. CASE fwd' = "ended"
      <4>1. /\ records = <<[kind |-> result.kind, rounds |-> result.rounds]>> /\ result.kind # "panic"
        BY <1>1, <3>2
      <4>2. result.kind \in {"ok", "err"} /\ result.rounds \in Nat
        BY <1>1, <4>1, BoundsAssumption, AtFwd DEF Accounts, Outcomes
      <4>3. Len(records) = 1 /\ records[1].rounds = result.rounds /\ records[1].kind = result.kind
        BY <4>1
      <4> QED
        BY <1>1, <1>5, <3>2, <4>2, <4>3 DEF Recorded, loopVars
    <3> QED
      BY <1>1, <3>1, <3>2
  <2>4. Streamed'
    <3>1. \A i \in 1..Len(sent') : sent'[i] = Due(i) \/ (sent'[i] \in {"message_stop", "error"} /\ i = Len(sent') /\ i > 1)
      BY <1>1, <1>3, <2>1
    <3>2. result.kind = "ok" => Len(sent) \in {2 * shown + 1, 2 * shown + 2} /\ e = "message_stop"
      BY <1>1, <1>3, <1>5, AtFwd DEF Streamed
    <3>3. result.kind = "ok" => /\ Len(sent') \in {2 * shown + 2, 2 * shown + 3}
                                /\ sent'[Len(sent')] = "message_stop"
      <4>1. shown \in Nat /\ Len(sent') = Len(sent) + 1
        BY <2>1, AtLoop
      <4>2. result.kind = "ok" => Len(sent) + 1 \in {2 * shown + 2, 2 * shown + 3}
        BY <3>2, <4>1
      <4>3. sent'[Len(sent')] = e
        BY <2>1
      <4> QED
        BY <3>2, <4>1, <4>2, <4>3
    <3> QED
      BY <1>1, <3>1, <3>3 DEF Streamed, loopVars
  <2> QED
    BY <1>2, <2>2, <2>3, <2>4 DEF IInv
<1> QED
  BY <1>4, <1>5

(* The client has gone: what the task returned meanwhile is reported, or   *)
(* the end is that of an interrupted request.                              *)
LEMMA GoneKeeps ==
    ASSUME IInv, FwdClosed \/ FwdPingFails
    PROVE  IInv'
<1>1. /\ fwd = "forward" /\ gone /\ UNCHANGED <<loopVars, hops, sent, gone, atLeave>>
      /\ records = <<>> /\ result.kind # "aborted"
      /\ \A i \in 1..Len(sent) : sent[i] = Due(i)
  BY AtFwd DEF FwdClosed, FwdPingFails, FwdOnly, Streamed, Recorded
<1>2. LoopTypeOK' /\ Drawn' /\ Counted' /\ Accounts'
  BY <1>1, AtFwd, LoopAlone
<1>3. CASE fwd' = "interrupt" /\ records' = records
  <2>1. FwdTypeOK'
    BY <1>1, <1>3, AtFwd DEF FwdTypeOK
  <2>2. Recorded' /\ Streamed'
    BY <1>1, <1>3 DEF Recorded, Streamed, loopVars
  <2> QED
    BY <1>2, <2>1, <2>2 DEF IInv
<1>4. CASE fwd' = "ended" /\ result.kind \in {"ok", "err"} /\ Report(result.kind, result.rounds)
  <2>1. /\ records' \in Seq(UsageRecords) /\ Len(records') = 1
        /\ records'[1].kind = result.kind /\ records'[1].rounds = result.rounds
    BY <1>1, <1>4, AtFwd, ReportIsFirst
  <2>2. result.rounds = published /\ atLeave <= published /\ pc = "done"
    BY <1>1, <1>4, AtFwd DEF Accounts, Running
  <2>3. FwdTypeOK'
    BY <1>1, <1>4, <2>1, AtFwd DEF FwdTypeOK, UsageRecords
  <2>4. Recorded'
    BY <1>1, <1>4, <2>1, <2>2 DEF Recorded, loopVars
  <2>5. Streamed'
    BY <1>1, <1>4 DEF Streamed, loopVars
  <2> QED
    BY <1>2, <2>3, <2>4, <2>5 DEF IInv
<1> QED
  BY <1>3, <1>4 DEF FwdClosed, FwdPingFails

(* The common end records what the progress cell has.                      *)
LEMMA InterruptKeeps ==
    ASSUME IInv, FwdInterrupt
    PROVE  IInv'
<1>1. /\ fwd = "interrupt" /\ fwd' = "abort" /\ UNCHANGED <<loopVars, hops, sent, gone, atLeave>>
      /\ Report("interrupted", published)
      /\ records = <<>> /\ result.kind # "aborted" /\ (gone \/ result.kind = "panic")
  BY AtFwd DEF FwdInterrupt, FwdOnly, Recorded
<1>2. LoopTypeOK' /\ Drawn' /\ Counted' /\ Accounts'
  BY <1>1, AtFwd, LoopAlone
<1>3. /\ records' \in Seq(UsageRecords) /\ Len(records') = 1
      /\ records'[1].kind = "interrupted" /\ records'[1].rounds = published
  BY <1>1, AtFwd, ReportIsFirst
<1>4. /\ gone => atLeave <= published
      /\ result.kind = "panic" => result.rounds = 0
      /\ published >= 0
  BY AtFwd, AtLoop, SMTT(30) DEF Accounts
<1>5. FwdTypeOK'
  BY <1>1, <1>3, AtFwd DEF FwdTypeOK, UsageRecords
<1>6. Recorded'
  BY <1>1, <1>3, <1>4 DEF Recorded, loopVars
<1>7. Streamed'
  <2>1. \A i \in 1..Len(sent) : sent[i] = Due(i) \/ (sent[i] \in {"message_stop", "error"} /\ i = Len(sent) /\ i > 1)
    BY AtFwd DEF Streamed
  <2> QED
    BY <1>1, <2>1 DEF Streamed, loopVars
<1> QED
  BY <1>2, <1>5, <1>6, <1>7 DEF IInv

(* The task of the loop is aborted, unless it has ended.                   *)
LEMMA AbortKeeps ==
    ASSUME IInv, FwdAbort
    PROVE  IInv'
<1>1. /\ fwd = "abort" /\ fwd' = "ended" /\ UNCHANGED <<hops, sent, records, gone, atLeave>>
      /\ UNCHANGED <<left, calls, round, compress, todo, found, shown, mcp, published, noted>>
      /\ Len(records) = 1 /\ records[1].rounds >= (IF gone THEN atLeave ELSE result.rounds)
      /\ records[1].kind = "interrupted" => gone \/ result.kind = "panic"
      /\ gone \/ result.kind = "panic"
      /\ LoopTypeOK /\ Drawn /\ Counted /\ Accounts
  BY AtFwd, AtLoop DEF FwdAbort, FwdOnly, Recorded
<1>2. FwdTypeOK'
  BY <1>1, AtFwd DEF FwdTypeOK
<1>3. \A i \in 1..Len(sent) : sent[i] = Due(i) \/ (sent[i] \in {"message_stop", "error"} /\ i = Len(sent) /\ i > 1)
  BY AtFwd DEF Streamed
<1>4. CASE pc = "done" /\ UNCHANGED <<pc, result>>
  <2>1. LoopTypeOK' /\ Drawn' /\ Counted' /\ Accounts'
    BY <1>1, <1>4, AtFwd, LoopAlone DEF loopVars
  <2>2. Recorded' /\ Streamed'
    BY <1>1, <1>3, <1>4 DEF Recorded, Streamed
  <2> QED
    BY <1>2, <2>1, <2>2 DEF IInv
<1>5. CASE pc # "done" /\ Ends("aborted", 0)
  <2>1. pc' = "done" /\ result' = [kind |-> "aborted", rounds |-> 0] /\ gone
    BY <1>1, <1>5 DEF Ends, Accounts, Running
  <2>2. 0 \in 0..(MaxRounds + 1)
    BY BoundsAssumption
  <2>3. LoopTypeOK'
    BY <1>1, <2>1, <2>2 DEF LoopTypeOK, Outcomes
  <2>4. Drawn' /\ Counted'
    BY <1>1, <2>1 DEF Drawn, Counted, Searching
  <2>5. Accounts'
    BY <1>1, <2>1 DEF Accounts, Searching, Outcomes
  <2>6. Recorded' /\ Streamed'
    BY <1>1, <1>3, <2>1 DEF Recorded, Streamed
  <2> QED
    BY <1>2, <2>3, <2>4, <2>5, <2>6 DEF IInv
<1> QED
  BY <1>4, <1>5 DEF FwdAbort

(* The client leaves: what the model has answered by then is published.    *)
LEMMA LeaveKeeps ==
    ASSUME IInv, ClientLeaves
    PROVE  IInv'
<1>1. /\ ~gone /\ gone' = TRUE /\ atLeave' = Answered /\ fwd # "ended"
      /\ UNCHANGED <<loopVars, hops, fwd, sent, records>>
      /\ LoopTypeOK /\ Drawn /\ Counted /\ Accounts /\ Recorded /\ Streamed
  BY AtFwd, AtLoop DEF ClientLeaves
<1>2. Answered <= published /\ Answered \in 0..(MaxRounds + 1)
  <2>1. CASE pc = "done"
    <3>1. result.kind \in Outcomes /\ Answered = result.rounds
      BY <1>1, <2>1 DEF Accounts, Answered
    <3> QED
      <4>1. result.kind \in {"ok", "err"} => result.rounds = published
        BY <1>1 DEF Accounts
      <4>2. result.kind \in {"panic", "aborted"} => result.rounds = 0
        BY <1>1 DEF Accounts
      <4>3. published \in 0..(MaxRounds + 1) /\ published \in Nat
        BY AtFwd, AtLoop
      <4>4. 0 \in 0..(MaxRounds + 1) /\ 0 <= published
        BY <4>3, BoundsAssumption
      <4>5. result.kind \in {"ok", "err"} \/ result.kind \in {"panic", "aborted"}
        BY <3>1 DEF Outcomes
      <4>6. CASE result.kind \in {"ok", "err"}
        <5>1. Answered = published
          BY <3>1, <4>1, <4>6
        <5> QED
          BY <4>3, <5>1
      <4>7. CASE result.kind \in {"panic", "aborted"}
        <5>1. Answered = 0
          BY <3>1, <4>2, <4>7
        <5> QED
          BY <4>4, <5>1
      <4> QED
        BY <4>5, <4>6, <4>7
  <2>2. CASE pc = "round"
    BY <1>1, <2>2, AtFwd, AtLoop DEF Accounts, Answered
  <2>3. CASE pc \in {"search", "mcp", "direct"}
    <3>1. Answered = round + 1 /\ published = round + 1
      BY <1>1, <2>3 DEF Accounts, Answered, Searching
    <3> QED
      BY <3>1, AtFwd, AtLoop
  <2> QED
    BY <1>1, <2>1, <2>2, <2>3 DEF LoopTypeOK
<1>3. LoopTypeOK' /\ Drawn' /\ Counted' /\ Accounts'
  BY <1>1, <1>2 DEF loopVars, LoopTypeOK, Drawn, Counted, Accounts
<1>4. FwdTypeOK'
  BY <1>1, <1>2, AtFwd DEF FwdTypeOK
<1>5. Recorded'
  <2>1. fwd = "abort" => records[1].rounds >= Answered
    <3>1. fwd = "abort" => result.kind = "panic" /\ records[1].rounds >= result.rounds
      BY <1>1 DEF Recorded
    <3>2. result.kind = "panic" => Answered = result.rounds
      BY <1>1 DEF Accounts, Answered, Running
    <3> QED
      BY <3>1, <3>2
  <2> QED
    BY <1>1, <2>1 DEF Recorded, loopVars
<1>6. Streamed'
  BY <1>1 DEF Streamed, loopVars, Before, Length, Searching
<1> QED
  BY <1>3, <1>4, <1>5, <1>6 DEF IInv

(* A request starts with all its calls and an empty stream.                *)
LEMMA InitHolds == Init => IInv
<1> SUFFICES ASSUME Init PROVE IInv
  OBVIOUS
<1>1. /\ MaxCalls \in Nat /\ MaxRounds \in Nat /\ MaxSearches \in Nat /\ MaxCompress \in Nat /\ DirectCreds \in Nat
      /\ McpQuota \in Nat
  BY BoundsAssumption
<1>2. 0 \in 0..Room(MaxRounds) /\ 0 <= Room(0)
  BY <1>1 DEF Room
<1>3. mcp \in McpCalls
  BY <1>1 DEF Init, NoCall, McpCalls
<1>4. LoopTypeOK /\ FwdTypeOK
  <2>1. result \in [kind : Outcomes \cup {Running}, rounds : 0..(MaxRounds + 1)]
    BY <1>1 DEF Init
  <2>2. LoopTypeOK
    BY <1>1, <1>2, <1>3, <2>1 DEF Init, LoopTypeOK
  <2>3. FwdTypeOK
    <3>1. 0 \in 0..(MaxRounds + 1) /\ <<>> \in Seq(Events) /\ <<>> \in Seq(UsageRecords)
      BY <1>1
    <3> QED
      BY <3>1 DEF Init, FwdTypeOK, Events, UsageRecords
  <2> QED
    BY <2>2, <2>3
<1>5. Drawn /\ Counted /\ Accounts /\ Recorded
  BY <1>1, <1>2 DEF Init, Drawn, Counted, Accounts, Recorded, Searching, Running
<1>6. Streamed
  BY DEF Init, Streamed, Before, Length, Searching, Running
<1> QED
  BY <1>4, <1>5, <1>6 DEF IInv

(* Every step of the two tasks and of the client keeps the invariant.      *)
LEMMA Inductive == IInv /\ [Next]_vars => IInv'
<1> SUFFICES ASSUME IInv, [Next]_vars PROVE IInv'
  OBVIOUS
<1>1. CASE Loop
  BY <1>1, LoopSteps, LoopSafe
<1>2. CASE Forwarder
  BY <1>2, StartKeeps, HopKeeps, TaskEndedKeeps, TailKeeps, GoneKeeps, InterruptKeeps, AbortKeeps DEF Forwarder
<1>3. CASE ClientLeaves
  BY <1>3, LeaveKeeps
<1>4. CASE UNCHANGED vars
  BY <1>4 DEF vars, loopVars, IInv, LoopTypeOK, FwdTypeOK, Drawn, Counted, Accounts, Recorded, Streamed, Before, Length, Searching
<1> QED
  BY <1>1, <1>2, <1>3, <1>4 DEF Next, Finished

(* The provider's records, along the loop's way: before a search is done   *)
(* there is one of each result, and one more of a search that went on to a *)
(* direct call or ended the loop.                                          *)
Noted ==
    /\ noted \in [mcp : Nat, failed : Nat]
    /\ pc \in {"round", "search", "mcp"} => noted.mcp = shown + found
    /\ pc = "direct" => noted.mcp = shown + found + 1
    /\ noted.mcp \in {shown + found, shown + found + 1}
    /\ noted.failed >= compress

(* The first request has not called anything.                              *)
LEMMA InitNotes == Init => Noted
BY DEF Init, Noted

(* Searches of earlier rounds and of this one are results all the same, and *)
(* a new round has compressed nothing.                                     *)
LEMMA NotesKept ==
    ASSUME IInv, Noted, [Next]_vars
    PROVE  Noted'
<1>1. /\ shown \in Nat /\ found \in Nat /\ compress \in Nat /\ noted.mcp \in Nat /\ noted.failed \in Nat
      /\ pc \in {"round", "search", "mcp", "direct", "done"}
      /\ noted = [mcp |-> noted.mcp, failed |-> noted.failed]
  BY AtLoop, BoundsAssumption DEF LoopTypeOK, Noted
<1>2. CASE CompressRetry
  <2>1. /\ pc = "round" /\ UNCHANGED <<pc, found, shown>> /\ compress' = compress + 1
        /\ noted' = [noted EXCEPT !.failed = @ + 1]
    BY <1>2 DEF CompressRetry, NotesFailure
  <2> QED
    BY <1>1, <2>1 DEF Noted
<1>3. CASE RoundFails
  <2>1. /\ pc = "round" /\ pc' = "done" /\ UNCHANGED <<found, shown, compress>>
        /\ noted' = [noted EXCEPT !.failed = @ + 1] \/ noted' = noted
    BY <1>3 DEF RoundFails, Ends, NotesFailure
  <2> QED
    BY <1>1, <2>1 DEF Noted
<1>4. CASE \E n \in 0..MaxSearches, clientTool \in BOOLEAN : RoundAnswers(n, clientTool)
  <2>1. /\ pc = "round" /\ pc' \in {"search", "done"} /\ UNCHANGED <<found, shown, compress, noted>>
    BY <1>4 DEF RoundAnswers, Ends
  <2> QED
    BY <1>1, <2>1 DEF Noted
<1>5. CASE BeginSearch
  <2>1. pc = "search" /\ pc' = "mcp" /\ UNCHANGED <<found, shown, compress, noted>>
    BY <1>5 DEF BeginSearch
  <2> QED
    BY <1>1, <2>1 DEF Noted
<1>6. CASE NextRound
  <2>1. pc = "search" /\ pc' = "round" /\ shown' = shown + found /\ found' = 0 /\ compress' = 0 /\ noted' = noted
    BY <1>6 DEF NextRound
  <2> QED
    BY <1>1, <2>1 DEF Noted
<1>7. CASE McpNoAccount \/ McpNoEndpoint \/ McpRetry \/ McpStops \/ DirectSkips
  <2>1. UNCHANGED <<pc, found, shown, compress, noted>>
    BY <1>7 DEF McpNoAccount, McpNoEndpoint, McpRetry, McpStops, DirectSkips, McpMoves
  <2> QED
    BY <1>1, <2>1 DEF Noted
<1>8. CASE McpBails \/ McpGivesUp
  <2>1. /\ pc = "mcp" /\ pc' \in {"direct", "done"} /\ UNCHANGED <<found, shown, compress>>
        /\ noted' = [noted EXCEPT !.mcp = @ + 1]
    BY <1>8 DEF McpBails, McpGivesUp, Ends, McpMoves, NotesMcp
  <2> QED
    BY <1>1, <2>1 DEF Noted
<1>9. CASE McpAnswers
  <2>1. /\ pc = "mcp" /\ pc' = "search" /\ UNCHANGED <<shown, compress>> /\ found' = found + 1
        /\ noted' = [noted EXCEPT !.mcp = @ + 1]
    BY <1>9 DEF McpAnswers, Found, McpMoves, NotesMcp
  <2> QED
    BY <1>1, <2>1 DEF Noted
<1>10. CASE BudgetOut
  <2>1. /\ pc = "mcp" /\ pc' = "done" /\ compress' = compress /\ shown' = shown + found /\ found' = 0
        /\ noted' = [noted EXCEPT !.mcp = @ + 1]
    BY <1>10 DEF BudgetOut, Ends, NotesMcp
  <2> QED
    BY <1>1, <2>1 DEF Noted
<1>11. CASE DirectAnswers
  <2>1. /\ pc = "direct" /\ pc' = "search" /\ UNCHANGED <<shown, compress, noted>> /\ found' = found + 1
    BY <1>11 DEF DirectAnswers, Found, McpMoves
  <2> QED
    BY <1>1, <2>1 DEF Noted
<1>12. CASE DirectFails \/ DirectNone \/ LoopPanics \/ FwdAbort
  <2>1. pc' \in {pc, "done"} /\ UNCHANGED <<found, shown, compress, noted>>
    BY <1>12 DEF DirectFails, DirectNone, LoopPanics, FwdAbort, Ends, McpMoves
  <2> QED
    BY <1>1, <2>1 DEF Noted
<1>13. CASE \/ FwdStart \/ FwdHop \/ FwdTaskEnded \/ FwdTail \/ FwdClosed \/ FwdPingFails \/ FwdInterrupt
            \/ ClientLeaves \/ UNCHANGED vars
  <2>1. UNCHANGED <<pc, found, shown, compress, noted>>
    BY <1>13 DEF FwdStart, FwdHop, FwdTaskEnded, FwdTail, FwdClosed, FwdPingFails, FwdInterrupt, ClientLeaves,
                 vars, loopVars
  <2> QED
    BY <1>1, <2>1 DEF Noted
<1> QED
  BY <1>2, <1>3, <1>4, <1>5, <1>6, <1>7, <1>8, <1>9, <1>10, <1>11, <1>12, <1>13 DEF Next, Loop, Forwarder, Finished

(* IInv holds in every reachable state, and so does Noted.                 *)
LEMMA Reachable == Spec => [](IInv /\ Noted)
BY InitHolds, Inductive, InitNotes, NotesKept, PTL DEF Spec

(* The counters of the loop, the channel, the stream and the records stay  *)
(* in their types; the searches shown stay within those of the rounds.     *)
THEOREM TypeCorrect == Spec => []TypeOK
<1>1. IInv /\ Noted => TypeOK
  BY DEF IInv, LoopTypeOK, FwdTypeOK, Noted, TypeOK, McpCalls, Room
<1> QED
  BY <1>1, Reachable, PTL

(* The rounds of the model, the attempts of a search and its direct calls  *)
(* draw on one budget and never overdraw it.                               *)
THEOREM BudgetKept == Spec => []BudgetHolds
<1>1. IInv => BudgetHolds
  <2> SUFFICES ASSUME IInv PROVE BudgetHolds
    OBVIOUS
  <2>1. calls \in Nat /\ left \in Nat /\ calls + left = MaxCalls
    BY AtLoop DEF Drawn
  <2> QED
    BY <2>1 DEF BudgetHolds
<1> QED
  BY <1>1, Reachable, PTL

(* However the loop's end, its panic and the client's leaving race, the    *)
(* request leaves one usage record of its own, with a true account, and the *)
(* provider's beside it are those of its searches and of its failed calls. *)
THEOREM RecordIsTrue == Spec => []OneTrueRecord
<1>1. IInv /\ Noted => OneTrueRecord
  <2> SUFFICES ASSUME IInv, Noted PROVE OneTrueRecord
    OBVIOUS
  <2>1. Recorded /\ FwdTypeOK
    BY AtFwd
  <2>2. Len(records) <= 1
    <3>1. CASE fwd \in {"start", "forward", "interrupt"}
      BY <2>1, <3>1 DEF Recorded
    <3>2. CASE fwd \in {"abort", "ended"}
      <4>1. Len(records) = 1
        BY <2>1, <3>2 DEF Recorded
      <4> QED
        BY <4>1
    <3>3. CASE fwd = "tail"
      <4>1. records = <<>> \/ records = <<[kind |-> result.kind, rounds |-> result.rounds]>>
        BY <2>1, <3>3 DEF Recorded
      <4>2. records = <<>> => Len(records) = 0
        OBVIOUS
      <4>3. records = <<[kind |-> result.kind, rounds |-> result.rounds]>> => Len(records) = 1
        OBVIOUS
      <4>4. CASE Len(records) = 0
        BY <4>4
      <4>5. CASE Len(records) = 1
        BY <4>5
      <4> QED
        BY <4>1, <4>2, <4>3, <4>4, <4>5
    <3> QED
      BY <2>1, <3>1, <3>2, <3>3 DEF FwdTypeOK
  <2> QED
    BY <2>1, <2>2 DEF Recorded, Noted, OneTrueRecord
<1> QED
  BY <1>1, Reachable, PTL

(* The place of a search's end in the stream.                              *)
LEMMA DoneAtOdd ==
    ASSUME NEW i \in Nat, i > 0
    PROVE  /\ Due(i) = "message_start" <=> i = 1
           /\ Due(i) = "done" <=> i % 2 = 1 /\ i > 1
           /\ Due(i) = "begin" <=> i % 2 = 0
           /\ Due(i) \in {"message_start", "begin", "done"}
           /\ i > 1 /\ i % 2 = 1 => (i - 1) % 2 = 0
           /\ i % 2 = 0 => (i - 1) % 2 = 1
<1>1. i % 2 = 0 \/ i % 2 = 1
  OBVIOUS
<1>2. i = 1 => i % 2 = 1
  OBVIOUS
<1>3. i % 2 = 1 => (i - 1) % 2 = 0
  OBVIOUS
<1>4. i % 2 = 0 => (i - 1) % 2 = 1
  OBVIOUS
<1> QED
  BY <1>1, <1>2, <1>3, <1>4 DEF Due

(* There are s of them in a stream that ends after them.                   *)
LEMMA DoneCount ==
    ASSUME NEW s \in Nat, NEW n \in {2 * s + 1, 2 * s + 2}
    PROVE  Cardinality({i \in 1..n : i % 2 = 1 /\ i > 1}) = s
<1> DEFINE S == {i \in 1..n : i % 2 = 1 /\ i > 1}
           f == [k \in 1..s |-> 2 * k + 1]
<1>1. \A k \in 1..s : f[k] \in S
  <2> SUFFICES ASSUME NEW k \in 1..s PROVE 2 * k + 1 \in S
    OBVIOUS
  <2>1. (2 * k + 1) % 2 = 1
    BY Parity
  <2>2. 2 * k + 1 \in 1..n /\ 2 * k + 1 > 1
    OBVIOUS
  <2> QED
    BY <2>1, <2>2
<1>2. \A k, j \in 1..s : f[k] = f[j] => k = j
  OBVIOUS
<1>3. ASSUME NEW i \in S PROVE \E k \in 1..s : f[k] = i
  <2>1. i = 2 * (i \div 2) + 1 /\ i \div 2 \in Nat
    OBVIOUS
  <2>2. i \div 2 \in 1..s
    BY <2>1
  <2> QED
    BY <2>1, <2>2
<1>4. f \in Bijection(1..s, S)
  <2>1. f \in [1..s -> S] /\ DOMAIN f = 1..s
    BY <1>1
  <2> HIDE DEF S, f
  <2>2. f \in Injection(1..s, S)
    BY <1>2, <2>1 DEF Injection, IsInjective
  <2>3. f \in Surjection(1..s, S)
    BY <1>3, <2>1 DEF Surjection
  <2> QED
    BY <2>2, <2>3 DEF Bijection
<1>5. ExistsBijection(1..s, S)
  BY <1>4 DEF ExistsBijection
<1> HIDE DEF S, f
<1>6. Cardinality(S) = s
  BY <1>5, FS_CountingElements
<1> QED
  BY <1>6 DEF S

(* The client's stream is well formed, and one that was read to the end of *)
(* a successful request shows every result found.                          *)
THEOREM StreamIsComplete == Spec => []StreamComplete
<1>1. IInv => StreamComplete
  <2> SUFFICES ASSUME IInv PROVE StreamComplete
    OBVIOUS
  <2>1. /\ Streamed /\ sent \in Seq(Events) /\ Len(sent) \in Nat /\ DOMAIN sent = 1..Len(sent)
        /\ shown \in Nat
    BY AtFwd, AtLoop
  <2>2. \A i \in 1..Len(sent) :
          sent[i] = Due(i) \/ (sent[i] \in {"message_stop", "error"} /\ i = Len(sent) /\ i > 1)
    BY <2>1 DEF Streamed
  <2>3. ASSUME NEW i \in 1..Len(sent)
        PROVE  /\ sent[i] = "message_start" <=> i = 1
               /\ sent[i] = "done" => sent[i - 1] = "begin"
               /\ sent[i] = "begin" => sent[i - 1] \in {"message_start", "done"}
               /\ sent[i] \in {"message_stop", "error"} => i = Len(sent)
    <3>1. /\ Due(i) = "message_start" <=> i = 1
          /\ Due(i) = "done" <=> i % 2 = 1 /\ i > 1
          /\ Due(i) = "begin" <=> i % 2 = 0
          /\ Due(i) \in {"message_start", "begin", "done"}
      BY <2>1, DoneAtOdd
    <3>2. i > 1 => /\ i - 1 \in 1..Len(sent) /\ sent[i - 1] = Due(i - 1)
      <4>1. i > 1 => i - 1 \in 1..Len(sent) /\ i - 1 # Len(sent)
        BY <2>1
      <4> QED
        BY <2>2, <4>1
    <3>3. i > 1 /\ i % 2 = 1 => Due(i - 1) = "begin"
      BY <2>1, DoneAtOdd
    <3>4. i > 1 /\ i % 2 = 0 => Due(i - 1) \in {"message_start", "done"}
      <4>1. i > 1 /\ i % 2 = 0 => (i - 1) % 2 = 1
        BY <2>1, DoneAtOdd
      <4>2. i > 1 => /\ i - 1 \in Nat /\ i - 1 > 0
        OBVIOUS
      <4> QED
        BY <4>1, <4>2, DoneAtOdd DEF Due
    <3>5. i % 2 = 0 => i > 1
      BY <3>1 DEF Due
    <3> QED
      BY <2>2, <3>1, <3>2, <3>3, <3>4, <3>5
  <2>4. ASSUME fwd = "ended", ~gone, result.kind = "ok"
        PROVE  Cardinality({i \in DOMAIN sent : sent[i] = "done"}) = shown
    <3>1. Len(sent) \in {2 * shown + 2, 2 * shown + 3} /\ sent[Len(sent)] = "message_stop"
      BY <2>1, <2>4 DEF Streamed
    <3>2. PICK n \in {2 * shown + 1, 2 * shown + 2} : Len(sent) = n + 1
      <4>1. Len(sent) = 2 * shown + 2 => Len(sent) = (2 * shown + 1) + 1
        BY <2>1
      <4>2. Len(sent) = 2 * shown + 3 => Len(sent) = (2 * shown + 2) + 1
        BY <2>1
      <4> QED
        BY <3>1, <4>1, <4>2
    <3>3. n \in Nat
      BY <2>1
    <3>4. ASSUME NEW i \in 1..n
          PROVE  sent[i] = "done" <=> i % 2 = 1 /\ i > 1
      <4>1. i \in 1..Len(sent) /\ i # Len(sent) /\ i \in Nat /\ i > 0
        BY <3>2, <3>3
      <4>2. sent[i] = Due(i)
        BY <2>2, <4>1
      <4> QED
        BY <4>1, <4>2, DoneAtOdd
    <3>5. DOMAIN sent = 1..n \cup {n + 1} /\ sent[n + 1] # "done"
      BY <2>1, <3>1, <3>2, <3>3
    <3>6. {i \in DOMAIN sent : sent[i] = "done"} = {i \in 1..n : i % 2 = 1 /\ i > 1}
      BY <3>4, <3>5
    <3> QED
      BY <2>1, <3>6, DoneCount
  <2> QED
    BY <2>1, <2>3, <2>4 DEF StreamComplete
<1> QED
  BY <1>1, Reachable, PTL
=============================================================================
