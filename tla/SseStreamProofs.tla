---------------------------- MODULE SseStreamProofs ----------------------------
(***************************************************************************)
(* Proofs about SseStream, for any tools, any number of frames, pieces,     *)
(* retries and decoder errors: the client's events follow the protocol of   *)
(* MessageStream, the usage record is true, and a stream that wrote         *)
(* something is not reopened.                                               *)
(***************************************************************************)
EXTENDS SseStream, SequenceTheorems, FiniteSetTheorems, WellFoundedInduction, TLAPS

(***************************************************************************)
(* The protocol, of the set S of the events so far.                        *)
(***************************************************************************)

Ev == [type : M!MessageEvents \cup M!BlockEvents, block : Nat]

Opened(S, b) == \E k \in M!Kinds : E(k, b) \in S
Closed(S, b) == E("content_block_stop", b) \in S

(* M!Legal, as rules about the next event e.                               *)
May(S, e) ==
    /\ e.type \in M!MessageEvents <=> e.block = 0
    /\ e.type = "message_start" => E("message_start", 0) \notin S
    /\ e.type \in M!Kinds =>
          /\ E("message_start", 0) \in S /\ E("message_delta", 0) \notin S
          /\ ~Opened(S, e.block) /\ \A b \in 1..(e.block - 1) : Opened(S, b)
          /\ \A b \in Nat, k \in M!Kinds :
               E(k, b) \in S /\ ~Closed(S, b) => k \in M!Beside(e.type)
    /\ e.type \in {"content_block_delta", "content_block_stop"} =>
          Opened(S, e.block) /\ ~Closed(S, e.block)
    /\ e.type = "message_delta" =>
          /\ E("message_start", 0) \in S /\ E("message_delta", 0) \notin S
          /\ \A b \in Nat : Opened(S, b) => Closed(S, b)
    /\ e.type = "message_stop" => E("message_delta", 0) \in S /\ E("message_stop", 0) \notin S
    /\ e.type = "error" => E("message_stop", 0) \notin S

Before(q, i) == {q[j] : j \in 1..(i - 1)}

(* A log that follows the protocol. A block's number is less than its      *)
(* place, since the message has started and so have the blocks before it.  *)
Proper(q) ==
    /\ q \in Seq(Ev)
    /\ \A i \in 1..Len(q) : q[i].block < i /\ May(Before(q, i), q[i])

(* Events are told apart by type and block.                                *)
LEMMA EventParts ==
    ASSUME NEW t, NEW b
    PROVE  /\ E(t, b).type = t /\ E(t, b).block = b
           /\ \A u, k : E(t, b) = E(u, k) => t = u /\ b = k
BY DEF E, M!Event

(* An event of the protocol.                                               *)
LEMMA EventIsEv ==
    ASSUME NEW b \in Nat, NEW t \in M!MessageEvents \cup M!BlockEvents
    PROVE  E(t, b) \in Ev
BY DEF E, M!Event, Ev

(* A log and one more legal event.                                         *)
LEMMA AppendProper ==
    ASSUME NEW q, Proper(q), NEW e \in Ev, e.block <= Len(q), May(Range(q), e)
    PROVE  /\ Proper(Append(q, e))
           /\ Range(Append(q, e)) = Range(q) \cup {e}
           /\ Len(Append(q, e)) = Len(q) + 1
<1> DEFINE r == Append(q, e)
<1>1. q \in Seq(Ev) /\ Len(q) \in Nat /\ DOMAIN q = 1..Len(q)
  BY LenProperties DEF Proper
<1>2. /\ r \in Seq(Ev) /\ Len(r) = Len(q) + 1 /\ r[Len(q) + 1] = e
      /\ \A i \in 1..Len(q) : r[i] = q[i]
  BY <1>1, AppendProperties
<1>3. DOMAIN r = 1..(Len(q) + 1)
  BY <1>2, LenProperties
<1>4. Range(r) = Range(q) \cup {e}
  <2>1. \A x \in Range(r) : x \in Range(q) \cup {e}
    BY <1>1, <1>2, <1>3 DEF Range
  <2>2. \A x \in Range(q) : x \in Range(r)
    <3> SUFFICES ASSUME NEW i \in 1..Len(q) PROVE q[i] \in Range(r)
      BY <1>1 DEF Range
    <3>1. i \in DOMAIN r /\ r[i] = q[i]
      BY <1>1, <1>2, <1>3
    <3> QED
      BY <3>1 DEF Range
  <2>3. e \in Range(r)
    <3>1. Len(q) + 1 \in DOMAIN r
      BY <1>1, <1>3
    <3> QED
      BY <1>2, <3>1 DEF Range
  <2> QED
    BY <2>1, <2>2, <2>3
<1>5. \A i \in 1..(Len(q) + 1) : Before(r, i) = Before(q, i)
  <2> SUFFICES ASSUME NEW i \in 1..(Len(q) + 1) PROVE Before(r, i) = Before(q, i)
    OBVIOUS
  <2>1. \A j \in 1..(i - 1) : r[j] = q[j]
    BY <1>1, <1>2
  <2> QED
    BY <2>1 DEF Before
<1>6. Before(q, Len(q) + 1) = Range(q)
  BY <1>1 DEF Before, Range
<1>7. ASSUME NEW i \in 1..Len(r) PROVE r[i].block < i /\ May(Before(r, i), r[i])
  <2>1. CASE i = Len(q) + 1
    <3>1. r[i] = e /\ Before(r, i) = Range(q) /\ e.block \in Nat
      BY <2>1, <1>1, <1>2, <1>5, <1>6 DEF Ev
    <3> QED
      BY <3>1, <2>1, <1>1
  <2>2. CASE i # Len(q) + 1
    <3>1. i \in 1..Len(q) /\ i \in 1..(Len(q) + 1)
      BY <2>2, <1>1, <1>2
    <3>2. r[i] = q[i] /\ Before(r, i) = Before(q, i)
      BY <3>1, <1>2, <1>5
    <3> QED
      BY <3>1, <3>2 DEF Proper
  <2> QED
    BY <2>1, <2>2
<1> QED
  BY <1>2, <1>4, <1>7 DEF Proper

(***************************************************************************)
(* StreamContext, and what the log says of it.                             *)
(***************************************************************************)

Fields == {"blocks", "text", "think", "inThinking", "extracted", "reasoned", "tools", "pending",
           "hasTool", "terminal", "held", "body", "produced", "discarded", "ok", "told", "out"}

BlockRec == [type : AllTypes, open : BOOLEAN]

Fits(c) ==
    /\ DOMAIN c = Fields
    /\ c.blocks \in Seq(BlockRec)
    /\ c.tools \in [Tools -> 0..Len(c.blocks)] /\ c.pending \subseteq Tools
    /\ {c.text, c.think} \subseteq 0..Len(c.blocks)
    /\ c.out \in Seq(Ev)

(* What the client has been told of the blocks and of a failure.           *)
Told(S, c) ==
    /\ \A b \in Nat : Opened(S, b) <=> b \in DOMAIN c.blocks
    /\ \A b \in Nat : Closed(S, b) <=> b \in DOMAIN c.blocks /\ ~c.blocks[b].open
    /\ E("error", 0) \in S <=> c.told
    /\ c.told => ~c.ok

(* And of the kinds of the blocks.                                         *)
Kinded(S, c) ==
    \A b \in Nat, k \in M!Kinds : E(k, b) \in S => b \in DOMAIN c.blocks /\ c.blocks[b].type = k

(* Its message has begun and not ended.                                    *)
Running(S) ==
    E("message_start", 0) \in S /\ E("message_delta", 0) \notin S /\ E("message_stop", 0) \notin S

ToolBlocks(c) ==
    \A t \in Tools : c.tools[t] # 0 => c.blocks[c.tools[t]].type = "tool_use"

(* The log s and behind it a batch.                                        *)
Log(s, out) == s \o out
Heard(s, out) == Range(Log(s, out))

(* Where a context may be before the end of its message.                   *)
Base(s, c) ==
    /\ s \in Seq(Ev) /\ Fits(c) /\ ToolBlocks(c)
    /\ Proper(Log(s, c.out)) /\ Len(c.blocks) < Len(Log(s, c.out))
    /\ Running(Heard(s, c.out)) /\ Told(Heard(s, c.out), c) /\ Kinded(Heard(s, c.out), c)

(* No thinking goes on that the client is shown.                           *)
Quiet(c) == ~(thinking /\ c.inThinking)

(* While thinking goes on its block is open: create_thinking_delta_event   *)
(* asks nobody.                                                            *)
ThinkOpen(c) ==
    ~Quiet(c) =>
        /\ c.think \in DOMAIN c.blocks
        /\ c.blocks[c.think].type = "thinking" /\ c.blocks[c.think].open

(* A text block that is open is the current one; a thinking block that is   *)
(* open is the one in which thinking goes on.                              *)
Current(c) ==
    \A b \in DOMAIN c.blocks : c.blocks[b].open =>
        /\ c.blocks[b].type = "text" => b = c.text
        /\ c.blocks[b].type = "thinking" => ~Quiet(c) /\ b = c.think

Good(s, c) == Base(s, c) /\ ThinkOpen(c) /\ Current(c)

(* What an operator on the blocks leaves alone.                            *)
Kept(c, d) ==
    /\ DOMAIN d = Fields
    /\ \A f \in Fields \ {"blocks", "out", "hasTool"} : d[f] = c[f]

Emits(c, e, d) == Kept(c, d) /\ d.out = Append(c.out, e)

(* What an operator on the fields other than the blocks leaves alone.      *)
Same(c, d) == d.text = c.text /\ d.think = c.think /\ d.inThinking = c.inThinking

(* An event that starts no block tells nothing of the kinds.               *)
LEMMA KindsStay ==
    ASSUME NEW S, NEW c, Kinded(S, c), NEW t, t \notin M!Kinds, NEW b, NEW d,
           \A k \in DOMAIN c.blocks : k \in DOMAIN d.blocks /\ d.blocks[k].type = c.blocks[k].type
    PROVE  /\ Kinded(S \cup {E(t, b)}, d)
           /\ \A k : Opened(S \cup {E(t, b)}, k) <=> Opened(S, k)
<1>1. \A u \in M!Kinds : \A k : E(u, k) \in S \cup {E(t, b)} <=> E(u, k) \in S
  BY EventParts
<1>2. Kinded(S \cup {E(t, b)}, d)
  BY <1>1 DEF Kinded
<1> QED
  BY <1>1, <1>2 DEF Opened

(* An event at the end of what follows s is at the end of all.             *)
LEMMA ConcatAppend ==
    ASSUME NEW s \in Seq(Ev), NEW t \in Seq(Ev), NEW e \in Ev
    PROVE  s \o Append(t, e) = Append(s \o t, e)
<1>1. s \o t \in Seq(Ev) /\ <<e>> \in Seq(Ev)
  BY ConcatProperties
<1>2. Append(t, e) = t \o <<e>> /\ Append(s \o t, e) = (s \o t) \o <<e>>
  BY <1>1, AppendIsConcat
<1> QED
  BY <1>1, <1>2, ConcatAssociative

(* A handler emits one more event.                                         *)
LEMMA EmitKeeps ==
    ASSUME NEW s, NEW c, Base(s, c), NEW e \in Ev, e.block <= Len(c.blocks) + 1,
           May(Heard(s, c.out), e)
    PROVE  LET out == Append(c.out, e)
           IN  /\ out \in Seq(Ev) /\ Proper(Log(s, out)) /\ Heard(s, out) = Heard(s, c.out) \cup {e}
               /\ Len(Log(s, out)) \in Nat /\ Len(c.blocks) + 1 < Len(Log(s, out))
<1> DEFINE q == Log(s, c.out)
<1>1. s \in Seq(Ev) /\ c.out \in Seq(Ev) /\ Proper(q) /\ Len(c.blocks) < Len(q)
  BY DEF Base, Fits
<1>2. Len(c.blocks) \in Nat /\ Len(q) \in Nat /\ e.block \in Nat
  BY <1>1, LenProperties DEF Base, Fits, Proper, Ev
<1>3. Log(s, Append(c.out, e)) = Append(q, e)
  BY <1>1, ConcatAppend DEF Log
<1>4. Append(c.out, e) \in Seq(Ev)
  BY <1>1, AppendProperties
<1> HIDE DEF q
<1>5. /\ Proper(Append(q, e)) /\ Range(Append(q, e)) = Range(q) \cup {e}
      /\ Len(Append(q, e)) = Len(q) + 1
  <2>1. e.block <= Len(q)
    BY <1>1, <1>2
  <2>2. May(Range(q), e)
    BY DEF q, Heard
  <2> QED
    BY <1>1, <2>1, <2>2, AppendProper
<1> QED
  BY <1>1, <1>2, <1>3, <1>4, <1>5 DEF Heard, q

(* An event and what it does to the blocks.                                *)
LEMMA EmitBase ==
    ASSUME NEW s, NEW c, Base(s, c), NEW e \in Ev, e.block <= Len(c.blocks) + 1,
           May(Heard(s, c.out), e), NEW d, Emits(c, e, d),
           d.blocks \in Seq(BlockRec), Len(d.blocks) \in {Len(c.blocks), Len(c.blocks) + 1},
           \A k \in DOMAIN c.blocks : d.blocks[k].type = c.blocks[k].type,
           Running(Heard(s, c.out) \cup {e}), Told(Heard(s, c.out) \cup {e}, d),
           Kinded(Heard(s, c.out) \cup {e}, d)
    PROVE  Base(s, d)
<1>1. /\ d.out \in Seq(Ev) /\ Proper(Log(s, d.out)) /\ Heard(s, d.out) = Heard(s, c.out) \cup {e}
      /\ Len(Log(s, d.out)) \in Nat /\ Len(c.blocks) + 1 < Len(Log(s, d.out))
  <2> DEFINE out == Append(c.out, e)
  <2>1. /\ out \in Seq(Ev) /\ Proper(Log(s, out)) /\ Heard(s, out) = Heard(s, c.out) \cup {e}
        /\ Len(Log(s, out)) \in Nat /\ Len(c.blocks) + 1 < Len(Log(s, out))
    BY EmitKeeps, Zenon
  <2>2. d.out = out
    BY DEF Emits
  <2> HIDE DEF out
  <2> QED
    BY <2>1, <2>2
<1>2. /\ DOMAIN d = Fields /\ d.tools = c.tools /\ d.pending = c.pending
      /\ d.text = c.text /\ d.think = c.think
  BY DEF Emits, Kept, Fields
<1>3. /\ Len(c.blocks) \in Nat /\ Len(d.blocks) \in Nat /\ DOMAIN c.blocks = 1..Len(c.blocks)
  BY LenProperties DEF Base, Fits
<1>4. /\ c.tools \in [Tools -> 0..Len(c.blocks)] /\ c.pending \subseteq Tools
      /\ {c.text, c.think} \subseteq 0..Len(c.blocks)
  BY DEF Base, Fits
<1>5. Fits(d)
  <2>1. 0..Len(c.blocks) \subseteq 0..Len(d.blocks)
    BY <1>3
  <2>2. d.tools \in [Tools -> 0..Len(d.blocks)]
    BY <1>2, <1>4, <2>1
  <2> QED
    BY <1>1, <1>2, <1>4, <2>1, <2>2 DEF Fits
<1>6. ToolBlocks(d)
  <2> SUFFICES ASSUME NEW t \in Tools, d.tools[t] # 0 PROVE d.blocks[d.tools[t]].type = "tool_use"
    BY DEF ToolBlocks
  <2>1. c.tools[t] \in DOMAIN c.blocks /\ c.blocks[c.tools[t]].type = "tool_use"
    BY <1>2, <1>3, <1>4 DEF Base, ToolBlocks
  <2>2. d.blocks[c.tools[t]].type = c.blocks[c.tools[t]].type
    BY <2>1
  <2> QED
    BY <1>2, <2>1, <2>2
<1> QED
  BY <1>1, <1>3, <1>5, <1>6 DEF Base

(* A block that stops.                                                     *)
LEMMA BlockStops ==
    ASSUME NEW blocks \in Seq(BlockRec), NEW b \in DOMAIN blocks
    PROVE  LET B == [blocks EXCEPT ![b].open = FALSE]
           IN  /\ B \in Seq(BlockRec) /\ Len(B) = Len(blocks) /\ DOMAIN B = DOMAIN blocks
               /\ \A k \in DOMAIN blocks :
                    B[k].type = blocks[k].type /\ (B[k].open <=> blocks[k].open /\ k # b)
<1> DEFINE r == [blocks[b] EXCEPT !.open = FALSE]
           B == [blocks EXCEPT ![b] = r]
<1>1. DOMAIN blocks = 1..Len(blocks) /\ \A k \in DOMAIN blocks : blocks[k] \in BlockRec
  BY LenProperties, ElementOfSeq
<1>2. r \in BlockRec /\ r.type = blocks[b].type /\ r.open = FALSE
  BY <1>1 DEF BlockRec
<1>3. B \in Seq(BlockRec) /\ Len(B) = Len(blocks)
  BY <1>1, <1>2, ExceptSeq
<1>4. DOMAIN B = DOMAIN blocks /\ \A k \in DOMAIN blocks : B[k] = IF k = b THEN r ELSE blocks[k]
  OBVIOUS
<1> QED
  BY <1>2, <1>3, <1>4

(* handle_content_block_stop.                                              *)
LEMMA StopBlockKeeps ==
    ASSUME NEW s, NEW c, Base(s, c), NEW b
    PROVE  LET d == StopBlock(c, b)
           IN  /\ Base(s, d) /\ Kept(c, d) /\ Len(d.blocks) = Len(c.blocks)
               /\ \A k \in DOMAIN c.blocks :
                    d.blocks[k].type = c.blocks[k].type /\ (d.blocks[k].open <=> c.blocks[k].open /\ k # b)
<1> DEFINE d == StopBlock(c, b)
           e == E("content_block_stop", b)
           S == Heard(s, c.out)
<1>1. CASE b \in DOMAIN c.blocks /\ c.blocks[b].open
  <2>1. /\ DOMAIN d = Fields /\ d.blocks = [c.blocks EXCEPT ![b].open = FALSE]
        /\ d.out = Append(c.out, e) /\ Kept(c, d)
    BY <1>1 DEF StopBlock, Base, Fits, Fields, Kept
  <2>2. /\ d.blocks \in Seq(BlockRec) /\ Len(d.blocks) = Len(c.blocks)
        /\ DOMAIN d.blocks = DOMAIN c.blocks
        /\ \A k \in DOMAIN c.blocks :
             d.blocks[k].type = c.blocks[k].type /\ (d.blocks[k].open <=> c.blocks[k].open /\ k # b)
    BY <1>1, <2>1, BlockStops DEF Base, Fits
  <2>3. b \in Nat \ {0} /\ b <= Len(c.blocks) /\ Len(c.blocks) \in Nat /\ Len(Log(s, c.out)) \in Nat
    BY <1>1, LenProperties DEF Base, Fits, Proper
  <2>4. e \in Ev /\ e.block <= Len(c.blocks) + 1 /\ May(S, e)
    <3>1. e \in Ev
      <4>1. "content_block_stop" \in M!BlockEvents
        BY DEF M!BlockEvents
      <4> QED
        BY <2>3, <4>1, EventIsEv
    <3>2. e.type = "content_block_stop" /\ e.block = b
      BY EventParts
    <3>3. Opened(S, b) /\ ~Closed(S, b)
      BY <1>1, <2>3 DEF Base, Told
    <3> QED
      BY <2>3, <3>1, <3>2, <3>3 DEF May, M!MessageEvents, M!Kinds
  <2>5. Running(S \cup {e})
    BY EventParts DEF Base, Running
  <2>9. Kinded(S \cup {e}, d) /\ \A k : Opened(S \cup {e}, k) <=> Opened(S, k)
    <3>1. Kinded(S, c) /\ "content_block_stop" \notin M!Kinds
      BY DEF Base, M!Kinds
    <3> HIDE DEF d, S
    <3> QED
      BY <3>1, <2>2, KindsStay
  <2>6. Told(S \cup {e}, d)
    <3>1. d.told = c.told /\ d.ok = c.ok
      BY <2>1 DEF Kept, Fields
    <3>2. \A k \in Nat : Opened(S \cup {e}, k) <=> Opened(S, k)
      BY <2>9
    <3>3. \A k \in Nat : Closed(S \cup {e}, k) <=> Closed(S, k) \/ k = b
      BY EventParts DEF Closed
    <3>4. E("error", 0) \in S \cup {e} <=> E("error", 0) \in S
      BY EventParts
    <3>5. \A k \in Nat : Opened(S \cup {e}, k) <=> k \in DOMAIN d.blocks
      BY <2>2, <3>2 DEF Base, Told
    <3>6. ASSUME NEW k \in Nat
          PROVE  Closed(S \cup {e}, k) <=> k \in DOMAIN d.blocks /\ ~d.blocks[k].open
      <4>1. Closed(S, k) <=> k \in DOMAIN c.blocks /\ ~c.blocks[k].open
        BY DEF Base, Told
      <4>2. Closed(S \cup {e}, k) <=> Closed(S, k) \/ k = b
        BY <3>3
      <4>3. CASE k \in DOMAIN c.blocks
        <5>1. d.blocks[k].open <=> c.blocks[k].open /\ k # b
          BY <2>2, <4>3
        <5> HIDE DEF d, e, S
        <5> QED
          BY <4>1, <4>2, <4>3, <5>1, <2>2, Zenon
      <4>4. CASE k \notin DOMAIN c.blocks
        BY <1>1, <4>1, <4>2, <4>4, <2>2
      <4> QED
        BY <4>3, <4>4
    <3>7. E("error", 0) \in S \cup {e} <=> d.told
      BY <3>1, <3>4 DEF Base, Told
    <3>8. d.told => ~d.ok
      BY <3>1 DEF Base, Told
    <3> QED
      BY <3>5, <3>6, <3>7, <3>8, Zenon DEF Told
  <2>7. Emits(c, e, d)
    BY <2>1 DEF Emits
  <2>8. Base(s, d)
    <3> HIDE DEF d, e
    <3> QED
      BY <2>2, <2>4, <2>5, <2>6, <2>7, <2>9, EmitBase
  <2> QED
    BY <2>1, <2>2, <2>8
<1>2. CASE ~(b \in DOMAIN c.blocks /\ c.blocks[b].open)
  <2>1. d = c
    BY <1>2 DEF StopBlock
  <2>2. \A k \in DOMAIN c.blocks : c.blocks[k].open => k # b
    BY <1>2
  <2> QED
    BY <2>1, <2>2 DEF Kept, Base, Fits
<1> QED
  BY <1>1, <1>2

(* A delta for an open block.                                              *)
LEMMA DeltaEmits ==
    ASSUME NEW s, NEW c, Base(s, c), NEW b \in DOMAIN c.blocks, c.blocks[b].open,
           NEW d, Emits(c, E("content_block_delta", b), d), d.blocks = c.blocks
    PROVE  Base(s, d)
<1> DEFINE e == E("content_block_delta", b)
           S == Heard(s, c.out)
<1>1. b \in Nat \ {0} /\ b <= Len(c.blocks) /\ Len(c.blocks) \in Nat
  BY LenProperties DEF Base, Fits
<1>2. e \in Ev
  <2>1. "content_block_delta" \in M!BlockEvents
    BY DEF M!BlockEvents
  <2> QED
    BY <1>1, <2>1, EventIsEv
<1>3. e.block <= Len(c.blocks) + 1 /\ May(S, e)
  <2>1. e.type = "content_block_delta" /\ e.block = b
    BY EventParts
  <2>2. Opened(S, b) /\ ~Closed(S, b)
    BY <1>1 DEF Base, Told
  <2> QED
    BY <1>1, <2>1, <2>2 DEF May, M!MessageEvents, M!Kinds
<1>4. Running(S \cup {e})
  BY EventParts DEF Base, Running
<1>7. Kinded(S \cup {e}, d) /\ \A k : Opened(S \cup {e}, k) <=> Opened(S, k)
  <2>1. Kinded(S, c) /\ "content_block_delta" \notin M!Kinds
    BY DEF Base, M!Kinds
  <2> HIDE DEF S
  <2> QED
    BY <2>1, KindsStay
<1>5. Told(S \cup {e}, d)
  <2>1. d.told = c.told /\ d.ok = c.ok
    BY DEF Emits, Kept, Fields
  <2>2. \A k \in Nat : Opened(S \cup {e}, k) <=> Opened(S, k)
    BY <1>7
  <2>3. \A k \in Nat : Closed(S \cup {e}, k) <=> Closed(S, k)
    BY EventParts DEF Closed
  <2>4. E("error", 0) \in S \cup {e} <=> E("error", 0) \in S
    BY EventParts
  <2> HIDE DEF S, e
  <2>5. Told(S, c)
    BY DEF Base, S
  <2> QED
    BY <2>1, <2>2, <2>3, <2>4, <2>5 DEF Told
<1> HIDE DEF e, S
<1>6. d.blocks \in Seq(BlockRec)
  BY DEF Base, Fits
<1> QED
  BY <1>2, <1>3, <1>4, <1>5, <1>6, <1>7, EmitBase DEF e, S

(* handle_content_block_delta.                                             *)
LEMMA DeltaKeeps ==
    ASSUME NEW s, NEW c, Base(s, c), NEW b
    PROVE  LET d == Delta(c, b)
           IN  Base(s, d) /\ Kept(c, d) /\ d.blocks = c.blocks
<1> DEFINE d == Delta(c, b)
<1>1. CASE b \in DOMAIN c.blocks /\ c.blocks[b].open
  <2>1. Emits(c, E("content_block_delta", b), d) /\ d.blocks = c.blocks
    BY <1>1 DEF Delta, Base, Fits, Fields, Kept, Emits
  <2> HIDE DEF d
  <2> QED
    BY <1>1, <2>1, DeltaEmits DEF Emits, d
<1>2. CASE ~(b \in DOMAIN c.blocks /\ c.blocks[b].open)
  BY <1>2 DEF Delta, Kept, Base, Fits
<1> QED
  BY <1>1, <1>2

(* create_thinking_delta_event, while thinking goes on.                    *)
LEMMA ThinkingDeltaKeeps ==
    ASSUME NEW s, NEW c, Good(s, c), ~Quiet(c)
    PROVE  LET d == ThinkingDelta(c)
           IN  Good(s, d) /\ Kept(c, d) /\ d.blocks = c.blocks
<1> DEFINE d == ThinkingDelta(c)
<1>1. c.think \in DOMAIN c.blocks /\ c.blocks[c.think].open /\ Base(s, c)
  BY DEF Good, ThinkOpen, Current, Quiet
<1>2. Emits(c, E("content_block_delta", c.think), d) /\ d.blocks = c.blocks
  BY <1>1 DEF ThinkingDelta, Base, Fits, Fields, Kept, Emits
<1>3. Same(c, d)
  BY <1>2 DEF Emits, Kept, Fields, Same
<1> HIDE DEF d
<1>4. Base(s, d)
  BY <1>1, <1>2, DeltaEmits
<1> QED
  BY <1>2, <1>3, <1>4 DEF Good, ThinkOpen, Current, Quiet, Same, Emits, d

(* No block is open beside which one of the type may not start.            *)
Free(c, type) ==
    \A k \in DOMAIN c.blocks : c.blocks[k].open => c.blocks[k].type \in M!Beside(type)

(* A block that starts is open and of the type it was given.               *)
LEMMA BlockStarts ==
    ASSUME NEW s, NEW c, Base(s, c), NEW type \in AllTypes, Free(c, type), NEW d,
           Emits(c, E(type, Len(c.blocks) + 1), d),
           d.blocks = Append(c.blocks, [type |-> type, open |-> TRUE])
    PROVE  /\ Base(s, d) /\ Len(d.blocks) = Len(c.blocks) + 1
           /\ \A k \in DOMAIN c.blocks : d.blocks[k] = c.blocks[k]
           /\ d.blocks[Len(c.blocks) + 1] = [type |-> type, open |-> TRUE]
<1> DEFINE n == Len(c.blocks) + 1
           e == E(type, n)
           S == Heard(s, c.out)
           r == [type |-> type, open |-> TRUE]
<1>1. Len(c.blocks) \in Nat /\ DOMAIN c.blocks = 1..Len(c.blocks) /\ c.blocks \in Seq(BlockRec)
  BY LenProperties DEF Base, Fits
<1>2. r \in BlockRec /\ r.open = TRUE
  BY DEF BlockRec
<1>3. /\ d.blocks \in Seq(BlockRec) /\ Len(d.blocks) = n /\ d.blocks[n] = r
      /\ \A k \in DOMAIN c.blocks : d.blocks[k] = c.blocks[k]
  <2> HIDE DEF r
  <2> QED
    BY <1>1, <1>2, AppendProperties DEF r
<1>4. DOMAIN d.blocks = DOMAIN c.blocks \cup {n}
  <2>1. DOMAIN d.blocks = 1..n
    BY <1>3, LenProperties
  <2> QED
    BY <1>1, <2>1
<1>5. n \in Nat \ {0}
  BY <1>1
<1>6. e \in Ev /\ type \in M!Kinds
  <2>1. type \in M!Kinds
    BY DEF AllTypes, M!Kinds
  <2> QED
    BY <1>5, <2>1, EventIsEv DEF M!BlockEvents
<1>7. e.block <= n /\ May(S, e)
  <2>1. e.type = type /\ e.block = n
    BY EventParts
  <2>2. ~Opened(S, n) /\ \A b \in 1..(n - 1) : Opened(S, b)
    BY <1>1 DEF Base, Told
  <2>3. E("message_start", 0) \in S /\ E("message_delta", 0) \notin S
    BY DEF Base, Running
  <2>4. ASSUME NEW b \in Nat, NEW k \in M!Kinds, E(k, b) \in S, ~Closed(S, b)
        PROVE  k \in M!Beside(type)
    <3>1. b \in DOMAIN c.blocks /\ c.blocks[b].type = k
      BY <2>4 DEF Base, Kinded
    <3>2. c.blocks[b].open
      BY <2>4, <3>1 DEF Base, Told
    <3> QED
      BY <3>1, <3>2 DEF Free
  <2> HIDE DEF S, e, n
  <2>5. type \in {"text", "thinking", "tool_use"} /\ n # 0 /\ n <= n
    BY <1>5 DEF AllTypes
  <2> QED
    BY <2>1, <2>2, <2>3, <2>4, <2>5 DEF May, M!MessageEvents, M!Kinds
<1>8. Running(S \cup {e})
  BY <1>6, EventParts DEF Base, Running, M!Kinds
<1>11. Kinded(S \cup {e}, d)
  <2> SUFFICES ASSUME NEW b \in Nat, NEW k \in M!Kinds, E(k, b) \in S \cup {e}
               PROVE  b \in DOMAIN d.blocks /\ d.blocks[b].type = k
    BY DEF Kinded
  <2>1. CASE E(k, b) = e
    <3>1. k = type /\ b = n
      BY <2>1, EventParts
    <3> QED
      BY <3>1, <1>3, <1>4
  <2>2. CASE E(k, b) \in S
    <3>1. b \in DOMAIN c.blocks /\ c.blocks[b].type = k
      BY <2>2 DEF Base, Kinded
    <3> QED
      BY <3>1, <1>3, <1>4
  <2> QED
    BY <2>1, <2>2
<1>9. Told(S \cup {e}, d)
  <2>1. d.told = c.told /\ d.ok = c.ok
    BY DEF Emits, Kept, Fields
  <2>2. \A k \in Nat : Opened(S \cup {e}, k) <=> Opened(S, k) \/ k = n
    BY <1>6, EventParts DEF Opened
  <2>3. \A k \in Nat : Closed(S \cup {e}, k) <=> Closed(S, k)
    BY <1>6, EventParts DEF Closed, M!Kinds
  <2>4. E("error", 0) \in S \cup {e} <=> E("error", 0) \in S
    BY <1>6, EventParts DEF M!Kinds
  <2>5. n \notin DOMAIN c.blocks /\ d.blocks[n].open
    BY <1>1, <1>2, <1>3
  <2> HIDE DEF S, e, n, r
  <2>6. Told(S, c)
    BY DEF Base, S
  <2>7. \A k \in Nat : Closed(S \cup {e}, k) <=> k \in DOMAIN d.blocks /\ ~d.blocks[k].open
    BY <1>3, <1>4, <2>3, <2>5, <2>6 DEF Told
  <2> QED
    BY <1>4, <2>1, <2>2, <2>4, <2>6, <2>7 DEF Told
<1>10. Base(s, d)
  <2>1. Emits(c, e, d)
    OBVIOUS
  <2> HIDE DEF e, S, r
  <2> QED
    BY <2>1, <1>1, <1>3, <1>6, <1>7, <1>8, <1>9, <1>11, EmitBase DEF S
<1> QED
  BY <1>3, <1>10

(***************************************************************************)
(* Loops: what holds at the start and after each step holds at the end.    *)
(***************************************************************************)

LEMMA Steps ==
    ASSUME NEW n \in Nat, NEW P, 0 \in P, \A i \in 1..n : i - 1 \in P => i \in P
    PROVE  \A i \in 0..n : i \in P
<1> SUFFICES ASSUME NEW j \in 0..n, j \notin P PROVE FALSE
  OBVIOUS
<1> DEFINE D == {i \in 0..n : i \notin P}
<1>1. D \subseteq Nat /\ D # {}
  OBVIOUS
<1>2. PICK i \in D : \A k \in D : ~ (<<k, i>> \in OpToRel(<, Nat))
  BY <1>1, NatLessThanWellFounded, WFMin
<1>3. i \in 0..n /\ i \notin P /\ \A k \in D : ~ (k < i)
  BY <1>1, <1>2 DEF OpToRel
<1>4. i # 0
  BY <1>3
<1>5. i \in 1..n /\ i - 1 \in 0..n /\ i - 1 < i
  BY <1>3, <1>4
<1>6. i - 1 \in P
  <2>1. i - 1 \notin D
    BY <1>3, <1>5
  <2> QED
    BY <1>5, <2>1
<1> QED
  BY <1>3, <1>5, <1>6

(* The loop of close_open_blocks: its contexts before and after each block. *)
LEMMA StopOpenRun ==
    ASSUME NEW c, NEW types, Len(c.blocks) \in Nat
    PROVE  \E run :
             /\ run[0] = c
             /\ \A b \in 1..Len(c.blocks) :
                  run[b] = IF c.blocks[b].type \in types THEN StopBlock(run[b - 1], b) ELSE run[b - 1]
             /\ StopOpen(c, types) = run[Len(c.blocks)]
<1> DEFINE n == Len(c.blocks)
           Next1(x, b) == IF c.blocks[b].type \in types THEN StopBlock(x, b) ELSE x
           Runs(f, k) == f = [b \in 0..k |-> IF b = 0 THEN c ELSE Next1(f[b - 1], b)]
           P == {k \in 0..n : \E f : Runs(f, k)}
<1>1. 0 \in P
  <2>1. Runs([b \in 0..0 |-> c], 0)
    OBVIOUS
  <2> HIDE DEF Runs, n
  <2> QED
    BY <2>1 DEF n
<1>2. ASSUME NEW k \in 1..n, k - 1 \in P PROVE k \in P
  <2> HIDE DEF Next1
  <2>1. PICK f : Runs(f, k - 1)
    BY <1>2
  <2> DEFINE g == [b \in 0..k |-> IF b = k THEN Next1(f[k - 1], k) ELSE f[b]]
  <2>2. ASSUME NEW b \in 0..k PROVE g[b] = IF b = 0 THEN c ELSE Next1(g[b - 1], b)
    <3>1. CASE b = k
      BY <3>1
    <3>2. CASE b # k
      <4>1. b \in 0..(k - 1) /\ (b # 0 => b - 1 \in 0..k /\ b - 1 # k)
        BY <3>2
      <4> QED
        BY <2>1, <3>2, <4>1
    <3> QED
      BY <3>1, <3>2
  <2>3. Runs(g, k)
    BY <2>2
  <2> HIDE DEF Runs, g, n
  <2> QED
    BY <2>3 DEF n
<1>3. n \in P
  <2> HIDE DEF P
  <2>1. \A i \in 0..n : i \in P
    BY <1>1, <1>2, Steps
  <2> QED
    BY <2>1
<1> DEFINE run == CHOOSE f : Runs(f, n)
<1>4. Runs(run, n)
  <2> HIDE DEF Runs, n
  <2> QED
    BY <1>3
<1>5. StopOpen(c, types) = run[n]
  BY DEF StopOpen
<1> HIDE DEF run
<1>6. run[0] = c /\ \A b \in 1..n : run[b] = Next1(run[b - 1], b)
  <2> HIDE DEF Next1, n
  <2>1. \A b \in 0..n : run[b] = IF b = 0 THEN c ELSE Next1(run[b - 1], b)
    BY <1>4, Zenon
  <2>2. 0 \in 0..n /\ \A b \in 1..n : b \in 0..n /\ b # 0
    BY DEF n
  <2> QED
    BY <2>1, <2>2
<1> WITNESS run
<1> QED
  BY <1>5, <1>6

(* close_open_blocks stops the open blocks of the types and no other.      *)
LEMMA StopOpenKeeps ==
    ASSUME NEW s, NEW c, Base(s, c), NEW types
    PROVE  LET d == StopOpen(c, types)
           IN  /\ Base(s, d) /\ Kept(c, d) /\ Len(d.blocks) = Len(c.blocks)
               /\ \A k \in DOMAIN c.blocks :
                    /\ d.blocks[k].type = c.blocks[k].type
                    /\ d.blocks[k].open <=> c.blocks[k].open /\ c.blocks[k].type \notin types
<1> DEFINE n == Len(c.blocks)
<1>1. n \in Nat /\ DOMAIN c.blocks = 1..n
  BY LenProperties DEF Base, Fits
<1>2. PICK run :
        /\ run[0] = c
        /\ \A b \in 1..n :
             run[b] = IF c.blocks[b].type \in types THEN StopBlock(run[b - 1], b) ELSE run[b - 1]
        /\ StopOpen(c, types) = run[n]
  BY <1>1, StopOpenRun
<1> DEFINE Stopping(d, i) ==
      /\ Base(s, d) /\ Kept(c, d) /\ Len(d.blocks) = n
      /\ \A k \in 1..n :
           /\ d.blocks[k].type = c.blocks[k].type
           /\ d.blocks[k].open <=> c.blocks[k].open /\ ~(k <= i /\ c.blocks[k].type \in types)
<1> DEFINE P == {i \in 0..n : Stopping(run[i], i)}
<1> HIDE DEF n
<1>3. Stopping(c, 0)
  <2>1. \A k \in 1..n : ~(k <= 0)
    BY <1>1
  <2> QED
    BY <2>1 DEF Kept, Base, Fits, n
<1>4. ASSUME NEW i \in 1..n, NEW d, Stopping(d, i - 1)
      PROVE  Stopping(IF c.blocks[i].type \in types THEN StopBlock(d, i) ELSE d, i)
  <2>1. \A k \in 1..n : k <= i <=> k <= i - 1 \/ k = i
    BY <1>1
  <2>2. CASE c.blocks[i].type \in types
    <3> DEFINE x == StopBlock(d, i)
    <3>1. /\ Base(s, x) /\ Kept(d, x) /\ Len(x.blocks) = Len(d.blocks)
          /\ \A k \in DOMAIN d.blocks :
               x.blocks[k].type = d.blocks[k].type /\ (x.blocks[k].open <=> d.blocks[k].open /\ k # i)
      BY <1>4, StopBlockKeeps
    <3>2. DOMAIN d.blocks = 1..n
      BY <1>4, LenProperties DEF Base, Fits
    <3> HIDE DEF x
    <3>3. Kept(c, x)
      BY <1>4, <3>1 DEF Kept
    <3>4. ASSUME NEW k \in 1..n
          PROVE  /\ x.blocks[k].type = c.blocks[k].type
                 /\ x.blocks[k].open <=> c.blocks[k].open /\ ~(k <= i /\ c.blocks[k].type \in types)
      <4>1. /\ x.blocks[k].type = d.blocks[k].type /\ d.blocks[k].type = c.blocks[k].type
            /\ x.blocks[k].open <=> d.blocks[k].open /\ k # i
            /\ d.blocks[k].open <=> c.blocks[k].open /\ ~(k <= i - 1 /\ c.blocks[k].type \in types)
        BY <1>4, <3>1, <3>2
      <4> QED
        BY <4>1, <2>1, <2>2
    <3>5. Stopping(x, i)
      BY <1>4, <3>1, <3>3, <3>4
    <3> QED
      BY <3>5, <2>2 DEF x
  <2>3. CASE c.blocks[i].type \notin types
    <3>1. \A k \in 1..n : ~(k <= i /\ c.blocks[k].type \in types) <=> ~(k <= i - 1 /\ c.blocks[k].type \in types)
      BY <2>1, <2>3
    <3>2. Stopping(d, i)
      BY <1>4, <3>1
    <3> QED
      BY <3>2, <2>3
  <2> QED
    BY <2>2, <2>3
<1> HIDE DEF Stopping
<1>5. 0 \in P /\ \A i \in 1..n : i - 1 \in P => i \in P
  <2>1. 0 \in P
    BY <1>1, <1>2, <1>3
  <2>2. ASSUME NEW i \in 1..n, i - 1 \in P PROVE i \in P
    <3>1. Stopping(run[i - 1], i - 1) /\ i \in 0..n
      BY <2>2
    <3>2. Stopping(run[i], i)
      BY <1>2, <1>4, <3>1
    <3> QED
      BY <3>1, <3>2
  <2> QED
    BY <2>1, <2>2
<1>6. Stopping(run[n], n)
  <2>1. \A i \in 0..n : i \in P
    <3> HIDE DEF P
    <3> QED
      BY <1>1, <1>5, Steps
  <2> QED
    BY <1>1, <2>1
<1>7. \A k \in 1..n : k <= n
  BY <1>1
<1> QED
  BY <1>1, <1>2, <1>6, <1>7 DEF Stopping, n

(***************************************************************************)
(* The operators of StreamContext keep a context good.                     *)
(***************************************************************************)

(* Other fields may change: references to blocks, and ok from true to      *)
(* false.                                                                  *)
Adjusts(c, d) ==
    /\ DOMAIN d = Fields /\ d.blocks = c.blocks /\ d.out = c.out
    /\ d.told = c.told /\ (d.ok => c.ok)
    /\ d.tools \in [Tools -> 0..Len(c.blocks)] /\ ToolBlocks(d)
    /\ d.pending \subseteq Tools /\ {d.text, d.think} \subseteq 0..Len(c.blocks)

LEMMA AdjustKeeps ==
    ASSUME NEW s, NEW c, Base(s, c), NEW d, Adjusts(c, d)
    PROVE  Base(s, d)
<1>1. Fits(d)
  BY DEF Base, Fits, Adjusts
<1>2. Told(Heard(s, d.out), d) /\ Kinded(Heard(s, d.out), d)
  BY DEF Base, Told, Kinded, Adjusts
<1> QED
  BY <1>1, <1>2 DEF Base, Adjusts

(* The blocks of c are in d, of their types, the thinking ones no less open. *)
Spares(c, d) ==
    \A k \in DOMAIN c.blocks :
        /\ k \in DOMAIN d.blocks /\ d.blocks[k].type = c.blocks[k].type
        /\ c.blocks[k].type = "thinking" /\ c.blocks[k].open => d.blocks[k].open

LEMMA ThinkStays ==
    ASSUME NEW c, ThinkOpen(c), NEW d, Spares(c, d), Same(c, d)
    PROVE  ThinkOpen(d)
BY DEF ThinkOpen, Spares, Same, Quiet

(* The open blocks of d are among those of c, but for a tool's.            *)
Shuts(c, d) ==
    \A k \in DOMAIN d.blocks :
        \/ d.blocks[k].type = "tool_use"
        \/ /\ k \in DOMAIN c.blocks /\ d.blocks[k].type = c.blocks[k].type
           /\ d.blocks[k].open => c.blocks[k].open

LEMMA CurrentStays ==
    ASSUME NEW c, Current(c), NEW d, Shuts(c, d), Same(c, d)
    PROVE  Current(d)
BY DEF Current, Shuts, Same, Quiet

(* A block of the type may start; a tool's stops the open texts first.     *)
Clear(c, type) ==
    \A k \in DOMAIN c.blocks : c.blocks[k].open =>
        c.blocks[k].type \in M!Beside(type) \/ (type = "tool_use" /\ c.blocks[k].type = "text")

(* handle_content_block_start.                                             *)
LEMMA StartBlockKeeps ==
    ASSUME NEW s, NEW c, Base(s, c), NEW type \in AllTypes, Clear(c, type)
    PROVE  LET d == StartBlock(c, type)
               n == Len(c.blocks) + 1
           IN  /\ Base(s, d) /\ Kept(c, d) /\ Spares(c, d) /\ Len(d.blocks) = n
               /\ \A k \in DOMAIN c.blocks :
                    d.blocks[k].type = c.blocks[k].type /\ (d.blocks[k].open => c.blocks[k].open)
               /\ d.blocks[n].type = type /\ d.blocks[n].open
<1> DEFINE d == StartBlock(c, type)
           n == Len(c.blocks) + 1
           r == [type |-> type, open |-> TRUE]
           h == [c EXCEPT !.hasTool = TRUE]
           x == IF type = "tool_use" THEN StopOpen(h, {"text"}) ELSE c
<1>1. /\ Base(s, x) /\ Kept(c, x) /\ Len(x.blocks) = Len(c.blocks)
      /\ \A k \in DOMAIN c.blocks :
           /\ x.blocks[k].type = c.blocks[k].type /\ (x.blocks[k].open => c.blocks[k].open)
           /\ x.blocks[k].open => x.blocks[k].type \in M!Beside(type)
           /\ c.blocks[k].type = "thinking" /\ c.blocks[k].open => x.blocks[k].open
  <2>1. CASE type = "tool_use"
    <3>1. Adjusts(c, h) /\ Kept(c, h)
      BY DEF Adjusts, Kept, Base, Fits, Fields, ToolBlocks
    <3> HIDE DEF h
    <3>2. Base(s, h) /\ h.blocks = c.blocks
      BY <3>1, AdjustKeeps DEF Adjusts
    <3>3. x = StopOpen(h, {"text"})
      BY <2>1
    <3> HIDE DEF x
    <3>4. /\ Base(s, x) /\ Kept(h, x) /\ Len(x.blocks) = Len(h.blocks)
          /\ \A k \in DOMAIN h.blocks :
               /\ x.blocks[k].type = h.blocks[k].type
               /\ x.blocks[k].open <=> h.blocks[k].open /\ h.blocks[k].type \notin {"text"}
      BY <3>2, <3>3, StopOpenKeeps
    <3>5. Kept(c, x)
      BY <3>1, <3>4 DEF Kept
    <3>6. ASSUME NEW k \in DOMAIN c.blocks
          PROVE  /\ x.blocks[k].type = c.blocks[k].type /\ (x.blocks[k].open => c.blocks[k].open)
                 /\ x.blocks[k].open => x.blocks[k].type \in M!Beside(type)
                 /\ c.blocks[k].type = "thinking" /\ c.blocks[k].open => x.blocks[k].open
      BY <2>1, <3>2, <3>4 DEF Clear
    <3> QED
      BY <3>2, <3>4, <3>5, <3>6
  <2>2. CASE type # "tool_use"
    BY <2>2 DEF Kept, Base, Fits, Clear
  <2> QED
    BY <2>1, <2>2
<1>2. d = [x EXCEPT !.blocks = Append(@, r), !.out = Append(@, E(type, n))]
  BY DEF StartBlock
<1> HIDE DEF x, d, r
<1>3. Len(x.blocks) + 1 = n
  BY <1>1
<1>4. Emits(x, E(type, Len(x.blocks) + 1), d) /\ d.blocks = Append(x.blocks, r)
  BY <1>1, <1>2, <1>3 DEF Emits, Kept, Fields
<1>7. /\ Len(c.blocks) \in Nat /\ DOMAIN x.blocks = 1..Len(c.blocks)
      /\ DOMAIN c.blocks = 1..Len(c.blocks)
  BY <1>1, LenProperties DEF Base, Fits
<1>5. /\ Base(s, d) /\ Len(d.blocks) = n /\ d.blocks[n] = r
      /\ \A k \in DOMAIN x.blocks : d.blocks[k] = x.blocks[k]
  <2>1. /\ Base(s, d) /\ Len(d.blocks) = Len(x.blocks) + 1 /\ d.blocks[Len(x.blocks) + 1] = r
        /\ \A k \in DOMAIN x.blocks : d.blocks[k] = x.blocks[k]
    <3>1. Free(x, type)
      BY <1>1, <1>7 DEF Free
    <3>2. d.blocks = Append(x.blocks, [type |-> type, open |-> TRUE])
      BY <1>4 DEF r
    <3>3. /\ Base(s, d) /\ Len(d.blocks) = Len(x.blocks) + 1
          /\ d.blocks[Len(x.blocks) + 1] = [type |-> type, open |-> TRUE]
          /\ \A k \in DOMAIN x.blocks : d.blocks[k] = x.blocks[k]
      BY <1>1, <1>4, <3>1, <3>2, BlockStarts
    <3> QED
      BY <3>3 DEF r
  <2> QED
    BY <2>1, <1>3
<1>6. Kept(c, d)
  BY <1>1, <1>4 DEF Emits, Kept
<1>8. DOMAIN d.blocks = 1..n
  BY <1>5, LenProperties DEF Base, Fits
<1>9. Spares(c, d)
  BY <1>1, <1>5, <1>7, <1>8 DEF Spares
<1>10. \A k \in DOMAIN c.blocks :
         d.blocks[k].type = c.blocks[k].type /\ (d.blocks[k].open => c.blocks[k].open)
  BY <1>1, <1>5, <1>7
<1> QED
  BY <1>5, <1>6, <1>9, <1>10 DEF d, r

(* What a handler may do to a good context: it stays good and, once failed, *)
(* failed.                                                                  *)
Serves(s, c, d) == Good(s, d) /\ (d.ok => c.ok)

(* While no thinking goes on, the open blocks are tools and a current text. *)
LEMMA QuietBlocks ==
    ASSUME NEW s, NEW c, Good(s, c), Quiet(c)
    PROVE  \A k \in DOMAIN c.blocks : c.blocks[k].open =>
               c.blocks[k].type = "tool_use" \/ (c.blocks[k].type = "text" /\ k = c.text)
<1>1. \A k \in DOMAIN c.blocks : c.blocks[k] \in BlockRec
  BY LenProperties, ElementOfSeq DEF Good, Base, Fits
<1> QED
  BY <1>1 DEF Good, Current, BlockRec, AllTypes

(* A tool's block, and thinking as before.                                 *)
LEMMA ToolStarts ==
    ASSUME NEW s, NEW c, Good(s, c), Quiet(c)
    PROVE  LET d == StartBlock(c, "tool_use")
               n == Len(c.blocks) + 1
           IN  /\ Serves(s, c, d) /\ Quiet(d)
               /\ Len(d.blocks) = n /\ d.blocks[n].type = "tool_use"
<1> DEFINE d == StartBlock(c, "tool_use")
           n == Len(c.blocks) + 1
<1>1. /\ Base(s, d) /\ Kept(c, d) /\ Spares(c, d) /\ Len(d.blocks) = n
      /\ d.blocks[n].type = "tool_use"
      /\ \A k \in DOMAIN c.blocks :
           d.blocks[k].type = c.blocks[k].type /\ (d.blocks[k].open => c.blocks[k].open)
  <2>1. Clear(c, "tool_use")
    BY QuietBlocks DEF Clear, M!Beside
  <2> QED
    BY <2>1, StartBlockKeeps DEF Good, AllTypes
<1> HIDE DEF d
<1>2. Same(c, d) /\ (d.ok <=> c.ok)
  BY <1>1 DEF Kept, Fields, Same
<1>3. ThinkOpen(d)
  BY <1>1, <1>2, ThinkStays DEF Good
<1>4. Shuts(c, d)
  <2>1. DOMAIN d.blocks = DOMAIN c.blocks \cup {n}
    <3>1. DOMAIN c.blocks = 1..Len(c.blocks) /\ DOMAIN d.blocks = 1..n /\ Len(c.blocks) \in Nat
      BY <1>1, LenProperties DEF Good, Base, Fits
    <3> QED
      BY <3>1
  <2> QED
    BY <1>1, <2>1 DEF Shuts
<1>5. Current(d)
  BY <1>2, <1>4, CurrentStays DEF Good
<1> QED
  BY <1>1, <1>2, <1>3, <1>5 DEF Serves, Good, Quiet, Same, d

(* Fields other than the blocks, with thinking as before.                  *)
LEMMA AdjustServes ==
    ASSUME NEW s, NEW c, Good(s, c), NEW d, Adjusts(c, d), Same(c, d)
    PROVE  Serves(s, c, d) /\ (Quiet(c) => Quiet(d))
BY AdjustKeeps DEF Serves, Good, ThinkOpen, Current, Quiet, Same, Adjusts

LEMMA ServesChain ==
    ASSUME NEW s, NEW c, NEW d, NEW e, Serves(s, c, d), Serves(s, d, e)
    PROVE  Serves(s, c, e)
BY DEF Serves

LEMMA DeltaServes ==
    ASSUME NEW s, NEW c, Good(s, c), NEW b
    PROVE  /\ Serves(s, c, Delta(c, b)) /\ (Quiet(c) => Quiet(Delta(c, b)))
           /\ Delta(c, b).blocks = c.blocks
<1> DEFINE d == Delta(c, b)
<1>1. Base(s, d) /\ Kept(c, d) /\ d.blocks = c.blocks
  BY DeltaKeeps DEF Good
<1> HIDE DEF d
<1>2. Same(c, d) /\ (d.ok <=> c.ok)
  BY <1>1 DEF Kept, Fields, Same
<1>3. ThinkOpen(d) /\ Current(d)
  BY <1>1, <1>2 DEF Good, ThinkOpen, Current, Quiet, Same
<1> QED
  BY <1>1, <1>2, <1>3 DEF Serves, Good, Quiet, Same, d

(* A block that is not the thinking one may stop at any time.              *)
LEMMA StopServes ==
    ASSUME NEW s, NEW c, Good(s, c), NEW b, b \in DOMAIN c.blocks => c.blocks[b].type # "thinking"
    PROVE  Serves(s, c, StopBlock(c, b)) /\ (Quiet(c) => Quiet(StopBlock(c, b)))
<1> DEFINE d == StopBlock(c, b)
<1>1. /\ Base(s, d) /\ Kept(c, d) /\ Len(d.blocks) = Len(c.blocks)
      /\ \A k \in DOMAIN c.blocks :
           d.blocks[k].type = c.blocks[k].type /\ (d.blocks[k].open <=> c.blocks[k].open /\ k # b)
  BY StopBlockKeeps DEF Good
<1> HIDE DEF d
<1>2. Same(c, d) /\ (d.ok <=> c.ok)
  BY <1>1 DEF Kept, Fields, Same
<1>3. DOMAIN d.blocks = DOMAIN c.blocks
  BY <1>1, LenProperties DEF Good, Base, Fits
<1>4. Spares(c, d) /\ Shuts(c, d)
  BY <1>1, <1>3 DEF Spares, Shuts
<1>5. ThinkOpen(d) /\ Current(d)
  BY <1>2, <1>4, ThinkStays, CurrentStays DEF Good
<1> QED
  BY <1>1, <1>2, <1>5 DEF Serves, Good, Quiet, Same, d

(* The blocks of some types other than thinking, or all when none goes on.  *)
LEMMA StopOpenServes ==
    ASSUME NEW s, NEW c, Good(s, c), NEW types,
           "thinking" \in types => Quiet(c)
    PROVE  Serves(s, c, StopOpen(c, types))
<1> DEFINE d == StopOpen(c, types)
<1>1. /\ Base(s, d) /\ Kept(c, d) /\ Len(d.blocks) = Len(c.blocks)
      /\ \A k \in DOMAIN c.blocks :
           /\ d.blocks[k].type = c.blocks[k].type
           /\ d.blocks[k].open <=> c.blocks[k].open /\ c.blocks[k].type \notin types
  BY StopOpenKeeps DEF Good
<1> HIDE DEF d
<1>2. Same(c, d) /\ (d.ok <=> c.ok)
  BY <1>1 DEF Kept, Fields, Same
<1>3. DOMAIN d.blocks = DOMAIN c.blocks
  BY <1>1, LenProperties DEF Good, Base, Fits
<1>4. ThinkOpen(d)
  <2>1. CASE ~Quiet(c)
    <3>1. Spares(c, d)
      BY <1>1, <1>3, <2>1 DEF Spares
    <3> QED
      BY <3>1, <1>2, ThinkStays DEF Good
  <2>2. CASE Quiet(c)
    BY <2>2, <1>2 DEF ThinkOpen, Quiet, Same
  <2> QED
    BY <2>1, <2>2
<1>5. Current(d)
  <2>1. Shuts(c, d)
    BY <1>1, <1>3 DEF Shuts
  <2> QED
    BY <1>2, <2>1, CurrentStays DEF Good
<1> QED
  BY <1>1, <1>2, <1>4, <1>5 DEF Serves, Good, d

LEMMA OpenThinkingServes ==
    ASSUME NEW s, NEW c, Good(s, c), thinking, ~c.inThinking
    PROVE  Serves(s, c, OpenThinking(c)) /\ ~Quiet(OpenThinking(c))
<1> DEFINE x == StartBlock(c, "thinking")
           n == Len(c.blocks) + 1
           d == [x EXCEPT !.think = n, !.inThinking = TRUE]
<1>1. \A k \in DOMAIN c.blocks : c.blocks[k].open =>
          c.blocks[k].type = "tool_use" \/ (c.blocks[k].type = "text" /\ k = c.text)
  BY QuietBlocks DEF Quiet
<1>2. /\ Base(s, x) /\ Kept(c, x) /\ Len(x.blocks) = n
      /\ x.blocks[n].type = "thinking" /\ x.blocks[n].open
      /\ \A k \in DOMAIN c.blocks :
           x.blocks[k].type = c.blocks[k].type /\ (x.blocks[k].open => c.blocks[k].open)
  <2>1. Clear(c, "thinking")
    BY <1>1 DEF Clear, M!Beside
  <2> QED
    BY <2>1, StartBlockKeeps DEF Good, AllTypes
<1>3. n \in Nat \ {0} /\ DOMAIN x.blocks = 1..n /\ DOMAIN x.blocks = DOMAIN c.blocks \cup {n}
  <2>1. DOMAIN x.blocks = 1..n /\ DOMAIN c.blocks = 1..Len(c.blocks) /\ Len(c.blocks) \in Nat
    BY <1>2, LenProperties DEF Good, Base, Fits
  <2> QED
    BY <2>1
<1> HIDE DEF x
<1>4. (x.ok <=> c.ok) /\ x.text = c.text
  BY <1>2 DEF Kept, Fields
<1>5. Adjusts(x, d)
  BY <1>2, <1>3 DEF Adjusts, Base, Fits, Fields, ToolBlocks
<1>6. /\ d.blocks = x.blocks /\ d.think = n /\ d.inThinking = TRUE /\ (d.ok <=> x.ok)
      /\ d.text = x.text
  BY <1>2 DEF Base, Fits, Fields
<1> HIDE DEF d
<1>7. Base(s, d)
  BY <1>2, <1>5, AdjustKeeps
<1>8. ThinkOpen(d) /\ ~Quiet(d)
  BY <1>2, <1>3, <1>6 DEF ThinkOpen, Quiet
<1>9. Current(d)
  BY <1>1, <1>2, <1>3, <1>4, <1>6, <1>8 DEF Current
<1>10. OpenThinking(c) = d
  BY DEF OpenThinking, d, x
<1> QED
  BY <1>4, <1>6, <1>7, <1>8, <1>9, <1>10 DEF Serves, Good

LEMMA CloseThinkingServes ==
    ASSUME NEW s, NEW c, Good(s, c), ~Quiet(c)
    PROVE  Serves(s, c, CloseThinking(c)) /\ Quiet(CloseThinking(c))
<1> DEFINE x == ThinkingDelta(c)
           y == ThinkingDelta(x)
           z == StopBlock(y, c.think)
           d == [z EXCEPT !.inThinking = FALSE, !.extracted = TRUE]
<1>1. Good(s, x) /\ Kept(c, x)
  BY ThinkingDeltaKeeps
<1> HIDE DEF x
<1>2. ~Quiet(x)
  BY <1>1 DEF Kept, Fields, Quiet
<1>3. Good(s, y) /\ Kept(x, y)
  BY <1>1, <1>2, ThinkingDeltaKeeps
<1> HIDE DEF y
<1>4. /\ Base(s, z) /\ Kept(y, z) /\ Len(z.blocks) = Len(y.blocks)
      /\ \A k \in DOMAIN y.blocks :
           z.blocks[k].type = y.blocks[k].type /\ (z.blocks[k].open <=> y.blocks[k].open /\ k # c.think)
  BY <1>3, StopBlockKeeps DEF Good
<1> HIDE DEF z
<1>5. /\ z.ok <=> c.ok
      /\ z.text = y.text /\ y.think = c.think
  BY <1>1, <1>3, <1>4 DEF Kept, Fields
<1>6. /\ Adjusts(z, d) /\ d.inThinking = FALSE /\ (d.ok <=> z.ok)
      /\ d.blocks = z.blocks /\ d.text = z.text
  BY <1>4 DEF Adjusts, Base, Fits, Fields, ToolBlocks
<1> HIDE DEF d
<1>7. Base(s, d) /\ ThinkOpen(d) /\ Quiet(d)
  BY <1>4, <1>6, AdjustKeeps DEF ThinkOpen, Quiet
<1>8. Current(d)
  <2>1. DOMAIN z.blocks = DOMAIN y.blocks
    BY <1>3, <1>4, LenProperties DEF Good, Base, Fits
  <2> QED
    BY <1>3, <1>4, <1>5, <1>6, <2>1 DEF Good, Current
<1>9. CloseThinking(c) = d
  BY DEF CloseThinking, d, z, y, x
<1> QED
  BY <1>5, <1>6, <1>7, <1>8, <1>9 DEF Serves, Good

LEMMA SealThinkingServes ==
    ASSUME NEW s, NEW c, Good(s, c)
    PROVE  Serves(s, c, SealThinking(c)) /\ Quiet(SealThinking(c))
BY CloseThinkingServes DEF SealThinking, Serves, Quiet

LEMMA FailServes ==
    ASSUME NEW s, NEW c, Good(s, c)
    PROVE  /\ Serves(s, c, Fail(c)) /\ (Quiet(c) => Quiet(Fail(c)))
           /\ ~Fail(c).ok /\ Fail(c).out = c.out
<1> DEFINE d == Fail(c)
<1>1. /\ Adjusts(c, d) /\ Same(c, d) /\ d.ok = FALSE
      /\ d.out = c.out
  BY DEF Fail, Adjusts, Good, Base, Fits, Fields, ToolBlocks, Same
<1> HIDE DEF d
<1>2. Serves(s, c, d) /\ (Quiet(c) => Quiet(d))
  BY <1>1, AdjustServes
<1> QED
  BY <1>1, <1>2 DEF d

(* Into the current text block, or into a new one, which becomes current.  *)
LEMMA TextDeltaServes ==
    ASSUME NEW s, NEW c, Good(s, c), Quiet(c)
    PROVE  Serves(s, c, TextDelta(c)) /\ Quiet(TextDelta(c))
<1> DEFINE n == Len(c.blocks) + 1
           x == Delta(c, c.text)
           y == StartBlock(c, "text")
           z == Delta(y, n)
           d == [x EXCEPT !.body = TRUE]
           e == [z EXCEPT !.text = n, !.body = TRUE]
           in == c.text \in DOMAIN c.blocks /\ c.blocks[c.text].open
<1>1. CASE in
  <2>1. Serves(s, c, x) /\ Quiet(x)
    BY DeltaServes
  <2> HIDE DEF x
  <2>2. Adjusts(x, d) /\ Same(x, d)
    BY <2>1 DEF Serves, Adjusts, Good, Base, Fits, Fields, ToolBlocks, Same
  <2>3. TextDelta(c) = d
    BY <1>1 DEF TextDelta, d, x
  <2> HIDE DEF d
  <2>4. Serves(s, x, d) /\ Quiet(d)
    BY <2>1, <2>2, AdjustServes DEF Serves
  <2> QED
    BY <2>1, <2>3, <2>4, ServesChain
<1>2. CASE ~in
  <2>1. \A k \in DOMAIN c.blocks : c.blocks[k].open => c.blocks[k].type = "tool_use"
    BY <1>2, QuietBlocks
  <2>2. /\ Base(s, y) /\ Kept(c, y) /\ Len(y.blocks) = n
        /\ y.blocks[n].type = "text"
        /\ \A k \in DOMAIN c.blocks :
             y.blocks[k].type = c.blocks[k].type /\ (y.blocks[k].open => c.blocks[k].open)
    <3>1. Clear(c, "text")
      BY <2>1 DEF Clear, M!Beside
    <3> QED
      BY <3>1, StartBlockKeeps DEF Good, AllTypes
  <2> HIDE DEF y
  <2>3. Base(s, z) /\ Kept(y, z) /\ z.blocks = y.blocks
    BY <2>2, DeltaKeeps
  <2> HIDE DEF z
  <2>4. DOMAIN y.blocks = 1..n /\ DOMAIN y.blocks = DOMAIN c.blocks \cup {n} /\ n \in 0..Len(z.blocks)
    <3>1. DOMAIN y.blocks = 1..n /\ DOMAIN c.blocks = 1..Len(c.blocks) /\ Len(c.blocks) \in Nat
      BY <2>2, LenProperties DEF Good, Base, Fits
    <3> QED
      BY <2>2, <2>3, <3>1
  <2>5. Quiet(z) /\ (z.ok <=> c.ok)
    BY <2>2, <2>3 DEF Kept, Fields, Quiet
  <2>6. /\ Adjusts(z, e) /\ e.blocks = z.blocks /\ e.text = n
        /\ e.inThinking = z.inThinking /\ (e.ok <=> z.ok)
    BY <2>3, <2>4 DEF Adjusts, Base, Fits, Fields, ToolBlocks
  <2>7. TextDelta(c) = e
    BY <1>2 DEF TextDelta, e, z, y
  <2> HIDE DEF e
  <2>8. Base(s, e) /\ Quiet(e) /\ ThinkOpen(e)
    BY <2>3, <2>5, <2>6, AdjustKeeps DEF ThinkOpen, Quiet
  <2>9. Current(e)
    BY <2>1, <2>2, <2>3, <2>4, <2>6 DEF Current
  <2> QED
    BY <2>5, <2>6, <2>7, <2>8, <2>9 DEF Serves, Good
<1> QED
  BY <1>1, <1>2

LEMMA SynthesizeServes ==
    ASSUME NEW s, NEW c, Good(s, c), Quiet(c)
    PROVE  Serves(s, c, Synthesize(c)) /\ Quiet(Synthesize(c))
<1> DEFINE n == Len(c.blocks) + 1
           x == StartBlock(c, "tool_use")
           y == Delta(x, n)
           z == StopBlock(y, n)
           d == [z EXCEPT !.terminal = TRUE, !.body = TRUE]
<1>1. Serves(s, c, x) /\ Quiet(x) /\ Len(x.blocks) = n /\ x.blocks[n].type = "tool_use"
  BY ToolStarts
<1> HIDE DEF x
<1>2. Serves(s, x, y) /\ Quiet(y) /\ y.blocks = x.blocks
  BY <1>1, DeltaServes DEF Serves
<1> HIDE DEF y
<1>3. Serves(s, y, z) /\ Quiet(z)
  BY <1>1, <1>2, StopServes DEF Serves
<1> HIDE DEF z
<1>4. Serves(s, z, d) /\ Quiet(d)
  <2>1. Adjusts(z, d) /\ Same(z, d)
    BY <1>3 DEF Serves, Adjusts, Good, Base, Fits, Fields, ToolBlocks, Same
  <2> HIDE DEF d
  <2> QED
    BY <1>3, <2>1, AdjustServes DEF Serves
<1>5. Synthesize(c) = d
  BY DEF Synthesize, d, x, y, z
<1> HIDE DEF d
<1> QED
  BY <1>1, <1>2, <1>3, <1>4, <1>5, ServesChain

(* A context is good as it is.                                             *)
LEMMA ServesItself ==
    ASSUME NEW s, NEW c, Good(s, c)
    PROVE  Serves(s, c, c)
BY DEF Serves

(* One piece of text.                                                      *)
LEMMA PieceServes ==
    ASSUME NEW s, NEW c, Good(s, c), NEW p \in Pieces
    PROVE  Serves(s, c, Piece(c, p))
<1> DEFINE d == [c EXCEPT !.produced = @ \/ Counts(c, p)]
           h == [d EXCEPT !.held = TRUE]
           u == [d EXCEPT !.inThinking = FALSE]
           v == [d EXCEPT !.inThinking = TRUE]
<1>1. Serves(s, c, d) /\ d.inThinking = c.inThinking
  <2>1. Adjusts(c, d) /\ Same(c, d)
    BY DEF Adjusts, Good, Base, Fits, Fields, ToolBlocks, Same
  <2> HIDE DEF d
  <2> QED
    BY <2>1, AdjustServes DEF Same
<1> HIDE DEF d
<1>2. Good(s, d)
  BY <1>1 DEF Serves
<1>3. Serves(s, d, h)
  <2>1. Adjusts(d, h) /\ Same(d, h)
    BY <1>2 DEF Adjusts, Good, Base, Fits, Fields, ToolBlocks, Same
  <2> HIDE DEF h
  <2> QED
    BY <1>2, <2>1, AdjustServes
<1>4. ASSUME ~thinking, NEW w \in {u, v} PROVE Serves(s, d, w)
  <2>1. Adjusts(d, w) /\ w.text = d.text
    BY <1>2, <1>4 DEF Adjusts, Good, Base, Fits, Fields, ToolBlocks
  <2>2. Base(s, w)
    BY <1>2, <2>1, AdjustKeeps DEF Good
  <2>3. ThinkOpen(w) /\ Current(w)
    BY <1>2, <1>4, <2>1 DEF Good, ThinkOpen, Current, Quiet, Adjusts
  <2> QED
    BY <2>1, <2>2, <2>3 DEF Serves, Good, Adjusts
<1>6. Serves(s, d, d)
  BY <1>2, ServesItself
<1> HIDE DEF h, u, v
<1>7. Serves(s, d, Piece(c, p))
  <2>1. CASE p \in {"hold", "keep"}
    <3>1. Piece(c, p) = h
      BY <2>1 DEF Piece, d, h
    <3> QED
      BY <3>1, <1>3
  <2>2. CASE p = "close" /\ c.inThinking
    <3>1. CASE thinking
      <4>1. Piece(c, p) = CloseThinking(d)
        BY <2>2, <3>1 DEF Piece, d
      <4>2. ~Quiet(d)
        BY <2>2, <3>1, <1>1 DEF Quiet, Same
      <4> QED
        BY <4>1, <4>2, <1>2, CloseThinkingServes
    <3>2. CASE ~thinking
      <4>1. Piece(c, p) = u
        BY <2>2, <3>2 DEF Piece, d, u
      <4> QED
        BY <4>1, <3>2, <1>4
    <3> QED
      BY <3>1, <3>2
  <2>3. CASE p = "close" /\ ~c.inThinking
    <3>1. Piece(c, p) = d
      BY <2>3 DEF Piece, d
    <3> QED
      BY <3>1, <1>6
  <2>4. CASE p \notin {"hold", "keep", "close"} /\ c.inThinking
    <3>1. CASE thinking
      <4>1. Piece(c, p) = ThinkingDelta(d)
        BY <2>4, <3>1 DEF Piece, d
      <4>2. Good(s, ThinkingDelta(d)) /\ Kept(d, ThinkingDelta(d))
        BY <2>4, <3>1, <1>1, <1>2, ThinkingDeltaKeeps DEF Quiet, Same
      <4>3. ThinkingDelta(d).ok <=> d.ok
        BY <4>2 DEF Kept, Fields
      <4> QED
        BY <4>1, <4>2, <4>3 DEF Serves
    <3>2. CASE ~thinking
      <4>1. Piece(c, p) = d
        BY <2>4, <3>2 DEF Piece, d
      <4> QED
        BY <4>1, <1>6
    <3> QED
      BY <3>1, <3>2
  <2>5. CASE p = "open" /\ ~c.inThinking /\ ~thinking
    <3>1. Piece(c, p) = v
      BY <2>5 DEF Piece, d, v
    <3> QED
      BY <2>5, <3>1, <1>4
  <2>6. CASE p = "open" /\ ~c.inThinking /\ thinking /\ ~c.extracted
    <3>1. Piece(c, p) = OpenThinking(d)
      BY <2>6 DEF Piece, d
    <3> QED
      BY <2>6, <3>1, <1>1, <1>2, OpenThinkingServes DEF Same
  <2>7. CASE p = "invoke" /\ ~c.inThinking
    <3>1. Piece(c, p) = Synthesize(d)
      BY <2>7 DEF Piece, d
    <3> QED
      BY <2>7, <3>1, <1>1, <1>2, SynthesizeServes DEF Quiet, Same
  <2>8. CASE p = "badinvoke" /\ ~c.inThinking
    <3>1. Piece(c, p) = Fail(d)
      BY <2>8 DEF Piece, d
    <3> QED
      BY <3>1, <1>2, FailServes
  <2>9. CASE /\ ~c.inThinking
             /\ p = "text" \/ (p = "open" /\ thinking /\ c.extracted)
    <3>1. Piece(c, p) = TextDelta(d)
      BY <2>9 DEF Piece, d
    <3> QED
      BY <2>9, <3>1, <1>1, <1>2, TextDeltaServes DEF Quiet, Same
  <2> QED
    BY <2>1, <2>2, <2>3, <2>4, <2>5, <2>6, <2>7, <2>8, <2>9 DEF Pieces
<1> QED
  BY <1>1, <1>7, ServesChain

(* Where process_assistant_response starts with the pieces.                *)
TextStart(c, pieces) ==
    IF thinking /\ c.reasoned /\ c.inThinking /\ pieces # <<>> THEN CloseThinking(c) ELSE c

(* The loop over the pieces.                                               *)
LEMMA AssistantTextRun ==
    ASSUME NEW c, NEW pieces, Len(pieces) \in Nat
    PROVE  \E run :
             /\ run[0] = TextStart(c, pieces)
             /\ \A i \in 1..Len(pieces) : run[i] = Piece(run[i - 1], pieces[i])
             /\ AssistantText(c, pieces) = run[Len(pieces)]
<1> DEFINE n == Len(pieces)
           start == TextStart(c, pieces)
           Next1(x, i) == Piece(x, pieces[i])
           Runs(f, k) == f = [i \in 0..k |-> IF i = 0 THEN start ELSE Next1(f[i - 1], i)]
           P == {k \in 0..n : \E f : Runs(f, k)}
<1> HIDE DEF start
<1>1. 0 \in P
  <2>1. Runs([i \in 0..0 |-> start], 0)
    OBVIOUS
  <2> HIDE DEF Runs, n
  <2> QED
    BY <2>1 DEF n
<1>2. ASSUME NEW k \in 1..n, k - 1 \in P PROVE k \in P
  <2> HIDE DEF Next1
  <2>1. PICK f : Runs(f, k - 1)
    BY <1>2
  <2> DEFINE g == [i \in 0..k |-> IF i = k THEN Next1(f[k - 1], k) ELSE f[i]]
  <2>2. ASSUME NEW i \in 0..k PROVE g[i] = IF i = 0 THEN start ELSE Next1(g[i - 1], i)
    <3>1. CASE i = k
      BY <3>1
    <3>2. CASE i # k
      <4>1. i \in 0..(k - 1) /\ (i # 0 => i - 1 \in 0..k /\ i - 1 # k)
        BY <3>2
      <4> QED
        BY <2>1, <3>2, <4>1
    <3> QED
      BY <3>1, <3>2
  <2>3. Runs(g, k)
    BY <2>2
  <2> HIDE DEF Runs, g, n
  <2> QED
    BY <2>3 DEF n
<1>3. n \in P
  <2> HIDE DEF P
  <2>1. \A i \in 0..n : i \in P
    BY <1>1, <1>2, Steps
  <2> QED
    BY <2>1
<1> DEFINE run == CHOOSE f : Runs(f, n)
<1>4. Runs(run, n)
  <2> HIDE DEF Runs, n
  <2> QED
    BY <1>3
<1>5. AssistantText(c, pieces) = run[n]
  BY DEF AssistantText, TextStart, start
<1> HIDE DEF run
<1>6. run[0] = start /\ \A i \in 1..n : run[i] = Next1(run[i - 1], i)
  <2> HIDE DEF Next1, n
  <2>1. \A i \in 0..n : run[i] = IF i = 0 THEN start ELSE Next1(run[i - 1], i)
    BY <1>4, Zenon
  <2>2. 0 \in 0..n /\ \A i \in 1..n : i \in 0..n /\ i # 0
    BY DEF n
  <2> QED
    BY <2>1, <2>2
<1> WITNESS run
<1> QED
  BY <1>5, <1>6 DEF start

(* process_assistant_response.                                             *)
LEMMA AssistantTextServes ==
    ASSUME NEW s, NEW c, Good(s, c), NEW n \in Nat, NEW pieces \in [1..n -> Pieces]
    PROVE  Serves(s, c, AssistantText(c, pieces))
<1>1. Len(pieces) = n
  BY LenProperties
<1>2. PICK run :
        /\ run[0] = TextStart(c, pieces)
        /\ \A i \in 1..n : run[i] = Piece(run[i - 1], pieces[i])
        /\ AssistantText(c, pieces) = run[n]
  BY <1>1, AssistantTextRun
<1> DEFINE P == {i \in 0..n : Serves(s, c, run[i])}
<1>3. 0 \in P
  <2>1. Serves(s, c, TextStart(c, pieces))
    BY ServesItself, CloseThinkingServes DEF TextStart, Quiet
  <2> QED
    BY <1>2, <2>1
<1>4. ASSUME NEW i \in 1..n, i - 1 \in P PROVE i \in P
  <2>1. Serves(s, c, run[i - 1]) /\ pieces[i] \in Pieces /\ i \in 0..n
    BY <1>4
  <2>2. Serves(s, run[i - 1], Piece(run[i - 1], pieces[i]))
    BY <2>1, PieceServes DEF Serves
  <2>3. Serves(s, c, run[i])
    BY <1>2, <2>1, <2>2, ServesChain
  <2> QED
    BY <2>1, <2>3
<1>5. n \in P
  <2> HIDE DEF P
  <2>1. \A i \in 0..n : i \in P
    BY <1>3, <1>4, Steps
  <2> QED
    BY <2>1
<1> QED
  BY <1>2, <1>5

(* process_reasoning_content.                                              *)
LEMMA ReasoningServes ==
    ASSUME NEW s, NEW c, Good(s, c)
    PROVE  Serves(s, c, Reasoning(c))
<1> DEFINE x == IF c.inThinking THEN c ELSE OpenThinking(c)
           y == ThinkingDelta(x)
           d == [y EXCEPT !.reasoned = TRUE, !.produced = TRUE]
           e == [c EXCEPT !.discarded = TRUE]
<1>1. CASE thinking
  <2>1. Serves(s, c, x) /\ ~Quiet(x)
    BY <1>1, OpenThinkingServes, ServesItself DEF Quiet
  <2> HIDE DEF x
  <2>2. Good(s, y) /\ Kept(x, y)
    BY <1>1, <2>1, ThinkingDeltaKeeps DEF Serves
  <2> HIDE DEF y
  <2>3. Serves(s, x, y)
    BY <2>2 DEF Serves, Kept, Fields
  <2>4. Serves(s, y, d)
    <3>1. Adjusts(y, d) /\ Same(y, d)
      BY <2>2 DEF Adjusts, Good, Base, Fits, Fields, ToolBlocks, Same
    <3> HIDE DEF d
    <3> QED
      BY <2>2, <3>1, AdjustServes
  <2>5. Reasoning(c) = d
    BY <1>1 DEF Reasoning, d, y, x
  <2> HIDE DEF d
  <2> QED
    BY <2>1, <2>3, <2>4, <2>5, ServesChain
<1>2. CASE ~thinking
  <2>1. Adjusts(c, e) /\ Same(c, e)
    BY DEF Adjusts, Good, Base, Fits, Fields, ToolBlocks, Same
  <2>2. Reasoning(c) = e
    BY <1>2 DEF Reasoning
  <2> HIDE DEF e
  <2> QED
    BY <2>1, <2>2, AdjustServes
<1> QED
  BY <1>1, <1>2

(* The in-band error event, of an answer that has failed.                  *)
LEMMA TellKeeps ==
    ASSUME NEW s, NEW c, Base(s, c), ~c.ok
    PROVE  LET d == Tell(c)
           IN  Base(s, d) /\ d.told /\ Kept([c EXCEPT !.told = TRUE], d) /\ d.blocks = c.blocks
<1> DEFINE d == Tell(c)
           e == E("error", 0)
           S == Heard(s, c.out)
<1>1. /\ DOMAIN d = Fields /\ d.blocks = c.blocks /\ d.out = Append(c.out, e) /\ d.told = TRUE
      /\ d.tools = c.tools /\ d.pending = c.pending /\ d.text = c.text /\ d.think = c.think
      /\ d.ok = c.ok /\ Kept([c EXCEPT !.told = TRUE], d)
  BY DEF Tell, Base, Fits, Fields, Kept
<1> HIDE DEF d
<1>2. Running(S) /\ Told(S, c) /\ Len(c.blocks) \in Nat
  BY LenProperties DEF Base, Fits
<1>3. e \in Ev /\ e.block <= Len(c.blocks) + 1 /\ May(S, e)
  <2>1. e \in Ev /\ e.type = "error" /\ e.block = 0
    BY EventIsEv, EventParts DEF M!MessageEvents
  <2> QED
    BY <1>2, <2>1 DEF May, M!MessageEvents, M!Kinds, Running
<1>4. /\ d.out \in Seq(Ev) /\ Proper(Log(s, d.out)) /\ Heard(s, d.out) = S \cup {e}
      /\ Len(Log(s, d.out)) \in Nat /\ Len(c.blocks) + 1 < Len(Log(s, d.out))
  <2> DEFINE out == Append(c.out, e)
  <2>1. /\ out \in Seq(Ev) /\ Proper(Log(s, out)) /\ Heard(s, out) = Heard(s, c.out) \cup {e}
        /\ Len(Log(s, out)) \in Nat /\ Len(c.blocks) + 1 < Len(Log(s, out))
    <3> HIDE DEF e
    <3> QED
      BY <1>2, <1>3, EmitKeeps, Zenon DEF S
  <2> QED
    BY <1>1, <2>1
<1>5. Running(S \cup {e})
  BY <1>2, EventParts DEF Running
<1>6. Told(S \cup {e}, d)
  <2>1. \A k \in Nat : Opened(S \cup {e}, k) <=> Opened(S, k)
    BY EventParts DEF Opened, M!Kinds
  <2>2. \A k \in Nat : Closed(S \cup {e}, k) <=> Closed(S, k)
    BY EventParts DEF Closed
  <2> QED
    BY <1>1, <1>2, <2>1, <2>2 DEF Told
<1>7. Fits(d) /\ ToolBlocks(d) /\ Kinded(S \cup {e}, d)
  <2>1. Kinded(S, c) /\ "error" \notin M!Kinds
    BY DEF Base, M!Kinds
  <2> HIDE DEF S
  <2>2. Kinded(S \cup {e}, d)
    BY <2>1, <1>1, KindsStay
  <2> QED
    BY <1>1, <1>4, <2>2 DEF Base, Fits, ToolBlocks
<1>8. Base(s, d)
  <2>1. s \in Seq(Ev) /\ Len(d.blocks) < Len(Log(s, d.out))
    BY <1>1, <1>2, <1>4 DEF Base
  <2> HIDE DEF S, e
  <2> QED
    BY <2>1, <1>4, <1>5, <1>6, <1>7 DEF Base
<1> QED
  BY <1>1, <1>8 DEF d

LEMMA TellServes ==
    ASSUME NEW s, NEW c, Good(s, c), ~c.ok
    PROVE  Serves(s, c, Tell(c)) /\ Serves(s, c, TellOnce(c))
<1> DEFINE d == Tell(c)
<1>1. Base(s, d) /\ Kept([c EXCEPT !.told = TRUE], d) /\ d.blocks = c.blocks
  BY TellKeeps DEF Good
<1> HIDE DEF d
<1>2. Same(c, d) /\ d.ok = c.ok
  BY <1>1 DEF Kept, Fields, Good, Base, Fits, Same
<1>3. Serves(s, c, d)
  BY <1>1, <1>2 DEF Good, ThinkOpen, Current, Quiet, Same, Serves
<1> QED
  BY <1>3, ServesItself DEF d, TellOnce

(* flush_tool_input sends to the tool's block and leaves the blocks alone. *)
LEMMA FlushToolServes ==
    ASSUME NEW s, NEW c, Good(s, c), NEW t \in Tools, NEW good
    PROVE  LET d == FlushTool(c, t, good)
           IN  Serves(s, c, d) /\ d.blocks = c.blocks /\ d.tools = c.tools
<1> DEFINE x == [c EXCEPT !.pending = @ \ {t}]
           y == Delta(x, x.tools[t])
           z == [y EXCEPT !.produced = TRUE]
           f == Fail(x)
<1>1. Serves(s, c, x) /\ x.blocks = c.blocks /\ x.tools = c.tools
  <2>1. Adjusts(c, x) /\ Same(c, x) /\ x.tools = c.tools
    BY DEF Adjusts, Good, Base, Fits, Fields, ToolBlocks, Same
  <2> HIDE DEF x
  <2> QED
    BY <2>1, AdjustServes DEF Adjusts
<1> HIDE DEF x
<1>2. Good(s, x)
  BY <1>1 DEF Serves
<1>3. Serves(s, x, y) /\ y.blocks = x.blocks /\ y.tools = x.tools
  <2>1. Serves(s, x, y) /\ y.blocks = x.blocks
    BY <1>2, DeltaServes
  <2>2. Kept(x, y)
    BY <1>2, DeltaKeeps DEF Good
  <2> HIDE DEF y
  <2> QED
    BY <2>1, <2>2 DEF Kept, Fields
<1> HIDE DEF y
<1>4. Serves(s, y, z) /\ z.blocks = y.blocks /\ z.tools = y.tools
  <2>1. Adjusts(y, z) /\ Same(y, z) /\ z.tools = y.tools
    BY <1>3 DEF Serves, Adjusts, Good, Base, Fits, Fields, ToolBlocks, Same
  <2> HIDE DEF z
  <2> QED
    BY <1>3, <2>1, AdjustServes DEF Adjusts, Serves
<1>5. Serves(s, x, f) /\ f.blocks = x.blocks /\ f.tools = x.tools
  <2>1. f.blocks = x.blocks /\ f.tools = x.tools
    BY <1>2 DEF Fail, Good, Base, Fits, Fields
  <2> QED
    BY <1>2, <2>1, FailServes
<1> HIDE DEF z, f
<1>6. FlushTool(c, t, good) \in {x, z, f}
  BY DEF FlushTool, x, y, z, f
<1> QED
  BY <1>1, <1>3, <1>4, <1>5, <1>6, ServesChain, ServesItself

(* A tool's block is not the thinking one.                                 *)
LEMMA ToolIsNoThinking ==
    ASSUME NEW s, NEW c, Good(s, c), NEW t \in Tools, NEW d, d.blocks = c.blocks
    PROVE  c.tools[t] \in DOMAIN d.blocks => d.blocks[c.tools[t]].type # "thinking"
<1>1. DOMAIN c.blocks = 1..Len(c.blocks)
  BY LenProperties DEF Good, Base, Fits
<1>2. c.tools[t] \in DOMAIN c.blocks => c.tools[t] # 0
  BY <1>1
<1> QED
  BY <1>2 DEF Good, Base, ToolBlocks

LEMMA ShowBeforeToolServes ==
    ASSUME NEW s, NEW c, Good(s, c), Quiet(c), NEW w
    PROVE  Serves(s, c, ShowBeforeTool(c, w)) /\ Quiet(ShowBeforeTool(c, w))
<1> DEFINE x == TextDelta(c)
           d == [x EXCEPT !.held = FALSE]
<1>1. Serves(s, c, x) /\ Quiet(x)
  BY TextDeltaServes
<1> HIDE DEF x
<1>2. Serves(s, x, d) /\ Quiet(d)
  <2>1. Adjusts(x, d) /\ Same(x, d)
    BY <1>1 DEF Serves, Adjusts, Good, Base, Fits, Fields, ToolBlocks, Same
  <2> HIDE DEF d
  <2> QED
    BY <1>1, <2>1, AdjustServes DEF Serves
<1>3. ShowBeforeTool(c, w) \in {c, d}
  BY DEF ShowBeforeTool, d, x
<1> HIDE DEF d
<1> QED
  BY <1>1, <1>2, <1>3, ServesChain, ServesItself

LEMMA OpenToolServes ==
    ASSUME NEW s, NEW c, Good(s, c), Quiet(c), NEW t \in Tools
    PROVE  Serves(s, c, OpenTool(c, t))
<1> DEFINE n == Len(c.blocks) + 1
           x == StartBlock(c, "tool_use")
           d == [x EXCEPT !.tools[t] = n]
<1>1. CASE c.tools[t] # 0
  <2>1. OpenTool(c, t) = StopOpen(c, {"text"})
    BY <1>1 DEF OpenTool
  <2> QED
    BY <2>1, StopOpenServes
<1>2. CASE c.tools[t] = 0
  <2>1. Serves(s, c, x) /\ Len(x.blocks) = n /\ x.blocks[n].type = "tool_use"
    BY ToolStarts
  <2> HIDE DEF x
  <2>2. n \in 0..Len(x.blocks)
    BY <2>1, LenProperties DEF Good, Base, Fits
  <2>3. Serves(s, x, d)
    <3>1. /\ DOMAIN d = Fields /\ d.blocks = x.blocks /\ d.out = x.out /\ d.told = x.told
          /\ d.ok = x.ok /\ d.pending = x.pending /\ d.text = x.text /\ d.think = x.think
          /\ d.inThinking = x.inThinking /\ d.tools = [x.tools EXCEPT ![t] = n]
      BY <2>1 DEF Serves, Good, Base, Fits, Fields
    <3> HIDE DEF d
    <3>2. d.tools \in [Tools -> 0..Len(x.blocks)]
      BY <2>1, <2>2, <3>1 DEF Serves, Good, Base, Fits
    <3>3. ASSUME NEW u \in Tools, d.tools[u] # 0 PROVE d.blocks[d.tools[u]].type = "tool_use"
      <4>1. x.tools \in [Tools -> 0..Len(x.blocks)] /\ ToolBlocks(x)
        BY <2>1 DEF Serves, Good, Base, Fits
      <4>2. CASE u = t
        BY <2>1, <3>1, <4>1, <4>2
      <4>3. CASE u # t
        BY <3>1, <3>3, <4>1, <4>3 DEF ToolBlocks
      <4> QED
        BY <4>2, <4>3
    <3>4. Adjusts(x, d)
      BY <2>1, <3>1, <3>2, <3>3 DEF Adjusts, ToolBlocks, Serves, Good, Base, Fits
    <3> QED
      BY <2>1, <3>1, <3>4, AdjustServes DEF Serves, Same
  <2>4. OpenTool(c, t) = d
    BY <1>2 DEF OpenTool, d, x
  <2> HIDE DEF d
  <2> QED
    BY <2>1, <2>3, <2>4, ServesChain
<1> QED
  BY <1>1, <1>2

LEMMA CloseToolServes ==
    ASSUME NEW s, NEW c, Good(s, c), NEW t \in Tools, NEW good
    PROVE  Serves(s, c, CloseTool(c, t, good))
<1> DEFINE x == FlushTool(c, t, good)
           y == [x EXCEPT !.terminal = TRUE]
<1>1. Serves(s, c, x) /\ x.blocks = c.blocks
  BY FlushToolServes
<1> HIDE DEF x
<1>2. Serves(s, x, y) /\ y.blocks = x.blocks
  <2>1. Adjusts(x, y) /\ Same(x, y)
    BY <1>1 DEF Serves, Adjusts, Good, Base, Fits, Fields, ToolBlocks, Same
  <2> HIDE DEF y
  <2> QED
    BY <1>1, <2>1, AdjustServes DEF Serves, Adjusts
<1> HIDE DEF y
<1>3. c.tools[t] \in DOMAIN y.blocks => y.blocks[c.tools[t]].type # "thinking"
  BY <1>1, <1>2, ToolIsNoThinking
<1>4. Serves(s, y, StopBlock(y, c.tools[t]))
  BY <1>2, <1>3, StopServes DEF Serves
<1>5. CloseTool(c, t, good) = StopBlock(y, c.tools[t])
  BY DEF CloseTool, y, x
<1> QED
  BY <1>1, <1>2, <1>4, <1>5, ServesChain

LEMMA ToolInputServes ==
    ASSUME NEW s, NEW c, Good(s, c), NEW t \in Tools, NEW input, NEW stop, NEW good
    PROVE  Serves(s, c, ToolInput(c, t, input, stop, good))
<1> DEFINE d == [c EXCEPT !.body = TRUE, !.pending = IF input THEN @ \cup {t} ELSE @]
<1>1. Serves(s, c, d)
  <2>1. Adjusts(c, d) /\ Same(c, d)
    BY DEF Adjusts, Good, Base, Fits, Fields, ToolBlocks, Same
  <2> HIDE DEF d
  <2> QED
    BY <2>1, AdjustServes
<1>2. ToolInput(c, t, input, stop, good) \in {d, CloseTool(d, t, good)}
  BY DEF ToolInput
<1> HIDE DEF d
<1>3. Serves(s, d, CloseTool(d, t, good))
  BY <1>1, CloseToolServes DEF Serves
<1> QED
  BY <1>1, <1>2, <1>3, ServesChain

(* process_tool_use.                                                       *)
LEMMA ToolUseServes ==
    ASSUME NEW s, NEW c, Good(s, c), NEW t \in Tools, NEW first, NEW input, NEW stop, NEW good
    PROVE  Serves(s, c, ToolUse(c, t, first, input, stop, good))
<1> DEFINE h == [c EXCEPT !.hasTool = TRUE]
           x == SealThinking(h)
           y == IF first THEN ShowBeforeTool(x, c.inThinking) ELSE x
           z == OpenTool(y, t)
           d == ToolInput(z, t, input, stop, good)
<1>1. Serves(s, c, h)
  <2>1. Adjusts(c, h) /\ Same(c, h)
    BY DEF Adjusts, Good, Base, Fits, Fields, ToolBlocks, Same
  <2> HIDE DEF h
  <2> QED
    BY <2>1, AdjustServes
<1> HIDE DEF h
<1>2. Serves(s, h, x) /\ Quiet(x)
  BY <1>1, SealThinkingServes DEF Serves
<1> HIDE DEF x
<1>3. Serves(s, x, y) /\ Quiet(y)
  BY <1>2, ShowBeforeToolServes, ServesItself DEF Serves
<1> HIDE DEF y
<1>4. Serves(s, y, z)
  BY <1>3, OpenToolServes DEF Serves
<1> HIDE DEF z
<1>5. Serves(s, z, d)
  BY <1>4, ToolInputServes DEF Serves
<1>6. ToolUse(c, t, first, input, stop, good) = d
  BY DEF ToolUse, d, z, y, x, h
<1> HIDE DEF d
<1> QED
  BY <1>1, <1>2, <1>3, <1>4, <1>5, <1>6, ServesChain

(***************************************************************************)
(* generate_final_events.                                                  *)
(***************************************************************************)

FlushNext(d, t, bad) == StopBlock(FlushTool(d, t, t \notin bad), d.tools[t])

(* The loop over the tools that gathered input.                            *)
FlushRun(c, bad, order, run) ==
    /\ run[0] = c
    /\ \A i \in 1..Len(order) : run[i] = FlushNext(run[i - 1], order[i], bad)
    /\ FlushPending(c, bad, order) = run[Len(order)]

LEMMA FlushPendingRun ==
    ASSUME NEW c, NEW bad, NEW order, Len(order) \in Nat
    PROVE  \E run : FlushRun(c, bad, order, run)
<1> DEFINE n == Len(order)
           Next1(x, i) == FlushNext(x, order[i], bad)
           Runs(f, k) == f = [i \in 0..k |-> IF i = 0 THEN c ELSE Next1(f[i - 1], i)]
           P == {k \in 0..n : \E f : Runs(f, k)}
<1>1. 0 \in P
  <2>1. Runs([i \in 0..0 |-> c], 0)
    OBVIOUS
  <2> HIDE DEF Runs, n
  <2> QED
    BY <2>1 DEF n
<1>2. ASSUME NEW k \in 1..n, k - 1 \in P PROVE k \in P
  <2> HIDE DEF Next1
  <2>1. PICK f : Runs(f, k - 1)
    BY <1>2
  <2> DEFINE g == [i \in 0..k |-> IF i = k THEN Next1(f[k - 1], k) ELSE f[i]]
  <2>2. ASSUME NEW i \in 0..k PROVE g[i] = IF i = 0 THEN c ELSE Next1(g[i - 1], i)
    <3>1. CASE i = k
      BY <3>1
    <3>2. CASE i # k
      <4>1. i \in 0..(k - 1) /\ (i # 0 => i - 1 \in 0..k /\ i - 1 # k)
        BY <3>2
      <4> QED
        BY <2>1, <3>2, <4>1
    <3> QED
      BY <3>1, <3>2
  <2>3. Runs(g, k)
    BY <2>2
  <2> HIDE DEF Runs, g, n
  <2> QED
    BY <2>3 DEF n
<1>3. n \in P
  <2> HIDE DEF P
  <2>1. \A i \in 0..n : i \in P
    BY <1>1, <1>2, Steps
  <2> QED
    BY <2>1
<1> DEFINE run == CHOOSE f : Runs(f, n)
<1>4. Runs(run, n)
  <2> HIDE DEF Runs, n
  <2> QED
    BY <1>3
<1>5. FlushPending(c, bad, order) = run[n]
  BY DEF FlushPending, FlushNext
<1> HIDE DEF run
<1>6. run[0] = c /\ \A i \in 1..n : run[i] = Next1(run[i - 1], i)
  <2> HIDE DEF Next1, n
  <2>1. \A i \in 0..n : run[i] = IF i = 0 THEN c ELSE Next1(run[i - 1], i)
    BY <1>4, Zenon
  <2>2. 0 \in 0..n /\ \A i \in 1..n : i \in 0..n /\ i # 0
    BY DEF n
  <2> QED
    BY <2>1, <2>2
<1>7. FlushRun(c, bad, order, run)
  BY <1>5, <1>6 DEF FlushRun
<1> QED
  BY <1>7

LEMMA FlushNextServes ==
    ASSUME NEW s, NEW c, Good(s, c), NEW t \in Tools, NEW bad
    PROVE  Serves(s, c, FlushNext(c, t, bad))
<1> DEFINE x == FlushTool(c, t, t \notin bad)
<1>1. Serves(s, c, x) /\ x.blocks = c.blocks
  BY FlushToolServes
<1>2. FlushNext(c, t, bad) = StopBlock(x, c.tools[t])
  BY DEF FlushNext
<1> HIDE DEF x
<1>3. c.tools[t] \in DOMAIN x.blocks => x.blocks[c.tools[t]].type # "thinking"
  BY <1>1, ToolIsNoThinking
<1>4. Serves(s, x, StopBlock(x, c.tools[t]))
  BY <1>1, <1>3, StopServes DEF Serves
<1> QED
  BY <1>1, <1>2, <1>4, ServesChain

(* Whatever the order in which the hash map hands out the tools.           *)
LEMMA FlushPendingServes ==
    ASSUME NEW s, NEW c, Good(s, c), NEW bad, NEW order \in SetToSeqs(c.pending)
    PROVE  Serves(s, c, FlushPending(c, bad, order))
<1> DEFINE n == Cardinality(c.pending)
<1>1. n \in Nat /\ order \in [1..n -> Tools]
  <2>1. c.pending \subseteq Tools
    BY DEF Good, Base, Fits
  <2>2. n \in Nat
    BY <2>1, BoundsAssumption, FS_Subset, FS_CardinalityType
  <2>3. order \in [1..n -> c.pending]
    BY DEF SetToSeqs
  <2> QED
    BY <2>1, <2>2, <2>3
<1> HIDE DEF n
<1>2. Len(order) = n
  BY <1>1, LenProperties
<1>3. PICK run :
        /\ run[0] = c
        /\ \A i \in 1..n : run[i] = FlushNext(run[i - 1], order[i], bad)
        /\ FlushPending(c, bad, order) = run[n]
  <2>1. Len(order) \in Nat
    BY <1>1, <1>2
  <2>2. PICK run : FlushRun(c, bad, order, run)
    BY <2>1, FlushPendingRun, Zenon
  <2> QED
    BY <2>2, <1>2, Zenon DEF FlushRun
<1> DEFINE P == {i \in 0..n : Serves(s, c, run[i])}
<1>4. 0 \in P
  BY <1>1, <1>3, ServesItself
<1>5. ASSUME NEW i \in 1..n, i - 1 \in P PROVE i \in P
  <2>1. Serves(s, c, run[i - 1]) /\ order[i] \in Tools /\ i \in 0..n
    BY <1>1, <1>5
  <2>2. Serves(s, run[i - 1], FlushNext(run[i - 1], order[i], bad))
    BY <2>1, FlushNextServes DEF Serves
  <2>3. Serves(s, c, run[i])
    BY <1>3, <2>1, <2>2, ServesChain
  <2> QED
    BY <2>1, <2>3
<1>6. n \in P
  <2> HIDE DEF P
  <2>1. \A i \in 0..n : i \in P
    BY <1>1, <1>4, <1>5, Steps
  <2> QED
    BY <1>1, <2>1
<1> QED
  BY <1>3, <1>6

(* The stages between the tools and the end of the message.                *)
LEMMA StagesServe ==
    ASSUME NEW s, NEW c, Good(s, c), Quiet(c), NEW shown, NEW degrade,
           NEW d \in {ShowHeld(c, shown), Degrade(c, degrade), AddText(c)}
    PROVE  Serves(s, c, d) /\ Quiet(d)
<1> DEFINE x == TextDelta(c)
           y == [x EXCEPT !.produced = @ \/ shown = "counted"]
           z == [x EXCEPT !.terminal = TRUE, !.produced = TRUE]
           u == [x EXCEPT !.terminal = TRUE]
<1>1. /\ Serves(s, c, c) /\ Serves(s, c, Fail(c)) /\ Serves(s, c, Synthesize(c)) /\ Serves(s, c, x)
      /\ Quiet(Fail(c)) /\ Quiet(Synthesize(c)) /\ Quiet(x)
  BY ServesItself, FailServes, SynthesizeServes, TextDeltaServes
<1> HIDE DEF x
<1>2. /\ Serves(s, x, y) /\ Serves(s, x, z) /\ Serves(s, x, u)
      /\ Quiet(y) /\ Quiet(z) /\ Quiet(u)
  <2>1. Adjusts(x, y) /\ Same(x, y)
    BY <1>1 DEF Serves, Adjusts, Good, Base, Fits, Fields, ToolBlocks, Same
  <2>2. Adjusts(x, z) /\ Same(x, z)
    BY <1>1 DEF Serves, Adjusts, Good, Base, Fits, Fields, ToolBlocks, Same
  <2>3. Adjusts(x, u) /\ Same(x, u)
    BY <1>1 DEF Serves, Adjusts, Good, Base, Fits, Fields, ToolBlocks, Same
  <2> HIDE DEF y, z, u
  <2> QED
    BY <1>1, <2>1, <2>2, <2>3, AdjustServes DEF Serves
<1>3. /\ ShowHeld(c, shown) \in {c, Synthesize(c), Fail(c), y}
      /\ Degrade(c, degrade) \in {c, z} /\ AddText(c) \in {c, u}
  BY DEF ShowHeld, Degrade, AddText, x, y, z, u
<1> HIDE DEF y, z, u
<1>4. Serves(s, c, y) /\ Serves(s, c, z) /\ Serves(s, c, u)
  BY <1>1, <1>2, ServesChain
<1> QED
  BY <1>1, <1>2, <1>3, <1>4

LEMMA EndToolsServes ==
    ASSUME NEW s, NEW c, Good(s, c), NEW bad
    PROVE  Serves(s, c, EndTools(c, bad))
BY ServesItself, FailServes DEF EndTools

(* What the last batch of a context leaves: a log of the protocol, an error *)
(* in it if and only if the client counts as told, and the end of the       *)
(* message at its end unless the answer failed.                             *)
Ended(s, d) ==
    /\ Fits(d) /\ Proper(Log(s, d.out))
    /\ E("error", 0) \in Heard(s, d.out) <=> d.told
    /\ d.told => ~d.ok
    /\ d.ok => d.out # <<>> /\ Last(d.out) = E("message_stop", 0)

LEMMA TwoMore ==
    ASSUME NEW t \in Seq(Ev), NEW a \in Ev, NEW b \in Ev
    PROVE  t \o <<a, b>> = Append(Append(t, a), b)
<1>1. <<a>> \in Seq(Ev) /\ Append(<<a>>, b) = <<a, b>>
  <2>1. <<a>> \in Seq(Ev) /\ <<a, b>> \in Seq(Ev)
    OBVIOUS
  <2>2. Append(<<a>>, b) \in Seq(Ev) /\ Len(Append(<<a>>, b)) = 2
    BY <2>1, AppendProperties
  <2>3. Append(<<a>>, b)[1] = a /\ Append(<<a>>, b)[2] = b
    BY <2>1, AppendProperties
  <2> DEFINE l == Append(<<a>>, b)
             r == <<a, b>>
  <2>4. Len(r) = 2 /\ r[1] = a /\ r[2] = b /\ \A i \in 1..2 : i = 1 \/ i = 2
    OBVIOUS
  <2> HIDE DEF l, r
  <2>5. l = r
    <3>1. Len(l) = Len(r) /\ \A i \in 1..Len(l) : l[i] = r[i]
      BY <2>2, <2>3, <2>4 DEF l
    <3> QED
      BY <2>1, <2>2, <3>1, SeqEqual DEF l, r
  <2> QED
    BY <2>1, <2>5 DEF l, r
<1>2. t \o Append(<<a>>, b) = Append(t \o <<a>>, b)
  BY <1>1, ConcatAppend
<1>3. t \o <<a>> = Append(t, a)
  BY AppendIsConcat
<1> QED
  BY <1>1, <1>2, <1>3

(* SseStateManager closes what is open and ends the message.               *)
LEMMA EndMessageEnds ==
    ASSUME NEW s, NEW c, Base(s, c)
    PROVE  Ended(s, EndMessage(c)) /\ (EndMessage(c).ok <=> c.ok)
<1> DEFINE x == StopOpen(c, AllTypes)
           a == E("message_delta", 0)
           b == E("message_stop", 0)
           d == EndMessage(c)
           S == Heard(s, x.out)
           one == Append(x.out, a)
           two == Append(one, b)
<1>1. /\ Base(s, x) /\ Kept(c, x) /\ Len(x.blocks) = Len(c.blocks)
      /\ \A k \in DOMAIN c.blocks : x.blocks[k].open <=> c.blocks[k].open /\ c.blocks[k].type \notin AllTypes
  BY StopOpenKeeps
<1>2. d = [x EXCEPT !.out = @ \o <<a, b>>]
  BY DEF EndMessage
<1> HIDE DEF x, d
<1>3. x.out \in Seq(Ev) /\ Fits(x) /\ s \in Seq(Ev) /\ Running(S) /\ Told(S, x)
  BY <1>1 DEF Base, Fits
<1>4. /\ DOMAIN d = Fields /\ d.out = x.out \o <<a, b>> /\ d.blocks = x.blocks
      /\ d.tools = x.tools /\ d.pending = x.pending /\ d.text = x.text /\ d.think = x.think
      /\ d.told = x.told /\ d.ok = x.ok /\ (x.ok <=> c.ok)
  BY <1>1, <1>2, <1>3 DEF Fits, Fields, Kept
<1>5. a \in Ev /\ a.type = "message_delta" /\ a.block = 0 /\ b \in Ev /\ b.type = "message_stop" /\ b.block = 0
  BY EventIsEv, EventParts DEF M!MessageEvents
<1>6. a # b /\ a # E("error", 0) /\ b # E("error", 0)
  BY EventParts
<1>7. a.block <= Len(x.blocks) + 1 /\ May(S, a)
  <2>1. \A k \in Nat : Opened(S, k) => Closed(S, k)
    <3> SUFFICES ASSUME NEW k \in Nat, Opened(S, k) PROVE Closed(S, k)
      OBVIOUS
    <3>1. k \in DOMAIN x.blocks
      BY <1>3 DEF Told
    <3>2. k \in DOMAIN c.blocks
      BY <1>1, <3>1, LenProperties DEF Base, Fits
    <3>3. c.blocks[k] \in BlockRec
      BY <3>2, ElementOfSeq, LenProperties DEF Base, Fits
    <3>4. ~x.blocks[k].open
      BY <1>1, <3>2, <3>3 DEF BlockRec
    <3> QED
      BY <1>3, <3>1, <3>4 DEF Told
  <2>2. Len(x.blocks) \in Nat
    BY <1>3, LenProperties DEF Fits
  <2> QED
    BY <1>3, <1>5, <2>1, <2>2 DEF May, M!MessageEvents, M!Kinds, Running
<1> HIDE DEF a, b
<1>8. one \in Seq(Ev) /\ Proper(Log(s, one)) /\ Heard(s, one) = S \cup {a}
  <2>1. /\ one \in Seq(Ev) /\ Proper(Log(s, one)) /\ Heard(s, one) = Heard(s, x.out) \cup {a}
        /\ Len(Log(s, one)) \in Nat /\ Len(x.blocks) + 1 < Len(Log(s, one))
    BY <1>1, <1>5, <1>7, EmitKeeps, Zenon DEF S
  <2> QED
    BY <2>1
<1> HIDE DEF one
<1>9. two \in Seq(Ev) /\ Proper(Log(s, two)) /\ Heard(s, two) = S \cup {a, b}
  <2>1. two \in Seq(Ev) /\ Log(s, two) = Append(Log(s, one), b)
    BY <1>3, <1>5, <1>8, ConcatAppend, AppendProperties DEF Log
  <2>2. b.block <= Len(Log(s, one))
    BY <1>5, <1>8, LenProperties DEF Proper
  <2>3. May(Range(Log(s, one)), b)
    <3>1. a \in Heard(s, one) /\ b \notin Heard(s, one)
      BY <1>3, <1>6, <1>8 DEF Running, b
    <3> QED
      BY <1>5, <3>1 DEF May, M!MessageEvents, M!Kinds, Heard, a, b
  <2>4. Proper(Append(Log(s, one), b)) /\ Range(Append(Log(s, one), b)) = Range(Log(s, one)) \cup {b}
    BY <1>5, <1>8, <2>2, <2>3, AppendProper
  <2> QED
    BY <1>8, <2>1, <2>4 DEF Heard
<1>10. two # <<>> /\ Last(two) = b
  <2>1. Len(two) = Len(one) + 1 /\ two[Len(one) + 1] = b /\ Len(one) \in Nat
    BY <1>5, <1>8, AppendProperties, LenProperties
  <2> QED
    BY <2>1 DEF Last
<1>11. d.out = two
  BY <1>3, <1>4, <1>5, TwoMore DEF one
<1> HIDE DEF two
<1>12. Fits(d)
  BY <1>3, <1>4, <1>9, <1>11 DEF Fits
<1>13. E("error", 0) \in Heard(s, d.out) <=> d.told
  BY <1>3, <1>4, <1>6, <1>9, <1>11 DEF Told
<1>14. d.told => ~d.ok
  BY <1>3, <1>4 DEF Told
<1> QED
  BY <1>4, <1>9, <1>10, <1>11, <1>12, <1>13, <1>14 DEF Ended, b, d

(* A context that stops without the end of the message, having failed.     *)
LEMMA FailedEnds ==
    ASSUME NEW s, NEW c, Base(s, c), ~c.ok
    PROVE  Ended(s, c)
BY DEF Ended, Base, Told

(* The answer was cut off, or the message ends.                            *)
LEMMA ConcludeEnds ==
    ASSUME NEW s, NEW c, Good(s, c), NEW noParam
    PROVE  Ended(s, Conclude(c, noParam)) /\ (Conclude(c, noParam).ok => c.ok)
<1> DEFINE x == StopOpen(c, AllTypes)
           y == Fail(x)
           d == TellOnce(y)
<1>1. Base(s, x)
  BY StopOpenKeeps DEF Good
<1> HIDE DEF x
<1>2. Adjusts(x, y) /\ ~y.ok
  BY <1>1 DEF Fail, Adjusts, Base, Fits, Fields, ToolBlocks
<1> HIDE DEF y
<1>3. Base(s, y)
  BY <1>1, <1>2, AdjustKeeps
<1>4. Base(s, d) /\ ~d.ok
  <2>1. Base(s, Tell(y)) /\ Kept([y EXCEPT !.told = TRUE], Tell(y))
    BY <1>2, <1>3, TellKeeps
  <2>2. ~Tell(y).ok
    BY <1>2, <1>3, <2>1 DEF Kept, Fields, Base, Fits
  <2> QED
    BY <1>2, <1>3, <2>1, <2>2 DEF TellOnce
<1>5. Conclude(c, noParam) \in {d, EndMessage(c)}
  BY DEF Conclude, d, x, y
<1> HIDE DEF d
<1> QED
  BY <1>4, <1>5, FailedEnds, EndMessageEnds DEF Good

LEMMA FinalEventsEnd ==
    ASSUME NEW s, NEW c, Good(s, c), NEW bad, NEW order \in SetToSeqs(c.pending),
           NEW shown, NEW degrade
    PROVE  LET d == FinalEvents(c, bad, order, shown, degrade)
           IN  Ended(s, d) /\ (d.ok => c.ok)
<1> DEFINE t == FlushPending(c, bad, order)
           u == EndTools(t, bad)
           v == SealThinking(u)
           w == ShowHeld(v, shown)
           x == Degrade(w, degrade)
           y == AddText(x)
           d == Conclude(y, NoParam(c, bad))
<1>1. Serves(s, c, t)
  BY FlushPendingServes
<1> HIDE DEF t
<1>2. Serves(s, t, u)
  BY <1>1, EndToolsServes DEF Serves
<1> HIDE DEF u
<1>3. Serves(s, u, v) /\ Quiet(v)
  BY <1>2, SealThinkingServes DEF Serves
<1> HIDE DEF v
<1>4. Serves(s, v, w) /\ Quiet(w)
  BY <1>3, StagesServe DEF Serves
<1> HIDE DEF w
<1>5. Serves(s, w, x) /\ Quiet(x)
  BY <1>4, StagesServe DEF Serves
<1> HIDE DEF x
<1>6. Serves(s, x, y)
  BY <1>5, StagesServe DEF Serves
<1> HIDE DEF y
<1>7. Ended(s, d) /\ (d.ok => y.ok)
  BY <1>6, ConcludeEnds DEF Serves
<1>8. FinalEvents(c, bad, order, shown, degrade) = d
  BY DEF FinalEvents, d, y, x, w, v, u, t
<1> HIDE DEF d
<1> QED
  BY <1>1, <1>2, <1>3, <1>4, <1>5, <1>6, <1>7, <1>8 DEF Serves

(* However the stream ends.                                                *)
LEMMA FinalsEnd ==
    ASSUME NEW s, NEW c, Good(s, c), NEW d, d \in Finals(c)
    PROVE  Ended(s, d) /\ (d.ok => c.ok)
<1>1. PICK bad, shown, degrade :
        \E order \in SetToSeqs(c.pending) : d = FinalEvents(c, bad, order, shown, degrade)
  BY DEF Finals
<1> QED
  BY <1>1, FinalEventsEnd

(***************************************************************************)
(* The stream.                                                             *)
(***************************************************************************)

(* What the client has, will get and, once something commits, would get.   *)
All == (sent \o outbox) \o initial

StreamTypeOK ==
    /\ {thinking, full, committed, finished, emitted, dropped} \subseteq BOOLEAN
    /\ mode \in {"plain", "retry", "buffered"} /\ errors \in 0..MaxErrors
    /\ used \in 0..MaxRetries /\ frames \in 0..MaxFrames
    /\ ctx.blocks \in Seq(BlockRec)
    /\ ctx.tools \in [Tools -> 0..Len(ctx.blocks)] /\ ctx.pending \subseteq Tools
    /\ {ctx.text, ctx.think} \subseteq 0..Len(ctx.blocks)
    /\ ctx.out = <<>> /\ records \in Seq(Outcomes)

Typed ==
    /\ StreamTypeOK /\ Fits(ctx)
    /\ sent \in Seq(Ev) /\ outbox \in Seq(Ev) /\ initial \in Seq(Ev)

(* Until its end the context is good behind all its events; nothing leaves *)
(* before the commit, and the events held back until then are those a new  *)
(* context starts with, or the whole answer in "buffered".                 *)
Going ==
    ~finished =>
        /\ Good(All, ctx)
        /\ ~committed => sent = <<>> /\ outbox = <<>>
        /\ ~committed /\ mode # "buffered" => initial = Initial(NewContext).out
        /\ committed => initial = <<>> /\ mode # "buffered"

(* One record, written when the guard fires.                               *)
Recorded ==
    /\ emitted <=> finished \/ dropped
    /\ ~emitted => records = <<>>
    /\ emitted => \E o \in Outcomes : records = <<o>>

(* The last batch is a whole log of the protocol and agrees with the record. *)
TrueEnd(all) ==
    /\ Proper(all)
    /\ IF records = <<"success">>
       THEN E("error", 0) \notin Range(all) /\ all # <<>> /\ Last(all) = E("message_stop", 0)
       ELSE dropped \/ E("error", 0) \in Range(all)

Closing == finished => initial = <<>> /\ TrueEnd(sent \o outbox)

StreamInv == Typed /\ Going /\ Recorded /\ Closing

(***************************************************************************)
(* Logs put together.                                                      *)
(***************************************************************************)

LEMMA Associative ==
    ASSUME NEW s \in Seq(Ev), NEW t \in Seq(Ev), NEW u \in Seq(Ev)
    PROVE  s \o (t \o u) = (s \o t) \o u
BY ConcatAssociative

(* An event that moves from one sequence to the one before it.             *)
LEMMA HeadMoves ==
    ASSUME NEW s \in Seq(Ev), NEW t \in Seq(Ev), t # <<>>
    PROVE  /\ Head(t) \in Ev /\ Tail(t) \in Seq(Ev) /\ Append(s, Head(t)) \in Seq(Ev)
           /\ Append(s, Head(t)) \o Tail(t) = s \o t
<1>1. Head(t) \in Ev /\ Tail(t) \in Seq(Ev) /\ Head(t) = t[1] /\ Len(t) \in Nat \ {0}
      /\ Len(Tail(t)) = Len(t) - 1 /\ \A i \in 1..Len(Tail(t)) : Tail(t)[i] = t[i + 1]
  BY HeadTailProperties, EmptySeq
<1> DEFINE h == <<Head(t)>>
           r == h \o Tail(t)
<1>2. h \in Seq(Ev) /\ Len(h) = 1 /\ h[1] = t[1]
  BY <1>1
<1> HIDE DEF h
<1>3. r = t
  <2>1. /\ r \in Seq(Ev) /\ Len(r) = Len(t)
        /\ \A i \in 1..Len(t) : r[i] = IF i <= 1 THEN h[i] ELSE Tail(t)[i - 1]
    <3>1. /\ r \in Seq(Ev) /\ Len(r) = Len(h) + Len(Tail(t))
          /\ \A i \in 1..Len(h) + Len(Tail(t)) : r[i] = IF i <= Len(h) THEN h[i] ELSE Tail(t)[i - Len(h)]
      BY <1>1, <1>2, ConcatProperties
    <3>2. Len(h) + Len(Tail(t)) = Len(t)
      BY <1>1, <1>2
    <3> HIDE DEF r
    <3> QED
      BY <1>2, <3>1, <3>2
  <2> HIDE DEF r
  <2>2. ASSUME NEW i \in 1..Len(t) PROVE r[i] = t[i]
    <3>1. CASE i = 1
      BY <2>1, <3>1, <1>2
    <3>2. CASE i # 1
      <4>1. i - 1 \in 1..Len(Tail(t)) /\ (i - 1) + 1 = i /\ ~(i <= 1)
        BY <1>1, <3>2
      <4> QED
        BY <2>1, <4>1, <1>1
    <3> QED
      BY <3>1, <3>2
  <2> QED
    BY <2>1, <2>2, SeqEqual
<1>4. Append(s, Head(t)) = s \o h /\ Append(s, Head(t)) \in Seq(Ev)
  BY <1>1, AppendIsConcat, AppendProperties DEF h
<1>5. (s \o h) \o Tail(t) = s \o r
  <2>1. h \in Seq(Ev) /\ Tail(t) \in Seq(Ev)
    BY <1>1, <1>2
  <2> QED
    BY <2>1, Associative, Zenon
<1> QED
  BY <1>1, <1>3, <1>4, <1>5

(* In a log of the protocol each event may follow those before it.         *)
LEMMA NextIsMay ==
    ASSUME NEW s \in Seq(Ev), NEW t \in Seq(Ev), t # <<>>, Proper(s \o t)
    PROVE  Head(t) \in Ev /\ Head(t).block <= Len(s) /\ May(Range(s), Head(t))
<1> DEFINE q == s \o t
           n == Len(s) + 1
<1>1. Len(s) \in Nat /\ DOMAIN s = 1..Len(s) /\ Len(t) \in Nat \ {0}
  BY LenProperties, EmptySeq
<1>2. Len(q) = Len(s) + Len(t) /\ \A i \in 1..Len(q) : q[i] = IF i <= Len(s) THEN s[i] ELSE t[i - Len(s)]
  BY ConcatProperties
<1>3. Head(t) \in Ev /\ Head(t) = t[1]
  BY HeadTailProperties
<1> HIDE DEF q
<1>4. n \in 1..Len(q) /\ q[n] = Head(t)
  BY <1>1, <1>2, <1>3
<1>5. Before(q, n) = Range(s)
  <2>1. \A j \in 1..Len(s) : q[j] = s[j]
    BY <1>1, <1>2
  <2> QED
    BY <1>1, <2>1 DEF Before, Range
<1>6. q[n].block < n /\ May(Before(q, n), q[n])
  BY <1>4 DEF Proper, q
<1> QED
  BY <1>1, <1>3, <1>4, <1>5, <1>6 DEF Ev

(* An error takes nothing from what may come.                              *)
LEMMA MayAfterError ==
    ASSUME NEW S, NEW e \in Ev, May(S, e)
    PROVE  May(S \cup {E("error", 0)}, e)
<1> DEFINE T == S \cup {E("error", 0)}
<1>1. \A b : (Opened(T, b) <=> Opened(S, b)) /\ (Closed(T, b) <=> Closed(S, b))
  BY EventParts DEF Opened, Closed, M!Kinds
<1>2. /\ E("message_start", 0) \in T <=> E("message_start", 0) \in S
      /\ E("message_delta", 0) \in T <=> E("message_delta", 0) \in S
      /\ E("message_stop", 0) \in T <=> E("message_stop", 0) \in S
  BY EventParts
<1>4. \A k \in M!Kinds : \A b : E(k, b) \in T <=> E(k, b) \in S
  BY EventParts DEF M!Kinds
<1> HIDE DEF T
<1>3. May(T, e)
  BY <1>1, <1>2, <1>4 DEF May
<1> QED
  BY <1>3 DEF T

(* create_buffered_sse_stream and create_sse_stream put the error of a      *)
(* failed answer before the context's last events.                          *)
LEMMA InsertError ==
    ASSUME NEW p \in Seq(Ev), NEW r \in Seq(Ev), Proper(p \o r), E("message_stop", 0) \notin Range(p)
    PROVE  LET all == (p \o <<E("error", 0)>>) \o r
           IN  all \in Seq(Ev) /\ Proper(all) /\ E("error", 0) \in Range(all)
<1> DEFINE e == E("error", 0)
           l == <<e>>
           q == p \o r
           pe == p \o l
           all == pe \o r
           n == Len(p) + 1
<1>1. e \in Ev /\ e.type = "error" /\ e.block = 0
  BY EventIsEv, EventParts DEF M!MessageEvents
<1> HIDE DEF e
<1>2. l \in Seq(Ev) /\ Len(l) = 1 /\ l[1] = e
  BY <1>1
<1>3. Len(p) \in Nat /\ Len(r) \in Nat /\ DOMAIN p = 1..Len(p)
  BY LenProperties
<1>4. Len(q) = Len(p) + Len(r) /\ \A i \in 1..Len(q) : q[i] = IF i <= Len(p) THEN p[i] ELSE r[i - Len(p)]
  BY ConcatProperties
<1> HIDE DEF l
<1>5. /\ pe \in Seq(Ev) /\ Len(pe) = n
      /\ \A i \in 1..n : pe[i] = IF i <= Len(p) THEN p[i] ELSE l[i - Len(p)]
  <2>1. /\ pe \in Seq(Ev) /\ Len(pe) = Len(p) + Len(l)
        /\ \A i \in 1..Len(p) + Len(l) : pe[i] = IF i <= Len(p) THEN p[i] ELSE l[i - Len(p)]
    BY <1>2, ConcatProperties
  <2>2. Len(p) + Len(l) = n
    BY <1>2
  <2> HIDE DEF pe, n
  <2> QED
    BY <2>1, <2>2
<1> HIDE DEF pe, q
<1>6. /\ all \in Seq(Ev) /\ Len(all) = n + Len(r)
      /\ \A i \in 1..(n + Len(r)) : all[i] = IF i <= n THEN pe[i] ELSE r[i - n]
  <2>1. /\ all \in Seq(Ev) /\ Len(all) = Len(pe) + Len(r)
        /\ \A i \in 1..Len(pe) + Len(r) : all[i] = IF i <= Len(pe) THEN pe[i] ELSE r[i - Len(pe)]
    BY <1>5, ConcatProperties
  <2> HIDE DEF all, n
  <2> QED
    BY <2>1, <1>5
<1> HIDE DEF all
<1>7. \A i \in 1..Len(all) :
        all[i] = IF i <= Len(p) THEN q[i] ELSE IF i = n THEN e ELSE q[i - 1]
  <2> SUFFICES ASSUME NEW i \in 1..Len(all)
               PROVE  all[i] = IF i <= Len(p) THEN q[i] ELSE IF i = n THEN e ELSE q[i - 1]
    OBVIOUS
  <2>1. CASE i <= Len(p)
    <3>1. i \in 1..Len(q) /\ i \in 1..n /\ i <= n
      BY <1>3, <1>4, <2>1
    <3> QED
      BY <2>1, <3>1, <1>4, <1>5, <1>6
  <2>2. CASE i = n
    <3>1. i \in 1..n /\ ~(i <= Len(p)) /\ i - Len(p) = 1 /\ i <= n /\ i \in 1..(n + Len(r))
      BY <1>3, <2>2
    <3>2. all[i] = pe[i] /\ pe[i] = l[i - Len(p)]
      BY <3>1, <1>5, <1>6
    <3> QED
      BY <2>2, <3>1, <3>2, <1>2
  <2>3. CASE i > n
    <3>1. i - 1 \in 1..Len(q) /\ ~(i - 1 <= Len(p)) /\ (i - 1) - Len(p) = i - n /\ ~(i <= n) /\ ~(i <= Len(p))
      BY <1>3, <1>4, <1>6, <2>3
    <3>2. i \in 1..(n + Len(r)) /\ i # n
      BY <1>3, <1>6, <2>3
    <3>3. all[i] = r[i - n] /\ q[i - 1] = r[(i - 1) - Len(p)]
      BY <3>1, <3>2, <1>4, <1>6
    <3> HIDE DEF n
    <3> QED
      BY <3>1, <3>2, <3>3
  <2> QED
    BY <1>3, <2>1, <2>2, <2>3
<1>8. Before(q, n) = Range(p)
  <2>1. \A j \in 1..Len(p) : q[j] = p[j]
    BY <1>3, <1>4
  <2> QED
    BY <1>3, <2>1 DEF Before, Range
<1>9. \A i \in 1..n : Before(all, i) = Before(q, i)
  <2> SUFFICES ASSUME NEW i \in 1..n PROVE Before(all, i) = Before(q, i)
    OBVIOUS
  <2>1. \A j \in 1..(i - 1) : all[j] = q[j]
    BY <1>3, <1>6, <1>7
  <2> QED
    BY <2>1 DEF Before
<1>10. \A i \in (n + 1)..Len(all) : Before(all, i) = Before(q, i - 1) \cup {e}
  <2> SUFFICES ASSUME NEW i \in (n + 1)..Len(all) PROVE Before(all, i) = Before(q, i - 1) \cup {e}
    OBVIOUS
  <2>1. \A x \in Before(all, i) : x \in Before(q, i - 1) \cup {e}
    <3> SUFFICES ASSUME NEW j \in 1..(i - 1) PROVE all[j] \in Before(q, i - 1) \cup {e}
      BY DEF Before
    <3>1. all[j] = IF j <= Len(p) THEN q[j] ELSE IF j = n THEN e ELSE q[j - 1]
      BY <1>3, <1>6, <1>7
    <3>2. (j <= Len(p) => j \in 1..(i - 1 - 1)) /\ (j > n => j - 1 \in 1..(i - 1 - 1))
      BY <1>3
    <3> QED
      BY <1>3, <3>1, <3>2 DEF Before
  <2>2. \A x \in Before(q, i - 1) : x \in Before(all, i)
    <3> SUFFICES ASSUME NEW j \in 1..(i - 1 - 1) PROVE q[j] \in Before(all, i)
      BY DEF Before
    <3>1. CASE j <= Len(p)
      <4>1. j \in 1..(i - 1) /\ all[j] = q[j]
        BY <1>3, <1>6, <1>7, <3>1
      <4> QED
        BY <4>1 DEF Before
    <3>2. CASE j > Len(p)
      <4>1. j + 1 \in 1..(i - 1) /\ j + 1 \in 1..Len(all) /\ ~(j + 1 <= Len(p)) /\ j + 1 # n /\ j + 1 - 1 = j
        BY <1>3, <1>6, <3>2
      <4>2. all[j + 1] = q[j]
        BY <1>7, <4>1
      <4> QED
        BY <4>1, <4>2 DEF Before
    <3> QED
      BY <1>3, <3>1, <3>2
  <2>3. e \in Before(all, i)
    <3>1. n \in 1..(i - 1) /\ n \in 1..Len(all) /\ ~(n <= Len(p))
      BY <1>3, <1>6
    <3>2. all[n] = e
      BY <1>7, <3>1
    <3> QED
      BY <3>1, <3>2 DEF Before
  <2> QED
    BY <2>1, <2>2, <2>3
<1>11. ASSUME NEW i \in 1..Len(all) PROVE all[i].block < i /\ May(Before(all, i), all[i])
  <2>1. CASE i <= Len(p)
    <3>1. i \in 1..Len(q) /\ i \in 1..n
      BY <1>3, <1>4, <2>1
    <3> QED
      BY <2>1, <3>1, <1>7, <1>9 DEF Proper, q
  <2>2. CASE i = n
    <3>1. all[i] = e /\ i \in 1..n
      BY <1>3, <1>7, <2>2
    <3>2. Before(all, i) = Range(p)
      BY <1>8, <1>9, <2>2, <3>1
    <3>3. May(Range(p), e)
      BY <1>1 DEF May, M!MessageEvents, M!Kinds
    <3> QED
      BY <1>1, <1>3, <2>2, <3>1, <3>2, <3>3
  <2>3. CASE i > n
    <3>1. i - 1 \in 1..Len(q) /\ i \in (n + 1)..Len(all) /\ all[i] = q[i - 1]
      <4>1. Len(q) = Len(p) + Len(r) /\ Len(all) = n + Len(r)
        BY <1>4, <1>6
      <4>2. i - 1 \in 1..Len(q) /\ i \in (n + 1)..Len(all) /\ ~(i <= Len(p)) /\ i # n
        BY <1>3, <2>3, <4>1
      <4>3. all[i] = IF i <= Len(p) THEN q[i] ELSE IF i = n THEN e ELSE q[i - 1]
        BY <1>7
      <4> QED
        BY <4>2, <4>3
    <3>2. q[i - 1].block < i - 1 /\ May(Before(q, i - 1), q[i - 1]) /\ q[i - 1] \in Ev
      BY <3>1, ElementOfSeq DEF Proper, q
    <3>3. May(Before(q, i - 1) \cup {e}, q[i - 1])
      BY <3>2, MayAfterError DEF e
    <3>4. Before(all, i) = Before(q, i - 1) \cup {e}
      BY <1>10, <3>1
    <3>5. all[i].block < i
      BY <3>1, <3>2 DEF Ev
    <3> QED
      BY <3>1, <3>3, <3>4, <3>5
  <2> QED
    BY <1>3, <2>1, <2>2, <2>3
<1>12. e \in Range(all)
  <2>1. n \in DOMAIN all /\ n \in 1..Len(all) /\ ~(n <= Len(p))
    BY <1>3, <1>6, LenProperties
  <2>2. all[n] = e
    BY <1>7, <2>1
  <2> QED
    BY <2>1, <2>2 DEF Range
<1>13. Proper(all)
  BY <1>6, <1>11 DEF Proper
<1> QED
  BY <1>6, <1>12, <1>13 DEF all, pe, l, e

LEMMA LastOfConcat ==
    ASSUME NEW s \in Seq(Ev), NEW t \in Seq(Ev), t # <<>>
    PROVE  s \o t # <<>> /\ Last(s \o t) = Last(t)
<1> DEFINE q == s \o t
<1>1. Len(s) \in Nat /\ Len(t) \in Nat \ {0}
  BY LenProperties, EmptySeq
<1>2. /\ q \in Seq(Ev) /\ Len(q) = Len(s) + Len(t)
      /\ \A i \in 1..Len(s) + Len(t) : q[i] = IF i <= Len(s) THEN s[i] ELSE t[i - Len(s)]
  BY ConcatProperties
<1> HIDE DEF q
<1>3. Len(q) \in 1..Len(s) + Len(t) /\ ~(Len(q) <= Len(s)) /\ Len(q) - Len(s) = Len(t) /\ Len(q) # 0
  BY <1>1, <1>2
<1>4. q[Len(q)] = t[Len(t)] /\ q # <<>>
  BY <1>2, <1>3, EmptySeq
<1> QED
  BY <1>4 DEF Last, q

(* A batch that is passed on becomes part of the log.                      *)
LEMMA Rebase ==
    ASSUME NEW s, NEW c, Good(s, c)
    PROVE  LET d == [c EXCEPT !.out = <<>>]
           IN  Good(Log(s, c.out), d) /\ Fits(d) /\ d.out = <<>>
<1> DEFINE d == [c EXCEPT !.out = <<>>]
           q == Log(s, c.out)
<1>1. /\ DOMAIN d = Fields /\ d.out = <<>> /\ d.blocks = c.blocks /\ d.tools = c.tools
      /\ d.pending = c.pending /\ d.text = c.text /\ d.think = c.think /\ d.ok = c.ok
      /\ d.told = c.told /\ d.inThinking = c.inThinking
  BY DEF Good, Base, Fits, Fields
<1> HIDE DEF d
<1>2. s \in Seq(Ev) /\ c.out \in Seq(Ev) /\ Base(s, c)
  BY DEF Good, Base, Fits
<1>3. q \in Seq(Ev) /\ Log(q, <<>>) = q
  BY <1>2, ConcatProperties, ConcatEmptySeq DEF Log
<1>4. Fits(d)
  BY <1>1, <1>2, EmptySeq DEF Base, Fits
<1>5. ToolBlocks(d) /\ ThinkOpen(d) /\ Current(d)
  BY <1>1 DEF Good, Base, ToolBlocks, ThinkOpen, Current, Quiet
<1>6. /\ Proper(q) /\ Len(d.blocks) < Len(q) /\ Running(Range(q)) /\ Told(Range(q), c)
      /\ Kinded(Range(q), c)
  BY <1>1, <1>2 DEF Base, Heard, q
<1> HIDE DEF q
<1>7. Told(Range(q), d) /\ Kinded(Range(q), d)
  BY <1>1, <1>6 DEF Told, Kinded
<1>8. Base(q, d)
  BY <1>1, <1>3, <1>4, <1>5, <1>6, <1>7 DEF Base, Heard
<1> QED
  BY <1>1, <1>4, <1>5, <1>8 DEF Good, d, q

(* generate_initial_events on a new context.                               *)
LEMMA Begins == Good(<<>>, Initial(NewContext))
<1> DEFINE e == E("message_start", 0)
           d == [NewContext EXCEPT !.out = Append(@, e)]
           x == StartBlock(d, "text")
           y == [x EXCEPT !.text = 1]
<1>1. /\ DOMAIN d = Fields /\ d.out = Append(<<>>, e) /\ d.blocks = <<>> /\ d.tools = [t \in Tools |-> 0]
      /\ d.pending = {} /\ d.text = 0 /\ d.think = 0 /\ d.ok = TRUE /\ d.told = FALSE
      /\ d.inThinking = FALSE
  BY DEF NewContext, Fields
<1>2. e \in Ev /\ e.type = "message_start" /\ e.block = 0
  BY EventIsEv, EventParts DEF M!MessageEvents
<1>3. <<>> \in Seq(Ev) /\ Proper(<<>>) /\ Range(<<>>) = {} /\ Len(<<>>) = 0
  BY EmptySeq DEF Proper, Range
<1>4. May({}, e)
  BY <1>2 DEF May, M!MessageEvents, M!Kinds
<1>5. /\ Append(<<>>, e) \in Seq(Ev) /\ Proper(Append(<<>>, e)) /\ Range(Append(<<>>, e)) = {e}
      /\ Len(Append(<<>>, e)) = 1
  <2> DEFINE z == <<>>
  <2>1. z \in Seq(Ev) /\ Proper(z) /\ Range(z) = {} /\ Len(z) = 0
    BY <1>3
  <2> HIDE DEF e, z
  <2>2. e.block <= Len(z) /\ May(Range(z), e)
    BY <1>2, <1>4, <2>1
  <2>3. /\ Proper(Append(z, e)) /\ Range(Append(z, e)) = Range(z) \cup {e}
        /\ Len(Append(z, e)) = Len(z) + 1
    BY <1>2, <2>1, <2>2, AppendProper
  <2>4. Append(z, e) \in Seq(Ev)
    BY <1>2, <2>1, AppendProperties
  <2> QED
    BY <2>1, <2>3, <2>4 DEF z
<1>6. Log(<<>>, Append(<<>>, e)) = Append(<<>>, e)
  BY <1>5, ConcatEmptySeq DEF Log
<1> HIDE DEF d
<1>7. Fits(d) /\ ToolBlocks(d) /\ ThinkOpen(d) /\ Current(d) /\ Quiet(d)
  <2>1. d.blocks \in Seq(BlockRec) /\ Len(d.blocks) = 0
    BY <1>1, EmptySeq
  <2>2. d.tools \in [Tools -> 0..0] /\ \A t \in Tools : d.tools[t] = 0
    BY <1>1
  <2> QED
    BY <1>1, <1>5, <2>1, <2>2 DEF Fits, ToolBlocks, ThinkOpen, Current, Quiet
<1>8. Running({e})
  BY EventParts DEF Running
<1>9. Told({e}, d) /\ Kinded({e}, d)
  <2>1. \A b \in Nat : ~Closed({e}, b) /\ \A k \in M!Kinds : E(k, b) \notin {e}
    BY EventParts DEF Closed, M!Kinds
  <2>2. E("error", 0) \notin {e}
    BY EventParts
  <2>3. DOMAIN d.blocks = {}
    BY <1>1
  <2> QED
    BY <1>1, <2>1, <2>2, <2>3 DEF Told, Kinded, Opened
<1>10. Good(<<>>, d)
  <2>1. Len(d.blocks) < Len(Log(<<>>, d.out)) /\ Heard(<<>>, d.out) = {e}
    BY <1>1, <1>5, <1>6, EmptySeq DEF Heard
  <2> HIDE DEF e
  <2> QED
    BY <1>1, <1>3, <1>5, <1>6, <1>7, <1>8, <1>9, <2>1 DEF Good, Base
<1>11. /\ Base(<<>>, x) /\ Kept(d, x) /\ DOMAIN x.blocks = 1..1 /\ x.blocks[1].type = "text"
       /\ Len(x.blocks) = 1
  <2>1. Len(d.blocks) + 1 = 1 /\ DOMAIN d.blocks = {}
    BY <1>1, EmptySeq
  <2>2. Base(<<>>, d) /\ "text" \in AllTypes /\ Clear(d, "text")
    BY <1>10, <2>1 DEF Good, AllTypes, Clear
  <2>3. /\ Base(<<>>, x) /\ Kept(d, x) /\ Len(x.blocks) = Len(d.blocks) + 1
        /\ x.blocks[Len(d.blocks) + 1].type = "text"
    BY <2>2, StartBlockKeeps
  <2>4. Base(<<>>, x) /\ Kept(d, x) /\ Len(x.blocks) = 1 /\ x.blocks[1].type = "text"
    BY <2>1, <2>3
  <2>5. DOMAIN x.blocks = 1..1
    BY <2>4, LenProperties DEF Base, Fits
  <2> QED
    BY <2>4, <2>5
<1> HIDE DEF x
<1>12. Good(<<>>, y)
  <2>1. Adjusts(x, y) /\ y.blocks = x.blocks /\ y.text = 1 /\ y.inThinking = x.inThinking
    BY <1>11 DEF Adjusts, Base, Fits, Fields, ToolBlocks
  <2> HIDE DEF y
  <2>2. Base(<<>>, y)
    BY <1>11, <2>1, AdjustKeeps
  <2>3. Quiet(y)
    BY <1>7, <1>11, <2>1 DEF Quiet, Kept, Fields
  <2>4. Current(y) /\ ThinkOpen(y)
    BY <1>11, <2>1, <2>3 DEF Current, ThinkOpen
  <2> QED
    BY <2>2, <2>4 DEF Good
<1>13. Initial(NewContext) \in {d, y}
  BY DEF Initial, y, x, d
<1> QED
  BY <1>10, <1>12, <1>13

(* A new context is good behind the events it would have begun with.       *)
LEMMA FreshGood ==
    LET all == Initial(NewContext).out
    IN  all \in Seq(Ev) /\ Good(all, Fresh) /\ Fits(Fresh) /\ Fresh.out = <<>>
<1> DEFINE c == Initial(NewContext)
           d == [c EXCEPT !.out = <<>>]
<1>1. Good(<<>>, c)
  BY Begins
<1>2. d = Fresh
  BY DEF Fresh
<1> HIDE DEF c
<1>3. Good(Log(<<>>, c.out), d) /\ Fits(d) /\ d.out = <<>>
  BY <1>1, Rebase
<1>4. c.out \in Seq(Ev) /\ Log(<<>>, c.out) = c.out
  BY <1>1, ConcatEmptySeq DEF Good, Base, Fits, Log
<1> QED
  BY <1>2, <1>3, <1>4 DEF c

(***************************************************************************)
(* The invariant, action by action.                                        *)
(***************************************************************************)

LEMMA StreamInvInit == Init => StreamInv
<1> SUFFICES ASSUME Init PROVE StreamInv
  OBVIOUS
<1> DEFINE start == Initial(NewContext).out
<1>1. start \in Seq(Ev) /\ Good(start, Fresh) /\ Fits(Fresh) /\ Fresh.out = <<>>
  BY FreshGood
<1>2. initial = start /\ ctx = Fresh
  BY DEF Init
<1> HIDE DEF start
<1>3. <<>> \in Seq(Ev) /\ All = start
  BY <1>1, <1>2, ConcatEmptySeq, EmptySeq DEF Init, All
<1>4. Typed
  <2>1. records \in Seq(Outcomes)
    BY EmptySeq DEF Init
  <2>2. 0 \in 0..MaxErrors /\ 0 \in 0..MaxRetries /\ 0 \in 0..MaxFrames
    BY BoundsAssumption
  <2> QED
    BY <1>1, <1>2, <1>3, <2>1, <2>2 DEF Init, Typed, StreamTypeOK, Fits, BlockRec
<1>5. Going
  BY <1>1, <1>2, <1>3 DEF Init, Going, start
<1>6. Recorded /\ Closing
  BY DEF Init, Recorded, Closing
<1> QED
  BY <1>4, <1>5, <1>6 DEF StreamInv

(* The types, of a step that keeps the context in shape.                   *)
LEMMA TypedStep ==
    ASSUME Typed, UNCHANGED Config, {full', committed', finished', emitted', dropped'} \subseteq BOOLEAN,
           errors' \in 0..MaxErrors, used' \in 0..MaxRetries, frames' \in 0..MaxFrames,
           Fits(ctx'), ctx'.out = <<>>, records' \in Seq(Outcomes),
           sent' \in Seq(Ev), outbox' \in Seq(Ev), initial' \in Seq(Ev)
    PROVE  Typed'
<1>1. thinking' \in BOOLEAN /\ mode' \in {"plain", "retry", "buffered"}
  BY DEF Typed, StreamTypeOK, Config
<1>2. Fits(ctx)'
  OBVIOUS
<1> QED
  BY <1>1, <1>2 DEF Typed, StreamTypeOK, Fits, BlockRec

(* A handler's batch goes behind all the events before it.                 *)
LEMMA CommitAppends ==
    ASSUME Typed, Going, ~finished, outbox = <<>>, NEW c, c.out \in Seq(Ev),
           Commit(c), UNCHANGED sent
    PROVE  /\ outbox' \in Seq(Ev) /\ initial' \in Seq(Ev) /\ committed' \in BOOLEAN
           /\ All' = Log(All, c.out)
           /\ ~committed' => UNCHANGED <<committed, outbox>>
           /\ ~committed' /\ mode # "buffered" => UNCHANGED initial
           /\ committed' => initial' = <<>> /\ mode # "buffered"
<1>1. /\ sent \in Seq(Ev) /\ initial \in Seq(Ev) /\ <<>> \in Seq(Ev) /\ sent \o <<>> = sent
      /\ committed \in BOOLEAN
  BY ConcatEmptySeq, EmptySeq DEF Typed, StreamTypeOK
<1>2. All = sent \o initial /\ All \in Seq(Ev)
  BY <1>1, ConcatProperties DEF All
<1>3. CASE mode = "buffered"
  <2>1. initial' = initial \o c.out /\ UNCHANGED <<committed, outbox>> /\ ~committed
    BY <1>3 DEF Commit, Going
  <2>2. All' = sent \o (initial \o c.out)
    BY <1>1, <2>1 DEF All
  <2>3. sent \o (initial \o c.out) = (sent \o initial) \o c.out
    <3>1. sent \in Seq(Ev) /\ initial \in Seq(Ev)
      BY <1>1
    <3> QED
      BY <3>1, Associative, Zenon
  <2>4. initial' \in Seq(Ev)
    BY <1>1, <2>1, ConcatProperties
  <2> QED
    BY <1>1, <1>2, <1>3, <2>1, <2>2, <2>3, <2>4 DEF Log
<1>4. CASE mode # "buffered" /\ committed
  <2>1. outbox' = c.out /\ UNCHANGED <<committed, initial>> /\ initial = <<>>
    BY <1>4 DEF Commit, Going
  <2>2. sent \o c.out \in Seq(Ev)
    BY <1>1, ConcatProperties
  <2>3. All' = sent \o c.out
    BY <2>1, <2>2, ConcatEmptySeq DEF All
  <2>4. All = sent
    BY <1>1, <1>2, <2>1
  <2> QED
    BY <1>1, <1>4, <2>1, <2>3, <2>4 DEF Log
<1>5. CASE mode # "buffered" /\ ~committed /\ c.out = <<>>
  <2>1. outbox' = outbox /\ UNCHANGED <<committed, initial>>
    BY <1>5 DEF Commit
  <2>2. All' = All
    BY <2>1 DEF All
  <2>3. Log(All, c.out) = All
    BY <1>2, <1>5, ConcatEmptySeq DEF Log
  <2> QED
    BY <1>1, <1>5, <2>1, <2>2, <2>3
<1>6. CASE mode # "buffered" /\ ~committed /\ c.out # <<>>
  <2>1. committed' = TRUE /\ outbox' = initial \o c.out /\ initial' = <<>>
    BY <1>6 DEF Commit
  <2>2. initial \o c.out \in Seq(Ev) /\ sent \o (initial \o c.out) \in Seq(Ev)
    BY <1>1, ConcatProperties
  <2>3. All' = sent \o (initial \o c.out)
    BY <2>1, <2>2, ConcatEmptySeq DEF All
  <2>4. sent \o (initial \o c.out) = (sent \o initial) \o c.out
    <3>1. sent \in Seq(Ev) /\ initial \in Seq(Ev)
      BY <1>1
    <3> QED
      BY <3>1, Associative, Zenon
  <2> QED
    BY <1>1, <1>2, <1>6, <2>1, <2>2, <2>3, <2>4 DEF Log
<1> QED
  BY <1>3, <1>4, <1>5, <1>6

(* A batch of a running stream.                                            *)
LEMMA ContinueKeeps ==
    ASSUME StreamInv, Selecting, frames < MaxFrames, NEW c, Good(All, c), Continue(c),
           full' \in BOOLEAN, errors' \in 0..MaxErrors
    PROVE  StreamInv'
<1>1. /\ Typed /\ Going /\ Recorded /\ ~finished /\ ~dropped /\ outbox = <<>> /\ Commit(c)
      /\ ctx' = [c EXCEPT !.out = <<>>] /\ frames' = frames + 1
      /\ UNCHANGED <<Config, used, finished, emitted, sent, records, dropped>>
  BY DEF StreamInv, Selecting, Polled, Continue
<1>2. c.out \in Seq(Ev)
  BY DEF Good, Base, Fits
<1>3. /\ outbox' \in Seq(Ev) /\ initial' \in Seq(Ev) /\ committed' \in BOOLEAN
      /\ All' = Log(All, c.out)
      /\ ~committed' => UNCHANGED <<committed, outbox>>
      /\ ~committed' /\ mode # "buffered" => UNCHANGED initial
      /\ committed' => initial' = <<>> /\ mode # "buffered"
  BY <1>1, <1>2, CommitAppends
<1>4. Good(Log(All, c.out), ctx') /\ Fits(ctx') /\ ctx'.out = <<>>
  BY <1>1, Rebase
<1>5. Typed'
  <2>1. used' \in 0..MaxRetries /\ sent' \in Seq(Ev) /\ records' \in Seq(Outcomes)
    BY <1>1 DEF Typed, StreamTypeOK
  <2>3. frames' \in 0..MaxFrames
    <3>1. frames \in 0..MaxFrames
      BY <1>1 DEF Typed, StreamTypeOK
    <3> QED
      BY <1>1, <3>1, BoundsAssumption
  <2>2. {full', committed', finished', emitted', dropped'} \subseteq BOOLEAN
    BY <1>1, <1>3 DEF Typed, StreamTypeOK
  <2> QED
    BY <1>1, <1>3, <1>4, <2>1, <2>2, <2>3, TypedStep
<1>6. Going'
  <2>1. Good(All, ctx)'
    <3>1. thinking' = thinking
      BY <1>1 DEF Config
    <3>2. Good(All', ctx')
      BY <1>3, <1>4
    <3> QED
      BY <3>1, <3>2 DEF Good, ThinkOpen, Current, Quiet
  <2>2. mode' = mode
    BY <1>1 DEF Config
  <2>3. ~committed' => sent' = <<>> /\ outbox' = <<>>
    BY <1>1, <1>3 DEF Going
  <2>4. ~committed' /\ mode' # "buffered" => initial' = Initial(NewContext).out'
    <3>1. Initial(NewContext).out' = Initial(NewContext).out
      BY <1>1 DEF Config, Initial, NewContext, StartBlock, StopOpen, StopBlock, E, M!Event
    <3> QED
      BY <1>1, <1>3, <2>2, <3>1 DEF Going
  <2>5. committed' => initial' = <<>> /\ mode' # "buffered"
    BY <1>3, <2>2
  <2> QED
    BY <2>1, <2>3, <2>4, <2>5 DEF Going
<1>7. Recorded' /\ Closing'
  BY <1>1 DEF Recorded, Closing
<1> QED
  BY <1>5, <1>6, <1>7 DEF StreamInv

(* All there will be for the client, and the outcome the record gets.      *)
Tells(c, empty, all) ==
    /\ Proper(all)
    /\ IF OutcomeOf(c, empty) = "success"
       THEN E("error", 0) \notin Range(all) /\ all # <<>> /\ Last(all) = E("message_stop", 0)
       ELSE E("error", 0) \in Range(all)

(* The last batch.                                                         *)
LEMMA FinishKeeps ==
    ASSUME StreamInv, Selecting, NEW c, Fits(c), NEW batch \in Seq(Ev), NEW empty,
           Finish(c, batch, empty), committed' \in BOOLEAN, Tells(c, empty, sent \o batch)
    PROVE  StreamInv'
<1> DEFINE o == OutcomeOf(c, empty)
<1>1. /\ Typed /\ Recorded /\ ~finished /\ ~dropped
      /\ ctx' = [c EXCEPT !.out = <<>>] /\ outbox' = batch /\ initial' = <<>>
      /\ finished' = TRUE /\ emitted' = TRUE
      /\ records' = IF emitted THEN records ELSE Append(records, o)
      /\ UNCHANGED <<Config, full, used, errors, sent, dropped, frames>>
  BY DEF StreamInv, Selecting, Polled, Finish
<1>2. o \in Outcomes
  BY DEF OutcomeOf, Outcomes
<1> HIDE DEF o
<1>3. ~emitted /\ records = <<>> /\ records' = <<o>>
  <2>1. ~emitted /\ records = <<>>
    BY <1>1 DEF Recorded
  <2>2. Append(<<>>, o) = <<o>>
    OBVIOUS
  <2> QED
    BY <1>1, <2>1, <2>2
<1>4. Typed'
  <2>1. Fits(ctx') /\ ctx'.out = <<>>
    <3>1. /\ DOMAIN ctx' = Fields /\ ctx'.out = <<>> /\ ctx'.blocks = c.blocks /\ ctx'.tools = c.tools
          /\ ctx'.pending = c.pending /\ ctx'.text = c.text /\ ctx'.think = c.think
      BY <1>1 DEF Fits, Fields
    <3> QED
      BY <3>1, EmptySeq DEF Fits
  <2>2. <<>> \in Seq(Ev) /\ <<o>> \in Seq(Outcomes)
    BY <1>2, EmptySeq
  <2>3. {full', committed', finished', emitted', dropped'} \subseteq BOOLEAN
    BY <1>1 DEF Typed, StreamTypeOK
  <2>4. errors' \in 0..MaxErrors /\ used' \in 0..MaxRetries /\ frames' \in 0..MaxFrames /\ sent' \in Seq(Ev)
    BY <1>1 DEF Typed, StreamTypeOK
  <2> QED
    BY <1>1, <1>3, <2>1, <2>2, <2>3, <2>4, TypedStep
<1>5. Going'
  BY <1>1 DEF Going
<1>6. Recorded'
  BY <1>1, <1>2, <1>3 DEF Recorded
<1>7. Closing'
  <2> DEFINE all == sent \o batch
  <2>1. (sent \o outbox)' = all
    BY <1>1
  <2>2. records' = <<"success">> <=> o = "success"
    BY <1>3
  <2> HIDE DEF all
  <2>3. /\ Proper(all)
        /\ IF records' = <<"success">>
           THEN E("error", 0) \notin Range(all) /\ all # <<>> /\ Last(all) = E("message_stop", 0)
           ELSE E("error", 0) \in Range(all)
    BY <2>2 DEF Tells, o, all
  <2> HIDE DEF o
  <2> QED
    BY <1>1, <2>1, <2>3 DEF Closing, TrueEnd
<1> QED
  BY <1>4, <1>5, <1>6, <1>7 DEF StreamInv

(* At the end nothing is on its way: what the client has and what is held  *)
(* back are all the events so far, and the message has not ended.          *)
LEMMA AtTheEnd ==
    ASSUME StreamInv, Selecting
    PROVE  /\ sent \in Seq(Ev) /\ initial \in Seq(Ev) /\ All \in Seq(Ev) /\ All = sent \o initial
           /\ mode = "buffered" => sent = <<>> /\ All = initial
           /\ Good(All, ctx) /\ E("message_stop", 0) \notin Range(All) /\ Proper(All)
           /\ ctx.out = <<>>
<1>1. Typed /\ Going /\ ~finished /\ outbox = <<>>
  BY DEF StreamInv, Selecting, Polled
<1>2. sent \in Seq(Ev) /\ initial \in Seq(Ev) /\ sent \o <<>> = sent /\ <<>> \o initial = initial
  BY <1>1, ConcatEmptySeq DEF Typed
<1>3. All = sent \o initial /\ All \in Seq(Ev)
  BY <1>1, <1>2, ConcatProperties DEF All
<1>4. mode = "buffered" => sent = <<>> /\ All = initial
  BY <1>1, <1>2, <1>3 DEF Going
<1>5. Good(All, ctx) /\ ctx.out = <<>>
  BY <1>1 DEF Going, Typed, StreamTypeOK
<1>6. Log(All, ctx.out) = All
  BY <1>3, <1>5, ConcatEmptySeq DEF Log
<1>7. Proper(All) /\ Running(Range(All))
  BY <1>5, <1>6 DEF Good, Base, Heard
<1> QED
  BY <1>2, <1>3, <1>4, <1>5, <1>7 DEF Running

(* An error at the end, before the events r of the context.                *)
LEMMA ErrorAtTheEnd ==
    ASSUME StreamInv, Selecting, NEW r \in Seq(Ev), Proper(Log(All, r))
    PROVE  LET e == <<E("error", 0)>>
               batch == IF mode = "buffered" THEN e \o (initial \o r) ELSE (initial \o e) \o r
           IN  /\ batch \in Seq(Ev) /\ Proper(sent \o batch)
               /\ E("error", 0) \in Range(sent \o batch)
<1> DEFINE e == <<E("error", 0)>>
<1>1. /\ sent \in Seq(Ev) /\ initial \in Seq(Ev) /\ All \in Seq(Ev) /\ All = sent \o initial
      /\ mode = "buffered" => sent = <<>> /\ All = initial
      /\ E("message_stop", 0) \notin Range(All)
  BY AtTheEnd
<1>2. e \in Seq(Ev)
  <2>1. E("error", 0) \in Ev
    BY EventIsEv DEF M!MessageEvents
  <2> QED
    BY <2>1
<1>3. CASE mode = "buffered"
  <2> DEFINE t == initial \o r
             b == e \o t
  <2>1. t \in Seq(Ev) /\ Proper(t) /\ sent = <<>>
    BY <1>1, <1>3, ConcatProperties DEF Log
  <2>2. <<>> \in Seq(Ev) /\ Range(<<>>) = {} /\ <<>> \o t = t /\ <<>> \o e = e
    BY <1>2, <2>1, EmptySeq, ConcatEmptySeq DEF Range
  <2> HIDE DEF t
  <2>3. LET all == (<<>> \o <<E("error", 0)>>) \o t
        IN  all \in Seq(Ev) /\ Proper(all) /\ E("error", 0) \in Range(all)
    BY <2>1, <2>2, InsertError
  <2>4. b \in Seq(Ev) /\ Proper(b) /\ E("error", 0) \in Range(b)
    BY <2>2, <2>3
  <2>5. sent \o b = b
    BY <2>1, <2>4, ConcatEmptySeq
  <2> HIDE DEF b
  <2>6. b = IF mode = "buffered" THEN e \o (initial \o r) ELSE (initial \o e) \o r
    BY <1>3 DEF b, t
  <2> HIDE DEF e
  <2>7. b \in Seq(Ev) /\ Proper(sent \o b) /\ E("error", 0) \in Range(sent \o b)
    BY <2>4, <2>5
  <2> QED
    BY <2>6, <2>7 DEF e
<1>4. CASE mode # "buffered"
  <2> DEFINE i == initial \o e
             b == i \o r
  <2>1. LET all == (All \o <<E("error", 0)>>) \o r
        IN  all \in Seq(Ev) /\ Proper(all) /\ E("error", 0) \in Range(all)
    BY <1>1, InsertError DEF Log
  <2>2. i \in Seq(Ev) /\ b \in Seq(Ev)
    BY <1>1, <1>2, ConcatProperties
  <2>3. sent \o i = All \o e
    BY <1>1, <1>2, Associative
  <2> HIDE DEF i
  <2>4. sent \o b = (sent \o i) \o r
    <3>1. sent \in Seq(Ev) /\ i \in Seq(Ev)
      BY <1>1, <2>2
    <3> QED
      BY <3>1, Associative, Zenon
  <2>5. Proper(sent \o b) /\ E("error", 0) \in Range(sent \o b)
    BY <2>1, <2>3, <2>4
  <2>6. b = IF mode = "buffered" THEN e \o (initial \o r) ELSE (initial \o e) \o r
    BY <1>4 DEF i
  <2> HIDE DEF b, e
  <2> QED
    BY <2>2, <2>5, <2>6 DEF e
<1> QED
  BY <1>3, <1>4

(* The last batch of a context at its end.                                 *)
LEMMA FinishToldKeeps ==
    ASSUME StreamInv, Selecting, NEW c, Ended(All, c), NEW tell, tell <=> ~c.ok /\ ~c.told,
           NEW empty, c.ok => ~empty, FinishTold(c, tell, empty), committed' \in BOOLEAN
    PROVE  StreamInv'
<1> DEFINE d == [c EXCEPT !.told = @ \/ tell]
           batch == LastBatch(tell, c)
           e == <<E("error", 0)>>
<1>1. /\ sent \in Seq(Ev) /\ initial \in Seq(Ev) /\ All \in Seq(Ev) /\ All = sent \o initial
      /\ mode = "buffered" => sent = <<>> /\ All = initial
  BY AtTheEnd
<1>2. /\ Fits(c) /\ c.out \in Seq(Ev) /\ Proper(Log(All, c.out))
      /\ E("error", 0) \in Heard(All, c.out) <=> c.told
      /\ c.ok => c.out # <<>> /\ Last(c.out) = E("message_stop", 0)
      /\ c.told => ~c.ok
  BY DEF Ended, Fits
<1>3. Fits(d) /\ OutcomeOf(d, empty) = IF c.ok THEN "success" ELSE "failed"
  <2>1. /\ DOMAIN d = Fields /\ d.blocks = c.blocks /\ d.tools = c.tools /\ d.pending = c.pending
        /\ d.text = c.text /\ d.think = c.think /\ d.out = c.out /\ d.ok = c.ok
    BY <1>2 DEF Fits, Fields
  <2> HIDE DEF d
  <2> QED
    BY <1>2, <2>1 DEF Fits, OutcomeOf
<1>4. batch \in Seq(Ev) /\ Tells(d, empty, sent \o batch)
  <2>1. CASE tell
    <3>1. batch = IF mode = "buffered" THEN (e \o initial) \o c.out ELSE (initial \o e) \o c.out
      BY <2>1 DEF LastBatch
    <3>2. e \in Seq(Ev)
      <4>1. E("error", 0) \in Ev
        BY EventIsEv DEF M!MessageEvents
      <4> QED
        BY <4>1
    <3>3. (e \o initial) \o c.out = e \o (initial \o c.out)
      BY <1>1, <1>2, <3>2, Associative
    <3>4. LET b == IF mode = "buffered" THEN e \o (initial \o c.out) ELSE (initial \o e) \o c.out
          IN  b \in Seq(Ev) /\ Proper(sent \o b) /\ E("error", 0) \in Range(sent \o b)
      BY <1>2, ErrorAtTheEnd
    <3> HIDE DEF batch, e, d
    <3>5. batch \in Seq(Ev) /\ Proper(sent \o batch) /\ E("error", 0) \in Range(sent \o batch)
      BY <3>1, <3>3, <3>4
    <3> QED
      BY <1>3, <2>1, <3>5 DEF Tells
  <2>2. CASE ~tell
    <3>1. <<>> \in Seq(Ev) /\ <<>> \o initial = initial /\ initial \o <<>> = initial
      BY <1>1, EmptySeq, ConcatEmptySeq
    <3>2. batch = initial \o c.out
      BY <2>2, <3>1 DEF LastBatch
    <3> HIDE DEF batch, d
    <3>3. batch \in Seq(Ev) /\ sent \o batch = Log(All, c.out)
      <4>1. initial \o c.out \in Seq(Ev)
        BY <1>1, <1>2, ConcatProperties
      <4>2. sent \o (initial \o c.out) = (sent \o initial) \o c.out
        <5>1. sent \in Seq(Ev) /\ initial \in Seq(Ev) /\ c.out \in Seq(Ev)
          BY <1>1, <1>2
        <5> QED
          BY <5>1, Associative, Zenon
      <4> QED
        BY <1>1, <3>2, <4>1, <4>2 DEF Log
    <3>4. c.ok => Log(All, c.out) # <<>> /\ Last(Log(All, c.out)) = E("message_stop", 0)
      BY <1>1, <1>2, LastOfConcat DEF Log
    <3>5. IF c.ok THEN E("error", 0) \notin Range(sent \o batch) ELSE E("error", 0) \in Range(sent \o batch)
      BY <1>2, <2>2, <3>3 DEF Heard
    <3> QED
      BY <1>2, <1>3, <3>3, <3>4, <3>5 DEF Tells
  <2> QED
    BY <2>1, <2>2
<1>5. Finish(d, batch, empty)
  BY DEF FinishTold
<1> HIDE DEF d, batch
<1> QED
  BY <1>3, <1>4, <1>5, FinishKeeps

(* The upstream failed.                                                    *)
LEMMA FinishFailedKeeps ==
    ASSUME StreamInv, Selecting, FinishFailed, committed' \in BOOLEAN
    PROVE  StreamInv'
<1>1. PICK c \in Finals(Fail(ctx)) : FinishTold(c, ~c.told, FALSE)
  BY DEF FinishFailed
<1>2. Good(All, Fail(ctx)) /\ ~Fail(ctx).ok
  BY AtTheEnd, FailServes DEF Serves
<1>3. Ended(All, c) /\ ~c.ok
  BY <1>1, <1>2, FinalsEnd
<1>4. ~c.told <=> ~c.ok /\ ~c.told
  BY <1>3
<1> QED
  BY <1>1, <1>3, <1>4, FinishToldKeeps

(* The upstream ended.                                                     *)
LEMMA UpstreamEndsKeeps ==
    ASSUME StreamInv, UpstreamEnds
    PROVE  StreamInv'
<1>1. Selecting /\ committed' = TRUE
  BY DEF UpstreamEnds
<1>2. PICK c \in Finals(ctx), empty \in BOOLEAN :
        IF c.ok /\ ~c.told /\ empty
        THEN Finish([c EXCEPT !.told = TRUE],
                    (IF mode = "buffered" THEN <<>> ELSE initial) \o <<E("error", 0)>>, TRUE)
        ELSE FinishTold(c, ~c.ok /\ ~c.told, empty)
  BY DEF UpstreamEnds, MayBeEmpty
<1>3. Ended(All, c)
  BY <1>1, AtTheEnd, FinalsEnd
<1>4. CASE c.ok /\ ~c.told /\ empty
  <2> DEFINE d == [c EXCEPT !.told = TRUE]
             e == <<E("error", 0)>>
             batch == (IF mode = "buffered" THEN <<>> ELSE initial) \o e
  <2>1. Finish(d, batch, TRUE)
    BY <1>2, <1>4
  <2>2. Fits(d) /\ OutcomeOf(d, TRUE) # "success"
    <3>1. /\ DOMAIN d = Fields /\ d.blocks = c.blocks /\ d.tools = c.tools /\ d.pending = c.pending
          /\ d.text = c.text /\ d.think = c.think /\ d.out = c.out /\ d.ok = c.ok
      BY <1>3 DEF Ended, Fits, Fields
    <3> HIDE DEF d
    <3> QED
      BY <1>3, <3>1 DEF Ended, Fits, OutcomeOf
  <2>3. /\ sent \in Seq(Ev) /\ initial \in Seq(Ev) /\ All \in Seq(Ev) /\ Proper(All)
        /\ mode = "buffered" => All = initial /\ sent = <<>>
    BY <1>1, AtTheEnd
  <2>4. <<>> \in Seq(Ev) /\ Proper(Log(All, <<>>))
    BY <2>3, EmptySeq, ConcatEmptySeq DEF Log
  <2>5. e \in Seq(Ev)
    <3>1. E("error", 0) \in Ev
      BY EventIsEv DEF M!MessageEvents
    <3> QED
      BY <3>1
  <2>6. batch \in Seq(Ev) /\ Tells(d, TRUE, sent \o batch)
    <3>1. CASE mode = "buffered"
      <4>1. batch = e /\ sent = <<>> /\ sent \o batch = e
        BY <2>3, <2>5, <3>1, ConcatEmptySeq
      <4>2. Proper(e)
        <5>1. Len(<<>>) = 0 /\ Range(<<>>) = {} /\ Proper(<<>>)
          BY <2>4 DEF Proper, Range
        <5>2. E("error", 0) \in Ev /\ E("error", 0).type = "error" /\ E("error", 0).block = 0
          BY EventIsEv, EventParts DEF M!MessageEvents
        <5>3. May({}, E("error", 0))
          BY <5>2 DEF May, M!MessageEvents, M!Kinds
        <5> DEFINE z == <<>>
                   f == E("error", 0)
        <5>4. Append(z, f) = e
          OBVIOUS
        <5>5. Proper(z) /\ Range(z) = {} /\ Len(z) = 0 /\ f \in Ev /\ f.block = 0 /\ May({}, f)
          BY <5>1, <5>2, <5>3
        <5> HIDE DEF z, f, e
        <5>6. f.block <= Len(z) /\ May(Range(z), f)
          BY <5>5
        <5>7. Proper(Append(z, f))
          BY <5>5, <5>6, AppendProper
        <5> QED
          BY <5>4, <5>7
      <4>3. E("error", 0) \in Range(e)
        <5>1. 1 \in DOMAIN e /\ e[1] = E("error", 0)
          OBVIOUS
        <5> QED
          BY <5>1 DEF Range
      <4> HIDE DEF batch, e, d
      <4> QED
        BY <2>2, <2>5, <4>1, <4>2, <4>3 DEF Tells
    <3>2. CASE mode # "buffered"
      <4>1. LET b == IF mode = "buffered" THEN e \o (initial \o <<>>) ELSE (initial \o e) \o <<>>
            IN  b \in Seq(Ev) /\ Proper(sent \o b) /\ E("error", 0) \in Range(sent \o b)
        BY <1>1, <2>4, ErrorAtTheEnd
      <4>2. initial \o e \in Seq(Ev)
        BY <2>3, <2>5, ConcatProperties
      <4>3. (initial \o e) \o <<>> = initial \o e
        BY <4>2, ConcatEmptySeq
      <4>4. batch = initial \o e
        BY <3>2
      <4> HIDE DEF batch, e, d
      <4>5. batch \in Seq(Ev) /\ Proper(sent \o batch) /\ E("error", 0) \in Range(sent \o batch)
        BY <3>2, <4>1, <4>3, <4>4
      <4> QED
        BY <2>2, <4>5 DEF Tells
    <3> QED
      BY <3>1, <3>2
  <2>7. committed' \in BOOLEAN
    BY <1>1
  <2> HIDE DEF d, batch
  <2> QED
    BY <1>1, <2>1, <2>2, <2>6, <2>7, FinishKeeps
<1>5. CASE ~(c.ok /\ ~c.told /\ empty)
  <2> DEFINE tell == ~c.ok /\ ~c.told
  <2>1. FinishTold(c, tell, empty)
    BY <1>2, <1>5
  <2>2. c.ok => ~empty
    BY <1>3, <1>5 DEF Ended
  <2>3. committed' \in BOOLEAN /\ (tell <=> ~c.ok /\ ~c.told)
    BY <1>1
  <2> HIDE DEF tell
  <2> QED
    BY <1>1, <1>3, <2>1, <2>2, <2>3, FinishToldKeeps
<1> QED
  BY <1>4, <1>5

(* A frame whose handler served the context, also when the buffer overflows. *)
LEMMA FrameKeeps ==
    ASSUME StreamInv, NEW c, Serves(All, ctx, c), Frame(c)
    PROVE  StreamInv'
<1>1. Selecting /\ frames < MaxFrames /\ errors' = 0
  BY DEF Frame, MayReceive
<1>2. PICK over \in BOOLEAN : full' = over /\ Continue(IF over THEN Fail(c) ELSE c)
  BY DEF Frame
<1> DEFINE d == IF over THEN Fail(c) ELSE c
<1>3. Good(All, d)
  BY FailServes DEF Serves
<1>4. full' \in BOOLEAN /\ errors' \in 0..MaxErrors /\ Continue(d)
  BY <1>1, <1>2, BoundsAssumption
<1> HIDE DEF d
<1> QED
  BY <1>1, <1>3, <1>4, ContinueKeeps

LEMMA FramesKeep ==
    ASSUME StreamInv,
           TextFrame \/ ReasoningFrame \/ ToolFrame \/ BadToolFrame \/ ErrorFrame \/ StopFrame
    PROVE  StreamInv'
<1>1. ASSUME NEW c, Frame(c) PROVE Good(All, ctx)
  <2>1. Selecting
    BY <1>1 DEF Frame, MayReceive
  <2> QED
    BY <2>1, AtTheEnd
<1>2. CASE TextFrame
  <2>1. PICK n \in 0..MaxPieces : \E pieces \in [1..n -> Pieces] : Frame(AssistantText(ctx, pieces))
    BY <1>2 DEF TextFrame
  <2>2. PICK pieces \in [1..n -> Pieces] : Frame(AssistantText(ctx, pieces))
    BY <2>1
  <2>3. Serves(All, ctx, AssistantText(ctx, pieces))
    BY <1>1, <2>2, AssistantTextServes
  <2> QED
    BY <2>2, <2>3, FrameKeeps
<1>3. CASE ReasoningFrame
  <2>1. Frame(Reasoning(ctx))
    BY <1>3 DEF ReasoningFrame
  <2> QED
    BY <1>1, <2>1, ReasoningServes, FrameKeeps
<1>4. CASE ToolFrame
  <2>1. PICK t \in Tools, first \in BOOLEAN, input \in BOOLEAN, stop \in BOOLEAN, good \in BOOLEAN :
          Frame(ToolUse(ctx, t, first, input, stop, good))
    BY <1>4 DEF ToolFrame
  <2>2. Serves(All, ctx, ToolUse(ctx, t, first, input, stop, good))
    BY <1>1, <2>1, ToolUseServes
  <2> QED
    BY <2>1, <2>2, FrameKeeps
<1>5. CASE BadToolFrame
  <2>1. Frame(Fail(ctx))
    BY <1>5 DEF BadToolFrame
  <2> QED
    BY <1>1, <2>1, FailServes, FrameKeeps
<1>6. CASE ErrorFrame
  <2>1. Frame(Tell(Fail(ctx)))
    BY <1>6 DEF ErrorFrame
  <2>2. Serves(All, ctx, Fail(ctx)) /\ ~Fail(ctx).ok
    BY <1>1, <2>1, FailServes
  <2>3. Serves(All, Fail(ctx), Tell(Fail(ctx)))
    BY <2>2, TellServes DEF Serves
  <2>4. Serves(All, ctx, Tell(Fail(ctx)))
    BY <2>2, <2>3, ServesChain
  <2> QED
    BY <2>1, <2>4, FrameKeeps
<1>7. CASE StopFrame
  <2> DEFINE d == [ctx EXCEPT !.terminal = TRUE]
  <2>1. Frame(d)
    BY <1>7 DEF StopFrame
  <2>2. Good(All, ctx)
    BY <1>1, <2>1
  <2>3. Adjusts(ctx, d) /\ Same(ctx, d)
    BY <2>2 DEF Adjusts, Good, Base, Fits, Fields, ToolBlocks, Same
  <2> HIDE DEF d
  <2>4. Serves(All, ctx, d)
    BY <2>2, <2>3, AdjustServes
  <2> QED
    BY <2>1, <2>4, FrameKeeps
<1> QED
  BY <1>2, <1>3, <1>4, <1>5, <1>6, <1>7

LEMMA NoFrameKeeps ==
    ASSUME StreamInv, NoFrame
    PROVE  StreamInv'
<1>1. Selecting /\ frames < MaxFrames /\ Continue(ctx) /\ UNCHANGED full
      /\ errors' \in IF Stopped THEN {errors} ELSE {0, errors}
  BY DEF NoFrame, MayReceive
<1>2. full' \in BOOLEAN /\ errors' \in 0..MaxErrors
  BY <1>1, BoundsAssumption DEF StreamInv, Typed, StreamTypeOK
<1> QED
  BY <1>1, <1>2, AtTheEnd, ContinueKeeps

LEMMA DecodeErrorKeeps ==
    ASSUME StreamInv, DecodeError
    PROVE  StreamInv'
<1> DEFINE f == Fail(ctx)
           t == TellOnce(f)
           d == IF errors' < MaxErrors THEN ctx ELSE IF mode = "buffered" THEN f ELSE t
<1>1. Selecting /\ frames < MaxFrames /\ ~Stopped /\ errors' = errors + 1 /\ UNCHANGED full
      /\ Continue(d)
  BY DEF DecodeError, MayReceive
<1>2. full' \in BOOLEAN /\ errors' \in 0..MaxErrors
  BY <1>1, BoundsAssumption DEF StreamInv, Typed, StreamTypeOK, Stopped
<1>3. Good(All, ctx)
  BY <1>1, AtTheEnd
<1>4. Good(All, f) /\ ~f.ok
  BY <1>3, FailServes DEF Serves
<1> HIDE DEF f
<1>5. Good(All, t)
  BY <1>4, TellServes DEF Serves
<1> HIDE DEF t
<1>6. Good(All, d)
  BY <1>3, <1>4, <1>5
<1> HIDE DEF d
<1> QED
  BY <1>1, <1>2, <1>6, ContinueKeeps

(* reopen_stream, before anything was committed.                           *)
LEMMA ReopenKeeps ==
    ASSUME StreamInv, Selecting, MayReopen, Reopen
    PROVE  StreamInv'
<1>1. /\ Typed /\ Going /\ Recorded /\ ~finished /\ ~dropped /\ outbox = <<>> /\ ~committed
      /\ mode # "buffered" /\ used < MaxRetries
      /\ used' = used + 1 /\ ctx' = Fresh /\ errors' = 0 /\ emitted' = FALSE
      /\ UNCHANGED <<Config, initial, full, committed, finished, outbox, sent, records, dropped, frames>>
  BY DEF StreamInv, Selecting, Polled, MayReopen, Reopen
<1> DEFINE start == Initial(NewContext).out
<1>2. start \in Seq(Ev) /\ Good(start, Fresh) /\ Fits(Fresh) /\ Fresh.out = <<>>
  BY FreshGood
<1>3. initial = start /\ sent = <<>>
  BY <1>1 DEF Going
<1>4. start' = start
  BY <1>1 DEF Config, Initial, NewContext, StartBlock, StopOpen, StopBlock, E, M!Event
<1> HIDE DEF start
<1>5. All' = start
  <2>1. All' = All
    BY <1>1 DEF All
  <2>2. All = start
    BY <1>1, <1>2, <1>3, EmptySeq, ConcatEmptySeq DEF All
  <2> QED
    BY <2>1, <2>2
<1>6. Typed'
  <2>1. {full', committed', finished', emitted', dropped'} \subseteq BOOLEAN
    BY <1>1 DEF Typed, StreamTypeOK
  <2>2. errors' \in 0..MaxErrors /\ used' \in 0..MaxRetries /\ frames' \in 0..MaxFrames
    BY <1>1, BoundsAssumption DEF Typed, StreamTypeOK
  <2>3. Fits(ctx') /\ ctx'.out = <<>>
    BY <1>1, <1>2
  <2>4. records' \in Seq(Outcomes) /\ sent' \in Seq(Ev) /\ outbox' \in Seq(Ev) /\ initial' \in Seq(Ev)
    BY <1>1 DEF Typed, StreamTypeOK
  <2> QED
    BY <1>1, <2>1, <2>2, <2>3, <2>4, TypedStep
<1>7. Going'
  <2>1. Good(All, ctx)'
    <3>1. thinking' = thinking
      BY <1>1 DEF Config
    <3>2. Good(All', ctx')
      BY <1>1, <1>2, <1>5
    <3> QED
      BY <3>1, <3>2 DEF Good, ThinkOpen, Current, Quiet
  <2>2. initial' = start'
    BY <1>1, <1>3, <1>4
  <2> QED
    BY <1>1, <1>3, <2>1, <2>2 DEF Going, start
<1>8. Recorded' /\ Closing'
  BY <1>1 DEF Recorded, Closing
<1> QED
  BY <1>6, <1>7, <1>8 DEF StreamInv

(* What a step that leaves the context, the mode and the end alone keeps.  *)
LEMMA SameLogKeeps ==
    ASSUME StreamInv, UNCHANGED <<Config, ctx, full, used, errors, finished, emitted, records, dropped, frames>>,
           sent' \in Seq(Ev), outbox' \in Seq(Ev), initial' \in Seq(Ev), committed' \in BOOLEAN,
           All' = All,
           finished => sent' \o outbox' = sent \o outbox /\ initial' = initial,
           ~finished =>
               /\ ~committed' => sent' = <<>> /\ outbox' = <<>> /\ UNCHANGED <<committed, initial>>
               /\ committed' => initial' = <<>> /\ mode # "buffered"
    PROVE  StreamInv'
<1>1. Typed /\ Going /\ Recorded /\ Closing
  BY DEF StreamInv
<1>2. Typed'
  <2>1. {full', committed', finished', emitted', dropped'} \subseteq BOOLEAN
    BY <1>1 DEF Typed, StreamTypeOK
  <2>2. errors' \in 0..MaxErrors /\ used' \in 0..MaxRetries /\ frames' \in 0..MaxFrames
    BY <1>1 DEF Typed, StreamTypeOK
  <2>3. Fits(ctx') /\ ctx'.out = <<>> /\ records' \in Seq(Outcomes)
    BY <1>1 DEF Typed, StreamTypeOK
  <2> QED
    BY <1>1, <2>1, <2>2, <2>3, TypedStep
<1>3. Going'
  <2> SUFFICES ASSUME ~finished' PROVE Going'
    BY DEF Going
  <2>1. ~finished /\ mode' = mode /\ thinking' = thinking
    BY DEF Config
  <2>2. Good(All, ctx)'
    <3>1. Good(All', ctx')
      BY <1>1, <2>1 DEF Going
    <3> QED
      BY <2>1, <3>1 DEF Good, ThinkOpen, Current, Quiet
  <2>3. Initial(NewContext).out' = Initial(NewContext).out
    BY <2>1 DEF Initial, NewContext, StartBlock, StopOpen, StopBlock, E, M!Event
  <2>4. ~committed' /\ mode' # "buffered" => initial' = Initial(NewContext).out'
    BY <1>1, <2>1, <2>3 DEF Going
  <2> QED
    BY <2>1, <2>2, <2>4 DEF Going
<1>4. Recorded'
  BY <1>1 DEF Recorded
<1>5. Closing'
  <2> SUFFICES ASSUME finished' PROVE Closing'
    BY DEF Closing
  <2>1. finished /\ initial = <<>> /\ TrueEnd(sent \o outbox)
    BY <1>1 DEF Closing
  <2>2. sent' \o outbox' = sent \o outbox /\ initial' = <<>>
    BY <2>1
  <2> DEFINE all == sent \o outbox
  <2>3. (sent \o outbox)' = all
    BY <2>2
  <2>4. TrueEnd(all)
    BY <2>1
  <2> HIDE DEF all
  <2> QED
    BY <2>2, <2>3, <2>4 DEF Closing, TrueEnd
<1> QED
  BY <1>2, <1>3, <1>4, <1>5 DEF StreamInv

LEMMA DeliverKeeps ==
    ASSUME StreamInv, Deliver
    PROVE  StreamInv'
<1>1. /\ Typed /\ Going /\ outbox # <<>> /\ sent' = Append(sent, Head(outbox)) /\ outbox' = Tail(outbox)
      /\ UNCHANGED <<Config, ctx, initial, full, committed, used, errors, finished, emitted, records,
                     dropped, frames>>
  BY DEF StreamInv, Deliver
<1>2. sent \in Seq(Ev) /\ outbox \in Seq(Ev) /\ initial \in Seq(Ev) /\ committed \in BOOLEAN
  BY <1>1 DEF Typed, StreamTypeOK
<1>3. sent' \in Seq(Ev) /\ outbox' \in Seq(Ev) /\ sent' \o outbox' = sent \o outbox
  BY <1>1, <1>2, HeadMoves
<1>4. All' = All
  BY <1>1, <1>3 DEF All
<1>5. ~finished => committed /\ initial = <<>> /\ mode # "buffered"
  BY <1>1 DEF Going
<1>6. committed' = committed /\ initial' = initial
  BY <1>1
<1> QED
  BY <1>1, <1>2, <1>3, <1>4, <1>5, <1>6, SameLogKeeps

LEMMA SendInitialKeeps ==
    ASSUME StreamInv, SendInitial
    PROVE  StreamInv'
<1>1. /\ Typed /\ Going /\ ~finished /\ outbox = <<>> /\ ~committed /\ mode = "plain"
      /\ committed' = TRUE /\ outbox' = initial /\ initial' = <<>>
      /\ UNCHANGED <<Config, ctx, full, used, errors, finished, emitted, sent, records, dropped, frames>>
  BY DEF StreamInv, SendInitial, Polled
<1>2. sent = <<>> /\ initial \in Seq(Ev) /\ <<>> \in Seq(Ev)
  BY <1>1, EmptySeq DEF Going, Typed
<1>3. All' = All
  <2>1. All' = (<<>> \o initial) \o <<>> /\ All = (<<>> \o <<>>) \o initial
    BY <1>1, <1>2 DEF All
  <2> QED
    BY <1>2, <2>1, ConcatEmptySeq
<1> QED
  BY <1>1, <1>2, <1>3, SameLogKeeps

LEMMA ClientLeavesKeeps ==
    ASSUME StreamInv, ClientLeaves
    PROVE  StreamInv'
<1>1. /\ Typed /\ Going /\ Recorded /\ Closing /\ dropped' = TRUE /\ emitted' = TRUE
      /\ records' = IF emitted THEN records ELSE Append(records, "interrupted")
      /\ UNCHANGED <<Config, ctx, initial, full, committed, used, errors, finished, outbox, sent, frames>>
  BY DEF StreamInv, ClientLeaves
<1>2. Recorded' /\ (finished => records' = records)
  <2>1. CASE emitted
    BY <1>1, <2>1 DEF Recorded
  <2>2. CASE ~emitted
    <3>1. records = <<>> /\ ~finished
      BY <1>1, <2>2 DEF Recorded
    <3>2. Append(<<>>, "interrupted") = <<"interrupted">> /\ "interrupted" \in Outcomes
      BY DEF Outcomes
    <3>3. records' = <<"interrupted">>
      BY <1>1, <2>2, <3>1, <3>2
    <3> QED
      BY <1>1, <3>1, <3>2, <3>3 DEF Recorded
  <2> QED
    BY <2>1, <2>2
<1>3. Typed'
  <2>1. {full', committed', finished', emitted', dropped'} \subseteq BOOLEAN
    BY <1>1 DEF Typed, StreamTypeOK
  <2>2. errors' \in 0..MaxErrors /\ used' \in 0..MaxRetries /\ frames' \in 0..MaxFrames
    BY <1>1 DEF Typed, StreamTypeOK
  <2>3. records' \in Seq(Outcomes)
    <3>1. \A o \in Outcomes : <<o>> \in Seq(Outcomes)
      OBVIOUS
    <3>2. PICK o \in Outcomes : records' = <<o>>
      BY <1>1, <1>2 DEF Recorded
    <3> QED
      BY <3>1, <3>2
  <2>4. Fits(ctx') /\ ctx'.out = <<>> /\ sent' \in Seq(Ev) /\ outbox' \in Seq(Ev) /\ initial' \in Seq(Ev)
    BY <1>1 DEF Typed, StreamTypeOK
  <2> QED
    BY <1>1, <2>1, <2>2, <2>3, <2>4, TypedStep
<1>4. Going'
  <2>1. Initial(NewContext).out' = Initial(NewContext).out /\ All' = All /\ (Good(All, ctx) => Good(All, ctx)')
    BY <1>1 DEF Config, Initial, NewContext, StartBlock, StopOpen, StopBlock, E, M!Event, All, Good, ThinkOpen, Current, Quiet
  <2>2. mode' = mode
    BY <1>1 DEF Config
  <2> QED
    BY <1>1, <2>1, <2>2 DEF Going
<1>5. Closing'
  BY <1>1, <1>2 DEF Closing, TrueEnd
<1> QED
  BY <1>2, <1>3, <1>4, <1>5 DEF StreamInv

LEMMA StreamInvStep == StreamInv /\ [Next]_vars => StreamInv'
<1> SUFFICES ASSUME StreamInv, [Next]_vars PROVE StreamInv'
  OBVIOUS
<1>1. CASE Deliver
  BY <1>1, DeliverKeeps
<1>2. CASE SendInitial
  BY <1>2, SendInitialKeeps
<1>3. CASE TextFrame \/ ReasoningFrame \/ ToolFrame \/ BadToolFrame \/ ErrorFrame \/ StopFrame
  BY <1>3, FramesKeep
<1>4. CASE NoFrame
  BY <1>4, NoFrameKeeps
<1>5. CASE DecodeError
  BY <1>5, DecodeErrorKeeps
<1>6. CASE UpstreamEnds
  BY <1>6, UpstreamEndsKeeps
<1>7. CASE FirstTokenTimeout
  <2>1. Selecting /\ ((MayReopen /\ Reopen) \/ (FinishFailed /\ UNCHANGED committed))
    BY <1>7, Zenon DEF FirstTokenTimeout, GivesUp
  <2>2. committed \in BOOLEAN
    BY DEF StreamInv, Typed, StreamTypeOK
  <2>3. CASE MayReopen /\ Reopen
    BY <2>1, <2>3, ReopenKeeps
  <2>4. CASE FinishFailed /\ UNCHANGED committed
    BY <2>1, <2>2, <2>4, FinishFailedKeeps
  <2> QED
    BY <2>1, <2>3, <2>4
<1>8. CASE ReadFails
  <2>1. Selecting /\ ((MayReopen /\ Reopen) \/ (FinishFailed /\ committed' = TRUE))
    BY <1>8, Zenon DEF ReadFails, GivesUp
  <2>2. CASE MayReopen /\ Reopen
    BY <2>1, <2>2, ReopenKeeps
  <2>3. CASE FinishFailed /\ committed' = TRUE
    <3>1. committed' \in BOOLEAN
      BY <2>3
    <3> QED
      BY <2>1, <2>3, <3>1, FinishFailedKeeps
  <2> QED
    BY <2>1, <2>2, <2>3
<1>9. CASE ClientLeaves
  BY <1>9, ClientLeavesKeeps
<1>10. CASE UNCHANGED vars
  <2>1. /\ UNCHANGED <<Config, ctx, full, used, errors, finished, emitted, records, dropped, frames>>
        /\ UNCHANGED <<sent, outbox, initial, committed>>
    BY <1>10 DEF vars, Config
  <2>2. Typed /\ Going
    BY DEF StreamInv
  <2>3. /\ sent' \in Seq(Ev) /\ outbox' \in Seq(Ev) /\ initial' \in Seq(Ev) /\ committed' \in BOOLEAN
        /\ All' = All /\ sent' \o outbox' = sent \o outbox
    BY <2>1, <2>2 DEF Typed, StreamTypeOK, All
  <2>4. ~finished => /\ ~committed' => sent' = <<>> /\ outbox' = <<>> /\ UNCHANGED <<committed, initial>>
                     /\ committed' => initial' = <<>> /\ mode # "buffered"
    BY <2>1, <2>2 DEF Going
  <2> QED
    BY <2>1, <2>3, <2>4, SameLogKeeps
<1>11. CASE Done
  BY <1>10, <1>11 DEF Done
<1> QED
  BY <1>1, <1>2, <1>3, <1>4, <1>5, <1>6, <1>7, <1>8, <1>9, <1>10, <1>11 DEF Next

(* The provider leaves a record of a reopening only as the stream ends, and *)
(* then the stream's own is the failure's.                                  *)
Noted ==
    /\ noted \in {0, 1}
    /\ noted = 1 => finished /\ mode = "retry" /\ records = <<"failed">>

LEMMA GivesUpNotes ==
    ASSUME StreamInv, Noted, Selecting, GivesUp
    PROVE  Noted'
<1>1. ~finished /\ ~dropped /\ Recorded /\ noted = 0
  BY DEF Selecting, Polled, StreamInv, Noted
<1>2. ~emitted /\ records = <<>>
  BY <1>1 DEF Recorded
<1>3. PICK c \in Finals(Fail(ctx)) : FinishTold(c, ~c.told, FALSE)
  BY DEF GivesUp, FinishFailed
<1>4. Ended(All, c) /\ ~c.ok
  <2>1. Good(All, Fail(ctx)) /\ ~Fail(ctx).ok
    BY AtTheEnd, FailServes DEF Serves
  <2> QED
    BY <1>3, <2>1, FinalsEnd
<1> DEFINE d == [c EXCEPT !.told = @ \/ ~c.told]
<1>5. OutcomeOf(d, FALSE) = "failed"
  <2>1. d.ok = c.ok
    BY <1>4 DEF Ended, Fits, Fields
  <2> HIDE DEF d
  <2> QED
    BY <1>4, <2>1 DEF OutcomeOf
<1>6. finished' = TRUE /\ records' = Append(records, OutcomeOf(d, FALSE)) /\ mode' = mode
  BY <1>2, <1>3 DEF FinishTold, Finish, Config
<1> HIDE DEF d
<1>7. records' = <<"failed">>
  <2>1. Append(<<>>, "failed") = <<"failed">>
    OBVIOUS
  <2> QED
    BY <1>2, <1>5, <1>6, <2>1
<1>8. noted' = IF MayReopen THEN 1 ELSE 0
  BY <1>1 DEF GivesUp
<1> QED
  BY <1>6, <1>7, <1>8 DEF Noted, MayReopen

LEMMA NotedStep == StreamInv /\ Noted /\ [Next]_vars => Noted'
<1> SUFFICES ASSUME StreamInv, Noted, [Next]_vars PROVE Noted'
  OBVIOUS
<1>1. ASSUME UNCHANGED <<noted, records, finished, mode>> PROVE Noted'
  BY <1>1 DEF Noted
<1>2. ASSUME Polled, UNCHANGED noted PROVE Noted'
  BY <1>2 DEF Noted, Polled
<1>3. ASSUME NEW c, Frame(c) PROVE Noted'
  <2>1. Polled /\ UNCHANGED noted
    BY <1>3 DEF Frame, MayReceive, Selecting, Continue
  <2> QED
    BY <1>2, <2>1
<1>4. CASE Deliver \/ UNCHANGED vars \/ Done
  BY <1>1, <1>4 DEF Deliver, vars, Done, Config
<1>5. CASE SendInitial \/ NoFrame \/ DecodeError
  BY <1>2, <1>5 DEF SendInitial, NoFrame, DecodeError, MayReceive, Selecting, Continue
<1>6. CASE TextFrame \/ ReasoningFrame \/ ToolFrame \/ BadToolFrame \/ ErrorFrame \/ StopFrame
  BY <1>3, <1>6 DEF TextFrame, ReasoningFrame, ToolFrame, BadToolFrame, ErrorFrame, StopFrame
<1>7. CASE UpstreamEnds
  BY <1>2, <1>7 DEF UpstreamEnds, Selecting
<1>8. ASSUME Selecting, Reopen PROVE Noted'
  BY <1>2, <1>8 DEF Selecting, Reopen
<1>9. CASE FirstTokenTimeout
  BY <1>8, <1>9, GivesUpNotes, Zenon DEF FirstTokenTimeout
<1>10. CASE ReadFails
  BY <1>8, <1>10, GivesUpNotes, Zenon DEF ReadFails
<1>11. CASE ClientLeaves
  <2>1. UNCHANGED <<noted, finished, mode>> /\ (emitted => records' = records)
    BY <1>11 DEF ClientLeaves, Config
  <2>2. finished => emitted
    BY DEF StreamInv, Recorded
  <2> QED
    BY <2>1, <2>2 DEF Noted
<1> QED
  BY <1>4, <1>5, <1>6, <1>7, <1>9, <1>10, <1>11 DEF Next

(***************************************************************************)
(* The theorems.                                                           *)
(***************************************************************************)

(* Whatever the upstream sends and however often it is reopened, the        *)
(* context stays good behind the events the client got, and the last batch  *)
(* ends them as the record says.                                            *)
THEOREM StreamInductive == Spec => []StreamInv
<1>1. Init => StreamInv
  BY StreamInvInit
<1>2. StreamInv /\ [Next]_vars => StreamInv'
  BY StreamInvStep
<1> QED
  BY <1>1, <1>2, PTL DEF Spec

LEMMA NotedHolds == Spec => []Noted
<1>1. Init => Noted
  BY DEF Init, Noted
<1> QED
  BY <1>1, NotedStep, StreamInductive, PTL DEF Spec

(* The types, and with them that errors, retries and frames keep to their   *)
(* bounds: the decoder stops at its limit, the retries at theirs.           *)
THEOREM StreamTyped == Spec => []TypeOK
<1>1. StreamInv /\ Noted => TypeOK
  BY DEF StreamInv, Noted, Typed, StreamTypeOK, BlockRec, TypeOK
<1> QED
  BY <1>1, StreamInductive, NotedHolds, PTL

(* A stream leaves exactly one usage record of its own, and it agrees with  *)
(* what the client was sent; the provider's, of a reopening that failed,    *)
(* stands only beside a failure: UsageEmitGuard, reopen_stream and the      *)
(* endings of create_sse_stream and create_buffered_sse_stream.             *)
THEOREM RecordIsTrue == Spec => []OneTrueRecord
<1>1. StreamInv /\ Noted => OneTrueRecord
  <2> SUFFICES ASSUME StreamInv, Noted PROVE OneTrueRecord
    OBVIOUS
  <2>1. Recorded /\ Closing
    BY DEF StreamInv
  <2>2. Len(<<>>) = 0 /\ \A o \in Outcomes : Len(<<o>>) = 1
    BY EmptySeq
  <2>3. Len(records) <= 1 /\ (emitted => Len(records) = 1)
    <3>1. CASE emitted
      <4>1. PICK o \in Outcomes : records = <<o>>
        BY <2>1, <3>1 DEF Recorded
      <4> QED
        BY <2>2, <4>1
    <3>2. CASE ~emitted
      BY <2>1, <2>2, <3>2 DEF Recorded
    <3> QED
      BY <3>1, <3>2
  <2>4. Over => emitted
    BY <2>1 DEF Over, Recorded
  <2>5. finished => TrueEnd(sent \o outbox)
    BY <2>1 DEF Closing
  <2> QED
    BY <2>3, <2>4, <2>5 DEF OneTrueRecord, TrueEnd, Noted
<1> QED
  BY <1>1, StreamInductive, NotedHolds, PTL

(* first-token retry: a stream that wrote anything, or is about to, is      *)
(* never reopened.                                                          *)
THEOREM NoReopenHolds == Spec => NoReopenAfterBytes
<1>1. StreamInv /\ [Next]_vars => [used' # used => sent = <<>> /\ outbox = <<>>]_vars
  <2> SUFFICES ASSUME StreamInv, Next, used' # used PROVE sent = <<>> /\ outbox = <<>>
    OBVIOUS
  <2>1. ASSUME NEW c, Frame(c) PROVE FALSE
    BY <2>1 DEF Frame, Continue
  <2>2. ~FinishFailed /\ ~UpstreamEnds
    BY DEF FinishFailed, UpstreamEnds, FinishTold, Finish
  <2>3. ~Deliver /\ ~SendInitial /\ ~NoFrame /\ ~DecodeError /\ ~ClientLeaves /\ ~Done
    BY DEF Deliver, SendInitial, NoFrame, DecodeError, Continue, ClientLeaves, Done, vars
  <2>4. /\ ~TextFrame /\ ~ReasoningFrame /\ ~ToolFrame /\ ~BadToolFrame /\ ~ErrorFrame /\ ~StopFrame
    BY <2>1 DEF TextFrame, ReasoningFrame, ToolFrame, BadToolFrame, ErrorFrame, StopFrame
  <2>5. FirstTokenTimeout \/ ReadFails
    BY <2>3, <2>4, <2>2 DEF Next
  <2>6. Selecting /\ MayReopen
    BY <2>2, <2>5, Zenon DEF FirstTokenTimeout, ReadFails, GivesUp
  <2> QED
    BY <2>6 DEF Selecting, Polled, MayReopen, StreamInv, Going
<1> QED
  BY <1>1, StreamInductive, PTL DEF Spec, NoReopenAfterBytes

(* What May says is what the abstract specification asks of an event.      *)
LEMMA MayIsLegal ==
    ASSUME sent \in Seq(Ev), NEW e \in Ev, e.block <= Len(sent), May(Range(sent), e)
    PROVE  e \in M!Events /\ M!Legal(e)
<1> DEFINE S == Range(sent)
<1>1. Len(sent) \in Nat
  BY LenProperties
<1>2. \A x : M!Seen(x) <=> x \in S
  BY DEF M!Seen, Range
<1> HIDE DEF S
<1>3. \A b : (M!Started(b) <=> Opened(S, b)) /\ (M!IsOpen(b) <=> Opened(S, b) /\ ~Closed(S, b))
  BY <1>2 DEF M!Started, M!Stopped, M!IsOpen, Opened, Closed, E
<1>9. \A b : M!Stopped(b) <=> Closed(S, b)
  BY <1>2 DEF M!Stopped, Closed, E
<1>4. \A t : M!SeenType(t) <=> E(t, 0) \in S
  BY <1>2 DEF M!SeenType, E
<1>5. May(S, e)
  BY DEF S
<1>6. e.type \in M!MessageEvents \cup M!BlockEvents /\ e.block \in Nat /\ e = E(e.type, e.block)
  BY DEF Ev, E, M!Event
<1>7. e \in M!Events
  <2>1. CASE e.type \in M!MessageEvents
    <3>1. e = M!Event(e.type, 0)
      BY <1>5, <1>6, <2>1 DEF May, E
    <3> QED
      BY <2>1, <3>1 DEF M!Events
  <2>2. CASE e.type \notin M!MessageEvents
    <3>1. e.type \in M!BlockEvents /\ e.block \in 1..Len(sent)
      BY <1>1, <1>5, <1>6, <2>2 DEF May
    <3>2. e = M!Event(e.type, e.block)
      BY <1>6 DEF E
    <3> HIDE DEF M!Event
    <3> QED
      BY <3>1, <3>2 DEF M!Events, M!Blocks
  <2> QED
    BY <2>1, <2>2
<1>8. M!Legal(e)
  <2>1. CASE e.type = "message_start"
    BY <1>4, <1>5, <2>1 DEF May, M!Legal
  <2>2. CASE e.type \in M!Kinds
    <3>1. M!OpenKinds \subseteq M!Beside(e.type)
      <4>1. \A b \in M!Blocks, k \in M!Kinds :
              M!Seen(M!Event(k, b)) /\ ~M!Stopped(b) => k \in M!Beside(e.type)
        BY <1>1, <1>2, <1>5, <1>9, <2>2 DEF May, M!Blocks, E
      <4> QED
        BY <4>1 DEF M!OpenKinds
    <3>2. e.type \notin {"message_start", "content_block_delta", "content_block_stop",
                         "message_delta", "message_stop"}
      BY <2>2 DEF M!Kinds
    <3>3. /\ ~M!SeenType("message_delta") /\ M!SeenType("message_start") /\ ~M!Started(e.block)
          /\ \A b \in 1..(e.block - 1) : M!Started(b)
      BY <1>3, <1>4, <1>5, <2>2 DEF May
    <3> QED
      BY <2>2, <3>1, <3>2, <3>3 DEF M!Legal
  <2>3. CASE e.type \in {"content_block_delta", "content_block_stop"}
    BY <1>3, <1>5, <2>3 DEF May, M!Legal, M!Kinds
  <2>4. CASE e.type = "message_delta"
    <3>1. \A b \in Nat : Opened(S, b) => Closed(S, b)
      BY <1>5, <2>4 DEF May
    <3>2. M!AllClosed
      BY <1>1, <1>3, <3>1 DEF M!AllClosed, M!Blocks
    <3> QED
      BY <1>4, <1>5, <2>4, <3>2 DEF May, M!Legal, M!Kinds
  <2>5. CASE e.type = "message_stop"
    BY <1>4, <1>5, <2>5 DEF May, M!Legal, M!Kinds
  <2>6. CASE e.type = "error"
    BY <1>4, <1>5, <2>6 DEF May, M!Legal, M!Kinds
  <2> QED
    BY <1>6, <2>1, <2>2, <2>3, <2>4, <2>5, <2>6 DEF M!MessageEvents, M!BlockEvents
<1> QED
  BY <1>7, <1>8

(* create_sse_stream and create_buffered_sse_stream implement the protocol *)
(* a client relies on: the start first and once, blocks in order and each   *)
(* with one start and one stop, the end once all are closed. A block starts *)
(* while others are open only beside the kinds M!Beside names: never two    *)
(* texts or two thinking blocks are open, nor does a text or a tool start   *)
(* in an open thinking block (handle_content_block_start,                   *)
(* create_text_delta_events, close_reasoning_thinking_block).               *)
THEOREM StreamRefinesProtocol == Spec => FollowsProtocol
<1>1. Init => M!Init
  BY DEF Init, M!Init
<1>2. StreamInv /\ [Next]_vars => [M!Next]_sent
  <2> SUFFICES ASSUME StreamInv, [Next]_vars, sent' # sent PROVE M!Next
    OBVIOUS
  <2>1. Deliver
    <3>1. \A c : ~Frame(c)
      BY DEF Frame, Continue
    <3>2. ~FinishFailed /\ ~UpstreamEnds /\ ~Reopen
      BY DEF FinishFailed, UpstreamEnds, FinishTold, Finish, Reopen
    <3>3. ~SendInitial /\ ~NoFrame /\ ~DecodeError /\ ~ClientLeaves /\ ~Done /\ ~UNCHANGED vars
      BY DEF SendInitial, NoFrame, DecodeError, Continue, ClientLeaves, Done, vars
    <3>4. ~TextFrame /\ ~ReasoningFrame /\ ~ToolFrame /\ ~BadToolFrame /\ ~ErrorFrame /\ ~StopFrame
      BY <3>1 DEF TextFrame, ReasoningFrame, ToolFrame, BadToolFrame, ErrorFrame, StopFrame
    <3>5. ~FirstTokenTimeout /\ ~ReadFails
      BY <3>2, Zenon DEF FirstTokenTimeout, ReadFails, GivesUp
    <3> QED
      BY <3>2, <3>3, <3>4, <3>5 DEF Next
  <2> DEFINE e == Head(outbox)
  <2>2. Typed /\ outbox # <<>> /\ sent' = Append(sent, e)
    BY <2>1 DEF StreamInv, Deliver
  <2>3. sent \in Seq(Ev) /\ outbox \in Seq(Ev)
    BY <2>2 DEF Typed
  <2>4. Proper(sent \o outbox)
    <3>1. CASE finished
      BY <3>1 DEF StreamInv, Closing, TrueEnd
    <3>2. CASE ~finished
      <4>1. Good(All, ctx) /\ initial = <<>> /\ ctx.out = <<>>
        BY <2>2, <3>2 DEF StreamInv, Going, Typed, StreamTypeOK
      <4>2. sent \o outbox \in Seq(Ev)
        BY <2>3, ConcatProperties
      <4>3. All = sent \o outbox /\ Log(All, ctx.out) = All
        BY <4>1, <4>2, ConcatEmptySeq DEF All, Log
      <4> QED
        BY <4>1, <4>3 DEF Good, Base
    <3> QED
      BY <3>1, <3>2
  <2>5. e \in Ev /\ e.block <= Len(sent) /\ May(Range(sent), e)
    BY <2>2, <2>3, <2>4, NextIsMay
  <2>6. e \in M!Events /\ M!Legal(e)
    BY <2>3, <2>5, MayIsLegal
  <2> HIDE DEF e
  <2> QED
    BY <2>2, <2>6 DEF M!Next, M!Receive
<1> QED
  BY <1>1, <1>2, StreamInductive, PTL DEF Spec, FollowsProtocol, M!Spec

=============================================================================
