# KiroStudio: models, checks and proofs

KiroStudio is a Rust proxy. It takes Anthropic- and OpenAI-style requests and serves each with one credential of
a pool of Kiro accounts. Most of its own logic is about that pool: which credential a request gets, what a
failure does to it, how it comes back, and how all of that survives a crash. This directory holds TLA+ models of
that core, the TLC configurations that check them on small instances, and TLAPS proofs of the results that hold
for instances of every size.

Paths below are relative to the root of the repository; `token_manager.rs` is `src/kiro/token_manager.rs`.

## 1. The system

### Parts, their state and their operations

| Part | State | Operations | What is hard about it |
|---|---|---|---|
| Pool lifecycle (`token_manager.rs`) | per entry: `disabled`, `disabled_reason`, `failure_count`, `refresh_failure_count`, `consecutive_suspicious`; `self_heal_streak`, `last_self_heal_at`, `self_heal_revived` | `report_*`, `set_disabled`, `reset_and_enable`, `recover_expired_quota_disables`, self-healing inside `acquire_context_excluding` | reports arrive late and in any order; five ways back into the pool; clones of one account share a count |
| Selection (`token_manager.rs`, `scheduling.rs`) | gates of each entry, `inflight`, RPM window, `fallback_cursor`; per request: excluded ids, budgets, guard | `acquire_context_excluding`, `select_next_credential`, `transient_wait_outcome`, `select_ignoring_cooldown`, `commit_selection`, `InflightGuard::drop` | gates move between two calls; the same gates are written down twice; many error paths hold a guard |
| Store (`token_manager.rs`, `credential_persist.rs`) | `entries`, `trash`, `next_id`; `credentials.json`, `trash.json` | `add_credential`, `delete_credential_forced`, `restore_credential`, the purges, `persist_credentials`, `persist_trash`, `new` | memory moves at once, two files follow one after the other; crashes and failing writes in between |
| Debounced persistence (`cooldown.rs`, `save_stats*` in `token_manager.rs`) | entries, `version`, `dirty`, `last_save_at`, `save_lock`, a file | `mark_dirty`, `save`, `flush_now`, `load` and their statistics twins | each access is atomic, the sequence is not |
| File replacement (`common/fs_atomic.rs`) | target, temporary file, `.bak` | `write_atomic`, `rename_with_retry`, `sweep_stale_tmp` | every system call may fail or be the last one |
| Cooldowns (`cooldown.rs`) | per id: reason, expiry, trigger count | `set_cooldown*`, `clear_cooldown`, `is_available`, `cleanup_expired` | reasons overwrite each other while the longer expiry stays |
| Health circuit (`health.rs`) | per family: circuit, back-off, half-open probability, penalties | `on_success`, `on_429`, `on_suspicious`, `effective_snapshot`, `cleanup` | no timer: everything that depends on time happens at the next read |
| Token refresh (`token_refresh_http.rs`, `refresh_loop.rs`) | per-credential refresh lock, token, `refresh_token`, `profile_arn` | `refresh_token_locked`, `ensure_valid_token`, `force_refresh_token_for`, region probes, admin token edits | snapshot, network round trip, write-back; rotation of the refresh token |
| Provider (`provider.rs`, `retry_budget.rs`) | per client request: shared budget, rounds, attempts, endpoint chain, ids reported so far | `call_api_with_retry`, `call_passthrough`, `call_mcp` | six nested kinds of retry on one budget; reports that must be made once |
| Stream (`anthropic/stream.rs`, `anthropic/handlers.rs`) | `StreamContext`: open blocks, buffers, tool calls; commit, usage guard | `create_sse_stream`, `create_buffered_sse_stream`, `process_kiro_event`, `generate_final_events` | thinking, text and tools interleave; reopening an upstream; clients that leave |
| Web search (`anthropic/websearch.rs`) | the loop's task, the forwarder's task, the channel and the progress cell between them | `run_web_search_loop`, `mixed_websearch_stream_response` | two tasks, one budget, one usage record of its own beside those of its calls |
| Affinity, rate limiter, throttle, endpoint health | token buckets, bindings, windows | admit, back off, bind | clocks, floating point, hot reload |
| Decoder (`parser/`) | buffer and error count | feed, resynchronise | partial frames, error loops |
| Admin, logins, usage records, update and rollback, start and shutdown | sessions, channels, marker files | see `PROJECT.json` | single use, bounded queues, crash loops |

`PROJECT.json` lists all 34 components, the ones that are not modelled with the reason.

### How they interact

A client request enters `anthropic/handlers.rs`, which makes one `SharedRetryBudget` for it and calls `provider.rs`
(UpstreamCalls), once or, for a request with web search, once per round of the search loop (WebSearchLoop). The
provider calls `acquire_context_excluding` with the ids it has already tried. That call selects a credential
(Acquire), may refresh its token (Token refresh), and hands back a context that holds an `InflightGuard`. The provider
calls upstream and reports the outcome: `report_success`, `report_failure`, `report_rate_limited` and so on (Pool
lifecycle, Gates). Reports change the gates the next selection reads; the answer's frames go through the stream state
machine to the client (SseStream), which may send the handler back to the provider when no first token comes;
disabling and re-enabling calls `persist_credentials` (Store), cooldowns and statistics go through the debounced save
(Debounced persistence), and every file is replaced with `write_atomic` (File replacement). Administrators call the
same manager from their own handlers. Everything runs on a multi-threaded tokio runtime: the entries are behind one
mutex, which each operation takes and releases several times, and never across an `await`. So the unit of atomicity is
one critical section (or one access to an atomic), and that is the unit of a step in the models.

### What makes them correct

- *Lifecycle*: an enabled credential is below every threshold; what needs a person comes back only by a person; an
  account is disabled as suspicious only for as many reports as the constant says; the pool is never stuck waiting
  for its own back-off.
- *Selection*: the in-flight count is exactly the guards held; the two formulations of the gates agree; the
  fallback takes turns; every request ends.
- *Store*: no stored credential disappears; ids are not given out twice; concurrent adds of one account leave one
  entry; a rolled back delete undoes itself and nothing else.
- *Debounced persistence*: the file never goes back; a flush covers what was there when it was called; an unsaved
  change is marked.
- *File replacement*: what `Ok` and `Err` say is so; a reader never meets a torn file, except as documented.
- *Cooldowns and circuit*: a credential cools until the longest of its cooldowns is over; a recovery is earned; no
  penalty is for ever.
- *Token refresh*: a consumed refresh token is never presented again unless its successor was really lost; what an
  administrator or another task wrote during a network round trip is kept.
- *Provider*: one client request stays within one budget of upstream calls however its retries nest, reports a failure
  of a credential once, and ends.
- *Stream and web search*: the client's events follow the protocol; a stream or a search loop leaves exactly one usage
  record of its own, which says what happened, and the provider's records beside it are one for each thing it made the
  provider do.

## 2. Modules

| Module | Models | Proofs | TLC |
|---|---|---|---|
| `DebouncedSave` | `mark_dirty`/`save`/`flush_now`/`load` and their twins | `PersistenceProofs` | `MCDebouncedSave` |
| `FsAtomic` | `write_atomic`, `rename_with_retry`, `sweep_stale_tmp` | `PersistenceProofs` | `MCFsAtomic` |
| `CredentialStore` | pool, bin, their files, the id counter, restart | `CredentialStoreProofs` | `MCCredentialStore` |
| `PoolLifecycle` | disabling, recovery, self-healing | `HealthProofs` | `MCPoolLifecycle` |
| `Acquire` | the selection loop of a request | `AcquireProofs` | `MCAcquire` |
| `Gates` | cooldowns per credential, health circuit per family | `HealthProofs` | `MCGates` |
| `TokenRefresh` | `refresh_token_locked` and its callers, rotation, restart | `TokenRefreshProofs` | `MCTokenRefresh` |
| `ProfileArn` | every writer of a credential's profile ARN | `TokenRefreshProofs` | `MCProfileArn` |
| `UpstreamCalls` | the upstream calls of one client request | `UpstreamCallsProofs` | `MCUpstreamCalls` |
| `WebSearchLoop` | the search loop, its MCP calls, the forwarder | `WebSearchLoopProofs` | `MCWebSearchLoop` |
| `MessageStream` | what a client may rely on: the order of events (abstract) | – | – |
| `SseStream` | `create_sse_stream` and `create_buffered_sse_stream` with `StreamContext` and the decoder's states; implements `MessageStream` | `SseStreamProofs` | `MCSseStream` |

The modules are kept apart by what they abstract from each other: DebouncedSave and CredentialStore take a write of a
file as one step that succeeds or fails, which is what FsAtomic checks on the rename path; Acquire lets the gates that
PoolLifecycle and Gates move change at any time, and PoolLifecycle lets any part of the pool be what a request can
use. UpstreamCalls takes from Acquire that it fails or answers with a credential that the gates of the moment let
through: one that was not tried if there is any among those, else a tried one. WebSearchLoop takes from UpstreamCalls
that a round spends some of the budget and answers or fails. SseStream leaves out which upstream a reopening gets.

### DebouncedSave

The stored data is the number of changes it contains, so "older" and "newer" are comparable. One action per access:
`Change` (entries lock), `BumpVersion`, `SetDirty`, `Debounce` (`mark_dirty`, `cooldown.rs` 753-771), `FlushNow`,
then `TakeSaveLock`, `Snapshot`, `WriteOk`/`WriteFails`, `StampSave`, `CompareVersion`, `ClearDirty`,
`ReleaseSaveLock` (`save`, 787-849). `CrashAndLoad` may come at any point. The atomics are sequentially consistent in
the model; the code uses `Acquire`/`Release`/`Relaxed` orderings.

### FsAtomic

A file is absent, torn, or the number of the write it holds in full. `Begin`/`FillTmp`/`Rename` is the ordinary path,
`RenameRetry` and `RenameGivesUp` the bounded retries, and `MakeRoom`, `Backup`, `CopyBegins`, `CopyEnds`,
`CopyFails`, `PutBack`, `DropNew` the copy fallback with its `.bak`. A crash is the death of the process; the order in
which a power failure loses unsynced data is left out. Callers serialise calls on one path.

### CredentialStore

A place (pool, bin, either file) maps an id to how many entries it holds with it, so that a doubled id is visible.
An operation changes memory in one step and then owes its writes, which other threads' operations and writes
interleave with: `DeleteCredential`, `DeleteWritesTrash`, `DeleteWritesPool`; `RestoreCredential`,
`RestoreWritesPool`, `WritesTrash`; `PersistOnly`. A delete that cannot write the bin takes its entry out of it under the
bin's lock (`RollBack`) and pushes it into the pool under the pool's (`PutBack`); in between it is in neither, only in the
hands of that thread (`Carrying`, `InHands`). `PersistElsewhere` is any of the many other operations that write the
pool. `CrashAndStart` is the death of the process and `MultiTokenManager::new`.

The credential material is its key, what the duplicate checks compare: the refresh token, the API key, or the URL and key
of a custom API. `AddChecks` compares the key it was called with and leaves it in `request`; the validation then awaits
the identity provider and may fail (`AddInvalid`) or exchange a refresh token for another one of its account
(`Validated`, `Accounts`), and `AddPushes` compares the key it came back with. An API key or a custom API is taken as it
is. `RestoreCredential` compares refresh tokens and API keys and lets a custom API in unchecked (`Unchecked`), as the code
does. The refreshes of entries already in the pool are left out: each leaves its entry with a token no other entry has,
and so can only tell entries apart. Field edits are left out, and that administrators may only delete disabled entries
unless they force it, by allowing every delete. Cooldowns appear as the set of ids that have one, in memory and in their
file, because they are per-id state that outlives a restart.

### PoolLifecycle

`reason` is `disabled` and `disabled_reason` in one. Each report is one critical section and one action.
`report_success` takes three locks one after the other and is three actions (`ReportSuccess`, `ResetStreak`,
`CountSuccess`); self-healing is `SelectNone` (nothing selectable), `SelfHeal` (entries lock) and `RecordRevived`
(after its release). `Tick` is the clock. Cooldowns and health are the set `able` of what a request can use now.
`report_suspicious_activity` is modelled with `auto_disable_suspicious` on.

### Acquire

`pc` follows the loop of `acquire_context_excluding`: select; if nothing, quota recovery and a second selection, then
self-healing and a third (`none`, `again`, `heal`, `last`); then `transient_wait_outcome` (`outcome`) and its four
answers; the fallback over cooling credentials (`cooling`); the token (`token`, `fallbackToken`). `Picks` and
`Immediate` are the two formulations of the gates. Over-approximations: the sort key, ramp tiers and session affinity
choose freely among what the gates leave; which wait is the shortest is free; a quota recovery may find something in
every round, while the code rate-limits it. `Moves` names the gates that other steps may change in an instance. A wait
is bounded by `MaxWaits`, the sleeps that fit into `MAX_TRANSIENT_WAIT_SECS`. The custom API path is left out.

### Gates

Time is what is left of a cooldown or an open window, or what has passed since an expiry, a settled decay or a touch;
`TimePasses` moves all of it, and nothing else happens on its own, as in the code. `Cooled` is
`set_cooldown_with_duration`: the new reason replaces the old one, the longer of the two expiries stays, and the
trigger count grows or starts anew after `DECAY_WINDOW_SECS` of calm. The circuit is `on_success`, `on_429`,
`on_suspicious`, `settle` and `cleanup`; `Read` is the snapshot that a selection takes, which settles an open circuit
and the decay. Reports are one action for both halves, as the `report_*` functions of `token_manager.rs` make them.
`Restart` reads the cooldowns back and forgets the circuits. Durations are tables (`Length`, `Backoff`), probabilities
are in thousandths, the EWMA values are left out.

### TokenRefresh

The identity provider accepts a refresh token until it has issued its successor; a token is the login it comes from
and how often it was rotated. Each await of `refresh_token_locked` separates two actions: `TakeLock` (with the second
look at the entry under the lock), the call and its retries, `WriteBack`, the region resolution, `Persist`. `Abandon`
drops the future at any await, `Restart` loses memory, `StoreToken` is the administrator's new login. A request waits
for the lock with a timeout, which only its own call notices.

### ProfileArn

One credential's ARN, in memory and on disk (`arnOnDisk`), and five kinds of task that copy the credentials, await an
answer and then write: the refresh, the resolution after it, the region probes (foreground and background), the usage
query and the administrator. The write of the file comes later, after more awaits, and may fail. `BackgroundProbe` takes
`reprobe_in_flight` (`bg`) whatever the credential is and then waits for a valid token; `TokenValidated` is what
follows: the early returns under the flag (no token, not an external-IdP credential), or the copy and the probe.
`missed` remembers the two exceptions the code accepts: the last write of the file failed, or a refresh was dropped after
its write-back.

### UpstreamCalls

`stage` follows one client request: the relays of the passthrough; then absorb rounds, attempts and endpoint hops of
`call_api_with_retry`; the fallback model; the compress retries and the reopening of a silent stream in the handler. Every
class of answer the code tells apart is an action with the reports it makes and the sets of the call it updates.
`used` is the `SharedRetryBudget`; `sent` counts what was really sent. A deadline may have passed wherever the code looks
at the clock. `ready` are the credentials that the gates let through when an attempt selects, any set of the pool's, tried
ones included; `Selectable` prefers the untried among them. `back` are the credentials that a call took out of its tried
ones again: a corrected token, region or endpoint. Left out: the hedged second request, overage billing, and
how the pool chooses.

### WebSearchLoop

Two tasks: the loop asks the model, runs the searches of a round through `call_mcp` and `call_mcp_direct`, feeds them
back and asks again; the forwarder writes the client's stream from the hops it receives, and at the end, at a panic of
the loop or when the client leaves, writes the request's own usage record from the result or from the progress cell.
`noted` counts the records the provider writes meanwhile: `mcp` for each call of `call_mcp_with_retry`, well or badly
ended (a success is recorded before its body is read, so a body that is no MCP answer has one too), `failed` for each
failed call of the model. The direct call writes none. The client may leave at any step.

### MessageStream and SseStream

`MessageStream` is the contract with the client: a log of events and, in `Legal`, which event may come next. A
`content_block_start` is named by the kind of its block, so that the contract can say which blocks may be open when
another starts (`Beside`). Comments ask for none; the code stops the open text before a tool and the open thinking
block before a text or a tool, but lets tools run side by side, starts a text beside an open tool, and starts thinking
inside an open text or beside a tool. So the contract is: never two texts or two thinking blocks open, nothing but a tool
beside a starting text or tool.

`SseStream` is the code: `StreamContext` is a record (blocks, the open text and thinking block, tool calls, held back
text, stop reason) which the operators transform as the functions of the same name in `stream.rs` do, and the actions
are the arms of the `select!` in `create_sse_stream` and `create_buffered_sse_stream`: a frame, an undecodable frame
(`EventStreamDecoder`, which gives up after `MaxErrors` in a row), a read error, the end of the upstream, the
first-token deadline, and the client that takes events or leaves. `mode` is the handler: "plain", "retry" (first-token
retry on) or "buffered", where all events wait in `initial` for the end and may outgrow the buffer (`full`). `noted`
counts the records the provider writes of a reopening that failed (`GivesUp`). Of texts only the effects of the
filters are kept. Pings are left out. The two handlers place an error differently: the passing one after
`message_start`, the buffering one before it, or alone for an empty answer, so `MessageStream` allows an error
anywhere before `message_stop`. `M == INSTANCE MessageStream WITH log <- sent` is the refinement mapping: what the
client took is the log of the abstract specification, and every step of the code is a legal event or a stutter.

## 3. Runs

| Run | Checks | Shows |
|---|---|---|
| `debounced_save` | `FlushCoversEarlierChanges`, `UnsavedIsMarked`, `DiskNeverGoesBack` | two workers, three changes, two flushes, crashes anywhere: the protocol is right but for the one race named below |
| `fs_atomic` | `ResultIsTrue`, `TornOnlyByFallback`, `OneCallKeepsACopy` | four writes, each step failing or being the last |
| `credential_store` | `MissingIsPending`, `NextIdFresh`, `NoUnwantedTwins`, `WritesMoveNothing` | two handlers, four operations and requests, three ids; an account with two refresh tokens and a custom API; failing writes and crashes |
| `pool` | `TypeOK`, `EnabledHasHeadroom`, `TerminalUntilAdmin`, `DisabledOnlyAfterHits`, `PoolNotStuck` | two clones of one account under every order of reports, recoveries and administrators |
| `acquire` | `InflightExact` | two requests race for two credentials with one slot each |
| `acquire_gates` | `GatesAgree`, `FallbackRotates`, `RequestEnds` | the gates move as adversely as they like: the two formulations agree, the fallback takes turns, the request ends |
| `gates` | `CoolsUntilLongest`, `DeadIsNotShallow`, `RecoveryIsEarned`, `PenaltiesEnd` | two credentials of one family, up to three failures in any order with reads, clearing, evictions and restarts between them |
| `token_refresh` | `NoReplay`, `InvalidOnlyIfLost`, `AdminTokenKept` | three calls of `refresh_token_locked` at once against a provider that rotates, with lost answers, dropped futures, a new login and restarts |
| `profile_arn` | `UnsavedArnIsOwed`, `ProbeFlagHasTask` | three tasks write one ARN across their awaits, with failing writes, dropped futures and restarts |
| `upstream_calls` | `BudgetHolds`, `ReportedOnce`, `SilentNotReselected`, `RequestEnds` | two pool credentials and a relay under every class of answer at every hop: one budget holds, reports are made once, the request ends |
| `web_search` | `BudgetHolds`, `OneTrueRecord`, `StreamComplete`, `BothEnd` | the loop and the forwarder with failing searches, an exhausted budget, panics and a client that leaves; the records of the calls counted beside the request's own |
| `sse_stream` | `OneTrueRecord`, `FollowsProtocol`, `NoReopenAfterBytes`, `FirstTokenDecides` | every order of three frames and errors in both handlers, a full buffer, a reopening that works or fails, and a client that leaves: the code implements `MessageStream`, and its records are those of what it did |

The largest run is `upstream_calls` (1.8 million states); no run takes longer than three minutes with two workers.

`TypeOK` says of every module what its variables range over. It is checked where a bound in it is a claim about the code
(`pool`) and proved of every module but Gates; there (`GatesTypeOK`) it is documentation, and holds on the instance of the
run when it is added to its cfg.

Every property of a passing run has a mutant in `PROJECT.json`: a definition changed the way a plausible mistake would
change that code, under which TLC finds the property violated.

### Where comments and code disagree

The models were written from the code. At the places below a comment or a document of the repository promises more than
the code does. The formula states the promise where it is short; TLC refutes it on the instance of the run named (add it
to the cfg to see the behaviour), and the property in the third column is what does hold.

| Promise | Formula and run | What holds |
|---|---|---|
| `cooldown.rs` 757-759: the order of `version` and `dirty` in `mark_dirty` keeps `save` from wiping a fresh mark. `save` compares and clears in two accesses (842-843), and a `mark_dirty` that runs between them is wiped; with its debounce window still closed, neither it nor a later `flush_now` writes the change. | `(~dirty /\ \A t \in Threads : pc[t] = "idle") => disk = mem`, `debounced_save` | `UnsavedIsMarked` |
| `fs_atomic.rs` 172-174: at worst a whole `.bak` remains. After a fallback that was cut off `.bak` is the only whole copy, and the next fallback removes it first (178). | `(saved /\ at = "idle") => Whole(target) \/ Whole(bak)`, `fs_atomic` | `OneCallKeepsACopy` |
| `token_manager.rs` 10095-10096: writing the bin before the pool never loses an entry. Another `persist_credentials` between the move in memory (10022) and the write of the bin does write the pool without it; a crash then loses it. | `stored \subseteq Holds(poolFile) \cup Holds(binFile)`, `credential_store` | `MissingIsPending` |
| `token_manager.rs` 2228-2231: per-id state is empty after a restart, so `next_id` may start from the files (2804). The cooldown file is read back. | `nextId \notin cooled`, `credential_store` | `NextIdFresh` |
| `token_manager.rs` 4868 and 4989: the fallback relaxes only the cooldown gate, and the RPM window is a ceiling. The fallback filters without that gate (5058). | `HardGate => \A i \in Creds : rpm[i] <= RpmLimit`, `acquire` | `InflightExact` |
| `provider.rs` 3109-3113: one credential is penalised once per client request. A failed refresh reports an auth cooldown (4342-4346), and the same answer, bearer-invalid from a credential that has succeeded before, reports another one (4377-4387). | `\A c \in Creds : auths[c] <= 1`, `upstream_calls` | `ReportedOnce` |
| `token_refresh_http.rs` 276-281: an ARN found after an await is not written over one that was changed meanwhile. The usage query's backfill (`token_manager.rs` 9028-9037) writes it unconditionally. | `[][\A t \in Tasks : at[t] = "backfilling" /\ at'[t] = "persist" /\ arn' # arn => arn = seen[t]]_arnVars`, `profile_arn` | the comparison `UnchangedSince` in the three other writers; `UnsavedArnIsOwed` |
| `websearch.rs` 2102-2105: when the budget runs out the unanswered search is taken back, so the client gets no orphan. Its `server_tool_use` was already streamed when the search began. | `fwd = "ended" /\ ~gone /\ result.kind = "ok" => \A i \in DOMAIN sent : sent[i] = "begin" => i < Len(sent) /\ sent[i + 1] = "done"`, `web_search` | `StreamComplete` |
| `token_manager.rs` 9793-9841: the comment above the second duplicate check, which closes the window in which two adds of one account leave two entries. It compares refresh tokens, and the validation may have exchanged them: two adds of one account with two tokens, or with one token that was rotated in between, both get in. | `\A i, j \in Holds(pool) : (i # j /\ \E a \in Accounts : {keyOf[i], keyOf[j]} \subseteq a) => {i, j} \cap twins # {}`, `credential_store` | `NoUnwantedTwins`, of equal keys |
| `handlers.rs` 1149: paired with the path of success, one record for one client request. A request of the search loop has a record for each MCP call beside it, and a failed round is recorded by the provider (5086-5120) and by `on_err`. | `Len(records) + noted.mcp + noted.failed <= 1`, and `fwd = "ended" /\ records[1].kind = "err" => noted.mcp + noted.failed = 0`, `web_search` | `OneTrueRecord` |
| `handlers.rs` 3766-3768: a reopening is not worth a record, the end of the new attempt makes it. When the reopening itself fails, `call_api_with_retry` has recorded the failure (`provider.rs` 5086-5120) and the guard records it again. | `noted + Len(records) <= 1`, `sse_stream` | `OneTrueRecord` |
| `stream.rs` 1947-1948, 2889-2891, 3362-3366, 3484-3489: the current block is stopped before the next one starts, since clients do not take interleaved blocks. Thinking is started in an open text (1965-1984, 2694-2709), and `handle_content_block_start` (468-484) stops no open tool. | `[][sent' # sent /\ Last(sent').type \in M!Kinds => M!AllClosed]_vars`, `sse_stream` | `FollowsProtocol`, with what `Beside` allows |

Three more things the models show and no formula states: after a crash between the two writes of a delete the id is in
both files, a forced restore doubles it, and the next start refuses `credentials.json`; a request that can use only a
part of the pool sets off the self-healing of all of it; and a success of an earlier batch of revived credentials can
reset the streak of a later one (`token_manager.rs` 6804-6807).

### Bounds

- *DebouncedSave*: two workers are a saver and a changer; the race needs one of each. Three changes make "older",
  "newer" and "newest" different; two flushes let one wait for the other. The safety properties are proved for any
  number of threads, changes and flushes.
- *FsAtomic*: a fallback, an interrupted one and one more need three writes; the fourth shows the recovery. Two rename
  attempts are one retry and giving up.
- *CredentialStore*: two threads and four operations or requests give delete‖persist, add‖add, delete‖delete with a
  rollback and delete‖restore, with something done before; three ids are the initial one and two new ones. The keys are
  the two refresh tokens of one account, which the validation may exchange for each other, and a custom API; an API key
  is like a refresh token that is never exchanged. The system may stop when the operations are used up, so deadlock is
  not checked. The four properties are proved for any number of each.
- *PoolLifecycle*: two clones are needed for a shared count. The suspicious threshold of three gives a first, a middle
  and a last report; the other two are one, since with them every state space beyond this one is too large for a
  liveness check, and the theorems cover every threshold. A base back-off of one with one doubling and a cap of two
  lets it grow, reach the cap and stay there.
- *Acquire*: one slot and one request per minute make every limit reachable with two credentials. Every budget is one,
  so each runs out. `acquire` lets two requests race while the rate limiter moves and leaves the other gates alone to make
  room for the second request; `acquire_gates` moves cooldowns, blocked models and disablings with one request. `TypeOK`,
  `InflightExact` and `GatesAgree` are proved for any number of requests and credentials.
- *Gates*: two credentials of one family share a circuit and keep their own cooldowns; of three failures two trip the
  circuit (`TripAt` 2) and the third opens it again from half open, with a success before it, and lets a suspicion's
  cooldown grow to its cap. All durations are small numbers with the order the code's have: only the cooldown of a dead
  credential (`AuthenticationFailed`) is longer than every Retry-After. The three safety properties are proved for any
  number of failures and any tables.
- *TokenRefresh*: three calls, one rotation per login, two logins, two attempts: a call can wait while another rotates,
  lose its answer and retry, or meet a login stored meanwhile. The system may stop when the rotations are used up, so
  deadlock is not checked. The three properties are proved for any number of each.
- *ProfileArn*: a task that was overtaken, the one that overtook it, and one more; two ARNs are old and new, and the old
  one can come back. The three auth methods differ in who probes and who may switch. Both properties are proved for any
  number of tasks and ARNs.
- *UpstreamCalls*: an API-key credential with two endpoints and an external-IdP credential cover the branches that ask for
  the kind; three calls (the code has four) let every pair of nested retries meet and the budget run out between them.
  `compute_max_retries` is at least three. The external-IdP credential has succeeded before, the API key has not, which
  decides what a refused authentication means. The three safety properties are proved for any of these numbers.
- *WebSearchLoop*: two rounds of two searches, six calls and two attempts per MCP call: a budget that lasts, ends in a
  round of the model, and ends in the middle of a round of searches.
- *SseStream*: three frames give every pair of block types and what closes them; two tool ids, one interleaved with the
  other; one reopening; two decoder errors in a row (the code has five) stop it after a frame and before one. The order
  in which the pending tools of a hash map are flushed is every order. The three safety properties are proved for any
  finite set of tools and any number of frames, pieces, retries and errors. A reopening is one step: that its upstream
  call ends is what UpstreamCalls shows, and a call that hangs for ever is not covered.

### Fairness

- `PoolLifecycle!FairSpec`: the clock advances, a request that has begun goes on, and requests keep arriving for which
  the whole pool would do (strong fairness on `SelectNone(t, Creds)`). Without traffic nothing heals, in the code too:
  self-healing runs only inside `acquire_context_excluding`.
- `Gates!GatesFairSpec`: time passes, and requests keep being selected for, which reads the circuit (`Read`). Failures owe
  nothing and are bounded, so "no more failures" does come; successes are not assumed.
- `UpstreamCalls!FairSpec`: the request's task is polled and each upstream call has a timeout. That the client then asks
  again is not assumed.
- `WebSearchLoop!FairSpec`: both tasks are polled; the client takes events or leaves.
- `SseStream!FairSpec`: the client takes events or leaves (`Deliver`, `SendInitial`), and the first-token deadline is
  a timer. Of the upstream nothing is assumed: it may be silent for ever.
- `Acquire!FairSpec`: a request in the loop takes its next step (tokio polls it again after each sleep). Using the
  credential is not fair: a stream may last as long as its client likes. The gates owe nothing.

## 4. Proofs

Every theorem is for every value of the constants that satisfies the named assumptions of its modules:
`LifecycleConstants`, `AcquireConstants`, `TokenRefreshConstants`, `NoFlightIsNone`, `NoThreadAssumption`, the
`BoundsAssumption` of DebouncedSave, of WebSearchLoop and of SseStream, `FsBounds`, `StoreBounds`,
`UpstreamCallsConstants`, `NoCredIsNone`, `TableAssumption` and `NumberAssumption`. They say that bounds are natural
numbers, that "nobody" is nobody, that Gates' tables have a row for each count they are read at, that limits and
thresholds are not zero where the code's are not, that the tool ids of a stream and the threads of the store are
finitely many, and which sets of credentials or keys are part of which; TLC evaluates them on every run. No theorem
has another hypothesis. Three of the eight proof modules extend two components: HealthProofs what reports do to a
credential, PersistenceProofs those that write files, TokenRefreshProofs the two halves of a refresh. Their
specifications stay separate, and the two components share no name.

**HealthProofs**, for PoolLifecycle. `TypeCorrect` (no counter passes its threshold, which needs that no report counts
on a disabled entry), `Headroom`, `TerminalStays`, `EarnedDisable`. `IInv` is `TypeOK`, `EnabledHasHeadroom` and
`HitsCover`: what an entry has counted is at most the suspicious reports on its account since the last success, and
those are the same for all clones. `EnabledHasHeadroom` is needed in turn to bound the maximum that
`report_suspicious_activity` takes. `MaxOfBounded` shows that the `Max` of the community module is a maximum.

For Gates: `CoolsAsAnnounced`, `DeadStaysDeep`, `RecoveryEarned`. `owed` is the history that knows every announced
cooldown, the entry only keeps the latest reason and the longer expiry. `LeftIsOwed`: the rest of the entry equals
what is owed, and what a dead credential is owed is part of it; that is stronger than `CoolsUntilLongest` (which only
compares with zero) and is what one `TimePasses` keeps. `CoolTypes` bounds the trigger counts by the reports, so that
the tables have a row. `SamplesAreRecent`: a half-open circuit has counted no more successes than there were since the
last failure; this needs that the count starts anew with each half-open period. Of a circuit's numbers no other is
constrained.

**AcquireProofs.** `TypeCorrect`, `InflightCorrect`, `GatesAlwaysAgree`, `FallbackSpreads`. `IInv` is `TypeOK`,
`InflightExact`, `GuardHeld` (a request holds a guard exactly at the places between a commit and a drop) and
`AttemptLeft` (past the head of the loop an attempt is left), so that a drop finds its guard and a commit finds a free
slot. `GatesAgree` needs no induction over the loop: it follows from the gates alone. `FallbackRotates` compares the
set of all that was picked while one waited (`turns`) with the next pick, and needs to know where the cursor was:
`Rotating` says that what was picked while j was passed over does not come before j when one goes up from the cursor
and round from the top, and that the cursor is not at j. A pick k moves the cursor to k, the first of its pool behind
the old cursor (`PickIsNext`); whoever was passed over in its favour comes behind k, and behind everything picked
before. So the one picked can only be in a set of `turns` again once that set's owner was picked or was not a
candidate.

**CredentialStoreProofs.** `TypeCorrect`, `NothingForgotten`, `IdsAreFresh`, `TwinsAreWanted`, `WritesConserve`.
`MissingIsPending` speaks of what is in neither file, and a write of one of them may make anything such: the invariant
`StoredSafe` follows every durable credential instead. It is in the pool, in the hands of a roll back, or in the bin and
then in `trash.json` too or in the care of the delete that has still to write it. Purges take it out of `stored`, a
restart reloads both files. The case that matters is the write of the bin that fails: the roll back takes one entry of
that id from the bin, or finds none in it, and then a restore has put it back already or a purge has given it up; what
it took it pushes into the pool later, whatever has happened to the two places meanwhile. `NextIdFresh` needs the
maximum of a finite set to exist (`MaxOfBounded`, by well-founded induction on the naturals), since a restart computes
the counter from the files, and covers the ids in hands. `NoUnwantedTwins` has to be carried over a restart, which loads
`credentials.json`: `NoTwinsOnDisk` is the same of the file. `WritesMoveNothing` is proved per write; the two halves of a
roll back move one entry between a place and the hands that `Carrying` counts, which is why the threads are finitely
many (`CarryingCounted`).

**UpstreamCallsProofs.** `TypeCorrect`, `BudgetKept`, `ReportsAreOnce`, `SilentIsLastResort`. Six kinds of retry share
one budget, so the invariant says of each stage what it may rely on (`Placed`): an attempt under its quota, a
credential of the pool, an endpoint left. `Drawn`: what was sent is what was drawn from the budget, the passthrough's
hops included. `Counted`: a credential that was reported is in the call's set of those reported, which is what
suppresses the second report; the sets outlive the rounds of a call and not the call. `Remembered`: a call starts with
the excluded credentials as tried, and whatever takes one out of `tried` puts it into `back`. So when one is selected
again it was not the preferred choice, which means that the gates left no untried one, or this call has given it back.

**WebSearchLoopProofs.** `TypeCorrect`, `BudgetKept`, `RecordIsTrue`, `StreamIsComplete`. The two tasks share a
channel, a progress cell and a result, and each may be anywhere when the other ends. `Drawn` ties the attempts of one
MCP call to the shared budget, with one left for the direct call. `Counted` bounds the searches of a round.
`Accounts`: the cell is published before anything else happens to a round, and the result agrees with it. `Recorded`
follows the usage record along the forwarder's stages: there is none while it forwards, and one, with at least the
rounds of the moment the client left, at its end. `Streamed` says what the stream and the channel hold *together*:
their i-th event is `Due(i)`, and their length is a function of the searches shown, so nothing is lost or repeated
between the two. `Cardinality` of the searches shown is then counted with a bijection (`DoneCount`). `Noted` is a second
invariant, of the provider's records along the loop's way: there is one of each result, one more of the search that went
on to a direct call or ended the loop, and one at least for every round called again compressed.

**TokenRefreshProofs.** `NoReplayHolds`, `InvalidEarned`, `AdminTokenStays`, `TypeCorrect`. `NoReplay` speaks of the
copy a call took; why that copy is good depends on the entry, and the entry is behind the provider from the moment it
rotates until the write-back. The invariant says how far: `LockHeld` (who calls or has an answer holds `refresh_lock`,
so there is one), `EntryGood` (the entry's token is accepted, or its login was lost, or the one call that has the
successor copied exactly that token), `AnswerGood` (that successor is accepted), and `CopyFollowed` (during a call the
entry changes only to a newer login), which makes the stale check of the write-back sufficient. `RejectedLost` carries
a refusal to its report.

For ProfileArn: `ProbeFlagCleared`, `UnsavedArnOwed`. `ArnInv` is the type invariant, with one task at a time in a
refresh and one at a time in possession of `reprobe_in_flight`, `ProbeFlagHasTask` and `UnsavedArnIsOwed`. Whoever writes
the ARN becomes itself a task that owes the file; the case that matters is a task that stops owing while another's ARN is
in memory, and there it has written the file, failed to, or was dropped, which `missed` remembers.

**PersistenceProofs.** For DebouncedSave: `SavesTyped`, `UnsavedMarked`, `FlushCovers`, `DiskMonotone`.
`DiskNeverGoesBack` is not inductive: a thread about to write could hold an old snapshot. The invariant adds
`LockHeld` (whoever is inside `save` holds `save_lock`, so there is one), `SnapBetween` (its snapshot is between the
file and memory, because it was taken under the lock and nobody else writes), `WrittenIsSnap`, `GoalKept` (a flush's
snapshot covers its goal) and `QuietVersion` (if the version has not moved since the snapshot, every change since is
still on its way to being marked), which carries `UnsavedIsMarked` over the comparison of versions.

For FsAtomic: `ResultHolds`, `NotTorn`, `CopySurvives`, for any number of writes and of rename attempts. What a call
may rely on depends on where it is, so the invariant `Held` says it per region of `at`: until the old file is moved
aside the target is as the call found it (`Untouched`); from the rename on the temporary file is whole (`TmpWhole`);
on the fallback the flag `hadOld` is right (`OldKnown`) and the old file, if there was one, is the backup
(`OldInBak`). With these `OneCallKeepsACopy` holds in the window in which the target is being overwritten, and `Err`
finds the old file to put back.

**SseStreamProofs.** `StreamTyped`, `RecordIsTrue`, `NoReopenHolds` and the refinement `StreamRefinesProtocol`. The
rules of MessageStream are restated in `May(S, e)`: may e follow the set S of events? A log is `Proper` if each of its
events may follow those before it, so that a log can be extended by one event or by a batch without looking at it
again. What the client has (`sent`), what waits for it (`outbox`) and what a buffering or not yet committed handler
holds back (`initial`) are *one* log, `All`; the protocol of `sent` alone would not be inductive, since a step delivers
what an earlier one decided. The invariant `StreamInv` has four parts:

- `Going`: until the stream has ended, `All` is proper and the context stands behind it (`Good`): exactly its blocks have
  been started, exactly its closed blocks stopped (`Told`), each under its own kind (`Kinded`), the block of each tool
  is a `tool_use`, the message has begun and not ended, an error was told if and only if the context says so, and while
  thinking goes on the thinking block is open (`ThinkOpen`; `create_thinking_delta_event` asks nobody). `Current`: the
  only text that may be open is the context's current one, the only thinking block the one in which thinking goes on. So
  whatever an operator does not know to be open is closed, which is what `Beside` asks of a block that starts.
- `Closing`: once it has ended, the log is proper, and its end is what the record says (`TrueEnd`).
- `Recorded`: the usage record is written when, and only when, the guard was used or dropped. A second invariant,
  `Noted`, says that the provider has recorded at most one failed reopening, which ended the stream.
- `Typed`.

Under it lies one lemma for every operator of `StreamContext`, from `StopBlock` and `Delta` to `FinalEvents`: behind
any log the context stays good and never turns from failed to ok again (`Serves`), and `FinalEvents` ends the log
(`Ended`). The loops (the pieces of a text, the pending tools, the blocks closed at the end) are recursive functions
over their position or over a finite set; that such a run exists, and that each of its steps serves, gives the end by
induction over positions stated as a set (`Steps`), which needs no operator parameter. `InsertError` is about the handlers
that put the error of a failed answer before the events that are still to be sent: wherever in a proper log the error is
put before `message_stop`, every later event stays legal. A reopening starts with a new context, and
may only do so while nothing was sent or waits (`MayReopen`); it then begins behind the events that a context always
begins with (`FreshGood`).

Only model-checked:

- the liveness properties (`PoolNotStuck`, `RequestEnds` of Acquire and of UpstreamCalls, `BothEnd`, `PenaltiesEnd`,
  `FirstTokenDecides`), which are outside the prover;
- `GatesTypeOK`: it contains the powers of two of the back-off, and facts about `^` need induction.

## 5. Plan

1. *Throttle* and *RateLimiter*: token buckets with integer arithmetic, waiters and deadlines; then Acquire's gates
   `limited` as steps of it.
2. *UsagePipeline* (bounded channel, drain at shutdown).
3. *Rollback* (boot counter, health mark, guard script) and *Shutdown* (flush and drain, with DebouncedSave).
4. Endpoint health, session affinity, login sessions.
5. A refinement of DebouncedSave and CredentialStore to a store whose write is atomic, with FsAtomic's rename path
   shown to implement it.

## 6. Not modelled

Request and response conversion, token estimates, wire types, configuration parsing, HTTP clients, the admin user
interface, logging and metrics are transformations or I/O without shared state of their own. Floating-point scores
(availability, the sort key of the selection) are free choices where they appear. Texts are reduced to their effects:
that a filter finds a tag split over two frames is not shown. Memory orderings weaker than sequential consistency and
power loss are left out. The components of the plan that have no module yet are listed with status `not_modelled` in
`PROJECT.json`, and their hazards carry the note which module will cover them.
