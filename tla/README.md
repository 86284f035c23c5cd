# Lumine hedge fund: specifications, model checking and proofs

TLA+ modules of the trading backend in `src/backend/src/lumine` (Python,
asyncio, PostgreSQL, Redis, an MT5 terminal behind an HTTP proxy) and of the
agent server it deploys, `src/infrastructure/hermes/gateway/platforms/api_server.py`;
TLC configurations that check them on small instances, and TLAPS proofs about
them for every value of the constants. Paths below without a leading `src/` are
relative to `src/backend/src/lumine`; `AS` stands for the agent server's file and
`EA` for `src/scripts/deploy/mt5/LumineEA.mq5`.

Contents: [the system](#the-system), [modules](#modules),
[runs](#runs), [what the properties say](#what-the-properties-say),
[fairness](#fairness), [proofs](#proofs),
[disagreements found](#disagreements-between-code-and-documents),
[observations](#observations-the-models-contain),
[what is not modelled](#what-is-not-modelled), [next](#what-could-come-next),
[how to run](#how-to-run).

## The system

A decision cycle (`autogen_pipeline/orchestrator.py`) asks LLM analysts through
a gateway, debates, assesses risk, sizes, validates the risk deterministically
and obtains a portfolio-manager verdict. It writes its reasoning traces, journal
and lineage record to hash-chained tables, and only then dispatches an order. The
execution router pushes the command to a Redis list; the terminal polls the list
through `redis_http_proxy.py`, executes at the broker, and publishes a result on
a Redis channel. Cycles and halts are requested through a Redis stream. Beside
them stand orders entered over REST, which share the terminal's list and channel,
the ingest of ticks, bars, positions and deals, event streams to browsers, the
anchoring of the chains in a WORM store, and the agent server, which answers the
model calls and serves interactive agent turns.

The whole API (handlers, RPC worker, scheduler, ingest workers) runs in one
uvicorn process without `--workers` (`src/backend/Dockerfile:59`) under
`restart: unless-stopped` (`src/backend/docker-compose.vps.yml:83`). Concurrency
is therefore the interleaving of coroutines at their awaits, other containers and
the terminal on the other side of Redis, and process crashes between any two
awaits. The agent server is one aiohttp process whose agent turns run in executor
threads beside the event loop.

### Components

| Component | State it keeps | Operations | Hard behaviour | Correct when | Model |
|---|---|---|---|---|---|
| Execution router and bridge client: `trade_core/execution_router.py`, `bridge/` | `processed_commands`, `fills`, `tca`; dedup claims in Redis | `dispatch`: lookup, claim, push, wait, record, release | two gates in two stores, a result that may come late, twice or never, a failing transaction after a real trade | one execution per claim window; what is on record happened | `Dispatch` |
| MT5 terminal and HTTP proxy: EA, `src/backend/scripts/redis_http_proxy.py` | result queue in memory | poll, execute, queue and post results; push positions, deals, history | lost responses on both ways, restarts, late requests | a command is acted upon at most once per push | `Dispatch`, `OrderLifecycle`, `PositionSync`, `Bars` (partly) |
| REST orders: `api/routers/orders.py`, `trading/mt5_bridge.py`, `data/repositories.py` | `orders` rows, one subscription | create, modify, cancel, cancel all; result handler; deals worker | commit then push, statuses written by whoever comes last, pop before commit | no invented fill, one execution, every fill comes to light | `OrderLifecycle` |
| Audit hash chain and verifier: `security/hashchain.py`, `security/verifier.py`; writers `autogen_pipeline/traces.py`, `autogen_pipeline/journal.py`, `data/lineage.py` | three chained tables, one advisory lock each | stamp, lock, read head, hash, insert, commit; backfill; `verify_rows` | parallel analysts, order by a clock read before the lock, updates of hashed rows | forks come from inversions only; honest tables verify | `AuditChain` |
| Anchoring: `security/anchoring.py`, `security/worm_local.py`, `security/worm_stub.py` | anchor rows, cadence state, WORM objects | anchor on cadence | object stored before the commit; sequence numbers; failed statements | anchors in order, on committed rows, equal to their copies | `Anchoring` |
| Decision orchestrator: `autogen_pipeline/orchestrator.py` and stages | a cycle's context; traces, journal, lineage | `execute`, run a stage, checkpoint, write lineage, backfill, dispatch | many awaits between verdict and order, deadlines, analysts that outlive their cycle | evidence before dispatch; an order within its limits; a cycle ends | `DecisionCycle` |
| Risk and sizing: `trade_core/risk_validator.py`, `trade_core/sizing_calculator.py`, `autogen_pipeline/risk_assessor.py` | none | pure functions over `Decimal` | rounding, multiplier, clamp to the broker's bounds | size within policy and limits | `RiskSizing` |
| LLM gateway: `llm_gateway/` | permits, breakers, spend, usage rows | `invoke`: admit, budget, breaker, post, fall back, account | permits over many exits, breakers over concurrent calls | no permit is kept for ever | `LlmGateway`; the other gateway's budget gate and route chain in `DecisionCycle` |
| RPC queue and worker: `rpc/queue.py`, `rpc/worker.py`, `api/routers/rpc.py` | stream, consumer group, pending list, receipts, results | four endpoints, scheduler, poll, check, handle, store, acknowledge | crash at every await, lost replies, receipt racing the result | at most one effect per command, nothing acknowledged unanswered | `RpcQueue` |
| Kill switch: `api/routers/admin.py`, `trade_core/reconciliation.py`, halt/resume handlers | one Redis key, a hash or a string | set, arm, halt, resume, read | read once, long before use; two value types | no cycle runs while armed | `RpcQueue` |
| Background workers: `api/app.py` | scheduler lock, bar in progress | scheduler; tick, flush, seed, deals and result workers | pop before commit, state across awaits, bare excepts | a tick is counted once, in its minute | `RpcQueue`, `OrderLifecycle`, `Bars` |
| Market data and positions: `data/collector.py`, `trading/position_sync.py`, `trading/market_service.py` | positions, snapshot lists | aggregate, resample, sync | read-then-delete, late snapshots and ticks, empty snapshots | closed positions stay closed; the table converges | `PositionSync`, `Collector` |
| HTTP middleware: `api/middleware/` | idempotency cache, rate buckets, replay cache | check, forward, store | check-then-act across an await, a shared buffer | a replay is the original answer | `Idempotency` |
| Event streams: `api/sse/publisher.py`, `api/routers/streams.py` | subscriber queues, replay buffers, counters | publish, subscribe, replay, relay | the gap between replay and subscription; iteration over a deque being changed | a client that reconnects gets what it missed, then every event in order, or is told of a gap (with the exceptions `StreamIsComplete` names) | `SseStreams` |
| Agent server: AS | runs, approvals, streams, stored responses, sessions, process epochs, shared results | admission, runs, approvals, stop, sweep, responses, conversations, sessions, forks, locks, turns | event loop against executor threads, clients that vanish, retries, handlers that await between check and act | see `AgentRuns` to `SharedCompute` below | `AgentRuns`, `AgentResponses`, `GatewaySessions`, `TurnProcesses`, `SharedCompute` |
| Backtest, indicators, features | none between calls | numeric code | - | - | not modelled |
| Prompt and agent registries | static data | load, verify hash | - | - | not modelled |
| Read-side routers and schemas | none of their own | queries | - | - | the bulk cancel only |
| Models and persistence helpers: `data/models.py` and others | table definitions | - | keys and nullability others rely on | - | the keys and columns used |
| AutoGen wrapper; frontend; infrastructure and scripts | - | - | restart policy | - | assumptions only |

What can go wrong in each, at the line where it bites, is the list "hazards" of
`PROJECT.json`, each with the properties that would catch it.

## Modules

| Module | What it is |
|---|---|
| `OrderLedger` | abstract specification: orders are submitted, executed, settled |
| `Dispatch` | the path of a decision from `ExecutionRouter.dispatch` to the broker and back; implements `OrderLedger` |
| `OrderLifecycle` | an order entered over REST, from its row to its fill |
| `PositionSync` | snapshots of open positions, and the worker that applies them |
| `Bars` | live ticks and seeded history in `bars_1m` and `bars_5m` |
| `Collector` | ticks into bars and bars into longer ones, as functions with their promises |
| `AuditChain` | one hash-chained table, its concurrent writers, the backfill and the verifier |
| `Anchoring` | anchors of a chain in the database and in a write-once store |
| `DecisionCycle` | decision cycles from the analysts to the order; extends `RiskSizing` |
| `RiskSizing` | sizing, clamp, multiplier and limits in integers |
| `LlmGateway` | `LLMGateway.invoke` |
| `RpcQueue` | command stream, producers, scheduler, worker loop, kill switch |
| `Idempotency` | the `X-Idempotency-Key` middleware of the API |
| `SseStreams` | publisher, subscriptions, replay buffers and stream generators |
| `AgentRuns` | admission, runs, approvals, stop, sweep and streaming completions of the agent server |
| `AgentResponses` | `/v1/responses` with its stored responses and conversations |
| `GatewaySessions` | sessions, model locks, forks, and which model a turn runs on |
| `TurnProcesses` | which background processes the reaper of an abandoned turn may kill |
| `SharedCompute` | `Idempotency-Key` of the agent server: one computation for all retries |
| `MCDispatch`, `MCOrders`, `MCCycle`, `MCAuditChain`, `MCRpcQueue`, `MCEdge` | the modules instantiated for TLC |
| `*_proofs` | theorems with TLAPS proofs |

**Composition.** Where components share state they are one module, or one module
stands for the other in it: the REST path's results are `ForeignResult` in
`Dispatch`; a dispatch is a step of `DecisionCycle` with the outcomes of
`Dispatch`; the journal's and traces' backfill is a step of `AuditChain` and the
commit that makes it is `CommitLineage` of `DecisionCycle`. Where components share
no state, one MC module carries several and a variable `moving`, chosen initially
and never changed, says which of them the behaviour moves, and within what budget:
the state spaces add up and do not multiply, and a property of a component is a
property of all behaviours. `MCOrders` extends `OrderLifecycle`, `MCCycle` extends
`DecisionCycle`; the other components are instances, each of whose constants is a
constant of the MC module, so that what is proved of the instance is proved for
every value of them. A bound that differs between two values of `moving` is a
variable the component fixes initially (`limit` and `budget` of `AgentRuns`,
`reads`, `bounds`, `left`), any of whose values the proofs cover.

| MC module | `moving` |
|---|---|
| `MCOrders` | `alone`, `edited`, `failing` (`OrderLifecycle`), `positions` (`PositionSync`), `bars` (`Bars`); evaluates `Collector` |
| `MCCycle` | `pair`, `solo` (`DecisionCycle`), `gateway` (`LlmGateway`), `anchors` (`Anchoring`, with a sink that keeps objects and with the one the code passes) |
| `MCEdge` | `two`, `mixed` (`AgentRuns`), `responses`, `recalled` (`AgentResponses`), `sse`, `idempotency`, `anew`, `again`, `pair`, `fork` (`GatewaySessions`), `processes`, `stopped` (`TurnProcesses`), `evicted`, `replaced` (`SharedCompute`) |

Operators named in a comment as "bug variant" (`TimeoutReleasing`,
`CollidesAndGoesOn`, ...) are not part of any specification. Each is a plausible
mistake in the operator that follows it; replacing the operator by its variant
makes TLC report the property that guards against it (`PROJECT.json`, "mutants").

### `Dispatch`

A caller is a coroutine of `dispatch`. Its `call` record holds where it is
suspended, its key `<<lineage, attempt>>`, whether a TCA context was given, the
messages its subscription has buffered, and the result it took.

| Action | Code |
|---|---|
| `StartDispatch` | the orchestrator's call, or a retry, with any lineage and attempt |
| `Lookup` | step 1: a row of `processed_commands` is returned as a replay |
| `Claim` | step 2: `SET NX EX 3600`; the loser raises `IdempotencyError` |
| `Push`, `Subscribe`, `Receive`, `Timeout` | `send_and_wait`: LPUSH, then SUBSCRIBE, then the `get_message` loop with its 30 s deadline |
| `Record`, `RecordConflicts`, `RecordFails`, `Release` | step 4: the transaction; a taken primary key; any other exception, a lost COMMIT acknowledgement included; deletion of the claim |
| `Abort` | process death, cancellation, a raising Redis or bridge call: no cleanup runs |
| `ExpireClaim` | the claim's TTL |
| `Serve`, `LoseCommand` | the terminal's poll: the command is acted upon, or was popped and its HTTP response lost |
| `PublishResult`, `PublishAgain`, `TerminalRestart` | result queue of the terminal: published, published and kept because the 200 was lost, lost with the process |
| `ForeignResult` | a result of the REST path on the shared channel; it does not validate as a `BridgeResult` |

Abstractions. Prices, volumes and the TCA computation are reduced to whether step
4 raises. `"filled"` stands for the statuses filled and partial, `"rejected"` for
the others. `ExpireClaim` happens only when no call works on the key: 3600 s
against a 30 s wait and a transaction. `sends`, `reopened` and the third element
of a token are history. The terminal answers as `bridge/types.py` and
`docs/08-trading/mt5-integration.md` say, or without a `command_id`.
`LumineEA.mq5` of this repository always takes the last alternative for the
router's BUY and SELL, because it knows only OPEN, CLOSE and MODIFY; the model
covers it, and a terminal that honours the contract.

### `OrderLedger`

`Submit` an attempt once, or again after its window was voided; `Execute` each
push at most once; `Settle` a decision once, after it was submitted, and as filled
only after it was executed. `Dispatch` maps `submitted <- sends`,
`executed <- executions`, `outcome <- processed`, `voided <- reopened`; that each
step of `Dispatch` is a ledger step or a stutter is the property `LedgerSpec`.

### `OrderLifecycle`

`row` is the orders table; `request[o]` says where the `create_order` handler of
`o` stands, and the transient records `editor`, `handler` and `batch` hold what
a handler has read and not yet written, for each of them reads a row, awaits, and
writes it back.

| Action | Code |
|---|---|
| `Create`, `Push`, `PushFails` | `create_order`: the row is committed; a market order goes to `send_command`, whose failure is swallowed |
| `ReadForCancel`, `ReadForModify`, `ReadAllPending`, `WriteEdit` | the handlers of `orders.py` and the bulk cancel; only the attributes that differ from what was read are written |
| `Execute`, `LoseCommand`, `PlacedFills` | the terminal's poll: filled, placed, rejected or in error, traded or not |
| `FlushResult`, `FlushUnanswered`, `TerminalRestart` | the terminal's bounded result queue |
| `ReadResult`, `CommitResult`, `SkipResult`, `CommitFails`, `ListenerDies` | `MT5Bridge.subscribe_results` and `_handle_order_fill` |
| `SendDeals`, `PopDeals`, `CommitDeals`, `DealsFail` | the history snapshot and `_deals_worker` |
| `Crash`, `Restart` | the API process |

The price is reduced to asked, amended or the broker's. Orders are told apart by
name, as the code does by id. `excused` is history: it collects the orders whose
fill took one of the leaks that `FillAccounted` lists.

### `PositionSync`

`account` is what the broker holds, `list` the Redis list of snapshots, `position`
the table. `SendSnapshot`, `SnapshotTimesOut` and `DelayedArrives` are the terminal
and the proxy (a request abandoned after 3 s may still be served, after the next
one); `Read`, `Upsert`, `Delete` are LRANGE, the transaction and DEL of one cycle of
the worker, `CycleFails` and `Crash` its failures. `swapped` is history: a delayed
snapshot came after a younger one.

### `Bars`, `Collector`

`Bars` follows one symbol through `_tick_worker` (`HearTick`), `_bar_flush_worker`
(`Wake`, `SelectRow`, `Aggregate`, `CommitFlush`, `InsertCollides`, `FlushFails`) and
`_seed_worker` (`PopSeed`, `InsertSeed`, `RefreshFives`, `SeedFive`, `SeedFails`). A
bar is the number of live ticks in it; prices are left out. A five-minute bar keeps
what each of its minutes gave to it, so that no sum is needed to say that it rests on
them. `Collector` holds the
pure functions of `data/collector.py` with what they promise; `MCOrders` evaluates
the promises for every sequence of up to four ticks with two prices at four times,
in and out of order.

### `AuditChain`

One instance describes any of the three tables, because each has its own chain and
lock; `Backfilled` separates the two tables whose `lineage_id` is filled in later.
`Stamp` draws key and timestamp, `Acquire` takes the advisory lock,
`AppendChained` reads the head and computes the hashes, `Commit` ends the
transaction and frees the lock, `Rollback` covers a failed statement and a dead
process, `Backfill` is the orchestrator's UPDATE, `Tick` the wall clock.
`VerifierAccepts` is `verify_rows`. SHA-256 is ideal: a digest is the tuple of
what was hashed, with the previous digest stood for by the key of its row; keys
are never drawn twice (`KeysInv`, proved), so this loses nothing. Other
columns than key, timestamp, lineage link and the hashes do not differ in what
the properties can see.

### `Anchoring`

`Stamp`, `Lock`, `Commit` and `Rollback` are the caller (`write_lineage`); between
lock and commit `maybe_anchor` runs as `NotDue` or `ReadHead`, `Store` (or
`Collides`, `StoreFails`) and `WriteAnchor`; `StatementFails` is an SQL error, after
which PostgreSQL refuses the rest of the transaction. `Local` chooses the sink: the
file store, or the `NullWorm` the code passes. A row is its place in the replay
order; the hashes are those of `AuditChain`.

### `DecisionCycle`, `RiskSizing`

`pc[c]` is the await `execute` is at, `task[c][s]` the state of the stage task `s`
(which route it asks, what it writes), `draft[c]` the proposal so far. `RouteAnswers`
and `RouteFails` are one model call with the budget gate before it and the next route
after it; `WriteTrace`, `TraceFails` the trace of an attempt; `GatherAll`,
`StageReturns`, `StageRaises` what `execute` makes of the tasks; `Judge` the policy
multiplier, clamp and `Violations`; `LogAnalysts` ... `LogEnd` the journal's
checkpoints (`CommitLineage` with the backfill of journal and traces, `CommitFails`);
`DispatchReturns`, `DispatchRaises` the call of the router; `TimePasses` a stage's
deadline, `Crash` the process. `RiskSizing` computes in integers what the code
computes in `Decimal`: volumes in thousandths of a lot, multipliers in tenths,
fractions in thousandths. What a model answers is nondeterministic.

### `LlmGateway`

A step runs from one answer of the client to the next request. `Rejected` and
`TurnedAway` are admission, circuit and budget; `Posts` the request; `Succeeds`,
`FallsBack`, `Fails(transient, auth)` and `Breaks` what becomes of it, the last an
exception no clause expects; `MinutePasses` the sliding window and the breakers'
recovery. The classes of an error are independent because the code looks for "5",
"429", "Timeout", "401" and "403" anywhere in its text.

### `RpcQueue`

Each await of the producers (`Request` or `Schedule`, `AddToStream`,
`WriteReceipt`) and of the worker (`ReadGroup`, `Check`, `Handle`, `StoreResult`,
`MarkReceipt`, `Ack`) is an action. `RequestFails`, `ReadLost`, `CheckFails`,
`HandleFails`, `StoreFails` and `LoopDies` are the Redis errors at each of them,
with the effect the code's `except` clauses give them; `Crash` and `Restart` are
the process. `SetKillSwitch` is the admin endpoint, `ArmOnDrift` the public
operation `arm_kill_switch`, which nothing in the repository calls yet. Receipts
and results live 24 h, longer than anything modelled. The inside of the
decision cycle is one effect; it reports its own failures in a completed result.
`applied` and `unreported` are history.

### `Idempotency`

`Misses`, `Replays`, `Conflicts`, `LookupFails` are the lookup; `Forwards`,
`AppAnswers`, `Stores` the way through the application; `Expires` the TTL. The list
of captured chunks is an attribute of the middleware and one variable here, so two
requests under way share it; `overlap` is history and says they did.

### `SseStreams`

`conn[s]` is the generator of stream `s`: slot taken (`Open`, `OpenMarket`,
`Refuse`), replay (`Resume`, `BeginReplay`, `Replay`), live (`Relay`, `Tick`), gone
(`Leave`). `Publish` puts an event into every subscriber's bounded queue; `Emit`
numbers a frame and keeps it in the bounded replay buffer, from which `Age` lets
frames expire. `Undisturbed` is the deque iteration that raises when another stream
appends meanwhile. `owed`, `relayed`, `overflowed` are history: the set of events of a
stream's channel since it subscribed, and what it made of them.

### `AgentRuns`

`handler`, `task` and `thread` say where the request handler, its asyncio task and
the executor thread of a request are; `posted` holds what the thread gave to
`call_soon_threadsafe` and the loop has not served, `queue` the run's event queue.
`Admit`, `BadBody`, `StartRun`, `StartChat` are the entry under the cap; `TaskStarts`,
`RunReturns`, `Deliver`, `PushReads` with `PushWrites`, `Ask`, `ApprovalTimesOut`,
`TurnEnds` the turn; `Approve`, `StopRun` the control endpoints; `ViewerJoins`,
`ViewerReads`, `ViewerVanishes` the event stream; `SweepStream`, `SweepStatus` the
sweeper; the actions named `Chat` and `ClientVanishes` the streaming completion.
`limit` is the cap, which the environment sets when the server starts.

### `AgentResponses`

`store` is the SQLite table: each row has a rank, the number of rows accessed after it,
and `Persist` evicts the ranks beyond the capacity; `mapping` is the conversations.
`Accept`, `CallReturns` are the request; `Say`, `UseTool`, `TurnEnds` the thread;
`Created`, `TakeDelta`, `TakeTool`, `TakeEnd`, `Result`, `Conclude`, `Snapshot`,
`Finish` the stream writer; `TimerFires`, `TimerAppends` its 50 ms batch timer, a
second task that appends to the same text; `Get`, `Delete`, `Break` and `Crash` the
other clients, a lost client, and the process. A response carries its history by
naming the row it was read from.

### `GatewaySessions`

Every database call is one transaction in a thread, so a handler awaits between any
two. `chat[c]` and `fork[f]` are the handlers (`ChatArrives` to `TurnEnds`;
`ForkLooksUp` to `ForkReplaces`), `rows` the sessions with their lives, `locks` the
acknowledged model locks in order. `Selected` is the precedence by which a turn's
model is chosen: its own, the lock, a `/model` override, the row's, the configured
one. A model stands for provider and model. An agent only appends to a transcript
here; that it may compact one in place or rotate the session id during a turn (AS
6217-6231) is left out.

### `TurnProcesses`, `SharedCompute`

A turn claims its conversation with an epoch under a lock (`Claim`), starts processes,
and prunes its claim as it ends (`Prune`). In between its thread writes and clears
three marks on the agent without the lock, a step each: task_id and epoch (`Mark`; they
follow from `phase`) and the processes found (`Snapshot`, `EmptyBaseline`). When a turn is
abandoned the event loop reads the marks one by one (`Abandon`, `ReadBaseline`,
`ReadEpoch`), between which threads go on, and starts a reaper with what it read; the
reaper kills what is not in the baseline, unless it has an epoch and a newer claim
exists (`Doomed`, `Reap`). In `SharedCompute` a request
hits the cache, waits for the turn that computes the same key and body, or starts
one; `Finish` and `ClearInflight` are the task's end and its done callback, an
iteration later. An entry of the `OrderedDict` carries its place in it (`at`): a known
key keeps its place, a new one goes behind all results before it.

## Runs

| Run | Instance | Checks | Result |
|---|---|---|---|
| `dispatch` | 2 decisions, 1 attempt, 2 callers, 3 calls, up to 2 faults, 1 expiry, 1 foreign result, of which 2 in all | `TypeOK`, `OneExecutionPerWindow`, `RecordedFillIsReal`, `LedgerSpec` | holds; 561 000 distinct states |
| `dispatch_live` | 1 decision, 2 attempts, 2 callers, 2 calls, 1 fault, 1 expiry, 1 foreign result | `DispatchTerminates` | holds; 136 000 |
| `dispatch_twice` | 1 caller, 2 calls, 1 fault | `NoDuplicateExecution` | violated, see below |
| `orders` | 2 orders, result queue of 1, 2 edits, 2 faults, 2 crashes (shared out, see below); 2 positions; 3 minutes of bars | `TypesOK`, `NoPhantomFill`, `OneExecution`, `FillAccounted`, `ExecutedIsVisible`, `ClosedStaysClosed`, `SyncConverges`, `BarsAreReal` | holds; 254 900 |
| `cycle` | 2 cycles of a workflow with one analyst and one fault; 1 cycle with two analysts, two routes, three books, three regimes, a deadline and two faults; 3 gateway calls; 2 anchoring writers with 3 rows | `TypesOK`, `EvidenceIsWhole`, `OrderWithinRisk`, `CycleEnds`, `PermitsAreReturned`, `AnchorsHold` | holds; 422 000 |
| `edge` | 14 small instances, see `MCEdge` | `TypesOK`, `UnderWayWithinCap`, `GrantsAreAnswered`, `RunSettles`, `ConversationResolves`, `OutcomeStored`, `TextIsWhole`, `StreamIsComplete`, `OriginalReplayed`, `LockedTurnsHold`, `TurnsKept`, `ReapSparesNewest`, `ComputedOnce` | holds; 461 000 |
| `audit_chain` | 2 sessions, 3 keys, 3 ticks, 1 lineage | `TypeOK`, `OrderedChainVerifies`, `ForkNeedsInversion` | holds; 61 000 |
| `audit_fork` | 2 sessions, no backfill | `ChainNeverForks` | violated, see below |
| `audit_backfill` | 1 session, 2 keys | `VerifierAccepts` | violated, see below |
| `rpc` | 1 cycle, 1 halt, batch 2, 2 crashes, 2 faults, 2 outside writes | `TypeOK`, `EffectAtMostOnce`, `AckedIsAnswered`, `FinishedStaysFinished`, `CommandsSettle` | holds; 338 000 |
| `rpc_kill` | 1 cycle, 1 halt, 1 outside write | `NoCycleWhileArmed` | violated, see below |
| `rpc_lost` | 1 halt, 1 resume, 1 crash | `AtLeastOnce` | violated, see below |

**Why the bounds suffice.** Each bound is a constant of its module, spent in the
guards (`Spend`, `Fault`), or the size of a set.

- `dispatch`: two callers and two decisions give every race for one claim and every
  result delivered to the wrong waiter; the third call is the retry after both. Two
  troubles allow a lost result followed by a failed record, an abort followed by a
  lost command, or a fault beside an expiry; one expiry and one release give both
  ways a window ends.
- `orders`: one order takes two edits, two faults and two crashes; two orders one
  edit or one fault, and one crash, which is what it takes to push a result out of
  the terminal's queue of one. Two positions are one to close beside one that stays
  (the table is not synchronised with an empty account); six half minutes are three
  minutes, two of them in one bucket, the first flushed while the next one runs.
- `cycle`: the pair repeats a workflow, so that the second run relinks the first
  one's journal; the single cycle meets two failures anywhere, the second route and
  the deadline. Three calls exceed two permits and trip a breaker at two; three rows
  are the least with an anchor, a rolled back anchor and one after both.
- `edge`: three requests are the original, the retry and a third that meets what the
  two left; a store and a cache of one entry evict at once; two turns and a third
  that has claimed the conversation since, or two turns with two processes or two
  reapers; a session that is deleted and made anew.
- `audit_chain`: three rows are the least in which an inversion (two commits) is
  followed by the append that forks; three ticks allow all orders and ties.
- `rpc`: two commands in one batch of two, two crashes and two errors give a crash
  between any two steps, followed by an error in the second attempt; two outside
  writes let the switch become a string and change between acceptance and execution.

**Symmetry.** `dispatch` declares symmetry over decisions and callers, which no
definition tells apart. Runs that check liveness cannot. `MCEdge` breaks the symmetry
of interchangeable requests by hand: the first to leave its initial state is `r1`
(`InTurn`). In the pair of `MCCycle`, the cycle that meets the one fault is `c1`
(`FaultIsFirsts`). Either only renames behaviours. The proofs use none of it: an MC
specification with fewer behaviours implies the component's (`RunsAreBehaviours`).

Every cfg has `CHECK_DEADLOCK FALSE`: a run stops when its calls, keys or commands
are used up and nothing is in flight, and so does the program when nobody calls it.

## What the properties say

*Dispatch.* `OneExecutionPerWindow`: the broker executes an attempt twice only if
its claim was deleted or expired in between. `RecordedFillIsReal`: a decision on
record as filled was executed for that lineage, although results of all calls share
one channel. `LedgerSpec`: every step is one of `OrderLedger` or a stutter.
`DispatchTerminates`: every call returns.

*Orders.* `NoPhantomFill`, `OneExecution`: no row says filled of an order the broker
did not execute, and none is executed twice although nothing checks the idempotency
key. `FillAccounted`: the fill of an executed order is in its row or on its way, or
took one of the leaks the property names; in particular a cancel that came first
does not hide it. `ExecutedIsVisible`: what the result path loses, the deal
snapshots bring back. `ClosedStaysClosed`, `SyncConverges`: closed positions are not
revived but by a delayed request, and a quiet, non-empty account is what the table
shows in the end. `BarsAreReal`: a tick is counted once, in its own minute, and a
five-minute bar rests on committed minutes.

*Audit.* `ForkNeedsInversion`, `OrderedChainVerifies`: under which two conditions the
advisory lock is enough for the verifier: commit order agrees with the stamps, and
no committed row is updated. `AnchorsHold`: anchors are numbered without gaps or
duplicates, never go back, name committed rows, and agree with their write-once
copies, whatever is rolled back, torn or left over.

*Cycle.* `EvidenceIsWhole`: behind every order there is an approved lineage record
with a valid, linked trace for each stage and the linked checkpoints. `OrderWithinRisk`:
an order keeps every limit at its own volume and its loss at the stop is within the
scaled risk per trade, unless it is the broker's least volume. `CycleEnds`.
`PermitsAreReturned`: no call keeps its permit, whichever exit it takes. (Three early
returns release twice, and a refused call what it never took; see the observations.)

*RPC.* `EffectAtMostOnce`, `AckedIsAnswered`, `FinishedStaysFinished`,
`CommandsSettle`: crashes and errors never repeat an effect, never acknowledge
without an answer except for an error that went to the log, never send a finished
command back to queued; a command in the stream is acknowledged unless a crash or a
lost reply stranded it, or the worker task died on a failing XACK.

*Edge.* `UnderWayWithinCap`: reservations are neither lost nor given back twice.
`GrantsAreAnswered`: a host command goes on only by an approval meant for its own run
or a timeout. `RunSettles`: an accepted run reaches a terminal status, keeps it, and
leaves no control state. `ConversationResolves`, `OutcomeStored`, `TextIsWhole`: a
conversation never points at a missing response; the stored row says how the stream
ended; the text is what the turn said, once and in order. `LockedTurnsHold`: a turn
after an acknowledged model lock runs on that model or on a younger lock's.
`TurnsKept`: a fork does not write over a session it could have seen.
`ReapSparesNewest`, `ComputedOnce`, `OriginalReplayed`, `StreamIsComplete`: see their
comments, which name the exceptions.

## Fairness

- `Dispatch`: weak fairness of `CallStep(c)` for each caller: asyncio resumes a
  ready coroutine, and the wait has a deadline (`Timeout` is always enabled while
  waiting). None for the terminal, the proxy or the network.
- `RpcQueue`: weak fairness of `WorkerStep`: the event loop resumes the worker,
  Redis answers, and the container is restarted (`restart: unless-stopped`). A
  worker *task* that died is not restarted, because no code does it.
- `OrderLifecycle`: weak fairness of `SendDeals` (the terminal's timer, every 30 s),
  `DealsWorker` (its loop survives every exception) and `Restart`. None for the
  result path.
- `PositionSync`: weak fairness of `SendSnapshot` (every 10 s), of `Worker`, and of
  the arrival of a delayed request: one that reached the proxy is served. None for
  the broker.
- `DecisionCycle`: weak fairness of a cycle's next step: the calls of the gateway and
  of the database time out, and a stage has a deadline.
- `AgentRuns`: weak fairness of the event loop for each request (`LoopServes`) and of
  its executor thread (`ThreadGoesOn`): a turn ends by itself or at its interrupt, and
  an approval nobody answers times out. None for clients.

## Proofs

TLAPS proves every safety property the passing runs check, for every value of the
constants. Hypotheses are only the modules' named assumptions: bounds are naturals, keys
are positive naturals, sets of requests are finite where the code counts them, a
capacity or cap is at least one, kinds of requests are disjoint, and no member of a set
is the model's word for "none". Where a module is instantiated they are its
definition `BoundsOK`, which the MC module assumes of the instance (`SyncBounds`,
`BarBounds`, `OtherBounds`, `Bounds`). TLC evaluates all of them on every run.
(`CollectorKeepsItsPromises` is an evaluation by TLC; no proof uses it.)

| Theorem | States |
|---|---|
| `AuditChain_proofs!TypeCorrect` | `Spec => []TypeOK` |
| `AuditChain_proofs!ChainIsLinked` | `Spec => []LinkedToHead` |
| `AuditChain_proofs!GenesisIsUnique` | `Spec => []SingleGenesis` |
| `AuditChain_proofs!ForksAreInversions` | `Spec => []ForkNeedsInversion` |
| `AuditChain_proofs!OrderedTablesVerify` | `Spec => []OrderedChainVerifies` |
| `Dispatch_proofs!TypeCorrect` | `Spec => []TypeOK` |
| `Dispatch_proofs!ClaimsAreExclusive` | `Spec => []ClaimIsExclusive` |
| `Dispatch_proofs!OneExecution` | `Spec => []OneExecutionPerWindow` |
| `Dispatch_proofs!RecordsAreTrue` | `Spec => []RecordedFillIsReal` |
| `Dispatch_proofs!ImplementsLedger` | `Spec => LedgerSpec` |
| `OrderLifecycle_proofs!TypeCorrect` | `Spec => []TypeOK` |
| `OrderLifecycle_proofs!FillsAreReal` | `Spec => []NoPhantomFill` |
| `OrderLifecycle_proofs!ExecutedOnce` | `Spec => []OneExecution` |
| `OrderLifecycle_proofs!FillsAreAccounted` | `Spec => []FillAccounted` |
| `MCOrders_proofs!ClosedForGood` | `Sync!Spec => ClosedStaysClosed` |
| `MCOrders_proofs!BarsHoldTicks` | `Bar!Spec => []BarsAreReal` |
| `MCOrders_proofs!IngestTypes` | `Spec /\ Sync!Spec /\ Bar!Spec => []TypesOK` |
| `RpcQueue_proofs!TypeCorrect` | `Spec => []TypeOK` |
| `RpcQueue_proofs!HandledOnce` | `Spec => []EffectAtMostOnce` |
| `RpcQueue_proofs!AnsweredFirst` | `Spec => []AckedIsAnswered` |
| `RpcQueue_proofs!OutcomesStay` | `Spec => FinishedStaysFinished` |
| `DecisionCycle_proofs!CycleTypes` | `Spec => []TypeOK` |
| `DecisionCycle_proofs!OrdersHaveEvidence` | `Spec => []EvidenceIsWhole` |
| `DecisionCycle_proofs!OrdersAreWithinRisk` | `Spec => []OrderWithinRisk` |
| `MCCycle_proofs!PermitsComeBack` | `Gateway!Spec => []PermitsAreReturned` |
| `MCCycle_proofs!AnchorsAreSound` | `Anchors!Spec => []AnchorsHold` |
| `MCCycle_proofs!ComponentTypes` | `Spec /\ Gateway!Spec /\ Anchors!Spec => []TypesOK` |
| `MCEdge_proofs!WorkStaysWithinCap` | `Agents!Init /\ [][Agents!Next]_(Agents!vars) => []UnderWayWithinCap` |
| `MCEdge_proofs!ApprovalsAreOwn` | likewise `[]GrantsAreAnswered` |
| `MCEdge_proofs!ConversationsResolve` | `Responses!Spec => []ConversationResolves` |
| `MCEdge_proofs!OutcomesAreStored` | `Responses!Spec => []OutcomeStored` |
| `MCEdge_proofs!TextsAreWhole` | `Responses!Spec => []TextIsWhole` |
| `MCEdge_proofs!LocksAreContracts` | `Talks!Spec => []LockedTurnsHold` |
| `MCEdge_proofs!ForksSpareTurns` | `Talks!Spec => TurnsKept` |
| `MCEdge_proofs!ReapersSpare` | `Processes!Spec => []ReapSparesNewest` |
| `MCEdge_proofs!ReplaysAreOriginal` | `Idem!Spec => []OriginalReplayed` |
| `MCEdge_proofs!ResultsAreShared` | `Shared!Spec => []ComputedOnce` |
| `MCEdge_proofs!StreamsAreComplete` | `Sse!Spec => []StreamIsComplete` |
| `MCEdge_proofs!TypesHold` | `MCSpec => []TypesOK` |
| `MCOrders_proofs!RunsAreBehaviours`, and in `MCCycle_proofs`, `MCEdge_proofs` | `MCSpec` implies the specification of each component |
| `MCOrders_proofs!OrdersAreSafe`, `MCCycle_proofs!CyclesAreSafe`, `MCEdge_proofs!EdgeIsSafe` | `MCSpec` implies every safety property of the run together (in `MCEdge`, beside `TypesHold`) |

**AuditChain.** None of the four properties is inductive. That a committed row
hangs on the head (`LinkedToHead`) needs that the head read by a session is still
the head when it commits (`HeadInv`), which needs that whoever is between
`with_chain_lock` and COMMIT is the holder of the lock (`LockInv`). That a stored
hash identifies its row needs that keys are drawn once, across the table and the
sessions in flight (`KeysInv`), and that each hash was computed from its row
(`DigestInv`; the backfill is why this says "from the row's key, and from all of
the row while nothing was updated"). `IInv` is the conjunction of these with
`TypeOK`. The theorems then follow state by state:

- `GenesisIsUnique`: a second row on the genesis hash would have been committed on
  a non-empty table, whose head has a digest with a non-zero key;
- `ForksAreInversions`: with one parent in the table, the head was the same row at
  both commits, so the first of the two never became the head: it lies below that
  row;
- `OrderedTablesVerify`: if commits are ordered, row i-1 is both the head at the
  commit of row i and its predecessor in the verifier's order.

**Dispatch.** `ClaimIsExclusive` is inductive together with `TypeOK`: `Claim`
requires the key to be free, only the holder or the TTL removes it, and the TTL
runs out on idle keys only. From it, a key whose window was never given up has been
pushed at most once, by its holder (`PushInv`). A push is a token with a fresh
number; the terminal removes what it executes; so no token is in the command list
twice, executed twice, or both (`TokenInv`). Two executions of one key would be two
tokens, hence two pushes, hence a window given up: `OneExecutionPerWindow`. The
proof goes over the actions once (`StepCases`): all but claiming, pushing,
releasing, expiring and the terminal's pop leave claims, pushes and tokens alone
(`QuietCalls`, `QuietTerminal`).

Results come after it. A result that says filled exists only for a key the broker
executed, wherever it waits: with the terminal, in a subscription, or in the call
that took it; and a call that waits has pushed its command (`BookInv`). Hence what is
recorded as filled was executed. Each step of `Dispatch` is then one of the ledger or
none: a push is a `Submit` (by `PushInv`, for an unpushed or a given-up key), a pop
that trades an `Execute` (by `TokenInv`, of a push not executed before), a committed
record a `Settle`, a release or an expiry a `Void`.

**OrderLifecycle.** `FillInv`: a FILLED result under way, and the one a handler is
working on, stands for an execution; executions are never undone (`NothingUndone`);
rows become filled only by such a result. `PlaceInv`: an order is before its push,
or once in the command list, or resting with the broker, or executed, and is of
kind market in all but the first; so it is executed at most once. For
`FillAccounted` a resting order must already be excused (its fill sends no result)
and a handler that read a filled row must find it filled or excused, because it
writes only what differs from what it read (`AccountInv`); the rest is that each
step moves the FILLED result from one list to the next or excuses the order.

**PositionSync.** The worker reads only the newest snapshot. As long as no delayed
one was pushed over a younger one (`swapped`), each ticket is coherent: one not yet
opened is in no snapshot that counts (`UnopenedUnseen`), one whose row is closed is
neither in the account nor in the newest snapshot nor about to be written
(`ClosedIsGone`), one the worker will close, or has seen vanish, is gone from the
account (`ClosingIsGone`, `SeenIsGone`).

**Bars.** A minute's ticks are in its row, in the bar under way or in the flush, and
in one of them only, for row and bar together never hold more than was heard
(`Counted`). That a flush adds its bar to the row it has read is right because it works
on a past minute, of which no tick comes any more, and because nobody else writes that
row's live part meanwhile (`Flushing`); what it aggregated is for the same reason no
more than what it commits.

**RpcQueue.** A command enters the stream once (`StreamInv`). The worker's batch is
the end of what was delivered (`BatchInv`), so every effect so far lies within the
entries the worker has passed (`EffectInv`), and the next one is another command.
An acknowledgement is reached with an outcome stored or an error reported, and a
receipt is terminal only where the result is (`AnswerInv`); from the latter follows
that a finished command stays finished.

**DecisionCycle.** The invariant says, for every point of `execute`, which traces and
checkpoints lie behind it (`Evidence`; a task counts as done only when its valid answer
is traced, `Finished`), that the draft was judged at the volume it carries (`Judged`),
and that what is about to be dispatched was committed with everything linked to it
(`Recorded`). Rows are added and linked, never removed or unlinked (`TracesKept`,
`JournalKept`), so what holds of a cycle survives the other cycles, the relinking of a
journal by a later run of the workflow, and the analysts that outlive their cycle. An
order is the draft of a cycle past its dispatch (`Given`), which nothing changes any
more. `OrderWithinRisk` rests on what sizing and clamp promise of a volume
(`WithinRisk`), proved of `RiskSizing` in integers.

**LlmGateway, Anchoring.** The count of permits never exceeds the calls in flight: a
call that posts adds one to both, and every exit takes one call out of flight and at
least one permit off the count, unless that is zero. That no more than
`MaxConcurrent` calls are in flight is not claimed, because three exits release
twice. For the anchors, the transaction that holds the lock continues the numbers and
names the last committed row, and what it adds is in the sink if that keeps anything
(`Holds`); nobody else commits before it ends, so all of this still stands when it
does.

**AgentRuns.** `pending` is the number of reservations, `inflight` the number of
completions a handler waits for, and a request is reserved from its admission to the
start of its task (`PhaseOK`); a reservation is turned into a live task one to one, so
that both counts and the live runs together stay within the cap (`CapInv`). Proved
without fairness.

**AgentResponses.** Ranks have no gap (`StoreOK`), so what a write evicts is exactly
what exceeds the capacity, never the row just written, and its conversations go with
it. How far the writer is tells how far the turn is (`StageOK`) and what may be stored
(`RowOK`). Until the sentinel is taken, the deltas lie, in order and once, in what is
written, what a timer is about to write, the batch and the queue (`Gathered`,
`Waiting`); afterwards a writer no timer got in the way of has all of them (`Settled`).

**GatewaySessions.** A living row holds the newest lock of its life (`LockInv`); a
request that looked the row up has seen the lock it came after or a younger one, and
is answered only if it ended on what that lock promises (`HoldsLock`). A fork looked
its target up before the session under that id came to be, or there is none
(`ForkedLater`), which is the exception `TurnsKept` names.

**TurnProcesses, Idempotency, SharedCompute.** The newest turn of a conversation keeps
its entry until it prunes it (`NewestHasEntry`), so no other reaper that has an epoch is
current while it runs; a turn that had a baseline when it was read still has one
(`ReadersOwn`), so a reaper without an epoch is one that read it torn.
As long as no two answers were captured at once, the list that captures belongs to one
request, and what is stored is the whole answer of an accepted one (`CaptureInv`). A
turn that runs is registered and a result that was not lost is in the store, so a
request finds either before it computes (`CacheInv`, `OneAtATime`).

**SseStreams.** A buffer holds the newest ids of its channel without a gap
(`BufferInv`). A replay has sent what lies behind it, and as long as nobody disturbs it
and nothing slipped out, the buffer holds what lies before it (`ReplayInv`); what is
owed since the subscription is, in order, what was relayed and what waits in the queue,
until that overflows (`EventInv`).

**From the components to the runs.** A step of an MC specification is a step of one
component and leaves the variables of the others alone, so each of its behaviours is
one of each component's specification (`RunsAreBehaviours`), bounds on the budget and
symmetry breaking included.

**Only model-checked.** The liveness properties, because the prover does not reason
about fairness and `ENABLED`: `DispatchTerminates`, `CommandsSettle`,
`ExecutedIsVisible`, `SyncConverges`, `CycleEnds`, `RunSettles`. The promises of
`Collector`, because they are about what folds over sequences compute, which needs
induction over data; TLC evaluates them on bounded inputs. The five properties the code
violates.

## Disagreements between code and documents

Each is a run in which TLC finds the violation.

- `dispatch_twice` (`trade_core/execution_router.py:169`): when step 4 fails after a
  fill, the claim is deleted and nothing is on record, so the retry executes the
  same order again. The execution department document (line 79) says that a
  replayed command must not produce a duplicate order. The release is deliberate
  (comment at 159: a retry after a persistence error should be possible); the two
  aims conflict.
- `audit_fork` (`autogen_pipeline/traces.py:74`, `autogen_pipeline/journal.py:54`,
  `data/lineage.py:128`): the stamp is drawn before the lock. A row that waits
  behind a later-stamped one is committed below the head, the next row hangs on the
  same head, and the comment at `security/hashchain.py:195`, that the lock keeps
  the chain from forking, does not hold.
- `audit_backfill` (`autogen_pipeline/orchestrator.py:637`): one session is enough.
  `lineage_id` is a hashed column of rows already committed; after the UPDATE the
  verifier reports them. `data/models.py:686` calls the table append-only.
- `rpc_kill` (`rpc/worker.py:330`): the switch is read when a cycle is accepted, not
  when it runs; scheduled cycles are never checked.
- `rpc_lost` (`rpc/worker.py:377`): entries read and not acknowledged before a crash
  are never read again; the comments promise at-least-once delivery.

## Observations the models contain

Behaviour of the code that the models reproduce and the properties therefore except
or do not claim. None is a run of its own; a reader of the code may want to know.

*Orders and ingest.*
- A filled market order can appear twice: its row has the ticket of the order, the
  snapshot brings a row with the ticket of the deal. A rejected order stays pending
  (`result.error`, `api/app.py:255`, is no attribute). A snapshot without positions
  never closes the last row (`trading/position_sync.py:130`).
- The first tick of a minute replaces a bar that is not flushed; with steady ticks a
  minute is flushed only if none comes for 30 s after it ended. A flushed bar is
  popped whichever minute it has by then. `bars_5m` rows are partial until a
  seed's refresh. Nothing but tests calls `ingest_tick` and `resample_bars`.

*Decision cycle.*
- Two cycles judged against one portfolio snapshot can exceed a limit together.
- `gather` leaves the other analysts running when one raises; they write traces of a
  cycle that has failed (`orchestrator.py:228`). A journal row that cannot be written
  after the dispatch ends the cycle as failed although the order is out (513).
  `_write_lineage` relinks all journal rows of the workflow, those of an earlier
  cycle included (643-647).
- The clamp lifts a volume to the broker's minimum, beyond the risk per trade; the
  multiplied volume is not quantized again; notional ignores the contract size.
- `LLMGateway` releases twice when a model is unknown, a circuit open or the budget
  spent (`llm_gateway/__init__.py:375`, 389, 404, and 431), and once for a call it never
  admitted (359), so that more calls than `max_concurrent` may be in flight; a half-open breaker never closes; failures and
  usage are charged to the original model's provider; a fallback asks no breaker.

*Anchors.* The head is read by a text statement, which flushes nothing: an anchor
names the row before the one just appended. `row_count` is always 1, so only
the minutes count. An object whose transaction is rolled back keeps its number,
and every later anchor of a file store collides with it.

*Agent server.*
- A client that vanishes cancels the waiting task while its executor thread goes
  on: the cap (and the count a shutdown waits for) no longer include that turn. A
  second viewer of a run shares its queue, and the first to leave removes the stream.
- A status written by the executor thread (read, change, write) can overwrite
  `stopping` for a moment; `RunSettles` shows the end is right.
- A response evicted or deleted while it streams is put back at its end; a
  conversation points to whichever response finished last; a dead server leaves
  `in_progress` behind. A retry after a lost turn stores a second response.
- A session forked does not inherit the lock; a fork of a session deleted
  meanwhile is an empty one; a body that names a model without `require_model_lock`
  passes a lock by for that turn; the mismatch error comes after the turn has run.
- `_reap_disconnected_agent_processes` reads task_id, baseline and epoch without the
  lock that guards the epochs (AS 715-719), and the thread of the turn writes them one
  by one (770-774, 792-794). If it finds a baseline but no epoch, because the turn has
  not marked its epoch yet or has cleared it since the task_id was read, there is no
  gate: the reaper kills all that is not in the baseline, the processes of a newer turn
  that runs included, and with the emptied baseline every process of the session.
  The docstring (706-712) says that the gate prevents just that. `ReapSparesNewest`
  excepts these torn reads; without the exception TLC finds two turns, the second of
  which loses a process to the reaper of the first.
- When the newest turn of a conversation has ended, the reaper of an older abandoned
  turn also kills the processes of turns that still run and those left on purpose.
- The shared results are first in, first out, not least recently used; a result that
  reports a failed turn is shared like any other.

*Streams.* Events published while no stream is open never reach the replay buffer;
ids restart at 0 with the server; `gap_detected` is decided before the replay begins.
An event that two streams of a channel relay has a frame, and an id, from each, so a
reconnecting client may be replayed both. Two promises of
`src/docs/09-api/sse-api.md` have no code, and `StreamIsComplete` excepts both cases:
- Lines 175-176: a full buffer sends `stream_dropped` and closes the connection. The
  publisher drops the event and goes on (`api/sse/publisher.py:96`).
- Lines 115-117: events beyond the retention window are announced by
  `gap_detected: true`. It compares with the oldest id in the buffer only
  (`api/routers/streams.py:224`, 400), and the replay skips expired frames without a
  word (188).

## What is not modelled

- Inside modelled components: amounts beyond `RiskSizing`, TCA values, the content
  of prompts, traces and journal rows; the verifier's check of WORM payloads; API
  keys and position reconciliation beside the kill switch; 24 h TTLs; text deltas of
  runs' event streams; compaction of a transcript by the agent; shutdown and drain of the agent server; model routes and
  multimodal input. In `Idempotency`, one key of one client stands for all, because
  the cache key separates them.
- A terminal that acts on a command twice after one pop, or a Redis that loses
  committed data: the code has no answer to either, and the properties would say
  nothing about the code.
- Rate limit, request signing and envelope of the API: each is one check within one
  handler.
- Components without state of their own (backtest, indicators, registries, schemas,
  read-side routers) and the frontend; provider adapters and other network I/O.

## What could come next

- Proofs beyond what the runs check: that `RunSettles` keeps a terminal status (its
  safety half), and the promises of `Collector` as lemmas on sequences without folds.
- An abstract specification of the command queue (a command is accepted, takes effect at
  most once, is answered) that `RpcQueue` implements, as `Dispatch` does `OrderLedger`.
- Shutdown and drain of the agent server (AS 1492-1603, 7305-7332) beside the cap
  of `AgentRuns`; its job endpoints.
- The rate limit of the API and the replay cache of request signing, once more than
  one process shares them.
- The verifier of anchored objects, when it is written.

## How to run

    tlc -workers 2 -config MCDispatch.cfg MCDispatch
    tlapm AuditChain_proofs.tla

and likewise for the other configurations (the module of each is in
`PROJECT.json`, "runs") and proof modules. The longest runs (`cycle`, `edge`) take about
two minutes. `tlapm` proves `MCEdge_proofs` in about ten minutes and each of the others
in a few; it leaves alone what it proved before and did not change.
