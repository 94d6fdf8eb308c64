# TLA+ models of Fortuna's keeper, its transaction submission and Hermes's websocket API

This directory holds TLA+ specifications of the concurrent parts of this
repository, TLC configurations that check them, and `PROJECT.json`, which maps
every definition to the source lines it models, and lists the runs, the mutants,
the findings and the hazards.

## The system

The repository holds several programs. The parts with state and concurrency are
these:

| Part | Source | State and operations |
|---|---|---|
| Fortuna process (`run`) | `src/fortuna/src/command/run.rs:296-381` | Verifies the hash-chain root of every chain against the on-chain commitment. Then it joins three tasks: a Ctrl+C handler that sets the `rx_exit` watch flag, the API server restart loop, and the keeper restart loop. |
| Keeper restart loop | `run.rs:145-164` | `while !exit { run_keeper; sleep 5s }` |
| Keeper pipeline, one per chain | `run.rs:166-294` | Reads `latest_safe_block = head - reveal_delay`, then spawns three tasks sharing the exit flag and an `mpsc` channel of `BlockRange` with capacity 1000. **Backlog** walks `[safe-10000, safe]` in batches. **Watch** tails new blocks and sends `[last_safe, latest_safe]`. **Events** receives ranges and walks them in sub-batches. The chain task joins its three tasks; `run_keeper` joins all chain tasks. |
| Transaction submitter | `src/apps/fortuna/src/eth_utils/utils.rs:84-249` | `submit_tx_with_backoff` retries `submit_tx` under an exponential backoff of at most 5 minutes. It counts retries and picks gas and fee multipliers from the count. `submit_tx` estimates gas, rejects an estimate above `gas_limit` (a permanent error), pads it, fills the transaction (the nonce manager assigns the nonce), escalates the fee, sends, and waits 30 s for the receipt. A timeout or a missing receipt resets the nonce manager. |
| Escalation policy | not in `src/` (spec 4.2) | Gas and fee multipliers, non-decreasing in the retry count and capped. |
| Fee withdrawal | `src/apps/fortuna/src/command/withdraw_fees.rs` | For each chain in turn: claim the accrued fees if they exceed the minimum balance, then fund the keeper wallet. |
| Hermes websocket | `src/hermes/src/api/ws.rs` | One `Subscriber` actor per connection selects over notifications, client messages and ping ticks. It also handles subscribe and unsubscribe, the per-IP byte rate limit, and `notify_updates`, which broadcasts every aggregation event over per-subscriber channels of capacity 1000. |
| Hermes network RPC | `src/hermes/src/network/rpc.rs` | A REST server plus a loop that feeds VAAs to the proof store. |
| Price publisher buffer | `src/target_chains/solana/programs/pyth-price-publisher/src/accounts/buffer.rs` | `create`, `extend` and `read` of a header plus a packed array of prices. |

How they interact:
- The keeper pipeline finds reveal requests. It hands each one to the transaction submitter; that caller, the event processor of spec 4.5, is not in `src/`.
- Every task sees the exit flag set by the Ctrl+C task.
- Hermes and the price publisher are separate programs.

### What is hard about it

- **Block boundaries.** Three loops cut the block line with inclusive bounds. Their off-by-ones only cancel out together.
- **Unsigned arithmetic.** `u64` subtraction on young chains.
- **Concurrency.** Backlog and live processing run at the same time. The bounded channel can be full.
- **Shutdown.** Every task must observe the exit flag.
- **Restarts.** A restart loses state.
- **Nonces and retries.** The submitter must cope with:
  - nonces consumed by failed steps;
  - a timeout racing a transaction that is still pending;
  - a send that fails after the node took the transaction;
  - the time budget of the backoff.

All of these appear, with the source line where they bite, under `hazards` in `PROJECT.json`.

Note that `run.rs` as written does not compile: `from_block`, `last_safe_block` and `handles` are assigned without `mut`. The model follows the evident intent: each of them is a mutable variable.

## Modules

### `KeeperPipeline` (`run.rs:145-294`, plus the Ctrl+C task of `run`)

Each program variable of the code is a variable of the model:

| Variable | Models |
|---|---|
| `keeper` | the program counter of `run_keeper_with_exit_check` |
| `safeStart` | `latest_safe_block` |
| `backlog`, `watch`, `events` | each task's program counter and locals |
| `chan` | the `mpsc` channel |
| `exit` | the watch flag |
| `head` | the chain's block number |
| `fetched` | the blocks whose events a task would fetch; the code prints the ranges and the event query is commented out |
| `past` | history across restarts, not a program variable: the first incarnation's backlog start, the blocks earlier incarnations fetched, and whether some restart's window fell short of the previous frontier |

The actions, one per step between awaits:

| Action | Code it models |
|---|---|
| `KeeperCheck` / `KeeperSleep` | the `while !exit` check / the 5 s sleep |
| `PipelineStart` | the safe-block read and the spawning of the tasks |
| `PipelineJoin` | the `join_all` of the three tasks |
| `BacklogInit` | `from_block = safe - 10000` |
| `BacklogBatch` | one backlog loop iteration |
| `BacklogEnd` | the exit of the backlog loop |
| `WatchInit` | `watch_blocks()` |
| `WatchHead` | the exit check of the watch loop |
| `WatchBlock` | one stream item: re-read the safe block, prepare a range |
| `WatchSend` | `tx.send(..).await`, which waits while the channel is full and fails once the receiver is gone |
| `EventsHead` | the exit check of the events loop |
| `EventsRecv` | one `recv` plus its whole sub-batch loop, which has no await; the blocks it covers are the recursive operator `SubBatchBlocks` |
| `EventsClosed` | `recv()` returning `None` |
| `NewHead`, `CtrlC` | the environment |

Block numbers have `Width` bits. `U64` makes an out-of-range result the model value `Overflow` in a debug build (a panic that ends the task) or wraps it in a release build.

`Chain` is an instance of `KeeperChain` under a refinement mapping:
- the keeper's tasks running map to `"run"`;
- its 5 s sleep maps to `"ended"`;
- everything else maps to `"idle"`;
- `fetched` maps to `scanned`.

`ImplementsKeeperChain` checks that the pipeline implements that abstract chain.

### `KeeperChain` (abstract)

What one chain's keeper promises, without tasks, channel or batches:
- a task is spawned;
- while it runs, it scans only safe blocks (at least `RevealDelay` below the head);
- it ends, on shutdown or on an error;
- it may be spawned again, and the new task forgets what the old one scanned.

The module maps to no single source range. `KeeperPipeline` refines it for one chain, and `KeeperSupervisor` instantiates it once per chain.

### `KeeperSupervisor` (`run.rs:72-141`, `150-182`, `220-237`, `279-380`)

This module models the whole process, at the level of tasks:
- `run`: the commitment check of every chain, then the join of the Ctrl+C, API and keeper tasks;
- the API restart loop;
- the keeper restart loop, with one task per chain.

Each chain's pipeline is reduced to its task state: idle, start, run, ok or err. The pipeline's own behaviour is `KeeperPipeline`'s.

| Variable | Models |
|---|---|
| `matches` | whether each chain's on-chain commitment matches the configured hash chain |
| `main` | the program counter of `run`, and the chains still to verify |
| `exit` | the watch flag |
| `ctrl` | the Ctrl+C task |
| `api` | the API restart loop: check, serve, sleep or exited |
| `keeper` | the keeper restart loop: check, join, sleep or exited |
| `task` | each chain task |
| `failures`, `bindFailures` | the RPC and bind failures used so far |

The actions:

| Action | Code it models |
|---|---|
| `VerifyChain` | one iteration of the verification loop. An RPC error or a mismatch ends `run` with an error before any task is spawned. |
| `CtrlC` | the Ctrl+C task |
| `MainJoin` | `join` of the three tasks |
| `ApiCheck`, `ApiStop`, `ApiSleep` | the API loop's exit check, its graceful shutdown, and its sleep after a bind error |
| `KeeperCheck`, `KeeperJoin`, `KeeperSleep` | the keeper loop's exit check, the `join_all` over chains, and its sleep |
| `ChainStart` | the safe-block read |
| `ChainStop` | a chain ending its tasks on exit |
| `ChainFail` | an RPC error ending a chain's tasks |
| `Ended` | a chain task returning |

`ChainOf(c)` instantiates `KeeperChain` for chain `c`, with the head and the scanned blocks held constant. `ChainsImplementKeeperChain` checks every chain's task against it.

### `TxSubmitter` (`utils.rs:84-249`)

- `sub` holds the running call: program counter, request, `num_retries`, padded gas, fee percentage, nonce, and the last error.
- `results` holds each `SubmitTxResult`.
- The environment is:
  - the ethers nonce manager: `nm = [init, next]`, where fill consumes a nonce and `reset` makes the next fill re-read the account nonce;
  - the account nonce `chainNonce`;
  - the `mempool`, where a replacement needs a higher fee and a nonce below the account nonce is rejected;
  - the `mined` transactions;
  - `revealed`: the first mined reveal of a request lands, and later ones revert.

The actions:

| Action | Code it models |
|---|---|
| `Estimate` | `estimate_gas`, the limit check and the padding by the multiplier the retry count selects. An estimate reverts once the reveal is on chain. |
| `Fill` | `fill_transaction` and the fee escalation |
| `Send` | `send_transaction`. A transport error may come after the node accepted the transaction. |
| `WaitReceipt` | the receipt arrives |
| `WaitTimeout` | the 30 s timeout and its nonce reset |
| `WaitDropped` | a `None` receipt and its nonce reset |
| `WaitError` | an error while waiting, with no reset |
| `Transient` / `Finish` | `retry_notify`: either retry with `num_retries + 1`, or stop and build the result once the budget is spent |
| `Mine`, `Evict` | the chain and the mempool |
| `StartSubmission` | the caller, one request at a time (spec 4.5) |

`GasMultiplierPct` and `FeeMultiplierPct` model `EscalationPolicyConfig`, which is not in `src/`. They look up a schedule by retry count and use its last entry beyond its end. An `ASSUME` states spec 4.2's contract on the schedules: every entry is at least 100 and they never decrease.

The ethers nonce manager's own resubmission after a failed send is not modelled. Its source is not part of the repository. Leaving it out removes a recovery path, so the model errs on the side of finding failures.

### `RevealSubmission` (abstract)

What a call of `submit_tx_with_backoff` promises its caller, without gas, fees, nonces or the mempool:
- the caller starts one call at a time, and every call returns;
- `ok` comes only with the reveal on chain;
- a permanent error comes only for a reveal that is not on chain;
- a transient error that exhausts the budget (`failed`) may come either way;
- a reveal lands at most once, at any time after its call started, also after the call returned (an earlier attempt's transaction may still be pending).

`TxSubmitter` refines it through `Submission`. A request is `todo` while in `todo`, `running` while `sub` holds it, and then its result's outcome, with every transient error mapped to `failed`. `onChain` is `revealed`. The abstract fairness (the caller goes on, every call returns) is part of what `ImplementsRevealSubmission` checks.

### `WsSubscriber` (`ws.rs:142-465`)

One websocket connection per element of `Conns`. Its state:
- `phase[c]` records where `websocket_handler` is:
  - `handler`: before `ws_state.subscribers.insert`;
  - `blocked`: the insert waits on the shard lock;
  - `open`: in `Subscriber::run`;
  - `ended`: `run` returned, so the channel receiver is dropped.
- `registered`: the senders in the `DashMap`.
- `inbox[c]`: the notification channel. Its capacity is `NotifyCap`, standing for the code's 1000.
- `actor[c]`: where `handle_next` is. Either selecting, or awaiting the store (`fetch`), a `feed` of an update, or a `send` of a response, ping or error. It also holds the updates still to feed.
- `cfg[c]`: `price_feeds_with_config`, as none, in order or out of order per feed.
- `responded`: `responded_to_ping`.
- `ticks`: interval ticks that are due.
- `wire` and `fromClient`: the socket in each direction, holding at most `WireCap` outgoing messages.
- `bc`: the running `notify_updates` call: its event, the subscribers still to send to, and those whose send failed.

The actions:

| Action | Code it models |
|---|---|
| `Connect` | `websocket_handler` up to the insert, and `Subscriber::new` (the interval's first tick is immediate) |
| `Insert`, `Unblock` | `subscribers.insert`. It blocks the calling worker thread while `notify_updates` holds the shard's `RefMut` guards, which each pending send future of the `join_all` owns. |
| `RecvEvent`, `ClientMessage`, `Tick` | the three branches of the `select!` |
| `Fetch`, `Feed` | `handle_price_feeds_update`: a store error ends the connection; the out-of-order filter (`UpdatesFor`); the rate limit, which sends an error and closes; `feed` of each update |
| `Send` | a pending `sender.send(..).await` completes once the socket has room |
| `NotifyStart`, `NotifySend`, `NotifyEnd` | `notify_updates`: one send per registered subscriber, failing at once for a dropped receiver and otherwise waiting for room; then the removal of the failed ones |
| `ClientSend`, `ClientRead`, `IntervalTick` | the environment: clients that send requests and answer pings, and the 30 s interval |

A blocked insert holds a worker thread, and a step of any task needs a free one (`FreeWorker`, with `Workers` threads). `Stuck` clients never read.

### `WithdrawFees` (`withdraw_fees.rs:47-170`)

The command as a cron job runs it again and again.
- `run` holds the running call: program counter, the chains still to visit (`todo`, one permutation of `Chains` per run, since the `HashMap` order is random per process), the current chain, the fees and the balance read, the receipt awaited, and the next nonce of the nonce manager (`NoNonce` until its first fill).
- The environment holds the chain state:
  - `accrued`: the provider's accrued fees;
  - `provBal` and `keeperBal`: the two wallets;
  - `txCount`: the wallet's mined transaction count on each chain;
  - `pending`: each chain's unmined transactions of the provider wallet, each with its nonce, and whether the running call awaits it.

Each call of `withdraw_fees_for_chain` builds a new `SignablePythContract` (`withdraw_fees.rs:86`). Its ethers nonce manager reads the mined transaction count at its first fill and counts up from there. A transaction left pending by a run that ended on an error therefore holds the nonce the next run fills first. The node either takes the new transaction as a replacement (its fee is higher) or rejects it, and `send` then errors. A nonce below the mined count is rejected.

| Action | Code it models |
|---|---|
| `StartRun` | `withdraw_fees` with no chain id: every chain in the map's order |
| `ChainStart` | the next chain's `withdraw_fees_for_chain`, with a new contract and nonce manager |
| `SendTx` | `send()` or `send_transaction`: the fill of the next nonce, then replacement or rejection by the node |
| `ReadFees` | the balance reads and `get_provider_info` |
| `Claim` | `withdraw(fees).send().await?` when `fees > min_balance`. The gas estimate reverts (and `send` errors) when the claim exceeds the mined accrued fees. |
| `ClaimWait` | awaiting the pending claim, then `log_tx_hash`: any receipt is logged and a dropped transaction only warns; an error while polling ends the run |
| `ReadBalance`, `Fund`, `FundWait` | the provider balance, and the transfer to the keeper wallet |
| `Final` | the final reads, then the next chain or `Ok(())` |
| `MineTx`, `DropTx`, `ExpireQueued`, `Accrue` | the chain mines the transaction at the mined count; the node drops any pending transaction, or evicts one queued behind a nonce gap; users add fees |

Every awaited RPC call may fail (`Abort`, within `MaxFailures`). The `?` then ends the whole run and skips the chains not yet visited.

### `PriceBuffer` (`buffer.rs:11-160`)

One buffer account: its data length, header `format` and `num_prices`, the packed word of each record (`cells`), and `log`, the records that `extend` accepted.
- `Create` writes a fresh header on a zeroed account.
- `Extend` stores a batch of records built by `BufferedPrice::new`. It raises `num_prices` before it checks the space. `Rollback` selects what a failure leaves behind:
  - TRUE: a Solana instruction, where a failure discards every write;
  - FALSE: an off-chain user of the crate, where the header keeps the new count.
- `Read` is an operator, because `read` changes nothing. It returns the error cascade or the decoded records.

The code packs 4 status bits above 28 index bits. Those widths make numbers beyond TLC's integers, so `IndexBits` and `StatusBits` are parameters, and the run uses 2 and 1. The status bits still fill the word, so the shift loses the same high bits as `u32` does.

## Runs

| Run | Config | Result | What it shows |
|---|---|---|---|
| `keeper_pipeline` | `KeeperPipeline.cfg` | pass, about 36k states | `NoBlockSkipped`: once the backlog is done and the channel drained, every block from the backlog start up to the watch frontier has been fetched. The off-by-ones of the three loops compensate each other. `RestartRecoversMissedBlocks`: the same across restarts. After an RPC failure ends an incarnation, the blocks it was sent are fetched before `run_keeper` returns, and the next backlog window covers the rest, provided the window reaches back to the old frontier. The run reaches restarts where it does not; the blocks in between are then lost, by design. `ShutdownCompletes`: Ctrl+C always ends the keeper. `CatchesUp`: the frontier reaches the chain's safe block. |
| `live_ranges_contiguous` | `KeeperPipeline_LiveRangesContiguous.cfg` | violation | Live ranges overlap by one block; spec 4.4 says they are contiguous. |
| `tx_submitter` | `TxSubmitter.cfg` | pass, about 9k states | `ImplementsRevealSubmission`: the submitter implements `RevealSubmission`. Every call returns, `Ok` only with the reveal on chain, a permanent error only without it. The run reaches calls whose earlier attempt mined: every retry's estimate then reverts and the call ends with the estimate error, its reveal on chain (hazard `utils.rs:159`). `RevealLandsWithinBudget`: a call that did not fail permanently leaves its reveal on chain. The nonce reset recovers from gaps left by failed fills and sends, stuck transactions and evictions. |
| `ws_delivery` | `WsSubscriber.cfg` | pass, about 43k states | One connection that sends one client request, of any kind; store failures, rate limiting, pings, and in-order and out-of-order events. `NoUpdateLost`: every event broadcast to an open subscriber is written out unless the connection ends. `InOrderNeverRegresses`: a feed subscribed in order never receives an older slot than the last one it received, whatever events were queued when the subscribe arrived. |
| `ws_broadcast` | `WsSubscriberBroadcast.cfg` | pass, about 54k states | Two connections that register during broadcasts and may close, with two worker threads. `BroadcastCompletes`: every `notify_updates` call finishes. |
| `ws_broadcast_one_worker` | `WsSubscriberOneWorker.cfg` | violation | The same with one worker thread. A connection registering during a broadcast blocks the only worker on the shard lock, and the broadcast holding that lock is never polled again. With `n` workers, `n` such connections are needed. |
| `ws_pong_race` | `WsSubscriberPongRace.cfg` | violation | `ResponsiveClientKept`. The actor is blocked writing behind an unread ping, and the next tick comes due. The client reads the ping and answers. Back in `select!`, the tick and the pong are both ready, and `select!` (not `biased`) may take the tick: the client is closed for "not responding". |
| `withdraw_fees` | `WithdrawFees.cfg` | pass, about 284k states | `TypeOK` includes that a chain never has more than two unmined transactions of the wallet: each run's nonce manager starts at the mined count, so what an aborted run left is replaced or blocks the new send, never queued behind. `FeesEventuallyClaimed`: under cron, with RPC failures, dropped, replaced and rejected transactions and fees still accruing, every chain's accrued fees eventually stay at or below the minimum balance. |
| `price_buffer` | `PriceBuffer.cfg` | pass, about 1.1k states | `ReadReturnsExtended`: after any sequence of `create` and `extend` calls, successful or not, `read` returns exactly the records that were accepted, in order. |
| `keeper_supervisor` | `KeeperSupervisor.cfg` | pass, about 1.1k states | Three chains, one possibly misconfigured. `TypeOK` includes that no chain task outlives the `run_keeper` call that spawned it. `ServesOnlyCommitted`: neither the API nor any chain task runs unless every chain's commitment matched. `ProcessExits`: after Ctrl+C, `run` returns. `KeeperRecovers`: when every chain task has failed, the keeper loop restarts them unless the process is exiting. `ChainsImplementKeeperChain`: each chain's task follows `KeeperChain`. |
| `tx_padded_gas` | `TxSubmitterPaddedGas.cfg` | violation | `PaddedGasWithinLimit`. An estimate of 4 passes the check against a gas limit of 4; on the first retry the gas multiplier of 125% pads it to 5, and the transaction is filled with more gas than `gas_limit`. The comment at `utils.rs:172-173` says the padded estimate never exceeds it. |
| `crashed_chain_restart` | `KeeperSupervisorChainRestart.cfg` | violation | `CrashedChainRestarted`. Chain `c1` fails to start while `c2` and `c3` keep running. `run_keeper` waits for every chain, so `c1` stays down until the others stop, which without an error is until shutdown. Spec 5 says a crashed chain is restarted after a cooldown. |

The violation runs are listed as findings in `PROJECT.json`.

Every property of a passing run has a mutant in `PROJECT.json`. The mutant is a variant of one action, as a plausible bug in the code would change it, and TLC finds the property violated when the variant replaces the action:

| Property | Mutant |
|---|---|
| `NoBlockSkipped` | a half-open backlog batch |
| `RestartRecoversMissedBlocks` | a `join_all` that leaves out the events task, dropping the ranges still in the channel |
| `ShutdownCompletes` | a watch loop that ignores the exit flag |
| `CatchesUp` | a watch task that never advances `last_safe_block` |
| `ImplementsKeeperChain` | a watch task that reads the head without the reveal delay |
| supervisor `TypeOK` | a `run_keeper` that drops the `JoinHandle`s and returns at once, detaching the chain tasks |
| `ServesOnlyCommitted` | a verification loop that skips the commitment comparison |
| `ProcessExits` | an API loop that ignores the exit flag |
| `KeeperRecovers` | a keeper join that propagates a chain's error and ends the loop |
| `ChainsImplementKeeperChain` | a keeper join that returns when the first chain ends |
| keeper `TypeOK` | an unbounded channel |
| `RevealLandsWithinBudget` | a timeout that does not reset the nonce |
| `ImplementsRevealSubmission` | an estimate that reverts (the reveal is already on chain) classified as permanent |
| submitter `TypeOK` | retries with no time limit |
| `NoUpdateLost` | `try_send`, which drops the event when the channel is full |
| `InOrderNeverRegresses` | no out-of-order filter |
| `BroadcastCompletes` | a send that waits for room in the channel of a dropped receiver |
| websocket `TypeOK` | an unbounded notification channel |
| withdraw `TypeOK` | one contract, and so one nonce manager, for the whole run: the next chain's nonces start past a gap and queue |
| `FeesEventuallyClaimed` | a loop that returns after the first chain |
| buffer `TypeOK` | `BufferedPrice::new` that accepts a feed index of `2^28` |
| `ReadReturnsExtended` | `extend` writing from the updated count rather than the old one |

## Bounds

### Keeper pipeline

| Bound | Value | Why |
|---|---|---|
| reveal delay | 1 | |
| backlog window | 3 | |
| batch | 2 | an odd window over an even batch makes a batch end exactly on the safe block, which is the case the off-by-ones bite |
| channel capacity | 1 | so a full channel happens |
| block numbers | 4 bits | |
| starting head | 4 or 5 | |
| maximum head | 8 | |
| RPC failures | 1 | one failure exercises a restart |

A release build on a chain younger than the backlog window is not run (hazard `run.rs:189`).

### Keeper supervisor

| Bound | Value | Why |
|---|---|---|
| chains | 3 | one chain can fail while two others run, in either order |
| misconfigured chains | `c3` may mismatch | a mismatch, and a clean start, are both explored |
| RPC failures | 3 | a chain can fail to start, and two can fail while running |
| bind failures | 1 | the API loop's sleep-and-retry path happens |

`crashed_chain_restart` uses one RPC failure, no bind failure and no misconfigured chain. That is enough for one chain to fail while the others run.

### Transaction submitter

| Bound | Value |
|---|---|
| requests | 2 |
| `gas_limit` | 4 |
| estimates | 3, 4, 5 |
| gas schedule | 100 %, then 125 % |
| fee schedule | 100 %, 120 %, then 140 % |
| retries | 4 |
| RPC failures or evictions | 2 |

Two requests let a stale transaction of the first interfere with the second. The retries stand for the 5-minute budget: each stuck wait costs 30 s, so a handful of retries fit.

The retry budget needed grows with the failures. With `f` failures, TLC finds the smallest budget for which `RevealLandsWithinBudget` holds:

| `f` | smallest budget |
|---|---|
| 1 | 2 |
| 2 | 4 |
| 3 | 7 |

A single failure can cost two retries (a consumed nonce, then a stuck wait and its timeout). The run uses the tight pair: 2 failures and 4 retries.

### Websocket

| Bound | Value | Why |
|---|---|---|
| feeds | one, plus one unknown id | an unknown id exercises the error of `subscribe` |
| channel and socket capacity | 1 | so a full channel and a waiting send happen |
| events | 3 for one connection; 2 for two connections | three events let an out-of-order event follow two in-order ones |
| client messages | 1 per connection, plus pongs | two requests per connection take more than four minutes with three events; with two events no out-of-order event follows two in-order ones |
| interval ticks | 1 due at a time, 2 in all | |
| store failures | 1 | |

`ws_delivery` uses every kind of request (`MCRequests`). The broadcast runs use only `close` (`MCCloseOnly`), so a broadcast meets a dropped receiver. They whitelist both clients, so the rate limit does not close them, and they have no store failures; `ws_delivery` covers those paths.

### Fee withdrawal

| Bound | Value | Why |
|---|---|---|
| chains | 2 | a failure on the first chain skips the second |
| minimum balance, transfer | 2, 1 | |
| fees | 0 or 3 at first, plus at most one accrual of 3 | a claim happens, and fees accrue while one is pending |
| balances | 2 or 3 | funding happens only above the minimum |
| RPC failures or dropped transactions | 2 | one ends a run while its claim is pending, so the next run's first send meets its nonce; one drops a transaction |

### Price buffer

| Bound | Value | Why |
|---|---|---|
| data lengths | 40, 108, 115 | too short for the header; room for 3 records exactly; 3 records and a remainder |
| batch | up to 2 records | a second batch no longer fits |
| calls | 3 | |
| `num_prices` maximum | 15 | stands for `u32::MAX` |
| inputs to `new` | every index and status up to one past its range | the rejected inputs are tried |

## Fairness

The keeper and submitter modules assume weak fairness on each program action: tokio schedules every ready task, and each await resolves because a stalled RPC is bounded by the failure budget.

- **Keeper pipeline.** The chain keeps producing blocks, so the block stream keeps yielding. The chain's advance and Ctrl+C are not fair: the chain may stop, and the operator may never press Ctrl+C.
- **Transaction submitter.** Mining is fair. Eviction and RPC failures are not. `TimeoutOnlyWhenStuck` lets the 30 s timeout fire only when the transaction cannot be mined (a nonce gap before it, or not in the mempool). This is the timing assumption under which the timeout recovers and never races a slow but valid transaction.

- **Websocket.** Every ready task is polled: weak fairness on the insert, the store fetch, each feed and send, and each send of `notify_updates`. A `select!` picks among ready branches at random, so a branch that is ready again and again is eventually taken: strong fairness on its three branches. Clients outside `Stuck` keep reading. Connecting, client requests, the aggregator and the timer are not fair. `IntervalTick` lets a tick come due while the actor awaits only if the pong of the last ping is back (a round trip is shorter than 30 s), or if the actor is blocked on a full socket.

- **Fee withdrawal.** Cron runs the command again and again, and each step of a run completes or fails: weak fairness on every program action. Mining is fair (the pending transaction at the mined count is eventually included). Eviction of a transaction queued behind a nonce gap is fair: geth's txpool drops queued transactions after its lifetime (`txpool.lifetime`). Other drops, RPC failures and new fees are not fair. The withdraw runs check deadlock: the cron job never stops.
- **Price buffer.** Only safety is checked, so no fairness is assumed.
- **Keeper supervisor.** Every program step of `run`, the API loop, the keeper loop and each chain's start has weak fairness. A chain that sees the exit flag stops (`ChainStop` is fair): `KeeperPipeline`'s `ShutdownCompletes` shows that its tasks end. Ctrl+C, RPC failures and bind failures are not fair.

`CHECK_DEADLOCK FALSE` is set in five places:
- the keeper, because the process really stops after Ctrl+C;
- the supervisor, because `run` returns (after Ctrl+C, or on a failed verification);
- the submitter, because its caller has a finite list of requests;
- the websocket, because its clients and events are finite;
- the price buffer, because its calls are finite.

## Plan

Modules, in order:

1. `KeeperPipeline`. Done.
2. `TxSubmitter`, with the abstract `RevealSubmission` that it refines. Done.
3. `KeeperSupervisor`, with the abstract `KeeperChain` that `KeeperPipeline` refines. Done.
4. `KeeperPipeline` across restarts: `RestartRecoversMissedBlocks`. Done. Blocks fetched again after a restart are not a property, because the event handling that would act on them twice is not in `src/`.
5. `WsSubscriber`. Done.
6. `PriceBuffer`. Done.
7. `WithdrawFees`. Done.

## Not modelled

- Instruction builders, constants, examples, an error enum, CLI options, the Wormhole encoding and `pyth-rng generate`. The Wormhole encoding (`wormhole.rs:49-72`) has no state of its own and no caller in `src/` that reuses an account. These are listed with reasons under `components` in `PROJECT.json`.
- `estimate_tx_cost`: one fetch and one product.
- The Hermes RPC loop: a blocking call whose effect depends on the executor.
