# A TLA+ verification of Hummingbot Gateway

Hummingbot Gateway (`src/src`, TypeScript) is a REST server that lets a trading bot act on
Ethereum-like chains and on Solana: it quotes and executes swaps, manages AMM/CLMM liquidity,
keeps wallets, token lists, pool lists and configuration on disk, and talks to the chains through
RPC providers. It is one Node.js process: there are no threads, but every request handler is
suspended at each `await`, and other requests, timers and socket callbacks run in between. That,
and the chains moving on their own, is where its hard behaviour comes from.

## 1. Inventory

### Parts, state and operations

| Part | Source (under `src/src`) | State it keeps | Operations |
|---|---|---|---|
| Solana sending | `chains/solana/solana.ts` | none of its own; the life of one transaction | simulate, prepare, broadcast, WebSocket monitor, poll until the blockhash expires, final look-ups |
| EVM sending | `chains/ethereum/ethereum.ts`, `routes/poll.ts` | account nonce (on chain) | send, race `wait(1)` against a timeout, extended receipt poll, map the receipt to a status |
| WebSocket monitoring | `rpc/helius-service.ts`, `rpc/chainstack-service.ts` | socket, subscription map, idle timer | monitor, connect, message, close, disconnect |
| Router quoting and execution | `services/quote-cache.ts`, `connectors/*/router-routes` | map from quote id to quote | quoteSwap (ask, retry, approximate, put), executeQuote (get ... send ... delete), executeSwap (both) |
| Chain and connector instances | `getInstance` of every chain and connector | map from network to instance | create and initialise on first use |
| Token and pool lists | `services/token-service.ts`, `services/pool-service.ts`, `tokens/`, `pools/` | one JSON file per network | load, save (temp file and rename), add, remove, update, find and save |
| Wallets | `wallet/` | key files, `hardware-wallets.json`, `defaultWallet` in the configuration | add, remove, set default, hardware list, migration of old key files |
| Configuration | `services/config-manager-v2.ts`, `config/` | namespaces in memory and YAML files | load, get, set |
| Hardware wallets | `services/ledger-transport.ts`, `wallet/routes/addHardwareWallet.ts` | one transport and its lock | search for an address, sign |
| Allowances | `chains/ethereum/routes/approve.ts` | ERC-20 and Permit2 allowances (on chain) | approve in one or two steps |
| Gas and priority fees | `chains/ethereum/ethereum.ts`, `chains/solana/solana-priority-fees.ts` | one cached estimate per network, 10 s | estimate, prepare gas options |
| RPC retry | `rpc/rpc-connection-interceptor.ts` | none | retry reads on 429, never writes |
| EVM liquidity connectors | `connectors/{uniswap,pancakeswap}/{clmm,amm}-routes` | none; positions, pools and LP tokens are on chain | open, add, remove, collect, close, create, swap |
| Solana liquidity connectors | `connectors/{meteora,orca,raydium,pancakeswap-sol}` | the Raydium SDK's owner, Meteora's pool objects | the same |
| Wrap and unwrap | `routes/wrap.ts`, `routes/unwrap.ts` of both chains | none | wrap, unwrap |
| Unified trading routes | `trading/` | the default wallets the schemas captured | dispatch to a connector |
| Market data | `services/coingecko-service.ts` | none | look tokens and pools up for the lists |
| Rate limiter | `services/rate-limiter.ts` | active count, queue | not used by the program |
| Server, schemas, documentation | `app.ts`, `schemas/` | none | registration, formats |

### How they interact

A route handler takes the chain instance (`getInstance`), reads the token list and the wallet,
builds a transaction with a connector, and hands it to the chain's send. On Solana the send is
`sendAndConfirmTransactionForWallet` (or `...RawTransaction`), which waits over the WebSocket
monitor when there is one and polls otherwise; on EVM chains the route broadcasts and then calls
`handleTransactionExecution`. What the send answers becomes a `TransactionStatus` (1 confirmed, 0
pending, -1 failed) or an HTTP error, and a client that was told "pending", or nothing, later asks
the poll route. So one question runs through the half of the program that trades: *is what the
client is told about its transaction true?* The modules of that half are arranged around it:
`SendOutcome` says what any send promises, the two sends are shown to keep the promise, and the
routes are modelled on top of its outcomes alone.

The other half keeps what the trading half works with: lists, wallets, configuration, singletons,
cached fees, the device. Its question is *what is shared state worth when requests overlap, a write
fails or the process dies?* `GatewayState` composes those parts over one model of the file system.

### What is hard, and what makes each part correct

| Part | Hard behaviour | Correct when |
|---|---|---|
| Solana sending | lagging and failing reads, forks, lost broadcast answers, the last valid block, timeouts | a success, a failure and a rejection are true for ever; giving up after expiry is final; every call is answered |
| EVM sending | overlapping sends that sign one nonce, a wait that gives up early, failing reads | a receipt stays true; giving up claims nothing; no transaction is stranded behind a nonce gap |
| WebSocket monitoring | calls share a socket, a map with two kinds of ids, and an idle timer; late events of old sockets | no answer goes to another call; every call settles; a busy socket is not closed |
| EVM poll route | reads one after the other while the transaction moves | 1 only for a mined transaction, -1 only for a dead one |
| Router quoting and execution | throttled and approximated quotes, overlapping requests for one quote, look-ups that fail after the send, wallets baked into quotes | 1 only for an executed swap, of a quote that was told, within its slippage, paid to whom it should; a quote is dropped only after it executed, and then not sent again |
| Allowances | two transactions of which the second may fail, repeated requests | a confirmed answer rests on decided steps; repeating sends only what is missing |
| Liquidity routes | reads that go stale before the transaction executes, several transactions for one request, errors told apart by their wording, one SDK object for all wallets | a status, an amount and a refusal are true of the transaction; what nothing overtook does not fail; no wallet sends what was built for another |
| Instances | overlapping first requests across `await init()` | one instance where it is registered first, an initialised one where it is registered last |
| Token and pool lists | load, change and save across awaits, one temporary file, failing disk, crash | no change is lost to one that did not overlap it; the file always is some list that was saved |
| Wallets, configuration | look-up, file and default wallet across awaits; memory changed before the file, written in place | the default wallet exists, or is the one of the start, unless it was configured otherwise; it is the one that was told |
| Fee caches, RPC retry | concurrent refreshes, failures cached, 429 at any call | an estimate is at most 10 s old and within its limits; a write reaches the node once |
| Hardware wallets | one transport that everybody closes | the lock is freed; an undisturbed search finds what is there |
| Unified routes | the chain comes from one parameter, the connector from another, the pool from a list that changes | no connector gets a network of another chain, no swap a pool that is not listed |

Every hazard is in `PROJECT.json` at its line, with the properties that cover it.

## 2. The models

| Module | Models | Extends / instantiates |
|---|---|---|
| `SolanaChain` | the cluster, for one transaction: blocks, expiry, forks, what a read may return (external) | |
| `SendOutcome` | the abstract specification of a send: one broadcast, one answer, true for ever | |
| `SolanaSend` | one send of `solana.ts`, await by await | `SolanaChain`, `SendOutcome` |
| `SolanaSend_proof` | its theorems | `SolanaSend` |
| `WsMonitor` | `helius-service.ts` (and `chainstack-service.ts`, the same code) with its server (external) | |
| `WsMonitor_proof` | its theorems | `WsMonitor` |
| `EvmChain` | nonces, pool and blocks for one account (external) | |
| `EvmSend` | nonce, broadcast and `handleTransactionExecution`, for overlapping requests | `EvmChain`, `SendOutcome` per request |
| `EvmPoll` | `routes/poll.ts` beside those sends | `EvmSend` |
| `EvmPoll_proof` | the theorems of both | `EvmPoll` |
| `EvmApprove` | `routes/approve.ts` over the send contract | |
| `EvmApprove_proof` | its theorems | `EvmApprove` |
| `QuoteExecution` | the quote cache and the seven `executeQuote` routes over the send contract; a quote is made in one step | |
| `Quoting` | the seven `quoteSwap` and `executeSwap` routes: what is asked, retried, approximated, told and promised | `QuoteExecution`, which it refines |
| `Quoting_proof` | the theorems of both | `Quoting` |
| `EvmRoute` | the life of a request that sends one EVM transaction, over the outcomes of `EvmSend` | |
| `EvmClmm`, `EvmAmm` | the routes of Uniswap and PancakeSwap, with the contracts they call (external) | `EvmRoute` |
| `EvmRoutes` | the wrapping of ETH, and overlapping requests to all of those routes | the two above |
| `EvmRoutes_proof` | its theorems | `EvmRoutes` |
| `SolanaRoute` | the life of a request that sends Solana transactions, over the outcomes of `SolanaSend` | |
| `MeteoraRoutes`, `RaydiumRoutes`, `OrcaRoutes`, `PancakeswapSolRoutes` | the routes of these connectors; the last one with wrap and unwrap of SOL, which send the same way | `SolanaRoute` |
| `SolanaRoutes` | overlapping requests of several wallets to those routes, all of one connector | the four above |
| `SolanaRoutes_proof` | its theorems | `SolanaRoutes` |
| `Files` | files, inodes, temporary files, failing writes, crash and restart | |
| `TokenList`, `PoolList` | the routes under `/tokens` and `/pools` | `Files`, `TokenList` |
| `Wallets` | key files, hardware list, default wallet and the configuration they are in | `Files` |
| `Trading` | the dispatch of the unified routes | `PoolList`, `Wallets` |
| `Instances` | the singletons of a network, and its node | `Files` |
| `Fees` | cached gas and priority fees; retries of throttled calls | `Files` |
| `Ledger` | the device's transport and its lock | `Files` |
| `GatewayState` | overlapping requests to any of those, with crashes and restarts | `Trading`, `Instances`, `Fees`, `Ledger` |
| `GatewayState_proof` | its theorems | `GatewayState` |
| `MC...` | the instances TLC checks, where the configuration alone does not give them | |

**State and actions.** `pc` is the `await` a call is suspended at (`stage` for a quote). An action
is what runs between two awaits: it takes one possible result of the awaited call, follows the code's
branches, and ends at the next await, an answer or an exception. Actions of different calls, of
timers, of socket events and of the chain interleave freely, as they do in Node.js; nothing
interleaves inside an action. `Return` (or `Answer`) sets what the caller gets. Some variables do not
exist in the code; they record what a property needs: `ended` of `SolanaSend`; `executed`, `since`,
`alone`, `why`, `paid` of the EVM routes; `fresh`, `why`, `moved`, `last`, `told` of the Solana
routes; `expected`, `clash`, `torn`, `removed`, `kept`, `executed`, `used`, `sent` and the
`disturbed` of a session in `GatewayState`; `terms` of `Quoting`. A comment that starts with `FAULT` marks an operator that is no part of a
model: it is a plausible mistake in the code, which the property it is kept for detects.

* `SolanaSend`: `Simulate`, the window (`getLatestBlockhash`), the broadcast with its lost answers,
  the monitor, the poll loop with the height read and the grace poll, `fetchTransactionData`, and
  `throwIfLandedWithError`, with the two entry points (`sendAndConfirmTransactionForWallet`,
  `sendAndConfirmRawTransaction`) told apart by `entry`. The monitor is reduced to its answers:
  confirmed, error or timeout of the subscribed signature, which `WsMonitor` shows to be its own
  (`AnswerIsOwn`) unless the ids of two subscriptions clash, which `SolanaSend` leaves out. `reliable`
  says of a whole behaviour that reads neither lag nor fail.
* `WsMonitor`: `subs` is the `subscriptions` map, whose keys are local ids until the server's reply
  moves an entry to the server's id; `timer` and `localId` are what the closures of a call hold.
  Promise continuations run before the next socket event or timer (`Quiet`). The server gives any
  id of `ServerIds` that the connection does not use, the Gateway's own among them: nothing in the
  code keeps the two kinds of keys apart, so a reply can overwrite an entry, and a notification or a
  timeout hit another call's. `assigned` records which id each call was given, and `KeptApart` says
  of a call that no id the server gave clashes with it; the safety properties are about these calls,
  whatever becomes of the entries of the others. A loop that rejects the entries of the map may pass over some when ids clash, since each
  rejection deletes its local id (`Visited`; the order of the map is left open).
* `EvmSend`: requests in `Latest` read their nonce with `getTransactionCount`, the others leave it
  to ethers. Several requests may sign one nonce; one of them is mined and its rivals are dead.
* `EvmPoll`: the loop that looks a missing transaction up again, the receipt, and the gas price
  comparison that tells "likely" from "stuck".
* `QuoteExecution`: `ledger` and `reply` are the two variables of `SendOutcome` for each request.
  `Replies` says which ends of a send are true now: on Solana a return means success and everything
  else is an exception; on EVM chains a receipt, null, or an exception. What the seven routes make
  of them is `UniswapResult`, `PancakeswapResult`, `ZeroXResult` and `SolanaResult`.
* `Quoting`: a quote goes through the `stage`s of its router's `quoteSwap`: the exact-out call, the
  two exact-in calls that approximate a BUY when the client allows it, Jupiter's and the other
  services' retries on 429. `terms` is what it promises: the mode of the swap, whom it pays, which
  slippage bounds which amount. `oneshot` requests are `executeSwap`, which quotes and then executes
  the quote it got.
* `EvmApprove`: amounts are numbers, which is all the comparisons of the code look at, up to
  `MaxUint160` (all Permit2 holds) and `MaxUint256` (what an empty amount asks for). Allowances change
  when an approval is mined; those of earlier approvals are any value in the initial state. The allowance
  of a plain spender is never read, so it is no variable; the requests are of one wallet, on a device or not. What
  swaps spend of an allowance is not part of the module. `lowToken` and `lowPermit` are histories:
  the lowest amount approved since a step was mined.
* `EvmRoute` and its family: a request reads and checks at "start", holds in `held` what it takes
  into its transaction, sends, and answers by the table of its route. When its transaction executes
  the contract looks at the state it finds then: a position burnt, an allowance spent, an amount
  that shrank, a pool that somebody else created revert it, as the contracts would.
* `SolanaRoute` and its family: `plan` is the list of transactions of a request, simulated, signed
  and sent one after the other. `RawOps` are the routes that send with
  `sendAndConfirmRawTransaction`. `sdkOwner` is the wallet that the one Raydium SDK object is loaded
  for, `reloaded` a history of the loads that came between a request's own and its build. What Orca's
  open and swap estimate is any amount, kept in `remembered`.
* `Files`: a name refers to an inode and a request that opened a file keeps its inode, so that
  `rename` under an open file has the effect it has. `Save` opens, writes and renames (lists) or
  truncates and writes in place (everything else), one operation of the thread pool per step.
  Reading a list of tokens or pools for a change, or for the pool of a swap, is a step of its own: the
  request keeps what it `Reads` in `held`, and goes on with it later, whatever was renamed meanwhile. `clash`
  has the lists whose saves overlapped, a mark for those that were saved from a stale read
  (`StaleMark`), and one for changes of the wallets. What only looks at a list does so in the step that
  reads it, and so do the hardware wallets' reads, whose overlaps are marked as a whole.
  `Crash` loses all requests; `Restart` loads the configuration, or fails to.
* `Wallets`: `config.wallet` is any key file's wallet, none, or the `Placeholder` that the templates ship;
  `POST /config/update` (`UpdateConfig`) sets it to any of these. `removed` is a history: which
  wallets were taken off and not added again.
* `Trading`: a chain-network is a chain, known or not, and a network, told by the chain that has it. The
  swap routes look for the network on the chain that was named (`Route`); a connector that is called
  looks for it on its own (`ConnectorReplies`). `seen` is a history: the
  pools that were on the list at some moment since the swap began.
* `GatewayState`: each request's `op` and `arg` are chosen at the start, any operation with any of its
  arguments (`Ops`, `ArgsOf`), on any lists without duplicates. A step is one of some request, an estimate
  that gets old, a crash, or a restart.

## 3. What the runs check

A property is a conjunction of named parts where several facts make up one claim: `AnswersAreTrue`
of the Solana routes, for instance, is `ConfirmedIsLanded`, `PendingIsLanded`, `ClientErrorIsFinal`
and `ErrorIsSettled`, each stated with its comment in the module.

| Run | Shows | Instance |
|---|---|---|
| `solana_send` | `AnswersAreTrue` (a success, a failure, a rejection), `Returns`, and that the send implements `SendOutcome` (`KeepsContract`), with lagging nodes, forks, errors and rate limits at every await; `NoLateLanding`: with reads that neither lag nor throw, giving up because the blockhash expired is final | 6 blocks, validity 2, 6 polls, 2 retries of each kind, nodes that are reliable or not |
| `ws_monitor_safety` | `AnswerIsOwn`, `WaitingIsRegistered`, `IdleSparesWaiting`, `MonitorSettles` with refused, dropped and stale connections, lost answers and `disconnect()` | 2 calls, 3 sockets, 2 local ids, 3 server ids of which one is a local id |
| `evm_send_adverse` | `KeepsContract` for each send, `NoNonceGap`, `Returns` with lagging and failing nodes | 3 requests, 2 of them with the latest nonce, 2 polls |
| `evm_poll_reliable` | `PolledIsTrue` (1 and -1 are final), `PollAnswers`, for nodes that do not lag | 2 requests, 3 look-ups repeated as in the code |
| `evm_poll_reverted` | finding: `ConfirmedHasNotFailed` is violated, 1 is answered for a reverted transaction | 1 request |
| `evm_approve` | `ConfirmedIsDecided`, `OneInFlight`, `RepeatResumes` | 3 requests, so that a smaller approval may come between one and its repetition, two amounts, Permit2's most below the token's, every initial allowance |
| `quote_execution` | `OutcomesAreTrue` (confirmed, reverted, dropped from the cache), `SwapsAsAsked` (quoted, approximated only if allowed, within the slippage), `PaidToWhoSwaps`, `NoSendAfterConfirmed`, and that quoting implements the one step of `QuoteExecution` (`QuotesAreOneStep`) | 2 quotes, 2 requests, all 7 connectors, 2 attempts |
| `quote_recipient` | *violation*: a quote made for another wallet, or for none, pays its tokens elsewhere | as above |
| `evm_routes` | `AnswersAreTrue` (status 1, client errors, "insufficient funds"), `ToldIsTrue` (closed, amounts, prices), `NoBlindRevert` | 2 requests, 1 position and 2 ids to mint, liquidity and LP tokens up to 2, WETH up to 1 |
| `evm_swap_reverted` | *violation*: a reverted swap is answered as a lack of gas money | 1 request |
| `solana_routes` | `AnswersAreTrue` (1, 0, client and server errors), `ToldIsTrue` (closed, amounts), `ForeignWasReloaded`, `FailedWasOvertaken` | 2 requests of 2 wallets, 1 position, liquidity up to 2, estimates up to 2 |
| `gateway_state` | `FilesAsSaved`, `ListsAreKept`, `DefaultIsSound`, `DispatchedAsAsked`, `InstancesAreSound`, `FeesAreSound`, `WritesOnce`, `DeviceServes` | 2 requests, 2 symbols, addresses and pairs, 2 wallets, 1 failing write or 1 crash, gas prices up to 2, 2 retries, 2 device accounts |

`TypeOK` is checked where the types are tight (`solana_send`, `evm_poll_reliable`, whose
`PollTypeOK` contains that of `EvmSend`, `gateway_state` and `quote_execution`). The type invariants of
`WsMonitor`, `EvmApprove`, `EvmRoutes` and `SolanaRoutes` document their variables; no run lists them.

**Why the bounds are enough.** The retry counts of the code (5 and 10 reads, hundreds of polls, 4
attempts) only repeat one loop body: two turns reach the first, the last and the turn after a failure.
Six blocks with a validity of two let a transaction land before its last valid block, in it, or never;
they let a fork be abandoned and the height read be behind. Two calls are enough for every pair of
overlapping calls; three sockets let the close event of the first arrive while the second one is open
and a third is opened. Three EVM sends are the least that give two rivals and a third nonce behind them.
A position with liquidity two can be emptied in part and in whole, by two requests or by one. Two
entries per list are one to change and one to keep. All counters are bounded by the constants of that
name, and the proved properties do not depend on them.

**What the instances leave out.** In `gateway_state` (`MCSpec`) the two requests are of one group of routes
or of two that share a file or an object (`Pairing`); of the pairs of trades and list changes, a quote
meets the addition and an execution the removal of a pool. Arguments, files and fee configurations that
neither request looks at have one value (`MCArgsOf`, `SmallConfigs`, `MCInit`). Of the providers a swap can ask for by name, `AskedProviders` has one with a pool on each
chain and one that there is not. A search of the device ends where the device told the path; what `POST /wallet/add-hardware` does
afterwards is `AddHardware` of `Wallets`. Two requests never reach the step of `createTransport` that
replaces a transport; with three, or the device disconnected, they would. In `quote_execution` a
slippage of one's own comes with simple quotes only, one of the two quotes is plain, and a request calls
another connector's route only with plain quotes (`Paired`). In `evm_routes` (`MCInit`) a request that does
not touch the position (`Apart`) meets one with fees and all of its liquidity, and the two requests are of
one family of routes. The theorems of the quotes, of the EVM routes and of `GatewayState` have none of
these limits: there any number of requests to any routes overlap. The requests of `SolanaRoutes` are of one family in the theorems, too.

`CHECK_DEADLOCK FALSE` is set everywhere: in each of these systems all requests may be answered and
all transactions decided, and then nothing is left to do.

**Fairness.** `SolanaSend` and `EvmSend` assume that a call that can take its next step does: an
awaited RPC call settles (the HTTP clients have timeouts) and a timer fires. In `EvmPoll` the same
holds of the poll route. In `WsMonitor` the continuations, the timers, the outcome of a connection
attempt and the end of a close handshake (the `ws` package gives one up after 30 s) are fair.
Nothing is assumed of the chain, which may never include a transaction, or of the server, which may
never answer. The other modules state safety only, without fairness.

### Disagreements between code and documentation

The violations are listed under `findings` with the lines they contradict. While modelling, other
disagreements and behaviours that a maintainer should know of were met. The models have them; no run
is kept for the others, and where a property would not hold because of one, it names the exception.

*Sending and polling.*

* `solana.ts:1396`: the 504 "not seen on-chain before its blockhash expired" is also raised for a
  transaction whose confirmed status was received and whose data could not be fetched.
* `solana.ts:1831`: polling stops at the first status with an error, also of a processed block; when
  that fork is abandoned, the 504 is raised although the blockhash is still valid.
* `helius-service.ts:69` says "Monitor a transaction for confirmation via WebSocket", but the map of
  subscriptions has entries under the ids that Gateway counts from 1 and, once the server replied (`:246`),
  under the server's, and nothing keeps the two apart. When the server gives id 2 to the first call, the
  second call, whose local id is 2, overwrites its entry, is told the first one's result, and the first can
  only time out. The ids in the tests are as high as 20100755 (`test/rpc/helius-websocket.test.ts:306`); a
  server that counts from 0 or 1 collides at once. The properties of `WsMonitor` are stated with
  `KeptApart` for this reason; without it each of them, `MonitorSettles` excepted, is violated.
* `helius-service.ts:41` says "disconnects after 30s idle"; after a timeout the map entry stays and the
  socket is kept open.
* `ethereum.ts:1014`: a receipt read that throws ends the extended poll; the caller answers an error
  for a transaction that may be confirmed. `ethereum.ts:1024` returns null for "Genuinely still pending
  — caller must handle null."; the liquidity routes dereference it and answer 500.
* `routes/poll.ts:84` answers 1 for a reverted transaction (`chain-schema.ts:102`: -1 = failed), which the
  run `evm_poll_reverted` shows; with a lagging node it answers -1 for one that succeeds later (`poll.ts:58`).
* `pancakeswap-sol/clmm-routes/executeSwap.ts:186`, `solana/routes/wrap.ts:93`, `unwrap.ts:129`, and
  collectFees of PancakeSwap-sol: every send that is not confirmed is answered with status 0, also one
  that failed on chain.
* A request that is repeated after a 429, 500 or 504 may execute twice: the first one may have landed.

*Quotes.*

* `pancakeswap/router-routes/executeQuote.ts:194`: "Transaction is still pending", but the null status
  is taken as reverted; at `:205` a reverted swap (-1) falls through to the success branch and its quote
  is deleted.
* `jupiter/router-routes/executeQuote.ts:49` and the other Solana routers: a swap the send has just
  confirmed is fetched once more, and answered as pending when it is not found yet.
* Jupiter's approximation relabels a 429 as a missing route, against the comment above it; Titan, DFlow
  and OKX relabel it always.
* A failed `executeSwap` leaves its quote in the cache, though the client never learns the id. The quote
  of an equivalent pair (ETH for WETH) on Uniswap gets an id that is never cached.
* 0x tells an `expirationTime` that nothing enforces. The price told for a BUY on PancakeSwap is
  inverted. PancakeSwap's calldata has the configured slippage, the bounds told come from the request's
  (`SlippageIsKept` excepts it).

*Allowances.*

* `approve.ts:187-192`: the Ledger branch has no status, and `approval.status ?? -1` answers -1 for
  an approval that succeeded.
* `approve.ts:124`: the Permit2 allowance, a uint160, is compared with MaxUint256, so an approval of
  the default (maximal) amount is always sent again.
* Status 1 and "Universal Router V2 approval complete" are also given when the Permit2 step reverted.

*Liquidity on EVM chains.*

* addLiquidity of a CLMM checks neither the owner of the NFT nor the allowance of WETH
  (`NoBlindRevert` excepts the latter), AMM removeLiquidity sends a share that rounds down to nothing
  (excepted, too), and AMM createPool has minimum amounts where the CLMM's has none.
* collectFees refuses a position whose fees are not credited yet; closing one without liquidity but with
  fees is refused by the SDK.
* The CLMM closes of Uniswap and PancakeSwap (`uniswap/clmm-routes/closePosition.ts:108-115, 162-163, 187-188`, `pancakeswap/clmm-routes/closePosition.ts:87-135`) tell the fees
  inside the removed amounts and once more as fees, where Meteora's and Raydium's take them off; a
  client that adds the two up counts them twice. `PaidAsTold` (in `ToldIsTrue`) holds a close to what
  it tells as removed only (`ToldOnce`); their removeLiquidity tells the fees as removed, and only so.
* Open takes token0 as the base token, add WETH or token1, the others WETH or the lower address.
* PancakeSwap's CLMM swap has `Date.now() + 300` milliseconds as its deadline in seconds, and the
  execution price as its limit. Wrapping takes its nonce from the latest block.

*Liquidity on Solana.*

* Meteora's remove, close and collect send several transactions, tell the amounts of the last one only,
  and may fail after the first ones executed. Its close tells the fees it read before, and unwrap of SOL
  the balance it read (`solana/routes/unwrap.ts:120`), whatever another request unwrapped or wrapped
  since. Orca's swap tells the estimates of its quote (`executeSwap.ts:91-95, 109-121`) and looks nothing
  up, although the schema says "Actual amount of tokenIn swapped" (`chain-schema.ts:200`);
  its open does the same when the look-up finds no trace or no transfers. `ToldWasMoved` excepts these four
  (`TellRead`). Meteora's addLiquidity passes percents where openPosition passes basis points.
* The fees that Raydium's collect and close tell are always 0, although removeLiquidity takes them
  along (`collectFees.ts:61-64`, `removeLiquidity.ts:91-110`).
* Orca's close tells zeros with status 1 when the look-up finds nothing, and decides on the position's liquidity by another read than its SDK.
* PancakeSwap-sol tells 1 % of the liquidity as fees, and chooses exact-in or exact-out by which token is
  the pool's base. A partial unwrap unwraps everything.
* When a second wallet loads the Raydium SDK meanwhile, the first one's request fails with "Cannot sign
  with non signer key", by the library, and nothing is sent. That this takes a load for another wallet in
  between is `ForeignWasReloaded`. An error while amounts are extracted after
  the landing is answered 500.

*Lists, wallets, configuration.*

* Two saves of one list that overlap share the temporary file: the live file may be torn for a moment
  and the other save answers "Failed to save" though its data may be live. The comment calls it atomic.
* `POST /pools` answers 400 for every error, a failed save included. Replacing removes the pool at an
  address it read before, and only then validates and adds the new one, which may fail (`addPool.ts:106`).
* A change that goes on with a list which somebody else replaced since it was read undoes that change.
  `ListsAreKept` leaves out what overlapped so; `UniqueEntries` holds all the same.
* The hardware list is written in place: read between truncation and write it counts as empty, and the
  next save loses it all. Migrating a key file can bring back a wallet that was removed meanwhile; a
  crash during it loses the key. Removing an address that is both removes only the hardware entry.
* A configuration that could not be saved stays changed in memory; a crash during the write leaves a
  file that Gateway does not start with. Boolean strings other than "true" count as false.
* The trading schemas capture the default wallet when the module is loaded, Solana's also for requests on
  Ethereum (README.md:144 "Set default wallet per chain"). The CLMM routes
  that send and the AMM routes ignore the chain in `chainNetwork` and go by the connector, whose networks
  are looked for on its own chain: `solana-mainnet` with `uniswap` trades on Ethereum, although
  `trading-clmm-routes/add.ts:56` documents "Chain and network in format: chain-network". The model has it
  (`RouteTo`, `ConnectorReplies`). A chain-network without a "-" is a 400 of the quote route and a 500 of the others.
* `POST /config/update` sets `defaultWallet`, of the chain also through a network's namespace, to any string
  (`config/utils.ts:63-83`), and the templates ship `<ethereum-wallet-address>`: the default wallet may
  name no wallet. `DefaultIsKnown` holds otherwise: the default is then a wallet that there is, or the one
  that Gateway was started with and nobody removed.
* `getDefaultPools` passes its arguments in the wrong order and always returns `{}`. CoinGecko's
  top-pools swallows the errors of its pages, so that the 404 branch around them is dead. Signing with a
  missing wallet answers 500.

*Instances, fees, device.*

* Solana, Uniswap and PancakeSwap register an instance before it is initialised: a second request uses
  it so, and a failed initialisation stays registered. The others may be made twice, and the last one
  stays. A Solana connector made while Chainstack is asked keeps the fall-back node.
* A failing EIP-1559 estimate lets a legacy one overwrite a good one; an estimate that was slow to arrive
  counts as fresh from its arrival. A given gas price below the configured tip makes invalid options; a
  configured minimum above the maximum yields the maximum.
* A request refused by the device's lock closes the transport of the one that holds it. While a transport
  is being opened, a second search has all of its paths refused and answers "not found".

## 4. What is proved

The proofs hold for every value of the constants that satisfies the named assumptions of the modules
(`ChainAssumption`, `SendAssumption`, `QuoteAssumption`, `QuotingAssumption`, `WsAssumption`,
`ApproveAssumption` and so on): the types of the bounds and the sets of known connectors. They state
nothing about behaviour.

`SolanaSend_proof`:

* `TypeCorrect`, `AnswersAreReal`: `TypeOK` and `AnswersAreTrue`, from the invariant `Inv`. The answer
  property is not inductive: that a success is real depends on what the call remembers, so `CallInv`
  adds that nothing is out before the broadcast, that `confirmed` with data was read from a final state,
  and that a fetch after a confirmation is of a landed transaction; `ChainInv` adds that only what is
  in flight can be on a fork, and only before its expiry. `ChainMonotone` is the lemma that makes
  reads keep: the chain never undoes a final state.
* `ContractKept`: `Spec => Abstract!Spec`, with `LedgerView` and `AnswerView` as the refinement
  mapping. Chain steps map to `Decide` or stutter, the broadcast to `Broadcast`, an answer to
  `Answer`, and every other await to a stutter.
* `GivingUpIsFinal`: `NoLateLanding`, from `WindowInv`, which relates the window the call measures
  to the expiry of the transaction's blockhash and to what the last reads showed.

`Quoting_proof`, first of `QuoteExecution`:

* `QuotesTyped`, `QuotesAreSafe`: `TypeOK` and `OutcomesAreTrue`. The invariant says of each request
  what its `reply` implies about the chain (`ReplyIsTrue`), what its answer implies about the reply
  (`AnswerFollows`), and that a request at work has a quote that was made. `Outcome` gathers what the
  four result operators may do, so that one lemma covers every way a send can end.
* `ExecutedOnce`: `NoSendAfterConfirmed`, from the same invariant: a confirmed request's quote is
  out of the cache and was made, and a quote is made once.

and then of `Quoting`:

* `QuotingImplements`: `QuotesAreOneStep`, the refinement. The mapping is the identity on the variables of
  `QuoteExecution`. `PartsOfQuoting` and `ConnectorsQuote` show that whatever a connector does next either
  leaves the cache alone or puts the quote there, and `MakingInv` that it is not there before.
* `QuotedOutcomesAreTrue`: the corollary that carries `OutcomesAreTrue` over.
* `QuotingTyped`: `QuotingTypeOK`, from `AttemptsInv`, which bounds how often a throttled call is made.
* `ExecutedAsAsked`, `PaidToItsWallet`: `SwapsAsAsked` and `PaidToWhoSwaps`. `PromiseInv` says which
  promise each stage of each connector can make (`StageOf`, `Promise`), `SendingInv` that a request sends
  only a quote it may; together with the invariant of `QuoteExecution` they say it of what was sent.

`WsMonitor_proof`, for any ids the server may hand out:

* `MonitorTyped`, `AnswersAreOwn`, `WaitersRegistered`: `TypeOK`, `AnswerIsOwn`, `WaitingIsRegistered`.
  The difficulty is in the change of ids, with messages still on their way and with entries of other
  calls that are overwritten, moved twice and deleted where ids clash. `IdInv` says that a local id is of
  one call for ever; `EntryInv` that the map has only ids of some call, and that the ids of a call that is
  kept apart lead to it and no others do; `ServedInv` that the server has a call's request until it gave
  it an id; `MessageInv` that a reply and a notification speak of one call, by the ids it has. Whatever
  entry a step moves or deletes, it does so through an id of some call, which is then not an id of a call
  kept apart, or the step is about that call (`OneOwner`, `LoopFinds`).
* `IdleSpares`: `IdleSparesWaiting`, from the same invariant.

`EvmPoll_proof`, of `EvmSend` and `EvmPoll`:

* `NonceGaps`: `NoNonceGap`. `SignedInv` adds what a request holds that has its nonce and has not sent
  yet: all nonces below it are taken. Lagging reads, rivals and mined nonces keep that true.
* `EachSendKeepsItsContract`: `KeepsContract`, the refinement of `SendOutcome` for each request.
* `PollsTyped`, `PolledStatuses`: `PollTypeOK` and `PolledIsTrue`, from `Lasting` (what is mined or
  replaced stays so) and from what the reads of one poll have shown at each of its awaits.

`EvmApprove_proof`: `ApprovalsTyped`, `ConfirmedApprovals`, `ApprovalsInTurn`, `RepeatsResume` state
`TypeOK`, `ConfirmedIsDecided`, `OneInFlight`, `RepeatResumes`. `StageInv` says what a request has sent at each
await, `AllowanceInv` that the allowance is at least the lowest amount approved since any approval that was mined:
an approval replaces the allowance, also by less.

`EvmRoutes_proof`: `EvmAnswers`, `EvmAmountsTold`, `EvmChecksSuffice` state `AnswersAreTrue`, `ToldIsTrue`,
`NoBlindRevert`, for any mixture of the routes. `LifeInv` is the life of a request, common to all; `ClmmInv`,
`AmmInv` and `WrapInv` say what a request that has read has checked, what it holds of it, which of that is
still true if nothing overtook it, and what its transaction moved. The tables of the routes are
lemmas of their own: which answers a route makes of which end of its send.

`SolanaRoutes_proof`: `SolanaAnswers`, `SolanaForeignReloaded`, `SolanaAmountsTold`, `SimulationsHold` state
`AnswersAreTrue`, `ForeignWasReloaded`, `ToldIsTrue`, `FailedWasOvertaken`, for any number of requests and wallets.
The invariant is a conjunction for each request: its life (`LifeOf`), what transactions its plan can have
(`PlanOf`), what its answer says (`AnswerOf`), what it moved (`MovedOf`), that a closed position stays gone
(`GoneOf`), and that a fresh simulation still holds (`FreshOf`); beside it stand that the requests are of
one family (`OneFamily`), and whether the SDK is loaded for the request that builds with it (`SdkInv`).

`GatewayState_proof`, for any number of requests of any kinds, with faults and crashes at any step:

* `FilesAreAsSaved`: `FilesAsSaved`. First every step of every route is shown to be one of a few kinds
  (`OwnStep`: `Between` two saves, `BeginsSave`, `SavesOn`, `Removes`; `OtherStep`), so that the invariant
  `FilesInv` is proved once per kind. It adds what `FilesAsSaved` rests on: who has which inode open
  (`DescriptorInv`), that no two names share one (`EntryInv`), what each list can contain (`ContentInv`),
  and that a list of which no two changes overlapped is written by one request (`AloneInv`), whose
  temporary file has what it writes (`WrittenInv`). `InodeIsLeft` is the counting argument that a new file
  always finds an inode.
* `EntriesAreUnique` and `ListsKeepChanges`: `UniqueEntries` and `ListsAreKept`. `ListsInv` says who saves
  what (`SaverOf`), what a request at each step has read (`StageOf`, `FlagOf`: who saved the template has
  its list as what it read), and that a change that was told is on the expected list and on every list that
  is about to replace it, as long as nobody else who touches the entry began, no changes overlapped and no
  save was from a read that another rename had passed (`KeptOf`).
* `DispatchIsAsAsked`: `DispatchedAsAsked`, from both invariants and `SeenInv`: what a swap holds was read
  from a file that was the expected list then, so all of it is in `seen`, whatever is renamed before
  the swap goes on.
* `TheDefaultIsSound`: `DefaultIsSound`. `WalletsInv` says which request is at which step and saves
  what (`WalletStage`), that a default that was told is in memory and in the file (`WasTold`, which is what a
  restart needs), and, while nothing failed, no changes overlapped and no configuration was set (`Clean`), that one
  change is under way at most, and that the default is a wallet that there is, the one Gateway started with
  and nobody removed, or the request that removed it is at the choice of the next one (`DefaultInv`).
* `FirstRequestsAreSound`: `InstancesAreSound`, from `InstancesInv`: who has got which instance, which are
  ready, and that whoever works on one that is registered first has registered it.
* `WritesAreMadeOnce`, `FeesAreAccepted`: `WritesOnce` and `FeesAreSound`. `FeesInv` says that what is cached
  is within its bounds, and bounds the attempts of a call.
* `TheDeviceServes`: `DeviceServes`. `LedgerInv` says that a lock that is kept has somebody who will free it,
  and how far an undisturbed search has come (`SearchInv`); `FirstInv` says
  that until a request for the device has begun it is unconnected: why the search of the first of them starts
  afresh, and not on a connection that another has left.
* `TypesAreRight`: `TypeOK`, a corollary of these invariants.

**Only model-checked:** liveness (`Returns`, `MonitorSettles`, `PollAnswers`), which the prover does not
handle under fairness. Every safety property that a run expects to hold is also a theorem.

## 5. What is not modelled

* *Amounts.* Prices, routes, slippage as a number and liquidity mathematics are real or 256-bit arithmetic,
  or calls of vendor libraries: neither TLC nor the integers of these models reach them. With them goes
  what only computes amounts: the quotes of positions and of liquidity, pool and position information.
  What the unified routes dispatch to them is modelled.
* *Formats.* HTTP, schema validation, encoding of transactions, parsing of answers. Message contents are
  reduced to what the code branches on.
* *External code.* The chains, the contracts, the SDKs, the routers' services, the device and its driver,
  CoinGecko and the file system are modelled by what the code can see of them and marked as external.
* *The rate limiter.* Nothing in the program uses the class.
* *What nothing calls:* `close()` of the chains, `delete()` of the configuration.
* Logging.

## 6. Plan

1. A larger device instance, in which three requests replace each other's transports.
2. The read-only routes of the connectors, as far as their control goes: what they refuse and what they
   fall back to.
