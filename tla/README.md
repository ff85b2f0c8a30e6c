# PolyMirror in TLA+

PolyMirror copies the trades of Polymarket "leaders" into accounts of its own. An account
runs in *preview* (simulated cash, orders fill at once) or *live* (GTC limit orders on the
Polymarket CLOB). A dashboard changes the configuration of the running engine and shows what it
does. These modules model what an account does with trades, orders, fills and resolved markets,
the engine that runs the accounts, their wallets and what the dashboard reads; they check it with
TLC, and prove most of its safety with TLAPS.

Paths below are relative to the repository (`src/...`, `docs/...`).

## 1. The system

One Node process; everything runs on its event loop, so code between two `await`s is
atomic and anything may happen at an `await`. All state that survives a restart is in SQLite
(`src/state/store.ts`, synchronous, one database per account and mode) and at the exchange.

| component | state | operations | talks to |
|---|---|---|---|
| scheduler (`startBot`, `tick` in `src/engine/copy-cycle.ts`) | `cycleRunning` | one cycle per account after the other | copy cycle |
| copy cycle (`runCopyCycle`) | locals of one run: queue, conflict tracker, snapshots | pending pass, settlement, risk gate, adoption, poll, one decision per trade | everything below |
| risk gate, dedup, conflict, sizing, filters (`src/engine/*.ts`) | daily rows, kill switch, `seen_trades`, `buy_dedup`, positions; the tracker per cycle | checks | store |
| CLOB executor (`src/executor/clob.ts`, `secure-backend.ts`) | none | submit with retries, poll the fill, recover a lost order, cancel, list | exchange |
| pending orders (`pending-orders.ts`, `order-reconcile.ts`) | `pending_orders` | reconcile rows, cancel stale ones, adopt untracked orders | exchange, store |
| settlement (`settlement.ts`, `redeem.ts`) | settlement cache, conditions redeemed this cycle | on-chain scan, leader REDEEMs, market data, payout | chain, Gamma, store |
| dashboard requests (`src/api/settings.ts`, `leaders.ts`, `accounts.ts`, `orders.ts`) | locals of a request between its awaits | cancel orders, follow, pause and unfollow leaders, switch mode, stop copying, patch settings, create and disable accounts, change wallets | configuration file, store, executor, account manager |
| configuration (`src/config/*.ts`) | `config.yaml` in one of two formats, `.env` | read, patch, migrate, write, validate | account manager |
| account manager (`src/accounts/*.ts`) | runtimes with their stores and configuration | create, hot reload, close | store, scheduler, name lookup |
| poll and aggregation (`poll.ts`, `data-api.ts`, `aggregate.ts`) | activity cache | fetch recent trades, merge them into batches | data API |
| clients and wallets (`secure-client.ts`, `relayer-wallet.ts`, `deposit-wallet-clob-auth.ts`) | clients and deployed wallets, cached | build a client, approve, retry | SDK, relayer |
| balances and geoblock (`balance.ts`, `geoblock.ts`) | token cache of a cycle, geoblock answer | read cash and tokens, from the chain if need be; refuse a cycle or an order | CLOB, chain |
| audit log and stream (`server.ts`, `events.ts`, `auth.ts`, `dashboard/src/hooks/useAuditStream.ts`) | audit rows, cursor of a stream, token and account of a tab | poll, stream, reconnect, log in, switch account | store |
| displays (`pnl.ts`, `discover.ts`) | caches of 60 s over one of 10 s | fetch in parts, fall back | PnL, leaderboard and data APIs |

What is hard: a dashboard request interleaves with a cycle at every `await`; the exchange
may accept an order without the process learning of it; the process may stop between the
exchange's answer and the database write; state is read (a row, a status, a position)
before an `await` and used after it; trades reappear in the feed for hours, so each must
be remembered exactly when it was copied; three independent paths pay the same position.
`PROJECT.json` lists these hazards line by line, with the properties that cover them.

## 2. The modules

**`LiveOrders`** - the life of live GTC orders of one account.
State: `clob` (exchange), `seen`, `rows` (`pending_orders`), `credited` (shares of each order
added to the books), `pass` (two runs of `processPendingOrders`: the cycle's and a
flush request's), `eng` (the running cycle, with a program counter per `await`), `api`
(dashboard cancels). An order is an id; a trade is its event key; `Shape[t]` stands for
token, side, price and size, the only things recovery compares. A call to the exchange is an
action that takes the answer; using the answer is a later action. `processPendingOrderRow`
is `AskStatus`/`StatusDown`, `CancelStale`, `ApplyStatus` (`Commit` is the transaction
`commitPendingOrderProgress`); adoption is `ListOpen` .. `SaveOrphan`; `placeLimitOrder` is
`Submitted`, `SubmitLost`, `SubmitRejected`, `SubmitNoId`, `PollFill`, and the search for a
lost order `SearchOpen` .. `SearchFailed`; `Record` is the transaction
`recordLiveOrderAccepted`. The constant `Faults` selects the failures of a run.

**`FillLedger`** - the abstract promise: matched shares are booked at most once, and an
order is let go of only when everything is booked up to a slack. `LiveOrders` instantiates it
(`Promise`) with `Levels`, `Size \div 100`, and the orders that are `Settled`.

**`CopyPipeline`** - what the cycle decides about each trade of its queue. State: `seen`,
`pos`, `recent` (`buy_dedup`), `today`/`past` (daily rows), `cash`, `resting` (what is left
of live orders), `lost` (orders the exchange took without an answer), `cyc`; `bought` and `orders`
are history variables. One action per outcome of the loop body: `Filtered`, `AlreadyHandled`,
`LosesConflict`, `BelowMinimum`, `RiskRefuses`, `Uncovered`, `PlaceOrder`, then `RecordPreview`,
`RecordLive`, `LoseAnswer`, `RecordFound` or `PlaceFails`. `Usd` and `Size` are `calculateOrderSize`
after the strategy (`Trade[t].usd` is what the strategy asks for). `ApplyFill` is `applyCopyFill` with
volume, buy window and cash. Money is counted in 1/`Cent` of a cent and sizes in units of the price;
rounding to nearest is kept (`RoundDiv`), and so is where the store rounds to whole cents: the preview
cash at every BUY and SELL and the realized PnL at every SELL (`ToCents`). A position is kept as its
shares and what they cost at the average price: the code's average is a fraction that is not rounded,
and its product with the shares is what a BUY adds to and a SELL takes a part of (`CostLeft`).
Live, collateral, allowance, token balance and slippage are answers of the exchange and may refuse
any order. An order whose answer is lost or names no order (`LoseAnswer`) stays at the exchange
under a key of `Recoveries`, the `recovered-<id>` its adoption would give it. While the submission lasts the
search may find it, or another order that looks like it (`RecordFound`); else the trade is given up for this
cycle (`PlaceFails`, with or without being remembered), or the process dies (`Crash`), and a later
cycle adopts what is open (`AdoptOrphan`) and may order the trade again. A `Recoveries` key stands for one
such order, so their number bounds the answers that are lost.

**`Settlement`** - how positions end. State: the mode, market outcomes, the wallet's tokens,
positions, fills not yet booked, REDEEM keys seen, the Gamma cache, redeems of the cycle, the
cycle, an unfollow request. `got` and `paid` are history variables: shares bought, and shares
sold or paid out. `processSettlements` is `BeginSettling`, the scan (`ScanAnswers`,
`RowsDone`, `ScanEnds`), the events (`PollRedeems`, `EventSkipped`, `EventPaid`, `EventAsks`,
`EventDone`) and the tokens (`ListTokens`, `AskGamma`, `GammaDown`, `TokenKept`,
`TokenSettled`); `RedeemDone`/`RedeemFails` are the redeem all three wait for.
`liquidateLeaderPositions` is `StartUnfollow` .. `UnfollowEnds`. Payout amounts are left out.

**`Aggregation`** - from the activity feed to the queue. A poll takes the newest page of each
leader (`Pages`) through the SDK, which throws on a page with a combo trade, or then through REST
(`FetchActivityUncached`); a cached page answers when it is fresh or the request fails
(`GetActivity`). The API lists trades late and out of order (`Trade`, bounded by `Lag`).
`aggregateTrades` is a fold over the feed, with the buckets as the code keys them; batches meet the
dedup keys over many polls and restarts. Rows other than trades do not take room on the page.

**`ConfigDocument`** - `config.yaml` as data: both formats, the accounts with their overrides and
leaders, what a patch changes and where it is written, the migration, and what is refused: `Loadable`
(an enabled account whose secrets `.env` lacks; a disabled one is passed over, `Loaded`), `Reloadable`
(live trading that `.env` does not confirm) and `Startable` (live with copying off). `Bare` are the
accounts without secrets, `LiveConfirmed` is the confirmation.

**`ControlPlane`** (extends it) - the engine around the cycles. State: the file, the runtimes
with their stores (`opened` counts openings), the databases' dedup keys per mode, orders at the
exchange, each request's stage and locals, the scheduler and its cycle, whether the process runs;
`carried` and `fresh` are history variables. `Direct` is a request that writes and begins its
reload at once, `StartFlush`/`EndFlush` the mode switch that waits for its flush,
`StartUnfollow`/`EndUnfollow` deleteLeader with the document it read first. `WriteAndReload` writes
first; when the reload then refuses the file (`FailReload`) the request gets an error and the engine keeps
what it has, while the file stays. `Resolved` and `NotResolved` are the reload's wait for leader names.
`Answer` gives stop the answer of the code: ok while the store of its context is still the account's,
which it is from preview, an error after live trading. `Tick` .. `TickDone` is the scheduler;
`Detect`, `RefuseTrade`, `PlaceOrder` and `Record` are a cycle reduced to what a store closed
under it can spoil. What a cycle decides is `CopyPipeline`'s, what becomes of orders `LiveOrders`'.

**`WalletClients`** - secrets and clients. State: `.env` by suffix, the accounts of the file, wallets by
account, those a reload has still to load, the cache of clients by key with the step each is at, known
deployments, approvals, who waits for a client; `given`, `wanted` and `had` are history variables.
`Build` takes a client through its steps, `Prepare` is the start, `UpdateWallet`, `CreateAccount`
and `ViewWallet` are requests of the dashboard. The first two write `.env` and `process.env` and begin a
reload (`Given`); `Reload` then loads one account after the other and may fail, after which the accounts left
keep the wallet they had until a later reload (`LaterReload`). `SecureWalletMode` has the override
`POLYMARKET_SECURE_WALLET`, which counts for every wallet of the process. A second reload does not begin
before the first has ended (as in `Control`, section 3).

**`CycleFunds`** (extends it) - what a cycle knows of money: the geoblock answer, the collateral
read once (`AskClient`, `CashRead`, `ReadChain`), tokens with their cache (`TokenRead`), the checks
`CheckLiveBuyCollateral` and `CheckLiveSellFromSnapshot`, the proportional share of a sell. `Submit` asks
for the client anew, as `submitOrder` does, and sends nothing without one; `Place` is then the exchange:
it takes the order (`Taken`), refuses it (`Rejected`), takes it and the answer is lost
(`TakenUnanswered`, `lost`), or an earlier one is found in its place (`Recovered`). `real` is what the wallet
holds, `listed` what the CLOB believes; `left` is a history variable.

**`AuditStream`** - a dashboard tab and the server. State: logs by account and mode, the server's
side of the stream, what is under way, the hook, page, token, account and filter of the tab, the
query cache (react-query, external), history of the rows delivered. `Connect`, `Push`, `Read`,
`Retry` are the stream; `Poll`, `Answer`, `PollAccounts` the queries; `Login` .. `SetFilter` the user.

**`ReadCaches`** - the PnL, leaderboard and trader views: requests that overlap, each part told
apart by when it was read. `Complete` stores, `Fails` falls back; `TradesRead`, `TradesArrive`,
`TradesFail` are `getActivity`, which goes on after its request was answered.

`MC<Module>` gives constants their values; `<Module>Proofs` holds the theorems about a module, its
inductive invariants and the lemmas they rest on (section 5; those about `WalletClients` are in
`CycleFundsProofs`, those about `ConfigDocument` in `ControlPlaneProofs`, those about `FillLedger` in
`LiveOrdersProofs`). Definitions marked `(mutant)` are plausible bugs used to test the properties; no
action uses them. `PROJECT.json` maps every modelling definition to its lines of code.

## 3. The runs

| run | question | bounds |
|---|---|---|
| `LiveFaults` | do rows stay behind dedup keys and with their own trades under lost, refused and id-less submissions, failing checks, flushes, dashboard cancels and crashes? | 2 trades of distinct shape, 2 orders, fills none/all, 1 retry |
| `LiveBooked` | is each trade copied once and each share booked once and not lost, when nothing crashes and no submission is lost? refinement of `FillLedger` | 2 trades, 2 orders, fills at 0/50/99/100 of 100, so that the 99% threshold and partial fills happen |
| `LiveRaces` | is nothing booked twice with stale cancels, expiries, failing calls and crashes; are orphans adopted and rows resolved in the end? | 1 trade, 2 orders, halves, no retry |
| `PaperRisk` | preview: do caps, cash, books, buy window and conflict rule hold after each fill? | 5 trades of 2 leaders in 2 tokens, prices in tenths of a cent so that cash and PnL round up and down, caps hit by two or three trades, one midnight |
| `RestingRules` | live: do the kill switch and deduplication hold while orders rest over cycles, answers are lost, orphans are adopted and the process dies? | 3 trades (a BUY, two SELLs that can rest together), the losing SELL's answer may be lost, crashes at every step |
| `SettlePaid` | is every share paid exactly once? | 2 leaders, the 2 outcomes of one market, 1 share per position, both modes, failed and lost redeems, crashes |
| `SettleRaces` | are positions cleared only after the chain redeem, and every resolved position in the end? | 1 position of up to 2 shares, with unfollow, flush, closed markets and all call failures |
| `AggWindow` | are batches exactly the windows, is no fill ordered twice, and does every recent fill reach a cycle? | 5 fills (two of one moment, a quick sequence, a second group) and a combo; windows 0 and 4; pages of 4 rows, so that fills are crowded out; fills listed up to 2 late |
| `Control` | do runtimes follow the file, and do requests, reloads, cycles and crashes leave no order, setting or account behind? | any 2 of 12 requests, 2 accounts and one without secrets, both formats and one file with defaults that are live without copying, 1 trade, 1 crash, failing lookups |
| `WalletFunds` | do accounts use their own wallets and only money that is there, and are buys placed in the end? | 7 starts (two wallets, shared cash, shared tokens, hidden money, an owner's address that buys or sells, unheld tokens), 2 events, 9 kinds of failure, no override |
| `AuditLog` | does the tab get each row once and in order, and show the newest in the end? | 2 accounts and modes, pages of 2 rows, 3 old rows, 1 new, 2 faults or user actions |
| `Displays` | are shown figures as fresh as the caches promise, and do they stay? | 2 requests at a time, any number one after the other; times to live 2 and 1, 4 moments |

Two orders and two trades are enough for the confusions the code can make (one order taken
for another, one trade copied twice); a third adds no new relation between rows, keys and
orders. Two leaders are needed for conflicts, shared tokens and shared conditions. `Orders`,
`Levels`, `MaxGot`, `Days` and `Fills` are the named bounds. Where orders are used up the
model's cycles go on without new ones.

The other runs bound what happens from outside: `MaxRequests`, `MaxRestarts`, `MaxEvents`,
`MaxRows`, `MaxClock`. A race needs one event to meet another, so two are allowed, of every kind and
in every place; what the engine does by itself is not bounded. The pages of `AuditLog` (2 instead of
100) and `AggWindow` are small so that they fill. `Control`, `WalletFunds`, `AuditLog` and
`Displays` turn the deadlock check off: they end when the events are used up and nothing is left to
do, which their liveness properties look at (`Displays` when its clock has run out).

Some events are excluded from a run because the code does not keep the property under them;
this is part of what the runs show:

- `NoOverCredit` excludes `flush` (a flush request and the cycle's pass commit the same delta
  from their own snapshots, `commitPendingOrderProgress` does not compare), `adoptDown` (an
  orphan whose status is unknown is adopted with nothing booked), and the submissions that go
  through the search for a lost order (the order found may be tracked already).
- `NoDuplicateCopy` excludes crashes (section 6), lost submissions and answers without an id:
  a lost order that filled at once is not among the open orders and is submitted again.
- `FillsBooked` and the ledger exclude crashes (a crash loses the immediate fill of an order
  that is adopted afterwards with that fill counted as booked), stale cancels (fills between
  the status and the cancel) and dashboard cancels (section 6).
- `OrdersLostWithStoresOnly` counts the stores closed under a cycle: each may cost the record of
  one order. `Control` excludes overlapping reloads (section 6).
- `SharesPaidOnce` excludes unfollow and flush: both paths use shares read before an `await`.
- `CopiedOnce` excludes nothing; it says what a trade may be ordered for: once, and once more for each order
  the exchange took for it without the program learning of it (section 6). That the program can
  learn of fewer is `LiveOrders`' subject, where `NoDuplicateCopy` excludes them.
- `EachToItsWallet` excepts what the cache key leaves out: the private key where an address had two of them
  (`OneKey`), and the wallet itself under the override "auto", where the SDK chooses it from the key. The
  money properties look at wallets whose client trades with the configured address (`Agrees`).
  Overlapping reloads are excluded here too. `WalletFunds` has no override; with "auto" and "settings" the
  same properties were checked as well, and the theorems hold for each.
- `BuysGetPlaced` excepts a wallet that is taken for undeployed after one failed call of the relayer.
- `Control` runs with live trading confirmed; without, no request can switch to live. The theorems cover both.
- The caps and `BuyWindowRespected` are of preview; live, orders rest (section 6).

## 4. Fairness

Safety runs use `Spec`. Liveness is checked under `FairSpec`:

- `LiveOrders`: a cycle that can step does (event loop and poll timer: weak fairness);
  listing orders and asking an order's status succeed again and again when they are asked again
  and again (strong fairness: failures are transient, and the risk gate does not refuse for
  ever); from some time on the process is not killed (`<>[][Alive]_vars`).
- `Settlement`: cycles run on and cache entries expire (weak); when they are asked for again and
  again, market data, a redeem, and both within one cycle succeed in the end (strong).
- `Aggregation`: cycles run on (weak); of a leader that is asked again and again a request
  succeeds in the end (strong). Nothing is assumed about refusals.
- `ControlPlane`: requests, reloads and the scheduler go on, a name lookup ends with an answer or an
  error, and a stopped process is started again (weak).
- `CycleFunds`: clients are built and cycles run on (weak). Failures are bounded by `MaxEvents`, so
  they are transient.
- `AuditStream`: the server's and the tab's timers fire, and requests are answered or fail (weak).

Nothing is assumed about dashboard requests or the exchange's matching.

## 5. What is proved

Every invariant and action property that a run checks is a theorem of the specification; so is the
refinement of `FillLedger`. Only liveness is left to TLC. The proofs hold for every value
of the constants that meets the module's `ConstantsOK`: any number of accounts, trades, leaders,
orders and requests, and any bounds. `ConstantsOK` says what the code guarantees, for example that ids are not empty,
that two private keys have different addresses, that amounts are not negative, or that the
program starts with a file it accepts. Theorems that assume more say so in their `ASSUME`; it
is always what the run leaves out as well (section 3), and the code breaks the property without it.

| module | theorem: property | assumes |
|---|---|---|
| `LiveOrdersProofs` | `TypeCorrect`: `TypeOK`; `RowsNeverOutrunDedup`: `RowsHaveSeenTrades` | |
| | `FillsCountedOnce`: `NoOverCredit` | `Faults \subseteq SafeFaults` |
| | `RowsBelongToTrades`: `RowsOwnTheirOrders` | `ShapesDiffer`: no two trades ask for the same order |
| | `TradesCopiedOnce`: `NoDuplicateCopy` | no lost or id-less submission, no crash |
| | `SettledOrdersAreBooked`: `FillsBooked`; `EngineKeepsLedger`: `FillsAreLedger` | `ShapesDiffer`, `Faults \subseteq CalmFaults` |
| `CopyPipelineProofs` | `TypeCorrect`; `EachCopiedOnce`: `CopiedOnce` (crashes and lost answers included); `OneSideCopied`: `OneSidePerToken`; `KillSwitchAlwaysHolds`: `KillSwitchHolds`; `CashStaysCovered`: `CashCovers` | |
| | `BooksStayBalanced`: `BooksBalance` | |
| | `VolumeStaysWithinCaps`, `MarketsStayWithinCap`, `BuyWindowIsRespected` | `Preview` |
| `SettlementProofs` | `TypeCorrect`; `RedeemsFirst`: `ChainFirst` | |
| | `SharesArePaidOnce`: `SharesPaidOnce` | no unfollow or flush during a cycle |
| `AggregationProofs` | `FillsCopiedOnce`: `NoFillCopiedTwice`; `BatchesStayWindows`: `BatchesAreWindows`; `BatchesShareNothing`, `PollsLoseTiesOnly` | |
| `ControlPlaneProofs` | `LostWithStoresOnly`: `OrdersLostWithStoresOnly`; `CarriedNeverOrdered`: `SwitchKeepsSeen`; `OthersAreKept`: `WritesKeepOthers`; `StartsAgain`: `RestartBrokenByPatchOnly` | |
| | `EngineFollowsFile`: `RuntimesFollowFile`; `OkIsDone`: `OkMeansDone` | reloads do not overlap |
| `CycleFundsProofs` | `OwnWalletsOnly`: `EachToItsWallet`; `OrdersAreCovered`: `OrdersCovered`; `SellsGivenUpInNeed`: `SellsDroppedWhenShort` | |
| `AuditStreamProofs` | `RowsComeOnce`: `EachRowOnce` | |
| `ReadCachesProofs` | `TypeCorrect`; `AnswersStayFresh`: `AnswersAreFresh`; `ShownIsKept`: `ShownStaysShown` | |

The arguments:

- **Live orders.** Type correctness comes with `ControlInv`, what each program counter implies for the
  cycle's locals. Rows are created in the transaction that marks the trade seen, or adopted as
  `Recovered`, and `seen` only grows. "Booked is at most matched" is not inductive: a pass books a
  delta computed from a snapshot. `BookInv` adds that whoever holds an amount of an order as booked
  (its row, the pass's snapshot, an orphan being adopted) holds no less than what is booked and no
  more than what matched (`Covers`), and that one pass runs at a time in its own phase of the cycle
  (`PhaseInv`). Rows keep to their trades because every order a step has in hand was found by the
  shape of the trade at hand (`OwnInv`); a trade is copied once because every order of the exchange
  is of a seen trade or of the one being submitted (`CopiesInv`). Completeness of the booking is the
  longest: `LedgerInv` follows, per order, which of row, pass and cycle has the booked amount and
  how far it may lag, up to the hundredth under which the code calls an order full. With it every step
  of the engine is a step of `FillLedger` or leaves it alone.
- **Decisions.** The caps are checked one action before they are used; `BudgetInv` adds that the order
  at hand still fits every budget when it is booked (`Fits`): midnight only frees room, fills only
  come from this cycle, and no order rests in preview. `CopiesInv`: what is being placed is not yet
  seen, what rests or was copied is, and a trade that is not seen has as many orders as answers were
  lost for it; every action either marks it seen with its one answered order or loses another answer
  (`OrderedLast`, `OrderedLost`). `SidesInv`: whatever was copied, or is about to be, still holds its
  token's side in the tracker. `BooksBalance`: every fill moves cash, costs and PnL by amounts that cancel,
  but for the rounding of the cash at each fill and of a SELL's PnL (`ToCentsNear`). A trade at hand is not yet
  seen, and a SELL at most the position (`SaleInv`), so each half cent is that of another trade; sums over
  the positions move by what one of them does (`SumMoves`).
- **Settlement.** `ChainInv`: a condition whose redeem succeeded has ended, and the wallet neither
  holds nor gets any more of it; so a cleared position's tokens were redeemed. `BooksInv`: while
  the redeem of an event is awaited the shares read before it are still those of the position.
- **Configuration.** `StoresInv` pairs every order without a record, and the one a stranded cycle may
  still place, with a store of its own that was closed (`OrdersInv`); a cycle that runs on
  the current store of its account runs in that store's mode. `FileInv`: file and the documents unfollows still
  hold are *normal* (ids differ, the legacy format has its one account, ...), and a document read earlier is of
  a format the file can still take. The documents are handled as sequences; the lemmas say what each
  request, the migration and the write make of them account by account (`RequestView`). `FollowInv`:
  at most one reload is under way, its document is the file and says what was asked, and only the
  accounts left in its queue may differ from it.
- **Wallets and funds.** `HandedInv`: a wallet an account runs with has a key and an address some account was
  given (`WalletsInv`, over `.env`, the accounts still to be loaded and those that were); a cached client
  was built for a wallet of its cache key that somebody ran with; who was handed a client finds it in the
  cache; and the client a cycle waits for is that of the wallet it began with (`CycleWallet`, `CycleCall`).
  Clients of one cache key trade with one address, and are the same where the address had one key
  (`OneWalletPerKey`). `FundsInv`: what a reading showed of the cycle's wallet is held now or has left since
  (`Backed`), through withdrawals, matches, lost answers and failing calls, as long as the client trades with that
  wallet; whether it does can only get worse while a cycle runs, as keys are only added (`HadGrows`). `SellsInv`:
  the token reading is exact while nothing moved. A sell is then dropped only if the rounded share is too small (`RoundsBelow`,
  `PartTooSmall`); that a position is at most the total of all is proved of `SumFunctionOnSet` by a
  least counterexample among the finite sets (`SumsAgree`, `SumExists`, `SumTyped`).
- **Audit stream.** `StreamInv`: what the tab has, what is on the wire and the server's cursor
  follow one another without gap, also when the stream breaks, is reopened or the tab changes.
- **Displays.** An answer from an entry says nothing of when its parts were read, so `AgeInv` does: every part of a request, and
  of an entry made of one, was read since that request came (trades since the time to live
  of their own cache before it), and a call of `getActivity` carries the moment of its request as
  long as that is open. `HeldInv`: what was shown has an entry, and a request made since has found it.
- **Aggregation.** `SeenInv`: a fill that was copied once is seen. What `aggregateTrades` computes is proved
  without induction over data, from least counterexamples: the least prefix of the sorted queue after
  which the buckets are not what they should be cannot exist (`LeastNat`, `MergeKeeps`). What they should be is
  `BucketsOf`: per group the window of its newest fill so far, the others one by one; adding the next older
  fill keeps that (`AddFillKeeps`) because it cannot be the newest of its group unless it is the first
  (`OlderFill`). The sizes are sums over finite sets, proved in the same way (`SumAdd`). `BatchInv` says that the
  queue holds such buckets of the feed, which is a finite part of what the API listed. Two more things follow that
  no run checks: batches have no fill in common, and a poll leaves no fill of its feed out, but for fills of one moment
  beyond the window (section 6).

Proof attempts corrected the models in five places. `SwitchKeepsSeen` was false for more requests than a
run makes: a cycle of an earlier spell of live trading may be about to order the trade that is
carried over, so the property leaves that trade out. A new account takes the defaults, and these may not
pass a start (section 6), which `RestartBrokenByPatchOnly` now says, with a start file that shows
it. `Booked` in `CycleFunds` sells no more than the position, as `applyCopyFill` does. `BooksBalance` could
not be proved while `CopyPipeline` rounded the average price on every BUY, which the code does not; positions
are kept at cost now, and the slack is that of the cash and of a SELL's PnL. And
`ConstantsOK` of several modules says what was only true of the values the runs gave.

Only model-checked is liveness: `OpenOrdersGetTracked`, `ClosedRowsResolve`, `ResolvedGetsPaid`, `ListedGetPolled`,
`RequestsEnd`, `EnabledArePolled`, `BuysGetPlaced`, `RowsArrive`. Fairness and `ENABLED` are beyond the prover.

## 6. Where code and documentation disagree

Each was met while modelling. TLC finds the first three when the constants of a run are
changed as given; the runs of this project leave them out.

1. A crash between the CLOB's acceptance and the database write leads to a second order after the
   restart, against "not handled twice, also after a restart" (`docs/USER_GUIDE.md:442`) and
   `src/state/store.ts:597`: `NoDuplicateCopy` of `LiveOrders` with `Faults = {"crash"}`, one trade. A lost
   answer does the same without a crash, when the order is not among the open ones or the list fails;
   `CopiedOnce` counts both.
2. Cancelling from the dashboard drops shares matched since the last pass, against
   `docs/USER_GUIDE.md:452` (`src/api/orders.ts:43`): `FillsBooked` with `Faults = {"apiCancel"}`.
3. Resting orders are not counted in the daily volume cap (`docs/USER_GUIDE.md:211`,
   `src/engine/risk.ts:68`): `VolumeWithinCaps` of `CopyPipeline` with `PaperRisk`'s trades,
   and `Preview = FALSE`.
4. Stopping from live mode is answered 400 although it took effect, instead of
   `src/api/settings.ts:383`'s message: the answer's risk snapshot (`settings.ts:394`) reads the
   store that the reload has closed (`src/accounts/manager.ts:184`). In `ControlPlane` `Answer` is
   "error" there, and "ok" for a stop from preview.
5. A fill batched with a handled one is passed over as long as both are recent, so in practice for
   good (`src/engine/copy-cycle.ts:271`), though the window is meant for leaders that trade in many
   small fills (`docs/USER_GUIDE.md:202`). `NoFillCopiedTwice` is the other side of it; that such a
   fill is never copied is no property here.

Seen in the code, and part of the models as it is:

- `skip_both` copies the first of two opposite trades (`docs/USER_GUIDE.md:255`: both are
  skipped); `priority_leader` copies a lower leader that comes first and the higher one as well;
  losses booked by the SELLs of a cycle do not stop the rest of it (`docs/USER_GUIDE.md:220`).
- Of several fills that a group has at one moment, outside its window, only one is kept (`src/engine/aggregate.ts:62`
  sets the same key again). The others return with the next poll and lose again, to a fill that is
  seen by then, so they are not copied (`PollsLoseTiesOnly` allows for it).
- Configuration: a patch may leave an account live with copying off, which the reload accepts and a
  start refuses (`src/config/load.ts:442`), and so may creating one: a new account has no settings of
  its own (`src/api/accounts.ts:27`) and takes defaults nobody has to pass at a start while every other account overrides them; in the legacy format changing an account's label or
  enabling is answered "updated" and dropped (`src/api/accounts.ts:144`); a lookup that fails half
  way leaves some accounts reloaded and some not; two reloads at a time, possible only with leaders
  given by name, may end with the older file installed; unfollow writes back a document from before
  its awaits (`src/api/leaders.ts:91`); a reload checks live trading of disabled accounts too.
- Wallets: ids that differ in punctuation or case share the names of their secrets
  (`src/config/env-file.ts:16`); a new key for the same address leaves the cached client signing
  with the old one; a relayer that was down once marks a wallet as not deployed for good in
  "settings" mode (`src/executor/relayer-wallet.ts:37`; the comment at `src/executor/secure-client.ts:186` says failures are
  not cached); a wallet change whose reload fails is answered 400 and stays in `.env`, to be loaded by whatever
  reloads next (`src/api/accounts.ts:268`); under the override "auto" the funds are read at the configured
  address and spent at another, which the program logs only (`src/executor/secure-client.ts:152`);
  accounts switched to live later are not prepared; USDC.e on the chain counts as buying power
  though the CLOB does not accept it (`src/executor/balance.ts:131` speaks of pUSD), and an order so
  refused is never tried again.
- Funds: the largest allowance of all spenders is taken for that of the market; cash is not reduced
  by the orders of a cycle; a sell short of its share is marked handled, a buy short of cash is
  tried again.
- Audit page: the stream stays with the old account after the account switcher
  (`dashboard/src/hooks/useAuditStream.ts:116`; `src/api/events.ts:16` says it is the active
  account's); after a mode switch it is silent until the other log's ids have passed its own, and
  old rows with higher ids stay on top; a 401 stops it for good; of rows of one `ts` the polled
  hundred is any.
- Displays: a leaderboard entry counts from its arrival and has no fallback; an expired trades entry
  counts as a fresh trader's page; a profit that could not be read is cached as missing; the
  dashboard's query key for the PnL lacks the account.

## 7. Not modelled

FAK and FOK orders; prices of live orders beyond the shape, tick rounding and the WAP of
batches; copy strategies and their tiers; payout amounts; the positions a mode switch imports;
validation field by field and YAML; labels, poll interval and Telegram; the drift report and
signature types; proxies (a YAML proxy is latched into the environment, `src/util/proxy.ts`, and
kept until a restart); half-open connections of the stream, static files and the write-origin
check; what the figures of the displays are; React components beyond the activity page, which
hold no protocol of their own. Notification and utilities have no state another part reads.
`PROJECT.json` gives the reason per component.

`LiveOrders`, `CopyPipeline`, `Settlement`, `ControlPlane` and `CycleFunds` each look at a cycle for
another question; one model of all of them is out of TLC's reach.

## 8. Plan

Order of work, most important behaviour first. Done: `LiveOrders` with `FillLedger`,
`CopyPipeline`, `Settlement`, `Aggregation`, `ControlPlane` with `ConfigDocument`, `WalletClients`
with `CycleFunds`, `AuditStream`, `ReadCaches`, and the theorems of section 5.

1. Type correctness of the modules whose theorems carry it inside their invariants
   (`ControlPlane`, `CycleFunds`, `AuditStream`, `Aggregation`).
2. `Sizing`: `calculateOrderSize` with its strategies and tiers against a reference over
   bounded inputs.
