# A verification development for the DCA protocol

The repository is an on-chain dollar-cost-averaging protocol. Owners deposit
USDG (a stablecoin) into *plans* of a vault; once per epoch keepers call
`advanceEpoch(stock)`, which spends a fixed amount of every plan on a tokenized
stock and splits what was bought among the plans. This directory holds TLA+
models of that system and of the two programs that drive it (the polling bot
and the web application), TLC configurations that check them on small instances,
and TLAPS proofs for every value of the constants.

All paths below are relative to the repository; contract paths are relative to
`contracts/src/` unless they start with another directory.

## 1. The system

### Components, their state and their operations

| Component | State | Operations | Hard behaviour |
|---|---|---|---|
| **PlanVault** (`vault/PlanVault.sol`; `PlanExitLib`, `BoostLib`, `VaultAdminLib`, `FeeMath` run inside it by delegatecall) | plans (owner, terms, balances, flags), a list of plans per stock with an index per plan, an epoch cursor per (stock, epoch), running totals, dust, boost pool shares | create / deposit (USDG, WETH, ETH), pause, amount, recipient, boost on/off, withdraw, claim, claim all, close, prune; `advanceEpoch`; admin setters, sweep, skim, set strategy | pages of one epoch interleave with every other call; swap-and-pop on a list that is being walked; aggregates debited per page while plans are debited one by one; floored pro-rata splits; partial swaps and partial payouts |
| **Cadence vaults, VaultDirectory** (`vault/{Hourly,Daily,Weekly,Monthly}Vault.sol`) | epoch length and origin; a lookup table | – | – |
| **EpochLib** | – | epoch id of a timestamp | missed epochs are jumps of the id |
| **EpochKeeper** (`keeper/EpochKeeper.sol`) | job list, index per (vault, stock), batch size, operators, tip recipient | add, remove, (de)activate job; `checkUpkeep` / `performUpkeep`, `runDue`, `run` | `checkUpkeep` runs off chain, so `performData` may be stale; one failing job among many; starvation by position |
| **StockRegistry** | approval and fee-on-transfer flag per token, listing order | approve, list, delist | a stock is delisted while plans of it are funded |
| **AggregatorRouter and adapters** (`router/`) | approved hops per directed pair (at most 8) | approve / revoke (swap-and-pop), quote, swap over the best direct or two-leg route | best-hop choice over failing quotes |
| **PriceGuardLib, TwapOracle** | feeds per stock | minimum output of a swap | stale or missing feeds |
| **MorphoBlueStrategy, MorphoLib** (`boost/`) | an ERC-4626 position, gated by depositor | deposit, withdraw, total assets | rounding, losses, illiquidity |
| **FeeReceiver** (`treasury/`) | reserve for buybacks, recipients | distribute 70/30, buyback under a TWAP guard | the reserve must stay separate from fees not yet distributed |
| **Zap, ClaimHelper** (`periphery/`) | none | batched calls and reads | – |
| **Scheduler** (`apps/scheduler/src/scheduler.ts`) | the job list and the due indices of a tick, its pending transactions, the pairs it reported | a tick: parallel reads, a nudge of an idle chain, runs of due jobs page by page, a check for plans nothing buys; stop | the list moves while a tick runs; other keepers; late receipts; crashes; a failed write aborts the tick |
| **Web application** (`apps/web`): transaction sequences (`hooks/useTx.ts`, `lib/walletSync.ts`), the remove form (`app/app/plans/page.tsx`, `lib/removeSteps.ts`), liveness of rows (`hooks/useLogs.ts`, `lib/visiblePositions.ts`) | the run (steps, phases, hash), what the tab noted of the account; the form's phase, last read and order | run, keep waiting, retry, close; preview, start, retry, finish, verify | wallets that lag, refuse and misreport; late, replaced and dropped transactions; reads that are stale when their answer is used |
| **Deployment scripts** | – | – | – |

### How they interact

The vault calls the registry (`isPurchasable`), the router (quote, swap), the
price guard, the perks contract and the boost strategy, all inside the
transaction of its own caller; a revert anywhere undoes the whole transaction,
except where the code catches it (unavailable boost payout of a page, failed
auto-distribution). A perk lookup that fails is not caught. EpochKeeper calls `isEpochDue` and
`advanceEpoch` of the vaults and catches reverts job by job. Keepers (the
scheduler, the Automation networks) call EpochKeeper, whose entry points are for
operators; anybody may call a vault's `advanceEpoch` once `keeperOnly` is off.
The scheduler reads the keeper with `eth_call` and sends it `run`; the web
application reads vaults and logs and sends a vault's calls through the user's
wallet. Both are asynchronous programs: what they read may be old when they act.

External functions are `nonReentrant` or call nobody, so a transaction is one
atomic step of the model. The concurrency of the system is the order of
transactions (and, in the two programs, the order of awaits): between two
pages of one epoch any owner may deposit, withdraw,
close or boost, any stranger may prune or send tokens, the admin may change any
parameter, the market may fail, the strategy may gain or lose, and the clock
may move to the next epoch.

### What makes each component correct

* **Vault, list and cursor.** List and index describe each other; every funded
  plan is listed; a page cursor never lies beyond the list; no plan moves
  across an open cursor; no plan is charged twice in an epoch; pages respect
  the cap; a due epoch can always be advanced and ends.
* **Vault, books.** Each balance is the sum of what is booked to plans and dust
  and of transfers nobody booked; running totals are sums over plans; dust is
  bounded; an owner can always leave.
* **Boost pool.** Shares are covered by the position; what a call may cost the
  holders of shares is bounded by what the vault tolerates of the strategy.
* **EpochKeeper.** List and index describe each other; stale `performData`
  advances only active jobs; a failing job does not keep others from being run.
* **Scheduler.** A mined page belongs to the job the log names; gas is spent on a
  reverting run only when somebody else got in between; every job that can be
  served is, through failures, timeouts and crashes; a boundary on an idle chain
  is noticed; plans nothing buys are reported.
* **Transaction sequence.** No step is sent twice; what is offered again did not
  run; steps run in order; no flow hangs.
* **Remove form.** A plan reported removed is empty and out of the list; no call
  is sent for a leg that is not there, and none is left out; the owner always
  gets to the end; value is never hidden.

Of the components that are not modelled: a router must choose the best route
that quotes and keep its other hops when one is revoked; the fee receiver must
keep its reserve apart from fees not yet distributed.

## 2. Modules

| Module | Contents |
|---|---|
| `FeeMath` | `libraries/FeeMath.sol` and the two roundings of `Math.mulDiv` |
| `Totals` | the sum of a function of amounts, defined by counting, so that no recursion stands in the way of proofs |
| `PlanEpoch` | abstract: what a vault promises about its epochs, without pages, positions or a cursor |
| `PlanLife` | abstract: what a vault promises about the life of one plan, without amounts, list positions or epochs |
| `PlanVault` | the vault: variables, one action per external call, and its environment |
| `PlanVaultProperties` | its invariants, action properties, refinement mapping to `PlanEpoch` and liveness |
| `EpochKeeper` | the job list and its operators, with properties |
| `Scheduler` | the bot, over an instance of `EpochKeeper` |
| `OrderedSteps` | abstract: what a flow of several transactions promises |
| `TxSequence` | the loop that sends a flow, with wallet and chain |
| `RemovePlan` | the withdraw-and-remove form over one plan of a vault |
| `MCPlanVault`, `MCEpochKeeper`, `MCScheduler`, `MCTxSequence`, `MCRemovePlan` | constant values for TLC |
| `TotalsTheorems` | lemmas about `Total`, from the library's theorems on cardinality |
| `PlanVaultProofs` | type correctness of the vault, lemmas on fees, shares and burns |
| `PlanVaultListProofs` | list, cursor, page cap, the refinement of `PlanEpoch`; the separation of plans and the refinement of `PlanLife` |
| `PlanVaultBookProofs` | books, running totals, dust, boost pool, solvency, the arithmetic of pages and exits |
| `EpochKeeperProofs`, `SchedulerProofs`, `TxSequenceProofs`, `RemovePlanProofs` | theorems of the module they are named after |

An operator whose comment begins with "Faulty:" is used by no action. It is the
operator below it with one plausible mistake (a dropped guard, a swapped
rounding, an aggregate forgotten). Every property has been seen to fail when
one of these takes the correct operator's place, which shows that the property
depends on the code and not on the shape of the model.

### PlanVault and the code

Variables are the storage of `PlanVault.sol` under its own names, one function
per field of `Plan` (`owner`, `stock`, `amountPerEpoch`, `usdgIdle`,
`stockAccrued`, `boostShares`, ...), plus what the vault reads from others:
`purchasable` (registry), `fillable` (can the market and the price guard fill a
page now?), `position` (what the strategy would pay for the vault's shares),
and the token balances `usdgBal`, `wethBal`, `stockBal`. `unbooked` is a
history variable: tokens that arrived outside any call of the vault and have
not been skimmed.

| Action | Code |
|---|---|
| `CreatePlan` | `createPlan`, with the three funding legs (USDG, WETH, ETH) |
| `DepositUSDG`, `DepositWETH` | `depositUSDG`; `depositWETH` and `depositETH` |
| `SetPlanPaused`, `SetPlanAmount`, `SetPlanRecipient` | the setters of the same name |
| `Boost`, `Unboost` | `setPlanBoost(true / false)` in `BoostLib` |
| `WithdrawIdle`, `Claim`, `ClaimAll`, `ClosePlan`, `PrunePlan` | `PlanExitLib` and their entry points |
| `AdvanceEpoch` | `advanceEpoch` with `_collect`, `_buyStock`, `_distribute`, `_sweepDust` and the cursor update |
| `SweepDust`, `SkimUsdg`, `SkimWeth`, `SkimStock`, `SetBoostStrategy`, `SetVaultPaused`, `SetFees`, `SetFeeRecipient`, `SetKnobs` | `VaultAdminLib`, `BoostLib.setStrategy`, setters |
| `EpochPasses`, `MarketTurns`, `SetPurchasable`, `StrategyGains`, `StrategyLoses`, `Give*` | the environment |

A page is one action because it is one transaction. It takes plans from the
cursor up to the page limit, ends early where the page cap would be exceeded,
skips plans that are paused, already charged or larger than the cap, drops the
boosted part when the strategy cannot pay, splits purchase and residual pro
rata with floors, pays or accrues each share, sweeps dust and moves the cursor.
The outcome of the swap (`bought`, `unspent`), the perks during the call and
the strategy's answer are inputs chosen freely from small sets.

Payments out of the vault go through tokens that may refuse a payee
(`Refused`, pairs of token and account; `Takes`). USDG and the stocks pay the fee
recipient and the payee in the same call, so one refusal reverts a withdrawal, a
claim, a close, a deposit or, through the purchase fee, a page; only
auto-distribution catches it. Fees that are zero are not sent.

The strategy's ERC-4626 conversion is not exact. A deposit of `a` mints the shares
of the full `a`, while the position gains any amount from `a` down to what
`_deposit` still accepts (`Credits`: `DEPOSIT_TOLERANCE_ABS` units and
`DEPOSIT_TOLERANCE_BPS` of `a` less); a withdrawal costs the position up to
`Rounding` more than it pays (`Costs`), once per call of the strategy, so once per
page; and a migration, which `setStrategy` does not check, may lose any part of
the position.

Checked subtractions appear as guards: a call whose subtraction would wrap
reverts, so the action is disabled. The properties on `ENABLED`
(`PageNeverReverts`, `ExitNeverReverts`) state that this never happens to a page
or to a close: it reverts only when a token refuses an account it has to pay, or
the strategy cannot pay.

Left out of the vault: events, write-only statistics (`totalNotionalUsdg`,
`epochsCompleted`, `boostPrincipal`, `boostEarned`), balances outside the vault
(of an outgoing amount the model knows that it leaves, and that both payees take
it), the keeper's tip, and settings read by no modelled path (keeper set, feeds,
perk thresholds, router address).

### EpochKeeper and the code

`jobs`, `jobIndex` and `maxJobsPerUpkeep` are the contract's storage; `upkeep`
is `performData` on its way from `checkUpkeep` (off chain) to `performUpkeep`.
A vault is reduced to the number of plans of its current epoch that wait for a
page, and to whether it refuses pages at the moment. `RunEach` is `_run` with
its try/catch: a refusing vault is passed over.

### PlanEpoch, and the vault as its implementation

`PlanEpoch` knows, per stock, which plans are listed, whether the current epoch
has been visited not at all, in part or entirely (`phase`), and which plans it
has still to visit (`waiting`); and which plans it charged and which it may not
pass over (`willing`). `Join`, `Leave`, `Visit`, `NextEpoch` and `Turn` are all
that happens. The mapping in `PlanVaultProperties`:

| PlanEpoch | PlanVault |
|---|---|
| `listed` | the set of plans in `stockPlans[s]` |
| `phase` | `closed` if `lastExecutedEpoch` has reached the epoch, `open` if a page is pending, else `fresh` |
| `waiting` | the plans of the list from the cursor on, if the epoch is not executed |
| `charged` | the plans with `lastEpochId = epoch` |
| `willing` | plans whose spend is above zero and covered by their idle balance |

Swap-and-pop, the parked close and the refused prune are exactly what makes a
removal from the list a `Leave`: a plan moved across the cursor would leave
`waiting` without a visit, or come back to it after one.

### PlanLife, and its two implementations

`PlanLife` knows of one plan whether it is listed, paused, holds money, holds
unclaimed stock, and whether an epoch of its stock is half visited. A listed
plan is funded (`Fund`), bought for (`Buy`: only listed, unpaused and with money in
it), drawn from (`Draw`), closed (`Close`: it leaves, or stays listed and paused while
an epoch is half visited) and pruned (`Prune`: only empty, and while no epoch is
half visited). The remove form is modelled over one plan with its own small
version of the vault's calls; `PlanLife` is what ties the two together. It is
proved of every plan of `PlanVault` and of the one plan of `RemovePlan`:

| PlanLife | PlanVault, plan `p` | RemovePlan |
|---|---|---|
| `listed` | `stockPlanIndex[p] # 0` | `plan.indexed` |
| `paused` | `planPaused[p]` | `plan.paused` |
| `funds` | idle USDG or boost shares | idle USDG or boost shares |
| `stock` | `stockAccrued[p] > 0` | `plan.stock > 0` |
| `open` | `EpochPending(stock[p])`, once the plan exists | `pending` |

### Scheduler and the code

The methods of `scheduler.ts` are cut at every `await`: `pc` says where the bot
waits, `unread` which of the parallel reads are under way, and `seen`, `due`,
`block` what they returned; `job` and `page` are the loop variables of
`runJob`. `pool` holds the bot's transactions that are not mined.

| Action | Code |
|---|---|
| `Wake`, `ReadJobs`, `ReadDue`, `ReadBlock`, `Decide` | `run` and the `Promise.all` of `tick`; the decision to nudge |
| `SendNudge`, `Nudged`, `Reread` | `nudge` and the reads after it (the job list is not read again) |
| `NextJob`, `Simulate`, `Send`, `Receipt` | `runJob`: a simulation that fails passes the job over; `writeContract` estimates again, and a revert there aborts the tick; pages up to `maxPagesPerJob` while the receipt says there is more |
| `CheckUncovered`, `EndTick` | the end of a tick, with or without `checkUncovered` |
| `Stop`, `TickFails`, `StepFails`, `Crash` | the stop signal; failures that `run` catches and those the tick itself catches; a restart |
| `PassBoundary`, `EpochStarts` | the clock passes a boundary, which no `eth_call` sees (`passed`) until a block is mined |
| `Mine`, `Other` | the bot's next transaction is mined; the owner, other operators and vaults act |

The keeper is the module `EpochKeeper` itself (`Keeper == INSTANCE EpochKeeper`):
the bot's `run(i, limit)` and the others' calls are its actions.

### TxSequence and the code

`pc` says where `runFrom` awaits. The wallet signs with its own nonce, may lag
(`walletCount`), may refuse, and may report a nonce conflict although it
broadcast (`SendsUnheard`); the chain mines, reverts, replaces or drops.
`Prepare`, `CountRead`, `Prompt` are the estimate, the pending count read before
the prompt and `waitForWalletNonce`; `Judge` compares the counts after a
conflict; `StepMined`, `StepFailed`, `ReceiptLate` are the ends of
`waitForTransactionReceipt`; `Run`, `KeepWaiting`, `Retry`, `RetryWith` and `Close`
are what `TxFlowDialog` and the remove form offer. `RetryWith(tail)` is
`retry(remaining)`: the steps from the failed one on are replaced by a list that
holds no step that ran, as one built from a fresh read does. "Try again" is not
offered after a send that may have gone through, but the remove form's other two
buttons are, and they go on with other calls than the failed one: what of it is
still to mine then belongs to no step of the flow (`GivenUp`). `NoteMined`,
`Forget` are `walletSync.ts`.
`OrderedSteps` has only the steps left, the steps that ran, in order, and whether
the flow is reported complete.

### RemovePlan and the code

The vault's calls appear for one plan, with small amounts and no fees: what
matters is which legs are zero and which revert. `StartRead`, `ReadPlan`,
`ReadPending`, `Found` are `readFresh`; `RemoveOrder`, `CloseOrder`,
`PartialWithdraw` are the builders of `removeSteps.ts`; `Start`, `Resume`,
`ResumePart`, `Finish`, `Verify` are the form's handlers, each split at its read;
`StepRuns`, `StepReverts`, `Rejected`, `AnswerLost` are the outcomes of a call of
the sequence (whose inner workings `TxSequence` has); `LiveAfter` is
`planLiveness`, `HiddenPlan` is `isHiddenPlan`. `Other` is everybody else: a
deposit, a boost, a page that buys, a page that opens, a leg that blocks, a call
from another tab, a prune by a stranger. "Continue step by step" and "Withdraw
available part" stand beside an answer that was lost as well as beside a failure
(`Stuck`); the call whose answer was lost may then run before the calls sent
instead of it.

## 3. Runs

Deadlock is not an error in any run: a small instance really stops once its
epochs and its supply are used up.

| Run | Question | Result |
|---|---|---|
| `paging` | Do exits, prunes and re-funding between pages break list, cursor or single charging, and does the vault implement `PlanEpoch`? | holds (100 000 states) |
| `ledger` | Do balances and running totals add up, with two users, two stocks, a refused recipient, perks, fees, gifts, skim and inexact swaps, and does dust stay bounded and leave? | holds (138 000) |
| `boost` | Are shares covered, is what a call costs their holders bounded, can every plan be closed that no token keeps in, through short credits, roundings, gains, losses and lossy migrations, with a stock that refuses the fee recipient? | holds (186 000) |
| `config` | Can every due page be executed and does it stay within the cap while the admin changes fees, fee recipient, minimums, page size and caps in the middle of an epoch? | holds (278 000) |
| `progress` | Does every due epoch end when keepers keep calling? | holds |
| `keeper` | Job list, stale `performData`, service of every ready job by `runDue` and by Automation | holds |
| `scheduler` | Does the bot run what it names, waste no gas, serve every job, notice boundaries and report uncovered plans, with other operators, crashes and failed calls around it? | holds (281 000) |
| `sequence` | Is no step sent twice, nothing offered again that ran, does every flow end, and does the sequence implement `OrderedSteps`? | holds (554 000) |
| `removal` | Is a plan reported removed gone, do calls fit the plan, does the owner reach the end, does value show? | holds (351 000) |
| `outage` | The same as `progress` when the market may stay unable to fill | violated |
| `idle_chain` | Is a boundary on an idle chain always noticed, as the scheduler's README states? | violated |
| `false_removal` | Is a row never hidden on trust, as the comment of `RemoveForm` states? | violated |

### Bounds and why they suffice

* Two plans show every pairwise effect of pro-rata splits, share dilution and
  aggregate bookkeeping. `paging` has three, because swap-and-pop needs a plan
  behind the cursor, one ahead of it and one that is moved; with pages of one
  (`Limits = {1}`) the cursor stands at each position of the
  list while the others act. Two epochs there let a plan be charged, closed and
  re-funded across an epoch boundary. Withdrawals, which leave the list alone,
  are switched off in it; with them it holds too (300 000 states), and its
  properties are proved with every call switched on.
* `Supply` bounds the tokens of a kind that may be in the vault or lent. The
  values 3 to 6 are a few times a single deposit, so top-ups, partial pages and
  plans that run dry all occur.
* `BPS = 4` with fees of one or two parts makes fees on tiny amounts non-zero;
  with 10 000 every fee in a small instance would round to nothing.
  `Bought = {1}` or `{1, 3}` against two equal plans is never divisible, so
  every purchase leaves dust. `Unspent = {0, 1}`, or `{1}`, gives residuals.
* `DEPOSIT_TOLERANCE_ABS = 1`, `DEPOSIT_TOLERANCE_BPS = 1` and `Rounding = 1` are
  the smallest values with an effect: on the deposits of 2 in `boost` one part of
  four rounds to nothing, so a credit may be one short, which a property that allowed
  none, or a check that was forgotten, would show. The theorems hold for any values.
* `Refused`: in `boost` the one stock refuses the fee recipient while a claim fee is
  due (fees of 2, no auto-distribution), in `ledger` both stocks refuse a user, and in
  `config` USDG refuses the second of two fee recipients the admin moves
  between.
* `MaxShares` stays above the shares that occur, except that growth through
  losses (shares minted at a low price) meets the bound, as `uint128` would.
* `Calls` switches off groups of calls that a run's question does not involve.
  A call left out of one run is exercised in another: between them the passing
  runs fire every action and every disjunct of the next-state relations.
* Symmetry over plans, in `boost` also over strategies, is used in safety runs
  only; no property or constant distinguishes plans or strategies. The runs with
  liveness properties declare none.
* `keeper`: three targets, one of which may refuse, with batches of two or
  three: fewer jobs fail than a batch holds, which is when Automation can be
  expected to serve the rest.
* `scheduler`: two jobs, one of whose vaults may refuse. Two are enough for a
  removal to move a job to an index the tick is about to run, and for a failing
  job to stand before a good one. Two plans with pages of one give a job of two
  pages, the limit `MaxPagesPerJob` too. `MaxChanges = 2` lets others act
  twice during the run (remove and add again, switch off and on), `MaxFaults = 1`
  places one failed call, timeout or crash anywhere; the safety properties are
  proved for any number of both. A report counts as made, and as cleared, only
  if it stays so: `UncoveredReported` asks that a plan whose stock is for good not
  bought for is for good reported, and one that is for good bought for is for good
  not reported.
* `sequence`: flows of one and of two steps; up to three nonces of the account,
  so that a step, its retry and a transaction from elsewhere fit. `Tails` are
  the empty list and the second step alone: everything left was done meanwhile,
  or the failed step has nothing left to do and is skipped. Two steps
  distinguish the last step from one before it, which is all the code does.
* `removal`: one change by others and one fault, at any moment, in any plan
  (boosted or not, with or without idle balance and stock, with a page open or
  not). The invariants were also checked with two changes (3.2 million states)
  and are proved for any number.

### Fairness

* `LiveSpec` is weak fairness of `KeeperCall(s)` for each stock: while some page
  of `s` can be executed continuously, one is. The scheduler polls due jobs on a
  timer and sends `run` for each, page after page, and Automation networks check
  every block, so a page that stays executable is eventually sent. No fairness
  is assumed of owners, the admin, the market or the clock.
* `RunDueServesAll` assumes weak fairness of `RunDue`, the call the repository's
  `README.md:209` has operators send.
* `Automation` assumes weak fairness of `CheckUpkeep` and `PerformUpkeep`, and
  that from some time on the owner stops editing the list and vaults stop
  changing between refusing and accepting. Without the last condition an owner
  who reorders the list for ever could keep a job out of every batch.
* `Scheduler!LiveSpec`: weak fairness of the bot's own steps (a running process
  goes on, and its calls return or fail); strong fairness of `CheckUncovered`,
  since the check comes due every few minutes but any one tick may skip it;
  weak fairness of `Mine`, since a pending transaction with a sufficient fee is
  mined; and weak fairness of the start of an epoch while the bot has a pending
  transaction: mining it is what starts the epoch. Nobody else is obliged to act,
  in particular nobody else needs to mine.
* `TxSequence!LiveSpec`: reads answer or fail, the user answers the wallet's
  prompt, pending transactions are mined; strong fairness of the receipt, because
  waiting for one may time out any number of times before the node has it; and
  the user presses "Keep waiting". `FlowsEnd` makes an exception of a
  transaction the pool dropped: the page waits for it for ever, and the user has
  to close the dialog.
* `RemovePlan!LiveSpec`: reads answer and transactions are mined (`Form`), rows
  are polled (`Poll`), and an owner who wants the plan gone presses on. `Press` and
  `Retry` are strongly fair because the buttons disappear during a read. Leaving
  the form counts as an end.

## 4. Where code and documentation differ

1. **An unfillable page does not skip, it reverts** (`outage`). `README.md:74`
   and `SECURITY.md:39` say that a page whose purchase fails is skipped and the
   epoch completes. `_buyStock` reverts the call, so the cursor stays and the
   epoch is due until the market recovers. No plan is charged, so this is a
   liveness difference only.
2. **A refusing vault hides boundaries** (`idle_chain`). The bot nudges an idle
   chain only when no job at all is due (`scheduler.ts:183`), while
   `apps/scheduler/README.md:44` makes no such exception. A job whose page keeps
   reverting stays due, nothing is sent, and the next boundary of every vault
   stays invisible. `BoundariesNoticed` holds once no vault refuses.
3. **A plan reported removed that is still listed** (`false_removal`). When the
   last prune fails because a page opened, "Try again" finds nothing to send, and
   `seq.retry([])` completes the flow before the new order is rendered;
   `verify()` (`page.tsx:1344`) judges by the old order, whose prune was part of
   it, and hides the row. The comment at `page.tsx:1201-1205` says that never
   happens. The plan is empty, so no money is lost; `RemovedIsGone` states what
   holds otherwise.

Smaller ones, noted while modelling, for which no run was made:

* `SECURITY.md:26` lists `usdgDust < dustSweepMinUsdg` and `wethDust == 0`
  outside `advanceEpoch` as an invariant; `skim` books an outside transfer as
  dust and sweeps nothing. The next page does (`DustLeavesWithPages`).
* A comment at `BoostLib.sol:75` says a plan may not be flagged boosted without
  a strategy. A drained plan keeps its flag when the admin clears the strategy,
  and its next deposit reverts until boost is turned off; it can still be
  closed (`ExitNeverReverts`).
* `EpochKeeper.sol:11` says a failing job never blocks the others. That holds of
  `runDue`; `checkUpkeep` offers the first due jobs, so that as many failing jobs
  as a batch holds fill every batch (`AutomationServesAll` holds below that).
* `apps/scheduler/README.md:52` says Ctrl-C finishes the transaction in flight;
  the page loop of `runJob` does not look at `stopping`, so the pages behind it
  are sent too. Line 34 says a second instance just sees `EpochNotDue` in
  simulation and skips: when the first gets between its simulation and its send,
  the estimate of `writeContract` reverts and aborts the whole tick.
* `TxFlowDialog.tsx:55` says nothing is ever sent twice. That rests on a wallet
  that fails with anything but a nonce conflict having sent nothing.
* `visiblePositions.ts:3-6`: an empty plan that somebody re-indexes in the session
  that removed it stays hidden as long as it is empty. `ValueShows` holds.
* `README.md:156` says every approved combination of two legs is quoted, and
  `README.md:162` that unspent intermediate tokens are forwarded;
  `AggregatorRouter._bestTwoHop` tries one second leg per first, and a partial
  fill of any leg reverts. The router itself is not modelled.

## 5. What is proved

The proofs hold for all values of the constants that satisfy `FeeAssumption`,
`VaultAssumption`, `KeeperAssumption`, `SchedulerAssumption`,
`SequenceAssumption` and `RemoveAssumption`: any finite number of plans and
strategies, any sets of users and stocks, any fees up to the cap, any supply and
any share and epoch bound; any finite set of targets, any job list, page size and
number of faults; any lists of distinct steps; any number of changes by others.
Each assumption is evaluated by TLC in every run of its module.

**Sums** (`TotalsTheorems`). `Total(f)` is the number of pairs
`<<x, i>>` with `i \in 1..f[x]`. `TotalAdd` (sums add up term by term) is a
disjoint union up to a bijection; `TotalZero`, `TotalSingle` and `TotalExcept`
follow from it. `TotalMonotone` compares sums, `TotalScale` multiplies one by a
factor, `TotalCount` counts the plans of a set. Everything below on aggregates
cites these.

**Types of the vault** (`TypeCorrect`). Inductive as it stands. Its content is
that no balance goes negative and no plan exceeds its share bound: the guards
for aggregates are checked subtractions, but for a single plan the code relies
on arithmetic. `FromBoostTypes` shows that a page takes from an idle balance at
most what is there, `FeeBelow` that a fee is at most its base, and
`BurnWithinHolding` that a burn that rounds up never exceeds the plan's shares
as long as the amount is below their value.

**List and cursor** (`ListInv`). The invariant is `TypeOK` together with
`IndexConsistent`, `FundedPlansListed`, `CursorInList` and `FutureUntouched`.
The parts need each other. Swap-and-pop is only correct on a consistent list.
A page touches only listed plans, so pages keep `FundedPlansListed`; a close
keeps it because the plan leaves with nothing. `CursorInList` survives an
unlisting because prune refuses and close defers while a page is pending, and
survives the passing of an epoch only because no later epoch has a cursor yet:
that is `FutureUntouched`, the strengthening none of the checked properties
states. From `ListInv` follow `IndexIsConsistent`, `FundedPlansAreListed` and
`CursorStaysInList`, and the action properties: `NoPlanEverCrosses` (each
call either keeps the list, appends, or unlists with no page pending),
`NoPlanChargedTwice` (`PageShape` reduces a page to its end and its spends,
`BuyPageCharges` shows a plan without spend is untouched) and `PagesKeepCap`
(the spends of a page are the charges of `_collect`, and the end of a page was
chosen so that they fit).

**The vault implements `PlanEpoch`** (`EpochsAreKept`). The invariant adds to
`ListInv` that the last executed epoch is not a future one. Every step is
shown to be a step of `PlanEpoch` or a stutter: appends are joins; an unlisting
is a leave, because swap-and-pop permutes only plans that wait and no page is
pending; a page is a visit of what lies between the old and the new cursor,
which is not empty because a page takes at least one plan under any cap
(`PageTakesOne`), and which charges every plan that is willing. Two results are
read off the mapping. `EveryPageProgresses`: no page leaves the cursor where it
was, and an epoch is executed exactly by the page that reaches the end of the
list, which is the step `DueEpochsEnd` takes again and again.
`NobodyIsPassedOver`: what the abstract steps do to `waiting` holds of the vault,
so a listed plan stops waiting within an epoch only by leaving the list or by a
visit, and a visit charges it if its idle balance can pay.

**Plans are kept apart** (`PlansStaySeparate`). The plans of a vault share a list,
a boost position, pots of dust and running totals. The theorem says what they do
not share: the settings of a plan (owner, stock, terms, flags) and whether it is
listed change only by a call made for that plan, although swap-and-pop moves
other plans about; and its holdings change only by such a call, by a page, if
the plan is unpaused, not yet charged, and between the old and the new cursor,
or by its owner's claim-all, which takes all accrued stock of the plan and
nothing else. Each list and pool operator has a lemma on
the plans it spares (`UnindexSpares`, `CreditSpares`, `LeavePoolSpares`, `PayStockSpares`);
`BuyPageKeepsStock` and `PageVisits` say the same of the plans a page does not fill.

**Every plan lives as `PlanLife` says** (`VaultKeepsPlanLife`,
`RemovalKeepsPlanLife`, `HeldPlansAreIndexed`). For any plan of the vault the
invariant is that of the refinement of `PlanEpoch`; a step that
`PlansStaySeparate` puts outside the plan is a `Turn`, a page is a `Buy` or a `Turn`,
and a call for the plan is sorted by what it may do. The parked close and the
refused prune are what `Close` and `Prune` ask. In the remove form `Next` is sorted
in the same way from its types alone. `HeldPlansAreIndexed` is then read off the
abstract module: whatever the form, another tab, a keeper or a stranger does, a
plan that holds anything stays listed, so no removal leaves value behind in a
plan the vault no longer iterates over. Both refinements, and
`PlansAreSeparate`, were checked with TLC before they were proved: the first two
under the constants of `paging`, `ledger`, `boost` and `config` without
symmetry, the last under those of `removal` with two changes.

**Books** (`BalancesAreBooked`). Inductive together with the types. Calls of
owners keep the gap between balance and total; dust calls move it into dust;
gifts move it into `unbooked`. In a page the fee and the net amounts add up to
the spends (`TotalAdd`), so what leaves the vault plus what becomes dust is what
was debited.

**Running totals** (`TotalsAlwaysAgree`). Inductive together with `ListInv`: a
page adds to the total of its own stock, and only `IndexConsistent` says that
the plans it fills are plans of that stock; a new plan adds nothing to the
totals of its owner only because an unlisted plan has accrued nothing
(`FundedPlansListed`). With `BalancesAreBooked`: the sum of all idle balances is
covered by the USDG held, and likewise for every stock.

**Dust** (`DustAlwaysLeaves`, `StockDustStaysBounded`). A page splits pot and
purchase pro rata with floors. Multiplied by the whole, each plan's part misses
its exact share by less than the whole; summed over the plans filled with
`TotalScale` and `TotalCount`, the rest is below their number.

**Boost pool** (`BoostIsSolvent`, `BoostPriceHolds`). `PoolInv` is `ListInv` with
the fact that shares belong to boosted plans and have a strategy behind them.
What one plan could withdraw is a floor of its shares times `(A+1)/(n+1)`, with
`A` the worth of the position and `n` all shares; by `TotalsAgree` the plans'
shares sum to `n`, so the sum of what all could withdraw, times `n+1`, is at most
`(A+1)` times `n`, hence at most `A`. The price of a share, `(A+1)/(n+1)`, is
compared by cross-multiplication, with an allowance: a call that costs the
holders at most `d` leaves a price of at least what it would be with `d` put back
(`PriceKept(d)`, for a new plan's three deposits in one call `HoldersLoseAtMost`).
Minting rounds down, burning rounds up or takes everything, so shares
themselves cost nothing; what is left is what the strategy keeps: the tolerated
shortfall for a deposit, one `Rounding` for an exit or a page. A page burns for
several plans at the prices of one snapshot, so their inequalities are summed
before they are compared. Exempt are the strategy's own losses and a migration
(`StrategyFails`): `setStrategy` deposits what it redeemed without the check that
`_deposit` makes, so nothing in the vault bounds what a migration may lose.
`BoostSolvent` survives both.

**Solvency** (`OwedIsAlwaysThere`, `VaultIsSolvent`, `BoostWorthHolds`). With
the books, the totals and the pool proved, whatever plans hold can be paid.
`VaultIsSolvent` says it of all plans at once: the sums of idle balances, of
accrued stock and of what boosted plans could withdraw are covered by the USDG, the stock
and the strategy position. `OwedIsAlwaysThere` says it of what the code
subtracts: any part of any plan's balances passes the checked subtractions of a
payout. `BoostWorthHolds` turns the share price into what an owner cares about: as
long as the plan keeps its shares, what they are worth falls in one call by no
more than the tolerated shortfall of the call's deposits, or one rounding of the
strategy, because the worth is a floor of shares times price; only a loss of the
strategy or a migration takes more.

**Pages and exits fit** (`PagesAlwaysFit`, `DuePagesAlwaysFit`,
`PageNeedsNoMore`, `ExitsAlwaysFit`, `CloseNeedsNoMore`). No checked subtraction
of a page wraps: what a page takes from idle balances, from shares and from the
strategy is at most the running totals, because these are sums over the plans;
what it pays or accrues was bought; what it returns was not spent; `ProRataFits`
bounds the parts by the whole. `DuePagesAlwaysFit` adds that a due page always
has an end under its cap, a position whose spends fit while those of the next do
not, which exists because the empty page fits; the page pays its fee
to the fee recipient, so USDG must take that transfer. `ExitsAlwaysFit` is the same
for `closePlan`, for plans no token keeps in: USDG takes owner and, under a withdraw
fee, fee recipient, the stock takes the plan's recipient and, under a claim fee, the
fee recipient (the exceptions `PlanVault.sol:367-369` and `SECURITY.md:79` name).
In those cases `ExitNeverReverts` still asks that the single legs work which need
no refused transfer. These
are statements about guards; `PageNeedsNoMore` and `CloseNeedsNoMore` show that
the guards are all there is, by giving the successor (`PagedState`,
`ClosedState`) and proving that the step to it is a step of the action. Together
they are `PageNeverReverts` and `ExitNeverReverts` but for the operator
`ENABLED`, which the prover does not know.

**Keeper** (`KeeperTypeCorrect`, `JobListIsConsistent`,
`OnlyActiveJobsEverAdvance`). List consistency is inductive with the types; the
action property needs the types only, since `performUpkeep` intersects what it
is told with what is due now. Three more theorems are the safety halves of the
liveness runs. `BatchesAreBounded`: counting the due jobs before each one maps a
batch into `1..n` without two going to the same number, so it holds at most `n`
jobs. `FailuresLeaveRoom`: only failing jobs come before the first due job that
does not fail, so it is in the batch while there are fewer of them than a batch
holds, the condition of `AutomationServesAll`. `RefusalsCostNobodyElse`: each
call takes a page off every other due job it looks at.

**Scheduler** (`SchedulerTypeCorrect`, `RunsNamedJobs`, `RevertsAreRaced`).
`SchedulerInv` adds to the types: the job being run is in the list that was read
(`Scope`); unless a job was removed since, every index of the list that was
read still has its target (`SeenAgrees`); and every pending transaction carries
the target that stands at its index unless it is marked as overtaken, and can run
unless it is marked as raced (`PoolAgrees`). Adding appends and switching a job
off keeps its target, so only a removal may break the second.

**What the bot has in flight** (`FlightIsBounded`, `AnswersAreDue`). The bot keeps
no list of its own transactions; it is the order of its awaits that bounds them.
`FlightInv`, inductive with `SchedulerInv`, says that at most the transaction it waits
for is pending, and one more for each call that failed, timed out or was cut
off by a crash; that while it waits the transaction is pending; and that a
receipt in hand means that everything sent before is mined too. Without
faults a tick therefore starts and ends with nothing pending, and a wait for a receipt
can only end in one or in a timeout. TLC checked both with two faults (710 000
states).

**The bot over the keeper** (`DrivesTheKeeper`, `JobListStaysConsistent`). Every
step of the scheduler is a step of `EpochKeeper` or leaves the keeper alone; a
page limit above the vault's page acts like none (`LimitsAgree`). The keeper's
invariant is then not proved a second time: `EpochKeeperProofs` is instantiated
for the keeper below the bot, its assumptions follow from
`SchedulerAssumption`, and its lemmas on `Next` carry the types and the
consistency of the list along, from any list of distinct jobs the deployment
left.

**Transaction sequence** (`SequenceTypeCorrect`, `NeverSentTwice`,
`OfferedAgainDidNotRun`, `StepsAlwaysInOrder`, `SyncedWalletSignsNext`). The
invariant has a part per argument: nothing of a step ahead of the loop was sent
(`AheadUnsent`), nor of the current one before its prompt (`CurrentUnsent`); a
transaction of the current step is the one whose hash is awaited (`OnlyHash`);
transactions of a step that ran are alone (`Lone`); an unchanged pending count
means nothing was sent (`CountTells`, the reason `Judge` may offer the step
again); done steps ran and nothing overtakes them (`OrderInv`); the tab's
note is the account's count unless something went unnoted (`NotedInv`); and
transactions are mined in nonce order, and what is still to mine for the flow is a step
of its list (`FlowInv`). The last is needed for a rebuilt tail: its steps did
not run, and none of them is pending either (`TailUnsent`), since what is pending
is a step of the old list, neither ahead of the failed one nor behind it, and the
failed one only if it may have been sent, in which case it is given up and the
tail leaves it out.

**The sequence implements `OrderedSteps`** (`FlowsRunInOrder`). The mapping keeps
the entries of a list whose positions are in a set (`Keeping`), defined by their
rank in it, without recursion: `todo` keeps the steps that did not run, `ran` the
transactions that ran. A largest position added to the set is an entry appended
(`KeepingOneMore`), and what is left of a list is the list from its first
step that did not run (`TodoIs`, from `OrderInv`). A transaction of the flow that is
mined is the first step left (`FlowExecutes`, with `FlowInv`), a retry with a
rebuilt tail replaces what is left by steps that did not run (`Replan`,
`RetryWithMaps`), and nearly everything else stutters.

**Remove form** (`RemoveTypeCorrect`, `GoneIsGone`, `RemovedPlansAreGone`,
`CallsFitThePlan`). `OutcomeInv` says what status, receipt and order tell of the
list: a receipt of a prune, or of a close that took the plan out, means the plan
is empty and out until a deposit brings it back (`GoneInv`), and no receipt of a
sequence says that a close was parked (`KindInv`). `FitInv` carries the accuracy of a
read through the form: as long as nobody raced, the draft is what the plan is
(`DraftInv`), the read the preview shows matches the plan (`FreshInv`), and the
calls left are those the plan still needs (`Fits`, which rests on
the order of the built calls, `Built`). `LegsFit` notices a leg that was left out
when the order ends with a prune, which the leg then makes revert; an order without a
prune (a close, the available part) has nothing that would revert for it. That no
finished run leaves a leg behind is the theorem `FinishedRunsLeaveNothing` below.

**A removal's run** (`FinishedRunsLeaveNothing`, `OnlyOthersStopARun`). `CoverInv`
is the counterpart of `FitInv`: not only is every call needed, what the plan still
holds is reached by the calls left (`Covers`), as long as nobody raced. An order
built from an accurate read covers the plan (`OrderCovers`), also one built
anew after a failure; a call that runs takes care of its leg and leaves the others to
theirs (`LegEffect`); where a retry finds no calls to send, there was nothing
left (`NothingToSend`). After the last call the plan is thus empty, and it is still
listed only if a page is open, the case that "Finish delete" is for. And no call
of an order is in the way of another: one that reverts is somebody else's doing,
or a leg is blocked.

## 6. What is only model-checked

* Liveness under fairness, which TLAPS does not reason about: `DueEpochsEnd`,
  `RunDueServesAll`, `AutomationServesAll`, `ReadyJobsServed`,
  `BoundariesNoticed`, `UncoveredReported`, `FlowsEnd`, `RemovalEnds`,
  `ValueShows`.
* `PageNeverReverts` and `ExitNeverReverts` as they stand, because of `ENABLED`.
  Both halves of each are proved without it: the guards always hold
  (`DuePagesAlwaysFit`, `ExitsAlwaysFit`), and nothing else is asked
  (`PageNeedsNoMore`, `CloseNeedsNoMore`). The runs join them.

Of the liveness properties the steps are proved where they have a safety core:
`EveryPageProgresses` and `DuePagesAlwaysFit` for `DueEpochsEnd`,
`RefusalsCostNobodyElse` for `RunDueServesAll`, `FailuresLeaveRoom` for
`AutomationServesAll`, `AnswersAreDue` for `ReadyJobsServed`,
`FinishedRunsLeaveNothing` and `OnlyOthersStopARun` for `RemovalEnds`. What is
left to TLC is that fairness makes the steps happen.

## 7. Assumptions and limits of the models

* **Vault.** Left out: see section 2. Token contracts appear through their
  transfers only: USDG or a stock may refuse an account (`Refused`), the same ones
  throughout a behaviour, while the admin may move the fee recipient; WETH refuses
  nobody; fee-on-transfer stocks are excluded by the registry. A strategy
  takes at most `Rounding` more than it pays in a withdrawal and otherwise changes its
  worth only by `StrategyGains` and `StrategyLoses`.
* **Scheduler.** One cadence, a clock that is right, and every job's pair approved
  in the registry. Lengths of sleeps are left out: a tick may follow at once.
* **Transaction sequence.** The page's node sees every pending transaction of the
  account; a dropped transaction does not come back; a wallet that fails with
  anything but a nonce conflict has sent nothing.
* **Remove form.** Two reads are never under way at once (`Start` during a preview
  read overtakes it), the log scan answers at once, the account does not change,
  and the dialog of a finished run stays open while its outcome is being read.

### Not modelled and why

* `AggregatorRouter` and the adapters: hop lists and a choice of routes over
  quotes of external pools, which decide amounts and no control flow of the
  vault; to it a swap is an outcome or a revert.
* `FeeReceiver`: a sink of fees whose state no other component reads.
* The inside of `MorphoBlueStrategy`, of `EpochLib` and of `PriceGuardLib`:
  arithmetic whose results are inputs of the vault model (what the position is
  worth, that an epoch passed, that a page cannot be filled).
* `StockRegistry`: its flag as the vault sees it is there, its listing order is
  read by no call of the vault.
* Of the web application: single writes (`useTx`), the deposit and withdraw
  forms, the steps of a new plan (`planSteps.ts`), quotes and route reads,
  rendering. Of the scheduler: `nextDelay`, dry runs, `--once`, the balance and
  transfer scripts.
* `Zap`, `ClaimHelper`, `VaultDirectory` (stateless), the cadence vaults (two
  constants each), ABIs (generated), deployment scripts (run once).

### Where the development could go next

`FeeReceiver` (the reserve never pays for undistributed fees) and
`AggregatorRouter` (the chosen route against a maximum over all approved routes)
are self-contained; the deposit form shares its resend logic with
`TxSequence`; and a vault with `MorphoBlueStrategy` in place of the free
`position` would show which losses the strategy can really report.

## 8. Reproducing

    tlasany M.tla                                   # parse
    tlc -workers 2 -config Paging.cfg MCPlanVault   # a run; see PROJECT.json
    tlapm PlanVaultBookProofs.tla                   # proofs of a module

The longest run takes two and a half minutes with two workers; the proofs of
each module take a few minutes from nothing. `PROJECT.json` lists runs, properties,
the faulty operator that each property rejects, the source lines behind every
definition, hazards and theorems.
