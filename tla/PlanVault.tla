----------------------------- MODULE PlanVault ------------------------------
(***************************************************************************)
(* One DCA vault: vault/PlanVault.sol with the linked libraries it runs by *)
(* delegatecall (PlanExitLib, BoostLib, VaultAdminLib).                    *)
(*                                                                         *)
(* A transaction of the chain is one step: every external function is      *)
(* nonReentrant or calls nobody, so no other call interleaves inside it,   *)
(* and one that reverts leaves no trace, so its action is disabled.  What  *)
(* interleaves is the order of the calls of owners, strangers, keepers and *)
(* the admin with the clock, the market, the lending strategy and tokens   *)
(* sent to the vault directly.                                             *)
(*                                                                         *)
(* Not modelled: events, the write-only statistics (totalNotionalUsdg,     *)
(* epochsCompleted, boostPrincipal, boostEarned), and the balances outside *)
(* the vault: of a fee, only whether its recipient can be paid counts.     *)
(*                                                                         *)
(* An operator whose comment starts with "Faulty:" belongs to no action.   *)
(* It is the operator after it with a plausible mistake, which the         *)
(* properties are seen to reject when it takes that operator's place.      *)
(***************************************************************************)
EXTENDS FeeMath, Sequences, Totals

CONSTANTS Plans, Users, Stocks, Strategies,
          None,          \* the zero address
          Usdg,          \* the settlement token
          Treasuries,    \* accounts the admin may make the fee recipient
          Refused,       \* <<token, account>>: transfers the token refuses
          DEPOSIT_TOLERANCE_ABS,  \* what a strategy may credit too little,
          DEPOSIT_TOLERANCE_BPS,  \* in units and in basis points
          Rounding,      \* what a withdrawal may cost the position on top
          Supply,        \* bound: tokens of one kind the vault may hold or lend
          MaxShares,     \* bound of a plan's boost shares (uint128)
          MaxEpoch,      \* bound of the epoch id (uint32)
          Fees0, Knobs0,            \* configuration set by the constructor
          FeeChoices, KnobChoices,  \* configurations the admin may move to
          AmountsPerEpoch,          \* inputs: of createPlan and setPlanAmount
          Deposits,                 \* USDG offered by a depositor
          Zaps,                     \* USDG returned by a WETH / ETH conversion
          Limits,                   \* limit argument of advanceEpoch
          Bought, Unspent,          \* outcome of a page's swap
          Perks,                    \* $DCA perks of every user during a call
          Gains, Losses,            \* results of the lending strategy
          Gifts,                    \* tokens sent to the vault directly
          Calls                     \* optional calls and events taking part

Fees  == [to : Treasuries, purchase : 0..MaxFeeBps, deposit : 0..MaxFeeBps,
          withdraw : 0..MaxFeeBps, claim : 0..MaxFeeBps]
Knobs == [keeperOnly : BOOLEAN, maxPlansPerTx : Nat \ {0},
          minAmount : Nat \ {0}, minDeposit : Nat \ {0}, sweepMin : Nat,
          cap : Nat, capOf : [Stocks -> Nat]]

ASSUME VaultAssumption ==
  /\ IsFiniteSet(Plans) /\ IsFiniteSet(Strategies)
  /\ None \notin Users \cup Stocks \cup Strategies
  /\ Usdg \notin Stocks
  /\ Refused \subseteq (Stocks \cup {Usdg}) \X (Users \cup Treasuries)
  /\ {Supply, MaxShares, MaxEpoch} \subseteq Nat
  /\ {DEPOSIT_TOLERANCE_ABS, DEPOSIT_TOLERANCE_BPS, Rounding} \subseteq Nat
  /\ Fees0 \in Fees /\ FeeChoices \subseteq Fees
  /\ Knobs0 \in Knobs /\ KnobChoices \subseteq Knobs
  /\ UNION {AmountsPerEpoch, Deposits, Bought, Gains, Losses, Gifts}
       \subseteq Nat \ {0}
  /\ UNION {Zaps, Limits, Unspent} \subseteq Nat
  /\ Perks \subseteq [Users -> [halve : BOOLEAN, auto : BOOLEAN]]

VARIABLES
  epoch,               \* currentEpochId()
  fillable,            \* stock -> can the market fill a page now?
  vaultPaused, purchasable, fees, knobs,
  owner, stock, amountPerEpoch, recipient,            \* Plan: terms
  planPaused, boosted, lastEpochId,                   \* Plan: flags
  usdgIdle, stockAccrued, boostShares,                \* Plan: balances
  stockPlans, stockPlanIndex,                         \* iteration list
  lastExecutedEpoch, nextPlanIndex,                   \* epoch cursor
  totalUsdgIdle, totalStockAccrued, userStockAccrued, totalShares,
  dustPot, dust,
  strategy, position,  \* boost strategy; what the vault's position is worth
  usdgBal, wethBal, stockBal,                         \* balanceOf(vault)
  unbooked             \* tokens received outside any vault call

chain    == <<epoch, fillable>>
config   == <<vaultPaused, purchasable, fees, knobs>>
terms    == <<owner, stock, amountPerEpoch, recipient>>
flags    == <<planPaused, boosted, lastEpochId>>
index    == <<stockPlans, stockPlanIndex>>
cursor   == <<lastExecutedEpoch, nextPlanIndex>>
idle     == <<usdgIdle, totalUsdgIdle, usdgBal>>
accrued  == <<stockAccrued, totalStockAccrued, userStockAccrued, stockBal>>
pool     == <<boostShares, totalShares, strategy, position>>
residue  == <<dustPot, dust, wethBal, unbooked>>

vars == <<chain, config, terms, flags, index, cursor, idle, accrued, pool,
          residue>>

ChainTyped == epoch \in 0..MaxEpoch /\ fillable \in [Stocks -> BOOLEAN]

ConfigTyped ==
  /\ vaultPaused \in BOOLEAN
  /\ purchasable \in [Stocks -> BOOLEAN]
  /\ fees \in Fees
  /\ knobs \in Knobs

TermsTyped ==
  /\ owner \in [Plans -> Users \cup {None}]
  /\ stock \in [Plans -> Stocks \cup {None}]
  /\ amountPerEpoch \in [Plans -> Nat]
  /\ recipient \in [Plans -> Users \cup {None}]
  /\ \A p \in Plans : owner[p] # None => stock[p] \in Stocks

FlagsTyped ==
  /\ planPaused \in [Plans -> BOOLEAN]
  /\ boosted \in [Plans -> BOOLEAN]
  /\ lastEpochId \in [Plans -> 0..MaxEpoch]

IndexTyped ==
  /\ stockPlans \in [Stocks -> Seq(Plans)]
  /\ stockPlanIndex \in [Plans -> Nat]

CursorTyped ==
  /\ lastExecutedEpoch \in [Stocks -> 0..MaxEpoch]
  /\ nextPlanIndex \in [Stocks -> [0..MaxEpoch -> Nat]]

IdleTyped ==
  /\ usdgIdle \in [Plans -> Nat]
  /\ totalUsdgIdle \in Nat
  /\ usdgBal \in Nat

AccruedTyped ==
  /\ stockAccrued \in [Plans -> Nat]
  /\ totalStockAccrued \in [Stocks -> Nat]
  /\ userStockAccrued \in [Users -> [Stocks -> Nat]]
  /\ stockBal \in [Stocks -> Nat]

PoolTyped ==
  /\ boostShares \in [Plans -> 0..MaxShares]
  /\ totalShares \in Nat
  /\ strategy \in Strategies \cup {None}
  /\ position \in [Strategies -> Nat]

ResidueTyped ==
  /\ dustPot \in [Stocks -> Nat]
  /\ dust \in [usdg : Nat, weth : Nat]
  /\ wethBal \in Nat
  /\ unbooked \in [usdg : Nat, weth : Nat, stock : [Stocks -> Nat]]

TypeOK == /\ ChainTyped /\ ConfigTyped /\ TermsTyped /\ FlagsTyped
          /\ IndexTyped /\ CursorTyped /\ IdleTyped /\ AccruedTyped
          /\ PoolTyped /\ ResidueTyped

Init ==
  /\ epoch = 0
  /\ fillable = [s \in Stocks |-> TRUE]
  /\ vaultPaused = FALSE
  /\ purchasable = [s \in Stocks |-> TRUE]
  /\ fees = Fees0
  /\ knobs = Knobs0
  /\ owner = [p \in Plans |-> None]
  /\ stock = [p \in Plans |-> None]
  /\ amountPerEpoch = [p \in Plans |-> 0]
  /\ recipient = [p \in Plans |-> None]
  /\ planPaused = [p \in Plans |-> FALSE]
  /\ boosted = [p \in Plans |-> FALSE]
  /\ lastEpochId = [p \in Plans |-> 0]
  /\ usdgIdle = [p \in Plans |-> 0]
  /\ stockAccrued = [p \in Plans |-> 0]
  /\ boostShares = [p \in Plans |-> 0]
  /\ stockPlans = [s \in Stocks |-> <<>>]
  /\ stockPlanIndex = [p \in Plans |-> 0]
  /\ lastExecutedEpoch = [s \in Stocks |-> 0]
  /\ nextPlanIndex = [s \in Stocks |-> [e \in 0..MaxEpoch |-> 0]]
  /\ totalUsdgIdle = 0
  /\ totalStockAccrued = [s \in Stocks |-> 0]
  /\ userStockAccrued = [u \in Users |-> [s \in Stocks |-> 0]]
  /\ totalShares = 0
  /\ dustPot = [s \in Stocks |-> 0]
  /\ dust = [usdg |-> 0, weth |-> 0]
  /\ strategy = None
  /\ position = [v \in Strategies |-> 0]
  /\ usdgBal = 0
  /\ wethBal = 0
  /\ stockBal = [s \in Stocks |-> 0]
  /\ unbooked = [usdg |-> 0, weth |-> 0, stock |-> [s \in Stocks |-> 0]]

-----------------------------------------------------------------------------
(* A transfer of a out of the vault: a token that refuses the payee        *)
(* reverts the call, and a transfer of nothing is not made.                *)
Takes(token, to, a) == a = 0 \/ <<token, to>> \notin Refused

-----------------------------------------------------------------------------
(* Epoch state of a stock.                                                 *)

EpochPending(s) == lastExecutedEpoch[s] < epoch /\ nextPlanIndex[s][epoch] > 0

EpochDue(s) == /\ ~vaultPaused
               /\ purchasable[s]
               /\ epoch > lastExecutedEpoch[s]
               /\ stockPlans[s] # <<>>

-----------------------------------------------------------------------------
(* The iteration list of a stock: append on funding, swap-and-pop on exit. *)

IndexPlan(p, s) ==
  IF stockPlanIndex[p] # 0
  THEN UNCHANGED index
  ELSE /\ stockPlans' = [stockPlans EXCEPT ![s] = Append(@, p)]
       /\ stockPlanIndex' = [stockPlanIndex EXCEPT ![p] = Len(stockPlans[s]) + 1]

(* Faulty: the position of the plan that fills the gap stays the old one.  *)
UnindexKeepsMoved(p) ==
  LET arr == stockPlans[stock[p]]
      idx == stockPlanIndex[p]
  IN IF idx = 0
     THEN UNCHANGED index
     ELSE /\ stockPlans' = [stockPlans EXCEPT ![stock[p]] =
               [i \in 1..(Len(arr) - 1) |->
                  IF i = idx THEN arr[Len(arr)] ELSE arr[i]]]
          /\ stockPlanIndex' = [stockPlanIndex EXCEPT ![p] = 0]

UnindexPlan(p) ==
  LET arr  == stockPlans[stock[p]]
      idx  == stockPlanIndex[p]
      last == arr[Len(arr)]
  IN IF idx = 0
     THEN UNCHANGED index
     ELSE /\ stockPlans' = [stockPlans EXCEPT ![stock[p]] =
               [i \in 1..(Len(arr) - 1) |-> IF i = idx THEN last ELSE arr[i]]]
          /\ stockPlanIndex' =
               [stockPlanIndex EXCEPT ![last] = idx, ![p] = 0]

-----------------------------------------------------------------------------
(* The boost pool: one strategy position split by internal shares, with a  *)
(* virtual share and a virtual asset.                                      *)

PoolAssets == IF strategy = None THEN 0 ELSE position[strategy]

(* USDG held or lent: what the bound on inflows counts.                     *)
InCustody == usdgBal + Total(position)

ValueOf(shares) == MulDiv(shares, PoolAssets + 1, totalShares + 1)

(* Shares minted for a deposit of a into a pool of v assets and n shares.  *)
Mint(a, v, n) == MulDiv(a, n + 1, v + 1)

(* Faulty: rounds in favour of the plan that leaves.                       *)
BurnDown(p, a) == IF a >= ValueOf(boostShares[p])
                  THEN boostShares[p]
                  ELSE MulDiv(a, totalShares + 1, PoolAssets + 1)

(* Shares burned for a withdrawal of a from p's balance: rounded up, and   *)
(* all of them once a reaches the plan's whole value.                      *)
Burn(p, a) == IF a >= ValueOf(boostShares[p])
              THEN boostShares[p]
              ELSE MulDivUp(a, totalShares + 1, PoolAssets + 1)

DepositTolerance(a) ==
  DEPOSIT_TOLERANCE_ABS + MulDiv(a, DEPOSIT_TOLERANCE_BPS, BPS)

(* Faulty: takes whatever the strategy credits.                            *)
CreditsUnchecked(a) == 0..a

(* What the position may gain from a deposit of a: never more than a, and  *)
(* deposit() refuses a shortfall beyond the tolerance.  The shares minted  *)
(* are those of the full a.                                                *)
Credits(a) == {k \in 0..a : k + DepositTolerance(a) >= a}

(* What the position may lose when the strategy pays a: ERC-4626 rounds    *)
(* the shares it burns up.  A strategy asked for nothing is not called.    *)
Costs(a) == IF a = 0 THEN {0} ELSE a..Smaller(a + Rounding, PoolAssets)

(* Lend to the strategy for p: the position gains a and p the shares.      *)
PutInPool(p, a, minted) ==
  /\ strategy # None
  /\ boostShares[p] + minted <= MaxShares
  /\ boostShares' = [boostShares EXCEPT ![p] = @ + minted]
  /\ totalShares' = totalShares + minted
  /\ position' = [position EXCEPT ![strategy] = @ + a]
  /\ UNCHANGED strategy

(* Take a out of p's boosted balance.  A strategy that cannot pay reverts  *)
(* the whole call, so only payments are steps.                             *)
TakeFromPool(p, a) ==
  /\ a <= PoolAssets
  /\ Burn(p, a) <= totalShares
  /\ boostShares' = [boostShares EXCEPT ![p] = @ - Burn(p, a)]
  /\ totalShares' = totalShares - Burn(p, a)
  /\ \E cost \in Costs(a) :
       position' = [v \in Strategies |->
                      IF v = strategy THEN position[v] - cost ELSE position[v]]
  /\ UNCHANGED strategy

-----------------------------------------------------------------------------
(* The idle balance of a plan, its aggregate and the USDG behind it move   *)
(* together.  Subtractions are checked: one that would wrap reverts.       *)

CreditIdle(p, a) ==
  /\ usdgIdle' = [usdgIdle EXCEPT ![p] = @ + a]
  /\ totalUsdgIdle' = totalUsdgIdle + a
  /\ usdgBal' = usdgBal + a

DebitIdle(p, a) ==
  /\ a <= usdgIdle[p] /\ a <= totalUsdgIdle /\ a <= usdgBal
  /\ usdgIdle' = [usdgIdle EXCEPT ![p] = @ - a]
  /\ totalUsdgIdle' = totalUsdgIdle - a
  /\ usdgBal' = usdgBal - a

(* Faulty: books stock under the recipient of a plan.                      *)
ByRecipient(u, a) ==
  Total([p \in Plans |-> IF recipient[p] = u THEN a[p] ELSE 0])

(* The part of the amounts a that belongs to the plans of user u.          *)
ByOwner(u, a) == Total([p \in Plans |-> IF owner[p] = u THEN a[p] ELSE 0])

(* An owner who holds the auto-distribute perk claims for free.            *)
ClaimFee(p, perk) == IF perk[owner[p]].auto THEN 0 ELSE fees.claim

(* Pay out a[p] of the stock s every plan p has accrued: the claim fee,    *)
(* then the rest.                                                          *)
PayStock(s, a, perk) ==
  /\ \A p \in Plans : a[p] > 0 =>
       /\ Takes(s, fees.to, FeeOf(a[p], ClaimFee(p, perk)))
       /\ Takes(s, recipient[p], a[p])
  /\ \A p \in Plans : a[p] <= stockAccrued[p]
  /\ Total(a) <= totalStockAccrued[s] /\ Total(a) <= stockBal[s]
  /\ \A u \in Users : ByOwner(u, a) <= userStockAccrued[u][s]
  /\ stockAccrued' = [p \in Plans |-> stockAccrued[p] - a[p]]
  /\ totalStockAccrued' = [totalStockAccrued EXCEPT ![s] = @ - Total(a)]
  /\ userStockAccrued' = [u \in Users |->
       [userStockAccrued[u] EXCEPT ![s] = @ - ByOwner(u, a)]]
  /\ stockBal' = [stockBal EXCEPT ![s] = @ - Total(a)]

(* Pay a of USDG to the owner of p: the withdraw fee, then the rest.       *)
PayUsdg(p, a) == /\ Takes(Usdg, fees.to, FeeOf(a, fees.withdraw))
                 /\ Takes(Usdg, owner[p], a)

-----------------------------------------------------------------------------
(* Funding.                                                                *)

(* Book the amounts c1, c2, c3 to plan p one after another: lent when the  *)
(* plan lends, on its idle balance otherwise.                              *)
Credit(p, lends, c1, c2, c3) ==
  /\ InCustody + c1 + c2 + c3 <= Supply
  /\ IF lends
     THEN /\ \E k1 \in Credits(c1), k2 \in Credits(c2), k3 \in Credits(c3) :
               LET m1 == Mint(c1, PoolAssets, totalShares)
                   m2 == Mint(c2, PoolAssets + k1, totalShares + m1)
                   m3 == Mint(c3, PoolAssets + k1 + k2, totalShares + m1 + m2)
               IN PutInPool(p, k1 + k2 + k3, m1 + m2 + m3)
          /\ UNCHANGED idle
     ELSE CreditIdle(p, c1 + c2 + c3) /\ UNCHANGED pool

CreatePlan(u, p, s, a, to, g, z1, z2, lends) ==
  LET c == NetOf(g, fees.deposit)
  IN /\ ~vaultPaused
     /\ owner[p] = None
     /\ purchasable[s]
     /\ a >= knobs.minAmount
     /\ Takes(Usdg, fees.to, FeeOf(g, fees.deposit))
     /\ owner' = [owner EXCEPT ![p] = u]
     /\ recipient' = [recipient EXCEPT ![p] = IF to = None THEN u ELSE to]
     /\ stock' = [stock EXCEPT ![p] = s]
     /\ amountPerEpoch' = [amountPerEpoch EXCEPT ![p] = a]
     /\ boosted' = [boosted EXCEPT ![p] = lends]
     /\ Credit(p, lends, c, z1, z2)
     /\ c + z1 + z2 >= knobs.minDeposit
     /\ IndexPlan(p, s)
     /\ UNCHANGED <<chain, config, planPaused, lastEpochId, cursor, accrued,
                    residue>>

Exists(p) == owner[p] # None

Fund(p, c) ==
  /\ ~vaultPaused
  /\ Exists(p)
  /\ purchasable[stock[p]]
  /\ Credit(p, boosted[p], c, 0, 0)
  /\ c >= knobs.minDeposit
  /\ IndexPlan(p, stock[p])
  /\ UNCHANGED <<chain, config, terms, flags, cursor, accrued, residue>>

DepositUSDG(p, g) == /\ Takes(Usdg, fees.to, FeeOf(g, fees.deposit))
                     /\ Fund(p, NetOf(g, fees.deposit))

(* depositWETH and depositETH: the fee and any unfilled input are WETH,    *)
(* which refuses nobody, so only the output z of the conversion is booked. *)
DepositWETH(p, z) == Fund(p, z)

-----------------------------------------------------------------------------
(* Calls of a plan's owner, who is left implicit.                          *)

SetPlanPaused(p, b) ==
  /\ Exists(p)
  /\ planPaused' = [planPaused EXCEPT ![p] = b]
  /\ UNCHANGED <<chain, config, terms, boosted, lastEpochId, index, cursor,
                 idle, accrued, pool, residue>>

SetPlanAmount(p, a) ==
  /\ Exists(p)
  /\ a >= knobs.minAmount
  /\ amountPerEpoch' = [amountPerEpoch EXCEPT ![p] = a]
  /\ UNCHANGED <<chain, config, owner, stock, recipient, flags, index, cursor,
                 idle, accrued, pool, residue>>

SetPlanRecipient(p, u) ==
  /\ Exists(p)
  /\ recipient' = [recipient EXCEPT ![p] = u]
  /\ UNCHANGED <<chain, config, owner, stock, amountPerEpoch, flags, index,
                 cursor, idle, accrued, pool, residue>>

(* setPlanBoost(true): every idle USDG of the plan moves into the pool.    *)
Boost(p) ==
  LET out == usdgIdle[p]
  IN /\ Exists(p)
     /\ ~vaultPaused
     /\ boosted' = [boosted EXCEPT ![p] = TRUE]
     /\ DebitIdle(p, out)
     /\ \E k \in Credits(out) :
          PutInPool(p, k, Mint(out, PoolAssets, totalShares))
     /\ UNCHANGED <<chain, config, terms, planPaused, lastEpochId, index,
                    cursor, accrued, residue>>

(* Faulty: asks the strategy even for a plan without shares.               *)
LeaveThroughStrategy(p) ==
  /\ boosted' = [boosted EXCEPT ![p] = FALSE]
  /\ strategy # None
  /\ TakeFromPool(p, ValueOf(boostShares[p]))

(* The unboost leg shared by setPlanBoost(false) and closePlan.            *)
LeavePool(p) ==
  /\ boosted' = [boosted EXCEPT ![p] = FALSE]
  /\ IF boostShares[p] > 0
     THEN TakeFromPool(p, ValueOf(boostShares[p]))
     ELSE UNCHANGED pool

(* setPlanBoost(false): the plan's whole value moves to its idle balance.  *)
Unboost(p) ==
  /\ Exists(p)
  /\ LeavePool(p)
  /\ CreditIdle(p, ValueOf(boostShares[p]))
  /\ UNCHANGED <<chain, config, terms, planPaused, lastEpochId, index, cursor,
                 accrued, residue>>

(* withdrawIdle: the idle balance pays first, the pool the rest.           *)
WithdrawIdle(p, a) ==
  LET fromIdle == Smaller(a, usdgIdle[p])
  IN /\ Exists(p)
     /\ a > 0
     /\ a <= usdgIdle[p] + ValueOf(boostShares[p])
     /\ PayUsdg(p, a)
     /\ DebitIdle(p, fromIdle)
     /\ IF a > fromIdle THEN TakeFromPool(p, a - fromIdle) ELSE UNCHANGED pool
     /\ UNCHANGED <<chain, config, terms, flags, index, cursor, accrued,
                    residue>>

Only(p, a) == [q \in Plans |-> IF q = p THEN a ELSE 0]

Claim(p, a, perk) ==
  /\ Exists(p)
  /\ a > 0
  /\ PayStock(stock[p], Only(p, a), perk)
  /\ UNCHANGED <<chain, config, terms, flags, index, cursor, idle, pool,
                 residue>>

ClaimAll(u, s, perk) ==
  /\ PayStock(s, [p \in Plans |-> IF owner[p] = u /\ stock[p] = s
                                  THEN stockAccrued[p] ELSE 0], perk)
  /\ UNCHANGED <<chain, config, terms, flags, index, cursor, idle, pool,
                 residue>>

(* Faulty: a close takes the plan out of the list at once, page or no page.*)
ParksNever(p) == FALSE

(* A plan closed while a page is pending stays in the list, paused.        *)
Parks(p) == EpochPending(stock[p]) /\ stockPlanIndex[p] # 0

(* What closePlan pays its caller of USDG: the idle balance and the pool's.*)
Worth(p) == usdgIdle[p] + ValueOf(boostShares[p])

(* closePlan: unboost, pay out all USDG, claim all stock, and leave the    *)
(* list, or park in it.  A transfer that is refused reverts all of it.     *)
ClosePlan(p, perk) ==
  /\ Exists(p)
  /\ boosted[p] \/ boostShares[p] = 0
  /\ LeavePool(p)
  /\ PayUsdg(p, Worth(p))
  /\ DebitIdle(p, usdgIdle[p])
  /\ PayStock(stock[p], Only(p, stockAccrued[p]), perk)
  /\ IF Parks(p) THEN UNCHANGED index ELSE UnindexPlan(p)
  /\ planPaused' = [planPaused EXCEPT ![p] = @ \/ Parks(p)]
  /\ UNCHANGED <<chain, config, terms, lastEpochId, cursor, residue>>

(* Faulty: forgets the stock the plan has accrued.                         *)
EmptyOfUsdg(p) == usdgIdle[p] = 0 /\ boostShares[p] = 0

Empty(p) == usdgIdle[p] = 0 /\ stockAccrued[p] = 0 /\ boostShares[p] = 0

(* Faulty: drops the plan even while a page is pending.                    *)
PruneAnyTime(p) ==
  /\ Exists(p)
  /\ Empty(p)
  /\ UnindexPlan(p)
  /\ UNCHANGED <<chain, config, terms, flags, cursor, idle, accrued, pool,
                 residue>>

(* prunePlan: anyone drops an empty plan from the list between epochs.     *)
PrunePlan(p) ==
  /\ Exists(p)
  /\ Empty(p)
  /\ ~EpochPending(stock[p])
  /\ UnindexPlan(p)
  /\ UNCHANGED <<chain, config, terms, flags, cursor, idle, accrued, pool,
                 residue>>

-----------------------------------------------------------------------------
(* advanceEpoch: one page of the current epoch of stock s.                 *)

Page(s, from, to) == {stockPlans[s][i] : i \in (from + 1)..to}

PageCap(s) == IF knobs.capOf[s] # 0 THEN knobs.capOf[s] ELSE knobs.cap

Available(p) == usdgIdle[p] + (IF boosted[p] THEN ValueOf(boostShares[p]) ELSE 0)

(* Faulty: fills paused plans too.                                         *)
SpendOfPaused(p, s) ==
  LET want == Smaller(Available(p), amountPerEpoch[p])
  IN IF lastEpochId[p] = epoch \/ (PageCap(s) # 0 /\ want > PageCap(s))
     THEN 0
     ELSE want

(* Faulty: a plan above the page cap does not sit out.                     *)
SpendUncapped(p, s) ==
  IF planPaused[p] \/ lastEpochId[p] = epoch
  THEN 0
  ELSE Smaller(Available(p), amountPerEpoch[p])

(* What this epoch takes from a plan: nothing from one that is paused, was *)
(* already charged, or is larger than any page of the stock may be.        *)
Spend(p, s) ==
  LET want == Smaller(Available(p), amountPerEpoch[p])
  IN IF \/ planPaused[p]
        \/ lastEpochId[p] = epoch
        \/ PageCap(s) # 0 /\ want > PageCap(s)
     THEN 0
     ELSE want

Spends(s, from, to) ==
  [p \in Plans |-> IF p \in Page(s, from, to) THEN Spend(p, s) ELSE 0]

(* Faulty: no page ends early.                                             *)
EndsAtLimit(s, from, to, end) == end = to

(* The page that starts at from and may reach to ends at end: it stops     *)
(* before the first plan that would take its notional above the cap.       *)
EndsAt(s, from, to, end) ==
  IF PageCap(s) = 0
  THEN end = to
  ELSE /\ Total(Spends(s, from, end)) <= PageCap(s)
       /\ end < to => Total(Spends(s, from, end + 1)) > PageCap(s)

FromBoost(spend) ==
  [p \in Plans |-> IF spend[p] > usdgIdle[p] THEN spend[p] - usdgIdle[p] ELSE 0]

DropBoosted(spend) ==
  [p \in Plans |-> IF FromBoost(spend)[p] > 0 THEN 0 ELSE spend[p]]

PurchaseFee(p, perk, a) ==
  FeeOf(a, IF Exists(p) /\ perk[owner[p]].halve
           THEN Halve(fees.purchase) ELSE fees.purchase)

(* Faulty: one more part than there are.                                   *)
ProRataPlusOne(sum, net) ==
  [p \in Plans |-> MulDiv(sum, net[p], Total(net) + 1)]

(* Faulty: rounds the parts up.                                            *)
ProRataUp(sum, net) == [p \in Plans |-> MulDivUp(sum, net[p], Total(net))]

ProRata(sum, net) == [p \in Plans |-> MulDiv(sum, net[p], Total(net))]

(* _sweepDust: USDG dust leaves once it reaches the minimum, WETH always.  *)
Swept(d, min) == d > 0 /\ d >= min

(* Faulty: forgets the WETH.                                               *)
SweepUsdg(booked, held, min) ==
  LET out == IF Swept(booked, min) THEN booked ELSE 0
  IN /\ dust' = [dust EXCEPT !.usdg = booked - out]
     /\ Takes(Usdg, fees.to, out)
     /\ out <= held /\ usdgBal' = held - out
     /\ UNCHANGED wethBal

Sweep(booked, held, min) ==
  LET out == IF Swept(booked, min) THEN booked ELSE 0
  IN /\ dust' = [usdg |-> booked - out, weth |-> 0]
     /\ Takes(Usdg, fees.to, out)
     /\ out <= held /\ usdgBal' = held - out
     /\ dust.weth <= wethBal /\ wethBal' = wethBal - dust.weth

(* A page nobody spends on: no purchase, the cursor still moves.  (A fee   *)
(* is below BPS, so a page has a spend exactly when it has a net amount.)  *)
SkipPage(spend) ==
  /\ Total(spend) = 0
  /\ Sweep(dust.usdg, usdgBal, knobs.sweepMin)
  /\ UNCHANGED <<lastEpochId, usdgIdle, totalUsdgIdle, accrued, pool, dustPot>>

(* A page that is bought.  bought is what the swap returned and unspent    *)
(* what it left of its input; plans whose owner holds the auto-distribute  *)
(* perk are paid at once unless the stock refuses their recipient.         *)
BuyPage(s, spend, perk, bought, unspent) ==
  LET fee     == [p \in Plans |-> PurchaseFee(p, perk, spend[p])]
      net     == [p \in Plans |-> spend[p] - fee[p]]
      lent    == FromBoost(spend)
      burned  == [p \in Plans |-> IF lent[p] > 0 THEN Burn(p, lent[p]) ELSE 0]
      left    == Smaller(unspent, Total(net))
      back    == ProRata(left, net)
      pot     == bought + dustPot[s]
      share   == ProRata(pot, net)
      kept    == [p \in Plans |-> IF /\ Exists(p) /\ perk[owner[p]].auto
                                    /\ <<s, recipient[p]>> \notin Refused
                                 THEN 0 ELSE share[p]]
      sent    == Total(share) - Total(kept)
      paidOut == Total(net) - left + Total(fee)
  IN /\ Total(net) > 0
     /\ fillable[s]
     /\ stockBal[s] + bought <= Supply
     /\ lastEpochId' = [p \in Plans |->
                          IF spend[p] > 0 THEN epoch ELSE lastEpochId[p]]
     /\ Total(lent) <= PoolAssets
     /\ Takes(Usdg, fees.to, Total(fee))
     /\ Total(spend) - Total(lent) <= totalUsdgIdle
     /\ usdgIdle' = [p \in Plans |->
                       usdgIdle[p] - (spend[p] - lent[p]) + back[p]]
     /\ totalUsdgIdle' =
          totalUsdgIdle - (Total(spend) - Total(lent)) + Total(back)
     /\ Total(burned) <= totalShares
     /\ boostShares' = [p \in Plans |-> boostShares[p] - burned[p]]
     /\ totalShares' = totalShares - Total(burned)
     /\ \E cost \in Costs(Total(lent)) :
          position' = [v \in Strategies |->
                         position[v] - (IF v = strategy THEN cost ELSE 0)]
     /\ stockAccrued' = [p \in Plans |-> stockAccrued[p] + kept[p]]
     /\ totalStockAccrued' = [totalStockAccrued EXCEPT ![s] = @ + Total(kept)]
     /\ userStockAccrued' = [u \in Users |->
          [userStockAccrued[u] EXCEPT ![s] = @ + ByOwner(u, kept)]]
     /\ sent <= stockBal[s] + bought
     /\ stockBal' = [stockBal EXCEPT ![s] = @ + bought - sent]
     /\ Total(share) <= pot
     /\ dustPot' = [dustPot EXCEPT ![s] = pot - Total(share)]
     /\ Total(back) <= left
     /\ paidOut <= usdgBal + Total(lent)
     /\ Sweep(dust.usdg + left - Total(back),
              usdgBal + Total(lent) - paidOut, knobs.sweepMin)
     /\ UNCHANGED strategy

(* Faulty: the epoch that is executed is taken for the next one.           *)
FinalizeAhead(s, end) ==
  /\ nextPlanIndex' = [nextPlanIndex EXCEPT ![s][epoch] = end]
  /\ lastExecutedEpoch' = [lastExecutedEpoch EXCEPT
       ![s] = IF end = Len(stockPlans[s]) THEN epoch + 1 ELSE @]

(* Faulty: the first page of an epoch executes it.                         *)
FinalizeFirst(s, end) ==
  /\ nextPlanIndex' = [nextPlanIndex EXCEPT ![s][epoch] = end]
  /\ lastExecutedEpoch' = [lastExecutedEpoch EXCEPT ![s] = epoch]

(* The cursor moves to the end of the page; at the end of the list the     *)
(* epoch is executed.                                                      *)
FinalizePage(s, end) ==
  /\ nextPlanIndex' = [nextPlanIndex EXCEPT ![s][epoch] = end]
  /\ lastExecutedEpoch' = [lastExecutedEpoch EXCEPT
       ![s] = IF end = Len(stockPlans[s]) THEN epoch ELSE @]

(* pays: the strategy pays the page's boosted spend.  If it does not, the  *)
(* plans that needed it sit the page out and everyone else is filled.      *)
AdvanceEpoch(s, limit, privileged, perk, bought, unspent, pays) ==
  LET from == nextPlanIndex[s][epoch]
      most == IF limit = 0 THEN knobs.maxPlansPerTx
              ELSE Smaller(limit, knobs.maxPlansPerTx)
      to   == Smaller(from + most, Len(stockPlans[s]))
  IN /\ knobs.keeperOnly => privileged
     /\ EpochDue(s)
     /\ from <= to
     /\ \E end \in from..to :
          LET wanted == Spends(s, from, end)
              spend  == IF pays /\ Total(FromBoost(wanted)) <= PoolAssets
                        THEN wanted ELSE DropBoosted(wanted)
          IN /\ EndsAt(s, from, to, end)
             /\ SkipPage(spend) \/ BuyPage(s, spend, perk, bought, unspent)
             /\ FinalizePage(s, end)
     /\ UNCHANGED <<chain, config, terms, planPaused, boosted, index, unbooked>>

-----------------------------------------------------------------------------
(* Admin calls.                                                            *)

SweepDust ==
  /\ Sweep(dust.usdg, usdgBal, 0)
  /\ UNCHANGED <<chain, config, terms, flags, index, cursor, usdgIdle,
                 totalUsdgIdle, accrued, pool, dustPot, unbooked>>

(* Faulty: counts dust as excess.                                          *)
UsdgAboveIdle == usdgBal - totalUsdgIdle

(* skim books what the vault holds above its accounts as dust.             *)
UsdgExcess == usdgBal - totalUsdgIdle - dust.usdg

SkimUsdg ==
  LET excess == UsdgExcess
  IN /\ excess > 0
     /\ dust' = [dust EXCEPT !.usdg = @ + excess]
     /\ unbooked' = [unbooked EXCEPT !.usdg = 0]
     /\ UNCHANGED <<chain, config, terms, flags, index, cursor, idle, accrued,
                    pool, dustPot, wethBal>>

SkimWeth ==
  LET excess == wethBal - dust.weth
  IN /\ excess > 0
     /\ dust' = [dust EXCEPT !.weth = @ + excess]
     /\ unbooked' = [unbooked EXCEPT !.weth = 0]
     /\ UNCHANGED <<chain, config, terms, flags, index, cursor, idle, accrued,
                    pool, dustPot, wethBal>>

SkimStock(s) ==
  LET excess == stockBal[s] - totalStockAccrued[s] - dustPot[s]
  IN /\ excess > 0
     /\ dustPot' = [dustPot EXCEPT ![s] = @ + excess]
     /\ unbooked' = [unbooked EXCEPT !.stock[s] = 0]
     /\ UNCHANGED <<chain, config, terms, flags, index, cursor, idle, accrued,
                    pool, dust, wethBal>>

(* Faulty: clears the strategy under the shares of the plans.              *)
ClearBoostStrategy(to) ==
  /\ strategy' = to
  /\ IF strategy # None /\ to # None /\ totalShares > 0
     THEN \E arrived \in 0..position[strategy] :
            position' = [position EXCEPT ![strategy] = 0, ![to] = @ + arrived]
     ELSE UNCHANGED position
  /\ UNCHANGED <<chain, config, terms, flags, index, cursor, idle, accrued,
                 boostShares, totalShares, residue>>

(* Point the pool at another strategy (None clears it).  With shares out,  *)
(* the whole position is redeemed and deposited again, and clearing is     *)
(* refused.  What arrives is not checked: any part of it may be lost.      *)
SetBoostStrategy(to) ==
  LET open  == strategy # None /\ totalShares > 0
  IN /\ strategy' = to
     /\ IF open
        THEN /\ to # None
             /\ \E arrived \in 0..position[strategy] :
                  position' = [position EXCEPT ![strategy] = 0,
                                               ![to] = @ + arrived]
        ELSE UNCHANGED position
     /\ UNCHANGED <<chain, config, terms, flags, index, cursor, idle, accrued,
                    boostShares, totalShares, residue>>

state == <<terms, flags, index, cursor, idle, accrued, pool, residue>>

SetVaultPaused(b) ==
  /\ vaultPaused # b
  /\ vaultPaused' = b
  /\ UNCHANGED <<chain, purchasable, fees, knobs, state>>

SetFees(f) ==
  /\ fees' = [f EXCEPT !.to = fees.to]
  /\ UNCHANGED <<chain, vaultPaused, purchasable, knobs, state>>

SetFeeRecipient(to) ==
  /\ fees' = [fees EXCEPT !.to = to]
  /\ UNCHANGED <<chain, vaultPaused, purchasable, knobs, state>>

SetKnobs(k) ==
  /\ UNCHANGED <<chain, vaultPaused, purchasable, fees, state>>
  /\ \/ knobs' = [knobs EXCEPT !.keeperOnly = k.keeperOnly]
     \/ knobs' = [knobs EXCEPT !.maxPlansPerTx = k.maxPlansPerTx]
     \/ knobs' = [knobs EXCEPT !.minAmount = k.minAmount,
                               !.minDeposit = k.minDeposit]
     \/ knobs' = [knobs EXCEPT !.sweepMin = k.sweepMin]
     \/ knobs' = [knobs EXCEPT !.cap = k.cap]
     \/ \E s \in Stocks : knobs' = [knobs EXCEPT !.capOf[s] = k.capOf[s]]

-----------------------------------------------------------------------------
(* The environment: registry, clock, market, strategy and token holders.   *)

SetPurchasable(s, b) ==
  /\ purchasable' = [purchasable EXCEPT ![s] = b]
  /\ UNCHANGED <<chain, vaultPaused, fees, knobs, state>>

EpochPasses ==
  /\ epoch < MaxEpoch
  /\ epoch' = epoch + 1
  /\ UNCHANGED <<fillable, config, state>>

MarketTurns(s) ==
  /\ fillable' = [fillable EXCEPT ![s] = ~@]
  /\ UNCHANGED <<epoch, config, state>>

StrategyGains(v, a) ==
  /\ InCustody + a <= Supply
  /\ position' = [position EXCEPT ![v] = @ + a]
  /\ UNCHANGED <<chain, config, terms, flags, index, cursor, idle, accrued,
                 boostShares, totalShares, strategy, residue>>

StrategyLoses(v, a) ==
  /\ a <= position[v]
  /\ position' = [position EXCEPT ![v] = @ - a]
  /\ UNCHANGED <<chain, config, terms, flags, index, cursor, idle, accrued,
                 boostShares, totalShares, strategy, residue>>

GiveUsdg(a) ==
  /\ InCustody + a <= Supply
  /\ usdgBal' = usdgBal + a
  /\ unbooked' = [unbooked EXCEPT !.usdg = @ + a]
  /\ UNCHANGED <<chain, config, terms, flags, index, cursor, usdgIdle,
                 totalUsdgIdle, accrued, pool, dustPot, dust, wethBal>>

GiveWeth(a) ==
  /\ wethBal + a <= Supply
  /\ wethBal' = wethBal + a
  /\ unbooked' = [unbooked EXCEPT !.weth = @ + a]
  /\ UNCHANGED <<chain, config, terms, flags, index, cursor, idle, accrued,
                 pool, dustPot, dust>>

GiveStock(s, a) ==
  /\ stockBal[s] + a <= Supply
  /\ stockBal' = [stockBal EXCEPT ![s] = @ + a]
  /\ unbooked' = [unbooked EXCEPT !.stock[s] = @ + a]
  /\ UNCHANGED <<chain, config, terms, flags, index, cursor, idle,
                 stockAccrued, totalStockAccrued, userStockAccrued, pool,
                 dustPot, dust, wethBal>>

-----------------------------------------------------------------------------
PlanCall(p) ==
  \/ \E u \in Users, s \in Stocks, a \in AmountsPerEpoch,
        to \in Users \cup {None}, g \in Deposits \cup {0},
        z1, z2 \in Zaps \cup {0}, lends \in BOOLEAN :
          CreatePlan(u, p, s, a, to, g, z1, z2, lends)
  \/ \E g \in Deposits : DepositUSDG(p, g)
  \/ \E z \in Zaps : DepositWETH(p, z)
  \/ "setPlanPaused" \in Calls /\ \E b \in BOOLEAN : SetPlanPaused(p, b)
  \/ \E a \in AmountsPerEpoch : SetPlanAmount(p, a)
  \/ \E u \in Users : SetPlanRecipient(p, u)
  \/ Boost(p)
  \/ Unboost(p)
  \/ "withdrawIdle" \in Calls /\ \E a \in 1..Supply : WithdrawIdle(p, a)
  \/ "claim" \in Calls /\ \E a \in 1..Supply, perk \in Perks :
                             Claim(p, a, perk)
  \/ \E perk \in Perks : ClosePlan(p, perk)
  \/ PrunePlan(p)

KeeperCall(s) ==
  \E limit \in Limits, privileged \in BOOLEAN, perk \in Perks,
     bought \in Bought, unspent \in Unspent, pays \in BOOLEAN :
    AdvanceEpoch(s, limit, privileged, perk, bought, unspent, pays)

AdminCall ==
  \/ SweepDust
  \/ SkimUsdg
  \/ SkimWeth
  \/ \E s \in Stocks : SkimStock(s)
  \/ \E to \in Strategies \cup {None} : SetBoostStrategy(to)
  \/ "pause" \in Calls /\ \E b \in BOOLEAN : SetVaultPaused(b)
  \/ \E f \in FeeChoices : SetFees(f)
  \/ \E to \in Treasuries : SetFeeRecipient(to)
  \/ \E k \in KnobChoices : SetKnobs(k)

Environment ==
  \/ EpochPasses
  \/ "delist" \in Calls /\ \E s \in Stocks, b \in BOOLEAN : SetPurchasable(s, b)
  \/ "outage" \in Calls /\ \E s \in Stocks : MarketTurns(s)
  \/ \E v \in Strategies, a \in Gains : StrategyGains(v, a)
  \/ \E v \in Strategies, a \in Losses : StrategyLoses(v, a)
  \/ \E a \in Gifts : GiveUsdg(a) \/ GiveWeth(a)
  \/ \E s \in Stocks, a \in Gifts : GiveStock(s, a)

Next ==
  \/ \E p \in Plans : PlanCall(p)
  \/ "claim" \in Calls /\ \E u \in Users, s \in Stocks, perk \in Perks :
                             ClaimAll(u, s, perk)
  \/ \E s \in Stocks : KeeperCall(s)
  \/ AdminCall
  \/ Environment

Spec == Init /\ [][Next]_vars
=============================================================================
