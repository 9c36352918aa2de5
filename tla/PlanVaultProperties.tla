------------------------ MODULE PlanVaultProperties -------------------------
(***************************************************************************)
(* What a vault promises.  Each property names the code that has to keep   *)
(* it.  PlanVaultProofs proves the types, PlanVaultListProofs the list and *)
(* cursor properties and the refinement of PlanEpoch, PlanVaultBookProofs  *)
(* the books, the dust and the boost pool, and that the guards of a page   *)
(* and of an exit hold.  ENABLED itself and fairness are left to the runs. *)
(***************************************************************************)
EXTENDS PlanVault

-----------------------------------------------------------------------------
(* Iteration list and page cursor.                                         *)

(* The list of a stock and the positions kept per plan describe each       *)
(* other: every plan appears at most once, in the list of its own stock,   *)
(* at the position recorded for it (_index and the swap-and-pop _unindex). *)
IndexConsistent ==
  /\ \A s \in Stocks : \A i \in 1..Len(stockPlans[s]) :
       LET p == stockPlans[s][i]
       IN Exists(p) /\ stock[p] = s /\ stockPlanIndex[p] = i
  /\ \A p \in Plans : stockPlanIndex[p] # 0 =>
       /\ Exists(p)
       /\ stockPlanIndex[p] \in 1..Len(stockPlans[stock[p]])
       /\ stockPlans[stock[p]][stockPlanIndex[p]] = p

(* A plan that holds anything - idle USDG, boost shares, unclaimed stock - *)
(* is in its stock's list, so no funded plan is ever passed over.          *)
FundedPlansListed ==
  \A p \in Plans :
    usdgIdle[p] > 0 \/ stockAccrued[p] > 0 \/ boostShares[p] > 0
      => stockPlanIndex[p] # 0

(* The cursor of an unfinished epoch is never beyond the list: a list that *)
(* shrank under an open cursor would make advanceEpoch revert for the rest *)
(* of the epoch.                                                           *)
CursorInList ==
  \A s \in Stocks : EpochPending(s) =>
    nextPlanIndex[s][epoch] < Len(stockPlans[s])

PrefixKept(s) ==
  /\ nextPlanIndex'[s][epoch] >= nextPlanIndex[s][epoch]
  /\ \A i \in 1..nextPlanIndex[s][epoch] :
       i <= Len(stockPlans'[s]) /\ stockPlans'[s][i] = stockPlans[s][i]

(* While an epoch of a stock is part done, no plan moves across the page   *)
(* cursor: the plans already visited stay where they are, and the cursor   *)
(* only moves forward (the EpochInProgress check of prunePlan and the      *)
(* deferred unindex of closePlan).                                         *)
NoPlanCrossesCursor ==
  [][\A s \in Stocks : EpochPending(s) /\ epoch' = epoch => PrefixKept(s)]_vars

ChargedOnce(p) ==
  /\ ~planPaused[p]
  /\ nextPlanIndex'[stock[p]] # nextPlanIndex[stock[p]]
  /\ lastEpochId[p] < epoch /\ lastEpochId'[p] = epoch
  /\ usdgIdle[p] - usdgIdle'[p] <= amountPerEpoch[p]

(* A page takes money only from unpaused plans of its stock that were not  *)
(* charged in this epoch, marks every plan it takes from, and takes at     *)
(* most amountPerEpoch from an idle balance.                               *)
PagesChargeOncePerEpoch ==
  [][nextPlanIndex' # nextPlanIndex =>
       \A p \in Plans :
         usdgIdle'[p] < usdgIdle[p] \/ boostShares'[p] < boostShares[p]
           => ChargedOnce(p)]_vars

(* A page never takes more from the idle balances of its plans than the    *)
(* page cap in force, whatever the admin did to the cap, the page size or  *)
(* the amounts while the epoch was under way (_collect).                   *)
PageWithinCap ==
  [][\A s \in Stocks :
       nextPlanIndex'[s] # nextPlanIndex[s] /\ PageCap(s) # 0 =>
         Total([p \in Plans |-> IF usdgIdle'[p] < usdgIdle[p]
                                THEN usdgIdle[p] - usdgIdle'[p]
                                ELSE 0]) <= PageCap(s)]_vars

-----------------------------------------------------------------------------
(* What an epoch promises.                                                 *)

Listed(s) == {stockPlans[s][i] : i \in 1..Len(stockPlans[s])}

Executed(s) == lastExecutedEpoch[s] >= epoch

PhaseOf(s) == IF Executed(s) THEN "closed"
              ELSE IF EpochPending(s) THEN "open" ELSE "fresh"

Waiting(s) == IF Executed(s) THEN {}
              ELSE Page(s, nextPlanIndex[s][epoch], Len(stockPlans[s]))

(* A page has to charge the plan, and its idle balance alone can pay.      *)
Willing(p) == /\ Exists(p)
              /\ Spend(p, stock[p]) > 0
              /\ Spend(p, stock[p]) <= usdgIdle[p]

Epochs == INSTANCE PlanEpoch WITH
  listed  <- [s \in Stocks |-> Listed(s)],
  phase   <- [s \in Stocks |-> PhaseOf(s)],
  waiting <- [s \in Stocks |-> Waiting(s)],
  charged <- {p \in Plans : lastEpochId[p] = epoch},
  willing <- {p \in Plans : Willing(p)}

(* List, positions and cursor carry the epoch of PlanEpoch: whatever       *)
(* owners, strangers and the admin do between the pages of an epoch, every *)
(* listed plan is visited once before the epoch is executed, and a visit   *)
(* charges each plan that can pay (advanceEpoch with the swap-and-pop of   *)
(* _unindex and the EpochInProgress rules of prunePlan and closePlan).     *)
ImplementsPlanEpoch == Epochs!Spec

-----------------------------------------------------------------------------
(* Books and balances.                                                     *)

UsdgBooked == usdgBal = totalUsdgIdle + dust.usdg + unbooked.usdg

WethBooked == wethBal = dust.weth + unbooked.weth

StockBooked(s) ==
  stockBal[s] = totalStockAccrued[s] + dustPot[s] + unbooked.stock[s]

(* Every token the vault holds is accounted for: to a plan, as dust, or as *)
(* a transfer nobody has booked yet (which skim then books).               *)
BalancesBooked == /\ UsdgBooked /\ WethBooked
                  /\ \A s \in Stocks : StockBooked(s)

OfStock(s, a) == [p \in Plans |-> IF stock[p] = s THEN a[p] ELSE 0]

OfUser(u, s, a) == [p \in Plans |-> IF owner[p] = u /\ stock[p] = s
                                    THEN a[p] ELSE 0]

(* The running totals are the sums over the plans, per vault, per stock    *)
(* and per user.                                                           *)
TotalsAgree ==
  /\ totalUsdgIdle = Total(usdgIdle)
  /\ totalShares = Total(boostShares)
  /\ \A s \in Stocks :
       totalStockAccrued[s] = Total(OfStock(s, stockAccrued))
  /\ \A u \in Users, s \in Stocks :
       userStockAccrued[u][s] = Total(OfUser(u, s, stockAccrued))

(* Whatever a page could not split exactly is less than one unit per plan  *)
(* it filled, the remainder of earlier pages and skimmed stock included;   *)
(* a page that fills nobody leaves the pot alone (_distribute).            *)
StockDustBounded ==
  [][\A s \in Stocks : nextPlanIndex'[s] # nextPlanIndex[s] =>
       LET filled == {p \in Plans : lastEpochId'[p] # lastEpochId[p]}
       IN IF filled = {} THEN dustPot'[s] = dustPot[s]
                         ELSE dustPot'[s] < Cardinality(filled)]_vars

(* No page leaves USDG dust of the sweep minimum or more behind, or any    *)
(* WETH dust, skimmed dust included (_distribute books it, _sweepDust      *)
(* sends it).                                                              *)
DustLeavesWithPages ==
  [][nextPlanIndex' # nextPlanIndex =>
       /\ dust'.usdg = 0 \/ dust'.usdg < knobs.sweepMin
       /\ dust'.weth = 0]_vars

-----------------------------------------------------------------------------
(* The boost pool.                                                         *)

(* What the boosted plans could withdraw together is covered by the        *)
(* strategy position; only boosted plans hold shares, and shares need a    *)
(* strategy.                                                               *)
BoostSolvent ==
  /\ Total([p \in Plans |-> ValueOf(boostShares[p])]) <= PoolAssets
  /\ \A p \in Plans : boostShares[p] > 0 => boosted[p]
  /\ totalShares > 0 => strategy # None

(* With slack more in the position, a share would be worth what it was.    *)
PriceKept(slack) ==
  (PoolAssets' + slack + 1) * (totalShares + 1)
    >= (PoolAssets + 1) * (totalShares' + 1)

(* The shares that were out before lose at most loss together.             *)
HoldersLoseAtMost(loss) ==
  totalShares * (PoolAssets' + 1) * (totalShares + 1)
      + loss * (totalShares + 1) * (totalShares' + 1)
    >= totalShares * (PoolAssets + 1) * (totalShares' + 1)

NewPlan(g, z1, z2) ==
  \E p \in Plans, u \in Users, s \in Stocks, a \in AmountsPerEpoch,
     to \in Users \cup {None}, lends \in BOOLEAN :
    CreatePlan(u, p, s, a, to, g, z1, z2, lends)

(* Money the pool may lose without a share burned: the strategy's own loss *)
(* and a migration, where setStrategy does not check what arrives.         *)
StrategyFails ==
  \/ \E v \in Strategies, a \in Losses : StrategyLoses(v, a)
  \/ \E to \in Strategies \cup {None} : SetBoostStrategy(to)

(* What one plan's call can cost the others' boost shares is what BoostLib *)
(* tolerates: a deposit no more than the shortfall of credit it accepts    *)
(* (once per deposit a new plan is funded with), an exit or a page no more *)
(* than one rounding of the strategy.  Rounding of the shares themselves   *)
(* never costs anything, over any sequence of deposits, gains and losses.  *)
BoostPriceKept ==
  [][totalShares > 0 =>
       IF totalShares' > totalShares
       THEN /\ \A p \in Plans :
                 Boost(p) => PriceKept(DepositTolerance(usdgIdle[p]))
            /\ \A p \in Plans, g \in Deposits : DepositUSDG(p, g) =>
                 PriceKept(DepositTolerance(NetOf(g, fees.deposit)))
            /\ \A p \in Plans, z \in Zaps : DepositWETH(p, z) =>
                 PriceKept(DepositTolerance(z))
            /\ \A g \in Deposits \cup {0}, z1, z2 \in Zaps \cup {0} :
                 NewPlan(g, z1, z2) => HoldersLoseAtMost(
                   DepositTolerance(NetOf(g, fees.deposit))
                     + DepositTolerance(z1) + DepositTolerance(z2))
       ELSE PriceKept(Rounding) \/ StrategyFails]_vars

-----------------------------------------------------------------------------
(* Calls that must not revert.                                             *)

(* A due epoch of a fillable stock can be advanced whatever the page size, *)
(* the perks, the swap's outcome and the strategy's answer: no checked     *)
(* subtraction of the page's bookkeeping wraps, so no state of the plans   *)
(* can freeze an epoch.  (Unless USDG refuses the fee recipient, which the *)
(* page pays directly.)                                                    *)
PageNeverReverts ==
  \A s \in Stocks :
    EpochDue(s) /\ fillable[s] /\ <<Usdg, fees.to>> \notin Refused =>
    \A limit \in Limits, perk \in Perks, bought \in Bought,
       unspent \in Unspent, pays \in BOOLEAN :
      stockBal[s] + bought <= Supply =>
        ENABLED AdvanceEpoch(s, limit, TRUE, perk, bought, unspent, pays)

(* Nobody whom the payment of p's USDG, or of its stock, has to reach is   *)
(* refused by the token: neither the payee nor, if a fee is due, the fee   *)
(* recipient.                                                              *)
UsdgAccepted(p) == /\ <<Usdg, owner[p]>> \notin Refused
                   /\ fees.withdraw > 0 => <<Usdg, fees.to>> \notin Refused

StockAccepted(p, perk) ==
  /\ <<stock[p], recipient[p]>> \notin Refused
  /\ ClaimFee(p, perk) > 0 => <<stock[p], fees.to>> \notin Refused

(* An owner can always leave: while the vault is paused, after a           *)
(* delisting, during an epoch, after losses.  One transaction closes the   *)
(* plan unless a token it holds refuses whom it has to pay, which reverts  *)
(* the whole close (or the strategy cannot pay); and then the single legs  *)
(* still get out what the other token holds.                               *)
ExitNeverReverts ==
  \A p \in Plans, perk \in Perks : Exists(p) =>
    LET usdgLeaves  == Worth(p) > 0 => UsdgAccepted(p)
        stockLeaves == stockAccrued[p] > 0 => StockAccepted(p, perk)
    IN /\ usdgLeaves /\ stockLeaves => ENABLED ClosePlan(p, perk)
       /\ usdgLeaves /\ Worth(p) > 0 => ENABLED WithdrawIdle(p, Worth(p))
       /\ stockLeaves /\ stockAccrued[p] > 0 =>
            ENABLED Claim(p, stockAccrued[p], perk)

-----------------------------------------------------------------------------
(* Progress.                                                               *)

(* Keepers keep calling advanceEpoch while an epoch is due.                *)
LiveSpec == Spec /\ \A s \in Stocks : WF_vars(KeeperCall(s))

(* A due epoch stops being due: its pages are finished, or the vault is    *)
(* paused, the stock delisted or its list emptied.                         *)
DueEpochsEnd == \A s \in Stocks : EpochDue(s) ~> ~EpochDue(s)
=============================================================================
