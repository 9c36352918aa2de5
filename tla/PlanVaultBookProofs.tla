------------------------ MODULE PlanVaultBookProofs -------------------------
(***************************************************************************)
(* The books of a vault, for every value of the constants: the balances    *)
(* are the sum of what is booked, the running totals are the sums over the *)
(* plans, dust stays small and leaves, the boost pool is solvent and keeps *)
(* its share price, the vault can pay all plans at once, and no            *)
(* subtraction of a page or of an exit wraps.                              *)
(***************************************************************************)
EXTENDS PlanVaultListProofs

-----------------------------------------------------------------------------
(* Balances.                                                               *)

(* The balance above the idle total, and per stock above the accrued total.*)
UsdgGap == usdgBal - totalUsdgIdle
StockGap(s) == stockBal[s] - totalStockAccrued[s]

LEMMA CreditGap ==
  ASSUME TypeOK, NEW p \in Plans, NEW a \in Nat,
         CreditIdle(p, a) \/ DebitIdle(p, a)
  PROVE  UsdgGap' = UsdgGap
BY DEF UsdgGap, TypeOK, IdleTyped, CreditIdle, DebitIdle

LEMMA CreditCallGap ==
  ASSUME TypeOK, NEW p \in Plans, NEW lends \in BOOLEAN,
         NEW c1 \in Nat, NEW c2 \in Nat, NEW c3 \in Nat,
         Credit(p, lends, c1, c2, c3)
  PROVE  UsdgGap' = UsdgGap
<1>1. c1 + c2 + c3 \in Nat
  OBVIOUS
<1>2. UNCHANGED idle => UsdgGap' = UsdgGap
  BY DEF idle, UsdgGap
<1> QED BY <1>1, <1>2, CreditGap DEF Credit

LEMMA PayStockGap ==
  ASSUME TypeOK, NEW s \in Stocks, NEW a \in [Plans -> Nat], NEW perk,
         PayStock(s, a, perk), NEW t \in Stocks
  PROVE  StockGap(t)' = StockGap(t)
<1>1. Total(a) \in Nat
  BY ConstantTypes, TotalNat
<1> QED BY <1>1 DEF StockGap, PayStock, TypeOK, AccruedTyped

(* A step that keeps the gaps and books no dust keeps the books.           *)
LEMMA GapsKept ==
  ASSUME TypeOK, TypeOK', BalancesBooked, UNCHANGED residue,
         UsdgGap' = UsdgGap, \A s \in Stocks : StockGap(s)' = StockGap(s)
  PROVE  BalancesBooked'
<1>1. UsdgBooked'
  BY DEF BalancesBooked, UsdgBooked, UsdgGap, residue, TypeOK, IdleTyped,
         ResidueTyped
<1>2. WethBooked'
  BY DEF BalancesBooked, WethBooked, residue
<1>3. ASSUME NEW s \in Stocks PROVE StockBooked(s)'
  <2>1. StockBooked(s) /\ StockGap(s)' = StockGap(s)
    BY DEF BalancesBooked
  <2>2. /\ stockBal[s] \in Nat /\ stockBal'[s] \in Nat
        /\ totalStockAccrued[s] \in Nat /\ totalStockAccrued'[s] \in Nat
        /\ dustPot[s] \in Nat /\ unbooked.stock[s] \in Nat
    BY DEF TypeOK, AccruedTyped, ResidueTyped
  <2> QED BY <2>1, <2>2 DEF StockBooked, StockGap, residue
<1> QED BY <1>1, <1>2, <1>3 DEF BalancesBooked

(* Unchanged accounts have unchanged gaps.                                 *)
LEMMA SameGaps ==
  /\ UNCHANGED idle => UsdgGap' = UsdgGap
  /\ UNCHANGED accrued => \A s \in Stocks : StockGap(s)' = StockGap(s)
BY DEF idle, accrued, UsdgGap, StockGap

LEMMA PlanCallBooked ==
  ASSUME TypeOK, BalancesBooked, NEW p \in Plans, PlanCall(p)
  PROVE  BalancesBooked'
<1>t. TypeOK'
  BY PlanCallTypes
<1>s. Exists(p) => stock[p] \in Stocks /\ boosted[p] \in BOOLEAN
  BY DEF TypeOK, TermsTyped, FlagsTyped, Exists
<1>f. ASSUME NEW g \in Nat PROVE NetOf(g, fees.deposit) \in Nat
  <2>1. fees.deposit \in 0..MaxFeeBps
    BY DEF TypeOK, ConfigTyped, Fees
  <2> QED BY <2>1, FeeBelow
<1>v. ValueOf(boostShares[p]) \in Nat
  BY PoolTypes, ConstantTypes DEF TypeOK, PoolTyped
<1>1. ASSUME NEW u \in Users, NEW s \in Stocks, NEW a \in AmountsPerEpoch,
             NEW to \in Users \cup {None}, NEW g \in Deposits \cup {0},
             NEW z1 \in Zaps \cup {0}, NEW z2 \in Zaps \cup {0},
             NEW lends \in BOOLEAN,
             CreatePlan(u, p, s, a, to, g, z1, z2, lends)
      PROVE  BalancesBooked'
  <2>1. NetOf(g, fees.deposit) \in Nat /\ z1 \in Nat /\ z2 \in Nat
    BY <1>f, ConstantTypes
  <2>2. UsdgGap' = UsdgGap
    BY <1>1, <2>1, CreditCallGap DEF CreatePlan
  <2> QED BY <1>1, <1>t, <2>2, SameGaps, GapsKept DEF CreatePlan
<1>2. ASSUME NEW c \in Nat, Fund(p, c) PROVE BalancesBooked'
  <2>1. UsdgGap' = UsdgGap
    BY <1>2, <1>s, CreditCallGap DEF Fund
  <2> QED BY <1>2, <1>t, <2>1, SameGaps, GapsKept DEF Fund
<1>3. ASSUME \/ \E b \in BOOLEAN : SetPlanPaused(p, b)
             \/ \E a \in AmountsPerEpoch : SetPlanAmount(p, a)
             \/ \E u \in Users : SetPlanRecipient(p, u)
             \/ PrunePlan(p)
      PROVE  BalancesBooked'
  <2>1. UNCHANGED idle /\ UNCHANGED accrued /\ UNCHANGED residue
    BY <1>3 DEF SetPlanPaused, SetPlanAmount, SetPlanRecipient, PrunePlan
  <2> QED BY <1>t, <2>1, SameGaps, GapsKept
<1>4. ASSUME Boost(p) \/ Unboost(p) PROVE BalancesBooked'
  <2>1. usdgIdle[p] \in Nat
    BY DEF TypeOK, IdleTyped
  <2>2. UsdgGap' = UsdgGap
    BY <1>4, <1>v, <2>1, CreditGap DEF Boost, Unboost
  <2>3. UNCHANGED accrued /\ UNCHANGED residue
    BY <1>4 DEF Boost, Unboost
  <2> QED BY <1>t, <2>2, <2>3, SameGaps, GapsKept
<1>5. ASSUME NEW a \in 1..Supply, WithdrawIdle(p, a) PROVE BalancesBooked'
  <2>1. Smaller(a, usdgIdle[p]) \in Nat
    BY ConstantTypes DEF TypeOK, IdleTyped, Smaller
  <2>2. UsdgGap' = UsdgGap
    BY <1>5, <2>1, CreditGap DEF WithdrawIdle
  <2> QED BY <1>5, <1>t, <2>2, SameGaps, GapsKept DEF WithdrawIdle
<1>6. ASSUME NEW a \in 1..Supply, NEW perk \in Perks, Claim(p, a, perk)
      PROVE  BalancesBooked'
  <2>1. a \in Nat /\ stock[p] \in Stocks
    BY <1>6, <1>s, ConstantTypes DEF Claim
  <2>2. \A t \in Stocks : StockGap(t)' = StockGap(t)
    BY <1>6, <2>1, OnlyType, PayStockGap DEF Claim
  <2> QED BY <1>6, <1>t, <2>2, SameGaps, GapsKept DEF Claim
<1>7. ASSUME NEW perk \in Perks, ClosePlan(p, perk) PROVE BalancesBooked'
  <2>1. usdgIdle[p] \in Nat /\ stockAccrued[p] \in Nat /\ stock[p] \in Stocks
    BY <1>7, <1>s DEF TypeOK, IdleTyped, AccruedTyped, ClosePlan
  <2>2. UsdgGap' = UsdgGap
    BY <1>7, <2>1, CreditGap DEF ClosePlan
  <2>3. \A t \in Stocks : StockGap(t)' = StockGap(t)
    BY <1>7, <2>1, OnlyType, PayStockGap DEF ClosePlan
  <2> QED BY <1>7, <1>t, <2>2, <2>3, GapsKept DEF ClosePlan
<1>8. ASSUME NEW g \in Deposits, DepositUSDG(p, g) PROVE BalancesBooked'
  BY <1>8, <1>2, <1>f, ConstantTypes DEF DepositUSDG
<1>9. ASSUME NEW z \in Zaps, DepositWETH(p, z) PROVE BalancesBooked'
  BY <1>9, <1>2, ConstantTypes DEF DepositWETH
<1> QED BY <1>1, <1>3, <1>4, <1>5, <1>6, <1>7, <1>8, <1>9 DEF PlanCall

(* A sweep takes as much from the balance as from the booked dust.         *)
LEMMA SweepBooked ==
  ASSUME TypeOK, NEW booked \in Nat, NEW held \in Nat, NEW min \in Nat,
         Sweep(booked, held, min), UNCHANGED unbooked, WethBooked
  PROVE  usdgBal' - dust'.usdg = held - booked /\ WethBooked'
<1>1. usdgBal' - dust'.usdg = held - booked
  BY DEF Sweep
<1>2. dust.weth \in Nat /\ wethBal \in Nat /\ unbooked.weth \in Nat
  BY DEF TypeOK, ResidueTyped
<1>3. dust'.weth = 0 /\ wethBal' = wethBal - dust.weth
  BY DEF Sweep
<1> QED BY <1>1, <1>2, <1>3 DEF WethBooked

LEMMA SkipPageBooked ==
  ASSUME TypeOK, BalancesBooked, NEW spend, SkipPage(spend), UNCHANGED unbooked
  PROVE  BalancesBooked'
<1>1. /\ dust.usdg \in Nat /\ usdgBal \in Nat /\ knobs.sweepMin \in Nat
      /\ totalUsdgIdle \in Nat /\ unbooked.usdg \in Nat
  BY DEF TypeOK, ResidueTyped, IdleTyped, ConfigTyped, Knobs
<1>2. /\ Sweep(dust.usdg, usdgBal, knobs.sweepMin)
      /\ UNCHANGED <<totalUsdgIdle, stockBal, totalStockAccrued, dustPot>>
  BY DEF SkipPage, accrued
<1>3. usdgBal' - dust'.usdg = usdgBal - dust.usdg /\ WethBooked'
  BY <1>1, <1>2, SweepBooked DEF BalancesBooked
<1>4. usdgBal' \in Nat /\ dust'.usdg \in Nat
  BY <1>1, <1>2, SweepTypes
<1>5. UsdgBooked'
  BY <1>1, <1>2, <1>3, <1>4 DEF BalancesBooked, UsdgBooked
<1>6. \A s \in Stocks : StockBooked(s)'
  BY <1>2 DEF BalancesBooked, StockBooked
<1> QED BY <1>3, <1>5, <1>6 DEF BalancesBooked

LEMMA BuyPageBooked ==
  ASSUME TypeOK, BalancesBooked, NEW s \in Stocks, NEW spend \in [Plans -> Nat],
         NEW perk, NEW bought \in Nat, NEW unspent \in Nat,
         BuyPage(s, spend, perk, bought, unspent), UNCHANGED unbooked
  PROVE  BalancesBooked'
<1> DEFINE fee     == [p \in Plans |-> PurchaseFee(p, perk, spend[p])]
           net     == [p \in Plans |-> spend[p] - fee[p]]
           lent    == FromBoost(spend)
           left    == Smaller(unspent, Total(net))
           back    == ProRata(left, net)
           share   == ProRata(bought + dustPot[s], net)
           kept    == [p \in Plans |-> IF /\ Exists(p) /\ perk[owner[p]].auto
                                         /\ <<s, recipient[p]>> \notin Refused
                                      THEN 0 ELSE share[p]]
           sent    == Total(share) - Total(kept)
           paidOut == Total(net) - left + Total(fee)
           booked  == dust.usdg + left - Total(back)
           held    == usdgBal + Total(lent) - paidOut
<1>a. /\ Total(net) > 0
      /\ Total(spend) - Total(lent) <= totalUsdgIdle
      /\ totalUsdgIdle' =
           totalUsdgIdle - (Total(spend) - Total(lent)) + Total(back)
      /\ totalStockAccrued' = [totalStockAccrued EXCEPT ![s] = @ + Total(kept)]
      /\ stockBal' = [stockBal EXCEPT ![s] = @ + bought - sent]
      /\ dustPot' = [dustPot EXCEPT ![s] = (bought + dustPot[s]) - Total(share)]
      /\ Total(back) <= left
      /\ paidOut <= usdgBal + Total(lent)
      /\ Sweep(booked, held, knobs.sweepMin)
  BY DEF BuyPage
<1>1. /\ fee \in [Plans -> Nat] /\ net \in [Plans -> Nat]
      /\ \A p \in Plans : spend[p] = net[p] + fee[p]
  <2>1. ASSUME NEW p \in Plans PROVE fee[p] \in 0..spend[p]
    BY PurchaseFeeType
  <2> QED BY <2>1
<1>2. lent \in [Plans -> Nat]
  BY FromBoostTypes
<1> HIDE DEF fee, net, lent
<1>3. /\ Total(spend) = Total(net) + Total(fee)
      /\ Total(fee) \in Nat /\ Total(net) \in Nat /\ Total(lent) \in Nat
  BY <1>1, <1>2, ConstantTypes, TotalAdd, TotalNat
<1>4. left \in Nat /\ bought + dustPot[s] \in Nat
  BY <1>3 DEF TypeOK, ResidueTyped, Smaller
<1> HIDE DEF left
<1>5. back \in [Plans -> Nat] /\ share \in [Plans -> Nat]
  BY <1>1, <1>4, <1>a, ProRataType
<1> HIDE DEF back, share
<1>6. kept \in [Plans -> Nat]
  BY <1>5
<1> HIDE DEF kept
<1>7. Total(back) \in Nat /\ Total(share) \in Nat /\ Total(kept) \in Nat
  BY <1>5, <1>6, ConstantTypes, TotalNat
<1>8. /\ dust.usdg \in Nat /\ usdgBal \in Nat /\ totalUsdgIdle \in Nat
      /\ unbooked.usdg \in Nat /\ knobs.sweepMin \in Nat
  BY DEF TypeOK, ResidueTyped, IdleTyped, ConfigTyped, Knobs
<1>9. booked \in Nat /\ held \in Nat
  BY <1>3, <1>4, <1>7, <1>8, <1>a
<1> HIDE DEF booked, held
<1>10. usdgBal' - dust'.usdg = held - booked /\ WethBooked'
  BY <1>8, <1>9, <1>a, SweepBooked DEF BalancesBooked
<1>11. usdgBal' \in Nat /\ dust'.usdg \in Nat
  BY <1>8, <1>9, <1>a, SweepTypes
<1>12. UsdgBooked'
  <2>1. held - booked = usdgBal + Total(lent) - Total(spend) - dust.usdg + Total(back)
    BY <1>3, <1>4, <1>7, <1>8 DEF held, booked
  <2>2. totalUsdgIdle' = totalUsdgIdle - Total(spend) + Total(lent) + Total(back)
    BY <1>3, <1>7, <1>8, <1>a
  <2>3. usdgBal = totalUsdgIdle + dust.usdg + unbooked.usdg
    BY DEF BalancesBooked, UsdgBooked
  <2>4. usdgBal' = totalUsdgIdle' + dust'.usdg + unbooked.usdg
    BY <1>3, <1>7, <1>8, <1>10, <1>11, <2>1, <2>2, <2>3
  <2> QED BY <2>4 DEF UsdgBooked
<1>13. ASSUME NEW t \in Stocks PROVE StockBooked(t)'
  <2>1. /\ stockBal[t] \in Nat /\ totalStockAccrued[t] \in Nat
        /\ dustPot[t] \in Nat /\ unbooked.stock[t] \in Nat
        /\ stockBal[t] = totalStockAccrued[t] + dustPot[t] + unbooked.stock[t]
    BY DEF TypeOK, AccruedTyped, ResidueTyped, BalancesBooked, StockBooked
  <2>2. CASE t = s
    <3>1. /\ stockBal'[s] = stockBal[s] + bought - (Total(share) - Total(kept))
          /\ totalStockAccrued'[s] = totalStockAccrued[s] + Total(kept)
          /\ dustPot'[s] = (bought + dustPot[s]) - Total(share)
      <4>1. stockBal'[s] = stockBal[s] + bought - (Total(share) - Total(kept))
        BY <1>a DEF TypeOK, AccruedTyped
      <4>2. totalStockAccrued'[s] = totalStockAccrued[s] + Total(kept)
        BY <1>a DEF TypeOK, AccruedTyped
      <4>3. dustPot'[s] = (bought + dustPot[s]) - Total(share)
        BY <1>a DEF TypeOK, ResidueTyped
      <4> QED BY <4>1, <4>2, <4>3
    <3>2. stockBal'[s] =
            totalStockAccrued'[s] + dustPot'[s] + unbooked.stock[s]
      BY <1>7, <2>1, <2>2, <3>1
    <3> QED BY <2>2, <3>2 DEF StockBooked
  <2>3. CASE t # s
    BY <1>a, <2>1, <2>3 DEF TypeOK, AccruedTyped, ResidueTyped, StockBooked
  <2> QED BY <2>2, <2>3
<1> QED BY <1>10, <1>12, <1>13 DEF BalancesBooked

LEMMA AdvanceEpochBooked ==
  ASSUME TypeOK, BalancesBooked, NEW s \in Stocks, NEW limit \in Limits,
         NEW privileged \in BOOLEAN, NEW perk \in Perks, NEW bought \in Bought,
         NEW unspent \in Unspent, NEW pays \in BOOLEAN,
         AdvanceEpoch(s, limit, privileged, perk, bought, unspent, pays)
  PROVE  BalancesBooked'
<1>1. PICK spend \in [Plans -> Nat] :
        SkipPage(spend) \/ BuyPage(s, spend, perk, bought, unspent)
  BY PageShape
<1>2. bought \in Nat /\ unspent \in Nat
  BY ConstantTypes
<1>3. UNCHANGED unbooked
  BY DEF AdvanceEpoch
<1> QED BY <1>1, <1>2, <1>3, SkipPageBooked, BuyPageBooked

LEMMA DustCallBooked ==
  ASSUME TypeOK, BalancesBooked,
         SweepDust \/ SkimUsdg \/ SkimWeth \/ \E s \in Stocks : SkimStock(s)
  PROVE  BalancesBooked'
<1>1. /\ dust.usdg \in Nat /\ usdgBal \in Nat /\ totalUsdgIdle \in Nat
      /\ unbooked.usdg \in Nat /\ dust.weth \in Nat /\ wethBal \in Nat
      /\ unbooked.weth \in Nat
  BY DEF TypeOK, ResidueTyped, IdleTyped
<1>2. /\ usdgBal = totalUsdgIdle + dust.usdg + unbooked.usdg
      /\ wethBal = dust.weth + unbooked.weth
      /\ \A s \in Stocks :
           stockBal[s] = totalStockAccrued[s] + dustPot[s] + unbooked.stock[s]
  BY DEF BalancesBooked, UsdgBooked, WethBooked, StockBooked
<1>3. ASSUME SweepDust PROVE BalancesBooked'
  <2>1. /\ Sweep(dust.usdg, usdgBal, 0)
        /\ UNCHANGED <<totalUsdgIdle, stockBal, totalStockAccrued, dustPot,
                       unbooked>>
    BY <1>3 DEF SweepDust, accrued
  <2>2. usdgBal' - dust'.usdg = usdgBal - dust.usdg /\ WethBooked'
    BY <1>1, <2>1, SweepBooked DEF BalancesBooked
  <2>3. usdgBal' \in Nat /\ dust'.usdg \in Nat
    BY <1>1, <2>1, SweepTypes
  <2>4. UsdgBooked'
    <3>1. usdgBal = totalUsdgIdle + dust.usdg + unbooked.usdg
      BY <1>2
    <3>2. totalUsdgIdle' = totalUsdgIdle /\ unbooked' = unbooked
      BY <2>1
    <3>3. usdgBal' = totalUsdgIdle + dust'.usdg + unbooked.usdg
      BY <1>1, <2>2, <2>3, <3>1
    <3> QED BY <3>2, <3>3 DEF UsdgBooked
  <2>5. \A s \in Stocks : StockBooked(s)'
    BY <1>2, <2>1 DEF StockBooked
  <2> QED BY <2>2, <2>4, <2>5 DEF BalancesBooked
<1>4. ASSUME SkimUsdg PROVE BalancesBooked'
  <2>1. /\ dust' = [dust EXCEPT !.usdg = @ + UsdgExcess]
        /\ unbooked' = [unbooked EXCEPT !.usdg = 0]
        /\ UNCHANGED <<usdgBal, totalUsdgIdle, wethBal, stockBal,
                       totalStockAccrued, dustPot>>
    BY <1>4 DEF SkimUsdg, idle, accrued
  <2>2. UsdgExcess = unbooked.usdg
    BY <1>1, <1>2 DEF UsdgExcess
  <2>3. /\ dust'.usdg = dust.usdg + unbooked.usdg /\ unbooked'.usdg = 0
        /\ dust'.weth = dust.weth /\ unbooked'.weth = unbooked.weth
        /\ unbooked'.stock = unbooked.stock
    BY <2>1, <2>2 DEF TypeOK, ResidueTyped
  <2>4. UsdgBooked'
    BY <1>1, <1>2, <2>1, <2>3 DEF UsdgBooked
  <2> QED BY <1>2, <2>1, <2>3, <2>4 DEF BalancesBooked, WethBooked, StockBooked
<1>5. ASSUME SkimWeth PROVE BalancesBooked'
  <2>1. /\ dust' = [dust EXCEPT !.weth = @ + (wethBal - dust.weth)]
        /\ unbooked' = [unbooked EXCEPT !.weth = 0]
        /\ UNCHANGED <<usdgBal, totalUsdgIdle, wethBal, stockBal,
                       totalStockAccrued, dustPot>>
    BY <1>5 DEF SkimWeth, idle, accrued
  <2>2. /\ dust'.weth = dust.weth + (wethBal - dust.weth)
        /\ unbooked'.weth = 0
        /\ dust'.usdg = dust.usdg /\ unbooked'.usdg = unbooked.usdg
        /\ unbooked'.stock = unbooked.stock
    BY <2>1 DEF TypeOK, ResidueTyped
  <2>3. WethBooked'
    BY <1>1, <2>1, <2>2 DEF WethBooked
  <2> QED BY <1>2, <2>1, <2>2, <2>3 DEF BalancesBooked, UsdgBooked, StockBooked
<1>6. ASSUME NEW s \in Stocks, SkimStock(s) PROVE BalancesBooked'
  <2> DEFINE excess == stockBal[s] - totalStockAccrued[s] - dustPot[s]
  <2>1. /\ dustPot' = [dustPot EXCEPT ![s] = @ + excess]
        /\ unbooked' = [unbooked EXCEPT !.stock[s] = 0]
        /\ UNCHANGED <<usdgBal, totalUsdgIdle, wethBal, stockBal,
                       totalStockAccrued, dust>>
    BY <1>6 DEF SkimStock, idle, accrued
  <2> HIDE DEF excess
  <2>2. /\ unbooked'.usdg = unbooked.usdg /\ unbooked'.weth = unbooked.weth
        /\ unbooked'.stock = [unbooked.stock EXCEPT ![s] = 0]
    BY <2>1 DEF TypeOK, ResidueTyped
  <2>3. ASSUME NEW t \in Stocks PROVE StockBooked(t)'
    <3>1. /\ stockBal[t] \in Nat /\ totalStockAccrued[t] \in Nat
          /\ dustPot[t] \in Nat /\ unbooked.stock[t] \in Nat
      BY DEF TypeOK, AccruedTyped, ResidueTyped
    <3>2. CASE t = s
      <4>1. dustPot'[s] = dustPot[s] + excess
        BY <2>1 DEF TypeOK, ResidueTyped
      <4>2. unbooked'.stock[s] = 0
        BY <2>2 DEF TypeOK, ResidueTyped
      <4> QED BY <2>1, <3>1, <3>2, <4>1, <4>2 DEF StockBooked, excess
    <3>3. CASE t # s
      <4>1. dustPot'[t] = dustPot[t] /\ unbooked'.stock[t] = unbooked.stock[t]
        BY <2>1, <2>2, <3>3 DEF TypeOK, ResidueTyped
      <4> QED BY <1>2, <2>1, <4>1 DEF StockBooked
    <3> QED BY <3>2, <3>3
  <2> QED BY <1>2, <2>1, <2>2, <2>3 DEF BalancesBooked, UsdgBooked, WethBooked
<1> QED BY <1>3, <1>4, <1>5, <1>6

LEMMA GiftBooked ==
  ASSUME TypeOK, BalancesBooked, NEW a \in Gifts,
         GiveUsdg(a) \/ GiveWeth(a) \/ \E s \in Stocks : GiveStock(s, a)
  PROVE  BalancesBooked'
<1>1. /\ dust.usdg \in Nat /\ usdgBal \in Nat /\ totalUsdgIdle \in Nat
      /\ unbooked.usdg \in Nat /\ dust.weth \in Nat /\ wethBal \in Nat
      /\ unbooked.weth \in Nat /\ a \in Nat
  BY ConstantTypes DEF TypeOK, ResidueTyped, IdleTyped
<1>2. /\ usdgBal = totalUsdgIdle + dust.usdg + unbooked.usdg
      /\ wethBal = dust.weth + unbooked.weth
      /\ \A s \in Stocks :
           stockBal[s] = totalStockAccrued[s] + dustPot[s] + unbooked.stock[s]
  BY DEF BalancesBooked, UsdgBooked, WethBooked, StockBooked
<1>3. ASSUME GiveUsdg(a) PROVE BalancesBooked'
  <2>1. /\ usdgBal' = usdgBal + a
        /\ unbooked' = [unbooked EXCEPT !.usdg = @ + a]
        /\ UNCHANGED <<totalUsdgIdle, wethBal, stockBal, totalStockAccrued,
                       dustPot, dust>>
    BY <1>3 DEF GiveUsdg, accrued
  <2>2. /\ unbooked'.usdg = unbooked.usdg + a /\ unbooked'.weth = unbooked.weth
        /\ unbooked'.stock = unbooked.stock
    BY <2>1 DEF TypeOK, ResidueTyped
  <2>3. UsdgBooked'
    BY <1>1, <1>2, <2>1, <2>2 DEF UsdgBooked
  <2> QED BY <1>2, <2>1, <2>2, <2>3 DEF BalancesBooked, WethBooked, StockBooked
<1>4. ASSUME GiveWeth(a) PROVE BalancesBooked'
  <2>1. /\ wethBal' = wethBal + a
        /\ unbooked' = [unbooked EXCEPT !.weth = @ + a]
        /\ UNCHANGED <<usdgBal, totalUsdgIdle, stockBal, totalStockAccrued,
                       dustPot, dust>>
    BY <1>4 DEF GiveWeth, idle, accrued
  <2>2. /\ unbooked'.weth = unbooked.weth + a /\ unbooked'.usdg = unbooked.usdg
        /\ unbooked'.stock = unbooked.stock
    BY <2>1 DEF TypeOK, ResidueTyped
  <2>3. WethBooked'
    BY <1>1, <1>2, <2>1, <2>2 DEF WethBooked
  <2> QED BY <1>2, <2>1, <2>2, <2>3 DEF BalancesBooked, UsdgBooked, StockBooked
<1>5. ASSUME NEW s \in Stocks, GiveStock(s, a) PROVE BalancesBooked'
  <2>1. /\ stockBal' = [stockBal EXCEPT ![s] = @ + a]
        /\ unbooked' = [unbooked EXCEPT !.stock[s] = @ + a]
        /\ UNCHANGED <<usdgBal, totalUsdgIdle, wethBal, totalStockAccrued,
                       dustPot, dust>>
    BY <1>5 DEF GiveStock, idle
  <2>2. /\ unbooked'.usdg = unbooked.usdg /\ unbooked'.weth = unbooked.weth
        /\ unbooked'.stock = [unbooked.stock EXCEPT ![s] = @ + a]
    BY <2>1 DEF TypeOK, ResidueTyped
  <2>3. ASSUME NEW t \in Stocks PROVE StockBooked(t)'
    <3>1. /\ stockBal[t] \in Nat /\ totalStockAccrued[t] \in Nat
          /\ dustPot[t] \in Nat /\ unbooked.stock[t] \in Nat
      BY DEF TypeOK, AccruedTyped, ResidueTyped
    <3>2. CASE t = s
      <4>1. stockBal'[s] = stockBal[s] + a
        BY <2>1 DEF TypeOK, AccruedTyped
      <4>2. unbooked'.stock[s] = unbooked.stock[s] + a
        BY <2>2 DEF TypeOK, ResidueTyped
      <4> QED BY <1>1, <1>2, <2>1, <3>1, <3>2, <4>1, <4>2 DEF StockBooked
    <3>3. CASE t # s
      <4>1. stockBal'[t] = stockBal[t]
        BY <2>1, <3>3 DEF TypeOK, AccruedTyped
      <4>2. unbooked'.stock[t] = unbooked.stock[t]
        BY <2>2, <3>3 DEF TypeOK, ResidueTyped
      <4> QED BY <1>2, <2>1, <4>1, <4>2 DEF StockBooked
    <3> QED BY <3>2, <3>3
  <2> QED BY <1>2, <2>1, <2>2, <2>3 DEF BalancesBooked, UsdgBooked, WethBooked
<1> QED BY <1>3, <1>4, <1>5

(* The steps that touch no account.                                        *)
LEMMA AccountsKept ==
  ASSUME TypeOK, BalancesBooked, UNCHANGED <<idle, accrued, residue>>
  PROVE  BalancesBooked'
<1>1. UNCHANGED <<usdgBal, totalUsdgIdle, wethBal, stockBal, totalStockAccrued,
                  dustPot, dust, unbooked>>
  BY DEF idle, accrued, residue
<1> QED BY <1>1 DEF BalancesBooked, UsdgBooked, WethBooked, StockBooked

LEMMA OtherStepsKeepAccounts ==
  ASSUME \/ \E to \in Strategies \cup {None} : SetBoostStrategy(to)
         \/ \E b \in BOOLEAN : SetVaultPaused(b)
         \/ \E f \in FeeChoices : SetFees(f)
         \/ \E to \in Treasuries : SetFeeRecipient(to)
         \/ \E k \in KnobChoices : SetKnobs(k)
         \/ EpochPasses
         \/ \E s \in Stocks, b \in BOOLEAN : SetPurchasable(s, b)
         \/ \E s \in Stocks : MarketTurns(s)
         \/ \E v \in Strategies, a \in Gains : StrategyGains(v, a)
         \/ \E v \in Strategies, a \in Losses : StrategyLoses(v, a)
         \/ UNCHANGED vars
  PROVE  UNCHANGED <<idle, accrued, residue>>
BY DEF SetBoostStrategy, SetVaultPaused, SetFees, SetFeeRecipient, SetKnobs, EpochPasses,
       SetPurchasable, MarketTurns, StrategyGains, StrategyLoses, state, vars

(* Every token the vault holds is booked to plans, to dust, or is an       *)
(* outside transfer that skim will find; no call leaves a balance behind   *)
(* its books or loses one from them.                                       *)
THEOREM BalancesAreBooked == Spec => []BalancesBooked
<1>1. Init => BalancesBooked
  BY DEF Init, BalancesBooked, UsdgBooked, WethBooked, StockBooked
<1>2. TypeOK /\ BalancesBooked /\ [Next]_vars => BalancesBooked'
  <2> SUFFICES ASSUME TypeOK, BalancesBooked, [Next]_vars
               PROVE  BalancesBooked'
    OBVIOUS
  <2>1. ASSUME NEW p \in Plans, PlanCall(p) PROVE BalancesBooked'
    BY <2>1, PlanCallBooked
  <2>2. ASSUME NEW u \in Users, NEW s \in Stocks,
               NEW perk \in Perks, ClaimAll(u, s, perk)
        PROVE  BalancesBooked'
    <3> DEFINE a == [p \in Plans |-> IF owner[p] = u /\ stock[p] = s
                                     THEN stockAccrued[p] ELSE 0]
    <3>1. a \in [Plans -> Nat] /\ PayStock(s, a, perk)
      BY <2>2 DEF ClaimAll, TypeOK, AccruedTyped
    <3> HIDE DEF a
    <3>2. \A t \in Stocks : StockGap(t)' = StockGap(t)
      BY <3>1, PayStockGap
    <3>3. UNCHANGED idle /\ UNCHANGED residue /\ TypeOK'
      BY <2>2, ClaimAllTypes DEF ClaimAll
    <3> QED BY <3>2, <3>3, SameGaps, GapsKept
  <2>3. ASSUME NEW s \in Stocks, KeeperCall(s) PROVE BalancesBooked'
    BY <2>3, AdvanceEpochBooked DEF KeeperCall
  <2>4. ASSUME AdminCall PROVE BalancesBooked'
    BY <2>4, DustCallBooked, OtherStepsKeepAccounts, AccountsKept DEF AdminCall
  <2>5. ASSUME Environment PROVE BalancesBooked'
    BY <2>5, GiftBooked, OtherStepsKeepAccounts, AccountsKept DEF Environment
  <2>6. ASSUME UNCHANGED vars PROVE BalancesBooked'
    BY <2>6, OtherStepsKeepAccounts, AccountsKept
  <2> QED BY <2>1, <2>2, <2>3, <2>4, <2>5, <2>6 DEF Next
<1> QED BY <1>1, <1>2, TypeCorrect, PTL DEF Spec

-----------------------------------------------------------------------------
(* Running totals.                                                         *)

IdleAgrees == totalUsdgIdle = Total(usdgIdle)
SharesAgree == totalShares = Total(boostShares)
StockAgrees ==
  /\ \A s \in Stocks : totalStockAccrued[s] = Total(OfStock(s, stockAccrued))
  /\ \A u \in Users, s \in Stocks :
       userStockAccrued[u][s] = Total(OfUser(u, s, stockAccrued))

LEMMA AgreeParts == TotalsAgree <=> IdleAgrees /\ SharesAgree /\ StockAgrees
BY DEF TotalsAgree, IdleAgrees, SharesAgree, StockAgrees

LEMMA PlansFinite == IsFiniteSet(Plans)
BY VaultAssumption

(* The sum after one plan's amount has changed to a.                       *)
LEMMA TotalPut ==
  ASSUME NEW f \in [Plans -> Nat], NEW p \in Plans, NEW a \in Nat,
         NEW g, g = [f EXCEPT ![p] = a]
  PROVE  Total(g) = (Total(f) - f[p]) + a
BY PlansFinite, TotalExcept, Zenon

(* The sum of amounts added plan by plan.                                  *)
LEMMA TotalPlus ==
  ASSUME NEW f \in [Plans -> Nat], NEW g \in [Plans -> Nat],
         NEW h \in [Plans -> Nat], \A p \in Plans : h[p] = f[p] + g[p]
  PROVE  Total(h) = Total(f) + Total(g)
BY PlansFinite, TotalAdd

(* What flows in and out of amounts flows in and out of their sum.         *)
LEMMA TotalFlow ==
  ASSUME NEW old \in [Plans -> Nat], NEW new \in [Plans -> Nat],
         NEW in \in [Plans -> Nat], NEW out \in [Plans -> Nat],
         \A p \in Plans : new[p] + out[p] = old[p] + in[p]
  PROVE  Total(new) + Total(out) = Total(old) + Total(in)
<1> DEFINE both == [p \in Plans |-> old[p] + in[p]]
<1>1. /\ both \in [Plans -> Nat]
      /\ \A p \in Plans : both[p] = old[p] + in[p]
      /\ \A p \in Plans : both[p] = new[p] + out[p]
  BY SMT
<1> HIDE DEF both
<1>2. Total(both) = Total(old) + Total(in)
  BY <1>1, TotalPlus
<1>3. Total(both) = Total(new) + Total(out)
  BY <1>1, TotalPlus
<1> QED BY <1>2, <1>3

LEMMA IdleCallAgrees ==
  ASSUME TypeOK, IdleAgrees, NEW p \in Plans, NEW a \in Nat,
         CreditIdle(p, a) \/ DebitIdle(p, a)
  PROVE  IdleAgrees'
<1>1. usdgIdle \in [Plans -> Nat] /\ usdgIdle[p] \in Nat /\ Total(usdgIdle) \in Nat
  BY ConstantTypes, TotalNat DEF TypeOK, IdleTyped
<1>2. CASE CreditIdle(p, a)
  <2>1. /\ usdgIdle' = [usdgIdle EXCEPT ![p] = usdgIdle[p] + a]
        /\ totalUsdgIdle' = totalUsdgIdle + a /\ usdgIdle[p] + a \in Nat
    BY <1>1, <1>2 DEF CreditIdle
  <2>2. Total(usdgIdle') = (Total(usdgIdle) - usdgIdle[p]) + (usdgIdle[p] + a)
    BY <1>1, <2>1, TotalPut
  <2> QED BY <1>1, <2>1, <2>2 DEF IdleAgrees
<1>3. CASE DebitIdle(p, a)
  <2>1. /\ usdgIdle' = [usdgIdle EXCEPT ![p] = usdgIdle[p] - a]
        /\ totalUsdgIdle' = totalUsdgIdle - a /\ usdgIdle[p] - a \in Nat
    BY <1>1, <1>3 DEF DebitIdle
  <2>2. Total(usdgIdle') = (Total(usdgIdle) - usdgIdle[p]) + (usdgIdle[p] - a)
    BY <1>1, <2>1, TotalPut
  <2> QED BY <1>1, <2>1, <2>2 DEF IdleAgrees
<1> QED BY <1>2, <1>3

LEMMA PutInPoolAgrees ==
  ASSUME TypeOK, SharesAgree, NEW p \in Plans, NEW a \in Nat, NEW m \in Nat,
         PutInPool(p, a, m)
  PROVE  SharesAgree'
<1>1. /\ boostShares \in [Plans -> Nat] /\ boostShares[p] \in Nat
      /\ Total(boostShares) \in Nat
  BY ConstantTypes, TotalNat DEF TypeOK, PoolTyped
<1>2. /\ boostShares' = [boostShares EXCEPT ![p] = boostShares[p] + m]
      /\ totalShares' = totalShares + m /\ boostShares[p] + m \in Nat
  BY <1>1 DEF PutInPool
<1>3. Total(boostShares') = (Total(boostShares) - boostShares[p]) + (boostShares[p] + m)
  BY <1>1, <1>2, TotalPut
<1> QED BY <1>1, <1>2, <1>3 DEF SharesAgree

LEMMA TakeFromPoolAgrees ==
  ASSUME TypeOK, SharesAgree, NEW p \in Plans, NEW a \in Nat, TakeFromPool(p, a)
  PROVE  SharesAgree'
<1> DEFINE b == Burn(p, a)
<1>1. /\ boostShares \in [Plans -> Nat] /\ boostShares[p] \in Nat
      /\ Total(boostShares) \in Nat
  BY ConstantTypes, TotalNat DEF TypeOK, PoolTyped
<1>2. b \in 0..boostShares[p]
  BY BurnType
<1>3. /\ boostShares' = [boostShares EXCEPT ![p] = boostShares[p] - b]
      /\ totalShares' = totalShares - b
  BY DEF TakeFromPool
<1> HIDE DEF b
<1>4. boostShares[p] - b \in Nat
  BY <1>1, <1>2
<1>5. Total(boostShares') = (Total(boostShares) - boostShares[p]) + (boostShares[p] - b)
  BY <1>1, <1>3, <1>4, TotalPut
<1> QED BY <1>1, <1>2, <1>3, <1>5 DEF SharesAgree

LEMMA LeavePoolAgrees ==
  ASSUME TypeOK, SharesAgree, NEW p \in Plans, LeavePool(p)
  PROVE  SharesAgree'
<1>1. ValueOf(boostShares[p]) \in Nat
  BY PoolTypes, ConstantTypes DEF TypeOK, PoolTyped
<1>2. UNCHANGED pool => SharesAgree'
  BY DEF SharesAgree, pool
<1> QED BY <1>1, <1>2, TakeFromPoolAgrees DEF LeavePool

LEMMA CreditAgrees ==
  ASSUME TypeOK, IdleAgrees, SharesAgree, NEW p \in Plans,
         NEW lends \in BOOLEAN, NEW c1 \in Nat, NEW c2 \in Nat, NEW c3 \in Nat,
         Credit(p, lends, c1, c2, c3)
  PROVE  IdleAgrees' /\ SharesAgree'
<1>1. CASE lends
  <2>1. PICK k \in Nat, m \in Nat : PutInPool(p, k, m)
    BY <1>1, CreditPuts
  <2>2. SharesAgree'
    BY <2>1, PutInPoolAgrees
  <2>3. UNCHANGED idle
    BY <1>1, CreditPuts
  <2> QED BY <2>2, <2>3 DEF IdleAgrees, idle
<1>2. CASE ~lends
  <2>1. CreditIdle(p, c1 + c2 + c3) /\ UNCHANGED pool
    BY <1>2 DEF Credit
  <2>2. IdleAgrees'
    BY <2>1, IdleCallAgrees
  <2> QED BY <2>1, <2>2 DEF SharesAgree, pool
<1> QED BY <1>1, <1>2

(* Amounts that grow by d on plans of stock s grow the sums of s by d, and *)
(* no other.                                                               *)
LEMMA StockSums ==
  ASSUME NEW lo \in [Plans -> Nat], NEW hi \in [Plans -> Nat],
         NEW d \in [Plans -> Nat], NEW s,
         \A p \in Plans : hi[p] = lo[p] + d[p],
         \A p \in Plans : d[p] > 0 => stock[p] = s
  PROVE  /\ Total(OfStock(s, hi)) = Total(OfStock(s, lo)) + Total(d)
         /\ \A t : t # s => OfStock(t, hi) = OfStock(t, lo)
         /\ \A u : Total(OfUser(u, s, hi)) = Total(OfUser(u, s, lo)) + ByOwner(u, d)
         /\ \A u, t : t # s => OfUser(u, t, hi) = OfUser(u, t, lo)
<1>1. \A p \in Plans : hi[p] \in Nat /\ lo[p] \in Nat /\ d[p] \in Nat
  OBVIOUS
<1>2. \A p \in Plans : stock[p] # s => d[p] = 0 /\ hi[p] = lo[p]
  BY <1>1
<1>3. Total(OfStock(s, hi)) = Total(OfStock(s, lo)) + Total(d)
  <2>1. OfStock(s, hi) \in [Plans -> Nat] /\ OfStock(s, lo) \in [Plans -> Nat]
    BY DEF OfStock
  <2>2. \A p \in Plans : OfStock(s, hi)[p] = OfStock(s, lo)[p] + d[p]
    BY <1>1, <1>2 DEF OfStock
  <2> QED BY <2>1, <2>2, TotalPlus
<1>4. ASSUME NEW t, t # s PROVE OfStock(t, hi) = OfStock(t, lo)
  BY <1>2, <1>4 DEF OfStock
<1>5. ASSUME NEW u
      PROVE  Total(OfUser(u, s, hi)) = Total(OfUser(u, s, lo)) + ByOwner(u, d)
  <2> DEFINE part == [p \in Plans |-> IF owner[p] = u THEN d[p] ELSE 0]
  <2>1. /\ OfUser(u, s, hi) \in [Plans -> Nat]
        /\ OfUser(u, s, lo) \in [Plans -> Nat] /\ part \in [Plans -> Nat]
    BY DEF OfUser
  <2>2. \A p \in Plans : OfUser(u, s, hi)[p] = OfUser(u, s, lo)[p] + part[p]
    BY <1>1, <1>2 DEF OfUser
  <2>3. ByOwner(u, d) = Total(part)
    BY DEF ByOwner
  <2> HIDE DEF part
  <2> QED BY <2>1, <2>2, <2>3, TotalPlus
<1>6. ASSUME NEW u, NEW t, t # s PROVE OfUser(u, t, hi) = OfUser(u, t, lo)
  BY <1>2, <1>6 DEF OfUser
<1> QED BY <1>3, <1>4, <1>5, <1>6

(* Stock booked to plans of s, or paid out of them, moves the totals of s  *)
(* along; d is what moves.                                                 *)
LEMMA StockMoves ==
  ASSUME TypeOK, TypeOK', StockAgrees, UNCHANGED <<owner, stock>>,
         NEW s \in Stocks, NEW d \in [Plans -> Nat],
         \A p \in Plans : d[p] > 0 => stock[p] = s,
         \A t \in Stocks \ {s} : /\ totalStockAccrued'[t] = totalStockAccrued[t]
                                 /\ \A u \in Users : userStockAccrued'[u][t]
                                                       = userStockAccrued[u][t],
         \/ /\ \A p \in Plans : stockAccrued'[p] = stockAccrued[p] + d[p]
            /\ totalStockAccrued'[s] = totalStockAccrued[s] + Total(d)
            /\ \A u \in Users : userStockAccrued'[u][s]
                                  = userStockAccrued[u][s] + ByOwner(u, d)
         \/ /\ \A p \in Plans : stockAccrued[p] = stockAccrued'[p] + d[p]
            /\ totalStockAccrued[s] = totalStockAccrued'[s] + Total(d)
            /\ \A u \in Users : userStockAccrued[u][s]
                                  = userStockAccrued'[u][s] + ByOwner(u, d)
  PROVE  StockAgrees'
<1> DEFINE lo == stockAccrued
           hi == stockAccrued'
<1>1. lo \in [Plans -> Nat] /\ hi \in [Plans -> Nat]
  BY DEF TypeOK, AccruedTyped
<1>2. /\ \A t : OfStock(t, stockAccrued)' = OfStock(t, hi)
      /\ \A u, t : OfUser(u, t, stockAccrued)' = OfUser(u, t, hi)
  BY DEF OfStock, OfUser
<1> SUFFICES ASSUME NEW t \in Stocks
             PROVE  /\ totalStockAccrued'[t] = Total(OfStock(t, hi))
                    /\ \A u \in Users :
                         userStockAccrued'[u][t] = Total(OfUser(u, t, hi))
  BY <1>2 DEF StockAgrees
<1>3. /\ totalStockAccrued[t] = Total(OfStock(t, lo))
      /\ \A u \in Users : userStockAccrued[u][t] = Total(OfUser(u, t, lo))
  BY DEF StockAgrees
<1> HIDE DEF lo, hi
<1>4. /\ totalStockAccrued'[t] \in Nat
      /\ \A u \in Users : userStockAccrued'[u][t] \in Nat
  BY DEF TypeOK, AccruedTyped
<1>5. /\ Total(d) \in Nat /\ \A u : ByOwner(u, d) \in Nat
      /\ Total(OfStock(t, hi)) \in Nat /\ \A u : Total(OfUser(u, t, hi)) \in Nat
  <2>1. Total(d) \in Nat /\ \A u : ByOwner(u, d) \in Nat
    BY PlansFinite, TotalNat, ByOwnerType
  <2>2. OfStock(t, hi) \in [Plans -> Nat] /\ \A u : OfUser(u, t, hi) \in [Plans -> Nat]
    BY <1>1 DEF OfStock, OfUser
  <2> QED BY <2>1, <2>2, PlansFinite, TotalNat
<1>6. ASSUME NEW f \in [Plans -> Nat], NEW g \in [Plans -> Nat],
             \A p \in Plans : g[p] = f[p] + d[p]
      PROVE  /\ Total(OfStock(s, g)) = Total(OfStock(s, f)) + Total(d)
             /\ \A r : r # s => OfStock(r, g) = OfStock(r, f)
             /\ \A u : Total(OfUser(u, s, g)) = Total(OfUser(u, s, f)) + ByOwner(u, d)
             /\ \A u, r : r # s => OfUser(u, r, g) = OfUser(u, r, f)
  BY <1>6, StockSums
<1>7. CASE t # s
  <2>1. \/ \A p \in Plans : hi[p] = lo[p] + d[p]
        \/ \A p \in Plans : lo[p] = hi[p] + d[p]
    BY DEF lo, hi
  <2>2. CASE \A p \in Plans : hi[p] = lo[p] + d[p]
    <3>1. OfStock(t, hi) = OfStock(t, lo)
      BY <1>1, <1>7, <1>6, <2>2
    <3>2. \A u : OfUser(u, t, hi) = OfUser(u, t, lo)
      BY <1>1, <1>7, <1>6, <2>2
    <3> QED BY <1>3, <1>7, <3>1, <3>2
  <2>3. CASE \A p \in Plans : lo[p] = hi[p] + d[p]
    <3>1. OfStock(t, hi) = OfStock(t, lo)
      BY <1>1, <1>7, <1>6, <2>3
    <3>2. \A u : OfUser(u, t, hi) = OfUser(u, t, lo)
      BY <1>1, <1>7, <1>6, <2>3
    <3> QED BY <1>3, <1>7, <3>1, <3>2
  <2> QED BY <2>1, <2>2, <2>3
<1>8. CASE t = s
  <2>1. CASE /\ \A p \in Plans : hi[p] = lo[p] + d[p]
             /\ totalStockAccrued'[s] = totalStockAccrued[s] + Total(d)
             /\ \A u \in Users : userStockAccrued'[u][s]
                                   = userStockAccrued[u][s] + ByOwner(u, d)
    <3>1. /\ Total(OfStock(s, hi)) = Total(OfStock(s, lo)) + Total(d)
          /\ \A u : Total(OfUser(u, s, hi)) = Total(OfUser(u, s, lo)) + ByOwner(u, d)
      BY <1>1, <1>6, <2>1
    <3> QED BY <1>3, <1>8, <2>1, <3>1
  <2>2. CASE /\ \A p \in Plans : lo[p] = hi[p] + d[p]
             /\ totalStockAccrued[s] = totalStockAccrued'[s] + Total(d)
             /\ \A u \in Users : userStockAccrued[u][s]
                                   = userStockAccrued'[u][s] + ByOwner(u, d)
    <3>1. /\ Total(OfStock(s, lo)) = Total(OfStock(s, hi)) + Total(d)
          /\ \A u : Total(OfUser(u, s, lo)) = Total(OfUser(u, s, hi)) + ByOwner(u, d)
      BY <1>1, <1>6, <2>2
    <3>2. totalStockAccrued'[s] = Total(OfStock(s, hi))
      BY <1>3, <1>4, <1>5, <1>8, <2>2, <3>1
    <3>3. ASSUME NEW u \in Users
          PROVE  userStockAccrued'[u][s] = Total(OfUser(u, s, hi))
      BY <1>3, <1>4, <1>5, <1>8, <2>2, <3>1
    <3> QED BY <1>8, <3>2, <3>3
  <2> QED BY <2>1, <2>2 DEF lo, hi
<1> QED BY <1>7, <1>8

LEMMA PayStockAgrees ==
  ASSUME TypeOK, TypeOK', StockAgrees, UNCHANGED <<owner, stock>>,
         NEW s \in Stocks, NEW a \in [Plans -> Nat], NEW perk,
         \A p \in Plans : a[p] > 0 => stock[p] = s, PayStock(s, a, perk)
  PROVE  StockAgrees'
<1>1. Total(a) \in Nat /\ \A u : ByOwner(u, a) \in Nat
  BY PlansFinite, TotalNat, ByOwnerType
<1>2. /\ stockAccrued \in [Plans -> Nat]
      /\ totalStockAccrued \in [Stocks -> Nat]
      /\ userStockAccrued \in [Users -> [Stocks -> Nat]]
  BY DEF TypeOK, AccruedTyped
<1>3. \A p \in Plans : stockAccrued[p] = stockAccrued'[p] + a[p]
  BY <1>2 DEF PayStock
<1>4. /\ \A t \in Stocks \ {s} : totalStockAccrued'[t] = totalStockAccrued[t]
      /\ totalStockAccrued[s] = totalStockAccrued'[s] + Total(a)
  BY <1>1, <1>2 DEF PayStock
<1>5. ASSUME NEW u \in Users
      PROVE  /\ \A t \in Stocks \ {s} :
                  userStockAccrued'[u][t] = userStockAccrued[u][t]
             /\ userStockAccrued[u][s] = userStockAccrued'[u][s] + ByOwner(u, a)
  <2>1. userStockAccrued'[u] = [userStockAccrued[u] EXCEPT ![s] = @ - ByOwner(u, a)]
    BY DEF PayStock
  <2> QED BY <1>1, <1>2, <2>1
<1> QED BY <1>3, <1>4, <1>5, StockMoves

LEMMA Unmoved ==
  /\ UNCHANGED idle /\ IdleAgrees => IdleAgrees'
  /\ UNCHANGED pool /\ SharesAgree => SharesAgree'
  /\ UNCHANGED <<owner, stock>> /\ UNCHANGED accrued /\ StockAgrees => StockAgrees'
<1>1. UNCHANGED idle /\ IdleAgrees => IdleAgrees'
  BY DEF idle, IdleAgrees
<1>2. UNCHANGED pool /\ SharesAgree => SharesAgree'
  BY DEF pool, SharesAgree
<1>3. UNCHANGED <<owner, stock>> /\ UNCHANGED accrued /\ StockAgrees => StockAgrees'
  BY DEF accrued, StockAgrees, OfStock, OfUser
<1> QED BY <1>1, <1>2, <1>3

(* A new plan has accrued nothing, since it was not listed before.         *)
LEMMA CreatePlanAgrees ==
  ASSUME TypeOK, Lists, IdleAgrees, SharesAgree, StockAgrees,
         NEW p \in Plans, NEW u \in Users, NEW s \in Stocks,
         NEW a, NEW to, NEW g \in Nat, NEW z1 \in Nat, NEW z2 \in Nat,
         NEW lends \in BOOLEAN, NetOf(g, fees.deposit) \in Nat,
         CreatePlan(u, p, s, a, to, g, z1, z2, lends)
  PROVE  IdleAgrees' /\ SharesAgree' /\ StockAgrees'
<1>1. IdleAgrees' /\ SharesAgree'
  BY CreditAgrees DEF CreatePlan
<1>2. stockPlanIndex[p] = 0 /\ stockAccrued[p] \in Nat
  BY DEF CreatePlan, Lists, IndexConsistent, Exists, TypeOK, AccruedTyped
<1>3. stockAccrued[p] = 0
  BY <1>2 DEF Lists, FundedPlansListed
<1>4. /\ \A q \in Plans \ {p} : owner'[q] = owner[q] /\ stock'[q] = stock[q]
      /\ UNCHANGED <<stockAccrued, totalStockAccrued, userStockAccrued>>
  BY DEF CreatePlan, TypeOK, TermsTyped, accrued
<1>5. ASSUME NEW t PROVE OfStock(t, stockAccrued)' = OfStock(t, stockAccrued)
  BY <1>3, <1>4 DEF OfStock
<1>6. ASSUME NEW v, NEW t
      PROVE  OfUser(v, t, stockAccrued)' = OfUser(v, t, stockAccrued)
  BY <1>3, <1>4 DEF OfUser
<1>7. StockAgrees'
  BY <1>4, <1>5, <1>6 DEF StockAgrees
<1> QED BY <1>1, <1>7

LEMMA PlanCallAgrees ==
  ASSUME TypeOK, Lists, IdleAgrees, SharesAgree, StockAgrees,
         NEW p \in Plans, PlanCall(p)
  PROVE  IdleAgrees' /\ SharesAgree' /\ StockAgrees'
<1>t. TypeOK'
  BY PlanCallTypes
<1>s. Exists(p) => stock[p] \in Stocks /\ boosted[p] \in BOOLEAN
  BY DEF TypeOK, TermsTyped, FlagsTyped, Exists
<1>f. ASSUME NEW g \in Nat PROVE NetOf(g, fees.deposit) \in Nat
  <2>1. fees.deposit \in 0..MaxFeeBps
    BY DEF TypeOK, ConfigTyped, Fees
  <2> QED BY <2>1, FeeBelow
<1>v. ValueOf(boostShares[p]) \in Nat /\ usdgIdle[p] \in Nat
  BY PoolTypes, ConstantTypes DEF TypeOK, PoolTyped, IdleTyped
<1>1. ASSUME NEW u \in Users, NEW s \in Stocks, NEW a \in AmountsPerEpoch,
             NEW to \in Users \cup {None}, NEW g \in Deposits \cup {0},
             NEW z1 \in Zaps \cup {0}, NEW z2 \in Zaps \cup {0},
             NEW lends \in BOOLEAN,
             CreatePlan(u, p, s, a, to, g, z1, z2, lends)
      PROVE  IdleAgrees' /\ SharesAgree' /\ StockAgrees'
  <2>1. g \in Nat /\ z1 \in Nat /\ z2 \in Nat
    BY ConstantTypes
  <2> QED BY <1>1, <1>f, <2>1, CreatePlanAgrees
<1>2. ASSUME NEW c \in Nat, Fund(p, c)
      PROVE  IdleAgrees' /\ SharesAgree' /\ StockAgrees'
  <2>1. IdleAgrees' /\ SharesAgree'
    BY <1>2, <1>s, CreditAgrees DEF Fund
  <2>2. UNCHANGED <<owner, stock>> /\ UNCHANGED accrued
    BY <1>2 DEF Fund, terms
  <2> QED BY <2>1, <2>2, Unmoved
<1>3. ASSUME \/ \E b \in BOOLEAN : SetPlanPaused(p, b)
             \/ \E a \in AmountsPerEpoch : SetPlanAmount(p, a)
             \/ \E u \in Users : SetPlanRecipient(p, u)
             \/ PrunePlan(p)
      PROVE  IdleAgrees' /\ SharesAgree' /\ StockAgrees'
  <2>1. /\ UNCHANGED idle /\ UNCHANGED accrued /\ UNCHANGED pool
        /\ UNCHANGED <<owner, stock>>
    BY <1>3 DEF SetPlanPaused, SetPlanAmount, SetPlanRecipient, PrunePlan, terms
  <2> QED BY <2>1, Unmoved
<1>4. ASSUME Boost(p) PROVE IdleAgrees' /\ SharesAgree' /\ StockAgrees'
  <2> DEFINE m == Mint(usdgIdle[p], PoolAssets, totalShares)
  <2>1. m \in Nat
    BY <1>v, PoolTypes, MintType DEF TypeOK, PoolTyped
  <2>2. PICK k \in Credits(usdgIdle[p]) : PutInPool(p, k, m)
    BY <1>4 DEF Boost
  <2>4. k \in Nat /\ DebitIdle(p, usdgIdle[p])
    BY <1>v, <1>4, CreditsType DEF Boost
  <2> HIDE DEF m
  <2>3. UNCHANGED <<owner, stock>> /\ UNCHANGED accrued
    BY <1>4 DEF Boost, terms
  <2> QED BY <1>v, <2>1, <2>2, <2>3, <2>4, IdleCallAgrees, PutInPoolAgrees,
             Unmoved
<1>5. ASSUME Unboost(p) PROVE IdleAgrees' /\ SharesAgree' /\ StockAgrees'
  <2>1. /\ LeavePool(p) /\ CreditIdle(p, ValueOf(boostShares[p]))
        /\ UNCHANGED <<owner, stock>> /\ UNCHANGED accrued
    BY <1>5 DEF Unboost, terms
  <2> QED BY <1>v, <2>1, IdleCallAgrees, LeavePoolAgrees, Unmoved
<1>6. ASSUME NEW a \in 1..Supply, WithdrawIdle(p, a)
      PROVE  IdleAgrees' /\ SharesAgree' /\ StockAgrees'
  <2> DEFINE first == Smaller(a, usdgIdle[p])
  <2>1. a \in Nat /\ first \in Nat /\ first <= a
    BY <1>v, ConstantTypes DEF Smaller
  <2>2. /\ DebitIdle(p, first)
        /\ IF a > first THEN TakeFromPool(p, a - first) ELSE UNCHANGED pool
        /\ UNCHANGED <<owner, stock>> /\ UNCHANGED accrued
    BY <1>6 DEF WithdrawIdle, terms
  <2> HIDE DEF first
  <2>3. a - first \in Nat
    BY <2>1
  <2> QED BY <2>1, <2>2, <2>3, IdleCallAgrees, TakeFromPoolAgrees, Unmoved
<1>7. ASSUME NEW a \in Nat, NEW perk, stock[p] \in Stocks,
             PayStock(stock[p], Only(p, a), perk), UNCHANGED <<owner, stock>>
      PROVE  StockAgrees'
  <2>1. /\ Only(p, a) \in [Plans -> Nat]
        /\ \A q \in Plans : Only(p, a)[q] > 0 => stock[q] = stock[p]
    BY <1>7 DEF Only
  <2> QED BY <1>7, <1>t, <2>1, PayStockAgrees
<1>8. ASSUME NEW a \in 1..Supply, NEW perk \in Perks, Claim(p, a, perk)
      PROVE  IdleAgrees' /\ SharesAgree' /\ StockAgrees'
  <2>1. /\ a \in Nat /\ stock[p] \in Stocks
        /\ PayStock(stock[p], Only(p, a), perk)
        /\ UNCHANGED <<owner, stock>> /\ UNCHANGED idle /\ UNCHANGED pool
    BY <1>8, <1>s, ConstantTypes DEF Claim, terms
  <2> QED BY <1>7, <2>1, Unmoved
<1>9. ASSUME NEW perk \in Perks, ClosePlan(p, perk)
      PROVE  IdleAgrees' /\ SharesAgree' /\ StockAgrees'
  <2>1. /\ stockAccrued[p] \in Nat /\ stock[p] \in Stocks
        /\ PayStock(stock[p], Only(p, stockAccrued[p]), perk)
        /\ UNCHANGED <<owner, stock>>
        /\ LeavePool(p) /\ DebitIdle(p, usdgIdle[p])
    BY <1>9, <1>s DEF ClosePlan, terms, TypeOK, AccruedTyped
  <2> QED BY <1>7, <1>v, <2>1, IdleCallAgrees, LeavePoolAgrees
<1>10. ASSUME NEW g \in Deposits, DepositUSDG(p, g)
       PROVE  IdleAgrees' /\ SharesAgree' /\ StockAgrees'
  BY <1>10, <1>2, <1>f, ConstantTypes DEF DepositUSDG
<1>11. ASSUME NEW z \in Zaps, DepositWETH(p, z)
       PROVE  IdleAgrees' /\ SharesAgree' /\ StockAgrees'
  BY <1>11, <1>2, ConstantTypes DEF DepositWETH
<1> QED BY <1>1, <1>3, <1>4, <1>5, <1>6, <1>8, <1>9, <1>10, <1>11 DEF PlanCall

LEMMA BuyPageAgrees ==
  ASSUME TypeOK, TypeOK', IdleAgrees, SharesAgree, StockAgrees,
         UNCHANGED <<owner, stock>>,
         NEW s \in Stocks, NEW spend \in [Plans -> Nat],
         \A p \in Plans : spend[p] > 0 => stock[p] = s,
         \A p \in Plans : Charged(p, spend),
         NEW perk, NEW bought \in Nat, NEW unspent \in Nat,
         BuyPage(s, spend, perk, bought, unspent)
  PROVE  IdleAgrees' /\ SharesAgree' /\ StockAgrees'
<1> DEFINE fee     == [p \in Plans |-> PurchaseFee(p, perk, spend[p])]
           net     == [p \in Plans |-> spend[p] - fee[p]]
           lent    == FromBoost(spend)
           burned  == [p \in Plans |-> IF lent[p] > 0 THEN Burn(p, lent[p]) ELSE 0]
           left    == Smaller(unspent, Total(net))
           back    == ProRata(left, net)
           share   == ProRata(bought + dustPot[s], net)
           kept    == [p \in Plans |-> IF /\ Exists(p) /\ perk[owner[p]].auto
                                         /\ <<s, recipient[p]>> \notin Refused
                                      THEN 0 ELSE share[p]]
<1>a. /\ Total(net) > 0
      /\ usdgIdle' = [p \in Plans |->
                        usdgIdle[p] - (spend[p] - lent[p]) + back[p]]
      /\ totalUsdgIdle' =
           totalUsdgIdle - (Total(spend) - Total(lent)) + Total(back)
      /\ boostShares' = [p \in Plans |-> boostShares[p] - burned[p]]
      /\ totalShares' = totalShares - Total(burned)
  BY DEF BuyPage
<1>b. /\ stockAccrued' = [p \in Plans |-> stockAccrued[p] + kept[p]]
      /\ totalStockAccrued' = [totalStockAccrued EXCEPT ![s] = @ + Total(kept)]
      /\ userStockAccrued' = [u \in Users |->
           [userStockAccrued[u] EXCEPT ![s] = @ + ByOwner(u, kept)]]
  BY DEF BuyPage
<1>1. net \in [Plans -> Nat]
  <2>1. ASSUME NEW p \in Plans PROVE fee[p] \in 0..spend[p]
    BY PurchaseFeeType
  <2> QED BY <2>1
<1>2. /\ lent \in [Plans -> Nat]
      /\ \A p \in Plans : lent[p] <= spend[p] /\ spend[p] - lent[p] <= usdgIdle[p]
  BY FromBoostTypes
<1>3. /\ burned \in [Plans -> Nat]
      /\ \A p \in Plans : burned[p] <= boostShares[p]
  <2>1. ASSUME NEW p \in Plans PROVE burned[p] \in 0..boostShares[p]
    <3>1. lent[p] \in Nat /\ boostShares[p] \in Nat
      BY <1>2, ConstantTypes DEF TypeOK, PoolTyped
    <3>2. Burn(p, lent[p]) \in 0..boostShares[p]
      BY <3>1, BurnType
    <3> QED BY <3>1, <3>2
  <2> QED BY <2>1, ConstantTypes DEF TypeOK, PoolTyped
<1> HIDE DEF fee, net, lent, burned
<1>4. left \in Nat /\ bought + dustPot[s] \in Nat
  BY <1>1, PlansFinite, TotalNat DEF TypeOK, ResidueTyped, Smaller
<1> HIDE DEF left
<1>5. back \in [Plans -> Nat] /\ share \in [Plans -> Nat]
  BY <1>1, <1>4, <1>a, ProRataType
<1> HIDE DEF back, share
<1>6. kept \in [Plans -> Nat]
  BY <1>5
<1> HIDE DEF kept
<1>7. /\ usdgIdle \in [Plans -> Nat] /\ usdgIdle' \in [Plans -> Nat]
      /\ boostShares \in [Plans -> Nat] /\ boostShares' \in [Plans -> Nat]
      /\ stockAccrued \in [Plans -> Nat]
      /\ totalStockAccrued \in [Stocks -> Nat]
      /\ userStockAccrued \in [Users -> [Stocks -> Nat]]
  BY ConstantTypes DEF TypeOK, IdleTyped, PoolTyped, AccruedTyped
<1>8. /\ Total(spend) \in Nat /\ Total(lent) \in Nat /\ Total(back) \in Nat
      /\ Total(burned) \in Nat /\ Total(kept) \in Nat
      /\ Total(usdgIdle) \in Nat /\ Total(usdgIdle') \in Nat
      /\ Total(boostShares') \in Nat
      /\ \A u : ByOwner(u, kept) \in Nat
  BY <1>2, <1>3, <1>5, <1>6, <1>7, PlansFinite, TotalNat, ByOwnerType
<1>9. IdleAgrees'
  <2> DEFINE in == [p \in Plans |-> lent[p] + back[p]]
  <2>1. /\ in \in [Plans -> Nat]
        /\ \A p \in Plans : in[p] = lent[p] + back[p]
    BY <1>2, <1>5
  <2> HIDE DEF in
  <2>2. Total(in) = Total(lent) + Total(back)
    BY <1>2, <1>5, <2>1, TotalPlus
  <2>3. \A p \in Plans : usdgIdle'[p] + spend[p] = usdgIdle[p] + in[p]
    BY <1>2, <1>5, <1>7, <1>a, <2>1
  <2>4. Total(usdgIdle') + Total(spend) = Total(usdgIdle) + Total(in)
    <3>1. usdgIdle \in [Plans -> Nat] /\ usdgIdle' \in [Plans -> Nat]
      BY <1>7
    <3> QED BY <2>1, <2>3, <3>1, TotalFlow
  <2> QED BY <1>8, <1>a, <2>2, <2>4 DEF IdleAgrees
<1>10. SharesAgree'
  <2>1. \A p \in Plans : boostShares[p] = boostShares'[p] + burned[p]
    BY <1>3, <1>7, <1>a
  <2>2. Total(boostShares) = Total(boostShares') + Total(burned)
    BY <1>3, <1>7, <2>1, TotalPlus
  <2> QED BY <1>8, <1>a, <2>2 DEF SharesAgree
<1>11. StockAgrees'
  <2>1. \A p \in Plans : stockAccrued'[p] = stockAccrued[p] + kept[p]
    BY <1>b
  <2>2. ASSUME NEW p \in Plans, kept[p] > 0 PROVE stock[p] = s
    <3>1. stockAccrued'[p] # stockAccrued[p]
      BY <1>6, <1>7, <2>1, <2>2
    <3>2. spend[p] # 0
      BY <3>1 DEF Charged
    <3> QED BY <3>2
  <2>3. /\ \A t \in Stocks \ {s} : totalStockAccrued'[t] = totalStockAccrued[t]
        /\ totalStockAccrued'[s] = totalStockAccrued[s] + Total(kept)
    BY <1>7, <1>b
  <2>4. ASSUME NEW u \in Users
        PROVE  /\ \A t \in Stocks \ {s} :
                    userStockAccrued'[u][t] = userStockAccrued[u][t]
               /\ userStockAccrued'[u][s] = userStockAccrued[u][s] + ByOwner(u, kept)
    <3>1. userStockAccrued'[u]
            = [userStockAccrued[u] EXCEPT ![s] = @ + ByOwner(u, kept)]
      BY <1>b
    <3> QED BY <1>7, <3>1
  <2> QED BY <1>6, <2>1, <2>2, <2>3, <2>4, StockMoves
<1> QED BY <1>9, <1>10, <1>11

LEMMA AdvanceEpochAgrees ==
  ASSUME TypeOK, Lists, IdleAgrees, SharesAgree, StockAgrees,
         NEW s \in Stocks, NEW limit \in Limits,
         NEW privileged \in BOOLEAN, NEW perk \in Perks, NEW bought \in Bought,
         NEW unspent \in Unspent, NEW pays \in BOOLEAN,
         AdvanceEpoch(s, limit, privileged, perk, bought, unspent, pays)
  PROVE  IdleAgrees' /\ SharesAgree' /\ StockAgrees'
<1>1. PICK end \in Nat, spend \in [Plans -> Nat] :
        /\ PageTo(s, end, spend)
        /\ SkipPage(spend) \/ BuyPage(s, spend, perk, bought, unspent)
  BY PageShape
<1>2. TypeOK' /\ UNCHANGED <<owner, stock>> /\ bought \in Nat /\ unspent \in Nat
  BY AdvanceEpochTypes, ConstantTypes DEF AdvanceEpoch, terms
<1>3. ASSUME NEW p \in Plans, spend[p] > 0 PROVE stock[p] = s
  <2>1. PICK i \in (nextPlanIndex[s][epoch] + 1)..end : p = stockPlans[s][i]
    BY <1>1, <1>3 DEF PageTo, Page
  <2>2. /\ nextPlanIndex[s][epoch] \in Nat /\ Len(stockPlans[s]) \in Nat
        /\ end <= Len(stockPlans[s])
    <3>1. nextPlanIndex[s][epoch] \in Nat
      BY DEF TypeOK, ChainTyped, CursorTyped
    <3>2. Len(stockPlans[s]) \in Nat
      BY DEF TypeOK, IndexTyped
    <3> QED BY <1>1, <3>1, <3>2 DEF PageTo
  <2>3. i \in 1..Len(stockPlans[s])
    BY <2>2
  <2> QED BY <2>1, <2>3 DEF Lists, IndexConsistent
<1>4. CASE SkipPage(spend)
  <2>1. /\ usdgIdle' = usdgIdle /\ totalUsdgIdle' = totalUsdgIdle
        /\ UNCHANGED accrued /\ UNCHANGED pool
    BY <1>4 DEF SkipPage
  <2> QED BY <1>2, <2>1, Unmoved DEF IdleAgrees
<1>5. CASE BuyPage(s, spend, perk, bought, unspent)
  <2>1. \A p \in Plans : Charged(p, spend)
    BY <1>1 DEF PageTo
  <2> QED BY <1>2, <1>3, <1>5, <2>1, BuyPageAgrees
<1> QED BY <1>1, <1>4, <1>5

LEMMA OtherStepsAgree ==
  ASSUME TypeOK, IdleAgrees, SharesAgree, StockAgrees,
         AdminCall \/ Environment \/ UNCHANGED vars
  PROVE  IdleAgrees' /\ SharesAgree' /\ StockAgrees'
<1>1. /\ UNCHANGED <<usdgIdle, totalUsdgIdle, boostShares, totalShares>>
      /\ UNCHANGED <<owner, stock, stockAccrued, totalStockAccrued,
                     userStockAccrued>>
  <2>1. CASE AdminCall
    <3>1. CASE \/ SweepDust \/ SkimUsdg \/ SkimWeth
               \/ \E s \in Stocks : SkimStock(s)
      BY <3>1 DEF SweepDust, SkimUsdg, SkimWeth, SkimStock, terms, idle,
                  accrued, pool
    <3>2. CASE \/ \E to \in Strategies \cup {None} : SetBoostStrategy(to)
               \/ \E b \in BOOLEAN : SetVaultPaused(b)
               \/ \E f \in FeeChoices : SetFees(f)
               \/ \E to \in Treasuries : SetFeeRecipient(to)
               \/ \E k \in KnobChoices : SetKnobs(k)
      BY <3>2 DEF SetBoostStrategy, SetVaultPaused, SetFees, SetFeeRecipient, SetKnobs, state,
                  terms, idle, accrued, pool
    <3> QED BY <2>1, <3>1, <3>2 DEF AdminCall
  <2>2. CASE Environment
    <3>1. CASE \/ EpochPasses
               \/ \E s \in Stocks, b \in BOOLEAN : SetPurchasable(s, b)
               \/ \E s \in Stocks : MarketTurns(s)
               \/ \E v \in Strategies, a \in Gains : StrategyGains(v, a)
               \/ \E v \in Strategies, a \in Losses : StrategyLoses(v, a)
      BY <3>1 DEF EpochPasses, SetPurchasable, MarketTurns, StrategyGains,
                  StrategyLoses, state, terms, idle, accrued, pool
    <3>2. CASE \/ \E a \in Gifts : GiveUsdg(a) \/ GiveWeth(a)
               \/ \E s \in Stocks, a \in Gifts : GiveStock(s, a)
      BY <3>2 DEF GiveUsdg, GiveWeth, GiveStock, terms, idle, accrued, pool
    <3> QED BY <2>2, <3>1, <3>2 DEF Environment
  <2>3. CASE UNCHANGED vars
    BY <2>3 DEF vars, terms, idle, accrued, pool
  <2> QED BY <2>1, <2>2, <2>3
<1> QED BY <1>1 DEF IdleAgrees, SharesAgree, StockAgrees, OfStock, OfUser

(* Every running total is the sum over the plans it stands for: the vault's*)
(* idle USDG and shares, a stock's and a user's accrued stock.  With       *)
(* BalancesAreBooked this covers every plan's balance by what the vault    *)
(* holds.                                                                  *)
THEOREM TotalsAlwaysAgree == Spec => []TotalsAgree
<1>1. Init => TotalsAgree
  <2> SUFFICES ASSUME Init PROVE TotalsAgree
    OBVIOUS
  <2>1. ASSUME NEW f \in [Plans -> Nat], \A p \in Plans : f[p] = 0
        PROVE  Total(f) = 0
    BY <2>1, PlansFinite, TotalZero
  <2>2. IdleAgrees /\ SharesAgree
    BY <2>1 DEF Init, IdleAgrees, SharesAgree
  <2>3. /\ \A s : /\ OfStock(s, stockAccrued) \in [Plans -> Nat]
                  /\ \A p \in Plans : OfStock(s, stockAccrued)[p] = 0
        /\ \A u, s : /\ OfUser(u, s, stockAccrued) \in [Plans -> Nat]
                     /\ \A p \in Plans : OfUser(u, s, stockAccrued)[p] = 0
    BY DEF Init, OfStock, OfUser
  <2>4. StockAgrees
    BY <2>1, <2>3 DEF Init, StockAgrees
  <2> QED BY <2>2, <2>4, AgreeParts
<1>2. ListInv /\ TotalsAgree /\ [Next]_vars => TotalsAgree'
  <2> SUFFICES ASSUME TypeOK, Lists, IdleAgrees, SharesAgree, StockAgrees,
                      [Next]_vars
               PROVE  IdleAgrees' /\ SharesAgree' /\ StockAgrees'
    BY AgreeParts DEF ListInv, TotalsAgree, IdleAgrees, SharesAgree, StockAgrees
  <2>1. ASSUME NEW u \in Users, NEW s \in Stocks,
               NEW perk \in Perks, ClaimAll(u, s, perk)
        PROVE  IdleAgrees' /\ SharesAgree' /\ StockAgrees'
    <3> DEFINE a == [p \in Plans |-> IF owner[p] = u /\ stock[p] = s
                                     THEN stockAccrued[p] ELSE 0]
    <3>1. /\ a \in [Plans -> Nat]
          /\ \A p \in Plans : a[p] > 0 => stock[p] = s
      BY DEF TypeOK, AccruedTyped
    <3>2. /\ PayStock(s, a, perk) /\ UNCHANGED idle /\ UNCHANGED pool
          /\ UNCHANGED <<owner, stock>> /\ TypeOK'
      BY <2>1, ClaimAllTypes DEF ClaimAll, terms
    <3> HIDE DEF a
    <3> QED BY <3>1, <3>2, PayStockAgrees, Unmoved
  <2>2. ASSUME NEW s \in Stocks, KeeperCall(s)
        PROVE  IdleAgrees' /\ SharesAgree' /\ StockAgrees'
    BY <2>2, AdvanceEpochAgrees DEF KeeperCall
  <2> QED BY <2>1, <2>2, PlanCallAgrees, OtherStepsAgree DEF Next
<1> QED BY <1>1, <1>2, ListsInvariant, PTL DEF Spec, ListInv

-----------------------------------------------------------------------------
(* Dust.                                                                   *)

LEMMA SweptDust ==
  ASSUME NEW booked \in Nat, NEW held, NEW min \in Nat, Sweep(booked, held, min)
  PROVE  (dust'.usdg = 0 \/ dust'.usdg < min) /\ dust'.weth = 0
<1>1. dust' = [usdg |-> booked - (IF Swept(booked, min) THEN booked ELSE 0),
               weth |-> 0]
  BY DEF Sweep
<1>2. CASE Swept(booked, min)
  BY <1>1, <1>2
<1>3. CASE ~Swept(booked, min)
  <2>1. booked = 0 \/ booked < min
    BY <1>3 DEF Swept
  <2> QED BY <1>1, <1>3, <2>1
<1> QED BY <1>2, <1>3

LEMMA BuyPageDust ==
  ASSUME TypeOK, NEW s \in Stocks, NEW spend \in [Plans -> Nat], NEW perk,
         NEW bought \in Nat, NEW unspent \in Nat,
         BuyPage(s, spend, perk, bought, unspent)
  PROVE  (dust'.usdg = 0 \/ dust'.usdg < knobs.sweepMin) /\ dust'.weth = 0
<1> DEFINE fee  == [q \in Plans |-> PurchaseFee(q, perk, spend[q])]
           net  == [q \in Plans |-> spend[q] - fee[q]]
           left == Smaller(unspent, Total(net))
           back == ProRata(left, net)
<1>1. /\ Total(net) > 0 /\ Total(back) <= left
      /\ \E held : Sweep(dust.usdg + left - Total(back), held, knobs.sweepMin)
  BY DEF BuyPage
<1>2. net \in [Plans -> Nat]
  <2>1. ASSUME NEW q \in Plans PROVE fee[q] \in 0..spend[q]
    BY PurchaseFeeType
  <2> QED BY <2>1
<1> HIDE DEF net
<1>3. Total(net) \in Nat \ {0}
  BY <1>1, <1>2, ConstantTypes, TotalNat
<1>4. left \in Nat
  BY <1>3 DEF Smaller
<1> HIDE DEF left
<1>5. back \in [Plans -> Nat]
  BY <1>1, <1>2, <1>4, ProRataType
<1> HIDE DEF back
<1>6. Total(back) \in Nat
  BY <1>5, ConstantTypes, TotalNat
<1>7. dust.usdg \in Nat /\ knobs.sweepMin \in Nat
  BY DEF TypeOK, ResidueTyped, ConfigTyped, Knobs
<1>8. dust.usdg + left - Total(back) \in Nat
  BY <1>1, <1>4, <1>6, <1>7
<1> QED BY <1>1, <1>7, <1>8, SweptDust

(* No page leaves sweepable USDG dust or any WETH dust behind, skimmed     *)
(* dust included (_distribute, _sweepDust).                                *)
THEOREM DustAlwaysLeaves == Spec => DustLeavesWithPages
<1>1. ASSUME ListInv, [Next]_vars, nextPlanIndex' # nextPlanIndex
      PROVE  (dust'.usdg = 0 \/ dust'.usdg < knobs.sweepMin) /\ dust'.weth = 0
  <2>1. PICK s \in Stocks, bought \in Bought, unspent \in Unspent,
             perk \in Perks, spend \in [Plans -> Nat] :
          SkipPage(spend) \/ BuyPage(s, spend, perk, bought, unspent)
    <3>1. PICK s \in Stocks : KeeperCall(s)
      BY <1>1, OnlyPagesMoveCursor DEF cursor
    <3> QED BY <1>1, <3>1, PageShape DEF KeeperCall, ListInv
  <2>2. bought \in Nat /\ unspent \in Nat
    BY ConstantTypes
  <2>3. CASE SkipPage(spend)
    <3>1. dust.usdg \in Nat /\ knobs.sweepMin \in Nat
      BY <1>1 DEF ListInv, TypeOK, ResidueTyped, ConfigTyped, Knobs
    <3> QED BY <2>3, <3>1, SweptDust DEF SkipPage
  <2>4. CASE BuyPage(s, spend, perk, bought, unspent)
    BY <1>1, <2>2, <2>4, BuyPageDust DEF ListInv
  <2> QED BY <2>1, <2>3, <2>4
<1>2. ListInv /\ [Next]_vars =>
        [nextPlanIndex' # nextPlanIndex =>
           /\ dust'.usdg = 0 \/ dust'.usdg < knobs.sweepMin
           /\ dust'.weth = 0]_vars
  BY <1>1
<1> QED BY <1>2, ListsInvariant, PTL DEF Spec, DustLeavesWithPages

(* Dividing pot in proportion to net leaves a rest below one unit per plan *)
(* that has a part.                                                        *)
LEMMA ProRataRest ==
  ASSUME NEW pot \in Nat, NEW net \in [Plans -> Nat], Total(net) > 0,
         NEW F, F \subseteq Plans, \A p \in Plans : net[p] > 0 => p \in F
  PROVE  pot - Total(ProRata(pot, net)) < Cardinality(F)
<1> DEFINE n     == Total(net)
           share == ProRata(pot, net)
           whole == [p \in Plans |-> pot * net[p]]
           parts == [p \in Plans |-> n * share[p]]
           rest  == [p \in Plans |-> whole[p] - parts[p]]
           one   == [p \in Plans |-> IF p \in F THEN 1 ELSE 0]
           most  == [p \in Plans |-> (n - 1) * one[p]]
           k     == Cardinality(F)
<1>1. n \in Nat \ {0} /\ n - 1 \in Nat
  BY PlansFinite, TotalNat
<1>2. share \in [Plans -> Nat]
  BY ProRataType
<1>3. one \in [Plans -> Nat]
  OBVIOUS
<1>4. ASSUME NEW p \in Plans
      PROVE  /\ whole[p] \in Nat /\ parts[p] \in Nat /\ rest[p] \in Nat
             /\ most[p] \in Nat /\ rest[p] <= most[p]
             /\ whole[p] = parts[p] + rest[p]
  <2> DEFINE x == pot * net[p]
             q == x \div n
             y == n * q
  <2>1. share[p] = q
    BY DEF ProRata, MulDiv
  <2> HIDE DEF n, share
  <2>2. x \in Nat
    BY SMT
  <2>3. net[p] = 0 => x = 0
    BY SMT
  <2> HIDE DEF x
  <2>4. q \in Nat /\ y <= x /\ x < y + n
    BY <1>1, <2>2, DivLaw
  <2> HIDE DEF q
  <2>5. y \in Nat
    BY <1>1, <2>4, SMT
  <2>6. whole[p] = x /\ parts[p] = y
    BY <2>1 DEF x
  <2>7. most[p] = IF p \in F THEN n - 1 ELSE 0
    <3>1. (n - 1) * 1 = n - 1 /\ (n - 1) * 0 = 0
      BY <1>1, SMT
    <3> QED BY <3>1
  <2> HIDE DEF y, whole, parts, most
  <2>8. rest[p] = x - y
    BY <2>6
  <2>9. CASE p \in F
    BY <1>1, <2>2, <2>4, <2>5, <2>6, <2>7, <2>8, <2>9
  <2>10. CASE p \notin F
    <3>1. x = 0
      BY <2>3, <2>10
    <3> QED BY <1>1, <2>2, <2>4, <2>5, <2>6, <2>7, <2>8, <2>10, <3>1
  <2> QED BY <2>9, <2>10
<1>5. /\ whole \in [Plans -> Nat] /\ parts \in [Plans -> Nat]
      /\ rest \in [Plans -> Nat] /\ most \in [Plans -> Nat]
  <2> HIDE DEF n, share, one
  <2> QED BY <1>4
<1>6. k \in Nat /\ Total(one) = k
  BY PlansFinite, FS_Subset, FS_CardinalityType, TotalCount
<1>7. k > 0
  <2>1. PICK p \in Plans : net[p] # 0
    BY PlansFinite, TotalZero
  <2>2. p \in F
    BY <2>1
  <2>3. F # {} /\ IsFiniteSet(F)
    BY <2>2, PlansFinite, FS_Subset
  <2>4. k # 0
    BY <2>3, FS_EmptySet
  <2> QED BY <1>6, <2>4
<1> HIDE DEF one, share, k
<1>8. Total(whole) = pot * n
  BY PlansFinite, TotalScale
<1> HIDE DEF n
<1>9. Total(parts) = n * Total(share)
  BY <1>1, <1>2, PlansFinite, TotalScale
<1>10. Total(most) = (n - 1) * k
  BY <1>1, <1>3, <1>6, PlansFinite, TotalScale
<1> HIDE DEF whole, parts, rest, most
<1>11. Total(whole) = Total(parts) + Total(rest)
  BY <1>4, <1>5, TotalPlus
<1>12. Total(rest) <= Total(most)
  BY <1>4, <1>5, PlansFinite, TotalMonotone
<1>13. Total(share) \in Nat /\ Total(rest) \in Nat
  BY <1>2, <1>5, PlansFinite, TotalNat
<1>14. pot - Total(share) < k
  <2> DEFINE d == pot - Total(share)
             r == Total(rest)
  <2>1. d \in Int /\ r \in Nat
    BY <1>13
  <2>2. n * d = r
    <3>1. n * d = pot * n - n * Total(share)
      BY <1>1, <1>13, SMT
    <3>2. pot * n \in Nat /\ n * Total(share) \in Nat
      BY <1>1, <1>13, SMT
    <3> QED BY <1>8, <1>9, <1>11, <1>13, <3>1, <3>2
  <2>3. r <= (n - 1) * k
    BY <1>10, <1>12
  <2>4. (n - 1) * k = n * k - k
    BY <1>1, <1>6, SMT
  <2> HIDE DEF d, r
  <2>5. n * k \in Nat
    BY <1>1, <1>6, SMT
  <2>6. n * d < n * k
    BY <1>6, <1>7, <2>1, <2>2, <2>3, <2>4, <2>5
  <2>7. d < k
    <3> SUFFICES ASSUME k <= d PROVE FALSE
      BY <1>6, <2>1
    <3>1. n * k <= n * d
      BY <1>1, <1>6, <2>1, SMT
    <3>2. n * d \in Int
      BY <1>1, <2>1, SMT
    <3> QED BY <2>5, <2>6, <3>1, <3>2
  <2> QED BY <2>7 DEF d
<1> QED BY <1>14 DEF share, k

(* What a page could not split exactly stays below one unit per plan it    *)
(* filled, for any swap outcome and whatever earlier pages and skims left  *)
(* (_distribute).                                                          *)
THEOREM StockDustStaysBounded == Spec => StockDustBounded
<1> DEFINE filled == {p \in Plans : lastEpochId'[p] # lastEpochId[p]}
<1>1. ASSUME ListInv, [Next]_vars, NEW s \in Stocks,
             nextPlanIndex'[s] # nextPlanIndex[s]
      PROVE  IF filled = {} THEN dustPot'[s] = dustPot[s]
                            ELSE dustPot'[s] < Cardinality(filled)
  <2>t. TypeOK
    BY <1>1 DEF ListInv
  <2>1. PICK t \in Stocks, limit \in Limits, privileged \in BOOLEAN,
             perk \in Perks, bought \in Bought, unspent \in Unspent,
             pays \in BOOLEAN :
          AdvanceEpoch(t, limit, privileged, perk, bought, unspent, pays)
    <3>1. PICK t \in Stocks : KeeperCall(t)
      BY <1>1, OnlyPagesMoveCursor DEF cursor
    <3> QED BY <3>1 DEF KeeperCall
  <2>2. PICK end \in Nat, spend \in [Plans -> Nat] :
          /\ PageTo(t, end, spend)
          /\ SkipPage(spend) \/ BuyPage(t, spend, perk, bought, unspent)
    BY <2>t, <2>1, PageShape
  <2>3. t = s
    <3>1. nextPlanIndex \in [Stocks -> [0..MaxEpoch -> Nat]]
      BY <2>t DEF TypeOK, CursorTyped
    <3> QED BY <1>1, <2>2, <3>1 DEF PageTo, FinalizePage
  <2>4. CASE SkipPage(spend)
    <3>1. lastEpochId' = lastEpochId /\ dustPot' = dustPot
      BY <2>4 DEF SkipPage
    <3> QED BY <3>1
  <2>5. CASE BuyPage(t, spend, perk, bought, unspent)
    <3> DEFINE fee == [p \in Plans |-> PurchaseFee(p, perk, spend[p])]
               net == [p \in Plans |-> spend[p] - fee[p]]
               pot == bought + dustPot[s]
    <3>1. /\ Total(net) > 0
          /\ dustPot' = [dustPot EXCEPT ![s] = pot - Total(ProRata(pot, net))]
          /\ lastEpochId' = [p \in Plans |->
                               IF spend[p] > 0 THEN epoch ELSE lastEpochId[p]]
      BY <2>3, <2>5 DEF BuyPage
    <3>2. /\ net \in [Plans -> Nat]
          /\ \A p \in Plans : net[p] <= spend[p]
      <4>1. ASSUME NEW p \in Plans PROVE fee[p] \in 0..spend[p]
        BY <2>t, PurchaseFeeType
      <4> QED BY <4>1
    <3>3. pot \in Nat
      BY <2>t, ConstantTypes DEF TypeOK, ResidueTyped
    <3> HIDE DEF fee, net, pot
    <3>4. ASSUME NEW p \in Plans, net[p] > 0 PROVE p \in filled
      <4>1. spend[p] > 0
        BY <3>2, <3>4
      <4>2. lastEpochId[p] # epoch
        BY <2>2, <4>1 DEF PageTo
      <4> QED BY <3>1, <4>1, <4>2
    <3>5. pot - Total(ProRata(pot, net)) < Cardinality(filled)
      <4> HIDE DEF filled
      <4>1. filled \subseteq Plans
        BY DEF filled
      <4> QED BY <3>1, <3>2, <3>3, <3>4, <4>1, ProRataRest
    <3>6. filled # {}
      <4>1. PICK p \in Plans : net[p] # 0
        BY <3>1, <3>2, PlansFinite, TotalZero
      <4>2. p \in filled
        BY <3>2, <3>4, <4>1
      <4> QED BY <4>2
    <3>7. dustPot'[s] = pot - Total(ProRata(pot, net))
      BY <2>t, <3>1 DEF TypeOK, ResidueTyped
    <3> QED BY <3>5, <3>6, <3>7
  <2> QED BY <2>2, <2>4, <2>5
<1>2. ListInv /\ [Next]_vars =>
        [\A s \in Stocks : nextPlanIndex'[s] # nextPlanIndex[s] =>
           LET F == {p \in Plans : lastEpochId'[p] # lastEpochId[p]}
           IN IF F = {} THEN dustPot'[s] = dustPot[s]
                        ELSE dustPot'[s] < Cardinality(F)]_vars
  BY <1>1
<1> QED BY <1>2, ListsInvariant, PTL DEF Spec, StockDustBounded

-----------------------------------------------------------------------------
(* The boost pool.                                                         *)

(* Shares belong to boosted plans and to a strategy.                       *)
Backed == /\ \A p \in Plans : boostShares[p] > 0 => boosted[p]
          /\ totalShares > 0 => strategy # None

PoolInv == ListInv /\ Backed

LEMMA PoolNumbers ==
  ASSUME TypeOK
  PROVE  /\ PoolAssets \in Nat /\ totalShares \in Nat
         /\ boostShares \in [Plans -> Nat]
         /\ \A p \in Plans : /\ boostShares[p] \in Nat
                             /\ ValueOf(boostShares[p]) \in Nat
<1>1. PoolAssets \in Nat /\ totalShares \in Nat
  BY PoolTypes DEF TypeOK, PoolTyped
<1>2. boostShares \in [Plans -> Nat]
  BY ConstantTypes DEF TypeOK, PoolTyped
<1> QED BY <1>1, <1>2, PoolTypes

(* A call that only takes shares, of plans that stay boosted or have none  *)
(* left, leaves the rest backed.                                           *)
LEMMA FewerShares ==
  ASSUME TypeOK, TypeOK', Backed, UNCHANGED strategy,
         totalShares' <= totalShares,
         \A p \in Plans : /\ boostShares'[p] <= boostShares[p]
                          /\ boosted'[p] = boosted[p] \/ boostShares'[p] = 0
  PROVE  Backed'
<1>1. /\ totalShares \in Nat /\ totalShares' \in Nat
      /\ \A p \in Plans : boostShares[p] \in Nat /\ boostShares'[p] \in Nat
  BY PoolNumbers, ConstantTypes DEF TypeOK, PoolTyped
<1> QED BY <1>1 DEF Backed

LEMMA MoreShares ==
  ASSUME TypeOK, TypeOK', Backed, NEW p \in Plans, NEW a, NEW m,
         PutInPool(p, a, m), boosted'[p],
         \A q \in Plans \ {p} : boosted'[q] = boosted[q]
  PROVE  Backed'
<1>1. strategy' # None
  BY DEF PutInPool
<1>2. ASSUME NEW q \in Plans \ {p} PROVE boostShares'[q] = boostShares[q]
  BY PoolNumbers DEF PutInPool
<1> QED BY <1>1, <1>2 DEF Backed

LEMMA SamePool ==
  ASSUME TypeOK, TypeOK', Backed, UNCHANGED pool,
         \A p \in Plans : boosted'[p] = boosted[p] \/ boostShares[p] = 0
  PROVE  Backed'
BY PoolNumbers DEF Backed, pool

LEMMA TakenShares ==
  ASSUME TypeOK, NEW p \in Plans, NEW a \in Nat, TakeFromPool(p, a)
  PROVE  /\ UNCHANGED strategy /\ totalShares' <= totalShares
         /\ \A q \in Plans : boostShares'[q] <= boostShares[q]
<1>1. Burn(p, a) \in Nat
  BY BurnType, PoolNumbers
<1>2. UNCHANGED strategy /\ totalShares' = totalShares - Burn(p, a)
  BY DEF TakeFromPool
<1> QED BY <1>1, <1>2, TakeFromPoolShares, PoolNumbers

LEMMA LeavePoolBacked ==
  ASSUME TypeOK, TypeOK', Backed, NEW p \in Plans, LeavePool(p)
  PROVE  Backed'
<1>1. /\ \A q \in Plans : boostShares'[q] <= boostShares[q]
      /\ boostShares'[p] = 0
  BY LeavePoolShares
<1>2. UNCHANGED strategy /\ totalShares' <= totalShares
  <2>1. ValueOf(boostShares[p]) \in Nat /\ totalShares \in Nat
    BY PoolNumbers
  <2> QED BY <2>1, TakenShares DEF LeavePool, pool
<1>3. \A q \in Plans \ {p} : boosted'[q] = boosted[q]
  BY DEF LeavePool, TypeOK, FlagsTyped
<1> QED BY <1>1, <1>2, <1>3, FewerShares

LEMMA PlanCallBacked ==
  ASSUME PoolInv, NEW p \in Plans, PlanCall(p)
  PROVE  Backed'
<1>t. TypeOK /\ TypeOK' /\ Backed
  BY PlanCallTypes DEF PoolInv, ListInv
<1>f. boosted \in [Plans -> BOOLEAN]
  BY <1>t DEF TypeOK, FlagsTyped
<1>1. ASSUME NEW u \in Users, NEW s \in Stocks, NEW a \in AmountsPerEpoch,
             NEW to \in Users \cup {None}, NEW g \in Deposits \cup {0},
             NEW z1 \in Zaps \cup {0}, NEW z2 \in Zaps \cup {0},
             NEW lends \in BOOLEAN,
             CreatePlan(u, p, s, a, to, g, z1, z2, lends)
      PROVE  Backed'
  <2>1. boostShares[p] = 0
    <3>1. ~Exists(p)
      BY <1>1 DEF CreatePlan, Exists
    <3>2. stockPlanIndex[p] = 0
      BY <3>1 DEF PoolInv, ListInv, Lists, IndexConsistent
    <3>3. ~(boostShares[p] > 0)
      BY <3>2 DEF PoolInv, ListInv, Lists, FundedPlansListed
    <3> QED BY <1>t, <3>3, PoolNumbers
  <2>2. boosted' = [boosted EXCEPT ![p] = lends]
    BY <1>1 DEF CreatePlan
  <2>3. CASE lends
    <3>1. \E d, m : PutInPool(p, d, m)
      BY <1>1, <2>3 DEF CreatePlan, Credit
    <3> QED BY <1>t, <1>f, <2>2, <2>3, <3>1, MoreShares
  <2>4. CASE ~lends
    <3>1. UNCHANGED pool
      BY <1>1, <2>4 DEF CreatePlan, Credit
    <3> QED BY <1>t, <1>f, <2>1, <2>2, <3>1, SamePool
  <2> QED BY <2>3, <2>4
<1>2. ASSUME NEW c, Fund(p, c) PROVE Backed'
  <2>1. UNCHANGED boosted
    BY <1>2 DEF Fund, flags
  <2>2. CASE boosted[p]
    <3>1. \E d, m : PutInPool(p, d, m)
      BY <1>2, <2>2 DEF Fund, Credit
    <3> QED BY <1>t, <2>1, <2>2, <3>1, MoreShares
  <2>3. CASE ~boosted[p]
    <3>1. UNCHANGED pool
      BY <1>2, <2>3 DEF Fund, Credit
    <3> QED BY <1>t, <2>1, <3>1, SamePool
  <2> QED BY <2>2, <2>3
<1>3. ASSUME \/ \E b \in BOOLEAN : SetPlanPaused(p, b)
             \/ \E a \in AmountsPerEpoch : SetPlanAmount(p, a)
             \/ \E u \in Users : SetPlanRecipient(p, u)
             \/ \E a \in 1..Supply, perk \in Perks : Claim(p, a, perk)
             \/ PrunePlan(p)
      PROVE  Backed'
  <2>1. UNCHANGED pool /\ UNCHANGED boosted
    BY <1>3 DEF SetPlanPaused, SetPlanAmount, SetPlanRecipient, Claim,
                PrunePlan, flags
  <2> QED BY <1>t, <2>1, SamePool
<1>4. ASSUME Boost(p) PROVE Backed'
  <2>1. boosted' = [boosted EXCEPT ![p] = TRUE]
    BY <1>4 DEF Boost
  <2>2. \E d, m : PutInPool(p, d, m)
    BY <1>4 DEF Boost
  <2> QED BY <1>t, <1>f, <2>1, <2>2, MoreShares
<1>5. ASSUME Unboost(p) \/ \E perk \in Perks : ClosePlan(p, perk)
      PROVE  Backed'
  BY <1>t, <1>5, LeavePoolBacked DEF Unboost, ClosePlan
<1>6. ASSUME NEW a \in 1..Supply, WithdrawIdle(p, a) PROVE Backed'
  <2> DEFINE first == Smaller(a, usdgIdle[p])
  <2>1. /\ IF a > first THEN TakeFromPool(p, a - first) ELSE UNCHANGED pool
        /\ UNCHANGED boosted
    BY <1>6 DEF WithdrawIdle, flags
  <2>2. a \in Nat /\ first \in Nat
    BY <1>t, ConstantTypes DEF Smaller, TypeOK, IdleTyped
  <2> HIDE DEF first
  <2>3. CASE a > first
    <3>1. a - first \in Nat
      BY <2>2, <2>3
    <3> QED BY <1>t, <2>1, <2>3, <3>1, TakenShares, FewerShares
  <2>4. CASE ~(a > first)
    BY <1>t, <2>1, <2>4, SamePool
  <2> QED BY <2>3, <2>4
<1> QED BY <1>1, <1>2, <1>3, <1>4, <1>5, <1>6
        DEF PlanCall, DepositUSDG, DepositWETH

(* What a page takes from the pool and the shares it burns for it.         *)
PoolTaken(lent, burned) ==
  /\ boostShares' = [p \in Plans |-> boostShares[p] - burned[p]]
  /\ totalShares' = totalShares - Total(burned)
  /\ PoolAssets' + Rounding >= PoolAssets - Total(lent)
  /\ Total(lent) <= PoolAssets /\ Total(burned) <= totalShares
  /\ UNCHANGED strategy
  /\ \A p \in Plans : burned[p] = IF lent[p] > 0 THEN Burn(p, lent[p]) ELSE 0

LEMMA BuyPagePool ==
  ASSUME TypeOK, NEW s \in Stocks, NEW spend \in [Plans -> Nat],
         \A p \in Plans : spend[p] > 0 => spend[p] <= Available(p),
         NEW perk, NEW bought \in Nat, NEW unspent \in Nat,
         BuyPage(s, spend, perk, bought, unspent)
  PROVE  \E lent \in [Plans -> Nat], burned \in [Plans -> Nat] :
           /\ PoolTaken(lent, burned)
           /\ \A p \in Plans : /\ lent[p] <= ValueOf(boostShares[p])
                               /\ burned[p] <= boostShares[p]
<1> DEFINE lent   == FromBoost(spend)
           burned == [p \in Plans |-> IF lent[p] > 0 THEN Burn(p, lent[p]) ELSE 0]
<1>1. lent \in [Plans -> Nat]
  BY FromBoostTypes
<1>2. /\ boostShares' = [p \in Plans |-> boostShares[p] - burned[p]]
      /\ totalShares' = totalShares - Total(burned)
      /\ Total(lent) <= PoolAssets /\ Total(burned) <= totalShares
      /\ UNCHANGED strategy
  BY DEF BuyPage
<1>c. PICK cost \in Costs(Total(lent)) :
        position' = [v \in Strategies |->
                       position[v] - (IF v = strategy THEN cost ELSE 0)]
  BY DEF BuyPage
<1>3. ASSUME NEW p \in Plans PROVE burned[p] \in 0..boostShares[p]
  <2>1. lent[p] \in Nat /\ boostShares[p] \in Nat
    BY <1>1, PoolNumbers
  <2>2. Burn(p, lent[p]) \in 0..boostShares[p]
    BY <2>1, BurnType
  <2> QED BY <2>1, <2>2
<1>4. ASSUME NEW p \in Plans PROVE lent[p] <= ValueOf(boostShares[p])
  <2>1. ValueOf(boostShares[p]) \in Nat /\ usdgIdle[p] \in Nat /\ spend[p] \in Nat
    BY PoolNumbers DEF TypeOK, IdleTyped
  <2>2. boosted[p] \in BOOLEAN
    BY DEF TypeOK, FlagsTyped
  <2>3. lent[p] = IF spend[p] > usdgIdle[p] THEN spend[p] - usdgIdle[p] ELSE 0
    BY DEF FromBoost
  <2> HIDE DEF lent
  <2>4. CASE spend[p] > usdgIdle[p]
    <3>1. spend[p] <= Available(p)
      BY <2>1, <2>4
    <3> QED BY <2>1, <2>2, <2>3, <2>4, <3>1 DEF Available
  <2>5. CASE ~(spend[p] > usdgIdle[p])
    BY <2>1, <2>3, <2>5
  <2> QED BY <2>4, <2>5
<1>5. burned \in [Plans -> Nat] /\ \A p \in Plans : burned[p] <= boostShares[p]
  BY <1>3, PoolNumbers
<1> HIDE DEF lent
<1>6. Total(lent) \in Nat
  BY <1>1, PlansFinite, TotalNat
<1>7. PoolAssets' + Rounding >= PoolAssets - Total(lent)
  <2>0. /\ cost \in Nat /\ cost <= Total(lent) + Rounding /\ PoolAssets \in Nat
        /\ Rounding \in Nat
    BY <1>6, CostsType, ConstantTypes, PoolNumbers
  <2>1. CASE strategy = None
    <3>1. PoolAssets = 0 /\ PoolAssets' = 0
      BY <1>2, <2>1 DEF PoolAssets
    <3> QED BY <1>6, <2>0, <3>1
  <2>2. CASE strategy # None
    <3>1. strategy \in Strategies
      BY <2>2 DEF TypeOK, PoolTyped
    <3>2. position'[strategy] = position[strategy] - cost
      BY <1>c, <3>1
    <3>3. PoolAssets' = PoolAssets - cost
      BY <1>2, <2>2, <3>2 DEF PoolAssets
    <3> QED BY <1>6, <2>0, <3>3
  <2> QED BY <2>1, <2>2
<1>8. \A p \in Plans : burned[p] = IF lent[p] > 0 THEN Burn(p, lent[p]) ELSE 0
  OBVIOUS
<1> HIDE DEF burned
<1>9. PoolTaken(lent, burned)
  BY <1>2, <1>7, <1>8 DEF PoolTaken
<1> QED BY <1>1, <1>4, <1>5, <1>9

(* A page keeps the flags; what it takes, plans pay with shares.           *)
LEMMA PagePool ==
  ASSUME TypeOK, NEW s \in Stocks, KeeperCall(s)
  PROVE  /\ UNCHANGED boosted
         /\ \/ UNCHANGED pool
            \/ \E lent \in [Plans -> Nat], burned \in [Plans -> Nat] :
                 /\ PoolTaken(lent, burned)
                 /\ \A p \in Plans : /\ lent[p] <= ValueOf(boostShares[p])
                                     /\ burned[p] <= boostShares[p]
<1>1. PICK limit \in Limits, privileged \in BOOLEAN, perk \in Perks,
           bought \in Bought, unspent \in Unspent, pays \in BOOLEAN :
        AdvanceEpoch(s, limit, privileged, perk, bought, unspent, pays)
  BY DEF KeeperCall
<1>2. UNCHANGED boosted
  BY <1>1 DEF AdvanceEpoch
<1>3. PICK end \in Nat, spend \in [Plans -> Nat] :
        /\ PageTo(s, end, spend)
        /\ SkipPage(spend) \/ BuyPage(s, spend, perk, bought, unspent)
  BY <1>1, PageShape
<1>4. \A p \in Plans : spend[p] > 0 => spend[p] <= Available(p)
  BY <1>3 DEF PageTo
<1>5. bought \in Nat /\ unspent \in Nat
  BY ConstantTypes
<1>6. CASE SkipPage(spend)
  BY <1>2, <1>6 DEF SkipPage
<1>7. CASE BuyPage(s, spend, perk, bought, unspent)
  BY <1>2, <1>4, <1>5, <1>7, BuyPagePool
<1> QED BY <1>3, <1>6, <1>7

LEMMA PageBacked ==
  ASSUME TypeOK, TypeOK', Backed, NEW s \in Stocks, KeeperCall(s)
  PROVE  Backed'
<1>1. UNCHANGED boosted
  BY PagePool
<1>2. CASE UNCHANGED pool
  BY <1>1, <1>2, SamePool
<1>3. ASSUME NEW lent \in [Plans -> Nat], NEW burned \in [Plans -> Nat],
             PoolTaken(lent, burned)
      PROVE  Backed'
  <2>1. Total(burned) \in Nat /\ totalShares \in Nat
    BY PlansFinite, TotalNat, PoolNumbers
  <2>2. totalShares' <= totalShares
    BY <1>3, <2>1 DEF PoolTaken
  <2>3. ASSUME NEW p \in Plans PROVE boostShares'[p] <= boostShares[p]
    <3>1. boostShares[p] \in Nat /\ burned[p] \in Nat
      BY PoolNumbers
    <3> QED BY <1>3, <3>1 DEF PoolTaken
  <2>4. UNCHANGED strategy
    BY <1>3 DEF PoolTaken
  <2> QED BY <1>1, <2>2, <2>3, <2>4, FewerShares
<1> QED BY <1>2, <1>3, PagePool

(* The steps that touch neither shares nor flags.                          *)
LEMMA OtherStepsKeepShares ==
  ASSUME NEW u, AdminCall \/ Environment \/ UNCHANGED vars
                \/ \E s \in Stocks, perk \in Perks : ClaimAll(u, s, perk)
  PROVE  /\ UNCHANGED <<boosted, boostShares, totalShares>>
         /\ \/ UNCHANGED strategy
            \/ \E to \in Strategies \cup {None} : SetBoostStrategy(to)
<1>1. CASE \/ SweepDust \/ SkimUsdg \/ SkimWeth
           \/ \E s \in Stocks : SkimStock(s)
  BY <1>1 DEF SweepDust, SkimUsdg, SkimWeth, SkimStock, flags, pool
<1>2. CASE \E to \in Strategies \cup {None} : SetBoostStrategy(to)
  BY <1>2 DEF SetBoostStrategy, flags
<1>3. CASE \/ \E b \in BOOLEAN : SetVaultPaused(b)
           \/ \E f \in FeeChoices : SetFees(f)
           \/ \E to \in Treasuries : SetFeeRecipient(to)
           \/ \E k \in KnobChoices : SetKnobs(k)
  BY <1>3 DEF SetVaultPaused, SetFees, SetFeeRecipient, SetKnobs, state, flags, pool
<1>4. CASE \/ EpochPasses
           \/ \E s \in Stocks, b \in BOOLEAN : SetPurchasable(s, b)
           \/ \E s \in Stocks : MarketTurns(s)
           \/ \E v \in Strategies, a \in Gains : StrategyGains(v, a)
           \/ \E v \in Strategies, a \in Losses : StrategyLoses(v, a)
  BY <1>4 DEF EpochPasses, SetPurchasable, MarketTurns, StrategyGains,
              StrategyLoses, state, flags, pool
<1>5. CASE \/ \E a \in Gifts : GiveUsdg(a) \/ GiveWeth(a)
           \/ \E s \in Stocks, a \in Gifts : GiveStock(s, a)
  BY <1>5 DEF GiveUsdg, GiveWeth, GiveStock, flags, pool
<1>6. CASE UNCHANGED vars \/ \E s \in Stocks, perk \in Perks : ClaimAll(u, s, perk)
  BY <1>6 DEF vars, flags, pool, ClaimAll
<1> QED BY <1>1, <1>2, <1>3, <1>4, <1>5, <1>6 DEF AdminCall, Environment

LEMMA PoolInvariant == Spec => []PoolInv
<1>1. Init => Backed
  BY DEF Init, Backed
<1>2. PoolInv /\ [Next]_vars => Backed'
  <2> SUFFICES ASSUME PoolInv, [Next]_vars PROVE Backed'
    OBVIOUS
  <2>t. TypeOK /\ TypeOK' /\ Backed
    BY NextTypes DEF PoolInv, ListInv
  <2>1. ASSUME \/ AdminCall \/ Environment \/ UNCHANGED vars
               \/ \E u \in Users, s \in Stocks, perk \in Perks : ClaimAll(u, s, perk)
        PROVE  Backed'
    <3>1. /\ UNCHANGED <<boosted, boostShares, totalShares>>
          /\ \/ UNCHANGED strategy
             \/ \E to \in Strategies \cup {None} : SetBoostStrategy(to)
      BY <2>1, OtherStepsKeepShares
    <3>2. ASSUME NEW to \in Strategies \cup {None}, SetBoostStrategy(to)
          PROVE  totalShares > 0 => strategy' # None
      BY <2>t, <3>2 DEF SetBoostStrategy, Backed
    <3> QED BY <2>t, <3>1, <3>2 DEF Backed
  <2> QED BY <2>t, <2>1, PlanCallBacked, PageBacked DEF Next
<1> QED BY <1>1, <1>2, ListsInvariant, PTL DEF Spec, PoolInv

(* Less than all the shares, rounded down, is less than the pool.          *)
LEMMA BelowPool ==
  ASSUME NEW a \in Nat, NEW n \in Nat, NEW t \in Nat, (n + 1) * t <= (a + 1) * n
  PROVE  t <= a
<1> SUFFICES ASSUME a + 1 <= t PROVE FALSE
  OBVIOUS
<1>1. (n + 1) * (a + 1) <= (n + 1) * t
  BY SMT
<1>2. (n + 1) * (a + 1) = (a + 1) * n + (a + 1)
  BY SMT
<1> DEFINE x == (a + 1) * n
           y == (n + 1) * t
           z == (n + 1) * (a + 1)
<1>3. x \in Nat /\ y \in Nat /\ z \in Nat
  BY SMT
<1>4. z <= y /\ z = x + (a + 1) /\ y <= x
  BY <1>1, <1>2
<1> HIDE DEF x, y, z
<1> QED BY <1>3, <1>4

(* The boosted plans' balances together are covered by the position.       *)
LEMMA WorthCovered ==
  ASSUME TypeOK, SharesAgree
  PROVE  Total([p \in Plans |-> ValueOf(boostShares[p])]) <= PoolAssets
<1> DEFINE n      == totalShares + 1
           d      == PoolAssets + 1
           worth  == [p \in Plans |-> ValueOf(boostShares[p])]
           worths == [p \in Plans |-> n * worth[p]]
           shares == [p \in Plans |-> d * boostShares[p]]
<1>1. /\ n \in Nat \ {0} /\ d \in Nat \ {0} /\ boostShares \in [Plans -> Nat]
      /\ worth \in [Plans -> Nat]
  BY PoolNumbers
<1>2. ASSUME NEW p \in Plans
      PROVE  worths[p] \in Nat /\ shares[p] \in Nat /\ worths[p] <= shares[p]
  <2> DEFINE x == boostShares[p] * d
  <2>1. x \in Nat
    BY <1>1, SMT
  <2>2. worth[p] = x \div n
    BY DEF ValueOf, MulDiv
  <2>3. shares[p] = x
    BY <1>1, SMT
  <2> HIDE DEF x, n, d
  <2>4. n * (x \div n) <= x /\ x \div n \in Nat
    BY <1>1, <2>1, DivLaw
  <2>5. n * (x \div n) \in Nat
    BY <1>1, <2>4, SMT
  <2> QED BY <2>1, <2>2, <2>3, <2>4, <2>5
<1>3. worths \in [Plans -> Nat] /\ shares \in [Plans -> Nat]
  BY <1>2
<1> HIDE DEF n, d, worth
<1>4. Total(worths) = n * Total(worth)
  BY <1>1, PlansFinite, TotalScale
<1>5. Total(shares) = d * Total(boostShares)
  BY <1>1, PlansFinite, TotalScale
<1> HIDE DEF worths, shares
<1>6. Total(worths) <= Total(shares)
  BY <1>2, <1>3, PlansFinite, TotalMonotone
<1>7. n * Total(worth) <= d * totalShares
  BY <1>4, <1>5, <1>6 DEF SharesAgree
<1>8. Total(worth) <= PoolAssets
  <2>1. Total(worth) \in Nat /\ PoolAssets \in Nat /\ totalShares \in Nat
    BY <1>1, PlansFinite, TotalNat, PoolNumbers
  <2> QED BY <1>7, <2>1, BelowPool DEF n, d
<1> QED BY <1>8 DEF worth

(* The position covers what the boosted plans could withdraw together; no  *)
(* call of BoostLib leaves shares with a plan that is not boosted or with  *)
(* no strategy behind them.                                                *)
THEOREM BoostIsSolvent == Spec => []BoostSolvent
<1>1. PoolInv /\ TotalsAgree => BoostSolvent
  BY WorthCovered, AgreeParts DEF PoolInv, ListInv, Backed, BoostSolvent
<1> QED BY <1>1, PoolInvariant, TotalsAlwaysAgree, PTL

-----------------------------------------------------------------------------
(* The price of a boost share.                                             *)

(* A pool of a2 assets and n2 shares prices a share at least like one of a *)
(* assets and n shares, virtual asset and share included.                  *)
NotBelow(a, n, a2, n2) == (a2 + 1) * (n + 1) >= (a + 1) * (n2 + 1)

LEMMA NotBelowMore ==
  ASSUME NEW a \in Nat, NEW n \in Nat, NEW a2 \in Nat, NEW n2 \in Nat,
         NEW a3 \in Nat, NotBelow(a, n, a2, n2), a2 <= a3
  PROVE  NotBelow(a, n, a3, n2)
<1> DEFINE x == (a + 1) * (n2 + 1)
           y == (a2 + 1) * (n + 1)
           z == (a3 + 1) * (n + 1)
<1>1. x \in Nat /\ y \in Nat /\ z \in Nat /\ y <= z
  BY SMT
<1>2. x <= y
  BY <1>1 DEF NotBelow
<1> HIDE DEF x, y, z
<1>3. z >= x
  BY <1>1, <1>2
<1> QED BY <1>3 DEF NotBelow, x, z

(* A deposit that mints no more shares than it pays for keeps the price.   *)
LEMMA PutKeepsPrice ==
  ASSUME NEW a \in Nat, NEW n \in Nat, NEW c \in Nat, NEW m \in Nat,
         (a + 1) * m <= c * (n + 1)
  PROVE  NotBelow(a, n, a + c, n + m)
<1> DEFINE base == (a + 1) * (n + 1)
           x    == (a + 1) * m
           y    == c * (n + 1)
<1>1. base \in Nat /\ x \in Nat /\ y \in Nat /\ x <= y
  BY SMT
<1>2. (a + c + 1) * (n + 1) = base + y /\ (a + 1) * (n + m + 1) = base + x
  BY SMT
<1> HIDE DEF base, x, y
<1> QED BY <1>1, <1>2 DEF NotBelow

(* A withdrawal that burns at least the shares it is worth keeps it too.   *)
LEMMA TakeKeepsPrice ==
  ASSUME NEW a \in Nat, NEW n \in Nat, NEW c \in 0..a, NEW b \in 0..n,
         c * (n + 1) <= (a + 1) * b
  PROVE  NotBelow(a, n, a - c, n - b)
<1> DEFINE base == (a + 1) * (n + 1)
           x    == (a + 1) * b
           y    == c * (n + 1)
<1>1. base \in Nat /\ x \in Nat /\ y \in Nat /\ y <= x
  BY SMT
<1>2. (a - c + 1) * (n + 1) = base - y /\ (a + 1) * (n - b + 1) = base - x
  BY SMT
<1> HIDE DEF base, x, y
<1> QED BY <1>1, <1>2 DEF NotBelow

(* Minting rounds down.                                                    *)
LEMMA MintPays ==
  ASSUME NEW a \in Nat, NEW n \in Nat, NEW c \in Nat
  PROVE  (a + 1) * Mint(c, a, n) <= c * (n + 1)
<1> DEFINE x == c * (n + 1)
           d == a + 1
<1>1. x \in Nat /\ d \in Nat \ {0}
  BY SMT
<1> HIDE DEF x, d
<1>2. d * (x \div d) <= x
  BY <1>1, DivLaw
<1> QED BY <1>2 DEF x, d, Mint, MulDiv

(* Burning rounds up, unless it takes everything: then the amount is what  *)
(* the shares are worth, rounded down.                                     *)
LEMMA BurnPays ==
  ASSUME TypeOK, NEW p \in Plans, NEW c \in Nat, c <= ValueOf(boostShares[p])
  PROVE  c * (totalShares + 1) <= (PoolAssets + 1) * Burn(p, c)
<1> DEFINE n == totalShares + 1
           d == PoolAssets + 1
           h == boostShares[p]
<1>1. n \in Nat \ {0} /\ d \in Nat \ {0} /\ h \in Nat /\ ValueOf(h) \in Nat
  BY PoolNumbers
<1>2. CASE c >= ValueOf(h)
  <2>1. c = ValueOf(h) /\ Burn(p, c) = h
    BY <1>1, <1>2 DEF Burn
  <2> DEFINE x == h * d
  <2>2. ValueOf(h) = x \div n
    BY DEF ValueOf, MulDiv
  <2> HIDE DEF n, d, h
  <2>3. x \in Nat /\ x = d * h
    BY <1>1, SMT
  <2> HIDE DEF x
  <2>4. n * (x \div n) <= x
    BY <1>1, <2>3, DivLaw
  <2>5. c * n = n * (x \div n)
    BY <1>1, <2>1, <2>2, SMT
  <2>6. c * n <= d * h
    BY <2>3, <2>4, <2>5
  <2> QED BY <2>1, <2>6 DEF n, d, h
<1>3. CASE ~(c >= ValueOf(h))
  <2> DEFINE y == c * n
             x == c * n + d - 1
             q == x \div d
  <2>1. Burn(p, c) = q
    BY <1>3 DEF Burn, MulDivUp
  <2> HIDE DEF n, d, h
  <2>2. y \in Nat /\ x \in Nat
    BY <1>1, SMT
  <2>3. q \in Nat /\ x < d * q + d
    BY <1>1, <2>2, DivLaw
  <2> HIDE DEF q
  <2>4. d * q \in Nat
    BY <1>1, <2>3, SMT
  <2>5. x = y + d - 1
    OBVIOUS
  <2> HIDE DEF x
  <2>6. y <= d * q
    BY <1>1, <2>2, <2>3, <2>4, <2>5
  <2> QED BY <2>1, <2>6 DEF y, n, d
<1> QED BY <1>2, <1>3

LEMMA ToleranceType ==
  ASSUME NEW a \in Nat
  PROVE  DepositTolerance(a) \in Nat
BY ConstantTypes, MulDivNat DEF DepositTolerance

(* The price as a comparison of pools.                                     *)
LEMMA PriceNotBelow ==
  ASSUME TypeOK, TypeOK', NEW slack \in Nat, NEW a2 \in Nat,
         a2 <= PoolAssets' + slack,
         NotBelow(PoolAssets, totalShares, a2, totalShares')
  PROVE  PriceKept(slack)
<1> DEFINE b == PoolAssets'
           m == totalShares'
<1>1. PoolAssets \in Nat /\ totalShares \in Nat
  BY PoolNumbers
<1>2. b \in Nat /\ m \in Nat
  BY DEF TypeOK, PoolTyped, PoolAssets
<1>3. a2 <= b + slack /\ NotBelow(PoolAssets, totalShares, a2, m)
  OBVIOUS
<1> HIDE DEF b, m
<1>4. b + slack \in Nat
  BY <1>2
<1>5. NotBelow(PoolAssets, totalShares, b + slack, m)
  BY <1>1, <1>2, <1>3, <1>4, NotBelowMore
<1>6. (b + slack + 1) * (totalShares + 1) >= (PoolAssets + 1) * (m + 1)
  BY <1>5 DEF NotBelow
<1> QED BY <1>6 DEF PriceKept, b, m

LEMMA SamePrice ==
  ASSUME TypeOK, TypeOK', NEW slack \in Nat,
         totalShares' = totalShares, PoolAssets' >= PoolAssets
  PROVE  PriceKept(slack)
<1>1. PoolAssets \in Nat /\ totalShares \in Nat
  BY PoolNumbers
<1> DEFINE b == PoolAssets'
<1>2. b \in Nat /\ b >= PoolAssets
  BY DEF TypeOK, PoolTyped, PoolAssets
<1> HIDE DEF b
<1>3. (PoolAssets + 1) * (totalShares + 1) \in Nat
  BY <1>1, SMT
<1>4. NotBelow(PoolAssets, totalShares, PoolAssets, totalShares')
  BY <1>3 DEF NotBelow
<1>5. PoolAssets <= b + slack
  BY <1>1, <1>2
<1> QED BY <1>1, <1>4, <1>5, PriceNotBelow DEF b

LEMMA SamePoolPrice ==
  ASSUME TypeOK, TypeOK', NEW slack \in Nat,
         UNCHANGED <<totalShares, strategy, position>>
  PROVE  PriceKept(slack)
<1>1. PoolAssets' = PoolAssets /\ PoolAssets \in Nat
  BY PoolTypes DEF PoolAssets
<1> QED BY <1>1, SamePrice

LEMMA PutMoves ==
  ASSUME TypeOK, NEW p \in Plans, NEW k \in Nat, NEW m \in Nat,
         PutInPool(p, k, m)
  PROVE  totalShares' = totalShares + m /\ PoolAssets' = PoolAssets + k
<1>1. strategy # None /\ strategy \in Strategies
  BY DEF PutInPool, TypeOK, PoolTyped
<1> QED BY <1>1 DEF PutInPool, TypeOK, PoolTyped, PoolAssets

(* One deposit of c: the shares are those of c, the credit is c less the   *)
(* tolerance at worst.                                                     *)
LEMMA PutPrice ==
  ASSUME TypeOK, TypeOK', NEW p \in Plans, NEW c \in Nat, NEW k \in Credits(c),
         PutInPool(p, k, Mint(c, PoolAssets, totalShares))
  PROVE  PriceKept(DepositTolerance(c))
<1> DEFINE m == Mint(c, PoolAssets, totalShares)
<1>1. PoolAssets \in Nat /\ totalShares \in Nat
  BY PoolNumbers
<1>2. m \in Nat /\ (PoolAssets + 1) * m <= c * (totalShares + 1)
  BY <1>1, MintType, MintPays
<1>3. PutInPool(p, k, m)
  OBVIOUS
<1> HIDE DEF m
<1>4. /\ k \in Nat /\ DepositTolerance(c) \in Nat
      /\ c <= k + DepositTolerance(c)
  BY CreditsType
<1>5. totalShares' = totalShares + m /\ PoolAssets' = PoolAssets + k
  BY <1>2, <1>3, <1>4, PutMoves
<1>6. NotBelow(PoolAssets, totalShares, PoolAssets + c, totalShares')
  BY <1>1, <1>2, <1>5, PutKeepsPrice
<1>7. PoolAssets + c \in Nat /\ PoolAssets + c <= PoolAssets' + DepositTolerance(c)
  BY <1>1, <1>4, <1>5
<1> QED BY <1>4, <1>6, <1>7, PriceNotBelow

(* A deposit that mints nothing raises the price.                          *)
LEMMA GiftPrice ==
  ASSUME TypeOK, TypeOK', NEW p \in Plans, NEW k \in Nat, NEW m \in Nat,
         PutInPool(p, k, m), ~(totalShares' > totalShares), NEW slack \in Nat
  PROVE  PriceKept(slack)
<1>1. PoolAssets \in Nat /\ totalShares \in Nat
  BY PoolNumbers
<1>2. totalShares' = totalShares + m /\ PoolAssets' = PoolAssets + k
  BY PutMoves
<1>3. totalShares' = totalShares /\ PoolAssets' >= PoolAssets
  BY <1>1, <1>2
<1> QED BY <1>3, SamePrice

LEMMA MintOfNothing ==
  ASSUME NEW a \in Nat, NEW n \in Nat
  PROVE  Mint(0, a, n) = 0
<1>1. Mint(0, a, n) \in Nat /\ (a + 1) * Mint(0, a, n) <= 0
  BY MintType, MintPays
<1> SUFFICES ASSUME Mint(0, a, n) >= 1 PROVE FALSE
  BY <1>1
<1>2. (a + 1) * Mint(0, a, n) >= a + 1
  BY <1>1, SMT
<1>3. (a + 1) * Mint(0, a, n) \in Nat
  BY <1>1, SMT
<1> QED BY <1>1, <1>2, <1>3

(* Funding books one amount.                                               *)
LEMMA FundPrice ==
  ASSUME TypeOK, TypeOK', NEW p \in Plans, NEW c \in Nat, Fund(p, c)
  PROVE  PriceKept(DepositTolerance(c))
<1>1. DepositTolerance(c) \in Nat /\ PoolAssets \in Nat /\ totalShares \in Nat
  BY PoolNumbers, ToleranceType
<1>2. CASE ~boosted[p]
  BY <1>1, <1>2, SamePoolPrice DEF Fund, Credit, pool
<1>3. CASE boosted[p]
  <2>1. LentInTurn(p, c, 0, 0)
    BY <1>3, CreditLends DEF Fund, TypeOK, FlagsTyped
  <2>2. PICK k1, k2, k3, m1, m2, m3 \in Nat :
          /\ k1 \in Credits(c) /\ k2 \in Credits(0) /\ k3 \in Credits(0)
          /\ m1 = Mint(c, PoolAssets, totalShares)
          /\ m2 = Mint(0, PoolAssets + k1, totalShares + m1)
          /\ m3 = Mint(0, PoolAssets + k1 + k2, totalShares + m1 + m2)
          /\ PutInPool(p, k1 + k2 + k3, m1 + m2 + m3)
    BY <2>1 DEF LentInTurn
  <2>3. k2 = 0 /\ k3 = 0
    BY <2>2, CreditsType
  <2>4. PoolAssets + k1 \in Nat /\ totalShares + m1 \in Nat
    BY <1>1, <2>2
  <2>5. m2 = 0
    BY <2>2, <2>4, MintOfNothing
  <2>6. PoolAssets + k1 + k2 \in Nat /\ totalShares + m1 + m2 \in Nat
    BY <2>2, <2>4
  <2>7. m3 = 0
    BY <2>2, <2>6, MintOfNothing
  <2>8. k1 + k2 + k3 = k1 /\ m1 + m2 + m3 = m1
    BY <2>2, <2>3, <2>5, <2>7
  <2>9. PutInPool(p, k1, Mint(c, PoolAssets, totalShares))
    BY <2>2, <2>8
  <2> QED BY <2>2, <2>9, PutPrice
<1> QED BY <1>2, <1>3

LEMMA BoostPrice ==
  ASSUME TypeOK, TypeOK', NEW p \in Plans, Boost(p)
  PROVE  PriceKept(DepositTolerance(usdgIdle[p]))
<1>1. usdgIdle[p] \in Nat
  BY DEF TypeOK, IdleTyped
<1>2. PICK k \in Credits(usdgIdle[p]) :
        PutInPool(p, k, Mint(usdgIdle[p], PoolAssets, totalShares))
  BY DEF Boost
<1> QED BY <1>1, <1>2, PutPrice

(* What s of the shares that were out lose, as the pool goes from a assets *)
(* and n shares to a2 and n2.                                              *)
HeldLoss(s, a, n, a2, n2, loss) ==
  s * (a2 + 1) * (n + 1) + loss * (n + 1) * (n2 + 1) >= s * (a + 1) * (n2 + 1)

(* One deposit costs the holders at most what it was credited too little.  *)
LEMMA DepositCosts ==
  ASSUME NEW s \in Nat, NEW a \in Nat, NEW n \in Nat, s <= n,
         NEW c \in Nat, NEW k \in Nat, NEW t \in Nat, c <= k + t,
         NEW m \in Nat, (a + 1) * m <= c * (n + 1)
  PROVE  HeldLoss(s, a, n, a + k, n + m, t)
<1> DEFINE x  == a + 1
           y  == n + 1
           y2 == n + m + 1
<1>1. /\ x \in Nat /\ y \in Nat /\ y2 \in Nat /\ s <= y2 /\ y2 = y + m
      /\ a + k + 1 = x + k
  OBVIOUS
<1>2. x * m <= c * y
  OBVIOUS
<1> HIDE DEF x, y, y2
<1>3. c * y <= (k + t) * y
  BY <1>1, SMT
<1>4. (k + t) * y = k * y + t * y
  BY <1>1, SMT
<1> DEFINE ky == k * y
           ty == t * y
           xm == x * m
           cy == c * y
<1>5. ky \in Nat /\ ty \in Nat /\ xm \in Nat /\ cy \in Nat
  BY <1>1, SMT
<1>6. xm <= ky + ty
  <2>1. xm <= cy /\ cy <= ky + ty
    BY <1>2, <1>3, <1>4
  <2> HIDE DEF xm, cy, ky, ty
  <2> QED BY <1>5, <2>1
<1>7. s * (x + k) * y = s * (x * y) + s * ky
  BY <1>1, SMT
<1>8. t * y * y2 = y2 * ty
  BY <1>1, SMT
<1>9. s * x * y2 = s * (x * y) + s * xm
  BY <1>1, SMT
<1>10. x * y \in Nat
  BY <1>1, SMT
<1> HIDE DEF xm, cy, ky, ty
<1>11. s * xm <= s * (ky + ty) /\ s * (ky + ty) = s * ky + s * ty
  BY <1>5, <1>6, SMT
<1>12. s * ty <= y2 * ty
  BY <1>1, <1>5, SMT
<1>13. /\ s * xm \in Nat /\ s * ky \in Nat /\ s * ty \in Nat /\ y2 * ty \in Nat
       /\ s * (x * y) \in Nat
  BY <1>1, <1>5, <1>10, SMT
<1>14. s * (x + k) * y + t * y * y2 >= s * x * y2
  <2> DEFINE a1 == s * xm
             b1 == s * ky
             c1 == s * ty
             d1 == y2 * ty
             e1 == s * (x * y)
             f1 == s * (ky + ty)
  <2>1. /\ a1 \in Nat /\ b1 \in Nat /\ c1 \in Nat /\ d1 \in Nat /\ e1 \in Nat
        /\ a1 <= f1 /\ f1 = b1 + c1 /\ c1 <= d1
    BY <1>11, <1>12, <1>13
  <2>2. /\ s * (x + k) * y = e1 + b1 /\ t * y * y2 = d1
        /\ s * x * y2 = e1 + a1
    BY <1>7, <1>8, <1>9
  <2> HIDE DEF a1, b1, c1, d1, e1, f1
  <2>3. e1 + b1 + d1 >= e1 + a1
    BY <2>1
  <2> QED BY <2>2, <2>3
<1> QED BY <1>1, <1>14 DEF HeldLoss, x, y, y2

(* Amounts compare like their multiples.                                   *)
LEMMA CancelFactor ==
  ASSUME NEW x \in Nat, NEW y \in Nat, NEW k \in Nat \ {0}, k * x <= k * y
  PROVE  x <= y
<1> SUFFICES ASSUME y + 1 <= x PROVE FALSE
  OBVIOUS
<1>1. k * (y + 1) <= k * x
  BY SMT
<1>2. k * (y + 1) = k * y + k /\ k * y \in Nat /\ k * x \in Nat
  BY SMT
<1> QED BY <1>1, <1>2

(* Losses of one deposit after another add up.                             *)
LEMMA LossesAdd ==
  ASSUME NEW s \in Nat, NEW a \in Nat, NEW n \in Nat, NEW a2 \in Nat,
         NEW n2 \in Nat, NEW a3 \in Nat, NEW n3 \in Nat,
         NEW t \in Nat, NEW t2 \in Nat,
         HeldLoss(s, a, n, a2, n2, t), HeldLoss(s, a2, n2, a3, n3, t2)
  PROVE  HeldLoss(s, a, n, a3, n3, t + t2)
<1> DEFINE x == a + 1
           y == n + 1
           x2 == a2 + 1
           y2 == n2 + 1
           x3 == a3 + 1
           y3 == n3 + 1
<1>1. /\ x \in Nat \ {0} /\ y \in Nat \ {0} /\ x2 \in Nat \ {0}
      /\ y2 \in Nat \ {0} /\ x3 \in Nat \ {0} /\ y3 \in Nat \ {0}
  OBVIOUS
<1>2. /\ s * x2 * y + t * y * y2 >= s * x * y2
      /\ s * x3 * y2 + t2 * y2 * y3 >= s * x2 * y3
  BY DEF HeldLoss
<1> HIDE DEF x, y, x2, y2, x3, y3
<1> DEFINE l  == s * x2 * y + t * y * y2
           r  == s * x * y2
           l2 == s * x3 * y2 + t2 * y2 * y3
           r2 == s * x2 * y3
           g  == s * x3 * y + (t + t2) * y * y3
           h  == s * x * y3
           w  == s * x2 * y * y3
<1>3. /\ l \in Nat /\ r \in Nat /\ l2 \in Nat /\ r2 \in Nat /\ g \in Nat
      /\ h \in Nat /\ w \in Nat
  <2>1. /\ s * x2 \in Nat /\ t * y \in Nat /\ s * x \in Nat /\ s * x3 \in Nat
        /\ t2 * y2 \in Nat /\ (t + t2) * y \in Nat
    BY <1>1, SMT
  <2>2. /\ s * x2 * y \in Nat /\ t * y * y2 \in Nat /\ s * x * y2 \in Nat
        /\ s * x3 * y2 \in Nat /\ t2 * y2 * y3 \in Nat /\ s * x2 * y3 \in Nat
        /\ s * x3 * y \in Nat /\ (t + t2) * y * y3 \in Nat
        /\ s * x * y3 \in Nat
    BY <1>1, <2>1, SMT
  <2>3. s * x2 * y * y3 \in Nat
    BY <1>1, <2>2, SMT
  <2> QED BY <2>2, <2>3
<1>4. r <= l /\ r2 <= l2
  BY <1>2
<1>5. /\ l * y3 = w + t * y * y2 * y3 /\ r * y3 = y2 * h
      /\ l2 * y = y2 * (s * x3 * y) + t2 * y * y2 * y3 /\ r2 * y = w
      /\ y2 * g = y2 * (s * x3 * y) + t * y * y2 * y3 + t2 * y * y2 * y3
  BY <1>1, SMT
<1> DEFINE u  == t * y * y2 * y3
           u2 == t2 * y * y2 * y3
           v  == y2 * (s * x3 * y)
<1>6. u \in Nat /\ u2 \in Nat /\ v \in Nat
  <2>1. t * y \in Nat /\ t2 * y \in Nat /\ s * x3 \in Nat
    BY <1>1, SMT
  <2>2. t * y * y2 \in Nat /\ t2 * y * y2 \in Nat /\ s * x3 * y \in Nat
    BY <1>1, <2>1, SMT
  <2> QED BY <1>1, <2>2, SMT
<1>7. /\ l * y3 = w + u /\ r * y3 = y2 * h /\ l2 * y = v + u2 /\ r2 * y = w
      /\ y2 * g = v + u + u2
  BY <1>5
<1> HIDE DEF l, r, l2, r2, g, h, w, u, u2, v
<1>8. r * y3 <= l * y3 /\ r2 * y <= l2 * y
  BY <1>1, <1>3, <1>4, SMT
<1>9. y2 * h <= w + u /\ w <= v + u2
  BY <1>7, <1>8
<1>10. y2 * h \in Nat /\ y2 * g \in Nat
  BY <1>1, <1>3, SMT
<1>11. y2 * h <= y2 * g
  BY <1>3, <1>6, <1>7, <1>9, <1>10
<1>12. h <= g
  BY <1>1, <1>3, <1>11, CancelFactor
<1>13. g >= h
  BY <1>3, <1>12
<1> QED BY <1>13 DEF HeldLoss, g, h, x, y, x3, y3

(* A new plan is funded with up to three deposits.                         *)
LEMMA CreditCosts ==
  ASSUME TypeOK, NEW p \in Plans, NEW lends \in BOOLEAN, lends,
         NEW c1 \in Nat, NEW c2 \in Nat, NEW c3 \in Nat,
         Credit(p, lends, c1, c2, c3)
  PROVE  HoldersLoseAtMost(DepositTolerance(c1) + DepositTolerance(c2)
                             + DepositTolerance(c3))
<1> DEFINE a  == PoolAssets
           n  == totalShares
           t1 == DepositTolerance(c1)
           t2 == DepositTolerance(c2)
           t3 == DepositTolerance(c3)
<1>1. a \in Nat /\ n \in Nat /\ t1 \in Nat /\ t2 \in Nat /\ t3 \in Nat
  BY PoolNumbers, ToleranceType
<1>2. LentInTurn(p, c1, c2, c3)
  BY CreditLends
<1>3. PICK k1, k2, k3, m1, m2, m3 \in Nat :
        /\ k1 \in Credits(c1) /\ k2 \in Credits(c2) /\ k3 \in Credits(c3)
        /\ m1 = Mint(c1, PoolAssets, totalShares)
        /\ m2 = Mint(c2, PoolAssets + k1, totalShares + m1)
        /\ m3 = Mint(c3, PoolAssets + k1 + k2, totalShares + m1 + m2)
        /\ PutInPool(p, k1 + k2 + k3, m1 + m2 + m3)
  BY <1>2 DEF LentInTurn
<1>4. /\ c1 <= k1 + t1 /\ c2 <= k2 + t2 /\ c3 <= k3 + t3
  BY <1>3, CreditsType
<1>5. /\ totalShares' = n + (m1 + m2 + m3)
      /\ PoolAssets' = a + (k1 + k2 + k3)
  <2>1. k1 + k2 + k3 \in Nat /\ m1 + m2 + m3 \in Nat
    BY <1>3
  <2> QED BY <1>3, <2>1, PutMoves
<1>6. (a + 1) * m1 <= c1 * (n + 1)
  BY <1>1, <1>3, MintPays
<1>7. (a + k1 + 1) * m2 <= c2 * (n + m1 + 1)
  <2>1. a + k1 \in Nat /\ n + m1 \in Nat
    BY <1>1, <1>3
  <2> QED BY <1>3, <2>1, MintPays
<1>8. (a + k1 + k2 + 1) * m3 <= c3 * (n + m1 + m2 + 1)
  <2>1. a + k1 + k2 \in Nat /\ n + m1 + m2 \in Nat
    BY <1>1, <1>3
  <2> QED BY <1>3, <2>1, MintPays
<1> HIDE DEF a, n, t1, t2, t3
<1> DEFINE a1 == a + k1
           a2 == a + k1 + k2
           a3 == a + k1 + k2 + k3
           n1 == n + m1
           n2 == n + m1 + m2
           n3 == n + m1 + m2 + m3
<1>9. /\ a1 \in Nat /\ a2 \in Nat /\ a3 \in Nat
      /\ n1 \in Nat /\ n2 \in Nat /\ n3 \in Nat
      /\ a2 = a1 + k2 /\ a3 = a2 + k3 /\ n2 = n1 + m2 /\ n3 = n2 + m3
      /\ n <= n1 /\ n <= n2
  BY <1>1, <1>3
<1>10. HeldLoss(n, a, n, a1, n1, t1)
  <2>1. n <= n /\ c1 <= k1 + t1
    BY <1>1, <1>4
  <2>2. HeldLoss(n, a, n, a + k1, n + m1, t1)
    BY <1>1, <1>3, <1>6, <2>1, DepositCosts
  <2> QED BY <2>2
<1>11. (a1 + 1) * m2 <= c2 * (n1 + 1) /\ (a2 + 1) * m3 <= c3 * (n2 + 1)
  BY <1>7, <1>8
<1> HIDE DEF a1, a2, a3, n1, n2, n3
<1>12. HeldLoss(n, a1, n1, a1 + k2, n1 + m2, t2)
  BY <1>1, <1>3, <1>4, <1>9, <1>11, DepositCosts
<1>13. HeldLoss(n, a2, n2, a2 + k3, n2 + m3, t3)
  BY <1>1, <1>3, <1>4, <1>9, <1>11, DepositCosts
<1>14. HeldLoss(n, a, n, a2, n2, t1 + t2)
  BY <1>1, <1>9, <1>10, <1>12, LossesAdd
<1>15. t1 + t2 \in Nat
  BY <1>1
<1>16. HeldLoss(n, a, n, a3, n3, (t1 + t2) + t3)
  BY <1>1, <1>9, <1>13, <1>14, <1>15, LossesAdd
<1>17. totalShares' = n3 /\ PoolAssets' = a3
  BY <1>1, <1>3, <1>5 DEF a3, n3
<1>18. HeldLoss(totalShares, PoolAssets, totalShares, PoolAssets', totalShares',
                (t1 + t2) + t3)
  BY <1>16, <1>17 DEF a, n
<1> QED BY <1>18 DEF HeldLoss, HoldersLoseAtMost, t1, t2, t3

(* Nothing is lost when the pool does not change.                          *)
LEMMA SamePoolCosts ==
  ASSUME TypeOK, NEW loss \in Nat, UNCHANGED <<totalShares, strategy, position>>
  PROVE  HoldersLoseAtMost(loss)
<1> DEFINE l == totalShares * (PoolAssets + 1) * (totalShares + 1)
           t == loss * (totalShares + 1) * (totalShares + 1)
<1>1. PoolAssets' = PoolAssets /\ PoolAssets \in Nat /\ totalShares \in Nat
  BY PoolNumbers DEF PoolAssets
<1>2. totalShares * (PoolAssets + 1) \in Nat /\ loss * (totalShares + 1) \in Nat
  BY <1>1, SMT
<1>3. l \in Nat /\ t \in Nat
  BY <1>1, <1>2, SMT
<1>4. HoldersLoseAtMost(loss) <=> l + t >= l
  BY <1>1 DEF HoldersLoseAtMost
<1> HIDE DEF l, t
<1> QED BY <1>3, <1>4

LEMMA NewPlanCosts ==
  ASSUME TypeOK, NEW g \in Nat, NEW z1 \in Nat, NEW z2 \in Nat,
         NetOf(g, fees.deposit) \in Nat, NewPlan(g, z1, z2)
  PROVE  HoldersLoseAtMost(DepositTolerance(NetOf(g, fees.deposit))
                             + DepositTolerance(z1) + DepositTolerance(z2))
<1> DEFINE c == NetOf(g, fees.deposit)
<1>1. PICK p \in Plans, u \in Users, s \in Stocks, a \in AmountsPerEpoch,
           to \in Users \cup {None}, lends \in BOOLEAN :
        CreatePlan(u, p, s, a, to, g, z1, z2, lends)
  BY DEF NewPlan
<1>2. Credit(p, lends, c, z1, z2)
  BY <1>1 DEF CreatePlan
<1> HIDE DEF c
<1>t. c \in Nat
  BY DEF c
<1>3. CASE lends
  BY <1>t, <1>2, <1>3, CreditCosts DEF c
<1>4. CASE ~lends
  <2>1. UNCHANGED <<totalShares, strategy, position>>
    BY <1>2, <1>4 DEF Credit, pool
  <2>2. DepositTolerance(c) + DepositTolerance(z1) + DepositTolerance(z2) \in Nat
    BY <1>t, ToleranceType
  <2> QED BY <2>1, <2>2, SamePoolCosts DEF c
<1> QED BY <1>3, <1>4

(* A withdrawal burns enough shares; the position may lose a rounding more.*)
LEMMA TakePrice ==
  ASSUME TypeOK, TypeOK', NEW p \in Plans, NEW c \in Nat, TakeFromPool(p, c),
         c <= ValueOf(boostShares[p])
  PROVE  PriceKept(Rounding)
<1>1. PoolAssets \in Nat /\ totalShares \in Nat /\ Burn(p, c) \in Nat
  BY PoolNumbers, BurnType
<1>2. c \in 0..PoolAssets /\ Burn(p, c) \in 0..totalShares
  BY <1>1 DEF TakeFromPool
<1>3. NotBelow(PoolAssets, totalShares, PoolAssets - c, totalShares - Burn(p, c))
  BY <1>1, <1>2, BurnPays, TakeKeepsPrice
<1>4. totalShares' = totalShares - Burn(p, c) /\ UNCHANGED strategy
  BY DEF TakeFromPool
<1>5. PICK cost \in Costs(c) :
        position' = [v \in Strategies |->
                       IF v = strategy THEN position[v] - cost ELSE position[v]]
  BY DEF TakeFromPool
<1>6. cost \in Nat /\ cost <= c + Rounding /\ Rounding \in Nat
  BY CostsType, ConstantTypes
<1>7. PoolAssets - c \in Nat /\ PoolAssets - c <= PoolAssets' + Rounding
  <2>1. CASE strategy = None
    <3>1. PoolAssets = 0 /\ PoolAssets' = 0
      BY <1>4, <2>1 DEF PoolAssets
    <3> QED BY <1>2, <1>6, <3>1
  <2>2. CASE strategy # None
    <3>1. strategy \in Strategies
      BY <2>2 DEF TypeOK, PoolTyped
    <3>2. PoolAssets' = PoolAssets - cost
      BY <1>4, <1>5, <2>2, <3>1 DEF PoolAssets
    <3> QED BY <1>1, <1>2, <1>6, <3>2
  <2> QED BY <2>1, <2>2
<1>8. NotBelow(PoolAssets, totalShares, PoolAssets - c, totalShares')
  BY <1>3, <1>4
<1> QED BY <1>6, <1>7, <1>8, PriceNotBelow

LEMMA LeavePrice ==
  ASSUME TypeOK, TypeOK', NEW p \in Plans, LeavePool(p)
  PROVE  PriceKept(Rounding)
<1>1. ValueOf(boostShares[p]) \in Nat /\ Rounding \in Nat
  BY PoolNumbers, ConstantTypes
<1>2. CASE boostShares[p] > 0
  BY <1>1, <1>2, TakePrice DEF LeavePool
<1>3. CASE ~(boostShares[p] > 0)
  BY <1>1, <1>3, SamePoolPrice DEF LeavePool, pool
<1> QED BY <1>2, <1>3

LEMMA CreditGiftPrice ==
  ASSUME TypeOK, TypeOK', NEW p \in Plans, NEW lends \in BOOLEAN,
         NEW c1 \in Nat, NEW c2 \in Nat, NEW c3 \in Nat,
         Credit(p, lends, c1, c2, c3), ~(totalShares' > totalShares)
  PROVE  PriceKept(Rounding)
<1>1. Rounding \in Nat
  BY ConstantTypes
<1>2. CASE lends
  BY <1>1, <1>2, CreditPuts, GiftPrice
<1>3. CASE ~lends
  BY <1>1, <1>3, SamePoolPrice DEF Credit, pool
<1> QED BY <1>2, <1>3

(* A plan's call that mints no shares.                                     *)
LEMMA PlanCallPrice ==
  ASSUME TypeOK, NEW p \in Plans, PlanCall(p), ~(totalShares' > totalShares)
  PROVE  PriceKept(Rounding)
<1>t. TypeOK' /\ Rounding \in Nat
  BY PlanCallTypes, ConstantTypes
<1>f. ASSUME NEW g \in Nat PROVE NetOf(g, fees.deposit) \in Nat
  <2>1. fees.deposit \in 0..MaxFeeBps
    BY DEF TypeOK, ConfigTyped, Fees
  <2> QED BY <2>1, FeeBelow
<1>1. ASSUME NEW u \in Users, NEW s \in Stocks, NEW a \in AmountsPerEpoch,
             NEW to \in Users \cup {None}, NEW g \in Deposits \cup {0},
             NEW z1 \in Zaps \cup {0}, NEW z2 \in Zaps \cup {0},
             NEW lends \in BOOLEAN,
             CreatePlan(u, p, s, a, to, g, z1, z2, lends)
      PROVE  PriceKept(Rounding)
  <2>1. NetOf(g, fees.deposit) \in Nat /\ z1 \in Nat /\ z2 \in Nat
    BY <1>f, ConstantTypes
  <2> QED BY <1>1, <1>t, <2>1, CreditGiftPrice DEF CreatePlan
<1>2. ASSUME NEW c \in Nat, Fund(p, c) PROVE PriceKept(Rounding)
  <2>1. boosted[p] \in BOOLEAN
    BY DEF TypeOK, FlagsTyped
  <2> QED BY <1>2, <1>t, <2>1, CreditGiftPrice DEF Fund
<1>3. ASSUME \/ \E b \in BOOLEAN : SetPlanPaused(p, b)
             \/ \E a \in AmountsPerEpoch : SetPlanAmount(p, a)
             \/ \E u \in Users : SetPlanRecipient(p, u)
             \/ \E a \in 1..Supply, perk \in Perks : Claim(p, a, perk)
             \/ PrunePlan(p)
      PROVE  PriceKept(Rounding)
  <2>1. UNCHANGED pool
    BY <1>3 DEF SetPlanPaused, SetPlanAmount, SetPlanRecipient, Claim, PrunePlan
  <2> QED BY <1>t, <2>1, SamePoolPrice DEF pool
<1>4. ASSUME Boost(p) PROVE PriceKept(Rounding)
  <2> DEFINE m == Mint(usdgIdle[p], PoolAssets, totalShares)
  <2>1. usdgIdle[p] \in Nat
    BY DEF TypeOK, IdleTyped
  <2>2. PICK k \in Credits(usdgIdle[p]) : PutInPool(p, k, m)
    BY <1>4 DEF Boost
  <2>3. k \in Nat /\ m \in Nat
    BY <2>1, CreditsType, PoolNumbers, MintType
  <2> HIDE DEF m
  <2> QED BY <1>t, <2>2, <2>3, GiftPrice
<1>5. ASSUME Unboost(p) \/ \E perk \in Perks : ClosePlan(p, perk)
      PROVE  PriceKept(Rounding)
  BY <1>t, <1>5, LeavePrice DEF Unboost, ClosePlan
<1>6. ASSUME NEW a \in 1..Supply, WithdrawIdle(p, a) PROVE PriceKept(Rounding)
  <2> DEFINE first == Smaller(a, usdgIdle[p])
             worth == ValueOf(boostShares[p])
  <2>1. /\ IF a > first THEN TakeFromPool(p, a - first) ELSE UNCHANGED pool
        /\ a <= usdgIdle[p] + worth
    BY <1>6 DEF WithdrawIdle
  <2>2. a \in Nat /\ usdgIdle[p] \in Nat /\ worth \in Nat
    BY ConstantTypes, PoolNumbers DEF TypeOK, IdleTyped
  <2> HIDE DEF worth
  <2>3. CASE a > first
    <3>1. a - first \in Nat /\ a - first <= worth
      BY <2>1, <2>2, <2>3 DEF Smaller
    <3> QED BY <1>t, <2>1, <2>3, <3>1, TakePrice DEF worth
  <2>4. CASE ~(a > first)
    BY <1>t, <2>1, <2>4, SamePoolPrice DEF pool
  <2> QED BY <2>3, <2>4
<1>7. ASSUME NEW g \in Deposits, DepositUSDG(p, g) PROVE PriceKept(Rounding)
  BY <1>7, <1>2, <1>f, ConstantTypes DEF DepositUSDG
<1>8. ASSUME NEW z \in Zaps, DepositWETH(p, z) PROVE PriceKept(Rounding)
  BY <1>8, <1>2, ConstantTypes DEF DepositWETH
<1> QED BY <1>1, <1>3, <1>4, <1>5, <1>6, <1>7, <1>8 DEF PlanCall

(* A page burns for every plan what that plan's part of the withdrawal is  *)
(* worth, so it burns enough in all.                                       *)
LEMMA PagePrice ==
  ASSUME TypeOK, TypeOK', NEW lent \in [Plans -> Nat], NEW burned \in [Plans -> Nat],
         PoolTaken(lent, burned),
         \A p \in Plans : lent[p] <= ValueOf(boostShares[p])
  PROVE  PriceKept(Rounding)
<1> DEFINE n     == totalShares + 1
           d     == PoolAssets + 1
           taken == [p \in Plans |-> n * lent[p]]
           paid  == [p \in Plans |-> d * burned[p]]
<1>1. n \in Nat \ {0} /\ d \in Nat \ {0} /\ PoolAssets \in Nat /\ totalShares \in Nat
  BY PoolNumbers
<1>2. ASSUME NEW p \in Plans
      PROVE  taken[p] \in Nat /\ paid[p] \in Nat /\ taken[p] <= paid[p]
  <2>1. lent[p] \in Nat /\ burned[p] \in Nat
    OBVIOUS
  <2>2. n * lent[p] \in Nat /\ d * burned[p] \in Nat
    BY <1>1, <2>1, SMT
  <2>3. CASE lent[p] > 0
    <3>1. burned[p] = Burn(p, lent[p])
      BY <2>3 DEF PoolTaken
    <3>2. lent[p] * n <= d * burned[p]
      BY <2>1, <3>1, BurnPays
    <3> HIDE DEF n, d
    <3>3. lent[p] * n = n * lent[p]
      BY <1>1, <2>1, SMT
    <3> QED BY <2>2, <3>2, <3>3
  <2>4. CASE ~(lent[p] > 0)
    <3>1. lent[p] = 0 /\ burned[p] = 0
      BY <2>1, <2>4 DEF PoolTaken
    <3> HIDE DEF n, d
    <3>2. n * lent[p] = 0 /\ d * burned[p] = 0
      BY <1>1, <3>1, SMT
    <3> QED BY <2>2, <3>2
  <2> QED BY <2>3, <2>4
<1>3. taken \in [Plans -> Nat] /\ paid \in [Plans -> Nat]
  BY <1>2
<1> HIDE DEF n, d
<1>4. Total(taken) = n * Total(lent) /\ Total(paid) = d * Total(burned)
  BY <1>1, PlansFinite, TotalScale
<1> HIDE DEF taken, paid
<1>5. Total(taken) <= Total(paid)
  BY <1>2, <1>3, PlansFinite, TotalMonotone
<1>6. Total(lent) \in Nat /\ Total(burned) \in Nat
  BY PlansFinite, TotalNat
<1>7. Total(lent) * n <= d * Total(burned)
  <2>1. Total(lent) * n = n * Total(lent)
    BY <1>1, <1>6, SMT
  <2> QED BY <1>4, <1>5, <2>1
<1>8. Total(lent) \in 0..PoolAssets /\ Total(burned) \in 0..totalShares
  BY <1>1, <1>6 DEF PoolTaken
<1>9. NotBelow(PoolAssets, totalShares, PoolAssets - Total(lent),
               totalShares - Total(burned))
  BY <1>1, <1>7, <1>8, TakeKeepsPrice DEF n, d
<1>10. NotBelow(PoolAssets, totalShares, PoolAssets - Total(lent), totalShares')
  BY <1>9 DEF PoolTaken
<1>11. /\ PoolAssets - Total(lent) \in Nat /\ Rounding \in Nat
       /\ PoolAssets - Total(lent) <= PoolAssets' + Rounding
  <2>1. PoolAssets' \in Nat
    BY DEF TypeOK, PoolTyped, PoolAssets
  <2> QED BY <1>1, <1>6, <1>8, <2>1, ConstantTypes DEF PoolTaken
<1> QED BY <1>10, <1>11, PriceNotBelow

(* What a strategy earns stays in its position.                            *)
LEMMA GainPrice ==
  ASSUME TypeOK, TypeOK', NEW v \in Strategies, NEW a \in Gains,
         StrategyGains(v, a), NEW slack \in Nat
  PROVE  PriceKept(slack)
<1>1. a \in Nat /\ position \in [Strategies -> Nat]
  BY ConstantTypes DEF TypeOK, PoolTyped
<1>2. /\ strategy' = strategy /\ totalShares' = totalShares
      /\ position' = [position EXCEPT ![v] = @ + a]
  BY DEF StrategyGains
<1>3. PoolAssets' >= PoolAssets
  <2>1. CASE strategy = None
    BY <1>2, <2>1 DEF PoolAssets
  <2>2. CASE strategy # None
    <3>1. strategy \in Strategies
      BY <2>2 DEF TypeOK, PoolTyped
    <3>2. position'[strategy] >= position[strategy]
      BY <1>1, <1>2, <3>1
    <3> QED BY <1>2, <2>2, <3>2 DEF PoolAssets
  <2> QED BY <2>1, <2>2
<1> QED BY <1>2, <1>3, SamePrice

LEMMA OtherStepsKeepPrice ==
  ASSUME TypeOK, TypeOK', NEW u,
         \/ SweepDust \/ SkimUsdg \/ SkimWeth
         \/ \E s \in Stocks : SkimStock(s)
         \/ \E b \in BOOLEAN : SetVaultPaused(b)
         \/ \E f \in FeeChoices : SetFees(f)
         \/ \E to \in Treasuries : SetFeeRecipient(to)
         \/ \E k \in KnobChoices : SetKnobs(k)
         \/ EpochPasses
         \/ \E s \in Stocks, b \in BOOLEAN : SetPurchasable(s, b)
         \/ \E s \in Stocks : MarketTurns(s)
         \/ \E a \in Gifts : GiveUsdg(a) \/ GiveWeth(a)
         \/ \E s \in Stocks, a \in Gifts : GiveStock(s, a)
         \/ UNCHANGED vars
         \/ \E s \in Stocks, perk \in Perks : ClaimAll(u, s, perk)
  PROVE  PriceKept(Rounding)
<1>1. UNCHANGED pool
  <2>1. CASE \/ SweepDust \/ SkimUsdg \/ SkimWeth
             \/ \E s \in Stocks : SkimStock(s)
    BY <2>1 DEF SweepDust, SkimUsdg, SkimWeth, SkimStock
  <2>2. CASE \/ \E b \in BOOLEAN : SetVaultPaused(b)
             \/ \E f \in FeeChoices : SetFees(f)
             \/ \E to \in Treasuries : SetFeeRecipient(to)
             \/ \E k \in KnobChoices : SetKnobs(k)
    BY <2>2 DEF SetVaultPaused, SetFees, SetFeeRecipient, SetKnobs, state
  <2>3. CASE \/ EpochPasses
             \/ \E s \in Stocks, b \in BOOLEAN : SetPurchasable(s, b)
             \/ \E s \in Stocks : MarketTurns(s)
    BY <2>3 DEF EpochPasses, SetPurchasable, MarketTurns, state
  <2>4. CASE \/ \E a \in Gifts : GiveUsdg(a) \/ GiveWeth(a)
             \/ \E s \in Stocks, a \in Gifts : GiveStock(s, a)
    BY <2>4 DEF GiveUsdg, GiveWeth, GiveStock
  <2>5. CASE UNCHANGED vars \/ \E s \in Stocks, perk \in Perks : ClaimAll(u, s, perk)
    BY <2>5 DEF vars, ClaimAll
  <2> QED BY <2>1, <2>2, <2>3, <2>4, <2>5
<1> QED BY <1>1, ConstantTypes, SamePoolPrice DEF pool

(* What a step may do to the price of a share that is out.                 *)
PriceStep ==
  totalShares > 0 =>
    IF totalShares' > totalShares
    THEN /\ \A p \in Plans :
              Boost(p) => PriceKept(DepositTolerance(usdgIdle[p]))
         /\ \A p \in Plans, g \in Deposits : DepositUSDG(p, g) =>
              PriceKept(DepositTolerance(NetOf(g, fees.deposit)))
         /\ \A p \in Plans, z \in Zaps : DepositWETH(p, z) =>
              PriceKept(DepositTolerance(z))
         /\ \A g \in Deposits \cup {0}, z1, z2 \in Zaps \cup {0} :
              NewPlan(g, z1, z2) => HoldersLoseAtMost(
                DepositTolerance(NetOf(g, fees.deposit))
                  + DepositTolerance(z1) + DepositTolerance(z2))
    ELSE PriceKept(Rounding) \/ StrategyFails

LEMMA StepPrice ==
  ASSUME PoolInv, [Next]_vars
  PROVE  PriceStep
<1>t. TypeOK /\ TypeOK' /\ Rounding \in Nat
  BY NextTypes, ConstantTypes DEF PoolInv, ListInv
<1>f. ASSUME NEW g \in Nat PROVE NetOf(g, fees.deposit) \in Nat
  <2>1. fees.deposit \in 0..MaxFeeBps
    BY <1>t DEF TypeOK, ConfigTyped, Fees
  <2> QED BY <2>1, FeeBelow
<1>1. ASSUME NEW p \in Plans, NEW g \in Deposits, DepositUSDG(p, g)
      PROVE  PriceKept(DepositTolerance(NetOf(g, fees.deposit)))
  <2>1. NetOf(g, fees.deposit) \in Nat
    BY <1>f, ConstantTypes
  <2> QED BY <1>t, <1>1, <2>1, FundPrice DEF DepositUSDG
<1>2. ASSUME NEW p \in Plans, NEW z \in Zaps, DepositWETH(p, z)
      PROVE  PriceKept(DepositTolerance(z))
  BY <1>t, <1>2, ConstantTypes, FundPrice DEF DepositWETH
<1>3. ASSUME NEW g \in Deposits \cup {0}, NEW z1 \in Zaps \cup {0},
             NEW z2 \in Zaps \cup {0}, NewPlan(g, z1, z2)
      PROVE  HoldersLoseAtMost(DepositTolerance(NetOf(g, fees.deposit))
                                 + DepositTolerance(z1) + DepositTolerance(z2))
  <2>1. g \in Nat /\ z1 \in Nat /\ z2 \in Nat
    BY ConstantTypes
  <2>2. NetOf(g, fees.deposit) \in Nat
    BY <1>f, <2>1
  <2> QED BY <1>t, <1>3, <2>1, <2>2, NewPlanCosts
<1>4. ASSUME ~(totalShares' > totalShares)
      PROVE  PriceKept(Rounding) \/ StrategyFails
  <2>1. ASSUME NEW p \in Plans, PlanCall(p) PROVE PriceKept(Rounding)
    BY <1>t, <1>4, <2>1, PlanCallPrice
  <2>2. ASSUME NEW s \in Stocks, KeeperCall(s) PROVE PriceKept(Rounding)
    <3>1. CASE UNCHANGED pool
      BY <1>t, <3>1, SamePoolPrice DEF pool
    <3> QED BY <1>t, <2>2, <3>1, PagePool, PagePrice
  <2>3. ASSUME AdminCall PROVE PriceKept(Rounding) \/ StrategyFails
    BY <1>t, <2>3, OtherStepsKeepPrice DEF AdminCall, StrategyFails
  <2>4. ASSUME Environment PROVE PriceKept(Rounding) \/ StrategyFails
    BY <1>t, <2>4, GainPrice, OtherStepsKeepPrice DEF Environment, StrategyFails
  <2>5. ASSUME \/ UNCHANGED vars
               \/ \E u \in Users, s \in Stocks, perk \in Perks :
                    ClaimAll(u, s, perk)
        PROVE  PriceKept(Rounding)
    BY <1>t, <2>5, OtherStepsKeepPrice
  <2> QED BY <2>1, <2>2, <2>3, <2>4, <2>5 DEF Next
<1> QED BY <1>t, <1>1, <1>2, <1>3, <1>4, BoostPrice DEF PriceStep

(* What a call may cost those who hold boost shares is what BoostLib       *)
(* tolerates: a deposit its shortfall of credit (three of them when a new  *)
(* plan is funded three ways), an exit or a page one rounding of the       *)
(* strategy; only a losing strategy or a lossy migration costs more.       *)
THEOREM BoostPriceHolds == Spec => BoostPriceKept
<1>1. PoolInv /\ [Next]_vars => PriceStep
  BY StepPrice
<1> QED BY <1>1, PoolInvariant, PTL DEF Spec, BoostPriceKept, PriceStep

-----------------------------------------------------------------------------
(* The checked subtractions of a page.                                     *)

(* The subtractions BuyPage makes for a spend, whatever the swap returns.  *)
NothingWraps(s, spend, perk, bought, unspent) ==
  LET fee    == [p \in Plans |-> PurchaseFee(p, perk, spend[p])]
      net    == [p \in Plans |-> spend[p] - fee[p]]
      lent   == FromBoost(spend)
      burned == [p \in Plans |-> IF lent[p] > 0 THEN Burn(p, lent[p]) ELSE 0]
      left   == Smaller(unspent, Total(net))
      back   == ProRata(left, net)
      pot    == bought + dustPot[s]
      paid   == Total(net) - left + Total(fee)
  IN /\ Total(spend) - Total(lent) <= totalUsdgIdle
     /\ Total(burned) <= totalShares
     /\ Total(ProRata(pot, net)) <= pot
     /\ Total(ProRata(pot, net)) <= stockBal[s] + bought
     /\ Total(back) <= left
     /\ paid <= usdgBal + Total(lent)
     /\ dust.usdg + left - Total(back) <= usdgBal + Total(lent) - paid
     /\ dust.weth <= wethBal

PagesFit ==
  \A s \in Stocks, spend \in [Plans -> Nat], perk \in Perks,
     bought \in Nat, unspent \in Nat :
    (\E p \in Plans : PurchaseFee(p, perk, spend[p]) < spend[p])
      => NothingWraps(s, spend, perk, bought, unspent)

(* Parts in proportion never exceed the whole.                             *)
LEMMA ProRataFits ==
  ASSUME NEW pot \in Nat, NEW net \in [Plans -> Nat], Total(net) > 0
  PROVE  Total(ProRata(pot, net)) <= pot
<1> DEFINE n     == Total(net)
           share == ProRata(pot, net)
           whole == [p \in Plans |-> pot * net[p]]
           parts == [p \in Plans |-> n * share[p]]
<1>1. n \in Nat \ {0}
  BY PlansFinite, TotalNat
<1>2. share \in [Plans -> Nat]
  BY ProRataType
<1>3. ASSUME NEW p \in Plans
      PROVE  whole[p] \in Nat /\ parts[p] \in Nat /\ parts[p] <= whole[p]
  <2> DEFINE x == pot * net[p]
             q == x \div n
  <2>1. share[p] = q
    BY DEF ProRata, MulDiv
  <2> HIDE DEF n, share
  <2>2. x \in Nat
    BY SMT
  <2> HIDE DEF x
  <2>3. q \in Nat /\ n * q <= x
    BY <1>1, <2>2, DivLaw
  <2> HIDE DEF q
  <2>4. n * q \in Nat
    BY <1>1, <2>3, SMT
  <2> QED BY <2>1, <2>2, <2>3, <2>4 DEF x
<1>4. whole \in [Plans -> Nat] /\ parts \in [Plans -> Nat]
  <2> HIDE DEF n, share
  <2> QED BY <1>3
<1> HIDE DEF share
<1>5. Total(whole) = pot * n
  BY PlansFinite, TotalScale
<1> HIDE DEF n
<1>6. Total(parts) = n * Total(share)
  BY <1>1, <1>2, PlansFinite, TotalScale
<1> HIDE DEF whole, parts
<1>7. n * Total(share) <= pot * n
  BY <1>3, <1>4, <1>5, <1>6, PlansFinite, TotalMonotone
<1>8. Total(share) <= pot
  <2> DEFINE k == Total(share)
  <2>1. k \in Nat
    BY <1>2, PlansFinite, TotalNat
  <2>2. n * k <= pot * n
    BY <1>7
  <2> HIDE DEF k
  <2> SUFFICES ASSUME pot + 1 <= k PROVE FALSE
    BY <2>1 DEF k
  <2>3. n * (pot + 1) <= n * k
    BY <1>1, <2>1, SMT
  <2>4. n * (pot + 1) = pot * n + n /\ pot * n \in Nat /\ n * k \in Nat
    BY <1>1, <2>1, SMT
  <2> QED BY <1>1, <2>2, <2>3, <2>4
<1> QED BY <1>8 DEF share

(* No subtraction of a page's bookkeeping wraps, whatever plans, perks and *)
(* the swap's outcome are: the balances behind every amount of the page    *)
(* are there (advanceEpoch, _collect, _distribute).                        *)
THEOREM PagesAlwaysFit == Spec => []PagesFit
<1>1. ASSUME TypeOK, BalancesBooked, IdleAgrees, SharesAgree, StockAgrees,
             NEW s \in Stocks, NEW spend \in [Plans -> Nat], NEW perk \in Perks,
             NEW bought \in Nat, NEW unspent \in Nat,
             \E p \in Plans : PurchaseFee(p, perk, spend[p]) < spend[p]
      PROVE  NothingWraps(s, spend, perk, bought, unspent)
  <2> DEFINE fee    == [p \in Plans |-> PurchaseFee(p, perk, spend[p])]
             net    == [p \in Plans |-> spend[p] - fee[p]]
             lent   == FromBoost(spend)
             burned == [p \in Plans |-> IF lent[p] > 0 THEN Burn(p, lent[p]) ELSE 0]
             left   == Smaller(unspent, Total(net))
             back   == ProRata(left, net)
             pot    == bought + dustPot[s]
             paid   == Total(net) - left + Total(fee)
  <2>1. \A p \in Plans : fee[p] \in 0..spend[p]
    BY <1>1, PurchaseFeeType
  <2>2. /\ fee \in [Plans -> Nat] /\ net \in [Plans -> Nat]
        /\ \A p \in Plans : spend[p] = net[p] + fee[p]
        /\ \E p \in Plans : net[p] # 0
    <3>1. ASSUME NEW p \in Plans, PurchaseFee(p, perk, spend[p]) < spend[p]
          PROVE  net[p] # 0
      <4>1. fee[p] \in 0..spend[p] /\ fee[p] < spend[p]
        BY <2>1, <3>1
      <4> HIDE DEF fee
      <4> QED BY <4>1
    <3>2. \E p \in Plans : net[p] # 0
      BY <1>1, <3>1
    <3>3. fee \in [Plans -> Nat]
      BY <2>1
    <3> HIDE DEF fee
    <3>4. \A p \in Plans : net[p] \in Nat /\ spend[p] = net[p] + fee[p]
      BY <2>1
    <3> QED BY <3>2, <3>3, <3>4
  <2>3. lent \in [Plans -> Nat] /\ \A p \in Plans : spend[p] - lent[p] <= usdgIdle[p]
    BY <1>1, FromBoostTypes
  <2>4. \A p \in Plans : burned[p] \in 0..boostShares[p]
    <3> TAKE p \in Plans
    <3>1. lent[p] \in Nat /\ boostShares[p] \in Nat
      BY <1>1, <2>3, ConstantTypes DEF TypeOK, PoolTyped
    <3>2. Burn(p, lent[p]) \in 0..boostShares[p]
      BY <1>1, <3>1, BurnType
    <3> QED BY <3>1, <3>2
  <2> HIDE DEF fee, net, lent, burned
  <2>5. /\ Total(fee) \in Nat /\ Total(net) \in Nat /\ Total(lent) \in Nat
        /\ Total(spend) = Total(net) + Total(fee) /\ Total(net) > 0
    <3>1. Total(net) # 0
      BY <2>2, PlansFinite, TotalZero
    <3> QED BY <2>2, <2>3, <3>1, PlansFinite, TotalNat, TotalPlus
  <2>6. left \in Nat /\ left <= Total(net) /\ pot \in Nat
    BY <1>1, <2>5 DEF Smaller, TypeOK, ResidueTyped
  <2> HIDE DEF left
  <2>7. Total(back) <= left /\ Total(ProRata(pot, net)) <= pot
    BY <2>2, <2>5, <2>6, ProRataFits
  <2>8. Total(back) \in Nat /\ Total(ProRata(pot, net)) \in Nat
    <3>1. back \in [Plans -> Nat] /\ ProRata(pot, net) \in [Plans -> Nat]
      BY <2>2, <2>5, <2>6, ProRataType
    <3> QED BY <3>1, PlansFinite, TotalNat
  <2> HIDE DEF back
  <2>9. Total(spend) <= totalUsdgIdle + Total(lent)
    <3> DEFINE have == [p \in Plans |-> usdgIdle[p] + lent[p]]
    <3>1. usdgIdle \in [Plans -> Nat]
      BY <1>1 DEF TypeOK, IdleTyped
    <3>2. have \in [Plans -> Nat] /\ \A p \in Plans : have[p] = usdgIdle[p] + lent[p]
      BY <2>3, <3>1
    <3> HIDE DEF have
    <3>3. \A p \in Plans : spend[p] <= have[p]
      BY <2>3, <3>1, <3>2
    <3>4. Total(spend) <= Total(have)
      BY <3>2, <3>3, PlansFinite, TotalMonotone
    <3>5. Total(have) = Total(usdgIdle) + Total(lent)
      BY <2>3, <3>1, <3>2, TotalPlus
    <3> QED BY <1>1, <3>4, <3>5 DEF IdleAgrees
  <2>10. Total(burned) <= totalShares
    <3>1. boostShares \in [Plans -> Nat]
      BY <1>1, ConstantTypes DEF TypeOK, PoolTyped
    <3>2. burned \in [Plans -> Nat] /\ \A p \in Plans : burned[p] <= boostShares[p]
      <4>1. burned = [p \in Plans |-> burned[p]]
        BY DEF burned
      <4> QED BY <2>4, <3>1, <4>1
    <3> QED BY <1>1, <3>1, <3>2, PlansFinite, TotalMonotone DEF SharesAgree
  <2>11. /\ totalUsdgIdle \in Nat /\ dust.usdg \in Nat /\ unbooked.usdg \in Nat
         /\ usdgBal = totalUsdgIdle + dust.usdg + unbooked.usdg
    BY <1>1 DEF TypeOK, IdleTyped, ResidueTyped, BalancesBooked, UsdgBooked
  <2>12. dust.weth <= wethBal
    <3>1. dust.weth \in Nat /\ unbooked.weth \in Nat
      BY <1>1 DEF TypeOK, ResidueTyped
    <3> QED BY <1>1, <3>1 DEF BalancesBooked, WethBooked
  <2>13. pot <= stockBal[s] + bought
    <3>1. /\ totalStockAccrued[s] \in Nat /\ dustPot[s] \in Nat
          /\ unbooked.stock[s] \in Nat
          /\ stockBal[s] = totalStockAccrued[s] + dustPot[s] + unbooked.stock[s]
      BY <1>1 DEF TypeOK, AccruedTyped, ResidueTyped, BalancesBooked, StockBooked
    <3> QED BY <3>1
  <2>14. Total(spend) - Total(lent) <= totalUsdgIdle
    BY <2>5, <2>9, <2>11
  <2>15. Total(ProRata(pot, net)) <= stockBal[s] + bought
    <3>1. stockBal[s] + bought \in Nat
      BY <1>1 DEF TypeOK, AccruedTyped
    <3> QED BY <2>6, <2>7, <2>8, <2>13, <3>1
  <2>16. /\ paid <= usdgBal + Total(lent)
         /\ dust.usdg + left - Total(back) <= usdgBal + Total(lent) - paid
    BY <2>5, <2>6, <2>7, <2>8, <2>9, <2>11
  <2> QED BY <2>7, <2>10, <2>12, <2>14, <2>15, <2>16
          DEF NothingWraps, fee, net, lent, burned, left, back
<1>2. TypeOK /\ BalancesBooked /\ TotalsAgree => PagesFit
  BY <1>1, AgreeParts DEF PagesFit
<1> QED BY <1>2, TypeCorrect, BalancesAreBooked, TotalsAlwaysAgree, PTL

-----------------------------------------------------------------------------
(* What the vault owes is there: no payout reverts.                        *)

(* The books behind a payout of a: of the idle balance of p, of its        *)
(* boosted balance, and of the stock s, a[q] to every plan q.              *)
IdleFits(p, a) == a <= usdgIdle[p] /\ a <= totalUsdgIdle /\ a <= usdgBal

PoolFits(p, a) == a <= PoolAssets /\ Burn(p, a) <= totalShares

PayFits(s, a) ==
  /\ \A q \in Plans : a[q] <= stockAccrued[q]
  /\ Total(a) <= totalStockAccrued[s] /\ Total(a) <= stockBal[s]
  /\ \A u \in Users : ByOwner(u, a) <= userStockAccrued[u][s]

(* Whatever a plan holds is there to be paid: its idle balance, what its   *)
(* shares are worth, and any part of the stock it has accrued, alone or    *)
(* together with other plans.                                              *)
OwedIsThere ==
  /\ \A p \in Plans : \A a \in 0..usdgIdle[p] : IdleFits(p, a)
  /\ \A p \in Plans : \A a \in 0..ValueOf(boostShares[p]) : PoolFits(p, a)
  /\ \A s \in Stocks, a \in [Plans -> Nat] :
       (\A p \in Plans : a[p] <= OfStock(s, stockAccrued)[p]) => PayFits(s, a)

(* One of several amounts is at most their sum.                            *)
LEMMA PartOfTotal ==
  ASSUME NEW f \in [Plans -> Nat], NEW p \in Plans
  PROVE  f[p] <= Total(f)
<1> DEFINE part == [q \in Plans |-> IF q = p THEN f[p] ELSE 0]
<1>1. part \in [Plans -> Nat] /\ \A q \in Plans : part[q] <= f[q]
  OBVIOUS
<1>2. Total(part) = f[p]
  BY PlansFinite, TotalSingle
<1> HIDE DEF part
<1> QED BY <1>1, <1>2, PlansFinite, TotalMonotone

(* A plan's boosted balance can be taken out, whole or in part.            *)
LEMMA WorthFits ==
  ASSUME TypeOK, SharesAgree, NEW p \in Plans, NEW a \in 0..ValueOf(boostShares[p])
  PROVE  PoolFits(p, a)
<1> DEFINE worth == [q \in Plans |-> ValueOf(boostShares[q])]
<1>1. /\ worth \in [Plans -> Nat] /\ boostShares \in [Plans -> Nat]
      /\ PoolAssets \in Nat /\ totalShares \in Nat
      /\ ValueOf(boostShares[p]) \in Nat /\ a \in Nat /\ a <= worth[p]
  BY PoolNumbers
<1>2. Total(worth) <= PoolAssets /\ Total(worth) \in Nat
  BY <1>1, WorthCovered, PlansFinite, TotalNat
<1> HIDE DEF worth
<1>3. worth[p] <= Total(worth) /\ boostShares[p] <= totalShares
  BY <1>1, PartOfTotal DEF SharesAgree
<1>4. a <= PoolAssets
  BY <1>1, <1>2, <1>3
<1>5. Burn(p, a) \in 0..boostShares[p]
  BY <1>1, BurnType
<1> QED BY <1>1, <1>3, <1>4, <1>5 DEF PoolFits

(* Stock accrued by plans of s is booked, to their owners too, and held.   *)
LEMMA AccruedFits ==
  ASSUME TypeOK, BalancesBooked, StockAgrees, NEW s \in Stocks,
         NEW a \in [Plans -> Nat],
         \A p \in Plans : a[p] <= OfStock(s, stockAccrued)[p]
  PROVE  PayFits(s, a)
<1>1. \A p \in Plans : stockAccrued[p] \in Nat /\ a[p] \in Nat
  BY DEF TypeOK, AccruedTyped
<1>2. OfStock(s, stockAccrued) \in [Plans -> Nat]
  BY <1>1 DEF OfStock
<1>3. \A p \in Plans : /\ a[p] <= stockAccrued[p]
                       /\ a[p] # 0 => stock[p] = s
  BY <1>1 DEF OfStock
<1>4. Total(a) <= totalStockAccrued[s]
  BY <1>2, PlansFinite, TotalMonotone DEF StockAgrees
<1>5. Total(a) <= stockBal[s]
  <2>1. Total(a) \in Nat
    BY PlansFinite, TotalNat
  <2>2. /\ totalStockAccrued[s] \in Nat /\ dustPot[s] \in Nat
        /\ unbooked.stock[s] \in Nat /\ stockBal[s] \in Nat
    BY DEF TypeOK, AccruedTyped, ResidueTyped
  <2>3. stockBal[s] = totalStockAccrued[s] + dustPot[s] + unbooked.stock[s]
    BY DEF BalancesBooked, StockBooked
  <2> QED BY <1>4, <2>1, <2>2, <2>3
<1>6. ASSUME NEW u \in Users PROVE ByOwner(u, a) <= userStockAccrued[u][s]
  <2> DEFINE part == [p \in Plans |-> IF owner[p] = u THEN a[p] ELSE 0]
             all  == OfUser(u, s, stockAccrued)
  <2>1. /\ part \in [Plans -> Nat] /\ all \in [Plans -> Nat]
        /\ \A p \in Plans : part[p] <= all[p]
    BY <1>1, <1>3 DEF OfUser
  <2> HIDE DEF part, all
  <2>2. Total(part) <= Total(all)
    BY <2>1, PlansFinite, TotalMonotone
  <2> QED BY <2>2 DEF StockAgrees, ByOwner, part, all
<1> QED BY <1>3, <1>4, <1>5, <1>6 DEF PayFits

(* No payout reverts for want of books or balances: the checked            *)
(* subtractions of withdrawIdle, setPlanBoost(false), claim, claimAll and  *)
(* closePlan never wrap, whatever the order of everybody's calls (the      *)
(* running totals of PlanVault and the shares of BoostLib).                *)
THEOREM OwedIsAlwaysThere == Spec => []OwedIsThere
<1>1. ASSUME TypeOK, BalancesBooked, IdleAgrees,
             NEW p \in Plans, NEW a \in 0..usdgIdle[p]
      PROVE  IdleFits(p, a)
  <2>1. usdgIdle \in [Plans -> Nat]
    BY <1>1 DEF TypeOK, IdleTyped
  <2>2. usdgIdle[p] <= totalUsdgIdle
    BY <1>1, <2>1, PartOfTotal DEF IdleAgrees
  <2>3. /\ totalUsdgIdle \in Nat /\ dust.usdg \in Nat /\ unbooked.usdg \in Nat
        /\ usdgBal = totalUsdgIdle + dust.usdg + unbooked.usdg
    BY <1>1 DEF TypeOK, IdleTyped, ResidueTyped, BalancesBooked, UsdgBooked
  <2> QED BY <2>1, <2>2, <2>3 DEF IdleFits
<1>2. TypeOK /\ BalancesBooked /\ TotalsAgree => OwedIsThere
  BY <1>1, WorthFits, AccruedFits, AgreeParts DEF OwedIsThere
<1> QED BY <1>2, TypeCorrect, BalancesAreBooked, TotalsAlwaysAgree, PTL

-----------------------------------------------------------------------------
(* An owner can always close a plan.                                       *)

(* The transfers of a payout of stock are accepted: fee and payment.       *)
StockTaken(s, a, perk) ==
  \A q \in Plans : a[q] > 0 =>
    /\ Takes(s, fees.to, FeeOf(a[q], ClaimFee(q, perk)))
    /\ Takes(s, recipient[q], a[q])

CloseFits(p, perk) ==
  /\ Exists(p)
  /\ boosted[p] \/ boostShares[p] = 0
  /\ boostShares[p] > 0 => PoolFits(p, ValueOf(boostShares[p]))
  /\ PayUsdg(p, Worth(p))
  /\ IdleFits(p, usdgIdle[p])
  /\ StockTaken(stock[p], Only(p, stockAccrued[p]), perk)
  /\ PayFits(stock[p], Only(p, stockAccrued[p]))

LEMMA NoFee ==
  ASSUME NEW a \in Nat, NEW bps \in Nat, a = 0 \/ bps = 0
  PROVE  FeeOf(a, bps) = 0
<1>1. a * bps = 0
  BY SMT
<1>2. BPS \in Nat \ {0}
  BY FeeAssumption
<1>3. 0 \div BPS \in Nat /\ BPS * (0 \div BPS) <= 0
  BY <1>2, DivLaw
<1> DEFINE q == 0 \div BPS
<1>4. q \in Nat /\ BPS * q <= 0
  BY <1>3
<1> HIDE DEF q
<1>5. q = 0
  <2> SUFFICES ASSUME 1 <= q PROVE FALSE
    BY <1>4
  <2>1. BPS * q >= BPS /\ BPS * q \in Nat
    BY <1>2, <1>4, SMT
  <2> QED BY <1>2, <1>4, <2>1
<1> QED BY <1>1, <1>5 DEF FeeOf, MulDiv, q

(* Every guard of closePlan holds for every plan, unless USDG or its stock *)
(* refuses whom the close has to pay - its owner, its recipient, and the   *)
(* fee recipient where a fee is due: in a pause, after a delisting, within *)
(* an epoch, after losses (PlanExitLib.runClosePlan).                      *)
THEOREM ExitsAlwaysFit ==
  Spec => [](\A p \in Plans, perk \in Perks :
               /\ Exists(p)
               /\ Worth(p) > 0 => UsdgAccepted(p)
               /\ stockAccrued[p] > 0 => StockAccepted(p, perk)
               => CloseFits(p, perk))
<1>1. ASSUME TypeOK, OwedIsThere, BoostSolvent, NEW p \in Plans,
             NEW perk \in Perks, Exists(p), Worth(p) > 0 => UsdgAccepted(p),
             stockAccrued[p] > 0 => StockAccepted(p, perk)
      PROVE  CloseFits(p, perk)
  <2>1. /\ usdgIdle[p] \in Nat /\ stockAccrued[p] \in Nat
        /\ boostShares[p] \in Nat /\ ValueOf(boostShares[p]) \in Nat
        /\ stock[p] \in Stocks
    BY <1>1, PoolNumbers DEF TypeOK, IdleTyped, AccruedTyped, TermsTyped, Exists
  <2>2. boosted[p] \/ boostShares[p] = 0
    BY <1>1, <2>1 DEF BoostSolvent
  <2>3. IdleFits(p, usdgIdle[p]) /\ PoolFits(p, ValueOf(boostShares[p]))
    BY <1>1, <2>1 DEF OwedIsThere
  <2>f. fees.withdraw \in Nat /\ ClaimFee(p, perk) \in Nat
    <3>1. fees \in Fees
      BY <1>1 DEF TypeOK, ConfigTyped
    <3> QED BY <3>1, ConstantTypes DEF Fees, ClaimFee
  <2> DEFINE a == Only(p, stockAccrued[p])
  <2>4. /\ a \in [Plans -> Nat]
        /\ \A q \in Plans : a[q] <= OfStock(stock[p], stockAccrued)[q]
    <3>1. stockAccrued \in [Plans -> Nat]
      BY <1>1 DEF TypeOK, AccruedTyped
    <3> QED BY <1>1, <3>1 DEF Only, OfStock
  <2>6. StockTaken(stock[p], a, perk)
    <3> SUFFICES ASSUME stockAccrued[p] > 0
                 PROVE  /\ Takes(stock[p], fees.to,
                                 FeeOf(stockAccrued[p], ClaimFee(p, perk)))
                        /\ Takes(stock[p], recipient[p], stockAccrued[p])
      BY <2>1 DEF StockTaken, Only
    <3>1. StockAccepted(p, perk)
      BY <1>1
    <3>2. ClaimFee(p, perk) = 0 =>
            FeeOf(stockAccrued[p], ClaimFee(p, perk)) = 0
      BY <2>1, <2>f, NoFee
    <3>3. ClaimFee(p, perk) > 0 => <<stock[p], fees.to>> \notin Refused
      BY <3>1 DEF StockAccepted
    <3> QED BY <2>f, <3>1, <3>2, <3>3 DEF StockAccepted, Takes
  <2> HIDE DEF a
  <2>5. PayFits(stock[p], a)
    BY <1>1, <2>1, <2>4 DEF OwedIsThere
  <2>7. PayUsdg(p, Worth(p))
    <3>1. Worth(p) \in Nat
      BY <2>1 DEF Worth
    <3>2. Worth(p) = 0 \/ fees.withdraw = 0 =>
            FeeOf(Worth(p), fees.withdraw) = 0
      BY <2>f, <3>1, NoFee
    <3>3. Worth(p) > 0 /\ fees.withdraw > 0 => <<Usdg, fees.to>> \notin Refused
      BY <1>1 DEF UsdgAccepted
    <3>4. Worth(p) > 0 => <<Usdg, owner[p]>> \notin Refused
      BY <1>1 DEF UsdgAccepted
    <3> QED BY <2>f, <3>1, <3>2, <3>3, <3>4 DEF PayUsdg, Takes
  <2> QED BY <1>1, <2>2, <2>3, <2>5, <2>6, <2>7 DEF CloseFits, a
<1>2. TypeOK /\ OwedIsThere /\ BoostSolvent =>
        \A p \in Plans, perk \in Perks :
          /\ Exists(p)
          /\ Worth(p) > 0 => UsdgAccepted(p)
          /\ stockAccrued[p] > 0 => StockAccepted(p, perk)
          => CloseFits(p, perk)
  BY <1>1
<1> QED BY <1>2, TypeCorrect, OwedIsAlwaysThere, BoostIsSolvent, PTL

(* The state closePlan leaves behind, component by component of vars.      *)
ClosedState(p) ==
  LET s     == stock[p]
      cash  == usdgIdle[p]
      paid  == Only(p, stockAccrued[p])
      worth == ValueOf(boostShares[p])
      burnt == Burn(p, worth)
      stays == Parks(p) \/ stockPlanIndex[p] = 0
      arr   == stockPlans[s]
      gap   == stockPlanIndex[p]
      last  == arr[Len(arr)]
  IN << chain, config, terms,
        << [planPaused EXCEPT ![p] = @ \/ Parks(p)],
           [boosted EXCEPT ![p] = FALSE], lastEpochId >>,
        << IF stays THEN stockPlans
           ELSE [stockPlans EXCEPT ![s] =
                   [i \in 1..(Len(arr) - 1) |-> IF i = gap THEN last ELSE arr[i]]],
           IF stays THEN stockPlanIndex
           ELSE [stockPlanIndex EXCEPT ![last] = gap, ![p] = 0] >>,
        cursor,
        << [usdgIdle EXCEPT ![p] = @ - cash], totalUsdgIdle - cash,
           usdgBal - cash >>,
        << [q \in Plans |-> stockAccrued[q] - paid[q]],
           [totalStockAccrued EXCEPT ![s] = @ - Total(paid)],
           [u \in Users |->
              [userStockAccrued[u] EXCEPT ![s] = @ - ByOwner(u, paid)]],
           [stockBal EXCEPT ![s] = @ - Total(paid)] >>,
        << IF boostShares[p] > 0 THEN [boostShares EXCEPT ![p] = @ - burnt]
                                 ELSE boostShares,
           IF boostShares[p] > 0 THEN totalShares - burnt ELSE totalShares,
           strategy,
           IF boostShares[p] > 0
           THEN [v \in Strategies |-> IF v = strategy THEN position[v] - worth
                                                     ELSE position[v]]
           ELSE position >>,
        residue >>

(* A strategy may always pay what it is asked for and no more.             *)
LEMMA FairCost ==
  ASSUME TypeOK, NEW a \in Nat, a <= PoolAssets
  PROVE  a \in Costs(a)
<1>1. PoolAssets \in Nat /\ Rounding \in Nat
  BY PoolNumbers, ConstantTypes
<1> QED BY <1>1 DEF Costs, Smaller

(* CloseFits is all that closePlan asks for: with it, the state above is a *)
(* successor.  So ExitsAlwaysFit says that ClosePlan is never disabled.    *)
THEOREM CloseNeedsNoMore ==
  ASSUME TypeOK, NEW p \in Plans, NEW perk, CloseFits(p, perk),
         vars' = ClosedState(p)
  PROVE  ClosePlan(p, perk)
<1>1. /\ UNCHANGED <<chain, config, terms, lastEpochId, cursor, residue>>
      /\ planPaused' = [planPaused EXCEPT ![p] = @ \/ Parks(p)]
  BY DEF ClosedState, vars, flags
<1>2. LeavePool(p)
  <2>1. boosted' = [boosted EXCEPT ![p] = FALSE]
    BY DEF ClosedState, vars, flags
  <2>2. CASE ~(boostShares[p] > 0)
    BY <2>1, <2>2 DEF ClosedState, vars, pool, LeavePool
  <2>3. CASE boostShares[p] > 0
    <3> DEFINE worth == ValueOf(boostShares[p])
    <3>1. worth <= PoolAssets /\ Burn(p, worth) <= totalShares
      BY <2>3 DEF CloseFits, PoolFits
    <3>2. worth \in Nat
      BY PoolNumbers
    <3>3. /\ boostShares' = [boostShares EXCEPT ![p] = @ - Burn(p, worth)]
          /\ totalShares' = totalShares - Burn(p, worth)
          /\ strategy' = strategy
          /\ position' = [v \in Strategies |->
               IF v = strategy THEN position[v] - worth ELSE position[v]]
      BY <2>3 DEF ClosedState, vars, pool
    <3> HIDE DEF worth
    <3>4. worth \in Costs(worth)
      BY <3>1, <3>2, FairCost
    <3>5. TakeFromPool(p, worth)
      BY <3>1, <3>3, <3>4 DEF TakeFromPool
    <3> QED BY <2>1, <2>3, <3>5 DEF LeavePool, worth
  <2> QED BY <2>2, <2>3
<1>3. DebitIdle(p, usdgIdle[p])
  BY DEF ClosedState, vars, idle, CloseFits, IdleFits, DebitIdle
<1>4. PayStock(stock[p], Only(p, stockAccrued[p]), perk)
  BY DEF ClosedState, vars, accrued, CloseFits, PayFits, StockTaken, PayStock
<1>5. IF Parks(p) THEN UNCHANGED index ELSE UnindexPlan(p)
  BY DEF ClosedState, vars, index, UnindexPlan
<1> QED BY <1>1, <1>2, <1>3, <1>4, <1>5 DEF ClosePlan, CloseFits

(* What the vault owes to all plans together.                              *)
CoversEverybody ==
  /\ Total(usdgIdle) <= usdgBal
  /\ Total([p \in Plans |-> ValueOf(boostShares[p])]) <= PoolAssets
  /\ \A s \in Stocks : Total(OfStock(s, stockAccrued)) <= stockBal[s]

(* The vault is solvent: it holds the idle USDG and the accrued stock of   *)
(* all plans at once, and the strategy position covers what all boosted    *)
(* plans could withdraw at once.                                           *)
THEOREM VaultIsSolvent == Spec => []CoversEverybody
<1>1. ASSUME TypeOK, BalancesBooked, IdleAgrees, StockAgrees
      PROVE  /\ Total(usdgIdle) <= usdgBal
             /\ \A s \in Stocks : Total(OfStock(s, stockAccrued)) <= stockBal[s]
  <2>1. /\ totalUsdgIdle \in Nat /\ dust.usdg \in Nat /\ unbooked.usdg \in Nat
        /\ usdgBal = totalUsdgIdle + dust.usdg + unbooked.usdg
    BY <1>1 DEF TypeOK, IdleTyped, ResidueTyped, BalancesBooked, UsdgBooked
  <2>2. Total(usdgIdle) <= usdgBal
    BY <1>1, <2>1 DEF IdleAgrees
  <2>3. ASSUME NEW s \in Stocks
        PROVE  Total(OfStock(s, stockAccrued)) <= stockBal[s]
    <3>1. /\ totalStockAccrued[s] \in Nat /\ dustPot[s] \in Nat
          /\ unbooked.stock[s] \in Nat
          /\ stockBal[s] = totalStockAccrued[s] + dustPot[s] + unbooked.stock[s]
      BY <1>1 DEF TypeOK, AccruedTyped, ResidueTyped, BalancesBooked, StockBooked
    <3> QED BY <1>1, <3>1 DEF StockAgrees
  <2> QED BY <2>2, <2>3
<1>2. TypeOK /\ BalancesBooked /\ TotalsAgree /\ BoostSolvent => CoversEverybody
  BY <1>1, AgreeParts DEF CoversEverybody, BoostSolvent
<1> QED BY <1>2, TypeCorrect, BalancesAreBooked, TotalsAlwaysAgree,
           BoostIsSolvent, PTL

-----------------------------------------------------------------------------
(* A due epoch can always be advanced.                                     *)

(* A set of numbers up to a limit has one after which it breaks off.       *)
LEMMA LastBelow ==
  ASSUME NEW from \in Nat, NEW to \in Nat, NEW S \in SUBSET (from..to), from \in S
  PROVE  \E e \in S : e = to \/ e + 1 \notin S
<1> SUFFICES ASSUME \A e \in S : e # to /\ e + 1 \in S PROVE FALSE
  OBVIOUS
<1> DEFINE T == S \ {from}
           f == [e \in S |-> e + 1]
<1>1. IsFiniteSet(S) /\ Cardinality(S) \in Nat
  <2>1. from \in Int /\ to \in Int
    OBVIOUS
  <2>2. IsFiniteSet(from..to)
    BY <2>1, FS_Interval
  <2> QED BY <2>2, FS_Subset, FS_CardinalityType
<1>2. IsFiniteSet(T) /\ Cardinality(T) = Cardinality(S) - 1
  BY <1>1, FS_RemoveElement
<1>3. Cardinality(T) < Cardinality(S)
  BY <1>1, <1>2
<1>4. f \in [S -> T]
  BY SMT
<1>5. \A x, y \in S : f[x] = f[y] => x = y
  BY SMT
<1> HIDE DEF T, f
<1> QED BY <1>1, <1>2, <1>3, <1>4, <1>5, FS_PigeonHole

(* A page may end somewhere between its first plan and the size limit.     *)
LEMMA PageEndExists ==
  ASSUME TypeOK, NEW s \in Stocks, NEW from \in Nat, NEW to \in Nat, from <= to
  PROVE  \E end \in from..to : EndsAt(s, from, to, end)
<1>1. CASE PageCap(s) = 0
  BY <1>1 DEF EndsAt
<1>2. CASE PageCap(s) # 0
  <2> DEFINE S == {e \in from..to : Total(Spends(s, from, e)) <= PageCap(s)}
  <2>1. PageCap(s) \in Nat
    BY DEF PageCap, TypeOK, ConfigTyped, Knobs
  <2>2. ASSUME NEW e \in from..to PROVE Total(Spends(s, from, e)) \in Nat
    <3>1. e \in Nat
      OBVIOUS
    <3>2. Spends(s, from, e) \in [Plans -> Nat]
      BY <3>1, SpendTypes
    <3> QED BY <3>2, PlansFinite, TotalNat
  <2>3. from \in S
    <3>1. Spends(s, from, from) \in [Plans -> Nat]
      BY SpendTypes
    <3>2. Page(s, from, from) = {}
      BY DEF Page
    <3>3. \A p \in Plans : Spends(s, from, from)[p] = 0
      BY <3>2 DEF Spends
    <3>4. Total(Spends(s, from, from)) = 0
      BY <3>1, <3>3, PlansFinite, TotalZero
    <3> QED BY <2>1, <3>4
  <2> HIDE DEF S
  <2>4. PICK e \in S : e = to \/ e + 1 \notin S
    <3>1. S \in SUBSET (from..to)
      BY DEF S
    <3> QED BY <2>3, <3>1, LastBelow
  <2>5. e \in from..to /\ Total(Spends(s, from, e)) <= PageCap(s)
    BY DEF S
  <2>6. e < to => Total(Spends(s, from, e + 1)) > PageCap(s)
    <3> SUFFICES ASSUME e < to PROVE Total(Spends(s, from, e + 1)) > PageCap(s)
      OBVIOUS
    <3>1. e + 1 \in from..to /\ e + 1 \notin S
      BY <2>4, <2>5
    <3>2. ~(Total(Spends(s, from, e + 1)) <= PageCap(s))
      BY <3>1 DEF S
    <3> QED BY <2>1, <2>2, <3>1, <3>2
  <2> QED BY <1>2, <2>5, <2>6 DEF EndsAt
<1> QED BY <1>1, <1>2

(* A fee is less than the amount it is taken from: a plan that is charged  *)
(* buys something.                                                         *)
LEMMA FeeLess ==
  ASSUME TypeOK, NEW p \in Plans, NEW a \in Nat, a > 0, NEW perk
  PROVE  PurchaseFee(p, perk, a) < a
<1>1. fees.purchase \in 0..MaxFeeBps
  BY DEF TypeOK, ConfigTyped, Fees
<1>2. Halve(fees.purchase) \in 0..MaxFeeBps
  BY <1>1, ConstantTypes DEF Halve
<1>3. ASSUME NEW bps \in 0..MaxFeeBps PROVE FeeOf(a, bps) < a
  <2>1. BPS \in Nat \ {0} /\ bps \in Nat /\ bps < BPS
    BY FeeAssumption, SMT
  <2>2. a * bps \in Nat /\ BPS * a \in Nat /\ a * bps < BPS * a
    BY <2>1, SMT
  <2> DEFINE q == (a * bps) \div BPS
  <2>3. q \in Nat /\ BPS * q <= a * bps
    BY <2>1, <2>2, DivLaw
  <2> HIDE DEF q
  <2>4. q < a
    <3> SUFFICES ASSUME a <= q PROVE FALSE
      BY <2>3
    <3>1. BPS * a <= BPS * q /\ BPS * q \in Nat
      BY <2>1, <2>3, SMT
    <3> QED BY <2>2, <2>3, <3>1
  <2> QED BY <2>4 DEF FeeOf, MulDiv, q
<1> QED BY <1>1, <1>2, <1>3 DEF PurchaseFee

(* The guards of the dust sweep, and those of a page that is bought.       *)
SweepFits(booked, held, min) ==
  /\ Takes(Usdg, fees.to, IF Swept(booked, min) THEN booked ELSE 0)
  /\ (IF Swept(booked, min) THEN booked ELSE 0) <= held
  /\ dust.weth <= wethBal

BuyFits(s, spend, perk, bought, unspent) ==
  LET fee     == [p \in Plans |-> PurchaseFee(p, perk, spend[p])]
      net     == [p \in Plans |-> spend[p] - fee[p]]
      lent    == FromBoost(spend)
      burned  == [p \in Plans |-> IF lent[p] > 0 THEN Burn(p, lent[p]) ELSE 0]
      left    == Smaller(unspent, Total(net))
      back    == ProRata(left, net)
      pot     == bought + dustPot[s]
      share   == ProRata(pot, net)
      kept    == [p \in Plans |-> IF /\ Exists(p) /\ perk[owner[p]].auto
                                    /\ <<s, recipient[p]>> \notin Refused
                                 THEN 0 ELSE share[p]]
      paidOut == Total(net) - left + Total(fee)
  IN /\ Total(net) > 0
     /\ fillable[s]
     /\ stockBal[s] + bought <= Supply
     /\ Total(lent) <= PoolAssets
     /\ Takes(Usdg, fees.to, Total(fee))
     /\ Total(spend) - Total(lent) <= totalUsdgIdle
     /\ Total(burned) <= totalShares
     /\ Total(share) - Total(kept) <= stockBal[s] + bought
     /\ Total(share) <= pot
     /\ Total(back) <= left
     /\ paidOut <= usdgBal + Total(lent)
     /\ SweepFits(dust.usdg + left - Total(back),
                  usdgBal + Total(lent) - paidOut, knobs.sweepMin)

(* What the page that ends at end charges.                                 *)
Charge(s, from, end, pays) ==
  LET wanted == Spends(s, from, end)
  IN IF pays /\ Total(FromBoost(wanted)) <= PoolAssets
     THEN wanted ELSE DropBoosted(wanted)

(* The ends for which every guard of a page holds.                         *)
PageEnds(s, limit, perk, bought, unspent, pays) ==
  LET from == nextPlanIndex[s][epoch]
      most == IF limit = 0 THEN knobs.maxPlansPerTx
              ELSE Smaller(limit, knobs.maxPlansPerTx)
      to   == Smaller(from + most, Len(stockPlans[s]))
  IN {end \in from..to :
        LET spend == Charge(s, from, end, pays)
        IN /\ EndsAt(s, from, to, end)
           /\ IF Total(spend) = 0
              THEN SweepFits(dust.usdg, usdgBal, knobs.sweepMin)
              ELSE BuyFits(s, spend, perk, bought, unspent)}

(* What a page charges is covered: by idle balances alone when the         *)
(* strategy does not pay.                                                  *)
LEMMA ChargeCovered ==
  ASSUME TypeOK, NEW s \in Stocks, NEW from \in Nat, NEW end \in Nat, NEW pays
  PROVE  /\ Charge(s, from, end, pays) \in [Plans -> Nat]
         /\ Total(FromBoost(Charge(s, from, end, pays))) <= PoolAssets
<1> DEFINE wanted == Spends(s, from, end)
<1>1. wanted \in [Plans -> Nat]
  BY SpendTypes
<1> HIDE DEF wanted
<1>2. CASE pays /\ Total(FromBoost(wanted)) <= PoolAssets
  BY <1>1, <1>2 DEF Charge, wanted
<1>3. CASE ~(pays /\ Total(FromBoost(wanted)) <= PoolAssets)
  <2> DEFINE rest == DropBoosted(wanted)
             lent == FromBoost(rest)
  <2>1. rest \in [Plans -> Nat]
    BY <1>1, FromBoostTypes
  <2>2. ASSUME NEW p \in Plans PROVE lent[p] = 0
    <3>1. usdgIdle[p] \in Nat /\ wanted[p] \in Nat
      BY <1>1 DEF TypeOK, IdleTyped
    <3>2. CASE wanted[p] > usdgIdle[p]
      <4>1. FromBoost(wanted)[p] > 0
        BY <3>1, <3>2 DEF FromBoost
      <4>2. rest[p] = 0
        BY <4>1 DEF DropBoosted
      <4> QED BY <3>1, <4>2 DEF FromBoost
    <3>3. CASE ~(wanted[p] > usdgIdle[p])
      <4>1. FromBoost(wanted)[p] = 0
        BY <3>1, <3>3 DEF FromBoost
      <4>2. rest[p] = wanted[p]
        BY <4>1 DEF DropBoosted
      <4> QED BY <3>1, <3>3, <4>2 DEF FromBoost
    <3> QED BY <3>2, <3>3
  <2>3. lent \in [Plans -> Nat]
    BY <2>1, FromBoostTypes
  <2> HIDE DEF lent, rest
  <2>4. Total(lent) = 0 /\ PoolAssets \in Nat
    BY <2>2, <2>3, PlansFinite, TotalZero, PoolNumbers
  <2>5. Charge(s, from, end, pays) = rest
    BY <1>3 DEF Charge, rest, wanted
  <2> QED BY <2>1, <2>4, <2>5 DEF lent
<1> QED BY <1>2, <1>3

(* A page that charges anybody can be bought: its purchase is not empty    *)
(* and no subtraction wraps.                                               *)
LEMMA BuyAlwaysFits ==
  ASSUME TypeOK, PagesFit, <<Usdg, fees.to>> \notin Refused,
         NEW s \in Stocks, fillable[s],
         NEW spend \in [Plans -> Nat], Total(spend) > 0,
         Total(FromBoost(spend)) <= PoolAssets, NEW perk \in Perks,
         NEW bought \in Bought, NEW unspent \in Unspent,
         stockBal[s] + bought <= Supply
  PROVE  BuyFits(s, spend, perk, bought, unspent)
<1> DEFINE fee    == [p \in Plans |-> PurchaseFee(p, perk, spend[p])]
           net    == [p \in Plans |-> spend[p] - fee[p]]
           lent   == FromBoost(spend)
           burned == [p \in Plans |-> IF lent[p] > 0 THEN Burn(p, lent[p]) ELSE 0]
           left   == Smaller(unspent, Total(net))
           back   == ProRata(left, net)
           pot    == bought + dustPot[s]
           share  == ProRata(pot, net)
           kept   == [p \in Plans |-> IF /\ Exists(p) /\ perk[owner[p]].auto
                                        /\ <<s, recipient[p]>> \notin Refused
                                     THEN 0 ELSE share[p]]
           paid   == Total(net) - left + Total(fee)
<1>1. bought \in Nat /\ unspent \in Nat
  BY ConstantTypes
<1>2. PICK p \in Plans : spend[p] > 0
  <2>1. \E p \in Plans : spend[p] # 0
    <3>1. Total(spend) # 0
      OBVIOUS
    <3> QED BY <3>1, PlansFinite, TotalZero
  <2> QED BY <2>1
<1>3. PurchaseFee(p, perk, spend[p]) < spend[p]
  BY <1>2, FeeLess
<1>4. NothingWraps(s, spend, perk, bought, unspent)
  BY <1>1, <1>3 DEF PagesFit
<1>5. \A q \in Plans : fee[q] \in 0..spend[q]
  BY PurchaseFeeType
<1>6. net[p] > 0
  <2>1. fee[p] \in 0..spend[p] /\ fee[p] < spend[p] /\ spend[p] \in Nat
    BY <1>3, <1>5
  <2> HIDE DEF fee
  <2> QED BY <2>1
<1>7. fee \in [Plans -> Nat] /\ net \in [Plans -> Nat]
  <2>1. fee \in [Plans -> Nat]
    BY <1>5
  <2> HIDE DEF fee
  <2> QED BY <1>5, <2>1
<1> HIDE DEF fee, net
<1>8. Total(net) \in Nat /\ Total(net) > 0
  <2>1. net[p] # 0
    BY <1>6
  <2> QED BY <1>7, <2>1, PlansFinite, TotalNat, TotalZero
<1>9. left \in Nat /\ pot \in Nat
  BY <1>1, <1>8 DEF Smaller, TypeOK, ResidueTyped
<1>10. share \in [Plans -> Nat] /\ back \in [Plans -> Nat]
  BY <1>7, <1>8, <1>9, ProRataType
<1> HIDE DEF left, pot, lent, burned
<1>11. /\ Total(spend) - Total(lent) <= totalUsdgIdle
       /\ Total(burned) <= totalShares
       /\ Total(share) <= pot
       /\ Total(share) <= stockBal[s] + bought
       /\ Total(back) <= left
       /\ paid <= usdgBal + Total(lent)
       /\ dust.usdg + left - Total(back) <= usdgBal + Total(lent) - paid
       /\ dust.weth <= wethBal
  BY <1>4 DEF NothingWraps, fee, net, lent, burned, left, pot
<1> HIDE DEF share, back
<1>12. Total(kept) \in Nat /\ Total(share) \in Nat /\ Total(back) \in Nat
  <2>1. kept \in [Plans -> Nat]
    BY <1>10
  <2> HIDE DEF kept
  <2> QED BY <1>10, <2>1, PlansFinite, TotalNat
<1> HIDE DEF kept
<1>13. Total(share) - Total(kept) <= stockBal[s] + bought
  <2>1. stockBal[s] + bought \in Nat
    BY <1>1 DEF TypeOK, AccruedTyped
  <2> QED BY <1>11, <1>12, <2>1
<1>14. SweepFits(dust.usdg + left - Total(back),
                 usdgBal + Total(lent) - paid, knobs.sweepMin)
  <2> DEFINE booked == dust.usdg + left - Total(back)
             held   == usdgBal + Total(lent) - paid
  <2>1. booked \in Nat
    <3>1. dust.usdg \in Nat
      BY DEF TypeOK, ResidueTyped
    <3> QED BY <1>9, <1>11, <1>12, <3>1
  <2>2. booked <= held /\ held \in Int
    <3>1. usdgBal \in Nat /\ Total(lent) \in Nat /\ Total(fee) \in Nat
      <4>1. FromBoost(spend) \in [Plans -> Nat]
        BY FromBoostTypes
      <4> QED BY <1>7, <4>1, PlansFinite, TotalNat DEF lent, TypeOK, IdleTyped
    <3> QED BY <1>8, <1>9, <1>11, <3>1
  <2> HIDE DEF booked, held
  <2>3. (IF Swept(booked, knobs.sweepMin) THEN booked ELSE 0) <= held
    BY <2>1, <2>2
  <2> QED BY <1>11, <2>3 DEF SweepFits, Takes, booked, held
<1>15. Takes(Usdg, fees.to, Total(fee))
  BY DEF Takes
<1> QED BY <1>8, <1>11, <1>13, <1>14, <1>15
        DEF BuyFits, fee, net, lent, burned, left, back, pot, share, kept

(* The booked dust can always be swept.                                    *)
LEMMA SweepAlwaysFits ==
  ASSUME TypeOK, BalancesBooked, <<Usdg, fees.to>> \notin Refused
  PROVE  SweepFits(dust.usdg, usdgBal, knobs.sweepMin)
<1>1. /\ dust.usdg \in Nat /\ dust.weth \in Nat
      /\ unbooked.usdg \in Nat /\ unbooked.weth \in Nat
      /\ totalUsdgIdle \in Nat
  BY DEF TypeOK, IdleTyped, ResidueTyped
<1>2. dust.usdg <= usdgBal /\ dust.weth <= wethBal /\ 0 <= usdgBal
  BY <1>1 DEF BalancesBooked, UsdgBooked, WethBooked
<1> QED BY <1>2 DEF SweepFits, Takes

(* A due epoch of a fillable stock has a page that can be taken, whatever  *)
(* the page size, the perks, the swap's outcome and the strategy's answer: *)
(* the page has an end, and none of its checked subtractions wraps         *)
(* (advanceEpoch, _collect, _distribute, _sweepDust).  Only a fee          *)
(* recipient that USDG refuses would stop it.                              *)
THEOREM DuePagesAlwaysFit ==
  Spec => [](\A s \in Stocks :
               EpochDue(s) /\ fillable[s] /\ <<Usdg, fees.to>> \notin Refused =>
               \A limit \in Limits, perk \in Perks, bought \in Bought,
                  unspent \in Unspent, pays \in BOOLEAN :
                 stockBal[s] + bought <= Supply =>
                   PageEnds(s, limit, perk, bought, unspent, pays) # {})
<1>1. ASSUME TypeOK, CursorInList, BalancesBooked, PagesFit,
             NEW s \in Stocks, EpochDue(s), fillable[s],
             <<Usdg, fees.to>> \notin Refused, NEW limit \in Limits,
             NEW perk \in Perks, NEW bought \in Bought, NEW unspent \in Unspent,
             NEW pays \in BOOLEAN, stockBal[s] + bought <= Supply
      PROVE  PageEnds(s, limit, perk, bought, unspent, pays) # {}
  <2> DEFINE from == nextPlanIndex[s][epoch]
             most == IF limit = 0 THEN knobs.maxPlansPerTx
                     ELSE Smaller(limit, knobs.maxPlansPerTx)
             to   == Smaller(from + most, Len(stockPlans[s]))
  <2>1. from \in Nat /\ Len(stockPlans[s]) \in Nat /\ most \in Nat
    <3>1. from \in Nat
      BY <1>1 DEF TypeOK, ChainTyped, CursorTyped
    <3>2. Len(stockPlans[s]) \in Nat
      BY <1>1 DEF TypeOK, IndexTyped
    <3>3. most \in Nat
      BY <1>1, ConstantTypes DEF TypeOK, ConfigTyped, Knobs, Smaller
    <3> QED BY <3>1, <3>2, <3>3
  <2>2. from <= Len(stockPlans[s])
    <3>1. CASE EpochPending(s)
      BY <1>1, <2>1, <3>1 DEF CursorInList
    <3>2. CASE ~EpochPending(s)
      <4>1. lastExecutedEpoch[s] < epoch
        BY <1>1 DEF EpochDue, TypeOK, ChainTyped, CursorTyped
      <4>2. from = 0
        BY <2>1, <3>2, <4>1 DEF EpochPending
      <4> QED BY <2>1, <4>2
    <3> QED BY <3>1, <3>2
  <2> HIDE DEF from, most
  <2>3. to \in Nat /\ from <= to
    BY <2>1, <2>2 DEF Smaller
  <2> HIDE DEF to
  <2>4. PICK end \in from..to : EndsAt(s, from, to, end)
    BY <1>1, <2>1, <2>3, PageEndExists
  <2>5. end \in Nat
    BY <2>1
  <2> DEFINE spend == Charge(s, from, end, pays)
  <2>6. spend \in [Plans -> Nat] /\ Total(FromBoost(spend)) <= PoolAssets
    BY <1>1, <2>1, <2>5, ChargeCovered
  <2> HIDE DEF spend
  <2>7. Total(spend) \in Nat
    BY <2>6, PlansFinite, TotalNat
  <2>8. SweepFits(dust.usdg, usdgBal, knobs.sweepMin)
    BY <1>1, SweepAlwaysFits
  <2>9. Total(spend) # 0 => BuyFits(s, spend, perk, bought, unspent)
    BY <1>1, <2>6, <2>7, BuyAlwaysFits
  <2> QED BY <2>4, <2>8, <2>9 DEF PageEnds, from, most, to, spend
<1>2. TypeOK /\ CursorInList /\ BalancesBooked /\ PagesFit =>
        \A s \in Stocks :
          EpochDue(s) /\ fillable[s] /\ <<Usdg, fees.to>> \notin Refused =>
          \A limit \in Limits, perk \in Perks, bought \in Bought,
             unspent \in Unspent, pays \in BOOLEAN :
            stockBal[s] + bought <= Supply =>
              PageEnds(s, limit, perk, bought, unspent, pays) # {}
  BY <1>1
<1> QED BY <1>2, TypeCorrect, CursorStaysInList, BalancesAreBooked,
           PagesAlwaysFit, PTL

(* What _sweepDust leaves of the dust and of the balances behind it.       *)
SweptOf(booked, min) == IF Swept(booked, min) THEN booked ELSE 0

(* The cursor of the stock, when the page ends at end.                     *)
CursorAt(s, end) ==
  << [lastExecutedEpoch EXCEPT
        ![s] = IF end = Len(stockPlans[s]) THEN epoch ELSE @],
     [nextPlanIndex EXCEPT ![s][epoch] = end] >>

(* The state a page that ends at end leaves behind, if it does not buy...  *)
SkippedState(s, end) ==
  LET out == SweptOf(dust.usdg, knobs.sweepMin)
  IN << chain, config, terms, flags, index, CursorAt(s, end),
        << usdgIdle, totalUsdgIdle, usdgBal - out >>, accrued, pool,
        << dustPot, [usdg |-> dust.usdg - out, weth |-> 0],
           wethBal - dust.weth, unbooked >> >>

(* ... and if it does.                                                     *)
BoughtState(s, end, spend, perk, bought, unspent) ==
  LET fee     == [p \in Plans |-> PurchaseFee(p, perk, spend[p])]
      net     == [p \in Plans |-> spend[p] - fee[p]]
      lent    == FromBoost(spend)
      burned  == [p \in Plans |-> IF lent[p] > 0 THEN Burn(p, lent[p]) ELSE 0]
      left    == Smaller(unspent, Total(net))
      back    == ProRata(left, net)
      pot     == bought + dustPot[s]
      share   == ProRata(pot, net)
      kept    == [p \in Plans |-> IF /\ Exists(p) /\ perk[owner[p]].auto
                                    /\ <<s, recipient[p]>> \notin Refused
                                 THEN 0 ELSE share[p]]
      sent    == Total(share) - Total(kept)
      paidOut == Total(net) - left + Total(fee)
      booked  == dust.usdg + left - Total(back)
      out     == SweptOf(booked, knobs.sweepMin)
  IN << chain, config, terms,
        << planPaused, boosted,
           [p \in Plans |-> IF spend[p] > 0 THEN epoch ELSE lastEpochId[p]] >>,
        index, CursorAt(s, end),
        << [p \in Plans |-> usdgIdle[p] - (spend[p] - lent[p]) + back[p]],
           totalUsdgIdle - (Total(spend) - Total(lent)) + Total(back),
           (usdgBal + Total(lent) - paidOut) - out >>,
        << [p \in Plans |-> stockAccrued[p] + kept[p]],
           [totalStockAccrued EXCEPT ![s] = @ + Total(kept)],
           [u \in Users |->
              [userStockAccrued[u] EXCEPT ![s] = @ + ByOwner(u, kept)]],
           [stockBal EXCEPT ![s] = @ + bought - sent] >>,
        << [p \in Plans |-> boostShares[p] - burned[p]],
           totalShares - Total(burned), strategy,
           [v \in Strategies |->
              position[v] - (IF v = strategy THEN Total(lent) ELSE 0)] >>,
        << [dustPot EXCEPT ![s] = pot - Total(share)],
           [usdg |-> booked - out, weth |-> 0], wethBal - dust.weth,
           unbooked >> >>

PagedState(s, end, spend, perk, bought, unspent) ==
  IF Total(spend) = 0 THEN SkippedState(s, end)
                      ELSE BoughtState(s, end, spend, perk, bought, unspent)

(* PageEnds is all that advanceEpoch asks of a due epoch: with an end from *)
(* it, the state above is a successor.  So DuePagesAlwaysFit says that     *)
(* AdvanceEpoch is never disabled for a keeper.                            *)
THEOREM PageNeedsNoMore ==
  ASSUME TypeOK, NEW s \in Stocks, NEW limit \in Limits, NEW perk,
         NEW bought, NEW unspent, NEW pays, EpochDue(s),
         NEW end \in PageEnds(s, limit, perk, bought, unspent, pays),
         vars' = PagedState(s, end, Charge(s, nextPlanIndex[s][epoch], end, pays),
                            perk, bought, unspent)
  PROVE  AdvanceEpoch(s, limit, TRUE, perk, bought, unspent, pays)
<1> DEFINE from  == nextPlanIndex[s][epoch]
           most  == IF limit = 0 THEN knobs.maxPlansPerTx
                    ELSE Smaller(limit, knobs.maxPlansPerTx)
           to    == Smaller(from + most, Len(stockPlans[s]))
           spend == Charge(s, from, end, pays)
<1>1. /\ end \in from..to /\ EndsAt(s, from, to, end)
      /\ IF Total(spend) = 0
         THEN SweepFits(dust.usdg, usdgBal, knobs.sweepMin)
         ELSE BuyFits(s, spend, perk, bought, unspent)
  BY DEF PageEnds
<1>2. from <= to
  <2>1. from \in Nat
    BY DEF TypeOK, ChainTyped, CursorTyped
  <2>l. Len(stockPlans[s]) \in Nat
    BY DEF TypeOK, IndexTyped
  <2>2. most \in Nat
    BY ConstantTypes DEF TypeOK, ConfigTyped, Knobs, Smaller
  <2> HIDE DEF from, most
  <2>3. to \in Nat
    BY <2>1, <2>l, <2>2 DEF Smaller
  <2> HIDE DEF to
  <2> QED BY <1>1, <2>1, <2>3
<1>3. vars' = PagedState(s, end, spend, perk, bought, unspent)
  OBVIOUS
<1>c. /\ Total(FromBoost(spend)) \in Nat
      /\ Total(FromBoost(spend)) <= PoolAssets
  <2>1. from \in Nat /\ end \in Nat
    <3>1. from \in Nat
      BY DEF TypeOK, ChainTyped, CursorTyped
    <3> HIDE DEF from, to
    <3> QED BY <1>1, <3>1
  <2> HIDE DEF from
  <2>2. spend \in [Plans -> Nat] /\ Total(FromBoost(spend)) <= PoolAssets
    BY <2>1, ChargeCovered
  <2> HIDE DEF spend
  <2>3. FromBoost(spend) \in [Plans -> Nat]
    BY <2>2, FromBoostTypes
  <2> QED BY <2>2, <2>3, PlansFinite, TotalNat
<1> HIDE DEF from, most, to, spend
<1>4. ASSUME Total(spend) = 0
      PROVE  /\ SkipPage(spend) \/ BuyPage(s, spend, perk, bought, unspent)
             /\ FinalizePage(s, end)
             /\ UNCHANGED <<chain, config, terms, planPaused, boosted, index, unbooked>>
  <2>1. vars' = SkippedState(s, end)
    BY <1>3, <1>4 DEF PagedState
  <2>2. FinalizePage(s, end)
    BY <2>1 DEF SkippedState, CursorAt, FinalizePage, vars, cursor
  <2>3. UNCHANGED <<chain, config, terms, planPaused, boosted, index, unbooked>>
    BY <2>1 DEF SkippedState, vars, flags, residue
  <2>4. SkipPage(spend)
    BY <1>1, <1>4, <2>1
       DEF SkippedState, SkipPage, SweptOf, Sweep, SweepFits, vars, flags, idle,
           residue
  <2> QED BY <2>2, <2>3, <2>4
<1>5. ASSUME Total(spend) # 0
      PROVE  /\ SkipPage(spend) \/ BuyPage(s, spend, perk, bought, unspent)
             /\ FinalizePage(s, end)
             /\ UNCHANGED <<chain, config, terms, planPaused, boosted, index, unbooked>>
  <2>1. vars' = BoughtState(s, end, spend, perk, bought, unspent)
    BY <1>3, <1>5 DEF PagedState
  <2>2. FinalizePage(s, end)
    BY <2>1 DEF BoughtState, CursorAt, FinalizePage, vars, cursor
  <2>3. UNCHANGED <<chain, config, terms, planPaused, boosted, index, unbooked>>
    BY <2>1 DEF BoughtState, vars, flags, residue
  <2>4. BuyPage(s, spend, perk, bought, unspent)
    <3> DEFINE fee    == [p \in Plans |-> PurchaseFee(p, perk, spend[p])]
               net    == [p \in Plans |-> spend[p] - fee[p]]
               lent   == FromBoost(spend)
               burned == [p \in Plans |-> IF lent[p] > 0 THEN Burn(p, lent[p]) ELSE 0]
               left   == Smaller(unspent, Total(net))
               back   == ProRata(left, net)
               pot    == bought + dustPot[s]
               share  == ProRata(pot, net)
               kept   == [p \in Plans |-> IF /\ Exists(p) /\ perk[owner[p]].auto
                                            /\ <<s, recipient[p]>> \notin Refused
                                         THEN 0 ELSE share[p]]
               sent   == Total(share) - Total(kept)
               paid   == Total(net) - left + Total(fee)
               booked == dust.usdg + left - Total(back)
               out    == SweptOf(booked, knobs.sweepMin)
    <3>1. BuyFits(s, spend, perk, bought, unspent)
      BY <1>1, <1>5
    <3>2. /\ lastEpochId' = [p \in Plans |-> IF spend[p] > 0 THEN epoch
                                             ELSE lastEpochId[p]]
          /\ usdgIdle' = [p \in Plans |->
                            usdgIdle[p] - (spend[p] - lent[p]) + back[p]]
          /\ totalUsdgIdle' =
               totalUsdgIdle - (Total(spend) - Total(lent)) + Total(back)
          /\ usdgBal' = (usdgBal + Total(lent) - paid) - out
      BY <2>1 DEF BoughtState, vars, flags, idle
    <3>3. /\ stockAccrued' = [p \in Plans |-> stockAccrued[p] + kept[p]]
          /\ totalStockAccrued' = [totalStockAccrued EXCEPT ![s] = @ + Total(kept)]
          /\ userStockAccrued' = [u \in Users |->
               [userStockAccrued[u] EXCEPT ![s] = @ + ByOwner(u, kept)]]
          /\ stockBal' = [stockBal EXCEPT ![s] = @ + bought - sent]
      BY <2>1 DEF BoughtState, vars, accrued
    <3>4. /\ boostShares' = [p \in Plans |-> boostShares[p] - burned[p]]
          /\ totalShares' = totalShares - Total(burned) /\ UNCHANGED strategy
          /\ position' = [v \in Strategies |->
               position[v] - (IF v = strategy THEN Total(lent) ELSE 0)]
      BY <2>1 DEF BoughtState, vars, pool
    <3>5. /\ dustPot' = [dustPot EXCEPT ![s] = pot - Total(share)]
          /\ dust' = [usdg |-> booked - out, weth |-> 0]
          /\ wethBal' = wethBal - dust.weth
      BY <2>1 DEF BoughtState, vars, residue
    <3>6. /\ Total(net) > 0 /\ fillable[s] /\ stockBal[s] + bought <= Supply
          /\ Total(lent) <= PoolAssets /\ Takes(Usdg, fees.to, Total(fee))
          /\ Total(spend) - Total(lent) <= totalUsdgIdle
          /\ Total(burned) <= totalShares /\ sent <= stockBal[s] + bought
          /\ Total(share) <= pot /\ Total(back) <= left
          /\ paid <= usdgBal + Total(lent)
          /\ SweepFits(booked, usdgBal + Total(lent) - paid, knobs.sweepMin)
      BY <3>1 DEF BuyFits
    <3> HIDE DEF fee, net, lent, burned, left, back, pot, share, kept, sent, paid,
                 booked
    <3>7. Sweep(booked, usdgBal + Total(lent) - paid, knobs.sweepMin)
      BY <3>2, <3>5, <3>6 DEF Sweep, SweepFits, SweptOf
    <3>8. \E cost \in Costs(Total(lent)) :
            position' = [v \in Strategies |->
                           position[v] - (IF v = strategy THEN cost ELSE 0)]
      <4>1. Total(lent) \in Costs(Total(lent))
        BY <1>c, FairCost DEF lent
      <4> QED BY <3>4, <4>1
    <3> QED BY <3>2, <3>3, <3>4, <3>5, <3>6, <3>7, <3>8
            DEF BuyPage, fee, net, lent, burned, left, back, pot, share, kept,
                sent, paid, booked
  <2> QED BY <2>2, <2>3, <2>4
<1>6. /\ SkipPage(spend) \/ BuyPage(s, spend, perk, bought, unspent)
      /\ FinalizePage(s, end)
      /\ UNCHANGED <<chain, config, terms, planPaused, boosted, index, unbooked>>
  BY <1>4, <1>5
<1> QED BY <1>1, <1>2, <1>6 DEF AdvanceEpoch, Charge, from, most, to, spend

-----------------------------------------------------------------------------
(* What the price means for one plan.                                      *)

(* Shares that lose at most loss lose at most loss of what they can be     *)
(* withdrawn for, rounded down.                                            *)
LEMMA WorthFollowsLoss ==
  ASSUME NEW h \in Nat, NEW h2 \in Nat, h <= h2, NEW loss \in Nat,
         NEW a \in Nat \ {0}, NEW n \in Nat \ {0},
         NEW a2 \in Nat \ {0}, NEW n2 \in Nat \ {0},
         h * a2 * n + loss * n * n2 >= h * a * n2
  PROVE  MulDiv(h, a, n) <= MulDiv(h2, a2, n2) + loss
<1> DEFINE q  == (h * a) \div n
           q2 == (h2 * a2) \div n2
<1>1. h * a \in Nat /\ h2 * a2 \in Nat /\ h * a2 \in Nat
  BY SMT
<1>2. q \in Nat /\ n * q <= h * a
  BY <1>1, DivLaw
<1>3. q2 \in Nat /\ h2 * a2 < n2 * q2 + n2
  BY <1>1, DivLaw
<1> HIDE DEF q, q2
<1>4. n * (n2 * q) <= n * (h2 * a2 + loss * n2)
  <2> DEFINE u == n * (n2 * q)
             v == n2 * (h * a)
             w == n * (h * a2)
             x == n * (h2 * a2)
             y == n * (loss * n2)
  <2>1. /\ n * q \in Nat /\ n2 * q \in Nat /\ loss * n2 \in Nat
    BY <1>2, SMT
  <2>2. u \in Nat /\ v \in Nat /\ w \in Nat /\ x \in Nat /\ y \in Nat
    BY <1>1, <2>1, SMT
  <2>3. u <= v
    <3>1. n2 * (n * q) <= n2 * (h * a)
      BY <1>1, <1>2, <2>1, SMT
    <3>2. u = n2 * (n * q)
      BY <1>2, SMT
    <3> QED BY <3>1, <3>2
  <2>4. v = h * a * n2 /\ w + y = h * a2 * n + loss * n * n2
    BY SMT
  <2>5. w <= x
    <3>1. h * a2 <= h2 * a2
      BY SMT
    <3> QED BY <1>1, <3>1, SMT
  <2>6. n * (h2 * a2 + loss * n2) = x + y
    BY SMT
  <2> HIDE DEF u, v, w, x, y
  <2>7. v <= w + y
    BY <2>2, <2>4
  <2>8. u <= x + y
    BY <2>2, <2>3, <2>5, <2>7
  <2> QED BY <2>6, <2>8 DEF u
<1>5. n2 * q <= h2 * a2 + loss * n2
  <2>1. n2 * q \in Nat /\ loss * n2 \in Nat
    BY <1>2, SMT
  <2>2. h2 * a2 + loss * n2 \in Nat
    BY <1>1, <2>1
  <2> QED BY <1>4, <2>1, <2>2, CancelFactor
<1>6. q <= q2 + loss
  <2> SUFFICES ASSUME q2 + loss + 1 <= q PROVE FALSE
    BY <1>2, <1>3
  <2>1. n2 * (q2 + loss + 1) <= n2 * q
    BY <1>2, <1>3, SMT
  <2>2. n2 * (q2 + loss + 1) = n2 * q2 + loss * n2 + n2
    BY <1>3, SMT
  <2>3. n2 * q \in Nat /\ n2 * q2 \in Nat /\ loss * n2 \in Nat
    BY <1>2, <1>3, SMT
  <2> QED BY <1>1, <1>3, <1>5, <2>1, <2>2, <2>3
<1> QED BY <1>6 DEF MulDiv, q, q2

(* With the price a part of the shares loses at most the slack.            *)
LEMMA SlackIsLoss ==
  ASSUME NEW h \in Nat, NEW a \in Nat, NEW n \in Nat, NEW a2 \in Nat,
         NEW n2 \in Nat, NEW slack \in Nat, h <= n2,
         (a2 + slack + 1) * (n + 1) >= (a + 1) * (n2 + 1)
  PROVE  HeldLoss(h, a, n, a2, n2, slack)
<1> DEFINE l == (a2 + slack + 1) * (n + 1)
           r == (a + 1) * (n2 + 1)
           b == slack * (n + 1)
           c == h * (a2 + 1) * (n + 1)
<1>1. l \in Nat /\ r \in Nat /\ b \in Nat /\ h * (a2 + 1) \in Nat
  BY SMT
<1>2. c \in Nat
  BY <1>1, SMT
<1>3. h * l = c + h * b /\ h * r = h * (a + 1) * (n2 + 1)
  BY SMT
<1>4. slack * (n + 1) * (n2 + 1) = (n2 + 1) * b
  BY SMT
<1>5. r <= l
  OBVIOUS
<1> HIDE DEF l, r, b
<1>6. h * r <= h * l
  BY <1>1, <1>5, SMT
<1>7. h * b <= (n2 + 1) * b
  BY <1>1, SMT
<1>8. h * b \in Nat /\ h * r \in Nat /\ h * l \in Nat /\ (n2 + 1) * b \in Nat
  BY <1>1, SMT
<1> HIDE DEF c
<1>9. c + (n2 + 1) * b >= h * r
  BY <1>2, <1>3, <1>6, <1>7, <1>8
<1> QED BY <1>3, <1>4, <1>9 DEF HeldLoss, c

(* A part of the shares loses no more than all of them.                    *)
LEMMA PartOfLoss ==
  ASSUME NEW h \in Nat, NEW s \in Nat \ {0}, h <= s, NEW a \in Nat, NEW n \in Nat,
         NEW a2 \in Nat, NEW n2 \in Nat, NEW loss \in Nat,
         HeldLoss(s, a, n, a2, n2, loss)
  PROVE  HeldLoss(h, a, n, a2, n2, loss)
<1> DEFINE x == (a2 + 1) * (n + 1)
           y == loss * (n + 1) * (n2 + 1)
           z == (a + 1) * (n2 + 1)
<1>1. x \in Nat /\ loss * (n + 1) \in Nat /\ z \in Nat
  BY SMT
<1>2. y \in Nat
  BY <1>1, SMT
<1>3. /\ s * (a2 + 1) * (n + 1) = s * x /\ s * (a + 1) * (n2 + 1) = s * z
      /\ h * (a2 + 1) * (n + 1) = h * x /\ h * (a + 1) * (n2 + 1) = h * z
  BY SMT
<1>4. s * x + y >= s * z
  BY <1>3 DEF HeldLoss
<1> HIDE DEF x, y, z
<1> DEFINE sx == s * x
           sz == s * z
           hx == h * x
           hz == h * z
<1>5. sx \in Nat /\ sz \in Nat /\ hx \in Nat /\ hz \in Nat
  BY <1>1, SMT
<1>6. h * (sx + y) >= h * sz
  <2> HIDE DEF sx, sz
  <2>1. sx + y >= sz
    BY <1>4 DEF sx, sz
  <2> QED BY <1>2, <1>5, <2>1, SMT
<1>7. h * (sx + y) = s * hx + h * y /\ h * sz = s * hz
  BY <1>1, <1>2, SMT
<1>8. h * y <= s * y
  BY <1>2, SMT
<1>9. s * (hx + y) = s * hx + s * y
  BY <1>1, <1>2, SMT
<1> HIDE DEF sx, sz, hx, hz
<1>10. /\ h * y \in Nat /\ s * y \in Nat /\ s * hx \in Nat /\ s * hz \in Nat
       /\ s * (hx + y) \in Nat
  BY <1>2, <1>5, SMT
<1>11. s * hz <= s * (hx + y)
  BY <1>6, <1>7, <1>8, <1>9, <1>10
<1>12. hx + y \in Nat
  BY <1>2, <1>5
<1>13. hz <= hx + y
  BY <1>5, <1>11, <1>12, CancelFactor
<1>14. hx + y >= hz
  BY <1>5, <1>12, <1>13
<1> QED BY <1>3, <1>14 DEF HeldLoss, hx, hz, y

(* No plan that keeps its shares, or adds to them, can withdraw less from  *)
(* the pool than before, but for loss.                                     *)
WorthKept(loss) ==
  \A p \in Plans : boostShares[p] <= boostShares'[p] =>
    ValueOf(boostShares[p]) <= ValueOf(boostShares[p])' + loss

LEMMA WorthOfPrice ==
  ASSUME TypeOK, TypeOK', SharesAgree, SharesAgree', NEW loss \in Nat,
         totalShares > 0 => PriceKept(loss) \/ HoldersLoseAtMost(loss)
  PROVE  WorthKept(loss)
<1> SUFFICES ASSUME NEW p \in Plans, boostShares[p] <= boostShares'[p]
             PROVE  ValueOf(boostShares[p]) <= ValueOf(boostShares[p])' + loss
  BY DEF WorthKept
<1> DEFINE assets == PoolAssets'
           out    == totalShares'
           kept   == boostShares'[p]
           h      == boostShares[p]
<1>1. /\ PoolAssets \in Nat /\ totalShares \in Nat /\ h \in Nat
      /\ boostShares \in [Plans -> Nat]
  BY PoolNumbers
<1>2. /\ assets \in Nat /\ out \in Nat /\ kept \in Nat
      /\ boostShares' \in [Plans -> Nat]
  BY ConstantTypes DEF TypeOK, PoolTyped, PoolAssets
<1>3. h <= totalShares
  BY <1>1, PartOfTotal DEF SharesAgree
<1>4. kept <= out
  <2>1. out = Total(boostShares')
    BY DEF SharesAgree
  <2> QED BY <1>2, <2>1, PartOfTotal
<1>5. h <= kept
  OBVIOUS
<1>w. /\ ValueOf(h)' = MulDiv(kept, assets + 1, out + 1)
      /\ ValueOf(h) = MulDiv(h, PoolAssets + 1, totalShares + 1)
  BY DEF ValueOf
<1>p. totalShares > 0 =>
        \/ (assets + loss + 1) * (totalShares + 1) >= (PoolAssets + 1) * (out + 1)
        \/ HeldLoss(totalShares, PoolAssets, totalShares, assets, out, loss)
  BY DEF PriceKept, HoldersLoseAtMost, HeldLoss
<1>v. ValueOf(h)' = MulDiv(kept, assets + 1, out + 1)
  BY <1>w
<1>g. SUFFICES MulDiv(h, PoolAssets + 1, totalShares + 1)
                 <= MulDiv(kept, assets + 1, out + 1) + loss
  BY <1>w
<1> HIDE DEF assets, out, kept, h
<1>6. HeldLoss(h, PoolAssets, totalShares, assets, out, loss)
  <2>1. CASE totalShares > 0
    <3>1. CASE HeldLoss(totalShares, PoolAssets, totalShares, assets, out, loss)
      <4>1. totalShares \in Nat \ {0}
        BY <1>1, <2>1
      <4> QED BY <1>1, <1>2, <1>3, <3>1, <4>1, PartOfLoss
    <3>2. CASE (assets + loss + 1) * (totalShares + 1)
                 >= (PoolAssets + 1) * (out + 1)
      <4>1. h <= out
        BY <1>1, <1>2, <1>4, <1>5
      <4> QED BY <1>1, <1>2, <3>2, <4>1, SlackIsLoss
    <3> QED BY <1>p, <2>1, <3>1, <3>2
  <2>2. CASE ~(totalShares > 0)
    <3>1. h = 0 /\ totalShares = 0
      BY <1>1, <1>3, <2>2
    <3>2. /\ h * (assets + 1) * (totalShares + 1) = 0
          /\ h * (PoolAssets + 1) * (out + 1) = 0
      BY <1>1, <1>2, <3>1, SMT
    <3>3. loss * (totalShares + 1) * (out + 1) \in Nat
      <4>1. loss * (totalShares + 1) \in Nat
        BY <1>1, SMT
      <4> QED BY <1>2, <4>1, SMT
    <3> QED BY <3>2, <3>3 DEF HeldLoss
  <2> QED BY <2>1, <2>2
<1> DEFINE a  == PoolAssets + 1
           n  == totalShares + 1
           a2 == assets + 1
           n2 == out + 1
<1>7. /\ a \in Nat \ {0} /\ n \in Nat \ {0}
      /\ a2 \in Nat \ {0} /\ n2 \in Nat \ {0}
      /\ h * a2 * n + loss * n * n2 >= h * a * n2
  BY <1>1, <1>2, <1>6 DEF HeldLoss
<1> HIDE DEF a, n, a2, n2
<1>8. MulDiv(h, a, n) <= MulDiv(kept, a2, n2) + loss
  BY <1>1, <1>2, <1>5, <1>7, WorthFollowsLoss
<1> QED BY <1>8 DEF a, n, a2, n2

(* What the price means for one plan: as long as its shares stay, what it  *)
(* could withdraw (BoostLib's _toAssets) falls by no call of anybody else  *)
(* by more than the credit that call's deposits may lack, or the rounding  *)
(* of its withdrawal.                                                      *)
THEOREM BoostWorthHolds ==
  Spec => [][IF totalShares' > totalShares
             THEN /\ \A p \in Plans :
                       Boost(p) => WorthKept(DepositTolerance(usdgIdle[p]))
                  /\ \A p \in Plans, g \in Deposits : DepositUSDG(p, g) =>
                       WorthKept(DepositTolerance(NetOf(g, fees.deposit)))
                  /\ \A p \in Plans, z \in Zaps : DepositWETH(p, z) =>
                       WorthKept(DepositTolerance(z))
                  /\ \A g \in Deposits \cup {0}, z1, z2 \in Zaps \cup {0} :
                       NewPlan(g, z1, z2) => WorthKept(
                         DepositTolerance(NetOf(g, fees.deposit))
                           + DepositTolerance(z1) + DepositTolerance(z2))
             ELSE WorthKept(Rounding) \/ StrategyFails]_vars
<1> DEFINE WorthStep ==
             IF totalShares' > totalShares
             THEN /\ \A p \in Plans :
                       Boost(p) => WorthKept(DepositTolerance(usdgIdle[p]))
                  /\ \A p \in Plans, g \in Deposits : DepositUSDG(p, g) =>
                       WorthKept(DepositTolerance(NetOf(g, fees.deposit)))
                  /\ \A p \in Plans, z \in Zaps : DepositWETH(p, z) =>
                       WorthKept(DepositTolerance(z))
                  /\ \A g \in Deposits \cup {0}, z1, z2 \in Zaps \cup {0} :
                       NewPlan(g, z1, z2) => WorthKept(
                         DepositTolerance(NetOf(g, fees.deposit))
                           + DepositTolerance(z1) + DepositTolerance(z2))
             ELSE WorthKept(Rounding) \/ StrategyFails
<1>1. ASSUME TypeOK, TypeOK', SharesAgree, SharesAgree', PriceStep
      PROVE  WorthStep
  <2>f. ASSUME NEW g \in Nat
        PROVE  /\ NetOf(g, fees.deposit) \in Nat
               /\ DepositTolerance(NetOf(g, fees.deposit)) \in Nat
    <3>1. fees.deposit \in 0..MaxFeeBps
      BY <1>1 DEF TypeOK, ConfigTyped, Fees
    <3> QED BY <3>1, FeeBelow, ToleranceType
  <2>1. ASSUME totalShares' > totalShares, NEW p \in Plans, Boost(p)
        PROVE  WorthKept(DepositTolerance(usdgIdle[p]))
    <3>1. DepositTolerance(usdgIdle[p]) \in Nat
      BY <1>1, ToleranceType DEF TypeOK, IdleTyped
    <3>2. totalShares > 0 => PriceKept(DepositTolerance(usdgIdle[p]))
      BY <1>1, <2>1 DEF PriceStep
    <3> QED BY <1>1, <3>1, <3>2, WorthOfPrice
  <2>2. ASSUME totalShares' > totalShares, NEW p \in Plans, NEW g \in Deposits,
               DepositUSDG(p, g)
        PROVE  WorthKept(DepositTolerance(NetOf(g, fees.deposit)))
    <3>1. DepositTolerance(NetOf(g, fees.deposit)) \in Nat
      BY <2>f, ConstantTypes
    <3>2. totalShares > 0 =>
            PriceKept(DepositTolerance(NetOf(g, fees.deposit)))
      BY <1>1, <2>2 DEF PriceStep
    <3> QED BY <1>1, <3>1, <3>2, WorthOfPrice
  <2>3. ASSUME totalShares' > totalShares, NEW p \in Plans, NEW z \in Zaps,
               DepositWETH(p, z)
        PROVE  WorthKept(DepositTolerance(z))
    <3>1. DepositTolerance(z) \in Nat
      BY ConstantTypes, ToleranceType
    <3>2. totalShares > 0 => PriceKept(DepositTolerance(z))
      BY <1>1, <2>3 DEF PriceStep
    <3> QED BY <1>1, <3>1, <3>2, WorthOfPrice
  <2>4. ASSUME totalShares' > totalShares, NEW g \in Deposits \cup {0},
               NEW z1 \in Zaps \cup {0}, NEW z2 \in Zaps \cup {0},
               NewPlan(g, z1, z2)
        PROVE  WorthKept(DepositTolerance(NetOf(g, fees.deposit))
                           + DepositTolerance(z1) + DepositTolerance(z2))
    <3> DEFINE loss == DepositTolerance(NetOf(g, fees.deposit))
                         + DepositTolerance(z1) + DepositTolerance(z2)
    <3>1. g \in Nat /\ z1 \in Nat /\ z2 \in Nat
      BY ConstantTypes
    <3>2. loss \in Nat
      BY <2>f, <3>1, ToleranceType
    <3>3. totalShares > 0 => HoldersLoseAtMost(loss)
      BY <1>1, <2>4 DEF PriceStep
    <3> HIDE DEF loss
    <3>4. WorthKept(loss)
      BY <1>1, <3>2, <3>3, WorthOfPrice
    <3> QED BY <3>4 DEF loss
  <2>5. ASSUME ~(totalShares' > totalShares), ~StrategyFails
        PROVE  WorthKept(Rounding)
    <3>1. totalShares > 0 => PriceKept(Rounding)
      BY <1>1, <2>5 DEF PriceStep
    <3> QED BY <1>1, <3>1, ConstantTypes, WorthOfPrice
  <2> QED BY <2>1, <2>2, <2>3, <2>4, <2>5
<1>2. TypeOK /\ TypeOK' /\ TotalsAgree /\ TotalsAgree' /\ PriceStep => WorthStep
  BY <1>1, AgreeParts DEF TotalsAgree, SharesAgree
<1>3. PoolInv /\ [Next]_vars => PriceStep
  BY StepPrice
<1> HIDE DEF WorthStep
<1>4. Spec => [][WorthStep]_vars
  BY <1>2, <1>3, TypeCorrect, TotalsAlwaysAgree, PoolInvariant, PTL DEF Spec
<1> QED BY <1>4 DEF WorthStep
=============================================================================
