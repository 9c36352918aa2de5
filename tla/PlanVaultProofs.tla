-------------------------- MODULE PlanVaultProofs --------------------------
(***************************************************************************)
(* Proofs about PlanVault, for every value of its constants.               *)
(***************************************************************************)
EXTENDS PlanVaultProperties, TotalsTheorems

-----------------------------------------------------------------------------
(* Arithmetic of amounts and shares.                                       *)

(* A floored or raised product of amounts is an amount.                    *)
LEMMA MulDivNat ==
  ASSUME NEW a \in Nat, NEW b \in Nat, NEW d \in Nat \ {0}
  PROVE  MulDiv(a, b, d) \in Nat /\ MulDivUp(a, b, d) \in Nat
<1>1. a * b \in Nat
  BY SMT
<1> DEFINE x == a * b
<1>2. x \in Nat
  BY <1>1
<1> HIDE DEF x
<1>3. x \div d \in Nat /\ (x + d - 1) \div d \in Nat
  BY <1>2, SMT
<1> QED BY <1>3 DEF MulDiv, MulDivUp, x

(* Division by a positive number, characterised by multiplication.         *)
LEMMA DivLaw ==
  ASSUME NEW x \in Nat, NEW d \in Nat \ {0}
  PROVE  /\ x \div d \in Nat
         /\ d * (x \div d) <= x
         /\ x < d * (x \div d) + d
BY SMT

(* A fee never exceeds the amount it is taken from.                        *)
LEMMA FeeBelow ==
  ASSUME NEW a \in Nat, NEW bps \in 0..MaxFeeBps
  PROVE  FeeOf(a, bps) \in 0..a /\ NetOf(a, bps) \in 0..a
<1>1. BPS \in Nat \ {0} /\ bps \in Nat /\ bps < BPS
  BY FeeAssumption, SMT
<1>2. a * bps \in Nat /\ a * bps <= a * BPS
  BY <1>1, SMT
<1> DEFINE q == (a * bps) \div BPS
<1>3. q \in Nat /\ BPS * q <= a * bps
  BY <1>1, <1>2, DivLaw
<1> HIDE DEF q
<1>4. q <= a
  <2>1. BPS * q <= BPS * a
    BY <1>1, <1>2, <1>3, SMT
  <2> QED BY <1>1, <1>3, <2>1, SMT
<1> QED BY <1>3, <1>4 DEF FeeOf, NetOf, MulDiv, q

(* Rounding a withdrawal up never burns more shares than the plan holds:   *)
(* h shares of n, a pool of v, a withdrawal of a below their worth.        *)
LEMMA BurnWithinHolding ==
  ASSUME NEW h \in Nat, NEW n \in Nat, NEW v \in Nat, NEW a \in Nat,
         a < MulDiv(h, v + 1, n + 1)
  PROVE  MulDivUp(a, n + 1, v + 1) \in 0..h
<1> DEFINE w == (h * (v + 1)) \div (n + 1)
           x == a * (n + 1) + (v + 1) - 1
           q == x \div (v + 1)
<1>1. /\ h * (v + 1) \in Nat /\ a * (n + 1) \in Nat
      /\ v + 1 \in Nat \ {0} /\ n + 1 \in Nat \ {0}
  BY SMT
<1>2. w \in Nat /\ (n + 1) * w <= h * (v + 1)
  BY <1>1, DivLaw
<1>3. x \in Nat
  BY <1>1, SMT
<1>4. q \in Nat /\ (v + 1) * q <= x
  BY <1>3, DivLaw
<1>5. a < w
  BY DEF MulDiv
<1> HIDE DEF w, q
<1>6. a * (n + 1) < h * (v + 1)
  <2>1. (n + 1) * a < (n + 1) * w
    BY <1>2, <1>5, SMT
  <2> QED BY <1>1, <1>2, <2>1, SMT
<1>7. (v + 1) * q < (v + 1) * (h + 1)
  BY <1>1, <1>4, <1>6, SMT
<1>8. q <= h
  BY <1>4, <1>7, SMT
<1> QED BY <1>4, <1>8 DEF MulDivUp, q

-----------------------------------------------------------------------------
(* Types.                                                                  *)

(* What the assumption on the constants says of each of them.              *)
LEMMA ConstantTypes ==
  /\ IsFiniteSet(Plans) /\ IsFiniteSet(Strategies)
  /\ None \notin Users /\ None \notin Stocks /\ None \notin Strategies
  /\ MaxShares \in Nat /\ MaxEpoch \in Nat /\ Supply \in Nat
  /\ DEPOSIT_TOLERANCE_ABS \in Nat /\ DEPOSIT_TOLERANCE_BPS \in Nat
  /\ Rounding \in Nat
  /\ BPS \in Nat \ {0} /\ MaxFeeBps \in Nat /\ MaxFeeBps < BPS
  /\ Fees0 \in Fees /\ Knobs0 \in Knobs
  /\ \A f \in FeeChoices : f \in Fees
  /\ \A k \in KnobChoices : k \in Knobs
  /\ \A a \in AmountsPerEpoch : a \in Nat
  /\ \A a \in Deposits : a \in Nat
  /\ \A a \in Bought : a \in Nat
  /\ \A a \in Gains : a \in Nat
  /\ \A a \in Losses : a \in Nat
  /\ \A a \in Gifts : a \in Nat
  /\ \A a \in Zaps : a \in Nat
  /\ \A a \in Limits : a \in Nat
  /\ \A a \in Unspent : a \in Nat
  /\ \A perk \in Perks : perk \in [Users -> [halve : BOOLEAN, auto : BOOLEAN]]
BY VaultAssumption, FeeAssumption

LEMMA InitTypes == Init => TypeOK
<1> SUFFICES ASSUME Init PROVE TypeOK
  OBVIOUS
<1> USE ConstantTypes DEF Init
<1>1. ChainTyped
  <2>1. 0 \in 0..MaxEpoch
    BY SMT
  <2> QED BY <2>1 DEF ChainTyped
<1>c. ConfigTyped
  BY DEF ConfigTyped
<1>2. TermsTyped /\ FlagsTyped
  BY DEF TermsTyped, FlagsTyped
<1>3. IndexTyped /\ CursorTyped
  BY DEF IndexTyped, CursorTyped
<1>4. IdleTyped /\ AccruedTyped
  BY DEF IdleTyped, AccruedTyped
<1>5. PoolTyped /\ ResidueTyped
  BY DEF PoolTyped, ResidueTyped
<1> QED BY <1>1, <1>c, <1>2, <1>3, <1>4, <1>5 DEF TypeOK

(* The pool and the worth of a share are amounts.                          *)
LEMMA PoolTypes ==
  ASSUME TypeOK
  PROVE  /\ PoolAssets \in Nat
         /\ \A n \in Nat : ValueOf(n) \in Nat
<1>1. PoolAssets \in Nat
  BY DEF TypeOK, PoolTyped, PoolAssets
<1>2. PoolAssets + 1 \in Nat /\ totalShares + 1 \in Nat \ {0}
  BY <1>1 DEF TypeOK, PoolTyped
<1>3. ASSUME NEW n \in Nat PROVE ValueOf(n) \in Nat
  BY <1>2, MulDivNat DEF ValueOf
<1> QED BY <1>1, <1>3

LEMMA MintType ==
  ASSUME NEW a \in Nat, NEW v \in Nat, NEW n \in Nat
  PROVE  Mint(a, v, n) \in Nat
<1>1. n + 1 \in Nat /\ v + 1 \in Nat \ {0}
  BY SMT
<1> QED BY <1>1, MulDivNat DEF Mint

LEMMA BurnType ==
  ASSUME TypeOK, NEW p \in Plans, NEW a \in Nat
  PROVE  Burn(p, a) \in 0..boostShares[p]
<1>1. boostShares[p] \in Nat /\ totalShares \in Nat /\ PoolAssets \in Nat
  BY PoolTypes, ConstantTypes DEF TypeOK, PoolTyped
<1>2. CASE a >= ValueOf(boostShares[p])
  BY <1>1, <1>2 DEF Burn
<1>3. CASE ~(a >= ValueOf(boostShares[p]))
  <2>1. ValueOf(boostShares[p]) \in Nat
    BY <1>1, PoolTypes
  <2>2. a < MulDiv(boostShares[p], PoolAssets + 1, totalShares + 1)
    BY <1>3, <2>1 DEF ValueOf
  <2>3. MulDivUp(a, totalShares + 1, PoolAssets + 1) \in 0..boostShares[p]
    BY <1>1, <2>2, BurnWithinHolding
  <2> QED BY <1>3, <2>3 DEF Burn
<1> QED BY <1>2, <1>3

(* What a strategy may credit for a deposit.                               *)
LEMMA CreditsType ==
  ASSUME NEW a \in Nat, NEW k \in Credits(a)
  PROVE  k \in Nat /\ k <= a /\ DepositTolerance(a) \in Nat
         /\ a <= k + DepositTolerance(a)
<1>1. DepositTolerance(a) \in Nat
  BY ConstantTypes, MulDivNat DEF DepositTolerance
<1> QED BY <1>1 DEF Credits

(* What a payment of the strategy may cost the position.                   *)
LEMMA CostsType ==
  ASSUME TypeOK, NEW a \in Nat, NEW c \in Costs(a)
  PROVE  /\ c \in Nat /\ a <= c /\ c <= a + Rounding /\ c <= PoolAssets
         /\ a = 0 => c = 0
<1>1. PoolAssets \in Nat
  BY PoolTypes
<1> QED BY <1>1, ConstantTypes DEF Costs, Smaller

LEMMA PutInPoolTypes ==
  ASSUME TypeOK, NEW p \in Plans, NEW a \in Nat, NEW m \in Nat,
         PutInPool(p, a, m)
  PROVE  PoolTyped'
<1> USE ConstantTypes DEF TypeOK, PutInPool, PoolTyped
<1>1. boostShares' \in [Plans -> 0..MaxShares]
  OBVIOUS
<1>2. position' \in [Strategies -> Nat]
  OBVIOUS
<1> QED BY <1>1, <1>2

LEMMA TakeFromPoolTypes ==
  ASSUME TypeOK, NEW p \in Plans, NEW a \in Nat, TakeFromPool(p, a)
  PROVE  PoolTyped'
<1>1. Burn(p, a) \in 0..boostShares[p]
  BY BurnType
<1>2. boostShares' \in [Plans -> 0..MaxShares]
  BY <1>1, ConstantTypes DEF TypeOK, PoolTyped, TakeFromPool
<1>3. totalShares' \in Nat
  BY <1>1, ConstantTypes DEF TypeOK, PoolTyped, TakeFromPool
<1>4. position' \in [Strategies -> Nat]
  <2>1. PICK cost \in Costs(a) :
          position' = [v \in Strategies |->
                         IF v = strategy THEN position[v] - cost ELSE position[v]]
    BY DEF TakeFromPool
  <2>2. cost \in Nat /\ cost <= PoolAssets
    BY CostsType
  <2>3. strategy \in Strategies => cost <= position[strategy]
    BY <2>2, ConstantTypes DEF PoolAssets
  <2> QED BY <2>1, <2>2, <2>3 DEF TypeOK, PoolTyped
<1> QED BY <1>2, <1>3, <1>4 DEF TypeOK, TakeFromPool, PoolTyped

LEMMA IdleTypes ==
  ASSUME TypeOK, NEW p \in Plans, NEW a \in Nat,
         CreditIdle(p, a) \/ DebitIdle(p, a)
  PROVE  IdleTyped'
BY DEF TypeOK, IdleTyped, CreditIdle, DebitIdle

LEMMA IndexTypes ==
  ASSUME TypeOK, NEW p \in Plans, NEW s \in Stocks, IndexPlan(p, s)
  PROVE  IndexTyped'
<1>1. Len(stockPlans[s]) \in Nat /\ Append(stockPlans[s], p) \in Seq(Plans)
  BY DEF TypeOK, IndexTyped
<1>2. CASE stockPlanIndex[p] # 0
  BY <1>2 DEF TypeOK, IndexPlan, IndexTyped, index
<1>3. CASE stockPlanIndex[p] = 0
  <2>1. stockPlans' \in [Stocks -> Seq(Plans)]
    BY <1>1, <1>3 DEF TypeOK, IndexPlan, IndexTyped
  <2>2. stockPlanIndex' \in [Plans -> Nat]
    BY <1>1, <1>3 DEF TypeOK, IndexPlan, IndexTyped
  <2> QED BY <2>1, <2>2 DEF IndexTyped
<1> QED BY <1>2, <1>3

LEMMA UnindexTypes ==
  ASSUME TypeOK, NEW p \in Plans, UnindexPlan(p)
  PROVE  IndexTyped'
<1>1. CASE stockPlanIndex[p] = 0
  BY <1>1 DEF TypeOK, UnindexPlan, IndexTyped, index
<1>2. CASE stockPlanIndex[p] # 0
  <2> DEFINE arr  == stockPlans[stock[p]]
             last == arr[Len(arr)]
             new  == [i \in 1..(Len(arr) - 1) |->
                        IF i = stockPlanIndex[p] THEN last ELSE arr[i]]
  <2>1. /\ stockPlans' = [stockPlans EXCEPT ![stock[p]] = new]
        /\ stockPlanIndex' = [stockPlanIndex EXCEPT ![last] = stockPlanIndex[p],
                                                    ![p] = 0]
    BY <1>2 DEF UnindexPlan
  <2>2. stockPlanIndex' \in [Plans -> Nat]
    BY <2>1 DEF TypeOK, IndexTyped
  <2>3. ASSUME stock[p] \in Stocks PROVE new \in Seq(Plans)
    <3>1. arr \in Seq(Plans) /\ Len(arr) \in Nat
      BY <2>3 DEF TypeOK, IndexTyped
    <3>2. \A i \in 1..(Len(arr) - 1) : new[i] \in Plans
      BY <3>1
    <3> DEFINE n == IF Len(arr) = 0 THEN 0 ELSE Len(arr) - 1
    <3>3. n \in Nat /\ 1..n = 1..(Len(arr) - 1)
      BY <3>1
    <3>4. new \in [1..n -> Plans]
      BY <3>2, <3>3
    <3> QED BY <3>3, <3>4
  <2>4. stockPlans' \in [Stocks -> Seq(Plans)]
    <3> HIDE DEF new
    <3> QED BY <2>1, <2>3 DEF TypeOK, IndexTyped
  <2> QED BY <2>2, <2>4 DEF IndexTyped
<1> QED BY <1>1, <1>2

(* A part of the plans' amounts has a sum.                                 *)
LEMMA ByOwnerType ==
  ASSUME NEW a \in [Plans -> Nat], NEW u
  PROVE  ByOwner(u, a) \in Nat
<1>1. [p \in Plans |-> IF owner[p] = u THEN a[p] ELSE 0] \in [Plans -> Nat]
  OBVIOUS
<1> QED BY <1>1, ConstantTypes, TotalNat DEF ByOwner

LEMMA PayStockTypes ==
  ASSUME TypeOK, NEW s \in Stocks, NEW a \in [Plans -> Nat], NEW perk,
         PayStock(s, a, perk)
  PROVE  AccruedTyped'
<1>1. Total(a) \in Nat
  BY ConstantTypes, TotalNat
<1>2. \A u \in Users : ByOwner(u, a) \in Nat
  BY ByOwnerType
<1>3. stockAccrued' \in [Plans -> Nat]
  BY DEF TypeOK, AccruedTyped, PayStock
<1>4. totalStockAccrued' \in [Stocks -> Nat] /\ stockBal' \in [Stocks -> Nat]
  BY <1>1 DEF TypeOK, AccruedTyped, PayStock
<1>5. userStockAccrued' \in [Users -> [Stocks -> Nat]]
  <2>1. ASSUME NEW u \in Users
        PROVE  [userStockAccrued[u] EXCEPT ![s] = @ - ByOwner(u, a)]
                 \in [Stocks -> Nat]
    BY <1>2 DEF TypeOK, AccruedTyped, PayStock
  <2> QED BY <2>1 DEF PayStock
<1> QED BY <1>3, <1>4, <1>5 DEF AccruedTyped

(* The deposits of a call that lends, one after another: each is credited  *)
(* with its tolerance and mints for the position the ones before left.     *)
LentInTurn(p, c1, c2, c3) ==
  \E k1, k2, k3, m1, m2, m3 \in Nat :
    /\ k1 \in Credits(c1) /\ k2 \in Credits(c2) /\ k3 \in Credits(c3)
    /\ m1 = Mint(c1, PoolAssets, totalShares)
    /\ m2 = Mint(c2, PoolAssets + k1, totalShares + m1)
    /\ m3 = Mint(c3, PoolAssets + k1 + k2, totalShares + m1 + m2)
    /\ PutInPool(p, k1 + k2 + k3, m1 + m2 + m3)

LEMMA CreditLends ==
  ASSUME TypeOK, NEW p \in Plans, NEW lends \in BOOLEAN, lends,
         NEW c1 \in Nat, NEW c2 \in Nat, NEW c3 \in Nat,
         Credit(p, lends, c1, c2, c3)
  PROVE  UNCHANGED idle /\ LentInTurn(p, c1, c2, c3)
<1>1. PICK k1 \in Credits(c1), k2 \in Credits(c2), k3 \in Credits(c3) :
        LET m1 == Mint(c1, PoolAssets, totalShares)
            m2 == Mint(c2, PoolAssets + k1, totalShares + m1)
            m3 == Mint(c3, PoolAssets + k1 + k2, totalShares + m1 + m2)
        IN PutInPool(p, k1 + k2 + k3, m1 + m2 + m3)
  BY DEF Credit
<1> DEFINE m1 == Mint(c1, PoolAssets, totalShares)
           m2 == Mint(c2, PoolAssets + k1, totalShares + m1)
           m3 == Mint(c3, PoolAssets + k1 + k2, totalShares + m1 + m2)
<1>2. PutInPool(p, k1 + k2 + k3, m1 + m2 + m3)
  BY <1>1
<1>3. k1 \in Nat /\ k2 \in Nat /\ k3 \in Nat
  BY CreditsType
<1>4. PoolAssets \in Nat /\ totalShares \in Nat
  BY PoolTypes DEF TypeOK, PoolTyped
<1>5. m1 \in Nat
  BY <1>4, MintType
<1> HIDE DEF m1
<1>6. m2 \in Nat
  <2>1. PoolAssets + k1 \in Nat /\ totalShares + m1 \in Nat
    BY <1>3, <1>4, <1>5
  <2> QED BY <2>1, MintType
<1> HIDE DEF m2
<1>7. m3 \in Nat
  <2>1. PoolAssets + k1 + k2 \in Nat /\ totalShares + m1 + m2 \in Nat
    BY <1>3, <1>4, <1>5, <1>6
  <2> QED BY <2>1, MintType
<1> HIDE DEF m3
<1>8. /\ m1 = Mint(c1, PoolAssets, totalShares)
      /\ m2 = Mint(c2, PoolAssets + k1, totalShares + m1)
      /\ m3 = Mint(c3, PoolAssets + k1 + k2, totalShares + m1 + m2)
  BY DEF m1, m2, m3
<1>9. k1 \in Credits(c1) /\ k2 \in Credits(c2) /\ k3 \in Credits(c3)
  OBVIOUS
<1>10. UNCHANGED idle
  BY DEF Credit
<1> QED BY <1>2, <1>3, <1>5, <1>6, <1>7, <1>8, <1>9, <1>10 DEF LentInTurn

(* The same as one deposit: some gain of the position, some shares.        *)
LEMMA CreditPuts ==
  ASSUME TypeOK, NEW p \in Plans, NEW lends \in BOOLEAN, lends,
         NEW c1 \in Nat, NEW c2 \in Nat, NEW c3 \in Nat,
         Credit(p, lends, c1, c2, c3)
  PROVE  UNCHANGED idle /\ \E k \in Nat, m \in Nat : PutInPool(p, k, m)
<1>1. UNCHANGED idle /\ LentInTurn(p, c1, c2, c3)
  BY CreditLends
<1>2. PICK k1, k2, k3, m1, m2, m3 \in Nat :
        /\ k1 \in Credits(c1) /\ k2 \in Credits(c2) /\ k3 \in Credits(c3)
        /\ m1 = Mint(c1, PoolAssets, totalShares)
        /\ m2 = Mint(c2, PoolAssets + k1, totalShares + m1)
        /\ m3 = Mint(c3, PoolAssets + k1 + k2, totalShares + m1 + m2)
        /\ PutInPool(p, k1 + k2 + k3, m1 + m2 + m3)
  BY <1>1 DEF LentInTurn
<1>3. k1 + k2 + k3 \in Nat /\ m1 + m2 + m3 \in Nat
  BY <1>2
<1> QED BY <1>1, <1>2, <1>3

LEMMA CreditTypes ==
  ASSUME TypeOK, NEW p \in Plans, NEW lends \in BOOLEAN,
         NEW c1 \in Nat, NEW c2 \in Nat, NEW c3 \in Nat,
         Credit(p, lends, c1, c2, c3)
  PROVE  PoolTyped' /\ IdleTyped'
<1>1. CASE lends
  <2>1. PICK k \in Nat, m \in Nat : PutInPool(p, k, m)
    BY <1>1, CreditPuts
  <2>2. UNCHANGED idle
    BY <1>1, CreditPuts
  <2>3. PoolTyped'
    BY <2>1, PutInPoolTypes
  <2> QED BY <2>2, <2>3 DEF TypeOK, idle, IdleTyped
<1>2. CASE ~lends
  <2>1. CreditIdle(p, c1 + c2 + c3) /\ UNCHANGED pool
    BY <1>2 DEF Credit
  <2>2. IdleTyped'
    BY <2>1, IdleTypes
  <2> QED BY <2>1, <2>2 DEF TypeOK, pool, PoolTyped
<1> QED BY <1>1, <1>2

LEMMA SweepTypes ==
  ASSUME TypeOK, NEW booked \in Nat, NEW held \in Nat, NEW min \in Nat,
         Sweep(booked, held, min)
  PROVE  dust' \in [usdg : Nat, weth : Nat] /\ usdgBal' \in Nat /\ wethBal' \in Nat
BY DEF TypeOK, ResidueTyped, Sweep

(* A floored pro-rata part is an amount.                                   *)
LEMMA ProRataType ==
  ASSUME NEW sum \in Nat, NEW net \in [Plans -> Nat], Total(net) > 0
  PROVE  ProRata(sum, net) \in [Plans -> Nat]
<1>1. Total(net) \in Nat \ {0}
  BY ConstantTypes, TotalNat
<1>2. ASSUME NEW p \in Plans PROVE MulDiv(sum, net[p], Total(net)) \in Nat
  BY <1>1, MulDivNat
<1> QED BY <1>2 DEF ProRata

(* What a page wants and takes.                                            *)
LEMMA SpendTypes ==
  ASSUME TypeOK, NEW s \in Stocks, NEW from \in Nat, NEW to \in Nat
  PROVE  Spends(s, from, to) \in [Plans -> Nat]
<1>1. ASSUME NEW p \in Plans PROVE Spend(p, s) \in Nat
  <2>1. usdgIdle[p] \in Nat /\ boostShares[p] \in Nat
    BY ConstantTypes DEF TypeOK, IdleTyped, PoolTyped
  <2>2. ValueOf(boostShares[p]) \in Nat
    BY <2>1, PoolTypes
  <2>3. Available(p) \in Nat
    BY <2>1, <2>2 DEF Available
  <2>4. Smaller(Available(p), amountPerEpoch[p]) \in Nat
    BY <2>3 DEF TypeOK, TermsTyped, Smaller
  <2> QED BY <2>4 DEF Spend
<1> QED BY <1>1 DEF Spends

LEMMA FromBoostTypes ==
  ASSUME TypeOK, NEW spend \in [Plans -> Nat]
  PROVE  /\ FromBoost(spend) \in [Plans -> Nat]
         /\ DropBoosted(spend) \in [Plans -> Nat]
         /\ \A p \in Plans : /\ FromBoost(spend)[p] <= spend[p]
                             /\ spend[p] - FromBoost(spend)[p] <= usdgIdle[p]
<1>1. \A p \in Plans : usdgIdle[p] \in Nat /\ spend[p] \in Nat
  BY DEF TypeOK, IdleTyped
<1> QED BY <1>1 DEF FromBoost, DropBoosted

LEMMA PurchaseFeeType ==
  ASSUME TypeOK, NEW p \in Plans, NEW a \in Nat, NEW perk
  PROVE  PurchaseFee(p, perk, a) \in 0..a
<1>1. fees.purchase \in 0..MaxFeeBps
  BY DEF TypeOK, ConfigTyped, Fees
<1>2. Halve(fees.purchase) \in 0..MaxFeeBps
  BY <1>1, ConstantTypes DEF Halve
<1> QED BY <1>1, <1>2, FeeBelow DEF PurchaseFee

LEMMA SkipPageTypes ==
  ASSUME TypeOK, NEW spend, SkipPage(spend)
  PROVE  /\ lastEpochId' \in [Plans -> 0..MaxEpoch]
         /\ IdleTyped' /\ AccruedTyped' /\ PoolTyped'
         /\ dustPot' \in [Stocks -> Nat]
         /\ dust' \in [usdg : Nat, weth : Nat] /\ wethBal' \in Nat
<1>1. Sweep(dust.usdg, usdgBal, knobs.sweepMin)
  BY DEF SkipPage
<1>2. dust.usdg \in Nat /\ usdgBal \in Nat /\ knobs.sweepMin \in Nat
  BY DEF TypeOK, ResidueTyped, IdleTyped, ConfigTyped, Knobs
<1>3. /\ dust' \in [usdg : Nat, weth : Nat]
      /\ usdgBal' \in Nat /\ wethBal' \in Nat
  BY <1>1, <1>2, SweepTypes
<1> QED
  BY <1>3 DEF TypeOK, SkipPage, accrued, pool, FlagsTyped, IdleTyped,
               AccruedTyped, PoolTyped, ResidueTyped

LEMMA BuyPageTypes ==
  ASSUME TypeOK, NEW s \in Stocks, NEW spend \in [Plans -> Nat], NEW perk,
         NEW bought \in Nat, NEW unspent \in Nat,
         BuyPage(s, spend, perk, bought, unspent)
  PROVE  /\ lastEpochId' \in [Plans -> 0..MaxEpoch]
         /\ IdleTyped' /\ AccruedTyped' /\ PoolTyped'
         /\ dustPot' \in [Stocks -> Nat]
         /\ dust' \in [usdg : Nat, weth : Nat] /\ wethBal' \in Nat
<1> DEFINE fee     == [p \in Plans |-> PurchaseFee(p, perk, spend[p])]
           net     == [p \in Plans |-> spend[p] - fee[p]]
           lent    == FromBoost(spend)
           burned  == [p \in Plans |-> IF lent[p] > 0 THEN Burn(p, lent[p]) ELSE 0]
           left    == Smaller(unspent, Total(net))
           back    == ProRata(left, net)
           pot     == bought + dustPot[s]
           share   == ProRata(pot, net)
           kept    == [p \in Plans |-> IF /\ Exists(p) /\ perk[owner[p]].auto
                                         /\ <<s, recipient[p]>> \notin Refused
                                      THEN 0 ELSE share[p]]
           sent    == Total(share) - Total(kept)
           paidOut == Total(net) - left + Total(fee)
           booked  == dust.usdg + left - Total(back)
           held    == usdgBal + Total(lent) - paidOut
<1>a. /\ Total(net) > 0
      /\ lastEpochId' = [p \in Plans |->
                           IF spend[p] > 0 THEN epoch ELSE lastEpochId[p]]
      /\ Total(lent) <= PoolAssets
      /\ Total(spend) - Total(lent) <= totalUsdgIdle
      /\ usdgIdle' = [p \in Plans |->
                        usdgIdle[p] - (spend[p] - lent[p]) + back[p]]
      /\ totalUsdgIdle' =
           totalUsdgIdle - (Total(spend) - Total(lent)) + Total(back)
      /\ Total(burned) <= totalShares
      /\ boostShares' = [p \in Plans |-> boostShares[p] - burned[p]]
      /\ totalShares' = totalShares - Total(burned)
      /\ \E cost \in Costs(Total(lent)) :
           position' = [v \in Strategies |->
                          position[v] - (IF v = strategy THEN cost ELSE 0)]
  BY DEF BuyPage
<1>b. /\ stockAccrued' = [p \in Plans |-> stockAccrued[p] + kept[p]]
      /\ totalStockAccrued' = [totalStockAccrued EXCEPT ![s] = @ + Total(kept)]
      /\ userStockAccrued' = [u \in Users |->
           [userStockAccrued[u] EXCEPT ![s] = @ + ByOwner(u, kept)]]
      /\ sent <= stockBal[s] + bought
      /\ stockBal' = [stockBal EXCEPT ![s] = @ + bought - sent]
      /\ Total(share) <= pot
      /\ dustPot' = [dustPot EXCEPT ![s] = pot - Total(share)]
      /\ Total(back) <= left
      /\ paidOut <= usdgBal + Total(lent)
      /\ Sweep(booked, held, knobs.sweepMin)
      /\ UNCHANGED strategy
  BY DEF BuyPage
<1>1. fee \in [Plans -> Nat] /\ net \in [Plans -> Nat]
  <2>1. ASSUME NEW p \in Plans PROVE fee[p] \in 0..spend[p]
    BY PurchaseFeeType
  <2> QED BY <2>1
<1>2. /\ lent \in [Plans -> Nat]
      /\ \A p \in Plans : spend[p] - lent[p] \in 0..usdgIdle[p]
  BY FromBoostTypes DEF TypeOK, IdleTyped
<1>3. /\ burned \in [Plans -> Nat]
      /\ \A p \in Plans : burned[p] <= boostShares[p]
  <2>1. ASSUME NEW p \in Plans PROVE burned[p] \in 0..boostShares[p]
    <3>1. lent[p] \in Nat /\ boostShares[p] \in Nat
      BY <1>2, ConstantTypes DEF TypeOK, PoolTyped
    <3>2. Burn(p, lent[p]) \in 0..boostShares[p]
      BY <3>1, BurnType
    <3> QED BY <3>1, <3>2
  <2> QED BY <2>1, ConstantTypes DEF TypeOK, PoolTyped
<1> HIDE DEF fee, net, lent, burned
<1>4. /\ Total(fee) \in Nat /\ Total(net) \in Nat /\ Total(lent) \in Nat
      /\ Total(burned) \in Nat /\ Total(spend) \in Nat
  BY <1>1, <1>2, <1>3, ConstantTypes, TotalNat
<1>5. left \in Nat /\ pot \in Nat
  BY <1>4 DEF TypeOK, ResidueTyped, Smaller
<1> HIDE DEF left, pot
<1>6. back \in [Plans -> Nat] /\ share \in [Plans -> Nat]
  BY <1>1, <1>5, <1>a, ProRataType
<1> HIDE DEF back, share
<1>7. kept \in [Plans -> Nat]
  BY <1>6
<1> HIDE DEF kept
<1>8. Total(back) \in Nat /\ Total(share) \in Nat /\ Total(kept) \in Nat
  BY <1>6, <1>7, ConstantTypes, TotalNat
<1>9. \A u \in Users : ByOwner(u, kept) \in Nat
  BY <1>7, ByOwnerType
<1>10. lastEpochId' \in [Plans -> 0..MaxEpoch]
  BY <1>a DEF TypeOK, ChainTyped, FlagsTyped
<1>11. booked \in Nat /\ held \in Nat /\ knobs.sweepMin \in Nat
  BY <1>4, <1>5, <1>8, <1>b
  DEF TypeOK, ResidueTyped, IdleTyped, ConfigTyped, Knobs
<1>12. /\ dust' \in [usdg : Nat, weth : Nat]
       /\ usdgBal' \in Nat /\ wethBal' \in Nat
  BY <1>11, <1>b, SweepTypes
<1>13. IdleTyped'
  <2>1. usdgIdle' \in [Plans -> Nat]
    BY <1>2, <1>6, <1>a DEF TypeOK, IdleTyped
  <2>2. totalUsdgIdle' \in Nat
    BY <1>4, <1>8, <1>a DEF TypeOK, IdleTyped
  <2> QED BY <2>1, <2>2, <1>12 DEF IdleTyped
<1>14. PoolTyped'
  <2>1. boostShares' \in [Plans -> 0..MaxShares]
    BY <1>3, <1>a, ConstantTypes DEF TypeOK, PoolTyped
  <2>2. totalShares' \in Nat
    BY <1>4, <1>a DEF TypeOK, PoolTyped
  <2>3. position' \in [Strategies -> Nat]
    <3>1. PICK cost \in Costs(Total(lent)) :
            position' = [v \in Strategies |->
                           position[v] - (IF v = strategy THEN cost ELSE 0)]
      BY <1>a
    <3>2. cost \in Nat /\ cost <= PoolAssets
      BY <1>4, CostsType
    <3>3. strategy \in Strategies => cost <= position[strategy]
      BY <3>2, ConstantTypes DEF PoolAssets
    <3> QED BY <3>1, <3>2, <3>3 DEF TypeOK, PoolTyped
  <2> QED BY <2>1, <2>2, <2>3, <1>b DEF PoolTyped, TypeOK
<1>15. AccruedTyped'
  <2>1. stockAccrued' \in [Plans -> Nat]
    BY <1>7, <1>b DEF TypeOK, AccruedTyped
  <2>2. totalStockAccrued' \in [Stocks -> Nat]
    BY <1>8, <1>b DEF TypeOK, AccruedTyped
  <2>3. userStockAccrued' \in [Users -> [Stocks -> Nat]]
    <3>1. ASSUME NEW u \in Users
          PROVE  [userStockAccrued[u] EXCEPT ![s] = @ + ByOwner(u, kept)]
                   \in [Stocks -> Nat]
      BY <1>9 DEF TypeOK, AccruedTyped
    <3> QED BY <3>1, <1>b
  <2>4. stockBal' \in [Stocks -> Nat]
    BY <1>8, <1>b DEF TypeOK, AccruedTyped
  <2> QED BY <2>1, <2>2, <2>3, <2>4 DEF AccruedTyped
<1>16. dustPot' \in [Stocks -> Nat]
  BY <1>5, <1>8, <1>b DEF TypeOK, ResidueTyped
<1> QED BY <1>10, <1>12, <1>13, <1>14, <1>15, <1>16

-----------------------------------------------------------------------------
(* Every action keeps the types.                                           *)

(* A part of the state that does not change keeps its type.                *)
LEMMA KeptTypes ==
  ASSUME TypeOK
  PROVE  /\ UNCHANGED chain => ChainTyped'
         /\ UNCHANGED config => ConfigTyped'
         /\ UNCHANGED terms => TermsTyped'
         /\ UNCHANGED flags => FlagsTyped'
         /\ UNCHANGED index => IndexTyped'
         /\ UNCHANGED cursor => CursorTyped'
         /\ UNCHANGED idle => IdleTyped'
         /\ UNCHANGED accrued => AccruedTyped'
         /\ UNCHANGED pool => PoolTyped'
         /\ UNCHANGED residue => ResidueTyped'
<1>1. UNCHANGED chain => ChainTyped'
  BY DEF TypeOK, chain, ChainTyped
<1>2. UNCHANGED config => ConfigTyped'
  BY DEF TypeOK, config, ConfigTyped
<1>3. UNCHANGED terms => TermsTyped'
  BY DEF TypeOK, terms, TermsTyped
<1>4. UNCHANGED flags => FlagsTyped'
  BY DEF TypeOK, flags, FlagsTyped
<1>5. UNCHANGED index => IndexTyped'
  BY DEF TypeOK, index, IndexTyped
<1>6. UNCHANGED cursor => CursorTyped'
  BY DEF TypeOK, cursor, CursorTyped
<1>7. UNCHANGED idle => IdleTyped'
  BY DEF TypeOK, idle, IdleTyped
<1>8. UNCHANGED accrued => AccruedTyped'
  BY DEF TypeOK, accrued, AccruedTyped
<1>9. UNCHANGED pool => PoolTyped'
  BY DEF TypeOK, pool, PoolTyped
<1>10. UNCHANGED residue => ResidueTyped'
  BY DEF TypeOK, residue, ResidueTyped
<1> QED BY <1>1, <1>2, <1>3, <1>4, <1>5, <1>6, <1>7, <1>8, <1>9, <1>10

LEMMA CreatePlanTypes ==
  ASSUME TypeOK, NEW p \in Plans, NEW u \in Users, NEW s \in Stocks,
         NEW a \in AmountsPerEpoch, NEW to \in Users \cup {None},
         NEW g \in Deposits \cup {0}, NEW z1 \in Zaps \cup {0},
         NEW z2 \in Zaps \cup {0}, NEW lends \in BOOLEAN,
         CreatePlan(u, p, s, a, to, g, z1, z2, lends)
  PROVE  TypeOK'
<1> DEFINE c == NetOf(g, fees.deposit)
<1>a. a \in Nat /\ g \in Nat /\ z1 \in Nat /\ z2 \in Nat
  BY ConstantTypes
<1>1. fees.deposit \in 0..MaxFeeBps
  BY DEF TypeOK, ConfigTyped, Fees
<1>2. c \in Nat
  BY <1>a, <1>1, FeeBelow
<1> HIDE DEF c
<1>3. PoolTyped' /\ IdleTyped'
  BY <1>a, <1>2, CreditTypes DEF CreatePlan, c
<1>4. IndexTyped'
  BY IndexTypes DEF CreatePlan
<1>5. TermsTyped'
  <2>1. /\ owner' = [owner EXCEPT ![p] = u]
        /\ recipient' = [recipient EXCEPT ![p] = IF to = None THEN u ELSE to]
        /\ stock' = [stock EXCEPT ![p] = s]
        /\ amountPerEpoch' = [amountPerEpoch EXCEPT ![p] = a]
    BY DEF CreatePlan
  <2> QED BY <1>a, <2>1 DEF TypeOK, TermsTyped
<1>6. FlagsTyped'
  BY DEF TypeOK, FlagsTyped, CreatePlan
<1>7. ChainTyped' /\ ConfigTyped' /\ CursorTyped' /\ AccruedTyped' /\ ResidueTyped'
  BY KeptTypes DEF CreatePlan
<1> QED BY <1>3, <1>4, <1>5, <1>6, <1>7 DEF TypeOK

LEMMA FundTypes ==
  ASSUME TypeOK, NEW p \in Plans, NEW c \in Nat, Fund(p, c)
  PROVE  TypeOK'
<1>1. stock[p] \in Stocks /\ boosted[p] \in BOOLEAN
  BY DEF TypeOK, TermsTyped, FlagsTyped, Fund, Exists
<1>2. PoolTyped' /\ IdleTyped'
  BY <1>1, CreditTypes DEF Fund
<1>3. IndexTyped'
  BY <1>1, IndexTypes DEF Fund
<1>4. /\ ChainTyped' /\ ConfigTyped' /\ TermsTyped' /\ FlagsTyped'
      /\ CursorTyped' /\ AccruedTyped' /\ ResidueTyped'
  BY KeptTypes DEF Fund
<1> QED BY <1>2, <1>3, <1>4 DEF TypeOK

LEMMA LeavePoolTypes ==
  ASSUME TypeOK, NEW p \in Plans, LeavePool(p)
  PROVE  PoolTyped' /\ boosted' \in [Plans -> BOOLEAN]
<1>1. boosted' \in [Plans -> BOOLEAN]
  BY DEF TypeOK, FlagsTyped, LeavePool
<1>2. ValueOf(boostShares[p]) \in Nat
  BY PoolTypes, ConstantTypes DEF TypeOK, PoolTyped
<1>3. PoolTyped'
  BY <1>2, TakeFromPoolTypes, KeptTypes DEF LeavePool
<1> QED BY <1>1, <1>3

LEMMA OnlyType ==
  ASSUME NEW p \in Plans, NEW a \in Nat
  PROVE  Only(p, a) \in [Plans -> Nat]
BY DEF Only

LEMMA OwnerCallTypes ==
  ASSUME TypeOK, NEW p \in Plans,
         \/ \E b \in BOOLEAN : SetPlanPaused(p, b)
         \/ \E a \in AmountsPerEpoch : SetPlanAmount(p, a)
         \/ \E u \in Users : SetPlanRecipient(p, u)
         \/ Boost(p)
         \/ Unboost(p)
         \/ \E a \in 1..Supply : WithdrawIdle(p, a)
         \/ \E a \in 1..Supply, perk \in Perks : Claim(p, a, perk)
         \/ \E perk \in Perks : ClosePlan(p, perk)
         \/ PrunePlan(p)
  PROVE  TypeOK'
<1>s. Exists(p) => stock[p] \in Stocks
  BY DEF TypeOK, TermsTyped, Exists
<1>1. ASSUME NEW b \in BOOLEAN, SetPlanPaused(p, b) PROVE TypeOK'
  <2>1. FlagsTyped'
    BY <1>1 DEF TypeOK, FlagsTyped, SetPlanPaused
  <2>2. /\ ChainTyped' /\ ConfigTyped' /\ TermsTyped' /\ IndexTyped'
        /\ CursorTyped' /\ IdleTyped' /\ AccruedTyped' /\ PoolTyped'
        /\ ResidueTyped'
    BY <1>1, KeptTypes DEF SetPlanPaused
  <2> QED BY <2>1, <2>2 DEF TypeOK
<1>2. ASSUME NEW a \in AmountsPerEpoch, SetPlanAmount(p, a) PROVE TypeOK'
  <2>1. TermsTyped'
    BY <1>2, ConstantTypes DEF TypeOK, TermsTyped, SetPlanAmount
  <2>2. /\ ChainTyped' /\ ConfigTyped' /\ FlagsTyped' /\ IndexTyped'
        /\ CursorTyped' /\ IdleTyped' /\ AccruedTyped' /\ PoolTyped'
        /\ ResidueTyped'
    BY <1>2, KeptTypes DEF SetPlanAmount
  <2> QED BY <2>1, <2>2 DEF TypeOK
<1>3. ASSUME NEW u \in Users, SetPlanRecipient(p, u) PROVE TypeOK'
  <2>1. TermsTyped'
    BY <1>3 DEF TypeOK, TermsTyped, SetPlanRecipient
  <2>2. /\ ChainTyped' /\ ConfigTyped' /\ FlagsTyped' /\ IndexTyped'
        /\ CursorTyped' /\ IdleTyped' /\ AccruedTyped' /\ PoolTyped'
        /\ ResidueTyped'
    BY <1>3, KeptTypes DEF SetPlanRecipient
  <2> QED BY <2>1, <2>2 DEF TypeOK
<1>4. ASSUME Boost(p) PROVE TypeOK'
  <2>1. usdgIdle[p] \in Nat
    BY DEF TypeOK, IdleTyped
  <2>2. /\ Mint(usdgIdle[p], PoolAssets, totalShares) \in Nat
        /\ \A k \in Credits(usdgIdle[p]) : k \in Nat
    BY <2>1, PoolTypes, MintType, CreditsType DEF TypeOK, PoolTyped
  <2>3. IdleTyped'
    BY <1>4, <2>1, IdleTypes DEF Boost
  <2>4. PoolTyped'
    BY <1>4, <2>1, <2>2, PutInPoolTypes DEF Boost
  <2>5. FlagsTyped'
    BY <1>4 DEF TypeOK, FlagsTyped, Boost
  <2>6. /\ ChainTyped' /\ ConfigTyped' /\ TermsTyped' /\ IndexTyped'
        /\ CursorTyped' /\ AccruedTyped' /\ ResidueTyped'
    BY <1>4, KeptTypes DEF Boost
  <2> QED BY <2>3, <2>4, <2>5, <2>6 DEF TypeOK
<1>5. ASSUME Unboost(p) PROVE TypeOK'
  <2>1. ValueOf(boostShares[p]) \in Nat
    BY PoolTypes, ConstantTypes DEF TypeOK, PoolTyped
  <2>2. PoolTyped' /\ boosted' \in [Plans -> BOOLEAN]
    BY <1>5, LeavePoolTypes DEF Unboost
  <2>3. IdleTyped'
    BY <1>5, <2>1, IdleTypes DEF Unboost
  <2>4. FlagsTyped'
    BY <1>5, <2>2 DEF TypeOK, FlagsTyped, Unboost
  <2>5. /\ ChainTyped' /\ ConfigTyped' /\ TermsTyped' /\ IndexTyped'
        /\ CursorTyped' /\ AccruedTyped' /\ ResidueTyped'
    BY <1>5, KeptTypes DEF Unboost
  <2> QED BY <2>2, <2>3, <2>4, <2>5 DEF TypeOK
<1>6. ASSUME NEW a \in 1..Supply, WithdrawIdle(p, a) PROVE TypeOK'
  <2> DEFINE fromIdle == Smaller(a, usdgIdle[p])
  <2>1. a \in Nat /\ fromIdle \in Nat /\ fromIdle <= a
    BY ConstantTypes DEF TypeOK, IdleTyped, Smaller
  <2> HIDE DEF fromIdle
  <2>2. /\ DebitIdle(p, fromIdle)
        /\ IF a > fromIdle THEN TakeFromPool(p, a - fromIdle) ELSE UNCHANGED pool
        /\ UNCHANGED <<chain, config, terms, flags, index, cursor, accrued,
                       residue>>
    BY <1>6 DEF WithdrawIdle, fromIdle
  <2>3. IdleTyped'
    BY <2>1, <2>2, IdleTypes
  <2>4. PoolTyped'
    <3>1. a - fromIdle \in Nat
      BY <2>1
    <3> QED BY <2>2, <3>1, TakeFromPoolTypes, KeptTypes
  <2>5. /\ ChainTyped' /\ ConfigTyped' /\ TermsTyped' /\ FlagsTyped'
        /\ IndexTyped' /\ CursorTyped' /\ AccruedTyped' /\ ResidueTyped'
    BY <2>2, KeptTypes
  <2> QED BY <2>3, <2>4, <2>5 DEF TypeOK
<1>7. ASSUME NEW a \in 1..Supply, NEW perk \in Perks, Claim(p, a, perk)
      PROVE  TypeOK'
  <2>1. a \in Nat
    BY ConstantTypes
  <2>2. Only(p, a) \in [Plans -> Nat]
    BY <2>1, OnlyType
  <2>3. AccruedTyped'
    BY <1>7, <1>s, <2>2, PayStockTypes DEF Claim
  <2>4. /\ ChainTyped' /\ ConfigTyped' /\ TermsTyped' /\ FlagsTyped'
        /\ IndexTyped' /\ CursorTyped' /\ IdleTyped' /\ PoolTyped'
        /\ ResidueTyped'
    BY <1>7, KeptTypes DEF Claim
  <2> QED BY <2>3, <2>4 DEF TypeOK
<1>8. ASSUME NEW perk \in Perks, ClosePlan(p, perk) PROVE TypeOK'
  <2>1. usdgIdle[p] \in Nat /\ stockAccrued[p] \in Nat
    BY DEF TypeOK, IdleTyped, AccruedTyped
  <2>2. Only(p, stockAccrued[p]) \in [Plans -> Nat]
    BY <2>1, OnlyType
  <2>3. PoolTyped' /\ boosted' \in [Plans -> BOOLEAN]
    BY <1>8, LeavePoolTypes DEF ClosePlan
  <2>4. IdleTyped'
    BY <1>8, <2>1, IdleTypes DEF ClosePlan
  <2>5. AccruedTyped'
    BY <1>8, <1>s, <2>2, PayStockTypes DEF ClosePlan
  <2>6. IndexTyped'
    BY <1>8, UnindexTypes, KeptTypes DEF ClosePlan
  <2>7. FlagsTyped'
    <3>1. (planPaused[p] \/ Parks(p)) \in BOOLEAN
      BY DEF TypeOK, FlagsTyped, Parks
    <3>2. planPaused' \in [Plans -> BOOLEAN]
      BY <1>8, <3>1 DEF TypeOK, FlagsTyped, ClosePlan
    <3> QED BY <1>8, <2>3, <3>2 DEF TypeOK, FlagsTyped, ClosePlan
  <2>8. /\ ChainTyped' /\ ConfigTyped' /\ TermsTyped' /\ CursorTyped'
        /\ ResidueTyped'
    BY <1>8, KeptTypes DEF ClosePlan
  <2> QED BY <2>3, <2>4, <2>5, <2>6, <2>7, <2>8 DEF TypeOK
<1>9. ASSUME PrunePlan(p) PROVE TypeOK'
  <2>1. IndexTyped'
    BY <1>9, UnindexTypes DEF PrunePlan
  <2>2. /\ ChainTyped' /\ ConfigTyped' /\ TermsTyped' /\ FlagsTyped'
        /\ CursorTyped' /\ IdleTyped' /\ AccruedTyped' /\ PoolTyped'
        /\ ResidueTyped'
    BY <1>9, KeptTypes DEF PrunePlan
  <2> QED BY <2>1, <2>2 DEF TypeOK
<1> QED BY <1>1, <1>2, <1>3, <1>4, <1>5, <1>6, <1>7, <1>8, <1>9

LEMMA PlanCallTypes ==
  ASSUME TypeOK, NEW p \in Plans, PlanCall(p)
  PROVE  TypeOK'
<1>2. ASSUME NEW g \in Deposits, DepositUSDG(p, g) PROVE TypeOK'
  <2>1. g \in Nat /\ fees.deposit \in 0..MaxFeeBps
    BY ConstantTypes DEF TypeOK, ConfigTyped, Fees
  <2>2. NetOf(g, fees.deposit) \in Nat
    BY <2>1, FeeBelow
  <2> QED BY <1>2, <2>2, FundTypes DEF DepositUSDG
<1>3. ASSUME NEW z \in Zaps, DepositWETH(p, z) PROVE TypeOK'
  BY <1>3, ConstantTypes, FundTypes DEF DepositWETH
<1> QED BY <1>2, <1>3, CreatePlanTypes, OwnerCallTypes DEF PlanCall

LEMMA ClaimAllTypes ==
  ASSUME TypeOK, NEW u \in Users, NEW s \in Stocks, NEW perk \in Perks,
         ClaimAll(u, s, perk)
  PROVE  TypeOK'
<1> DEFINE a == [p \in Plans |-> IF owner[p] = u /\ stock[p] = s
                                 THEN stockAccrued[p] ELSE 0]
<1>1. a \in [Plans -> Nat]
  BY DEF TypeOK, AccruedTyped
<1>2. PayStock(s, a, perk)
  BY DEF ClaimAll
<1> HIDE DEF a
<1>3. AccruedTyped'
  BY <1>1, <1>2, PayStockTypes
<1>4. /\ ChainTyped' /\ ConfigTyped' /\ TermsTyped' /\ FlagsTyped'
      /\ IndexTyped' /\ CursorTyped' /\ IdleTyped' /\ PoolTyped'
      /\ ResidueTyped'
  BY KeptTypes DEF ClaimAll
<1> QED BY <1>3, <1>4 DEF TypeOK

LEMMA FinalizePageTypes ==
  ASSUME TypeOK, NEW s \in Stocks, NEW end \in Nat, FinalizePage(s, end)
  PROVE  CursorTyped'
<1>1. epoch \in 0..MaxEpoch
  BY DEF TypeOK, ChainTyped
<1>2. nextPlanIndex' \in [Stocks -> [0..MaxEpoch -> Nat]]
  <2>1. [nextPlanIndex[s] EXCEPT ![epoch] = end] \in [0..MaxEpoch -> Nat]
    BY <1>1 DEF TypeOK, CursorTyped
  <2>2. nextPlanIndex' =
          [nextPlanIndex EXCEPT ![s] = [nextPlanIndex[s] EXCEPT ![epoch] = end]]
    BY DEF TypeOK, CursorTyped, FinalizePage
  <2> QED BY <2>1, <2>2 DEF TypeOK, CursorTyped
<1>3. lastExecutedEpoch' \in [Stocks -> 0..MaxEpoch]
  <2>1. (IF end = Len(stockPlans[s]) THEN epoch ELSE lastExecutedEpoch[s])
          \in 0..MaxEpoch
    BY <1>1 DEF TypeOK, CursorTyped
  <2>2. lastExecutedEpoch' = [lastExecutedEpoch EXCEPT
          ![s] = IF end = Len(stockPlans[s]) THEN epoch ELSE lastExecutedEpoch[s]]
    BY DEF TypeOK, CursorTyped, FinalizePage
  <2> QED BY <2>1, <2>2 DEF TypeOK, CursorTyped
<1> QED BY <1>2, <1>3 DEF CursorTyped

LEMMA AdvanceEpochTypes ==
  ASSUME TypeOK, NEW s \in Stocks, NEW limit \in Limits,
         NEW privileged \in BOOLEAN, NEW perk \in Perks, NEW bought \in Bought,
         NEW unspent \in Unspent, NEW pays \in BOOLEAN,
         AdvanceEpoch(s, limit, privileged, perk, bought, unspent, pays)
  PROVE  TypeOK'
<1> DEFINE from == nextPlanIndex[s][epoch]
           most == IF limit = 0 THEN knobs.maxPlansPerTx
                   ELSE Smaller(limit, knobs.maxPlansPerTx)
           to   == Smaller(from + most, Len(stockPlans[s]))
<1>1. from \in Nat /\ to \in Nat
  <2>1. from \in Nat
    BY DEF TypeOK, ChainTyped, CursorTyped
  <2>2. Len(stockPlans[s]) \in Nat
    BY DEF TypeOK, IndexTyped
  <2>3. most \in Nat
    BY ConstantTypes DEF TypeOK, ConfigTyped, Knobs, Smaller
  <2> HIDE DEF from, most
  <2> QED BY <2>1, <2>2, <2>3 DEF Smaller
<1>2. /\ \E end \in from..to :
           LET wanted == Spends(s, from, end)
               spend  == IF pays /\ Total(FromBoost(wanted)) <= PoolAssets
                         THEN wanted ELSE DropBoosted(wanted)
           IN /\ EndsAt(s, from, to, end)
              /\ SkipPage(spend) \/ BuyPage(s, spend, perk, bought, unspent)
              /\ FinalizePage(s, end)
      /\ UNCHANGED <<chain, config, terms, planPaused, boosted, index, unbooked>>
  BY DEF AdvanceEpoch
<1> HIDE DEF from, to
<1>3. PICK end \in from..to :
        LET wanted == Spends(s, from, end)
            spend  == IF pays /\ Total(FromBoost(wanted)) <= PoolAssets
                      THEN wanted ELSE DropBoosted(wanted)
        IN /\ SkipPage(spend) \/ BuyPage(s, spend, perk, bought, unspent)
           /\ FinalizePage(s, end)
  BY <1>2
<1> DEFINE wanted == Spends(s, from, end)
           spend  == IF pays /\ Total(FromBoost(wanted)) <= PoolAssets
                     THEN wanted ELSE DropBoosted(wanted)
<1>4. end \in Nat
  BY <1>1
<1>5. wanted \in [Plans -> Nat]
  BY <1>1, <1>4, SpendTypes
<1>6. spend \in [Plans -> Nat]
  <2> HIDE DEF wanted
  <2> QED BY <1>5, FromBoostTypes
<1>7. /\ SkipPage(spend) \/ BuyPage(s, spend, perk, bought, unspent)
      /\ FinalizePage(s, end)
  BY <1>3
<1> HIDE DEF wanted, spend
<1>8. bought \in Nat /\ unspent \in Nat
  BY ConstantTypes
<1>9. /\ lastEpochId' \in [Plans -> 0..MaxEpoch]
      /\ IdleTyped' /\ AccruedTyped' /\ PoolTyped'
      /\ dustPot' \in [Stocks -> Nat]
      /\ dust' \in [usdg : Nat, weth : Nat] /\ wethBal' \in Nat
  BY <1>6, <1>7, <1>8, SkipPageTypes, BuyPageTypes
<1>10. CursorTyped'
  BY <1>4, <1>7, FinalizePageTypes
<1>11. FlagsTyped' /\ ResidueTyped'
  BY <1>2, <1>9 DEF TypeOK, FlagsTyped, ResidueTyped
<1>12. ChainTyped' /\ ConfigTyped' /\ TermsTyped' /\ IndexTyped'
  BY <1>2, KeptTypes
<1> QED BY <1>9, <1>10, <1>11, <1>12 DEF TypeOK

(* The calls that leave everything but the configuration alone.            *)
LEMMA StateKept ==
  ASSUME TypeOK, UNCHANGED state
  PROVE  /\ TermsTyped' /\ FlagsTyped' /\ IndexTyped' /\ CursorTyped'
         /\ IdleTyped' /\ AccruedTyped' /\ PoolTyped' /\ ResidueTyped'
<1>1. UNCHANGED <<terms, flags, index, cursor, idle, accrued, pool, residue>>
  BY DEF state
<1> QED BY <1>1, KeptTypes

LEMMA DustCallTypes ==
  ASSUME TypeOK,
         \/ SweepDust
         \/ SkimUsdg
         \/ SkimWeth
         \/ \E s \in Stocks : SkimStock(s)
  PROVE  TypeOK'
<1>1. ASSUME SweepDust PROVE TypeOK'
  <2>1. dust.usdg \in Nat /\ usdgBal \in Nat
    BY DEF TypeOK, ResidueTyped, IdleTyped
  <2>2. /\ dust' \in [usdg : Nat, weth : Nat]
        /\ usdgBal' \in Nat /\ wethBal' \in Nat
    BY <1>1, <2>1, SweepTypes DEF SweepDust
  <2>3. IdleTyped' /\ ResidueTyped'
    BY <1>1, <2>2 DEF TypeOK, IdleTyped, ResidueTyped, SweepDust
  <2>4. /\ ChainTyped' /\ ConfigTyped' /\ TermsTyped' /\ FlagsTyped'
        /\ IndexTyped' /\ CursorTyped' /\ AccruedTyped' /\ PoolTyped'
    BY <1>1, KeptTypes DEF SweepDust
  <2> QED BY <2>3, <2>4 DEF TypeOK
<1>2. ASSUME SkimUsdg PROVE TypeOK'
  <2>1. ResidueTyped'
    BY <1>2 DEF TypeOK, IdleTyped, ResidueTyped, SkimUsdg, UsdgExcess
  <2>2. /\ ChainTyped' /\ ConfigTyped' /\ TermsTyped' /\ FlagsTyped'
        /\ IndexTyped' /\ CursorTyped' /\ IdleTyped' /\ AccruedTyped'
        /\ PoolTyped'
    BY <1>2, KeptTypes DEF SkimUsdg
  <2> QED BY <2>1, <2>2 DEF TypeOK
<1>3. ASSUME SkimWeth PROVE TypeOK'
  <2>1. ResidueTyped'
    BY <1>3 DEF TypeOK, ResidueTyped, SkimWeth
  <2>2. /\ ChainTyped' /\ ConfigTyped' /\ TermsTyped' /\ FlagsTyped'
        /\ IndexTyped' /\ CursorTyped' /\ IdleTyped' /\ AccruedTyped'
        /\ PoolTyped'
    BY <1>3, KeptTypes DEF SkimWeth
  <2> QED BY <2>1, <2>2 DEF TypeOK
<1>4. ASSUME NEW s \in Stocks, SkimStock(s) PROVE TypeOK'
  <2>1. ResidueTyped'
    <3>1. dustPot' \in [Stocks -> Nat]
      BY <1>4 DEF TypeOK, AccruedTyped, ResidueTyped, SkimStock
    <3>2. unbooked' \in [usdg : Nat, weth : Nat, stock : [Stocks -> Nat]]
      <4>1. [unbooked.stock EXCEPT ![s] = 0] \in [Stocks -> Nat]
        BY DEF TypeOK, ResidueTyped
      <4> QED BY <1>4, <4>1 DEF TypeOK, ResidueTyped, SkimStock
    <3> QED BY <1>4, <3>1, <3>2 DEF TypeOK, ResidueTyped, SkimStock
  <2>2. /\ ChainTyped' /\ ConfigTyped' /\ TermsTyped' /\ FlagsTyped'
        /\ IndexTyped' /\ CursorTyped' /\ IdleTyped' /\ AccruedTyped'
        /\ PoolTyped'
    BY <1>4, KeptTypes DEF SkimStock
  <2> QED BY <2>1, <2>2 DEF TypeOK
<1> QED BY <1>1, <1>2, <1>3, <1>4

LEMMA SetBoostStrategyTypes ==
  ASSUME TypeOK, NEW to \in Strategies \cup {None}, SetBoostStrategy(to)
  PROVE  TypeOK'
<1>1. position' \in [Strategies -> Nat]
  <2>1. CASE strategy # None /\ totalShares > 0
    <3>1. strategy \in Strategies /\ to \in Strategies
      BY <2>1 DEF TypeOK, PoolTyped, SetBoostStrategy
    <3>2. PICK arrived \in 0..position[strategy] :
            position' = [position EXCEPT ![strategy] = 0, ![to] = @ + arrived]
      BY <2>1 DEF SetBoostStrategy
    <3>3. arrived \in Nat
      BY <3>1 DEF TypeOK, PoolTyped
    <3> QED BY <3>1, <3>2, <3>3 DEF TypeOK, PoolTyped
  <2>2. CASE ~(strategy # None /\ totalShares > 0)
    BY <2>2 DEF TypeOK, PoolTyped, SetBoostStrategy
  <2> QED BY <2>1, <2>2
<1>2. PoolTyped'
  BY <1>1 DEF TypeOK, PoolTyped, SetBoostStrategy
<1>3. /\ ChainTyped' /\ ConfigTyped' /\ TermsTyped' /\ FlagsTyped'
      /\ IndexTyped' /\ CursorTyped' /\ IdleTyped' /\ AccruedTyped'
      /\ ResidueTyped'
  BY KeptTypes DEF SetBoostStrategy
<1> QED BY <1>2, <1>3 DEF TypeOK

LEMMA SetterTypes ==
  ASSUME TypeOK,
         \/ \E b \in BOOLEAN : SetVaultPaused(b)
         \/ \E f \in FeeChoices : SetFees(f)
         \/ \E to \in Treasuries : SetFeeRecipient(to)
         \/ \E k \in KnobChoices : SetKnobs(k)
         \/ \E s \in Stocks, b \in BOOLEAN : SetPurchasable(s, b)
  PROVE  TypeOK'
<1>1. UNCHANGED chain /\ UNCHANGED state
  BY DEF SetVaultPaused, SetFees, SetFeeRecipient, SetKnobs, SetPurchasable
<1>2. ConfigTyped'
  <2>1. ASSUME NEW b \in BOOLEAN, SetVaultPaused(b) PROVE ConfigTyped'
    BY <2>1 DEF TypeOK, ConfigTyped, SetVaultPaused
  <2>2. ASSUME NEW f \in FeeChoices, SetFees(f) PROVE ConfigTyped'
    BY <2>2, ConstantTypes DEF TypeOK, ConfigTyped, SetFees, Fees
  <2>3. ASSUME NEW k \in KnobChoices, SetKnobs(k) PROVE ConfigTyped'
    <3>1. k \in Knobs /\ knobs \in Knobs
      BY ConstantTypes DEF TypeOK, ConfigTyped
    <3>2. knobs' \in Knobs
      <4>1. knobs.capOf \in [Stocks -> Nat] /\ k.capOf \in [Stocks -> Nat]
        BY <3>1 DEF Knobs
      <4>2. ASSUME NEW s \in Stocks
            PROVE  [knobs.capOf EXCEPT ![s] = k.capOf[s]] \in [Stocks -> Nat]
        BY <4>1
      <4> QED BY <2>3, <3>1, <4>2 DEF SetKnobs, Knobs
    <3> QED BY <2>3, <3>2 DEF TypeOK, ConfigTyped, SetKnobs
  <2>4. ASSUME NEW s \in Stocks, NEW b \in BOOLEAN, SetPurchasable(s, b)
        PROVE  ConfigTyped'
    BY <2>4 DEF TypeOK, ConfigTyped, SetPurchasable
  <2>5. ASSUME NEW to \in Treasuries, SetFeeRecipient(to) PROVE ConfigTyped'
    BY <2>5 DEF TypeOK, ConfigTyped, SetFeeRecipient, Fees
  <2> QED BY <2>1, <2>2, <2>3, <2>4, <2>5
<1>3. ChainTyped'
  BY <1>1, KeptTypes
<1> QED BY <1>1, <1>2, <1>3, StateKept DEF TypeOK

LEMMA ChainStepTypes ==
  ASSUME TypeOK, EpochPasses \/ \E s \in Stocks : MarketTurns(s)
  PROVE  TypeOK'
<1>1. UNCHANGED config /\ UNCHANGED state
  BY DEF EpochPasses, MarketTurns
<1>2. ChainTyped'
  <2>1. CASE EpochPasses
    BY <2>1, ConstantTypes DEF TypeOK, ChainTyped, EpochPasses
  <2>2. ASSUME NEW s \in Stocks, MarketTurns(s) PROVE ChainTyped'
    BY <2>2 DEF TypeOK, ChainTyped, MarketTurns
  <2> QED BY <2>1, <2>2
<1>3. ConfigTyped'
  BY <1>1, KeptTypes
<1> QED BY <1>1, <1>2, <1>3, StateKept DEF TypeOK

LEMMA StrategyStepTypes ==
  ASSUME TypeOK, NEW v \in Strategies,
         \/ \E a \in Gains : StrategyGains(v, a)
         \/ \E a \in Losses : StrategyLoses(v, a)
  PROVE  TypeOK'
<1>1. PoolTyped'
  <2>1. ASSUME NEW a \in Gains, StrategyGains(v, a) PROVE PoolTyped'
    BY <2>1, ConstantTypes DEF TypeOK, PoolTyped, StrategyGains
  <2>2. ASSUME NEW a \in Losses, StrategyLoses(v, a) PROVE PoolTyped'
    BY <2>2, ConstantTypes DEF TypeOK, PoolTyped, StrategyLoses
  <2> QED BY <2>1, <2>2
<1>2. UNCHANGED <<chain, config, terms, flags, index, cursor, idle, accrued,
                  residue>>
  BY DEF StrategyGains, StrategyLoses
<1>3. /\ ChainTyped' /\ ConfigTyped' /\ TermsTyped' /\ FlagsTyped'
      /\ IndexTyped' /\ CursorTyped' /\ IdleTyped' /\ AccruedTyped'
      /\ ResidueTyped'
  BY <1>2, KeptTypes
<1> QED BY <1>1, <1>3 DEF TypeOK

LEMMA GiftTypes ==
  ASSUME TypeOK, NEW a \in Gifts,
         \/ GiveUsdg(a)
         \/ GiveWeth(a)
         \/ \E s \in Stocks : GiveStock(s, a)
  PROVE  TypeOK'
<1>a. a \in Nat
  BY ConstantTypes
<1>1. ASSUME GiveUsdg(a) PROVE TypeOK'
  <2>1. IdleTyped' /\ ResidueTyped'
    BY <1>1, <1>a DEF TypeOK, IdleTyped, ResidueTyped, GiveUsdg
  <2>2. /\ ChainTyped' /\ ConfigTyped' /\ TermsTyped' /\ FlagsTyped'
        /\ IndexTyped' /\ CursorTyped' /\ AccruedTyped' /\ PoolTyped'
    BY <1>1, KeptTypes DEF GiveUsdg
  <2> QED BY <2>1, <2>2 DEF TypeOK
<1>2. ASSUME GiveWeth(a) PROVE TypeOK'
  <2>1. ResidueTyped'
    BY <1>2, <1>a DEF TypeOK, ResidueTyped, GiveWeth
  <2>2. /\ ChainTyped' /\ ConfigTyped' /\ TermsTyped' /\ FlagsTyped'
        /\ IndexTyped' /\ CursorTyped' /\ IdleTyped' /\ AccruedTyped'
        /\ PoolTyped'
    BY <1>2, KeptTypes DEF GiveWeth
  <2> QED BY <2>1, <2>2 DEF TypeOK
<1>3. ASSUME NEW s \in Stocks, GiveStock(s, a) PROVE TypeOK'
  <2>1. AccruedTyped'
    BY <1>3, <1>a DEF TypeOK, AccruedTyped, GiveStock
  <2>2. ResidueTyped'
    <3>1. unbooked.stock \in [Stocks -> Nat]
      BY DEF TypeOK, ResidueTyped
    <3>2. [unbooked.stock EXCEPT ![s] = @ + a] \in [Stocks -> Nat]
      BY <1>a, <3>1
    <3> QED BY <1>3, <3>2 DEF TypeOK, ResidueTyped, GiveStock
  <2>3. /\ ChainTyped' /\ ConfigTyped' /\ TermsTyped' /\ FlagsTyped'
        /\ IndexTyped' /\ CursorTyped' /\ IdleTyped' /\ PoolTyped'
    BY <1>3, KeptTypes DEF GiveStock
  <2> QED BY <2>1, <2>2, <2>3 DEF TypeOK
<1> QED BY <1>1, <1>2, <1>3

LEMMA NextTypes == TypeOK /\ [Next]_vars => TypeOK'
<1> SUFFICES ASSUME TypeOK, [Next]_vars PROVE TypeOK'
  OBVIOUS
<1>1. ASSUME NEW p \in Plans, PlanCall(p) PROVE TypeOK'
  BY <1>1, PlanCallTypes
<1>2. ASSUME NEW u \in Users, NEW s \in Stocks, NEW perk \in Perks,
             ClaimAll(u, s, perk)
      PROVE  TypeOK'
  BY <1>2, ClaimAllTypes
<1>3. ASSUME NEW s \in Stocks, KeeperCall(s) PROVE TypeOK'
  BY <1>3, AdvanceEpochTypes DEF KeeperCall
<1>4. ASSUME AdminCall PROVE TypeOK'
  BY <1>4, DustCallTypes, SetBoostStrategyTypes, SetterTypes DEF AdminCall
<1>5. ASSUME Environment PROVE TypeOK'
  BY <1>5, SetterTypes, ChainStepTypes, StrategyStepTypes, GiftTypes
  DEF Environment
<1>6. ASSUME UNCHANGED vars PROVE TypeOK'
  <2>1. UNCHANGED <<chain, config, terms, flags, index, cursor, idle, accrued,
                    pool, residue>>
    BY <1>6 DEF vars
  <2> QED BY <2>1, KeptTypes DEF TypeOK
<1> QED BY <1>1, <1>2, <1>3, <1>4, <1>5, <1>6 DEF Next

(* Every reachable state has its type: no account ever goes below zero, no *)
(* counter leaves its width, the list of a stock holds plans only, and the *)
(* checked subtractions of PlanVault.sol and its libraries are the reason. *)
THEOREM TypeCorrect == Spec => []TypeOK
<1> QED BY InitTypes, NextTypes, PTL DEF Spec
=============================================================================
