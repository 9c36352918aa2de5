------------------------ MODULE PlanVaultListProofs -------------------------
(***************************************************************************)
(* The iteration list and the page cursor of a stock, for every value of   *)
(* the constants: the list stays consistent, holds every funded plan, is   *)
(* never shorter than an open cursor, no plan moves across the cursor, no  *)
(* plan is charged twice in an epoch, no page exceeds its cap, every page  *)
(* moves the cursor, and list and cursor together implement PlanEpoch, so  *)
(* that no plan that can pay is passed over.  Plans are kept apart: a step *)
(* for one changes no other, and each plan implements PlanLife.            *)
(***************************************************************************)
EXTENDS PlanVaultProofs

-----------------------------------------------------------------------------
(* The inductive invariant.                                                *)

Funded(p) == usdgIdle[p] > 0 \/ stockAccrued[p] > 0 \/ boostShares[p] > 0

(* No page of a later epoch has been taken, and no plan was charged in one.*)
FutureUntouched ==
  /\ \A s \in Stocks, e \in 0..MaxEpoch : e > epoch => nextPlanIndex[s][e] = 0
  /\ \A p \in Plans : lastEpochId[p] <= epoch

Lists == /\ IndexConsistent /\ FundedPlansListed /\ CursorInList
         /\ FutureUntouched

ListInv == TypeOK /\ Lists

-----------------------------------------------------------------------------
(* What the two list operations do.                                        *)

(* IndexPlan lists the plan, keeps the rest of the list in place, and      *)
(* keeps list and positions consistent.                                    *)
LEMMA IndexPlanLists ==
  ASSUME TypeOK, IndexConsistent, NEW p \in Plans, NEW s \in Stocks,
         IndexPlan(p, s),
         owner'[p] # None, stock'[p] = s,
         \A q \in Plans \ {p} : owner'[q] = owner[q] /\ stock'[q] = stock[q],
         stockPlanIndex[p] # 0 => stock[p] = s
  PROVE  /\ IndexConsistent'
         /\ stockPlanIndex'[p] # 0
         /\ \A q \in Plans \ {p} : stockPlanIndex'[q] = stockPlanIndex[q]
         /\ \A t \in Stocks : \A i \in 1..Len(stockPlans[t]) :
              i <= Len(stockPlans'[t]) /\ stockPlans'[t][i] = stockPlans[t][i]
         /\ \A t \in Stocks : Len(stockPlans[t]) <= Len(stockPlans'[t])
<1>t. /\ \A t \in Stocks : stockPlans[t] \in Seq(Plans) /\ Len(stockPlans[t]) \in Nat
      /\ stockPlanIndex \in [Plans -> Nat]
      /\ stockPlans \in [Stocks -> Seq(Plans)]
  BY DEF TypeOK, IndexTyped
<1>x. \A q \in Plans : owner[q] # None => stock[q] \in Stocks
  BY DEF TypeOK, TermsTyped
<1>1. CASE stockPlanIndex[p] # 0
  <2>1. UNCHANGED <<stockPlans, stockPlanIndex>>
    BY <1>1 DEF IndexPlan, index
  <2>2. \A q \in Plans : stockPlanIndex[q] # 0 => stock'[q] = stock[q] /\ owner'[q] # None
    BY <1>1 DEF IndexConsistent, Exists
  <2>3. ASSUME NEW t \in Stocks, NEW i \in 1..Len(stockPlans[t])
        PROVE  /\ stockPlanIndex[stockPlans[t][i]] = i
               /\ owner'[stockPlans[t][i]] # None
               /\ stock'[stockPlans[t][i]] = t
    <3>1. /\ stockPlans[t][i] \in Plans /\ i # 0
          /\ stock[stockPlans[t][i]] = t /\ stockPlanIndex[stockPlans[t][i]] = i
      BY <1>t DEF IndexConsistent
    <3> QED BY <3>1, <2>2
  <2>4. IndexConsistent'
    BY <2>1, <2>2, <2>3 DEF IndexConsistent, Exists
  <2> QED BY <1>1, <1>t, <2>1, <2>4
<1>2. CASE stockPlanIndex[p] = 0
  <2> DEFINE n == Len(stockPlans[s]) + 1
  <2>1. /\ stockPlans' = [stockPlans EXCEPT ![s] = Append(@, p)]
        /\ stockPlanIndex' = [stockPlanIndex EXCEPT ![p] = n]
    BY <1>2 DEF IndexPlan
  <2>2. /\ stockPlans'[s] = Append(stockPlans[s], p)
        /\ \A t \in Stocks \ {s} : stockPlans'[t] = stockPlans[t]
        /\ stockPlanIndex'[p] = n
        /\ \A q \in Plans \ {p} : stockPlanIndex'[q] = stockPlanIndex[q]
    BY <1>t, <2>1
  <2>3. /\ Len(stockPlans'[s]) = n /\ n \in Nat \ {0}
        /\ stockPlans'[s][n] = p
        /\ \A i \in 1..Len(stockPlans[s]) : stockPlans'[s][i] = stockPlans[s][i]
    BY <1>t, <2>2
  <2>4. \A t \in Stocks : /\ Len(stockPlans[t]) <= Len(stockPlans'[t])
                          /\ \A i \in 1..Len(stockPlans[t]) :
                               /\ i <= Len(stockPlans'[t])
                               /\ stockPlans'[t][i] = stockPlans[t][i]
    <3>1. ASSUME NEW t \in Stocks
          PROVE  Len(stockPlans[t]) <= Len(stockPlans'[t])
      <4>1. CASE t = s
        <5>1. Len(stockPlans[s]) \in Nat /\ Len(stockPlans[s]) <= n
          BY <1>t
        <5> QED BY <4>1, <5>1, <2>3
      <4>2. CASE t # s
        <5>1. stockPlans'[t] = stockPlans[t] /\ Len(stockPlans[t]) \in Nat
          BY <4>2, <1>t, <2>2
        <5> QED BY <5>1
      <4> QED BY <4>1, <4>2
    <3>2. ASSUME NEW t \in Stocks, NEW i \in 1..Len(stockPlans[t])
          PROVE  i <= Len(stockPlans'[t])
      BY <1>t, <3>1, <2>2, <2>3
    <3>3. ASSUME NEW t \in Stocks, NEW i \in 1..Len(stockPlans[t])
          PROVE  stockPlans'[t][i] = stockPlans[t][i]
      BY <1>t, <2>2, <2>3
    <3> QED BY <3>1, <3>2, <3>3
  <2>5. ASSUME NEW t \in Stocks, NEW i \in 1..Len(stockPlans[t])
        PROVE  /\ stockPlanIndex'[stockPlans[t][i]] = i
               /\ owner'[stockPlans[t][i]] # None
               /\ stock'[stockPlans[t][i]] = t
    <3>1. /\ stockPlans[t][i] \in Plans /\ i # 0
          /\ owner[stockPlans[t][i]] # None
          /\ stock[stockPlans[t][i]] = t /\ stockPlanIndex[stockPlans[t][i]] = i
      BY <1>t DEF IndexConsistent, Exists
    <3>2. stockPlans[t][i] # p
      BY <1>2, <3>1
    <3> QED BY <3>1, <3>2, <2>2
  <2>6. ASSUME NEW t \in Stocks, NEW i \in 1..Len(stockPlans'[t])
        PROVE  /\ stockPlanIndex'[stockPlans'[t][i]] = i
               /\ owner'[stockPlans'[t][i]] # None
               /\ stock'[stockPlans'[t][i]] = t
    <3>1. CASE i \in 1..Len(stockPlans[t])
      BY <3>1, <2>4, <2>5
    <3>2. CASE i \notin 1..Len(stockPlans[t])
      <4>1. t = s
        BY <3>2, <2>2
      <4>2. i = n
        BY <3>2, <4>1, <2>3, <1>t
      <4> QED BY <4>1, <4>2, <2>2, <2>3
    <3> QED BY <3>1, <3>2
  <2>7. ASSUME NEW q \in Plans, stockPlanIndex'[q] # 0
        PROVE  /\ owner'[q] # None
               /\ stockPlanIndex'[q] \in 1..Len(stockPlans'[stock'[q]])
               /\ stockPlans'[stock'[q]][stockPlanIndex'[q]] = q
    <3>1. CASE q = p
      BY <3>1, <2>2, <2>3
    <3>2. CASE q # p
      <4>1. /\ owner[q] # None
            /\ stockPlanIndex[q] \in 1..Len(stockPlans[stock[q]])
            /\ stockPlans[stock[q]][stockPlanIndex[q]] = q
        BY <2>7, <3>2, <2>2 DEF IndexConsistent, Exists
      <4>2. stock[q] \in Stocks /\ stock'[q] = stock[q] /\ owner'[q] = owner[q]
            /\ stockPlanIndex'[q] = stockPlanIndex[q]
        BY <3>2, <4>1, <1>x, <2>2
      <4>3. stockPlanIndex[q] <= Len(stockPlans'[stock[q]])
        BY <4>1, <4>2, <2>4
      <4>4. stockPlans'[stock[q]][stockPlanIndex[q]] = q
        BY <4>1, <4>2, <2>4
      <4>5. stockPlanIndex[q] \in 1..Len(stockPlans'[stock[q]])
        BY <4>1, <4>3, <4>2, <1>t, <2>2, <2>3
      <4> QED BY <4>1, <4>2, <4>4, <4>5
    <3> QED BY <3>1, <3>2
  <2>8. IndexConsistent'
    BY <2>6, <2>7 DEF IndexConsistent, Exists
  <2> QED BY <2>2, <2>3, <2>4, <2>8
<1> QED BY <1>1, <1>2, <1>t

(* UnindexPlan takes the plan out, touches no other list, and keeps list   *)
(* and positions consistent.                                               *)
LEMMA UnindexPlanLists ==
  ASSUME TypeOK, IndexConsistent, NEW p \in Plans, UnindexPlan(p),
         UNCHANGED <<owner, stock>>
  PROVE  /\ IndexConsistent'
         /\ \A q \in Plans \ {p} : stockPlanIndex[q] # 0 => stockPlanIndex'[q] # 0
         /\ \A t \in Stocks \ {stock[p]} : stockPlans'[t] = stockPlans[t]
         /\ stockPlanIndex[p] = 0 => UNCHANGED index
<1>t. /\ \A t \in Stocks : stockPlans[t] \in Seq(Plans) /\ Len(stockPlans[t]) \in Nat
      /\ stockPlanIndex \in [Plans -> Nat]
      /\ stockPlans \in [Stocks -> Seq(Plans)]
  BY DEF TypeOK, IndexTyped
<1>x. \A q \in Plans : owner[q] # None => stock[q] \in Stocks
  BY DEF TypeOK, TermsTyped
<1>1. CASE stockPlanIndex[p] = 0
  <2>1. UNCHANGED index
    BY <1>1 DEF UnindexPlan
  <2>2. IndexConsistent'
    BY <2>1 DEF IndexConsistent, Exists, index
  <2> QED BY <2>1, <2>2 DEF index
<1>2. CASE stockPlanIndex[p] # 0
  <2> DEFINE s    == stock[p]
             arr  == stockPlans[s]
             idx  == stockPlanIndex[p]
             last == arr[Len(arr)]
             new  == [i \in 1..(Len(arr) - 1) |-> IF i = idx THEN last ELSE arr[i]]
  <2>1. s \in Stocks /\ idx \in 1..Len(arr) /\ arr[idx] = p
    BY <1>2, <1>x DEF IndexConsistent, Exists
  <2>2. arr \in Seq(Plans) /\ Len(arr) \in Nat /\ Len(arr) # 0 /\ last \in Plans
    BY <1>t, <2>1
  <2>3. /\ stockPlans' = [stockPlans EXCEPT ![s] = new]
        /\ stockPlanIndex' = [stockPlanIndex EXCEPT ![last] = idx, ![p] = 0]
    BY <1>2 DEF UnindexPlan
  <2>4. /\ \A i \in 1..Len(arr) : /\ owner[arr[i]] # None /\ stock[arr[i]] = s
                                  /\ stockPlanIndex[arr[i]] = i
                                  /\ arr[i] \in Plans
    BY <2>1, <2>2 DEF IndexConsistent, Exists
  <2>5. Len(arr) - 1 \in Nat /\ Len(new) = Len(arr) - 1
    <3> DEFINE m == Len(arr) - 1
    <3>1. m \in Nat
      BY <2>2
    <3>2. DOMAIN new = 1..m
      OBVIOUS
    <3> HIDE DEF new, m
    <3>3. Len(new) = m
      BY <3>1, <3>2, SMT
    <3> QED BY <3>1, <3>3 DEF m
  <2> HIDE DEF s, arr, idx, last
  <2>6. /\ stockPlans'[s] = new
        /\ \A t \in Stocks \ {s} : stockPlans'[t] = stockPlans[t]
        /\ stockPlanIndex'[p] = 0
        /\ last # p => stockPlanIndex'[last] = idx
        /\ \A q \in Plans : q # p /\ q # last =>
             stockPlanIndex'[q] = stockPlanIndex[q]
    BY <1>t, <2>1, <2>2, <2>3
  <2>7. idx # 0 /\ stockPlanIndex[last] = Len(arr) /\ stockPlanIndex[p] = idx
    BY <1>2, <2>2, <2>4 DEF last, idx
  <2>8. ASSUME NEW i \in 1..(Len(arr) - 1)
        PROVE  /\ new[i] \in Plans
               /\ owner[new[i]] # None /\ stock[new[i]] = s
               /\ stockPlanIndex'[new[i]] = i
    <3>1. i \in 1..(Len(arr) - 1) /\ i \in 1..Len(arr) /\ i # Len(arr)
      BY <2>2
    <3>2. CASE i = idx
      <4>1. new[i] = last
        BY <3>1, <3>2
      <4>2. last # p
        BY <3>1, <3>2, <2>7
      <4>3. owner[last] # None /\ stock[last] = s
        BY <2>2, <2>4 DEF last
      <4> QED BY <3>2, <4>1, <4>2, <4>3, <2>2, <2>6
    <3>3. CASE i # idx
      <4>1. new[i] = arr[i]
        BY <3>1, <3>3
      <4>2. arr[i] # p /\ arr[i] # last
        BY <3>1, <3>3, <2>4, <2>7
      <4> QED BY <3>1, <4>1, <4>2, <2>4, <2>6
    <3> QED BY <3>2, <3>3
  <2>9. ASSUME NEW t \in Stocks, NEW i \in 1..Len(stockPlans'[t])
        PROVE  /\ owner[stockPlans'[t][i]] # None /\ stock[stockPlans'[t][i]] = t
               /\ stockPlanIndex'[stockPlans'[t][i]] = i
    <3>1. CASE t = s
      <4>1. i \in 1..(Len(arr) - 1)
        BY <3>1, <2>5, <2>6
      <4> QED BY <3>1, <4>1, <2>6, <2>8
    <3>2. CASE t # s
      <4>1. stockPlans'[t] = stockPlans[t] /\ i \in 1..Len(stockPlans[t])
        BY <3>2, <2>6
      <4>2. /\ owner[stockPlans[t][i]] # None /\ stock[stockPlans[t][i]] = t
            /\ stockPlanIndex[stockPlans[t][i]] = i /\ stockPlans[t][i] \in Plans
        BY <4>1, <1>t DEF IndexConsistent, Exists
      <4>3. stock[p] = s /\ stock[last] = s
        BY <2>2, <2>4 DEF s, last
      <4> QED BY <3>2, <4>1, <4>2, <4>3, <2>6
    <3> QED BY <3>1, <3>2
  <2>10. ASSUME NEW q \in Plans, stockPlanIndex'[q] # 0
         PROVE  /\ owner[q] # None
                /\ stockPlanIndex'[q] \in 1..Len(stockPlans'[stock[q]])
                /\ stockPlans'[stock[q]][stockPlanIndex'[q]] = q
    <3>1. q # p
      BY <2>10, <2>6
    <3>2. CASE q = last
      <4>1. idx # Len(arr)
        BY <3>1, <3>2, <2>1, <2>7 DEF last
      <4>2. idx \in 1..(Len(arr) - 1)
        BY <4>1, <2>1, <2>2
      <4>3. new[idx] = last
        BY <4>2
      <4>4. stock[q] = s /\ owner[q] # None
        BY <3>2, <2>2, <2>4 DEF last
      <4>5. stockPlanIndex'[q] = idx
        BY <3>1, <3>2, <2>6
      <4> HIDE DEF new
      <4> QED BY <3>2, <4>2, <4>3, <4>4, <4>5, <2>5, <2>6
    <3>3. CASE q # last
      <4>1. stockPlanIndex'[q] = stockPlanIndex[q]
        BY <3>1, <3>3, <2>6
      <4>2. /\ owner[q] # None
            /\ stockPlanIndex[q] \in 1..Len(stockPlans[stock[q]])
            /\ stockPlans[stock[q]][stockPlanIndex[q]] = q
        BY <4>1, <2>10 DEF IndexConsistent, Exists
      <4>3. stock[q] \in Stocks
        BY <4>2, <1>x
      <4>4. CASE stock[q] = s
        <5>1. stockPlanIndex[q] \in 1..Len(arr) /\ arr[stockPlanIndex[q]] = q
          BY <4>2, <4>4 DEF arr
        <5>2. stockPlanIndex[q] # Len(arr) /\ stockPlanIndex[q] # idx
          BY <5>1, <3>1, <3>3, <2>1 DEF last
        <5>3. stockPlanIndex[q] \in 1..(Len(arr) - 1)
          BY <5>1, <5>2, <2>2
        <5>4. new[stockPlanIndex[q]] = q
          BY <5>1, <5>2, <5>3
        <5> HIDE DEF new
        <5> QED BY <4>1, <4>2, <4>4, <5>3, <5>4, <2>5, <2>6
      <4>5. CASE stock[q] # s
        BY <4>1, <4>2, <4>3, <4>5, <2>6
      <4> QED BY <4>4, <4>5
    <3> QED BY <3>2, <3>3
  <2> HIDE DEF new
  <2>11. IndexConsistent'
    BY <2>9, <2>10 DEF IndexConsistent, Exists
  <2>12. \A q \in Plans \ {p} : stockPlanIndex[q] # 0 => stockPlanIndex'[q] # 0
    BY <2>6, <2>7
  <2> QED BY <1>2, <2>6, <2>11, <2>12 DEF s
<1> QED BY <1>1, <1>2

-----------------------------------------------------------------------------
(* Steps that leave the lists alone.                                       *)

(* A step that touches neither lists, terms, cursors nor charges and funds *)
(* no plan keeps the invariant.                                            *)
LEMMA QuietStep ==
  ASSUME TypeOK, Lists, UNCHANGED <<epoch, owner, stock, lastEpochId>>,
         UNCHANGED index, UNCHANGED cursor,
         \A p \in Plans : Funded(p)' => Funded(p)
  PROVE  Lists'
<1>1. IndexConsistent'
  BY DEF Lists, IndexConsistent, Exists, index
<1>2. FundedPlansListed'
  BY DEF Lists, FundedPlansListed, Funded, index
<1>3. CursorInList'
  BY DEF Lists, CursorInList, EpochPending, index, cursor
<1>4. FutureUntouched'
  BY DEF Lists, FutureUntouched, cursor
<1> QED BY <1>1, <1>2, <1>3, <1>4 DEF Lists

(* Listing a plan keeps the invariant, funded or not.                      *)
LEMMA ListingStep ==
  ASSUME TypeOK, Lists, NEW p \in Plans, NEW s \in Stocks, IndexPlan(p, s),
         owner'[p] # None, stock'[p] = s,
         \A q \in Plans \ {p} : owner'[q] = owner[q] /\ stock'[q] = stock[q],
         stockPlanIndex[p] # 0 => stock[p] = s,
         UNCHANGED <<epoch, lastEpochId>>, UNCHANGED cursor,
         \A q \in Plans \ {p} : Funded(q)' => Funded(q)
  PROVE  Lists'
<1>1. /\ IndexConsistent'
      /\ stockPlanIndex'[p] # 0
      /\ \A q \in Plans \ {p} : stockPlanIndex'[q] = stockPlanIndex[q]
      /\ \A t \in Stocks : Len(stockPlans[t]) <= Len(stockPlans'[t])
  BY IndexPlanLists DEF Lists
<1>2. FundedPlansListed'
  BY <1>1 DEF Lists, FundedPlansListed, Funded
<1>3. CursorInList'
  <2>1. IndexTyped'
    BY IndexTypes
  <2>2. ASSUME NEW t \in Stocks, EpochPending(t)'
        PROVE  nextPlanIndex'[t][epoch'] < Len(stockPlans'[t])
    <3>1. /\ nextPlanIndex[t][epoch] < Len(stockPlans[t])
          /\ nextPlanIndex'[t][epoch'] = nextPlanIndex[t][epoch]
      BY <2>2 DEF Lists, CursorInList, EpochPending, cursor
    <3>2. /\ Len(stockPlans[t]) \in Nat /\ Len(stockPlans'[t]) \in Nat
          /\ nextPlanIndex[t][epoch] \in Nat
      <4>1. Len(stockPlans[t]) \in Nat
        BY DEF TypeOK, IndexTyped
      <4>2. Len(stockPlans'[t]) \in Nat
        BY <2>1 DEF IndexTyped
      <4>3. nextPlanIndex[t][epoch] \in Nat
        BY DEF TypeOK, CursorTyped, ChainTyped
      <4> QED BY <4>1, <4>2, <4>3
    <3> QED BY <1>1, <3>1, <3>2
  <2> QED BY <2>2 DEF CursorInList
<1>4. FutureUntouched'
  BY DEF Lists, FutureUntouched, cursor
<1> QED BY <1>1, <1>2, <1>3, <1>4 DEF Lists

(* Taking an empty plan off the list of a stock with no page pending keeps *)
(* the invariant.                                                          *)
LEMMA UnlistingStep ==
  ASSUME TypeOK, Lists, NEW p \in Plans, UnindexPlan(p),
         UNCHANGED <<epoch, owner, stock, lastEpochId>>, UNCHANGED cursor,
         stockPlanIndex[p] = 0 \/ ~EpochPending(stock[p]),
         ~Funded(p)',
         \A q \in Plans \ {p} : Funded(q)' => Funded(q)
  PROVE  Lists'
<1>1. /\ IndexConsistent'
      /\ \A q \in Plans \ {p} : stockPlanIndex[q] # 0 => stockPlanIndex'[q] # 0
      /\ \A t \in Stocks \ {stock[p]} : stockPlans'[t] = stockPlans[t]
      /\ stockPlanIndex[p] = 0 => UNCHANGED index
  BY UnindexPlanLists DEF Lists
<1>2. FundedPlansListed'
  BY <1>1 DEF Lists, FundedPlansListed, Funded
<1>3. CursorInList'
  <2>1. ASSUME NEW t \in Stocks, EpochPending(t)'
        PROVE  nextPlanIndex'[t][epoch'] < Len(stockPlans'[t])
    <3>1. EpochPending(t)
      BY <2>1 DEF EpochPending, cursor
    <3>2. stockPlans'[t] = stockPlans[t]
      BY <1>1, <3>1 DEF index
    <3> QED BY <3>1, <3>2 DEF Lists, CursorInList, cursor
  <2> QED BY <2>1 DEF CursorInList
<1>4. FutureUntouched'
  BY DEF Lists, FutureUntouched, cursor
<1> QED BY <1>1, <1>2, <1>3, <1>4 DEF Lists

-----------------------------------------------------------------------------
(* Every call and event keeps the invariant.                               *)

(* No shares are worth nothing, and nothing buys no shares.                *)
LEMMA NothingForNothing ==
  ASSUME TypeOK
  PROVE  ValueOf(0) = 0 /\ Mint(0, PoolAssets, totalShares) = 0
<1>1. PoolAssets + 1 \in Nat \ {0} /\ totalShares + 1 \in Nat \ {0}
  BY PoolTypes DEF TypeOK, PoolTyped
<1>2. \A d \in Nat \ {0} : 0 * d = 0 /\ 0 \div d = 0
  BY SMT
<1> QED BY <1>1, <1>2 DEF ValueOf, Mint, MulDiv

(* What a deposit books, it books to its own plan.                         *)
LEMMA CreditSpares ==
  ASSUME TypeOK, NEW p \in Plans, NEW lends \in BOOLEAN,
         NEW c1, NEW c2, NEW c3,
         Credit(p, lends, c1, c2, c3), NEW q \in Plans \ {p}
  PROVE  usdgIdle'[q] = usdgIdle[q] /\ boostShares'[q] = boostShares[q]
<1>1. CASE lends
  <2>1. UNCHANGED idle
    BY <1>1 DEF Credit
  <2>2. PICK k1 \in Credits(c1), k2 \in Credits(c2), k3 \in Credits(c3) :
          LET m1 == Mint(c1, PoolAssets, totalShares)
              m2 == Mint(c2, PoolAssets + k1, totalShares + m1)
              m3 == Mint(c3, PoolAssets + k1 + k2, totalShares + m1 + m2)
          IN PutInPool(p, k1 + k2 + k3, m1 + m2 + m3)
    BY <1>1 DEF Credit
  <2>3. boostShares'[q] = boostShares[q]
    BY <2>2 DEF PutInPool, TypeOK, PoolTyped
  <2> QED BY <2>1, <2>3 DEF idle
<1>2. CASE ~lends
  BY <1>2 DEF Credit, CreditIdle, TypeOK, IdleTyped, pool
<1> QED BY <1>1, <1>2

(* A deposit funds its own plan only.                                      *)
LEMMA CreditFundsOne ==
  ASSUME TypeOK, NEW p \in Plans, NEW lends \in BOOLEAN,
         NEW c1, NEW c2, NEW c3,
         Credit(p, lends, c1, c2, c3), UNCHANGED accrued
  PROVE  \A q \in Plans \ {p} : Funded(q)' => Funded(q)
<1> SUFFICES ASSUME NEW q \in Plans, q # p
             PROVE  /\ usdgIdle'[q] = usdgIdle[q]
                    /\ boostShares'[q] = boostShares[q]
                    /\ stockAccrued'[q] = stockAccrued[q]
  BY DEF Funded
<1> QED BY CreditSpares DEF accrued

LEMMA CreatePlanLists ==
  ASSUME TypeOK, Lists, NEW p \in Plans, NEW u \in Users, NEW s \in Stocks,
         NEW a, NEW to, NEW g, NEW z1, NEW z2, NEW lends \in BOOLEAN,
         CreatePlan(u, p, s, a, to, g, z1, z2, lends)
  PROVE  Lists'
<1>1. stockPlanIndex[p] = 0
  BY DEF CreatePlan, Lists, IndexConsistent, Exists
<1>2. /\ owner' = [owner EXCEPT ![p] = u] /\ stock' = [stock EXCEPT ![p] = s]
      /\ IndexPlan(p, s)
      /\ UNCHANGED <<chain, lastEpochId>> /\ UNCHANGED cursor
      /\ UNCHANGED accrued
  BY DEF CreatePlan
<1>3. /\ owner'[p] # None /\ stock'[p] = s
      /\ \A q \in Plans \ {p} : owner'[q] = owner[q] /\ stock'[q] = stock[q]
  BY <1>2, ConstantTypes DEF TypeOK, TermsTyped
<1>4. \A q \in Plans \ {p} : Funded(q)' => Funded(q)
  BY <1>2, CreditFundsOne DEF CreatePlan
<1>5. UNCHANGED <<epoch, lastEpochId>>
  BY <1>2 DEF chain
<1> QED BY <1>1, <1>2, <1>3, <1>4, <1>5, ListingStep

LEMMA FundLists ==
  ASSUME TypeOK, Lists, NEW p \in Plans, NEW c, Fund(p, c)
  PROVE  Lists'
<1>1. owner[p] # None /\ stock[p] \in Stocks /\ boosted[p] \in BOOLEAN
  BY DEF Fund, Exists, TypeOK, TermsTyped, FlagsTyped
<1>2. /\ IndexPlan(p, stock[p])
      /\ UNCHANGED <<chain, terms, flags>> /\ UNCHANGED cursor
      /\ UNCHANGED accrued
  BY DEF Fund
<1>3. UNCHANGED <<epoch, lastEpochId, owner, stock>>
  BY <1>2 DEF chain, flags, terms
<1>4. \A q \in Plans \ {p} : Funded(q)' => Funded(q)
  BY <1>1, <1>2, CreditFundsOne DEF Fund
<1> QED BY <1>1, <1>2, <1>3, <1>4, ListingStep

(* A withdrawal from the pool takes shares from its own plan only.         *)
LEMMA TakeFromPoolShares ==
  ASSUME TypeOK, NEW p \in Plans, NEW a \in Nat, TakeFromPool(p, a)
  PROVE  /\ \A q \in Plans : boostShares'[q] <= boostShares[q]
         /\ a >= ValueOf(boostShares[p]) => boostShares'[p] = 0
<1>1. Burn(p, a) \in 0..boostShares[p]
  BY BurnType
<1>2. boostShares' = [boostShares EXCEPT ![p] = @ - Burn(p, a)]
  BY DEF TakeFromPool
<1>3. boostShares \in [Plans -> Nat]
  BY ConstantTypes DEF TypeOK, PoolTyped
<1>4. a >= ValueOf(boostShares[p]) => Burn(p, a) = boostShares[p]
  BY DEF Burn
<1> QED BY <1>1, <1>2, <1>3, <1>4

LEMMA LeavePoolShares ==
  ASSUME TypeOK, NEW p \in Plans, LeavePool(p)
  PROVE  /\ \A q \in Plans : boostShares'[q] <= boostShares[q]
         /\ boostShares'[p] = 0
<1>1. boostShares[p] \in Nat /\ ValueOf(boostShares[p]) \in Nat
  BY PoolTypes, ConstantTypes DEF TypeOK, PoolTyped
<1>2. \A q \in Plans : boostShares[q] \in Nat
  BY ConstantTypes DEF TypeOK, PoolTyped
<1>3. CASE boostShares[p] > 0
  <2>1. TakeFromPool(p, ValueOf(boostShares[p]))
    BY <1>3 DEF LeavePool
  <2> QED BY <1>1, <2>1, TakeFromPoolShares
<1>4. CASE ~(boostShares[p] > 0)
  BY <1>1, <1>2, <1>4 DEF LeavePool, pool
<1> QED BY <1>3, <1>4

(* Paying stock out only lowers what plans have accrued.                   *)
LEMMA PayStockLowers ==
  ASSUME TypeOK, NEW s, NEW a \in [Plans -> Nat], NEW perk,
         PayStock(s, a, perk)
  PROVE  /\ \A q \in Plans : stockAccrued'[q] <= stockAccrued[q]
         /\ \A q \in Plans : stockAccrued'[q] = stockAccrued[q] - a[q]
BY DEF PayStock, TypeOK, AccruedTyped

(* Boosting moves the idle balance; the shares are those of all of it.     *)
LEMMA BoostBooks ==
  ASSUME NEW p \in Plans, Boost(p)
  PROVE  /\ usdgIdle' = [usdgIdle EXCEPT ![p] = @ - usdgIdle[p]]
         /\ boostShares' = [boostShares EXCEPT ![p] = @ +
                              Mint(usdgIdle[p], PoolAssets, totalShares)]
<1>1. PICK k \in Credits(usdgIdle[p]) :
        PutInPool(p, k, Mint(usdgIdle[p], PoolAssets, totalShares))
  BY DEF Boost
<1> QED BY <1>1 DEF Boost, DebitIdle, PutInPool

LEMMA PlanSettingLists ==
  ASSUME TypeOK, Lists, NEW p \in Plans,
         \/ \E b \in BOOLEAN : SetPlanPaused(p, b)
         \/ \E a \in AmountsPerEpoch : SetPlanAmount(p, a)
         \/ \E u \in Users : SetPlanRecipient(p, u)
  PROVE  Lists'
<1>1. /\ UNCHANGED <<epoch, owner, stock, lastEpochId>>
      /\ UNCHANGED index /\ UNCHANGED cursor
      /\ UNCHANGED <<usdgIdle, stockAccrued, boostShares>>
  BY DEF SetPlanPaused, SetPlanAmount, SetPlanRecipient, chain, terms, flags,
         idle, accrued, pool
<1> QED BY <1>1, QuietStep DEF Funded

LEMMA BoostLists ==
  ASSUME TypeOK, Lists, NEW p \in Plans, Boost(p) \/ Unboost(p)
  PROVE  Lists'
<1>1. /\ UNCHANGED <<epoch, owner, stock, lastEpochId, stockAccrued>>
      /\ UNCHANGED index /\ UNCHANGED cursor
  BY DEF Boost, Unboost, chain, terms, accrued
<1>2. ASSUME Boost(p), NEW q \in Plans PROVE Funded(q)' => Funded(q)
  <2> DEFINE m == Mint(usdgIdle[p], PoolAssets, totalShares)
  <2>1. /\ usdgIdle' = [usdgIdle EXCEPT ![p] = @ - usdgIdle[p]]
        /\ boostShares' = [boostShares EXCEPT ![p] = @ + m]
    BY <1>2, BoostBooks
  <2>2. usdgIdle \in [Plans -> Nat] /\ boostShares \in [Plans -> Nat]
    BY ConstantTypes DEF TypeOK, IdleTyped, PoolTyped
  <2>3. usdgIdle[p] = 0 => m = 0
    BY NothingForNothing
  <2> HIDE DEF m
  <2>4. q # p => usdgIdle'[q] = usdgIdle[q] /\ boostShares'[q] = boostShares[q]
    BY <2>1, <2>2
  <2>5. usdgIdle'[p] = 0 /\ (usdgIdle[p] = 0 => boostShares'[p] = boostShares[p])
    BY <2>1, <2>2, <2>3
  <2> QED BY <1>1, <2>2, <2>4, <2>5 DEF Funded
<1>3. ASSUME Unboost(p), NEW q \in Plans PROVE Funded(q)' => Funded(q)
  <2> DEFINE w == ValueOf(boostShares[p])
  <2>1. /\ usdgIdle' = [usdgIdle EXCEPT ![p] = @ + w]
        /\ LeavePool(p)
    BY <1>3 DEF Unboost, CreditIdle
  <2>2. usdgIdle \in [Plans -> Nat] /\ boostShares \in [Plans -> Nat]
    BY ConstantTypes DEF TypeOK, IdleTyped, PoolTyped
  <2>3. boostShares[p] = 0 => w = 0
    BY NothingForNothing
  <2> HIDE DEF w
  <2>4. PoolTyped' /\ boostShares'[q] <= boostShares[q] /\ boostShares'[p] = 0
    BY <2>1, LeavePoolTypes, LeavePoolShares
  <2>5. boostShares'[q] \in Nat
    BY <2>4, ConstantTypes DEF PoolTyped
  <2>6. q # p => usdgIdle'[q] = usdgIdle[q]
    BY <2>1, <2>2
  <2>7. boostShares[p] = 0 => usdgIdle'[p] = usdgIdle[p]
    BY <2>1, <2>2, <2>3
  <2> QED BY <1>1, <2>2, <2>4, <2>5, <2>6, <2>7 DEF Funded
<1> QED BY <1>1, <1>2, <1>3, QuietStep

LEMMA WithdrawLists ==
  ASSUME TypeOK, Lists, NEW p \in Plans, NEW a \in 1..Supply,
         WithdrawIdle(p, a)
  PROVE  Lists'
<1> DEFINE fromIdle == Smaller(a, usdgIdle[p])
<1>1. /\ UNCHANGED <<epoch, owner, stock, lastEpochId, stockAccrued>>
      /\ UNCHANGED index /\ UNCHANGED cursor
  BY DEF WithdrawIdle, chain, terms, flags, accrued
<1>2. a \in Nat /\ fromIdle \in Nat /\ fromIdle <= a
  BY ConstantTypes DEF TypeOK, IdleTyped, Smaller
<1>3. /\ DebitIdle(p, fromIdle)
      /\ IF a > fromIdle THEN TakeFromPool(p, a - fromIdle) ELSE UNCHANGED pool
  BY DEF WithdrawIdle
<1> HIDE DEF fromIdle
<1>4. \A q \in Plans : usdgIdle'[q] <= usdgIdle[q]
  BY <1>2, <1>3 DEF DebitIdle, TypeOK, IdleTyped
<1>5. \A q \in Plans : boostShares'[q] <= boostShares[q]
  <2>1. a - fromIdle \in Nat
    BY <1>2
  <2>2. CASE a > fromIdle
    BY <1>3, <2>1, <2>2, TakeFromPoolShares
  <2>3. CASE ~(a > fromIdle)
    <3>1. boostShares \in [Plans -> Nat] /\ boostShares' = boostShares
      BY <1>3, <2>3, ConstantTypes DEF pool, TypeOK, PoolTyped
    <3> QED BY <3>1
  <2> QED BY <2>2, <2>3
<1>6. ASSUME NEW q \in Plans PROVE Funded(q)' => Funded(q)
  <2>1. TypeOK'
    BY OwnerCallTypes
  <2>2. /\ usdgIdle[q] \in Nat /\ usdgIdle'[q] \in Nat
        /\ boostShares[q] \in Nat /\ boostShares'[q] \in Nat
    BY <2>1, ConstantTypes DEF TypeOK, IdleTyped, PoolTyped
  <2> QED BY <1>1, <1>4, <1>5, <2>2 DEF Funded
<1> QED BY <1>1, <1>6, QuietStep

(* Claims only lower what plans have accrued.                              *)
LEMMA PayoutLists ==
  ASSUME TypeOK, Lists, NEW s \in Stocks, NEW a \in [Plans -> Nat],
         NEW perk, PayStock(s, a, perk),
         UNCHANGED <<chain, config, terms, flags, index, cursor, idle, pool,
                     residue>>
  PROVE  Lists'
<1>1. /\ UNCHANGED <<epoch, owner, stock, lastEpochId, usdgIdle, boostShares>>
      /\ UNCHANGED index /\ UNCHANGED cursor
  BY DEF chain, terms, flags, idle, pool
<1>2. ASSUME NEW q \in Plans PROVE Funded(q)' => Funded(q)
  <2>1. stockAccrued'[q] <= stockAccrued[q]
    BY PayStockLowers
  <2>2. stockAccrued[q] \in Nat /\ stockAccrued'[q] \in Nat
    BY PayStockTypes DEF TypeOK, AccruedTyped
  <2> QED BY <1>1, <2>1, <2>2 DEF Funded
<1> QED BY <1>1, <1>2, QuietStep

LEMMA ClosePlanLists ==
  ASSUME TypeOK, Lists, NEW p \in Plans, NEW perk \in Perks, ClosePlan(p, perk)
  PROVE  Lists'
<1>1. /\ UNCHANGED <<epoch, owner, stock, lastEpochId>> /\ UNCHANGED cursor
      /\ LeavePool(p) /\ DebitIdle(p, usdgIdle[p])
      /\ PayStock(stock[p], Only(p, stockAccrued[p]), perk)
      /\ IF Parks(p) THEN UNCHANGED index ELSE UnindexPlan(p)
  BY DEF ClosePlan, chain, terms
<1>2. TypeOK'
  BY OwnerCallTypes
<1>3. \A q \in Plans :
        /\ usdgIdle[q] \in Nat /\ usdgIdle'[q] \in Nat
        /\ boostShares[q] \in Nat /\ boostShares'[q] \in Nat
        /\ stockAccrued[q] \in Nat /\ stockAccrued'[q] \in Nat
  BY <1>2, ConstantTypes DEF TypeOK, IdleTyped, PoolTyped, AccruedTyped
<1>4. Only(p, stockAccrued[p]) \in [Plans -> Nat]
  BY <1>3, OnlyType
<1>5. \A q \in Plans : stockAccrued'[q] <= stockAccrued[q]
  BY <1>1, <1>4, PayStockLowers
<1>6. stockAccrued'[p] = 0
  <2>1. stockAccrued'[p] = stockAccrued[p] - Only(p, stockAccrued[p])[p]
    BY <1>1, <1>4, PayStockLowers
  <2> QED BY <1>3, <2>1 DEF Only
<1>7. /\ \A q \in Plans : boostShares'[q] <= boostShares[q]
      /\ boostShares'[p] = 0
  BY <1>1, LeavePoolShares
<1>8. /\ \A q \in Plans : usdgIdle'[q] <= usdgIdle[q]
      /\ usdgIdle'[p] = 0
  BY <1>1 DEF DebitIdle, TypeOK, IdleTyped
<1>9. ~Funded(p)'
  BY <1>6, <1>7, <1>8 DEF Funded
<1>10. ASSUME NEW q \in Plans PROVE Funded(q)' => Funded(q)
  BY <1>3, <1>5, <1>7, <1>8 DEF Funded
<1>11. CASE Parks(p)
  BY <1>1, <1>10, <1>11, QuietStep
<1>12. CASE ~Parks(p)
  <2>1. UnindexPlan(p) /\ (stockPlanIndex[p] = 0 \/ ~EpochPending(stock[p]))
    BY <1>1, <1>12 DEF Parks
  <2> QED BY <1>1, <1>9, <1>10, <2>1, UnlistingStep
<1> QED BY <1>11, <1>12

LEMMA PrunePlanLists ==
  ASSUME TypeOK, Lists, NEW p \in Plans, PrunePlan(p)
  PROVE  Lists'
<1>1. /\ UNCHANGED <<epoch, owner, stock, lastEpochId>> /\ UNCHANGED cursor
      /\ UNCHANGED <<usdgIdle, stockAccrued, boostShares>>
      /\ UnindexPlan(p) /\ ~EpochPending(stock[p]) /\ Empty(p)
  BY DEF PrunePlan, chain, terms, flags, idle, accrued, pool
<1>2. ~Funded(p)'
  BY <1>1 DEF Funded, Empty
<1>3. \A q \in Plans : Funded(q)' => Funded(q)
  BY <1>1 DEF Funded
<1> QED BY <1>1, <1>2, <1>3, UnlistingStep

LEMMA PlanCallLists ==
  ASSUME TypeOK, Lists, NEW p \in Plans, PlanCall(p)
  PROVE  Lists'
<1>1. ASSUME NEW g \in Deposits, DepositUSDG(p, g) PROVE Lists'
  BY <1>1, FundLists DEF DepositUSDG
<1>2. ASSUME NEW z \in Zaps, DepositWETH(p, z) PROVE Lists'
  BY <1>2, FundLists DEF DepositWETH
<1>3. ASSUME NEW a \in 1..Supply, NEW perk \in Perks, Claim(p, a, perk)
      PROVE  Lists'
  <2>1. a \in Nat
    BY ConstantTypes
  <2>2. Only(p, a) \in [Plans -> Nat] /\ stock[p] \in Stocks
    BY <1>3, <2>1, OnlyType DEF Claim, Exists, TypeOK, TermsTyped
  <2> QED BY <1>3, <2>2, PayoutLists DEF Claim
<1> QED BY <1>1, <1>2, <1>3, CreatePlanLists, PlanSettingLists, BoostLists,
           WithdrawLists, ClosePlanLists, PrunePlanLists DEF PlanCall

LEMMA ClaimAllLists ==
  ASSUME TypeOK, Lists, NEW u \in Users, NEW s \in Stocks,
         NEW perk \in Perks, ClaimAll(u, s, perk)
  PROVE  Lists'
<1> DEFINE a == [p \in Plans |-> IF owner[p] = u /\ stock[p] = s
                                 THEN stockAccrued[p] ELSE 0]
<1>1. a \in [Plans -> Nat]
  BY DEF TypeOK, AccruedTyped
<1>2. /\ PayStock(s, a, perk)
      /\ UNCHANGED <<chain, config, terms, flags, index, cursor, idle, pool,
                     residue>>
  BY DEF ClaimAll
<1> HIDE DEF a
<1> QED BY <1>1, <1>2, PayoutLists

-----------------------------------------------------------------------------
(* Pages.                                                                  *)

(* What a page does to a plan depends on whether it spends.                *)
Charged(p, spend) ==
  /\ spend[p] = 0 => UNCHANGED <<usdgIdle[p], boostShares[p], stockAccrued[p],
                                 lastEpochId[p]>>
  /\ spend[p] > 0 => /\ lastEpochId'[p] = epoch
                     /\ usdgIdle[p] - usdgIdle'[p] <= spend[p]

LEMMA BuyPageCharges ==
  ASSUME TypeOK, NEW s \in Stocks, NEW spend \in [Plans -> Nat], NEW perk,
         NEW bought \in Nat, NEW unspent \in Nat,
         BuyPage(s, spend, perk, bought, unspent), NEW p \in Plans
  PROVE  Charged(p, spend)
<1> DEFINE fee     == [q \in Plans |-> PurchaseFee(q, perk, spend[q])]
           net     == [q \in Plans |-> spend[q] - fee[q]]
           lent    == FromBoost(spend)
           burned  == [q \in Plans |-> IF lent[q] > 0 THEN Burn(q, lent[q]) ELSE 0]
           left    == Smaller(unspent, Total(net))
           back    == ProRata(left, net)
           pot     == bought + dustPot[s]
           share   == ProRata(pot, net)
           kept    == [q \in Plans |-> IF /\ Exists(q) /\ perk[owner[q]].auto
                                         /\ <<s, recipient[q]>> \notin Refused
                                      THEN 0 ELSE share[q]]
<1>1. /\ Total(net) > 0
      /\ lastEpochId' = [q \in Plans |->
                           IF spend[q] > 0 THEN epoch ELSE lastEpochId[q]]
      /\ usdgIdle' = [q \in Plans |->
                        usdgIdle[q] - (spend[q] - lent[q]) + back[q]]
      /\ boostShares' = [q \in Plans |-> boostShares[q] - burned[q]]
      /\ stockAccrued' = [q \in Plans |-> stockAccrued[q] + kept[q]]
  BY DEF BuyPage
<1>2. fee \in [Plans -> Nat] /\ net \in [Plans -> Nat]
  <2>1. ASSUME NEW q \in Plans PROVE fee[q] \in 0..spend[q]
    BY PurchaseFeeType
  <2> QED BY <2>1
<1>3. fee[p] \in 0..spend[p]
  BY PurchaseFeeType
<1>4. lent[p] \in Nat /\ lent[p] <= spend[p] /\ (spend[p] = 0 => lent[p] = 0)
  BY FromBoostTypes
<1>5. /\ usdgIdle[p] \in Nat /\ spend[p] \in Nat /\ boostShares[p] \in Nat
      /\ stockAccrued[p] \in Nat /\ usdgIdle \in [Plans -> Nat]
  BY ConstantTypes DEF TypeOK, IdleTyped, PoolTyped, AccruedTyped
<1>6. spend[p] = 0 => net[p] = 0
  BY <1>3, <1>5
<1>7. spend[p] = 0 => burned[p] = 0
  BY <1>4
<1> HIDE DEF fee, net, lent, burned
<1>8. Total(net) \in Nat \ {0}
  BY <1>1, <1>2, ConstantTypes, TotalNat
<1>9. left \in Nat /\ pot \in Nat
  BY <1>8 DEF TypeOK, ResidueTyped, Smaller
<1> HIDE DEF left, pot
<1>10. back \in [Plans -> Nat] /\ share \in [Plans -> Nat]
  BY <1>1, <1>2, <1>9, ProRataType
<1>11. net[p] = 0 => back[p] = 0 /\ share[p] = 0
  <2>1. ASSUME NEW c \in Nat PROVE MulDiv(c, 0, Total(net)) = 0
    <3>1. \A d \in Nat \ {0} : c * 0 = 0 /\ 0 \div d = 0
      BY SMT
    <3> QED BY <1>8, <3>1 DEF MulDiv
  <2> QED BY <1>9, <2>1 DEF ProRata
<1> HIDE DEF back, share
<1>12. spend[p] = 0 => kept[p] = 0
  BY <1>6, <1>11
<1> HIDE DEF kept
<1>13. ASSUME spend[p] = 0
       PROVE  UNCHANGED <<usdgIdle[p], boostShares[p], stockAccrued[p],
                          lastEpochId[p]>>
  <2>1. lent[p] = 0 /\ back[p] = 0 /\ burned[p] = 0 /\ kept[p] = 0
    BY <1>13, <1>4, <1>6, <1>7, <1>11, <1>12
  <2>2. usdgIdle'[p] = usdgIdle[p]
    BY <1>1, <1>5, <1>13, <2>1
  <2>3. boostShares'[p] = boostShares[p] /\ stockAccrued'[p] = stockAccrued[p]
    BY <1>1, <1>5, <2>1
  <2>4. lastEpochId'[p] = lastEpochId[p]
    BY <1>1, <1>13
  <2> QED BY <2>2, <2>3, <2>4
<1>14. ASSUME spend[p] > 0
       PROVE  lastEpochId'[p] = epoch /\ usdgIdle[p] - usdgIdle'[p] <= spend[p]
  <2>1. back[p] \in Nat
    BY <1>10
  <2>2. usdgIdle'[p] = usdgIdle[p] - (spend[p] - lent[p]) + back[p]
    BY <1>1
  <2> QED BY <1>1, <1>4, <1>5, <1>14, <2>1, <2>2
<1>15. spend[p] = 0 \/ spend[p] > 0
  BY <1>5
<1> QED BY <1>13, <1>14, <1>15 DEF Charged

LEMMA SkipPageCharges ==
  ASSUME TypeOK, NEW spend \in [Plans -> Nat], SkipPage(spend), NEW p \in Plans
  PROVE  Charged(p, spend)
<1>1. spend[p] = 0
  BY ConstantTypes, TotalZero DEF SkipPage
<1>2. UNCHANGED <<usdgIdle, boostShares, stockAccrued, lastEpochId>>
  BY DEF SkipPage, accrued, pool
<1> QED BY <1>1, <1>2 DEF Charged

(* No plan is larger than the page cap, so a page ends after one plan at   *)
(* the earliest.                                                           *)
LEMMA PageTakesOne ==
  ASSUME TypeOK, NEW s \in Stocks, NEW from \in Nat,
         from < Len(stockPlans[s]), PageCap(s) # 0
  PROVE  Total(Spends(s, from, from + 1)) <= PageCap(s)
<1> DEFINE q == stockPlans[s][from + 1]
<1>1. q \in Plans /\ Len(stockPlans[s]) \in Nat
  <2>1. stockPlans[s] \in Seq(Plans) /\ Len(stockPlans[s]) \in Nat
    BY DEF TypeOK, IndexTyped
  <2>2. from + 1 \in 1..Len(stockPlans[s])
    BY <2>1
  <2> QED BY <2>1, <2>2
<1>2. PageCap(s) \in Nat
  BY DEF PageCap, TypeOK, ConfigTyped, Knobs
<1>3. Page(s, from, from + 1) = {q}
  <2>1. (from + 1)..(from + 1) = {from + 1}
    OBVIOUS
  <2> QED BY <2>1 DEF Page
<1> HIDE DEF q
<1>4. Spends(s, from, from + 1) = [p \in Plans |-> IF p = q THEN Spend(q, s) ELSE 0]
  BY <1>3 DEF Spends
<1>5. Spend(q, s) \in Nat
  <2>1. from + 1 \in Nat
    OBVIOUS
  <2>2. Spends(s, from, from + 1) \in [Plans -> Nat]
    BY <2>1, SpendTypes
  <2> QED BY <1>1, <1>4, <2>2
<1>6. Spend(q, s) <= PageCap(s)
  <2> DEFINE want == Smaller(Available(q), amountPerEpoch[q])
  <2>1. CASE PageCap(s) # 0 /\ want > PageCap(s)
    BY <1>2, <2>1 DEF Spend
  <2>2. CASE ~(PageCap(s) # 0 /\ want > PageCap(s))
    <3>1. want \in Nat
      <4>1. usdgIdle[q] \in Nat /\ boostShares[q] \in Nat /\ amountPerEpoch[q] \in Nat
        BY <1>1, ConstantTypes DEF TypeOK, IdleTyped, PoolTyped, TermsTyped
      <4>2. ValueOf(boostShares[q]) \in Nat
        BY <4>1, PoolTypes
      <4>3. Available(q) \in Nat
        BY <4>1, <4>2 DEF Available
      <4> QED BY <4>1, <4>3 DEF Smaller
    <3>2. want <= PageCap(s)
      BY <1>2, <2>2, <3>1
    <3>3. Spend(q, s) = 0 \/ Spend(q, s) = want
      BY DEF Spend
    <3> HIDE DEF want
    <3> QED BY <1>2, <3>2, <3>3
  <2> QED BY <2>1, <2>2
<1> QED BY <1>1, <1>4, <1>5, <1>6, ConstantTypes, TotalSingle

(* A page reaches from the cursor to an end within the list, visits one    *)
(* plan at least, spends only on unpaused plans between the two that were  *)
(* not charged in this epoch, never more than their amount per epoch nor   *)
(* than they have, on each of its stock that its idle balance can pay for, *)
(* and no more than the page cap together.                                 *)
PageTo(s, end, spend) ==
  /\ nextPlanIndex[s][epoch] <= end /\ end <= Len(stockPlans[s])
  /\ nextPlanIndex[s][epoch] < Len(stockPlans[s]) => nextPlanIndex[s][epoch] < end
  /\ \A p \in Plans : /\ p \in Page(s, nextPlanIndex[s][epoch], end)
                       /\ stock[p] = s /\ Willing(p)
                      => spend[p] > 0
  /\ PageCap(s) # 0 => Total(spend) <= PageCap(s)
  /\ FinalizePage(s, end)
  /\ \A p \in Plans : Charged(p, spend)
  /\ \A p \in Plans : spend[p] > 0 =>
       /\ p \in Page(s, nextPlanIndex[s][epoch], end)
       /\ ~planPaused[p] /\ lastEpochId[p] # epoch
       /\ spend[p] <= amountPerEpoch[p] /\ spend[p] <= Available(p)

LEMMA PageShape ==
  ASSUME TypeOK, NEW s \in Stocks, NEW limit \in Limits,
         NEW privileged \in BOOLEAN, NEW perk \in Perks, NEW bought \in Bought,
         NEW unspent \in Unspent, NEW pays \in BOOLEAN,
         AdvanceEpoch(s, limit, privileged, perk, bought, unspent, pays)
  PROVE  \E end \in Nat, spend \in [Plans -> Nat] :
           /\ PageTo(s, end, spend)
           /\ SkipPage(spend) \/ BuyPage(s, spend, perk, bought, unspent)
<1> DEFINE from == nextPlanIndex[s][epoch]
           most == IF limit = 0 THEN knobs.maxPlansPerTx
                   ELSE Smaller(limit, knobs.maxPlansPerTx)
           to   == Smaller(from + most, Len(stockPlans[s]))
<1>1. /\ from \in Nat /\ to \in Nat /\ to <= Len(stockPlans[s])
      /\ Len(stockPlans[s]) \in Nat
      /\ from < Len(stockPlans[s]) => from < to
  <2>1. from \in Nat
    BY DEF TypeOK, ChainTyped, CursorTyped
  <2>2. Len(stockPlans[s]) \in Nat
    BY DEF TypeOK, IndexTyped
  <2>3. most \in Nat \ {0}
    BY ConstantTypes DEF TypeOK, ConfigTyped, Knobs, Smaller
  <2> HIDE DEF from, most
  <2> QED BY <2>1, <2>2, <2>3 DEF Smaller
<1>2. PICK end \in from..to :
        LET wanted == Spends(s, from, end)
            spend  == IF pays /\ Total(FromBoost(wanted)) <= PoolAssets
                      THEN wanted ELSE DropBoosted(wanted)
        IN /\ EndsAt(s, from, to, end)
           /\ SkipPage(spend) \/ BuyPage(s, spend, perk, bought, unspent)
           /\ FinalizePage(s, end)
  BY DEF AdvanceEpoch
<1> HIDE DEF to
<1> DEFINE wanted == Spends(s, from, end)
           spend  == IF pays /\ Total(FromBoost(wanted)) <= PoolAssets
                     THEN wanted ELSE DropBoosted(wanted)
<1>3. end \in Nat /\ from <= end /\ end <= Len(stockPlans[s])
  BY <1>1
<1>4. wanted \in [Plans -> Nat]
  BY <1>1, <1>3, SpendTypes
<1>5. spend \in [Plans -> Nat] /\ \A p \in Plans : spend[p] > 0 => spend[p] = wanted[p]
  <2> HIDE DEF wanted, from
  <2>1. DropBoosted(wanted) \in [Plans -> Nat]
    BY <1>4, FromBoostTypes
  <2>2. \A p \in Plans : DropBoosted(wanted)[p] > 0 => DropBoosted(wanted)[p] = wanted[p]
    BY <1>4 DEF DropBoosted
  <2> QED BY <1>4, <2>1, <2>2
<1>6. /\ SkipPage(spend) \/ BuyPage(s, spend, perk, bought, unspent)
      /\ FinalizePage(s, end)
  BY <1>2
<1>7. ASSUME NEW p \in Plans, wanted[p] > 0
      PROVE  /\ p \in Page(s, from, end)
             /\ ~planPaused[p] /\ lastEpochId[p] # epoch
             /\ wanted[p] <= amountPerEpoch[p] /\ wanted[p] <= Available(p)
  <2>1. p \in Page(s, from, end) /\ wanted[p] = Spend(p, s)
    BY <1>7 DEF Spends
  <2> DEFINE want == Smaller(Available(p), amountPerEpoch[p])
  <2>2. ~planPaused[p] /\ lastEpochId[p] # epoch /\ Spend(p, s) = want
    BY <1>7, <2>1 DEF Spend
  <2>3. want <= amountPerEpoch[p] /\ want <= Available(p)
    <3>1. usdgIdle[p] \in Nat /\ boostShares[p] \in Nat
      BY ConstantTypes DEF TypeOK, IdleTyped, PoolTyped
    <3>2. ValueOf(boostShares[p]) \in Nat
      BY <3>1, PoolTypes
    <3>3. Available(p) \in Nat /\ amountPerEpoch[p] \in Nat
      BY <3>1, <3>2 DEF Available, TypeOK, TermsTyped
    <3> QED BY <3>3 DEF Smaller
  <2> QED BY <2>1, <2>2, <2>3
<1>a. from < Len(stockPlans[s]) => from < end
  <2> SUFFICES ASSUME from < Len(stockPlans[s]), end = from PROVE FALSE
    BY <1>1, <1>3
  <2>1. end < to
    BY <1>1
  <2>2. EndsAt(s, from, to, end)
    BY <1>2
  <2> HIDE DEF from, wanted, spend
  <2>3. PageCap(s) # 0 /\ Total(Spends(s, end, end + 1)) > PageCap(s)
    BY <2>1, <2>2, <1>1, <1>3 DEF EndsAt
  <2>4. Total(Spends(s, end, end + 1)) <= PageCap(s)
    BY <2>3, <1>3, PageTakesOne
  <2>5. Total(Spends(s, end, end + 1)) \in Nat /\ PageCap(s) \in Nat
    <3>1. end + 1 \in Nat
      BY <1>3
    <3>2. Spends(s, end, end + 1) \in [Plans -> Nat]
      BY <1>3, <3>1, SpendTypes
    <3> QED BY <3>2, ConstantTypes, TotalNat DEF PageCap, TypeOK, ConfigTyped, Knobs
  <2> QED BY <2>3, <2>4, <2>5
<1>b. ASSUME NEW p \in Plans, p \in Page(s, from, end), stock[p] = s, Willing(p)
      PROVE  spend[p] > 0
  <2>1. wanted[p] = Spend(p, s) /\ wanted[p] > 0 /\ wanted[p] <= usdgIdle[p]
    BY <1>b DEF Willing, Spends
  <2> HIDE DEF wanted
  <2>2. usdgIdle[p] \in Nat
    BY DEF TypeOK, IdleTyped
  <2>3. FromBoost(wanted)[p] = 0
    BY <1>4, <2>1, <2>2 DEF FromBoost
  <2>4. DropBoosted(wanted)[p] = wanted[p]
    BY <2>3 DEF DropBoosted
  <2> QED BY <2>1, <2>4
<1>c. ASSUME PageCap(s) # 0 PROVE Total(spend) <= PageCap(s)
  <2>1. Total(wanted) <= PageCap(s)
    BY <1>2, <1>c DEF EndsAt
  <2> HIDE DEF wanted, spend
  <2>2. ASSUME NEW p \in Plans PROVE spend[p] <= wanted[p]
    <3>1. spend[p] \in Nat /\ wanted[p] \in Nat
      BY <1>4, <1>5
    <3> QED BY <1>5, <3>1
  <2>3. Total(spend) <= Total(wanted)
    BY <1>4, <1>5, <2>2, ConstantTypes, TotalMonotone
  <2>4. Total(spend) \in Nat /\ Total(wanted) \in Nat /\ PageCap(s) \in Nat
    BY <1>4, <1>5, ConstantTypes, TotalNat DEF PageCap, TypeOK, ConfigTyped, Knobs
  <2> QED BY <2>1, <2>3, <2>4
<1> HIDE DEF wanted, spend
<1>8. bought \in Nat /\ unspent \in Nat
  BY ConstantTypes
<1>9. \A p \in Plans : Charged(p, spend)
  BY <1>5, <1>6, <1>8, SkipPageCharges, BuyPageCharges
<1> QED BY <1>3, <1>5, <1>6, <1>7, <1>9, <1>a, <1>b, <1>c DEF PageTo

LEMMA AdvanceEpochLists ==
  ASSUME TypeOK, Lists, NEW s \in Stocks, NEW limit \in Limits,
         NEW privileged \in BOOLEAN, NEW perk \in Perks, NEW bought \in Bought,
         NEW unspent \in Unspent, NEW pays \in BOOLEAN,
         AdvanceEpoch(s, limit, privileged, perk, bought, unspent, pays)
  PROVE  Lists'
<1>1. PICK end \in Nat, spend \in [Plans -> Nat] : PageTo(s, end, spend)
  BY PageShape
<1> USE DEF PageTo
<1>2. UNCHANGED <<epoch, owner, stock>> /\ UNCHANGED index
  BY DEF AdvanceEpoch, chain, terms
<1>3. /\ epoch \in 0..MaxEpoch /\ epoch \in Nat
      /\ nextPlanIndex \in [Stocks -> [0..MaxEpoch -> Nat]]
      /\ lastExecutedEpoch \in [Stocks -> 0..MaxEpoch]
      /\ nextPlanIndex[s][epoch] \in Nat /\ Len(stockPlans[s]) \in Nat
      /\ stockPlans[s] \in Seq(Plans)
  <2>1. epoch \in 0..MaxEpoch /\ epoch \in Nat
    BY ConstantTypes DEF TypeOK, ChainTyped
  <2>2. /\ nextPlanIndex \in [Stocks -> [0..MaxEpoch -> Nat]]
        /\ lastExecutedEpoch \in [Stocks -> 0..MaxEpoch]
    BY DEF TypeOK, CursorTyped
  <2>3. stockPlans[s] \in Seq(Plans) /\ Len(stockPlans[s]) \in Nat
    BY DEF TypeOK, IndexTyped
  <2> QED BY <2>1, <2>2, <2>3
<1>4. /\ nextPlanIndex'[s][epoch] = end
      /\ \A e \in 0..MaxEpoch : e # epoch => nextPlanIndex'[s][e] = nextPlanIndex[s][e]
      /\ \A t \in Stocks \ {s} : nextPlanIndex'[t] = nextPlanIndex[t]
      /\ \A t \in Stocks \ {s} : lastExecutedEpoch'[t] = lastExecutedEpoch[t]
      /\ end = Len(stockPlans[s]) => lastExecutedEpoch'[s] = epoch
  BY <1>1, <1>3 DEF FinalizePage
<1>5. IndexConsistent'
  BY <1>2 DEF Lists, IndexConsistent, Exists, index
<1>6. FundedPlansListed'
  <2>1. ASSUME NEW p \in Plans, spend[p] > 0 PROVE stockPlanIndex[p] # 0
    <3>1. PICK i \in (nextPlanIndex[s][epoch] + 1)..end : p = stockPlans[s][i]
      BY <1>1, <2>1 DEF Page
    <3>2. i \in 1..Len(stockPlans[s]) /\ i # 0
      BY <1>1, <1>3
    <3> QED BY <3>1, <3>2 DEF Lists, IndexConsistent
  <2>2. ASSUME NEW p \in Plans, spend[p] = 0 PROVE Funded(p)' => Funded(p)
    BY <1>1, <2>2 DEF Charged, Funded
  <2>3. \A p \in Plans : spend[p] = 0 \/ spend[p] > 0
    OBVIOUS
  <2> QED BY <1>2, <2>1, <2>2, <2>3 DEF Lists, FundedPlansListed, Funded, index
<1>7. CursorInList'
  <2>1. ASSUME NEW t \in Stocks, EpochPending(t)'
        PROVE  nextPlanIndex'[t][epoch'] < Len(stockPlans'[t])
    <3>1. CASE t = s
      <4>1. lastExecutedEpoch'[s] < epoch
        BY <1>2, <2>1, <3>1 DEF EpochPending
      <4>2. end # Len(stockPlans[s])
        BY <1>3, <1>4, <4>1
      <4> QED BY <1>1, <1>2, <1>3, <1>4, <3>1, <4>2 DEF index
    <3>2. CASE t # s
      <4>1. EpochPending(t)
        BY <1>2, <1>4, <2>1, <3>2 DEF EpochPending
      <4> QED BY <1>2, <1>4, <3>2, <4>1 DEF Lists, CursorInList, index
    <3> QED BY <3>1, <3>2
  <2> QED BY <2>1 DEF CursorInList
<1>8. FutureUntouched'
  <2>1. ASSUME NEW t \in Stocks, NEW e \in 0..MaxEpoch, e > epoch'
        PROVE  nextPlanIndex'[t][e] = 0
    <3>1. nextPlanIndex[t][e] = 0 /\ e # epoch
      BY <1>2, <1>3, <2>1 DEF Lists, FutureUntouched
    <3> QED BY <1>4, <3>1
  <2>2. ASSUME NEW p \in Plans PROVE lastEpochId'[p] <= epoch'
    <3>1. lastEpochId'[p] = lastEpochId[p] \/ lastEpochId'[p] = epoch
      BY <1>1 DEF Charged
    <3> QED BY <1>2, <1>3, <3>1 DEF Lists, FutureUntouched
  <2> QED BY <2>1, <2>2 DEF FutureUntouched
<1> QED BY <1>5, <1>6, <1>7, <1>8 DEF Lists

-----------------------------------------------------------------------------
(* The administration and the environment.                                 *)

LEMMA OtherStepLists ==
  ASSUME TypeOK, Lists, AdminCall \/ Environment
  PROVE  Lists'
<1>1. /\ UNCHANGED <<owner, stock, lastEpochId>>
      /\ UNCHANGED index /\ UNCHANGED cursor
      /\ UNCHANGED <<usdgIdle, stockAccrued, boostShares>>
  <2>1. ASSUME AdminCall
        PROVE  /\ UNCHANGED <<terms, flags, index, cursor>>
               /\ UNCHANGED <<usdgIdle, stockAccrued, boostShares>>
    BY <2>1 DEF AdminCall, SweepDust, SkimUsdg, SkimWeth, SkimStock,
                SetBoostStrategy, SetVaultPaused, SetFees, SetFeeRecipient, SetKnobs, state,
                idle, accrued, pool
  <2>2. ASSUME Environment
        PROVE  /\ UNCHANGED <<terms, flags, index, cursor>>
               /\ UNCHANGED <<usdgIdle, stockAccrued, boostShares>>
    BY <2>2 DEF Environment, EpochPasses, SetPurchasable, MarketTurns,
                StrategyGains, StrategyLoses, GiveUsdg, GiveWeth, GiveStock,
                state, idle, accrued, pool
  <2> QED BY <2>1, <2>2 DEF terms, flags
<1>2. UNCHANGED epoch \/ (EpochPasses /\ epoch' = epoch + 1)
  BY DEF AdminCall, SweepDust, SkimUsdg, SkimWeth, SkimStock, SetBoostStrategy,
         SetVaultPaused, SetFees, SetFeeRecipient, SetKnobs, Environment, EpochPasses,
         SetPurchasable, MarketTurns, StrategyGains, StrategyLoses, GiveUsdg,
         GiveWeth, GiveStock, chain
<1>3. CASE UNCHANGED epoch
  BY <1>1, <1>3, QuietStep DEF Funded
<1>4. CASE EpochPasses /\ epoch' = epoch + 1
  <2>1. epoch \in Nat /\ epoch' \in 0..MaxEpoch /\ epoch' > epoch
    BY <1>4, ConstantTypes DEF TypeOK, ChainTyped, EpochPasses
  <2>2. IndexConsistent'
    BY <1>1 DEF Lists, IndexConsistent, Exists, index
  <2>3. FundedPlansListed'
    BY <1>1 DEF Lists, FundedPlansListed, index
  <2>4. CursorInList'
    BY <1>1, <2>1 DEF Lists, CursorInList, FutureUntouched, EpochPending, cursor
  <2>5. FutureUntouched'
    <3>1. ASSUME NEW t \in Stocks, NEW e \in 0..MaxEpoch, e > epoch'
          PROVE  nextPlanIndex'[t][e] = 0
      BY <1>1, <2>1, <3>1 DEF Lists, FutureUntouched, cursor
    <3>2. ASSUME NEW p \in Plans PROVE lastEpochId'[p] <= epoch'
      <4>1. lastEpochId[p] \in Nat /\ lastEpochId[p] <= epoch
        BY ConstantTypes DEF Lists, FutureUntouched, TypeOK, FlagsTyped
      <4> QED BY <1>1, <2>1, <4>1
    <3> QED BY <3>1, <3>2 DEF FutureUntouched
  <2> QED BY <2>2, <2>3, <2>4, <2>5 DEF Lists
<1> QED BY <1>2, <1>3, <1>4

LEMMA InitLists == Init => Lists
<1> SUFFICES ASSUME Init PROVE Lists
  OBVIOUS
<1> USE ConstantTypes DEF Init
<1>1. IndexConsistent
  BY DEF IndexConsistent
<1>2. FundedPlansListed
  BY DEF FundedPlansListed
<1>3. CursorInList
  <2>1. 0 \in 0..MaxEpoch
    BY SMT
  <2>2. \A s \in Stocks : nextPlanIndex[s][epoch] = 0
    BY <2>1
  <2> QED BY <2>2 DEF CursorInList, EpochPending
<1>4. FutureUntouched
  BY DEF FutureUntouched
<1> QED BY <1>1, <1>2, <1>3, <1>4 DEF Lists

LEMMA NextLists == ListInv /\ [Next]_vars => ListInv'
<1> SUFFICES ASSUME TypeOK, Lists, [Next]_vars PROVE TypeOK' /\ Lists'
  BY DEF ListInv
<1>1. ASSUME NEW p \in Plans, PlanCall(p) PROVE Lists'
  BY <1>1, PlanCallLists
<1>2. ASSUME NEW u \in Users, NEW s \in Stocks,
             NEW perk \in Perks, ClaimAll(u, s, perk)
      PROVE  Lists'
  BY <1>2, ClaimAllLists
<1>3. ASSUME NEW s \in Stocks, KeeperCall(s) PROVE Lists'
  BY <1>3, AdvanceEpochLists DEF KeeperCall
<1>4. ASSUME AdminCall \/ Environment PROVE Lists'
  BY <1>4, OtherStepLists
<1>5. ASSUME UNCHANGED vars PROVE Lists'
  <2>1. /\ UNCHANGED <<epoch, owner, stock, lastEpochId>>
        /\ UNCHANGED index /\ UNCHANGED cursor
        /\ UNCHANGED <<usdgIdle, stockAccrued, boostShares>>
    BY <1>5 DEF vars, chain, terms, flags, idle, accrued, pool
  <2> QED BY <2>1, QuietStep DEF Funded
<1>6. Lists'
  BY <1>1, <1>2, <1>3, <1>4, <1>5 DEF Next
<1> QED BY <1>6, NextTypes

LEMMA ListsInvariant == Spec => []ListInv
<1>1. Init => ListInv
  BY InitTypes, InitLists DEF ListInv
<1> QED BY <1>1, NextLists, PTL DEF Spec

-----------------------------------------------------------------------------
(* The theorems.                                                           *)

(* The list of a stock and the positions of its plans always describe each *)
(* other (_index, _unindex, _recordClose, prunePlan).                      *)
THEOREM IndexIsConsistent == Spec => []IndexConsistent
<1>1. ListInv => IndexConsistent
  BY DEF ListInv, Lists
<1> QED BY <1>1, ListsInvariant, PTL

(* A plan that holds anything is always in its stock's list, whatever its  *)
(* owner, strangers and the keepers call in whatever order.                *)
THEOREM FundedPlansAreListed == Spec => []FundedPlansListed
<1>1. ListInv => FundedPlansListed
  BY DEF ListInv, Lists
<1> QED BY <1>1, ListsInvariant, PTL

(* The cursor of an unfinished epoch is always inside the list, so the     *)
(* subtraction that sizes a page never wraps.                              *)
THEOREM CursorStaysInList == Spec => []CursorInList
<1>1. ListInv => CursorInList
  BY DEF ListInv, Lists
<1> QED BY <1>1, ListsInvariant, PTL

(* A list that does not change keeps its prefix.                           *)
LEMMA SameListKept ==
  ASSUME ListInv, NEW s \in Stocks, EpochPending(s),
         stockPlans'[s] = stockPlans[s],
         nextPlanIndex'[s][epoch] >= nextPlanIndex[s][epoch]
  PROVE  PrefixKept(s)
<1>1. nextPlanIndex[s][epoch] \in Nat /\ Len(stockPlans[s]) \in Nat
  <2>1. nextPlanIndex[s][epoch] \in Nat
    BY DEF ListInv, TypeOK, ChainTyped, CursorTyped
  <2>2. Len(stockPlans[s]) \in Nat
    BY DEF ListInv, TypeOK, IndexTyped
  <2> QED BY <2>1, <2>2
<1>2. nextPlanIndex[s][epoch] < Len(stockPlans[s])
  BY DEF ListInv, Lists, CursorInList
<1> QED BY <1>1, <1>2 DEF PrefixKept

(* A list that grows at its end keeps its prefix.                          *)
LEMMA GrownListKept ==
  ASSUME ListInv, NEW s \in Stocks, EpochPending(s), UNCHANGED cursor,
         \A i \in 1..Len(stockPlans[s]) :
           i <= Len(stockPlans'[s]) /\ stockPlans'[s][i] = stockPlans[s][i]
  PROVE  PrefixKept(s)
<1>1. nextPlanIndex[s][epoch] \in Nat /\ Len(stockPlans[s]) \in Nat
  <2>1. nextPlanIndex[s][epoch] \in Nat
    BY DEF ListInv, TypeOK, ChainTyped, CursorTyped
  <2>2. Len(stockPlans[s]) \in Nat
    BY DEF ListInv, TypeOK, IndexTyped
  <2> QED BY <2>1, <2>2
<1>2. nextPlanIndex[s][epoch] < Len(stockPlans[s])
  BY DEF ListInv, Lists, CursorInList
<1>3. nextPlanIndex' = nextPlanIndex
  BY DEF cursor
<1> QED BY <1>1, <1>2, <1>3 DEF PrefixKept

LEMMA PlanCallKeepsPrefix ==
  ASSUME ListInv, NEW p \in Plans, PlanCall(p), NEW s \in Stocks,
         EpochPending(s)
  PROVE  PrefixKept(s) /\ UNCHANGED cursor
<1>i. TypeOK /\ Lists /\ IndexConsistent
  BY DEF ListInv, Lists
<1>n. nextPlanIndex[s][epoch] >= nextPlanIndex[s][epoch]
  <2>1. nextPlanIndex[s][epoch] \in Nat
    BY DEF ListInv, TypeOK, ChainTyped, CursorTyped
  <2> QED BY <2>1
<1>1. ASSUME NEW u \in Users, NEW t \in Stocks, NEW a, NEW to, NEW g, NEW z1,
             NEW z2, NEW lends, CreatePlan(u, p, t, a, to, g, z1, z2, lends)
      PROVE  PrefixKept(s) /\ UNCHANGED cursor
  <2>1. stockPlanIndex[p] = 0
    BY <1>1, <1>i DEF CreatePlan, IndexConsistent, Exists
  <2>2. /\ owner' = [owner EXCEPT ![p] = u] /\ stock' = [stock EXCEPT ![p] = t]
        /\ IndexPlan(p, t) /\ UNCHANGED cursor
    BY <1>1 DEF CreatePlan
  <2>3. /\ owner'[p] # None /\ stock'[p] = t
        /\ \A q \in Plans \ {p} : owner'[q] = owner[q] /\ stock'[q] = stock[q]
    BY <2>2, <1>i, ConstantTypes DEF TypeOK, TermsTyped
  <2> QED BY <2>1, <2>2, <2>3, <1>i, IndexPlanLists, GrownListKept
<1>2. ASSUME NEW c, Fund(p, c) PROVE PrefixKept(s) /\ UNCHANGED cursor
  <2>1. /\ owner[p] # None /\ stock[p] \in Stocks
        /\ UNCHANGED <<owner, stock>>
        /\ IndexPlan(p, stock[p]) /\ UNCHANGED cursor
    BY <1>2, <1>i DEF Fund, Exists, TypeOK, TermsTyped, terms
  <2> QED BY <2>1, <1>i, IndexPlanLists, GrownListKept
<1>3. ASSUME UnindexPlan(p), UNCHANGED <<owner, stock>>, UNCHANGED cursor,
             stockPlanIndex[p] = 0 \/ ~EpochPending(stock[p])
      PROVE  PrefixKept(s)
  <2>1. /\ \A t \in Stocks \ {stock[p]} : stockPlans'[t] = stockPlans[t]
        /\ stockPlanIndex[p] = 0 => UNCHANGED index
    BY <1>3, <1>i, UnindexPlanLists
  <2>2. stockPlans'[s] = stockPlans[s]
    BY <1>3, <2>1 DEF index
  <2> QED BY <1>3, <1>n, <2>2, SameListKept DEF cursor
<1>4. ASSUME UNCHANGED index, UNCHANGED cursor PROVE PrefixKept(s)
  BY <1>4, <1>n, SameListKept DEF index, cursor
<1>5. ASSUME NEW perk \in Perks, ClosePlan(p, perk)
      PROVE  PrefixKept(s) /\ UNCHANGED cursor
  <2>1. UNCHANGED <<owner, stock>> /\ UNCHANGED cursor
    BY <1>5 DEF ClosePlan, terms
  <2>2. \/ UNCHANGED index
        \/ UnindexPlan(p) /\ (stockPlanIndex[p] = 0 \/ ~EpochPending(stock[p]))
    BY <1>5 DEF ClosePlan, Parks
  <2> QED BY <1>3, <1>4, <2>1, <2>2
<1>6. ASSUME PrunePlan(p) PROVE PrefixKept(s) /\ UNCHANGED cursor
  <2>1. UNCHANGED <<owner, stock>> /\ UNCHANGED cursor
        /\ UnindexPlan(p) /\ ~EpochPending(stock[p])
    BY <1>6 DEF PrunePlan, terms
  <2> QED BY <1>3, <2>1
<1>7. ASSUME \/ \E b \in BOOLEAN : SetPlanPaused(p, b)
             \/ \E a \in AmountsPerEpoch : SetPlanAmount(p, a)
             \/ \E u \in Users : SetPlanRecipient(p, u)
             \/ Boost(p)
             \/ Unboost(p)
             \/ \E a \in 1..Supply : WithdrawIdle(p, a)
             \/ \E a \in 1..Supply, perk \in Perks : Claim(p, a, perk)
      PROVE  PrefixKept(s) /\ UNCHANGED cursor
  <2>1. UNCHANGED index /\ UNCHANGED cursor
    BY <1>7 DEF SetPlanPaused, SetPlanAmount, SetPlanRecipient, Boost, Unboost,
                WithdrawIdle, Claim
  <2> QED BY <1>4, <2>1
<1> QED BY <1>1, <1>2, <1>5, <1>6, <1>7 DEF PlanCall, DepositUSDG, DepositWETH

(* The steps of the administration, of claimers and of the environment.    *)
LEMMA OtherStepsKeepLists ==
  ASSUME AdminCall \/ Environment \/ (\E u \in Users, s \in Stocks, perk \in Perks : ClaimAll(u, s, perk))
         \/ UNCHANGED vars
  PROVE  UNCHANGED index /\ UNCHANGED cursor
<1>1. ASSUME AdminCall PROVE UNCHANGED index /\ UNCHANGED cursor
  BY <1>1 DEF AdminCall, SweepDust, SkimUsdg, SkimWeth, SkimStock,
              SetBoostStrategy, SetVaultPaused, SetFees, SetFeeRecipient, SetKnobs, state
<1>2. ASSUME Environment PROVE UNCHANGED index /\ UNCHANGED cursor
  BY <1>2 DEF Environment, EpochPasses, SetPurchasable, MarketTurns,
              StrategyGains, StrategyLoses, GiveUsdg, GiveWeth, GiveStock, state
<1>3. ASSUME NEW u \in Users, NEW s \in Stocks,
             NEW perk \in Perks, ClaimAll(u, s, perk)
      PROVE  UNCHANGED index /\ UNCHANGED cursor
  BY <1>3 DEF ClaimAll
<1> QED BY <1>1, <1>2, <1>3 DEF vars

(* No plan crosses the cursor of an open epoch, so none is visited twice   *)
(* and none is passed over.                                                *)
THEOREM NoPlanEverCrosses == Spec => NoPlanCrossesCursor
<1>1. ASSUME ListInv, [Next]_vars, NEW s \in Stocks, EpochPending(s),
             epoch' = epoch
      PROVE  PrefixKept(s)
  <2>n. nextPlanIndex[s][epoch] \in Nat
    BY <1>1 DEF ListInv, TypeOK, ChainTyped, CursorTyped
  <2>1. ASSUME NEW p \in Plans, PlanCall(p) PROVE PrefixKept(s)
    BY <1>1, <2>1, PlanCallKeepsPrefix
  <2>2. ASSUME NEW t \in Stocks, NEW limit \in Limits,
               NEW privileged \in BOOLEAN, NEW perk \in Perks,
               NEW bought \in Bought, NEW unspent \in Unspent,
               NEW pays \in BOOLEAN,
               AdvanceEpoch(t, limit, privileged, perk, bought, unspent, pays)
        PROVE  PrefixKept(s)
    <3>1. PICK end \in Nat : nextPlanIndex[t][epoch] <= end /\ FinalizePage(t, end)
      BY <1>1, <2>2, PageShape DEF ListInv, PageTo
    <3>2. UNCHANGED index
      BY <2>2 DEF AdvanceEpoch
    <3>3. /\ nextPlanIndex \in [Stocks -> [0..MaxEpoch -> Nat]]
          /\ epoch \in 0..MaxEpoch
      BY <1>1 DEF ListInv, TypeOK, ChainTyped, CursorTyped
    <3>4. nextPlanIndex'[s][epoch] >= nextPlanIndex[s][epoch]
      BY <2>n, <3>1, <3>3 DEF FinalizePage
    <3> QED BY <1>1, <3>2, <3>4, SameListKept DEF index
  <2>3. ASSUME UNCHANGED index, UNCHANGED cursor PROVE PrefixKept(s)
    BY <1>1, <2>n, <2>3, SameListKept DEF index, cursor
  <2> QED BY <1>1, <2>1, <2>2, <2>3, OtherStepsKeepLists DEF Next, KeeperCall
<1>2. ListInv /\ [Next]_vars =>
        [\A s \in Stocks : EpochPending(s) /\ epoch' = epoch => PrefixKept(s)]_vars
  BY <1>1
<1> QED BY <1>2, ListsInvariant, PTL DEF Spec, NoPlanCrossesCursor

(* No plan is charged twice in an epoch, charged while paused, charged by  *)
(* a page of another stock, or charged more than its amount.               *)
THEOREM NoPlanChargedTwice == Spec => PagesChargeOncePerEpoch
<1>1. ASSUME ListInv, NEW s \in Stocks, NEW limit \in Limits,
             NEW privileged \in BOOLEAN, NEW perk \in Perks,
             NEW bought \in Bought, NEW unspent \in Unspent,
             NEW pays \in BOOLEAN,
             AdvanceEpoch(s, limit, privileged, perk, bought, unspent, pays),
             nextPlanIndex' # nextPlanIndex, NEW p \in Plans,
             usdgIdle'[p] < usdgIdle[p] \/ boostShares'[p] < boostShares[p]
      PROVE  ChargedOnce(p)
  <2>1. PICK end \in Nat, spend \in [Plans -> Nat] : PageTo(s, end, spend)
    BY <1>1, PageShape DEF ListInv
  <2> USE DEF PageTo
  <2>2. /\ usdgIdle[p] \in Nat /\ boostShares[p] \in Nat /\ amountPerEpoch[p] \in Nat
        /\ lastEpochId[p] \in Nat /\ epoch \in Nat /\ lastEpochId[p] <= epoch
    BY <1>1, ConstantTypes DEF ListInv, Lists, FutureUntouched, TypeOK,
       ChainTyped, IdleTyped, PoolTyped, TermsTyped, FlagsTyped
  <2>3. spend[p] > 0
    <3>1. spend[p] # 0
      BY <1>1, <2>1, <2>2 DEF Charged
    <3> QED BY <3>1
  <2>4. lastEpochId'[p] = epoch /\ usdgIdle[p] - usdgIdle'[p] <= spend[p]
    BY <2>1, <2>3 DEF Charged
  <2>5. stock[p] = s
    <3>1. PICK i \in (nextPlanIndex[s][epoch] + 1)..end : p = stockPlans[s][i]
      BY <2>1, <2>3 DEF Page
    <3>2. nextPlanIndex[s][epoch] \in Nat
      BY <1>1 DEF ListInv, TypeOK, ChainTyped, CursorTyped
    <3>3. Len(stockPlans[s]) \in Nat
      BY <1>1 DEF ListInv, TypeOK, IndexTyped
    <3>4. i \in 1..Len(stockPlans[s])
      BY <2>1, <3>2, <3>3
    <3> QED BY <1>1, <3>1, <3>4 DEF ListInv, Lists, IndexConsistent
  <2>6. nextPlanIndex'[s] # nextPlanIndex[s]
    <3>1. nextPlanIndex \in [Stocks -> [0..MaxEpoch -> Nat]]
      BY <1>1 DEF ListInv, TypeOK, CursorTyped
    <3>2. /\ nextPlanIndex' \in [Stocks -> [0..MaxEpoch -> Nat]]
      BY <1>1, AdvanceEpochTypes DEF ListInv, TypeOK, CursorTyped
    <3>3. \A t \in Stocks \ {s} : nextPlanIndex'[t] = nextPlanIndex[t]
      BY <2>1, <3>1 DEF FinalizePage
    <3> QED BY <1>1, <3>1, <3>2, <3>3
  <2>7. usdgIdle'[p] \in Nat
    BY <1>1, AdvanceEpochTypes DEF ListInv, TypeOK, IdleTyped
  <2>8. /\ ~planPaused[p] /\ lastEpochId[p] # epoch
        /\ spend[p] <= amountPerEpoch[p]
    BY <2>1, <2>3
  <2>9. usdgIdle[p] - usdgIdle'[p] <= amountPerEpoch[p]
    BY <2>2, <2>4, <2>7, <2>8
  <2> QED BY <2>2, <2>4, <2>5, <2>6, <2>8, <2>9 DEF ChargedOnce
<1>2. ASSUME ListInv, [Next]_vars, nextPlanIndex' # nextPlanIndex,
             NEW p \in Plans,
             usdgIdle'[p] < usdgIdle[p] \/ boostShares'[p] < boostShares[p]
      PROVE  ChargedOnce(p)
  <2>1. ASSUME NEW q \in Plans, PlanCall(q) PROVE UNCHANGED cursor
    BY <2>1 DEF PlanCall, CreatePlan, DepositUSDG, DepositWETH, Fund,
       SetPlanPaused, SetPlanAmount, SetPlanRecipient, Boost, Unboost,
       WithdrawIdle, Claim, ClosePlan, PrunePlan
  <2>2. ~UNCHANGED cursor
    BY <1>2 DEF cursor
  <2>3. \E s \in Stocks : KeeperCall(s)
    BY <1>2, <2>1, <2>2, OtherStepsKeepLists DEF Next
  <2> QED BY <1>1, <1>2, <2>3 DEF KeeperCall
<1>3. ListInv /\ [Next]_vars =>
        [nextPlanIndex' # nextPlanIndex =>
           \A p \in Plans :
             usdgIdle'[p] < usdgIdle[p] \/ boostShares'[p] < boostShares[p]
               => ChargedOnce(p)]_vars
  BY <1>2
<1> QED BY <1>3, ListsInvariant, PTL DEF Spec, PagesChargeOncePerEpoch

(* Only pages move the cursor.                                             *)
LEMMA OnlyPagesMoveCursor ==
  ASSUME [Next]_vars, ~(\E s \in Stocks : KeeperCall(s))
  PROVE  UNCHANGED cursor
<1>1. ASSUME NEW p \in Plans, PlanCall(p) PROVE UNCHANGED cursor
  BY <1>1 DEF PlanCall, CreatePlan, DepositUSDG, DepositWETH, Fund,
     SetPlanPaused, SetPlanAmount, SetPlanRecipient, Boost, Unboost,
     WithdrawIdle, Claim, ClosePlan, PrunePlan
<1> QED BY <1>1, OtherStepsKeepLists DEF Next

(* A page never takes more from its plans than the page cap in force.      *)
THEOREM PagesKeepCap == Spec => PageWithinCap
<1>1. ASSUME ListInv, [Next]_vars, NEW s \in Stocks,
             nextPlanIndex'[s] # nextPlanIndex[s], PageCap(s) # 0
      PROVE  Total([p \in Plans |-> IF usdgIdle'[p] < usdgIdle[p]
                                    THEN usdgIdle[p] - usdgIdle'[p]
                                    ELSE 0]) <= PageCap(s)
  <2>1. PICK t \in Stocks : KeeperCall(t)
    BY <1>1, OnlyPagesMoveCursor DEF cursor
  <2>2. PICK end \in Nat, spend \in [Plans -> Nat] : PageTo(t, end, spend)
    BY <1>1, <2>1, PageShape DEF KeeperCall, ListInv
  <2>3. t = s
    <3>1. nextPlanIndex \in [Stocks -> [0..MaxEpoch -> Nat]]
      BY <1>1 DEF ListInv, TypeOK, CursorTyped
    <3> QED BY <1>1, <2>2, <3>1 DEF PageTo, FinalizePage
  <2> DEFINE drop == [p \in Plans |-> IF usdgIdle'[p] < usdgIdle[p]
                                      THEN usdgIdle[p] - usdgIdle'[p]
                                      ELSE 0]
  <2>4. ASSUME NEW p \in Plans PROVE drop[p] \in Nat /\ drop[p] <= spend[p]
    <3>1. usdgIdle[p] \in Nat /\ usdgIdle'[p] \in Nat /\ spend[p] \in Nat
      BY <1>1, NextTypes DEF ListInv, TypeOK, IdleTyped
    <3>2. Charged(p, spend)
      BY <2>2 DEF PageTo
    <3> QED BY <3>1, <3>2 DEF Charged
  <2>5. drop \in [Plans -> Nat]
    BY <2>4
  <2> HIDE DEF drop
  <2>6. Total(drop) <= Total(spend)
    BY <2>4, <2>5, ConstantTypes, TotalMonotone
  <2>7. Total(spend) <= PageCap(s)
    BY <1>1, <2>2, <2>3 DEF PageTo
  <2>8. Total(drop) \in Nat /\ Total(spend) \in Nat /\ PageCap(s) \in Nat
    BY <1>1, <2>5, ConstantTypes, TotalNat
       DEF PageCap, ListInv, TypeOK, ConfigTyped, Knobs
  <2>9. Total(drop) <= PageCap(s)
    BY <2>6, <2>7, <2>8
  <2> QED BY <2>9 DEF drop
<1>2. ListInv /\ [Next]_vars =>
        [\A s \in Stocks :
           nextPlanIndex'[s] # nextPlanIndex[s] /\ PageCap(s) # 0 =>
             Total([p \in Plans |-> IF usdgIdle'[p] < usdgIdle[p]
                                    THEN usdgIdle[p] - usdgIdle'[p]
                                    ELSE 0]) <= PageCap(s)]_vars
  BY <1>1
<1> QED BY <1>2, ListsInvariant, PTL DEF Spec, PageWithinCap

-----------------------------------------------------------------------------
(* The refinement: list, positions and cursor carry the epoch of PlanEpoch.*)

(* The epoch a stock executed last has begun.                              *)
ExecutedPast == \A s \in Stocks : lastExecutedEpoch[s] <= epoch

EpochInv == ListInv /\ ExecutedPast

LEMMA CursorTypes ==
  ASSUME TypeOK, NEW s \in Stocks
  PROVE  /\ epoch \in 0..MaxEpoch /\ epoch \in Nat
         /\ nextPlanIndex[s][epoch] \in Nat
         /\ lastExecutedEpoch[s] \in Nat
         /\ stockPlans[s] \in Seq(Plans) /\ Len(stockPlans[s]) \in Nat
<1>1. epoch \in 0..MaxEpoch /\ epoch \in Nat
  BY ConstantTypes DEF TypeOK, ChainTyped
<1>2. nextPlanIndex[s][epoch] \in Nat /\ lastExecutedEpoch[s] \in Nat
  BY <1>1, ConstantTypes DEF TypeOK, CursorTyped
<1>3. stockPlans[s] \in Seq(Plans) /\ Len(stockPlans[s]) \in Nat
  BY DEF TypeOK, IndexTyped
<1> QED BY <1>1, <1>2, <1>3

LEMMA NextExecutedPast == EpochInv /\ [Next]_vars => ExecutedPast'
<1> SUFFICES ASSUME EpochInv, [Next]_vars, NEW s \in Stocks
             PROVE  lastExecutedEpoch'[s] <= epoch'
  BY DEF ExecutedPast
<1>1. /\ lastExecutedEpoch[s] <= epoch /\ lastExecutedEpoch[s] \in Nat
      /\ epoch \in Nat
  BY CursorTypes DEF EpochInv, ExecutedPast, ListInv
<1>2. ASSUME NEW t \in Stocks, KeeperCall(t)
      PROVE  lastExecutedEpoch'[s] <= epoch'
  <2>1. PICK end \in Nat : FinalizePage(t, end)
    BY <1>2, PageShape DEF KeeperCall, EpochInv, ListInv, PageTo
  <2>2. epoch' = epoch
    BY <1>2 DEF KeeperCall, AdvanceEpoch, chain
  <2>3. lastExecutedEpoch \in [Stocks -> 0..MaxEpoch]
    BY DEF EpochInv, ListInv, TypeOK, CursorTyped
  <2>4. lastExecutedEpoch'[s] \in {epoch, lastExecutedEpoch[s]}
    BY <2>1, <2>3 DEF FinalizePage
  <2> QED BY <1>1, <2>2, <2>4
<1>3. ASSUME UNCHANGED cursor PROVE lastExecutedEpoch'[s] <= epoch'
  <2>1. epoch' = epoch \/ epoch' = epoch + 1
    <3>1. ASSUME NEW p \in Plans, PlanCall(p) PROVE epoch' = epoch
      BY <3>1 DEF PlanCall, CreatePlan, DepositUSDG, DepositWETH, Fund,
         SetPlanPaused, SetPlanAmount, SetPlanRecipient, Boost, Unboost,
         WithdrawIdle, Claim, ClosePlan, PrunePlan, chain
    <3>2. ASSUME AdminCall \/ Environment
          PROVE  epoch' = epoch \/ epoch' = epoch + 1
      BY <3>2 DEF AdminCall, SweepDust, SkimUsdg, SkimWeth, SkimStock,
         SetBoostStrategy, SetVaultPaused, SetFees, SetFeeRecipient, SetKnobs, Environment,
         EpochPasses, SetPurchasable, MarketTurns, StrategyGains,
         StrategyLoses, GiveUsdg, GiveWeth, GiveStock, chain
    <3>3. ASSUME NEW u \in Users, NEW t \in Stocks,
                 NEW perk \in Perks, ClaimAll(u, t, perk)
          PROVE  epoch' = epoch
      BY <3>3 DEF ClaimAll, chain
    <3>4. ASSUME NEW t \in Stocks, KeeperCall(t) PROVE epoch' = epoch
      BY <3>4 DEF KeeperCall, AdvanceEpoch, chain
    <3>5. ASSUME UNCHANGED vars PROVE epoch' = epoch
      BY <3>5 DEF vars, chain
    <3> QED BY <3>1, <3>2, <3>3, <3>4, <3>5 DEF Next
  <2> QED BY <1>1, <1>3, <2>1 DEF cursor
<1> QED BY <1>2, <1>3, OnlyPagesMoveCursor

LEMMA EpochsInvariant == Spec => []EpochInv
<1>1. Init => EpochInv
  <2> SUFFICES ASSUME Init PROVE EpochInv
    OBVIOUS
  <2>1. ListInv
    BY InitTypes, InitLists DEF ListInv
  <2>2. ExecutedPast
    BY DEF Init, ExecutedPast
  <2> QED BY <2>1, <2>2 DEF EpochInv
<1>2. EpochInv /\ [Next]_vars => EpochInv'
  BY NextLists, NextExecutedPast DEF EpochInv
<1> QED BY <1>1, <1>2, PTL DEF Spec

(* The plans listed for a stock are those of it that have a position.      *)
LEMMA ListedPlans ==
  ASSUME TypeOK, IndexConsistent, NEW s \in Stocks
  PROVE  Listed(s) = {p \in Plans : stockPlanIndex[p] # 0 /\ stock[p] = s}
<1>1. ASSUME NEW i \in 1..Len(stockPlans[s])
      PROVE  /\ stockPlans[s][i] \in Plans
             /\ stockPlanIndex[stockPlans[s][i]] = i /\ i # 0
             /\ stock[stockPlans[s][i]] = s
  BY CursorTypes DEF IndexConsistent
<1>2. ASSUME NEW p \in Plans, stockPlanIndex[p] # 0, stock[p] = s
      PROVE  stockPlanIndex[p] \in 1..Len(stockPlans[s])
             /\ stockPlans[s][stockPlanIndex[p]] = p
  BY <1>2 DEF IndexConsistent
<1> QED BY <1>1, <1>2 DEF Listed

(* Before the first page of an epoch everybody listed waits.               *)
LEMMA FreshWaiting ==
  ASSUME NEW s \in Stocks, ~Executed(s), nextPlanIndex[s][epoch] = 0
  PROVE  Waiting(s) = Listed(s)
<1>1. 0 + 1 = 1
  OBVIOUS
<1> QED BY <1>1 DEF Waiting, Listed, Page

LEMMA ConcreteInit == Init => Epochs!Init
<1> SUFFICES ASSUME Init PROVE Epochs!Init
  OBVIOUS
<1>1. TypeOK
  BY InitTypes
<1>2. ASSUME NEW s \in Stocks
      PROVE  Executed(s) /\ Listed(s) = {}
  BY <1>2, ConstantTypes DEF Init, Executed, Listed
<1>3. \A s \in Stocks : PhaseOf(s) = "closed" /\ Waiting(s) = {}
  BY <1>2 DEF PhaseOf, Waiting
<1>4. {p \in Plans : lastEpochId[p] = epoch} = Plans
  BY DEF Init
<1>5. {p \in Plans : Willing(p)} = {}
  BY DEF Init, Willing, Exists
<1> QED BY <1>2, <1>3, <1>4, <1>5 DEF Epochs!Init

(* A step that touches neither list, cursor, epoch nor charges can only    *)
(* change who is willing.                                                  *)
LEMMA TurnStep ==
  ASSUME UNCHANGED <<epoch, lastEpochId>>, UNCHANGED index, UNCHANGED cursor
  PROVE  Epochs!Turn
<1>1. ASSUME NEW s \in Stocks
      PROVE  /\ Listed(s)' = Listed(s)
             /\ PhaseOf(s)' = PhaseOf(s)
             /\ Waiting(s)' = Waiting(s)
  BY DEF Listed, PhaseOf, Waiting, Page, Executed, EpochPending, index, cursor
<1>2. {p \in Plans : Willing(p)}' \in SUBSET Plans
  OBVIOUS
<1> QED BY <1>1, <1>2 DEF Epochs!Turn

(* Listing a plan lets it join.                                            *)
LEMMA JoinStep ==
  ASSUME EpochInv, NEW p \in Plans, NEW s \in Stocks, IndexPlan(p, s),
         owner'[p] # None, stock'[p] = s,
         \A q \in Plans \ {p} : owner'[q] = owner[q] /\ stock'[q] = stock[q],
         stockPlanIndex[p] # 0 => stock[p] = s,
         UNCHANGED <<epoch, lastEpochId>>, UNCHANGED cursor
  PROVE  Epochs!Join(s, p) \/ Epochs!Turn
<1>i. TypeOK /\ IndexConsistent /\ CursorInList
  BY DEF EpochInv, ListInv, Lists
<1>1. CASE stockPlanIndex[p] # 0
  BY <1>1, TurnStep DEF IndexPlan
<1>2. CASE stockPlanIndex[p] = 0
  <2>1. stockPlans' = [stockPlans EXCEPT ![s] = Append(@, p)]
    BY <1>2 DEF IndexPlan
  <2>2. /\ stockPlans'[s] = Append(stockPlans[s], p)
        /\ \A t \in Stocks \ {s} : stockPlans'[t] = stockPlans[t]
    BY <1>i, <2>1 DEF TypeOK, IndexTyped
  <2> DEFINE n == Len(stockPlans[s]) + 1
  <2>3. /\ Len(stockPlans'[s]) = n /\ stockPlans'[s][n] = p
        /\ \A i \in 1..Len(stockPlans[s]) : stockPlans'[s][i] = stockPlans[s][i]
    BY <1>i, <2>2, CursorTypes
  <2>4. nextPlanIndex[s][epoch] \in Nat /\ Len(stockPlans[s]) \in Nat
    BY <1>i, CursorTypes
  <2>5. ASSUME NEW from \in Nat, from <= Len(stockPlans[s])
        PROVE  {stockPlans'[s][i] : i \in (from + 1)..n}
                 = {stockPlans[s][i] : i \in (from + 1)..Len(stockPlans[s])} \cup {p}
    <3>1. n \in (from + 1)..n /\ (from + 1)..n = ((from + 1)..Len(stockPlans[s])) \cup {n}
      BY <2>4, <2>5
    <3>2. ASSUME NEW i \in (from + 1)..Len(stockPlans[s])
          PROVE  stockPlans'[s][i] = stockPlans[s][i]
      BY <2>3, <2>4, <2>5
    <3> HIDE DEF n
    <3> QED BY <2>3, <3>1, <3>2
  <2>6. \A t \in Stocks : p \notin Listed(t)
    BY <1>i, <1>2, ListedPlans
  <2>7. \A t \in Stocks : Listed(t)' = IF t = s THEN Listed(t) \cup {p} ELSE Listed(t)
    <3>1. Listed(s)' = Listed(s) \cup {p}
      <4>1. 0 \in Nat /\ 0 <= Len(stockPlans[s]) /\ 0 + 1 = 1
        BY <2>4
      <4>2. {stockPlans'[s][i] : i \in (0 + 1)..n}
              = {stockPlans[s][i] : i \in (0 + 1)..Len(stockPlans[s])} \cup {p}
        BY <2>5, <4>1
      <4> QED BY <2>3, <4>1, <4>2 DEF Listed
    <3> QED BY <2>2, <3>1 DEF Listed
  <2>8. \A t \in Stocks : PhaseOf(t)' = PhaseOf(t) /\ Executed(t)' = Executed(t)
    BY DEF PhaseOf, Executed, EpochPending, cursor
  <2>9. nextPlanIndex[s][epoch] <= Len(stockPlans[s]) \/ Executed(s)
    <3>1. CASE EpochPending(s)
      BY <1>i, <2>4, <3>1 DEF CursorInList
    <3>2. CASE ~EpochPending(s)
      <4>1. Executed(s) \/ ~(nextPlanIndex[s][epoch] > 0)
        BY <1>i, <3>2, CursorTypes DEF EpochPending, Executed
      <4> QED BY <2>4, <4>1
    <3> QED BY <3>1, <3>2
  <2>10. Waiting(s)' = IF Executed(s) THEN Waiting(s) ELSE Waiting(s) \cup {p}
    <3>1. CASE Executed(s)
      BY <2>8, <3>1 DEF Waiting
    <3>2. CASE ~Executed(s)
      <4>1. Waiting(s)' = {stockPlans'[s][i] : i \in (nextPlanIndex[s][epoch] + 1)..n}
        BY <2>3, <2>8, <3>2 DEF Waiting, Page, cursor
      <4>2. Waiting(s) = {stockPlans[s][i] : i \in (nextPlanIndex[s][epoch] + 1)..Len(stockPlans[s])}
        BY <3>2 DEF Waiting, Page
      <4> QED BY <2>4, <2>5, <2>9, <3>2, <4>1, <4>2
    <3> QED BY <3>1, <3>2
  <2>11. ASSUME NEW t \in Stocks \ {s} PROVE Waiting(t)' = Waiting(t)
    <3>1. stockPlans'[t] = stockPlans[t] /\ (Executed(t)' <=> Executed(t))
      BY <2>2, <2>8
    <3>2. nextPlanIndex' = nextPlanIndex /\ epoch' = epoch
      BY DEF cursor
    <3> QED BY <3>1, <3>2 DEF Waiting, Page
  <2>12. Executed(s) <=> PhaseOf(s) = "closed"
    BY DEF PhaseOf
  <2>13. {q \in Plans : Willing(q)}' \in SUBSET Plans
    OBVIOUS
  <2> HIDE DEF n
  <2>14. Epochs!Join(s, p)
    BY <2>6, <2>7, <2>8, <2>10, <2>11, <2>12, <2>13 DEF Epochs!Join
  <2> QED BY <2>14
<1> QED BY <1>1, <1>2

(* Unlisting a plan with no page pending lets it leave.                    *)
LEMMA LeaveStep ==
  ASSUME EpochInv, NEW p \in Plans, UnindexPlan(p),
         UNCHANGED <<epoch, owner, stock, lastEpochId>>, UNCHANGED cursor,
         stockPlanIndex[p] = 0 \/ ~EpochPending(stock[p])
  PROVE  \/ stock[p] \in Stocks /\ Epochs!Leave(stock[p], p)
         \/ Epochs!Turn
<1>i. TypeOK /\ IndexConsistent /\ CursorInList
  BY DEF EpochInv, ListInv, Lists
<1>1. CASE stockPlanIndex[p] = 0
  BY <1>1, TurnStep DEF UnindexPlan
<1>2. CASE stockPlanIndex[p] # 0
  <2>1. PICK s \in Stocks : s = stock[p] /\ stockPlanIndex[p] \in 1..Len(stockPlans[s])
    BY <1>i, <1>2 DEF IndexConsistent, Exists, TypeOK, TermsTyped
  <2> DEFINE arr  == stockPlans[s]
             last == arr[Len(arr)]
  <2>2. Len(arr) \in 1..Len(arr) /\ Len(arr) # 0
    BY <1>i, <2>1, CursorTypes
  <2>3. stockPlanIndex[last] # 0 /\ last \in Plans
    BY <1>i, <2>1, <2>2, CursorTypes DEF IndexConsistent
  <2>4. stockPlanIndex' = [stockPlanIndex EXCEPT ![last] = stockPlanIndex[p], ![p] = 0]
    BY <1>2, <2>1 DEF UnindexPlan
  <2>5. \A q \in Plans : stockPlanIndex'[q] # 0 <=> stockPlanIndex[q] # 0 /\ q # p
    <3> HIDE DEF last
    <3> QED BY <1>i, <1>2, <2>3, <2>4 DEF TypeOK, IndexTyped
  <2>6. IndexConsistent' /\ \A t \in Stocks \ {s} : stockPlans'[t] = stockPlans[t]
    BY <1>i, <2>1, UnindexPlanLists
  <2>7. ASSUME NEW t \in Stocks
        PROVE  Listed(t)' = IF t = s THEN Listed(t) \ {p} ELSE Listed(t)
    <3>1. Listed(t) = {q \in Plans : stockPlanIndex[q] # 0 /\ stock[q] = t}
      BY <1>i, ListedPlans
    <3>2. CASE t # s
      BY <2>6, <3>2 DEF Listed
    <3>3. CASE t = s
      <4>1. IndexTyped'
        BY <1>i, UnindexTypes
      <4>2. ASSUME NEW i \in 1..Len(stockPlans'[t])
            PROVE  /\ stockPlans'[t][i] \in Plans /\ i # 0
                   /\ stockPlanIndex'[stockPlans'[t][i]] = i
                   /\ stock[stockPlans'[t][i]] = t
        BY <2>6, <4>1 DEF IndexConsistent, IndexTyped
      <4>3. ASSUME NEW q \in Plans, stockPlanIndex'[q] # 0, stock[q] = t
            PROVE  /\ stockPlanIndex'[q] \in 1..Len(stockPlans'[t])
                   /\ stockPlans'[t][stockPlanIndex'[q]] = q
        BY <2>6, <4>3 DEF IndexConsistent
      <4>4. Listed(t)' = {q \in Plans : stockPlanIndex'[q] # 0 /\ stock[q] = t}
        BY <4>2, <4>3 DEF Listed
      <4> QED BY <2>5, <3>1, <3>3, <4>4
    <3> QED BY <3>2, <3>3
  <2>8. \A t \in Stocks : PhaseOf(t)' = PhaseOf(t) /\ Executed(t)' = Executed(t)
    BY DEF PhaseOf, Executed, EpochPending, cursor
  <2>9. ~EpochPending(s)
    BY <1>2, <2>1
  <2>10. p \in Listed(s)
    BY <1>i, <1>2, <2>1, ListedPlans
  <2> HIDE DEF last, arr
  <2>11. Waiting(s)' = Waiting(s) \ {p}
    <3>1. CASE Executed(s)
      BY <2>1, <2>8, <3>1 DEF Waiting
    <3>2. CASE ~Executed(s)
      <4>1. nextPlanIndex[s][epoch] = 0
        BY <1>i, <2>1, <2>9, <3>2, CursorTypes DEF EpochPending, Executed
      <4>2. Waiting(s) = Listed(s)
        BY <2>1, <3>2, <4>1, FreshWaiting
      <4>3. Waiting(s)' = Listed(s)'
        <5>1. ~Executed(s)' /\ nextPlanIndex'[s][epoch'] = 0
          BY <2>1, <2>8, <3>2, <4>1 DEF cursor
        <5>2. 0 + 1 = 1
          OBVIOUS
        <5> QED BY <5>1, <5>2 DEF Waiting, Listed, Page
      <4> QED BY <2>1, <2>7, <4>2, <4>3
    <3> QED BY <3>1, <3>2
  <2>12. ASSUME NEW t \in Stocks \ {s} PROVE Waiting(t)' = Waiting(t)
    <3>1. stockPlans'[t] = stockPlans[t] /\ (Executed(t)' <=> Executed(t))
      BY <2>6, <2>8
    <3>2. nextPlanIndex' = nextPlanIndex /\ epoch' = epoch
      BY DEF cursor
    <3> QED BY <3>1, <3>2 DEF Waiting, Page
  <2>13. PhaseOf(s) # "open"
    BY <2>9 DEF PhaseOf
  <2>14. {q \in Plans : Willing(q)}' \in SUBSET Plans
    OBVIOUS
  <2>15. Epochs!Leave(s, p)
    BY <2>1, <2>7, <2>8, <2>10, <2>11, <2>12, <2>13, <2>14 DEF Epochs!Leave
  <2> QED BY <2>1, <2>15
<1> QED BY <1>1, <1>2

(* A page moves the cursor, and executes the epoch at the end of the list. *)
LEMMA PageMoves ==
  ASSUME EpochInv, NEW s \in Stocks, NEW end \in Nat, NEW spend,
         PageTo(s, end, spend), EpochDue(s), UNCHANGED <<epoch, stockPlans>>
  PROVE  /\ nextPlanIndex[s][epoch] < end /\ end <= Len(stockPlans[s])
         /\ nextPlanIndex'[s][epoch] = end
         /\ \A t \in Stocks \ {s} : nextPlanIndex'[t] = nextPlanIndex[t]
         /\ \A t \in Stocks \ {s} : lastExecutedEpoch'[t] = lastExecutedEpoch[t]
         /\ ~Executed(s) /\ (Executed(s)' <=> end = Len(stockPlans[s]))
         /\ EpochPending(s)' <=> end # Len(stockPlans[s])
<1>i. TypeOK /\ CursorInList
  BY DEF EpochInv, ListInv, Lists
<1> DEFINE from  == nextPlanIndex[s][epoch]
           len   == Len(stockPlans[s])
<1>2. /\ from \in Nat /\ len \in Nat /\ epoch \in Nat
      /\ lastExecutedEpoch[s] \in Nat /\ epoch \in 0..MaxEpoch
  BY <1>i, CursorTypes
<1>3. /\ end <= len /\ (from < len => from < end)
      /\ FinalizePage(s, end)
  BY DEF PageTo
<1>4. ~Executed(s) /\ len # 0
  BY <1>i, <1>2, CursorTypes DEF EpochDue, Executed
<1>5. from < len
  <2>1. CASE EpochPending(s)
    BY <1>i, <2>1 DEF CursorInList
  <2>2. CASE ~EpochPending(s)
    <3>1. from = 0
      BY <1>2, <1>4, <2>2 DEF EpochPending, Executed
    <3> QED BY <1>2, <1>4, <3>1
  <2> QED BY <2>1, <2>2
<1>6. /\ nextPlanIndex'[s][epoch] = end
      /\ \A t \in Stocks \ {s} : nextPlanIndex'[t] = nextPlanIndex[t]
      /\ \A t \in Stocks \ {s} : lastExecutedEpoch'[t] = lastExecutedEpoch[t]
      /\ lastExecutedEpoch'[s] = IF end = len THEN epoch ELSE lastExecutedEpoch[s]
  <2>1. /\ nextPlanIndex \in [Stocks -> [0..MaxEpoch -> Nat]]
        /\ lastExecutedEpoch \in [Stocks -> 0..MaxEpoch]
    BY <1>i DEF TypeOK, CursorTyped
  <2> QED BY <1>2, <1>3, <2>1 DEF FinalizePage
<1>7. Executed(s)' <=> end = len
  BY <1>2, <1>4, <1>6 DEF Executed
<1>8. EpochPending(s)' <=> end # len
  BY <1>2, <1>3, <1>4, <1>5, <1>6 DEF EpochPending, Executed
<1> QED BY <1>3, <1>4, <1>5, <1>6, <1>7, <1>8

(* A page visits the plans from the cursor to its end.                     *)
LEMMA VisitStep ==
  ASSUME EpochInv, NEW s \in Stocks, NEW limit \in Limits,
         NEW privileged \in BOOLEAN, NEW perk \in Perks, NEW bought \in Bought,
         NEW unspent \in Unspent, NEW pays \in BOOLEAN,
         AdvanceEpoch(s, limit, privileged, perk, bought, unspent, pays)
  PROVE  \E seen \in SUBSET Waiting(s) :
           \E taken \in SUBSET seen : Epochs!Visit(s, seen, taken)
<1>i. TypeOK /\ IndexConsistent /\ CursorInList
  BY DEF EpochInv, ListInv, Lists
<1>1. PICK end \in Nat, spend \in [Plans -> Nat] : PageTo(s, end, spend)
  BY <1>i, PageShape
<1> DEFINE from  == nextPlanIndex[s][epoch]
           len   == Len(stockPlans[s])
           seen  == Page(s, from, end)
           taken == {p \in Plans : spend[p] > 0}
<1>2. /\ from \in Nat /\ len \in Nat /\ epoch \in Nat
  BY <1>i, CursorTypes
<1>3. /\ \A p \in Plans : Charged(p, spend)
      /\ \A p \in taken : p \in seen /\ lastEpochId[p] # epoch
      /\ \A p \in Plans : p \in seen /\ stock[p] = s /\ Willing(p) => p \in taken
  BY <1>1 DEF PageTo
<1>4. UNCHANGED <<epoch, stockPlans>> /\ EpochDue(s)
  BY DEF AdvanceEpoch, chain, index
<1>5. /\ from < end /\ end <= len /\ ~Executed(s)
      /\ nextPlanIndex'[s][epoch] = end
      /\ \A t \in Stocks \ {s} : nextPlanIndex'[t] = nextPlanIndex[t]
      /\ \A t \in Stocks \ {s} : lastExecutedEpoch'[t] = lastExecutedEpoch[t]
      /\ Executed(s)' <=> end = len
      /\ EpochPending(s)' <=> end # len
  BY <1>1, <1>4, PageMoves
<1>6. \A i \in 1..len : /\ stockPlans[s][i] \in Plans /\ stock[stockPlans[s][i]] = s
                       /\ stockPlanIndex[stockPlans[s][i]] = i
  BY <1>i, CursorTypes DEF IndexConsistent
<1>7. Waiting(s) = Page(s, from, len)
  BY <1>5 DEF Waiting
<1> HIDE DEF taken
<1>8. seen \subseteq Waiting(s) /\ seen # {} /\ seen \subseteq Plans
  <2>1. (from + 1)..end \subseteq (from + 1)..len /\ (from + 1)..len \subseteq 1..len
    BY <1>2, <1>5
  <2>2. from + 1 \in (from + 1)..end
    BY <1>2, <1>5
  <2> HIDE DEF from, len
  <2> QED BY <1>6, <1>7, <2>1, <2>2 DEF Page
<1>9. Waiting(s)' = Waiting(s) \ seen
  <2>1. CASE end = len
    BY <1>7, <1>5, <2>1 DEF Waiting
  <2>2. CASE end # len
    <3>1. Waiting(s)' = {stockPlans[s][i] : i \in (end + 1)..len}
      BY <1>4, <1>5, <2>2 DEF Waiting, Page
    <3>2. ASSUME NEW i \in (end + 1)..len
          PROVE  stockPlans[s][i] \in Page(s, from, len) \ seen
      <4>1. i \in (from + 1)..len /\ i \in 1..len
        BY <1>2, <1>5
      <4>2. ASSUME NEW j \in (from + 1)..end
            PROVE  stockPlans[s][j] # stockPlans[s][i]
        <5>1. j \in 1..len /\ i # j
          BY <1>2, <1>5
        <5> QED BY <1>6, <4>1, <5>1
      <4> HIDE DEF from, len
      <4> QED BY <4>1, <4>2 DEF Page
    <3>3. ASSUME NEW i \in (from + 1)..len, stockPlans[s][i] \notin seen
          PROVE  i \in (end + 1)..len
      <4>1. i \notin (from + 1)..end
        BY <3>3 DEF Page
      <4> QED BY <1>2, <1>5, <4>1
    <3>4. Page(s, from, len) = {stockPlans[s][i] : i \in (from + 1)..len}
      BY DEF Page
    <3> HIDE DEF seen, from, len
    <3> QED BY <1>7, <3>1, <3>2, <3>3, <3>4
  <2> QED BY <2>1, <2>2
<1>10. Waiting(s) = seen <=> end = len
  <2>1. CASE end = len
    BY <1>7, <2>1
  <2>2. CASE end # len
    <3>1. len \in (from + 1)..len /\ len \in 1..len /\ len \notin (from + 1)..end
      BY <1>2, <1>5, <2>2
    <3>2. stockPlans[s][len] \in Waiting(s)
      BY <1>7, <3>1 DEF Page
    <3>3. ASSUME NEW j \in (from + 1)..end
          PROVE  stockPlans[s][j] # stockPlans[s][len]
      <4>1. j \in 1..len /\ j # len
        BY <1>2, <1>5, <3>1
      <4> QED BY <1>6, <3>1, <4>1
    <3>4. stockPlans[s][len] \notin seen
      BY <3>3 DEF Page
    <3> QED BY <2>2, <3>2, <3>4
  <2> QED BY <2>1, <2>2
<1>11. PhaseOf(s)' = IF Waiting(s) = seen THEN "closed" ELSE "open"
  <2>1. CASE end = len
    BY <1>5, <1>10, <2>1 DEF PhaseOf
  <2>2. CASE end # len
    BY <1>5, <1>10, <2>2 DEF PhaseOf
  <2> QED BY <2>1, <2>2
<1>12. ASSUME NEW t \in Stocks \ {s}
       PROVE  PhaseOf(t)' = PhaseOf(t) /\ Waiting(t)' = Waiting(t)
  BY <1>4, <1>5 DEF PhaseOf, Waiting, Page, Executed, EpochPending
<1>13. \A t \in Stocks : Listed(t)' = Listed(t)
  BY <1>4 DEF Listed
<1> DEFINE done == {p \in Plans : lastEpochId[p] = epoch}
<1>14. {p \in Plans : lastEpochId'[p] = epoch'} = done \cup taken
  <2>1. ASSUME NEW p \in Plans
        PROVE  lastEpochId'[p] = epoch' <=> lastEpochId[p] = epoch \/ p \in taken
    <3>1. spend[p] \in Nat
      OBVIOUS
    <3>2. spend[p] = 0 \/ spend[p] > 0
      BY <3>1
    <3> QED BY <1>3, <1>4, <3>1, <3>2 DEF Charged, taken
  <2>2. taken \subseteq Plans
    BY DEF taken
  <2> QED BY <2>1, <2>2
<1>15. taken \subseteq seen /\ taken \cap done = {}
  BY <1>3
<1>16. {p \in Plans : Willing(p)} \cap seen \subseteq taken
  <2>1. ASSUME NEW p \in seen PROVE stock[p] = s
    <3>1. PICK i \in (from + 1)..end : p = stockPlans[s][i]
      BY DEF Page
    <3>2. i \in 1..len
      BY <1>2, <1>5
    <3> QED BY <1>6, <3>1, <3>2
  <2> HIDE DEF seen
  <2> QED BY <1>3, <2>1
<1>17. {p \in Plans : Willing(p)}' \in SUBSET Plans
  OBVIOUS
<1> HIDE DEF seen, from, len
<1>18. Epochs!Visit(s, seen, taken)
  BY <1>8, <1>9, <1>11, <1>12, <1>13, <1>14, <1>15, <1>16, <1>17 DEF Epochs!Visit
<1> QED BY <1>8, <1>15, <1>18

(* The clock starts the next epoch of every stock.                         *)
LEMMA NextEpochStep ==
  ASSUME EpochInv, EpochPasses
  PROVE  Epochs!NextEpoch
<1>i. TypeOK /\ FutureUntouched /\ ExecutedPast
  BY DEF EpochInv, ListInv, Lists
<1>1. /\ epoch' = epoch + 1 /\ epoch \in Nat /\ epoch + 1 \in 0..MaxEpoch
      /\ epoch + 1 > epoch
  BY <1>i, ConstantTypes DEF EpochPasses, TypeOK, ChainTyped
<1>2. UNCHANGED <<stockPlans, nextPlanIndex, lastExecutedEpoch, lastEpochId>>
  BY DEF EpochPasses, state, index, cursor, flags
<1>3. ASSUME NEW s \in Stocks
      PROVE  /\ ~Executed(s)' /\ nextPlanIndex'[s][epoch'] = 0
             /\ Listed(s)' = Listed(s)
  <2>1. lastExecutedEpoch[s] \in Nat /\ lastExecutedEpoch[s] <= epoch
    BY <1>i, CursorTypes DEF ExecutedPast
  <2>2. ~Executed(s)'
    BY <1>1, <1>2, <2>1 DEF Executed
  <2>3. nextPlanIndex'[s][epoch'] = 0
    BY <1>i, <1>1, <1>2 DEF FutureUntouched
  <2> QED BY <1>2, <2>2, <2>3 DEF Listed
<1>4. \A s \in Stocks : PhaseOf(s)' = "fresh"
  BY <1>3 DEF PhaseOf, EpochPending
<1>5. ASSUME NEW s \in Stocks PROVE Waiting(s)' = Listed(s)
  <2>1. 0 + 1 = 1
    OBVIOUS
  <2>2. Waiting(s)' = Listed(s)'
    BY <1>3, <2>1 DEF Waiting, Listed, Page
  <2> QED BY <1>3, <2>2
<1>6. {p \in Plans : lastEpochId'[p] = epoch'} = {}
  <2>1. ASSUME NEW p \in Plans PROVE lastEpochId'[p] # epoch'
    <3>1. lastEpochId[p] \in Nat /\ lastEpochId[p] <= epoch
      BY <1>i, ConstantTypes DEF FutureUntouched, TypeOK, FlagsTyped
    <3> QED BY <1>1, <1>2, <3>1
  <2> QED BY <2>1
<1>7. {p \in Plans : Willing(p)}' \in SUBSET Plans
  OBVIOUS
<1> QED BY <1>3, <1>4, <1>5, <1>6, <1>7 DEF Epochs!NextEpoch

LEMMA PlanCallRefines ==
  ASSUME EpochInv, NEW p \in Plans, PlanCall(p)
  PROVE  Epochs!Next
<1>i. TypeOK /\ Lists /\ IndexConsistent
  BY DEF EpochInv, ListInv, Lists
<1>1. ASSUME NEW u \in Users, NEW s \in Stocks, NEW a, NEW to, NEW g, NEW z1,
             NEW z2, NEW lends, CreatePlan(u, p, s, a, to, g, z1, z2, lends)
      PROVE  Epochs!Next
  <2>1. stockPlanIndex[p] = 0
    BY <1>1, <1>i DEF CreatePlan, IndexConsistent, Exists
  <2>2. /\ owner' = [owner EXCEPT ![p] = u] /\ stock' = [stock EXCEPT ![p] = s]
        /\ IndexPlan(p, s) /\ UNCHANGED cursor
        /\ UNCHANGED <<epoch, lastEpochId>>
    BY <1>1 DEF CreatePlan, chain
  <2>3. /\ owner'[p] # None /\ stock'[p] = s
        /\ \A q \in Plans \ {p} : owner'[q] = owner[q] /\ stock'[q] = stock[q]
    BY <2>2, <1>i, ConstantTypes DEF TypeOK, TermsTyped
  <2> QED BY <2>1, <2>2, <2>3, JoinStep DEF Epochs!Next
<1>2. ASSUME NEW c, Fund(p, c) PROVE Epochs!Next
  <2>1. /\ owner[p] # None /\ stock[p] \in Stocks
        /\ UNCHANGED <<owner, stock, epoch, lastEpochId>>
        /\ IndexPlan(p, stock[p]) /\ UNCHANGED cursor
    BY <1>2, <1>i DEF Fund, Exists, TypeOK, TermsTyped, terms, flags, chain
  <2> QED BY <2>1, JoinStep DEF Epochs!Next
<1>3. ASSUME NEW perk \in Perks, ClosePlan(p, perk) PROVE Epochs!Next
  <2>1. UNCHANGED <<owner, stock, epoch, lastEpochId>> /\ UNCHANGED cursor
    BY <1>3 DEF ClosePlan, terms, chain
  <2>2. \/ UNCHANGED index
        \/ UnindexPlan(p) /\ (stockPlanIndex[p] = 0 \/ ~EpochPending(stock[p]))
    BY <1>3 DEF ClosePlan, Parks
  <2> QED BY <2>1, <2>2, LeaveStep, TurnStep DEF Epochs!Next
<1>4. ASSUME PrunePlan(p) PROVE Epochs!Next
  <2>1. UNCHANGED <<owner, stock, epoch, lastEpochId>> /\ UNCHANGED cursor
        /\ UnindexPlan(p) /\ ~EpochPending(stock[p])
    BY <1>4 DEF PrunePlan, terms, chain, flags
  <2> QED BY <2>1, LeaveStep DEF Epochs!Next
<1>5. ASSUME \/ \E b \in BOOLEAN : SetPlanPaused(p, b)
             \/ \E a \in AmountsPerEpoch : SetPlanAmount(p, a)
             \/ \E u \in Users : SetPlanRecipient(p, u)
             \/ Boost(p)
             \/ Unboost(p)
             \/ \E a \in 1..Supply : WithdrawIdle(p, a)
             \/ \E a \in 1..Supply, perk \in Perks : Claim(p, a, perk)
      PROVE  Epochs!Next
  <2>1. UNCHANGED <<epoch, lastEpochId>> /\ UNCHANGED index /\ UNCHANGED cursor
    BY <1>5 DEF SetPlanPaused, SetPlanAmount, SetPlanRecipient, Boost, Unboost,
                WithdrawIdle, Claim, chain, flags
  <2> QED BY <2>1, TurnStep DEF Epochs!Next
<1> QED BY <1>1, <1>2, <1>3, <1>4, <1>5 DEF PlanCall, DepositUSDG, DepositWETH

LEMMA NextRefines ==
  ASSUME EpochInv, [Next]_vars
  PROVE  [Epochs!Next]_(Epochs!vars)
<1>1. ASSUME NEW p \in Plans, PlanCall(p) PROVE Epochs!Next
  BY <1>1, PlanCallRefines
<1>2. ASSUME NEW s \in Stocks, KeeperCall(s) PROVE Epochs!Next
  <2>1. \E seen \in SUBSET Waiting(s) :
          \E taken \in SUBSET seen : Epochs!Visit(s, seen, taken)
    BY <1>2, VisitStep DEF KeeperCall
  <2> QED BY <2>1 DEF Epochs!Next
<1>3. ASSUME EpochPasses PROVE Epochs!Next
  BY <1>3, NextEpochStep DEF Epochs!Next
<1>4. ASSUME UNCHANGED <<epoch, lastEpochId>>, UNCHANGED index, UNCHANGED cursor
      PROVE  Epochs!Next
  BY <1>4, TurnStep DEF Epochs!Next
<1>5. ASSUME \/ AdminCall \/ Environment \/ UNCHANGED vars
             \/ \E u \in Users, s \in Stocks, perk \in Perks : ClaimAll(u, s, perk)
      PROVE  EpochPasses \/ UNCHANGED <<epoch, lastEpochId>>
  <2>1. ASSUME AdminCall PROVE UNCHANGED <<epoch, lastEpochId>>
    BY <2>1 DEF AdminCall, SweepDust, SkimUsdg, SkimWeth, SkimStock,
       SetBoostStrategy, SetVaultPaused, SetFees, SetFeeRecipient, SetKnobs, chain, flags, state
  <2>2. ASSUME Environment
        PROVE  EpochPasses \/ UNCHANGED <<epoch, lastEpochId>>
    BY <2>2 DEF Environment, SetPurchasable, MarketTurns, StrategyGains,
       StrategyLoses, GiveUsdg, GiveWeth, GiveStock, chain, flags, state
  <2>3. ASSUME NEW u \in Users, NEW s \in Stocks,
               NEW perk \in Perks, ClaimAll(u, s, perk)
        PROVE  UNCHANGED <<epoch, lastEpochId>>
    BY <2>3 DEF ClaimAll, chain, flags
  <2>4. ASSUME UNCHANGED vars PROVE UNCHANGED <<epoch, lastEpochId>>
    BY <2>4 DEF vars, chain, flags
  <2> QED BY <1>5, <2>1, <2>2, <2>3, <2>4
<1>6. Epochs!Next
  BY <1>1, <1>2, <1>3, <1>4, <1>5, OtherStepsKeepLists DEF Next
<1> QED BY <1>6

(* The vault implements PlanEpoch: whatever is called between the pages of *)
(* an epoch, every listed plan is visited once before the epoch is         *)
(* executed, charged at most once, and charged if it can pay.              *)
THEOREM EpochsAreKept == Spec => ImplementsPlanEpoch
<1>1. EpochInv /\ [Next]_vars => [Epochs!Next]_(Epochs!vars)
  BY NextRefines
<1> QED BY <1>1, ConcreteInit, EpochsInvariant, PTL
        DEF Spec, Epochs!Spec, ImplementsPlanEpoch

(* A page moves the cursor over at least one plan, and executes the epoch  *)
(* exactly when it reaches the end of the list.                            *)
PagesProgress ==
  [][\A s \in Stocks : KeeperCall(s) =>
       /\ nextPlanIndex[s][epoch] < nextPlanIndex'[s][epoch]
       /\ nextPlanIndex'[s][epoch] <= Len(stockPlans[s])
       /\ Executed(s)' <=> nextPlanIndex'[s][epoch] = Len(stockPlans[s])]_vars

(* No page, whatever its limit, the cap and the plans in it, leaves the    *)
(* epoch where it was: the step by which DueEpochsEnd comes about.         *)
THEOREM EveryPageProgresses == Spec => PagesProgress
<1>1. ASSUME EpochInv, NEW s \in Stocks, KeeperCall(s)
      PROVE  /\ nextPlanIndex[s][epoch] < nextPlanIndex'[s][epoch]
             /\ nextPlanIndex'[s][epoch] <= Len(stockPlans[s])
             /\ Executed(s)' <=> nextPlanIndex'[s][epoch] = Len(stockPlans[s])
  <2>1. PICK end \in Nat, spend \in [Plans -> Nat] : PageTo(s, end, spend)
    BY <1>1, PageShape DEF KeeperCall, EpochInv, ListInv
  <2>2. EpochDue(s) /\ UNCHANGED <<epoch, stockPlans>>
    BY <1>1 DEF KeeperCall, AdvanceEpoch, chain, index
  <2> QED BY <1>1, <2>1, <2>2, PageMoves
<1>2. EpochInv /\ [Next]_vars =>
        [\A s \in Stocks : KeeperCall(s) =>
           /\ nextPlanIndex[s][epoch] < nextPlanIndex'[s][epoch]
           /\ nextPlanIndex'[s][epoch] <= Len(stockPlans[s])
           /\ Executed(s)' <=> nextPlanIndex'[s][epoch] = Len(stockPlans[s])]_vars
  BY <1>1
<1> QED BY <1>2, EpochsInvariant, PTL DEF Spec, PagesProgress

LEMMA WaitingAreListed ==
  ASSUME EpochInv, NEW s \in Stocks
  PROVE  Waiting(s) \subseteq Listed(s)
<1>1. /\ nextPlanIndex[s][epoch] \in Nat /\ Len(stockPlans[s]) \in Nat
  BY CursorTypes DEF EpochInv, ListInv
<1>2. (nextPlanIndex[s][epoch] + 1)..Len(stockPlans[s]) \subseteq 1..Len(stockPlans[s])
  BY <1>1
<1> QED BY <1>2 DEF Waiting, Listed, Page

(* A plan stops waiting only by leaving the list or by a visit, and a      *)
(* visit charges it if it is willing.                                      *)
NobodyPassedOver ==
  [][\A s \in Stocks : \A p \in Waiting(s) :
       \/ p \in Waiting(s)'
       \/ p \notin Listed(s)'
       \/ Willing(p) => lastEpochId'[p] = epoch']_vars

(* What PlanEpoch promises, carried back to the vault: between the start   *)
(* of an epoch and its last page no listed plan that can pay is lost,      *)
(* however the list is permuted and the pages are cut.                     *)
THEOREM NobodyIsPassedOver == Spec => NobodyPassedOver
<1>1. ASSUME EpochInv, [Next]_vars, NEW s \in Stocks, NEW p \in Waiting(s),
             p \notin Waiting(s)', p \in Listed(s)', Willing(p)
      PROVE  lastEpochId'[p] = epoch'
  <2>1. p \in Plans /\ p \in Listed(s)
    BY <1>1, WaitingAreListed, ListedPlans DEF EpochInv, ListInv, Lists
  <2>2. [Epochs!Next]_(Epochs!vars)
    BY <1>1, NextRefines
  <2>3. ASSUME NEW t \in Stocks, NEW q \in Plans, Epochs!Join(t, q) PROVE FALSE
    BY <1>1, <2>3 DEF Epochs!Join
  <2>4. ASSUME NEW t \in Stocks, NEW q \in Plans, Epochs!Leave(t, q)
        PROVE  FALSE
    BY <1>1, <2>4 DEF Epochs!Leave
  <2>5. ASSUME NEW t \in Stocks, NEW seen \in SUBSET Waiting(t),
               NEW taken \in SUBSET seen, Epochs!Visit(t, seen, taken)
        PROVE  lastEpochId'[p] = epoch'
    <3>1. p \in seen
      BY <1>1, <2>5 DEF Epochs!Visit
    <3>2. p \in taken
      BY <1>1, <2>1, <2>5, <3>1 DEF Epochs!Visit
    <3> QED BY <2>1, <2>5, <3>2 DEF Epochs!Visit
  <2>6. CASE Epochs!NextEpoch
    BY <1>1, <2>1, <2>6 DEF Epochs!NextEpoch
  <2>7. CASE Epochs!Turn \/ UNCHANGED Epochs!vars
    BY <1>1, <2>7 DEF Epochs!Turn, Epochs!vars
  <2> QED BY <2>2, <2>3, <2>4, <2>5, <2>6, <2>7 DEF Epochs!Next
<1>2. EpochInv /\ [Next]_vars =>
        [\A s \in Stocks : \A p \in Waiting(s) :
           \/ p \in Waiting(s)'
           \/ p \notin Listed(s)'
           \/ Willing(p) => lastEpochId'[p] = epoch']_vars
  BY <1>1
<1> QED BY <1>2, EpochsInvariant, PTL DEF Spec, NobodyPassedOver

-----------------------------------------------------------------------------
(* Whose steps change what of a plan.                                      *)

Settings(p) == <<owner[p], stock[p], amountPerEpoch[p], recipient[p],
                 planPaused[p], boosted[p]>>

Holdings(p) == <<usdgIdle[p], boostShares[p], stockAccrued[p],
                 lastEpochId[p]>>

IsListed(p) == stockPlanIndex[p] # 0

(* What a step leaves alone of a plan that is none of its business.        *)
Spared(q) == /\ UNCHANGED Settings(q)
             /\ UNCHANGED Holdings(q)
             /\ IsListed(q)' <=> IsListed(q)

(* The plan that fills the gap in the list moves, but stays listed.        *)
LEMMA UnindexSpares ==
  ASSUME TypeOK, IndexConsistent, NEW p \in Plans, UnindexPlan(p)
  PROVE  /\ ~IsListed(p)'
         /\ \A q \in Plans \ {p} : IsListed(q)' <=> IsListed(q)
<1>1. CASE stockPlanIndex[p] = 0
  BY <1>1 DEF UnindexPlan, index, IsListed
<1>2. CASE stockPlanIndex[p] # 0
  <2>1. PICK s \in Stocks : s = stock[p] /\ stockPlanIndex[p] \in 1..Len(stockPlans[s])
    BY <1>2 DEF IndexConsistent, Exists, TypeOK, TermsTyped
  <2> DEFINE arr  == stockPlans[s]
             last == arr[Len(arr)]
  <2>2. Len(arr) \in 1..Len(arr) /\ Len(arr) # 0
    BY <2>1, CursorTypes
  <2>3. stockPlanIndex[last] # 0 /\ last \in Plans
    BY <2>1, <2>2, CursorTypes DEF IndexConsistent
  <2>4. stockPlanIndex' = [stockPlanIndex EXCEPT ![last] = stockPlanIndex[p], ![p] = 0]
    BY <1>2, <2>1 DEF UnindexPlan
  <2> HIDE DEF last
  <2> QED BY <1>2, <2>3, <2>4 DEF TypeOK, IndexTyped, IsListed
<1> QED BY <1>1, <1>2

LEMMA LeavePoolSpares ==
  ASSUME TypeOK, NEW p \in Plans, LeavePool(p), NEW q \in Plans \ {p}
  PROVE  boostShares'[q] = boostShares[q] /\ boosted'[q] = boosted[q]
<1>1. boosted'[q] = boosted[q]
  BY DEF LeavePool, TypeOK, FlagsTyped
<1>2. CASE boostShares[p] > 0
  BY <1>2 DEF LeavePool, TakeFromPool, TypeOK, PoolTyped
<1>3. CASE ~(boostShares[p] > 0)
  BY <1>3 DEF LeavePool, pool
<1> QED BY <1>1, <1>2, <1>3

LEMMA PayStockSpares ==
  ASSUME TypeOK, NEW s, NEW p \in Plans, NEW a \in Nat, NEW perk,
         PayStock(s, Only(p, a), perk), NEW q \in Plans \ {p}
  PROVE  stockAccrued'[q] = stockAccrued[q]
<1>1. stockAccrued'[q] = stockAccrued[q] - Only(p, a)[q]
  BY OnlyType, PayStockLowers
<1>2. Only(p, a)[q] = 0 /\ stockAccrued[q] \in Nat
  BY DEF Only, TypeOK, AccruedTyped
<1> QED BY <1>1, <1>2

(* A call for one plan - its owner's, a depositor's, anybody's prune -     *)
(* leaves every other plan alone, whose place in the list may change.      *)
LEMMA PlanCallSpares ==
  ASSUME TypeOK, IndexConsistent, NEW p \in Plans, PlanCall(p),
         NEW q \in Plans \ {p}
  PROVE  Spared(q) /\ UNCHANGED chain /\ UNCHANGED cursor
<1> USE DEF Spared, Settings, Holdings, IsListed
<1>t. /\ owner \in [Plans -> Users \cup {None}]
      /\ stock \in [Plans -> Stocks \cup {None}]
      /\ amountPerEpoch \in [Plans -> Nat]
      /\ recipient \in [Plans -> Users \cup {None}]
      /\ planPaused \in [Plans -> BOOLEAN]
      /\ boosted \in [Plans -> BOOLEAN]
      /\ usdgIdle \in [Plans -> Nat]
      /\ boostShares \in [Plans -> Nat]
      /\ stockPlanIndex \in [Plans -> Nat]
  BY ConstantTypes
  DEF TypeOK, TermsTyped, FlagsTyped, IdleTyped, PoolTyped, IndexTyped
<1>i. ASSUME NEW s, IndexPlan(p, s) PROVE IsListed(q)' <=> IsListed(q)
  BY <1>i, <1>t DEF IndexPlan, index
<1>1. ASSUME NEW u \in Users, NEW t \in Stocks, NEW a, NEW to, NEW g, NEW z1,
             NEW z2, NEW lends \in BOOLEAN,
             CreatePlan(u, p, t, a, to, g, z1, z2, lends)
      PROVE  Spared(q) /\ UNCHANGED chain /\ UNCHANGED cursor
  <2>1. /\ owner' = [owner EXCEPT ![p] = u]
        /\ recipient' = [recipient EXCEPT ![p] = IF to = None THEN u ELSE to]
        /\ stock' = [stock EXCEPT ![p] = t]
        /\ amountPerEpoch' = [amountPerEpoch EXCEPT ![p] = a]
        /\ boosted' = [boosted EXCEPT ![p] = lends]
        /\ IndexPlan(p, t)
        /\ UNCHANGED <<chain, planPaused, lastEpochId>>
        /\ UNCHANGED cursor /\ UNCHANGED accrued
    BY <1>1 DEF CreatePlan
  <2>2. usdgIdle'[q] = usdgIdle[q] /\ boostShares'[q] = boostShares[q]
    BY <1>1, CreditSpares DEF CreatePlan
  <2> QED BY <1>t, <1>i, <2>1, <2>2 DEF accrued
<1>2. ASSUME NEW c, Fund(p, c)
      PROVE  Spared(q) /\ UNCHANGED chain /\ UNCHANGED cursor
  <2>1. /\ IndexPlan(p, stock[p])
        /\ UNCHANGED chain /\ UNCHANGED terms /\ UNCHANGED flags
        /\ UNCHANGED cursor /\ UNCHANGED accrued
    BY <1>2 DEF Fund
  <2>2. usdgIdle'[q] = usdgIdle[q] /\ boostShares'[q] = boostShares[q]
    BY <1>t, <1>2, CreditSpares DEF Fund
  <2> QED BY <1>i, <2>1, <2>2 DEF terms, flags, accrued
<1>3. ASSUME \/ \E b \in BOOLEAN : SetPlanPaused(p, b)
             \/ \E a \in AmountsPerEpoch : SetPlanAmount(p, a)
             \/ \E u \in Users : SetPlanRecipient(p, u)
      PROVE  Spared(q) /\ UNCHANGED chain /\ UNCHANGED cursor
  BY <1>3, <1>t
  DEF SetPlanPaused, SetPlanAmount, SetPlanRecipient, terms, flags, index,
      idle, accrued, pool
<1>4. ASSUME Boost(p)
      PROVE  Spared(q) /\ UNCHANGED chain /\ UNCHANGED cursor
  <2>1. usdgIdle'[q] = usdgIdle[q] /\ boostShares'[q] = boostShares[q]
    BY <1>4, <1>t, BoostBooks
  <2> QED BY <1>4, <1>t, <2>1 DEF Boost, terms, index, accrued
<1>5. ASSUME Unboost(p)
      PROVE  Spared(q) /\ UNCHANGED chain /\ UNCHANGED cursor
  <2>1. boostShares'[q] = boostShares[q] /\ boosted'[q] = boosted[q]
    BY <1>5, LeavePoolSpares DEF Unboost
  <2> QED BY <1>5, <1>t, <2>1 DEF Unboost, CreditIdle, terms, index, accrued
<1>6. ASSUME NEW a, WithdrawIdle(p, a)
      PROVE  Spared(q) /\ UNCHANGED chain /\ UNCHANGED cursor
  <2>1. boostShares'[q] = boostShares[q]
    BY <1>6, <1>t DEF WithdrawIdle, TakeFromPool, pool
  <2>2. usdgIdle'[q] = usdgIdle[q]
    BY <1>6, <1>t DEF WithdrawIdle, DebitIdle
  <2> QED BY <1>6, <2>1, <2>2 DEF WithdrawIdle, terms, flags, index, accrued
<1>7. ASSUME NEW a \in 1..Supply, NEW perk \in Perks, Claim(p, a, perk)
      PROVE  Spared(q) /\ UNCHANGED chain /\ UNCHANGED cursor
  <2>1. stockAccrued'[q] = stockAccrued[q]
    BY <1>7, ConstantTypes, PayStockSpares DEF Claim
  <2> QED BY <1>7, <2>1 DEF Claim, terms, flags, index, idle, pool
<1>8. ASSUME NEW perk \in Perks, ClosePlan(p, perk)
      PROVE  Spared(q) /\ UNCHANGED chain /\ UNCHANGED cursor
  <2>1. stockAccrued[p] \in Nat
    BY DEF TypeOK, AccruedTyped
  <2>2. stockAccrued'[q] = stockAccrued[q]
    BY <1>8, <2>1, PayStockSpares DEF ClosePlan
  <2>3. boostShares'[q] = boostShares[q] /\ boosted'[q] = boosted[q]
    BY <1>8, LeavePoolSpares DEF ClosePlan
  <2>4. usdgIdle'[q] = usdgIdle[q] /\ planPaused'[q] = planPaused[q]
    BY <1>8, <1>t DEF ClosePlan, DebitIdle
  <2>5. IsListed(q)' <=> IsListed(q)
    BY <1>8, UnindexSpares DEF ClosePlan, index
  <2> QED BY <1>8, <2>2, <2>3, <2>4, <2>5 DEF ClosePlan, terms
<1>9. ASSUME PrunePlan(p)
      PROVE  Spared(q) /\ UNCHANGED chain /\ UNCHANGED cursor
  <2>1. IsListed(q)' <=> IsListed(q)
    BY <1>9, UnindexSpares DEF PrunePlan
  <2> QED BY <1>9, <2>1 DEF PrunePlan, terms, flags, idle, accrued, pool
<1> QED BY <1>1, <1>2, <1>3, <1>4, <1>5, <1>6, <1>7, <1>8, <1>9
        DEF PlanCall, DepositUSDG, DepositWETH

(* A page that buys only adds to what its plans have accrued.              *)
LEMMA BuyPageKeepsStock ==
  ASSUME TypeOK, NEW s \in Stocks, NEW spend \in [Plans -> Nat], NEW perk,
         NEW bought \in Nat, NEW unspent \in Nat,
         BuyPage(s, spend, perk, bought, unspent), NEW p \in Plans
  PROVE  stockAccrued'[p] >= stockAccrued[p]
<1> DEFINE fee     == [q \in Plans |-> PurchaseFee(q, perk, spend[q])]
           net     == [q \in Plans |-> spend[q] - fee[q]]
           pot     == bought + dustPot[s]
           share   == ProRata(pot, net)
           kept    == [q \in Plans |-> IF /\ Exists(q) /\ perk[owner[q]].auto
                                         /\ <<s, recipient[q]>> \notin Refused
                                      THEN 0 ELSE share[q]]
<1>1. /\ Total(net) > 0
      /\ stockAccrued' = [q \in Plans |-> stockAccrued[q] + kept[q]]
  BY DEF BuyPage
<1>2. net \in [Plans -> Nat]
  <2>1. ASSUME NEW q \in Plans PROVE fee[q] \in 0..spend[q]
    BY PurchaseFeeType
  <2> QED BY <2>1
<1>3. pot \in Nat
  BY DEF TypeOK, ResidueTyped
<1> HIDE DEF fee, net, pot
<1>4. share \in [Plans -> Nat]
  BY <1>1, <1>2, <1>3, ProRataType
<1> HIDE DEF share
<1>5. kept[p] \in Nat
  BY <1>4
<1> HIDE DEF kept
<1>6. stockAccrued[p] \in Nat
  BY DEF TypeOK, AccruedTyped
<1> QED BY <1>1, <1>5, <1>6

(* A page changes what a plan holds only when it visits the plan, once in  *)
(* an epoch and never while the plan is paused.                            *)
LEMMA PageVisits ==
  ASSUME EpochInv, NEW s \in Stocks, KeeperCall(s), NEW p \in Plans,
         ~UNCHANGED Holdings(p)
  PROVE  /\ stock[p] = s /\ IsListed(p)
         /\ p \in Waiting(s) /\ p \notin Waiting(s)'
         /\ ~planPaused[p] /\ lastEpochId[p] # epoch
         /\ usdgIdle[p] > 0 \/ boostShares[p] > 0
         /\ stockAccrued[p] > 0 => stockAccrued'[p] > 0
<1>i. TypeOK /\ IndexConsistent
  BY DEF EpochInv, ListInv, Lists
<1>1. PICK limit \in Limits, privileged \in BOOLEAN, perk \in Perks,
           bought \in Bought, unspent \in Unspent, pays \in BOOLEAN :
        AdvanceEpoch(s, limit, privileged, perk, bought, unspent, pays)
  BY DEF KeeperCall
<1>2. PICK end \in Nat, spend \in [Plans -> Nat] :
        /\ PageTo(s, end, spend)
        /\ SkipPage(spend) \/ BuyPage(s, spend, perk, bought, unspent)
  BY <1>i, <1>1, PageShape
<1>3. spend[p] > 0
  <2>1. spend[p] # 0
    BY <1>2 DEF PageTo, Charged, Holdings
  <2> QED BY <2>1
<1>4. /\ lastEpochId'[p] = epoch /\ lastEpochId[p] # epoch /\ ~planPaused[p]
      /\ spend[p] <= Available(p)
  BY <1>2, <1>3 DEF PageTo, Charged
<1>a. PICK seen \in SUBSET Waiting(s) :
        \E taken \in SUBSET seen : Epochs!Visit(s, seen, taken)
  BY <1>1, VisitStep
<1>5. PICK taken \in SUBSET seen : Epochs!Visit(s, seen, taken)
  BY <1>a
<1>6. p \in taken
  <2>1. epoch' = epoch
    BY <1>1 DEF AdvanceEpoch, chain
  <2>2. p \in {q \in Plans : lastEpochId'[q] = epoch'}
    BY <1>4, <2>1
  <2>3. {q \in Plans : lastEpochId'[q] = epoch'}
          = {q \in Plans : lastEpochId[q] = epoch} \cup taken
    BY <1>5 DEF Epochs!Visit
  <2> QED BY <1>4, <2>2, <2>3
<1>7. p \in Waiting(s) /\ p \notin Waiting(s)'
  BY <1>5, <1>6 DEF Epochs!Visit
<1>8. stock[p] = s /\ IsListed(p)
  BY <1>i, <1>7, WaitingAreListed, ListedPlans DEF IsListed
<1>9. usdgIdle[p] > 0 \/ boostShares[p] > 0
  <2>1. usdgIdle[p] \in Nat /\ boostShares[p] \in Nat
    BY <1>i, ConstantTypes DEF TypeOK, IdleTyped, PoolTyped
  <2>2. ASSUME usdgIdle[p] = 0, boostShares[p] = 0 PROVE FALSE
    <3>1. Available(p) = 0
      BY <1>i, <2>2, NothingForNothing DEF Available
    <3> QED BY <1>3, <1>4, <3>1
  <2> QED BY <2>1, <2>2
<1>10. stockAccrued[p] > 0 => stockAccrued'[p] > 0
  <2>1. stockAccrued[p] \in Nat
    BY <1>i DEF TypeOK, AccruedTyped
  <2>2. stockAccrued'[p] \in Nat
    BY <1>i, <1>1, AdvanceEpochTypes DEF TypeOK, AccruedTyped
  <2>3. CASE SkipPage(spend)
    BY <2>3 DEF SkipPage, accrued
  <2>4. CASE BuyPage(s, spend, perk, bought, unspent)
    <3>1. bought \in Nat /\ unspent \in Nat
      BY ConstantTypes
    <3>2. stockAccrued'[p] >= stockAccrued[p]
      BY <1>i, <2>4, <3>1, BuyPageKeepsStock
    <3> QED BY <2>1, <2>2, <3>2
  <2> QED BY <1>2, <2>3, <2>4
<1> QED BY <1>4, <1>7, <1>8, <1>9, <1>10

(* A payment to an owner takes the stock the payment is about, of the      *)
(* owner's own plans, and all of it.                                       *)
LEMMA ClaimAllTakes ==
  ASSUME TypeOK, NEW u \in Users, NEW s \in Stocks,
         NEW perk \in Perks, ClaimAll(u, s, perk),
         NEW p \in Plans
  PROVE  /\ UNCHANGED <<Settings(p), usdgIdle[p], boostShares[p],
                        lastEpochId[p]>>
         /\ IsListed(p)' <=> IsListed(p)
         /\ UNCHANGED chain /\ UNCHANGED cursor
         /\ stockAccrued'[p] # stockAccrued[p] =>
              owner[p] = u /\ stock[p] = s /\ stockAccrued'[p] = 0
<1> DEFINE a == [q \in Plans |-> IF owner[q] = u /\ stock[q] = s
                                 THEN stockAccrued[q] ELSE 0]
<1>1. /\ UNCHANGED chain /\ UNCHANGED terms /\ UNCHANGED flags
      /\ UNCHANGED index /\ UNCHANGED cursor /\ UNCHANGED idle
      /\ UNCHANGED pool /\ PayStock(s, a, perk)
  BY DEF ClaimAll
<1>2. stockAccrued[p] \in Nat /\ a \in [Plans -> Nat]
  BY DEF TypeOK, AccruedTyped
<1>3. stockAccrued'[p] = stockAccrued[p] - a[p]
  <2> HIDE DEF a
  <2> QED BY <1>1, <1>2, PayStockLowers
<1> QED BY <1>1, <1>2, <1>3
        DEF terms, flags, index, idle, pool, Settings, IsListed

(* Pages set no plan's terms and take none off the list.                   *)
LEMMA PageKeepsSettings ==
  ASSUME NEW s \in Stocks, KeeperCall(s), NEW p \in Plans
  PROVE  UNCHANGED Settings(p) /\ (IsListed(p)' <=> IsListed(p))
BY DEF KeeperCall, AdvanceEpoch, terms, index, Settings, IsListed

LEMMA OthersSpare ==
  ASSUME AdminCall \/ Environment \/ UNCHANGED vars, NEW p \in Plans
  PROVE  Spared(p)
<1>1. /\ UNCHANGED terms /\ UNCHANGED flags /\ UNCHANGED index
      /\ UNCHANGED <<usdgIdle, stockAccrued, boostShares>>
  <2>1. ASSUME AdminCall
        PROVE  /\ UNCHANGED <<terms, flags, index>>
               /\ UNCHANGED <<usdgIdle, stockAccrued, boostShares>>
    BY <2>1 DEF AdminCall, SweepDust, SkimUsdg, SkimWeth, SkimStock,
                SetBoostStrategy, SetVaultPaused, SetFees, SetFeeRecipient, SetKnobs, state,
                idle, accrued, pool
  <2>2. ASSUME Environment
        PROVE  /\ UNCHANGED <<terms, flags, index>>
               /\ UNCHANGED <<usdgIdle, stockAccrued, boostShares>>
    BY <2>2 DEF Environment, EpochPasses, SetPurchasable, MarketTurns,
                StrategyGains, StrategyLoses, GiveUsdg, GiveWeth, GiveStock,
                state, idle, accrued, pool
  <2>3. ASSUME UNCHANGED vars
        PROVE  /\ UNCHANGED <<terms, flags, index>>
               /\ UNCHANGED <<usdgIdle, stockAccrued, boostShares>>
    BY <2>3 DEF vars, idle, accrued, pool
  <2> QED BY <2>1, <2>2, <2>3
<1> QED BY <1>1 DEF terms, flags, index, Spared, Settings, Holdings, IsListed

-----------------------------------------------------------------------------
(* Nobody's step reaches into a plan that is none of its business: what an *)
(* owner chose and whether the plan is listed change only by a call for    *)
(* that plan; what the plan holds changes by such a call, by a page of its *)
(* stock that visits it for the first time in the epoch and unpaused, or   *)
(* by the claim of all its owner's stock.  (Shares are counted, not their  *)
(* worth: the market moves that, and so does the rounding of others.)      *)
PlansAreSeparate ==
  [][\A p \in Plans :
       /\ ~UNCHANGED Settings(p) \/ ~(IsListed(p)' <=> IsListed(p)) =>
            PlanCall(p)
       /\ ~UNCHANGED Holdings(p) =>
            \/ PlanCall(p)
            \/ /\ KeeperCall(stock[p])
               /\ p \in Waiting(stock[p]) /\ p \notin Waiting(stock[p])'
               /\ ~planPaused[p] /\ lastEpochId[p] # epoch
            \/ /\ \E perk \in Perks : ClaimAll(owner[p], stock[p], perk)
               /\ UNCHANGED <<usdgIdle[p], boostShares[p]>>
               /\ stockAccrued'[p] = 0]_vars

(* Swap-and-pop, the shared pool and the shared totals keep plans apart:   *)
(* one plan's calls never touch another's settings, holdings or listing.   *)
THEOREM PlansStaySeparate == Spec => PlansAreSeparate
<1>1. ASSUME EpochInv, [Next]_vars, NEW p \in Plans, ~PlanCall(p)
      PROVE  /\ UNCHANGED Settings(p) /\ (IsListed(p)' <=> IsListed(p))
             /\ ~UNCHANGED Holdings(p) =>
                  \/ /\ KeeperCall(stock[p])
                     /\ p \in Waiting(stock[p]) /\ p \notin Waiting(stock[p])'
                     /\ ~planPaused[p] /\ lastEpochId[p] # epoch
                  \/ /\ \E perk \in Perks : ClaimAll(owner[p], stock[p], perk)
                     /\ UNCHANGED <<usdgIdle[p], boostShares[p]>>
                     /\ stockAccrued'[p] = 0
  <2>i. TypeOK /\ IndexConsistent
    BY <1>1 DEF EpochInv, ListInv, Lists
  <2>1. ASSUME NEW q \in Plans, PlanCall(q) PROVE Spared(p)
    BY <1>1, <2>i, <2>1, PlanCallSpares
  <2>2. CASE Spared(p)
    BY <2>2 DEF Spared
  <2>3. ASSUME NEW s \in Stocks, KeeperCall(s)
        PROVE  /\ UNCHANGED Settings(p) /\ (IsListed(p)' <=> IsListed(p))
               /\ ~UNCHANGED Holdings(p) =>
                    /\ KeeperCall(stock[p])
                    /\ p \in Waiting(stock[p]) /\ p \notin Waiting(stock[p])'
                    /\ ~planPaused[p] /\ lastEpochId[p] # epoch
    <3>1. UNCHANGED Settings(p) /\ (IsListed(p)' <=> IsListed(p))
      BY <2>3, PageKeepsSettings
    <3>2. stock'[p] = stock[p]
      BY <3>1 DEF Settings
    <3>3. ASSUME ~UNCHANGED Holdings(p)
          PROVE  /\ KeeperCall(stock[p])
                 /\ p \in Waiting(stock[p]) /\ p \notin Waiting(stock[p])'
                 /\ ~planPaused[p] /\ lastEpochId[p] # epoch
      <4>1. /\ stock[p] = s /\ p \in Waiting(s) /\ p \notin Waiting(s)'
            /\ ~planPaused[p] /\ lastEpochId[p] # epoch
        BY <1>1, <2>3, <3>3, PageVisits
      <4>2. Waiting(stock[p])' = Waiting(s)'
        BY <3>2, <4>1 DEF Waiting, Executed, Page
      <4> QED BY <2>3, <4>1, <4>2
    <3> QED BY <3>1, <3>3
  <2>4. ASSUME NEW u \in Users, NEW s \in Stocks,
               NEW k \in Perks, ClaimAll(u, s, k)
        PROVE  /\ UNCHANGED Settings(p) /\ (IsListed(p)' <=> IsListed(p))
               /\ ~UNCHANGED Holdings(p) =>
                    /\ \E perk \in Perks : ClaimAll(owner[p], stock[p], perk)
                    /\ UNCHANGED <<usdgIdle[p], boostShares[p]>>
                    /\ stockAccrued'[p] = 0
    BY <2>i, <2>4, ClaimAllTakes DEF Holdings
  <2>5. CASE AdminCall \/ Environment \/ UNCHANGED vars
    BY <2>2, <2>5, OthersSpare
  <2> QED BY <1>1, <2>1, <2>2, <2>3, <2>4, <2>5 DEF Next
<1>2. EpochInv /\ [Next]_vars =>
        [\A p \in Plans :
           /\ ~UNCHANGED Settings(p) \/ ~(IsListed(p)' <=> IsListed(p)) =>
                PlanCall(p)
           /\ ~UNCHANGED Holdings(p) =>
                \/ PlanCall(p)
                \/ /\ KeeperCall(stock[p])
                   /\ p \in Waiting(stock[p]) /\ p \notin Waiting(stock[p])'
                   /\ ~planPaused[p] /\ lastEpochId[p] # epoch
                \/ /\ \E perk \in Perks : ClaimAll(owner[p], stock[p], perk)
                   /\ UNCHANGED <<usdgIdle[p], boostShares[p]>>
                   /\ stockAccrued'[p] = 0]_vars
  BY <1>1
<1> QED BY <1>2, EpochsInvariant, PTL DEF Spec, PlansAreSeparate

-----------------------------------------------------------------------------
(* The refinement: every plan lives as PlanLife promises.                  *)

Life(p) == INSTANCE PlanLife
  WITH listed <- IsListed(p), paused <- planPaused[p],
       funds  <- usdgIdle[p] > 0 \/ boostShares[p] > 0,
       stock  <- stockAccrued[p] > 0,
       open   <- Exists(p) /\ EpochPending(stock[p])

(* A step that is none of a plan's business may move the epoch of its      *)
(* stock, and nothing else.                                                *)
LEMMA SparedTurns ==
  ASSUME NEW p \in Plans, Spared(p)
  PROVE  Life(p)!Turn
BY DEF Spared, Settings, Holdings, IsListed, Life!Turn

(* Nobody's plan holds nothing and is not listed.                          *)
LEMMA NoPlanIsEmpty ==
  ASSUME ListInv, NEW p \in Plans, ~Exists(p)
  PROVE  ~IsListed(p) /\ ~Funded(p)
BY DEF ListInv, Lists, IndexConsistent, FundedPlansListed, Funded, IsListed

(* The epoch of a plan's stock stays where it is.                          *)
LEMMA OpenStays ==
  ASSUME NEW p \in Plans, UNCHANGED <<epoch, owner, stock>>, UNCHANGED cursor
  PROVE  (Exists(p) /\ EpochPending(stock[p]))'
           <=> Exists(p) /\ EpochPending(stock[p])
BY DEF Exists, EpochPending, cursor

LEMMA CreditRaises ==
  ASSUME TypeOK, NEW p \in Plans, NEW lends \in BOOLEAN,
         NEW c1 \in Nat, NEW c2 \in Nat, NEW c3 \in Nat,
         Credit(p, lends, c1, c2, c3), TypeOK'
  PROVE  /\ usdgIdle[p] > 0 => usdgIdle'[p] > 0
         /\ boostShares[p] > 0 => boostShares'[p] > 0
<1>1. /\ usdgIdle[p] \in Nat /\ usdgIdle'[p] \in Nat
      /\ boostShares[p] \in Nat /\ boostShares'[p] \in Nat
      /\ usdgIdle \in [Plans -> Nat] /\ boostShares \in [Plans -> Nat]
  BY ConstantTypes DEF TypeOK, IdleTyped, PoolTyped
<1>2. CASE ~lends
  <2>1. CreditIdle(p, c1 + c2 + c3) /\ UNCHANGED pool
    BY <1>2 DEF Credit
  <2>2. usdgIdle'[p] = usdgIdle[p] + (c1 + c2 + c3) /\ c1 + c2 + c3 \in Nat
    BY <1>1, <2>1 DEF CreditIdle
  <2> QED BY <1>1, <2>1, <2>2 DEF pool
<1>3. CASE lends
  <2>1. PICK k \in Nat, m \in Nat : PutInPool(p, k, m)
    BY <1>3, CreditPuts
  <2>2. UNCHANGED idle
    BY <1>3, CreditPuts
  <2>3. boostShares'[p] = boostShares[p] + m
    BY <1>1, <2>1 DEF PutInPool
  <2> QED BY <1>1, <2>2, <2>3 DEF idle
<1> QED BY <1>2, <1>3

(* A deposit funds a plan that is listed by then.                          *)
LEMMA FundingLives ==
  ASSUME ListInv, NEW p \in Plans,
         \/ \E u \in Users, s \in Stocks, a \in AmountsPerEpoch,
               to \in Users \cup {None}, g \in Deposits \cup {0},
               z1, z2 \in Zaps \cup {0}, lends \in BOOLEAN :
                 CreatePlan(u, p, s, a, to, g, z1, z2, lends)
         \/ \E c \in Nat : Fund(p, c)
  PROVE  Life(p)!Fund
<1>i. TypeOK /\ IndexConsistent
  BY DEF ListInv, Lists
<1>1. ASSUME NEW u \in Users, NEW s \in Stocks, NEW a, NEW to, NEW g, NEW z1,
             NEW z2, NEW lends, CreatePlan(u, p, s, a, to, g, z1, z2, lends)
      PROVE  Life(p)!Fund
  <2>1. ~IsListed(p) /\ ~Funded(p)
    BY <1>1, NoPlanIsEmpty DEF CreatePlan, Exists
  <2>2. /\ owner' = [owner EXCEPT ![p] = u] /\ stock' = [stock EXCEPT ![p] = s]
        /\ IndexPlan(p, s) /\ UNCHANGED planPaused /\ UNCHANGED accrued
    BY <1>1 DEF CreatePlan
  <2>3. /\ owner'[p] # None /\ stock'[p] = s
        /\ \A q \in Plans \ {p} : owner'[q] = owner[q] /\ stock'[q] = stock[q]
    BY <1>i, <2>2, ConstantTypes DEF TypeOK, TermsTyped
  <2>4. IsListed(p)'
    BY <1>i, <2>1, <2>2, <2>3, IndexPlanLists DEF IsListed
  <2> QED BY <2>1, <2>2, <2>4 DEF Life!Fund, Funded, accrued
<1>2. ASSUME NEW c \in Nat, Fund(p, c) PROVE Life(p)!Fund
  <2>1. owner[p] # None /\ stock[p] \in Stocks /\ boosted[p] \in BOOLEAN
    BY <1>i, <1>2 DEF Fund, Exists, TypeOK, TermsTyped, FlagsTyped
  <2>2. /\ IndexPlan(p, stock[p])
        /\ UNCHANGED <<epoch, owner, stock, planPaused, stockAccrued>>
        /\ UNCHANGED cursor
    BY <1>2 DEF Fund, chain, terms, flags, accrued
  <2>3. IsListed(p)'
    BY <1>i, <2>1, <2>2, IndexPlanLists DEF IsListed
  <2>4. TypeOK'
    BY <1>i, <1>2, FundTypes
  <2>5. /\ usdgIdle[p] > 0 => usdgIdle'[p] > 0
        /\ boostShares[p] > 0 => boostShares'[p] > 0
    BY <1>i, <1>2, <2>1, <2>4, CreditRaises DEF Fund
  <2>6. (Exists(p) /\ EpochPending(stock[p]))'
          <=> Exists(p) /\ EpochPending(stock[p])
    BY <2>2, OpenStays
  <2> QED BY <2>2, <2>3, <2>5, <2>6 DEF Life!Fund
<1> QED BY <1>1, <1>2

(* What an owner moves between the idle balance and the pool, or takes     *)
(* out, adds to nothing the plan did not have.                             *)
LEMMA DrawingLives ==
  ASSUME ListInv, NEW p \in Plans,
         \/ Boost(p) \/ Unboost(p)
         \/ \E a \in 1..Supply : WithdrawIdle(p, a)
         \/ \E a \in 1..Supply, perk \in Perks : Claim(p, a, perk)
  PROVE  Life(p)!Draw
<1>i. TypeOK /\ Lists
  BY DEF ListInv
<1>1. /\ UNCHANGED <<epoch, owner, stock, planPaused>>
      /\ UNCHANGED index /\ UNCHANGED cursor
  BY DEF Boost, Unboost, WithdrawIdle, Claim, chain, terms, flags
<1>2. (Exists(p) /\ EpochPending(stock[p]))'
        <=> Exists(p) /\ EpochPending(stock[p])
  BY <1>1, OpenStays
<1>3. IsListed(p)' <=> IsListed(p)
  BY <1>1 DEF index, IsListed
<1>4. TypeOK'
  BY <1>i, OwnerCallTypes
<1>5. /\ usdgIdle[p] \in Nat /\ usdgIdle'[p] \in Nat
      /\ boostShares[p] \in Nat /\ boostShares'[p] \in Nat
      /\ stockAccrued[p] \in Nat /\ stockAccrued'[p] \in Nat
      /\ usdgIdle \in [Plans -> Nat] /\ boostShares \in [Plans -> Nat]
  BY <1>i, <1>4, ConstantTypes DEF TypeOK, IdleTyped, PoolTyped, AccruedTyped
<1>6. ASSUME usdgIdle'[p] > 0 \/ boostShares'[p] > 0
               => usdgIdle[p] > 0 \/ boostShares[p] > 0,
             stockAccrued'[p] > 0 => stockAccrued[p] > 0
      PROVE  Life(p)!Draw
  BY <1>1, <1>2, <1>3, <1>6 DEF IsListed, Life!Draw
<1>7. CASE Boost(p)
  <2> DEFINE m == Mint(usdgIdle[p], PoolAssets, totalShares)
  <2>1. /\ usdgIdle' = [usdgIdle EXCEPT ![p] = @ - usdgIdle[p]]
        /\ boostShares' = [boostShares EXCEPT ![p] = @ + m]
        /\ UNCHANGED accrued
    BY <1>7, BoostBooks DEF Boost
  <2>2. usdgIdle[p] = 0 => m = 0
    BY <1>i, NothingForNothing
  <2> HIDE DEF m
  <2>3. usdgIdle'[p] = 0 /\ (usdgIdle[p] = 0 => boostShares'[p] = boostShares[p])
    BY <1>5, <2>1, <2>2
  <2> QED BY <1>5, <1>6, <2>1, <2>3 DEF accrued
<1>8. CASE Unboost(p)
  <2> DEFINE w == ValueOf(boostShares[p])
  <2>1. usdgIdle' = [usdgIdle EXCEPT ![p] = @ + w] /\ LeavePool(p)
        /\ UNCHANGED accrued
    BY <1>8 DEF Unboost, CreditIdle
  <2>2. boostShares[p] = 0 => w = 0
    BY <1>i, NothingForNothing
  <2> HIDE DEF w
  <2>3. boostShares'[p] = 0
    BY <1>i, <2>1, LeavePoolShares
  <2>4. boostShares[p] = 0 => usdgIdle'[p] = usdgIdle[p]
    BY <1>5, <2>1, <2>2
  <2> QED BY <1>5, <1>6, <2>1, <2>3, <2>4 DEF accrued
<1>9. ASSUME NEW a \in 1..Supply, WithdrawIdle(p, a) PROVE Life(p)!Draw
  <2> DEFINE f == Smaller(a, usdgIdle[p])
  <2>1. a \in Nat /\ f \in Nat /\ f <= a
    BY <1>5, ConstantTypes DEF Smaller
  <2>2. /\ DebitIdle(p, f) /\ UNCHANGED accrued
        /\ a > f => TakeFromPool(p, a - f)
        /\ ~(a > f) => UNCHANGED pool
    BY <1>9 DEF WithdrawIdle
  <2> HIDE DEF f
  <2>3. usdgIdle'[p] <= usdgIdle[p]
    BY <1>5, <2>1, <2>2 DEF DebitIdle
  <2>4. boostShares'[p] <= boostShares[p]
    <3>1. a - f \in Nat
      BY <2>1
    <3>2. CASE a > f
      BY <1>i, <2>2, <3>1, <3>2, TakeFromPoolShares
    <3>3. CASE ~(a > f)
      BY <1>5, <2>2, <3>3 DEF pool
    <3> QED BY <3>2, <3>3
  <2> QED BY <1>5, <1>6, <2>2, <2>3, <2>4 DEF accrued
<1>10. ASSUME NEW a \in 1..Supply, NEW perk \in Perks, Claim(p, a, perk)
       PROVE  Life(p)!Draw
  <2>1. a \in Nat /\ Only(p, a) \in [Plans -> Nat]
    BY ConstantTypes, OnlyType
  <2>2. PayStock(stock[p], Only(p, a), perk) /\ UNCHANGED idle /\ UNCHANGED pool
    BY <1>10 DEF Claim
  <2>3. stockAccrued'[p] <= stockAccrued[p]
    BY <1>i, <2>1, <2>2, PayStockLowers
  <2> QED BY <1>5, <1>6, <2>2, <2>3 DEF idle, pool
<1> QED BY <1>7, <1>8, <1>9, <1>10

(* A closed plan is empty; it leaves the list, or parks in it, paused.     *)
LEMMA ClosingLives ==
  ASSUME ListInv, NEW p \in Plans, NEW perk \in Perks, ClosePlan(p, perk)
  PROVE  Life(p)!Close
<1>i. TypeOK /\ IndexConsistent
  BY DEF ListInv, Lists
<1>1. /\ UNCHANGED <<epoch, owner, stock>> /\ UNCHANGED cursor
      /\ LeavePool(p) /\ DebitIdle(p, usdgIdle[p])
      /\ PayStock(stock[p], Only(p, stockAccrued[p]), perk)
      /\ Parks(p) => UNCHANGED index
      /\ ~Parks(p) => UnindexPlan(p)
      /\ planPaused' = [planPaused EXCEPT ![p] = @ \/ Parks(p)]
      /\ Exists(p)
  BY DEF ClosePlan, chain, terms
<1>2. (Exists(p) /\ EpochPending(stock[p]))'
        <=> Exists(p) /\ EpochPending(stock[p])
  BY <1>1, OpenStays
<1>3. /\ usdgIdle[p] \in Nat /\ boostShares[p] \in Nat /\ stockAccrued[p] \in Nat
      /\ usdgIdle \in [Plans -> Nat] /\ planPaused \in [Plans -> BOOLEAN]
  BY <1>i, ConstantTypes
  DEF TypeOK, IdleTyped, PoolTyped, AccruedTyped, FlagsTyped
<1>4. stockAccrued'[p] = 0
  <2>1. Only(p, stockAccrued[p]) \in [Plans -> Nat]
    BY <1>3, OnlyType
  <2>2. stockAccrued'[p] = stockAccrued[p] - Only(p, stockAccrued[p])[p]
    BY <1>i, <1>1, <2>1, PayStockLowers
  <2> QED BY <1>3, <2>2 DEF Only
<1>5. boostShares'[p] = 0
  BY <1>i, <1>1, LeavePoolShares
<1>6. usdgIdle'[p] = 0
  BY <1>1, <1>3 DEF DebitIdle
<1>7. CASE Parks(p)
  <2>1. IsListed(p)' /\ planPaused'[p] /\ IsListed(p)
        /\ Exists(p) /\ EpochPending(stock[p])
    BY <1>1, <1>3, <1>7 DEF Parks, index, IsListed
  <2> QED BY <1>2, <1>4, <1>5, <1>6, <2>1 DEF Life!Close
<1>8. CASE ~Parks(p)
  <2>1. ~IsListed(p)'
    BY <1>i, <1>1, <1>8, UnindexSpares
  <2>2. planPaused'[p] = planPaused[p]
    BY <1>1, <1>3, <1>8
  <2>3. ~(IsListed(p) /\ Exists(p) /\ EpochPending(stock[p]))
    BY <1>8 DEF Parks, IsListed
  <2> QED BY <1>2, <1>4, <1>5, <1>6, <2>1, <2>2, <2>3 DEF Life!Close
<1> QED BY <1>7, <1>8

LEMMA PruningLives ==
  ASSUME ListInv, NEW p \in Plans, PrunePlan(p)
  PROVE  Life(p)!Prune
<1>i. TypeOK /\ IndexConsistent
  BY DEF ListInv, Lists
<1>1. /\ UNCHANGED <<epoch, owner, stock, planPaused>> /\ UNCHANGED cursor
      /\ UNCHANGED <<usdgIdle, stockAccrued, boostShares>>
      /\ UnindexPlan(p) /\ ~EpochPending(stock[p]) /\ Empty(p)
  BY DEF PrunePlan, chain, terms, flags, idle, accrued, pool
<1>2. ~IsListed(p)'
  BY <1>i, <1>1, UnindexSpares
<1>3. (Exists(p) /\ EpochPending(stock[p]))'
        <=> Exists(p) /\ EpochPending(stock[p])
  BY <1>1, OpenStays
<1> QED BY <1>1, <1>2, <1>3 DEF Empty, Life!Prune

LEMMA PlanCallLives ==
  ASSUME ListInv, NEW p \in Plans, PlanCall(p)
  PROVE  Life(p)!Next
<1>1. ASSUME NEW g \in Deposits, DepositUSDG(p, g)
      PROVE  \E c \in Nat : Fund(p, c)
  <2>1. g \in Nat /\ fees.deposit \in 0..MaxFeeBps
    BY ConstantTypes DEF ListInv, TypeOK, ConfigTyped, Fees
  <2>2. NetOf(g, fees.deposit) \in 0..g
    BY <2>1, FeeBelow
  <2>3. NetOf(g, fees.deposit) \in Nat
    BY <2>1, <2>2
  <2> QED BY <1>1, <2>3 DEF DepositUSDG
<1>2. ASSUME NEW z \in Zaps, DepositWETH(p, z)
      PROVE  \E c \in Nat : Fund(p, c)
  BY <1>2, ConstantTypes DEF DepositWETH
<1>3. ASSUME \E b \in BOOLEAN : SetPlanPaused(p, b) PROVE Life(p)!Pause
  <2>1. /\ UNCHANGED <<epoch, owner, stock>> /\ UNCHANGED cursor
        /\ UNCHANGED index /\ UNCHANGED <<usdgIdle, boostShares, stockAccrued>>
    BY <1>3 DEF SetPlanPaused, chain, terms, idle, pool, accrued
  <2>2. (Exists(p) /\ EpochPending(stock[p]))'
          <=> Exists(p) /\ EpochPending(stock[p])
    BY <2>1, OpenStays
  <2> QED BY <2>1, <2>2 DEF index, IsListed, Life!Pause
<1>4. ASSUME \/ \E a \in AmountsPerEpoch : SetPlanAmount(p, a)
             \/ \E u \in Users : SetPlanRecipient(p, u)
      PROVE  Life(p)!Turn
  BY <1>4 DEF SetPlanAmount, SetPlanRecipient, flags, index, idle, pool,
              accrued, IsListed, Life!Turn
<1>5. ASSUME \/ \E u \in Users, s \in Stocks, a \in AmountsPerEpoch,
                   to \in Users \cup {None}, g \in Deposits \cup {0},
                   z1, z2 \in Zaps \cup {0}, lends \in BOOLEAN :
                     CreatePlan(u, p, s, a, to, g, z1, z2, lends)
             \/ \E g \in Deposits : DepositUSDG(p, g)
             \/ \E z \in Zaps : DepositWETH(p, z)
      PROVE  Life(p)!Next
  BY <1>1, <1>2, <1>5, FundingLives DEF Life!Next
<1>6. ASSUME \/ Boost(p) \/ Unboost(p)
             \/ \E a \in 1..Supply : WithdrawIdle(p, a)
             \/ \E a \in 1..Supply, perk \in Perks : Claim(p, a, perk)
      PROVE  Life(p)!Next
  BY <1>6, DrawingLives DEF Life!Next
<1>7. ASSUME (\E perk \in Perks : ClosePlan(p, perk)) \/ PrunePlan(p)
      PROVE  Life(p)!Next
  BY <1>7, ClosingLives, PruningLives DEF Life!Next
<1> QED BY <1>3, <1>4, <1>5, <1>6, <1>7 DEF PlanCall, Life!Next

(* A page of the plan's stock buys for it, or passes it over.              *)
LEMMA PageLives ==
  ASSUME EpochInv, NEW s \in Stocks, KeeperCall(s), NEW p \in Plans
  PROVE  Life(p)!Next
<1>1. UNCHANGED Settings(p) /\ (IsListed(p)' <=> IsListed(p))
  BY PageKeepsSettings
<1>2. CASE UNCHANGED Holdings(p)
  BY <1>1, <1>2, SparedTurns DEF Spared, Life!Next
<1>3. CASE ~UNCHANGED Holdings(p)
  <2>1. /\ IsListed(p) /\ ~planPaused[p]
        /\ usdgIdle[p] > 0 \/ boostShares[p] > 0
        /\ stockAccrued[p] > 0 => stockAccrued'[p] > 0
    BY <1>3, PageVisits
  <2>2. Life(p)!Buy
    BY <1>1, <2>1 DEF Settings, Life!Buy
  <2> QED BY <2>2 DEF Life!Next
<1> QED BY <1>2, <1>3

LEMMA ClaimAllLives ==
  ASSUME ListInv, NEW u \in Users, NEW s \in Stocks,
         NEW perk \in Perks, ClaimAll(u, s, perk),
         NEW p \in Plans
  PROVE  Life(p)!Next
<1>1. TypeOK
  BY DEF ListInv
<1>2. /\ UNCHANGED <<Settings(p), usdgIdle[p], boostShares[p]>>
      /\ IsListed(p)' <=> IsListed(p)
      /\ stockAccrued'[p] # stockAccrued[p] => stockAccrued'[p] = 0
  BY <1>1, ClaimAllTakes
<1>3. (Exists(p) /\ EpochPending(stock[p]))'
        <=> Exists(p) /\ EpochPending(stock[p])
  <2>1. UNCHANGED <<epoch, owner, stock>> /\ UNCHANGED cursor
    BY DEF ClaimAll, chain, terms
  <2> QED BY <2>1, OpenStays
<1>4. stockAccrued'[p] > 0 => stockAccrued[p] > 0
  BY <1>2
<1>5. Life(p)!Draw
  BY <1>2, <1>3, <1>4 DEF Settings, IsListed, Life!Draw
<1> QED BY <1>5 DEF Life!Next

(* Every step of the vault is a step of every plan's life, or none.        *)
LEMMA NextLives ==
  ASSUME EpochInv, [Next]_vars, NEW p \in Plans
  PROVE  Life(p)!Next
<1>i. ListInv /\ TypeOK /\ IndexConsistent
  BY DEF EpochInv, ListInv, Lists
<1>1. ASSUME NEW q \in Plans, PlanCall(q) PROVE Life(p)!Next
  <2>1. CASE q = p
    BY <1>i, <1>1, <2>1, PlanCallLives
  <2>2. CASE q # p
    BY <1>i, <1>1, <2>2, PlanCallSpares, SparedTurns DEF Life!Next
  <2> QED BY <2>1, <2>2
<1>2. ASSUME NEW u \in Users, NEW s \in Stocks,
             NEW perk \in Perks, ClaimAll(u, s, perk)
      PROVE  Life(p)!Next
  BY <1>i, <1>2, ClaimAllLives
<1>3. ASSUME NEW s \in Stocks, KeeperCall(s) PROVE Life(p)!Next
  BY <1>3, PageLives
<1>4. CASE AdminCall \/ Environment \/ UNCHANGED vars
  BY <1>4, OthersSpare, SparedTurns DEF Life!Next
<1> QED BY <1>1, <1>2, <1>3, <1>4 DEF Next

(* One plan among the others, from its creation on, whoever calls what:    *)
(* it is filled only listed, bought for only listed, unpaused and with     *)
(* money in it, emptied by its own calls, and off the list only empty and  *)
(* between epochs (closePlan, prunePlan, _index, _unindex).  It is the     *)
(* life RemovePlan assumes of the plan that its form removes.              *)
THEOREM VaultKeepsPlanLife ==
  ASSUME NEW p \in Plans
  PROVE  Spec => Life(p)!Spec
<1>1. Init => Life(p)!Init
  BY DEF Init, Life!Init, Life!HeldIsListed
<1>2. EpochInv /\ [Next]_vars => [Life(p)!Next]_(Life(p)!life)
  BY NextLives
<1> QED BY <1>1, <1>2, EpochsInvariant, PTL DEF Spec, Life!Spec
=============================================================================
