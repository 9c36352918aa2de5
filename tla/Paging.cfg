CONSTANTS
  p1 = p1 p2 = p2 p3 = p3 u1 = u1 u2 = u2 s1 = s1 s2 = s2 v1 = v1 v2 = v2
  t1 = t1 t2 = t2 usdg = usdg
  None = None
  Plans = {p1, p2, p3}
  Users = {u1}
  Stocks = {s1}
  Strategies = {}
  Usdg = usdg
  Treasuries = {t1}
  Refused <- NoRefusals
  DEPOSIT_TOLERANCE_ABS = 1
  DEPOSIT_TOLERANCE_BPS = 1
  Rounding = 1
  BPS = 4
  MaxFeeBps = 2
  Supply = 3
  MaxShares = 10
  MaxEpoch = 2
  Fees0 <- NoFees
  Knobs0 <- PlainKnobs
  FeeChoices = {}
  KnobChoices = {}
  AmountsPerEpoch = {1}
  Deposits = {1}
  Zaps = {}
  Limits = {1}
  Bought = {1}
  Unspent = {0}
  Perks <- NoPerkSet
  Gains = {}
  Losses = {}
  Gifts = {}
  Calls = {"outage"}
SYMMETRY PlanSymmetry
SPECIFICATION Spec
INVARIANTS IndexConsistent FundedPlansListed CursorInList
PROPERTIES NoPlanCrossesCursor PagesChargeOncePerEpoch ImplementsPlanEpoch
CHECK_DEADLOCK FALSE
