CONSTANTS
  p1 = p1 p2 = p2 p3 = p3 u1 = u1 u2 = u2 s1 = s1 s2 = s2 v1 = v1 v2 = v2
  t1 = t1 t2 = t2 usdg = usdg
  None = None
  Plans = {p1, p2}
  Users = {u1, u2}
  Stocks = {s1, s2}
  Strategies = {}
  Usdg = usdg
  Treasuries = {t1}
  Refused <- UserRefusals
  DEPOSIT_TOLERANCE_ABS = 1
  DEPOSIT_TOLERANCE_BPS = 1
  Rounding = 1
  BPS = 4
  MaxFeeBps = 2
  Supply = 3
  MaxShares = 10
  MaxEpoch = 1
  Fees0 <- HalfFee
  Knobs0 <- PlainKnobs
  FeeChoices = {}
  KnobChoices = {}
  AmountsPerEpoch = {2}
  Deposits = {2}
  Zaps = {}
  Limits = {0}
  Bought = {1, 3}
  Unspent = {0, 1}
  Perks <- PerkSets
  Gains = {}
  Losses = {}
  Gifts = {2}
  Calls = {"claim"}
SYMMETRY PlanSymmetry
SPECIFICATION Spec
INVARIANTS TypeOK BalancesBooked TotalsAgree
PROPERTIES StockDustBounded DustLeavesWithPages
CHECK_DEADLOCK FALSE
