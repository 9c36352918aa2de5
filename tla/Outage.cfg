CONSTANTS
  p1 = p1 p2 = p2 p3 = p3 u1 = u1 u2 = u2 s1 = s1 s2 = s2 v1 = v1 v2 = v2
  t1 = t1 t2 = t2 usdg = usdg
  None = None
  Plans = {p1, p2}
  Users = {u1}
  Stocks = {s1}
  Strategies = {}
  Usdg = usdg
  Treasuries = {t1}
  Refused <- NoRefusals
  DEPOSIT_TOLERANCE_ABS = 1
  DEPOSIT_TOLERANCE_BPS = 1
  Rounding = 1
  BPS = 4
  MaxFeeBps = 2
  Supply = 4
  MaxShares = 10
  MaxEpoch = 1
  Fees0 <- NoFees
  Knobs0 <- CapKnobs
  FeeChoices = {}
  KnobChoices = {}
  AmountsPerEpoch = {1, 2}
  Deposits = {2}
  Zaps = {}
  Limits = {0, 1}
  Bought = {1}
  Unspent = {0}
  Perks <- NoPerkSet
  Gains = {}
  Losses = {}
  Gifts = {}
  Calls = {"outage"}
SPECIFICATION LiveSpec
PROPERTIES DueEpochsEnd
CHECK_DEADLOCK FALSE
