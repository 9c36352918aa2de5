---------------------------- MODULE MCPlanVault -----------------------------
(* Small instances of PlanVault: values of its constants for TLC.          *)
EXTENDS PlanVaultProperties, TLC

CONSTANTS p1, p2, p3, u1, u2, s1, s2, v1, v2, t1, t2, usdg

FeesOf(purchase, deposit, exit) ==
  [to |-> t1, purchase |-> purchase, deposit |-> deposit, withdraw |-> exit,
   claim |-> exit]

NoFees   == FeesOf(0, 0, 0)
ExitFees == FeesOf(0, 0, 2)
HalfFee  == FeesOf(2, 0, 2)
BothFees == FeesOf(2, 1, 2)

Knob(pageSize, minimum, sweep, cap) ==
  [keeperOnly |-> TRUE, maxPlansPerTx |-> pageSize, minAmount |-> minimum,
   minDeposit |-> minimum, sweepMin |-> sweep, cap |-> cap,
   capOf |-> [s \in Stocks |-> 0]]

NoRefusals    == {}
UserRefusals  == {s1, s2} \X {u2}
StockRefusal  == {<<s1, t1>>}
UsdgRefusal   == {<<usdg, t2>>}

PlainKnobs == Knob(2, 1, 2, 0)
CapKnobs   == Knob(3, 1, 2, 1)

OtherFees  == {BothFees}
OtherKnobs == {[keeperOnly |-> FALSE, maxPlansPerTx |-> 1, minAmount |-> 2,
                minDeposit |-> 2, sweepMin |-> 1, cap |-> 1,
                capOf |-> [s \in Stocks |-> 2]]}

NoPerks  == [u \in Users |-> [halve |-> FALSE, auto |-> FALSE]]
AllPerks == [u \in Users |-> [halve |-> TRUE, auto |-> TRUE]]
NoPerkSet == {NoPerks}
PerkSets == {NoPerks, AllPerks}

PlanSymmetry == Permutations(Plans)
PoolSymmetry == Permutations(Plans) \cup Permutations(Strategies)
=============================================================================
