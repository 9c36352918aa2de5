-------------------------- MODULE RemovePlanProofs --------------------------
(***************************************************************************)
(* What the form promises, for every number of changes by others and of    *)
(* faults: its types; that the logs never call a plan gone that the vault  *)
(* still iterates over; that "Plan removed" is true when a receipt tells   *)
(* the outcome; that a call which does not fit is somebody else's doing;   *)
(* that the plan lives as PlanLife says, as every plan of PlanVault is     *)
(* proved to, and is listed while it holds anything; and that a run nobody *)
(* disturbs leaves nothing in it.                                          *)
(***************************************************************************)
EXTENDS RemovePlan, SequenceTheorems, TLAPS

-----------------------------------------------------------------------------
(* The vault's calls and the orders built from them.                       *)

LEMMA ValueType ==
  ASSUME NEW p \in Plan
  PROVE  Value(p) \in 0..1
BY DEF Plan, Value

LEMMA UpdateTypes ==
  ASSUME NEW p \in Plan, NEW n \in Nat, NEW b \in BOOLEAN
  PROVE  /\ [p EXCEPT !.idle = n] \in Plan /\ [p EXCEPT !.stock = n] \in Plan
         /\ [p EXCEPT !.shares = 0] \in Plan /\ [p EXCEPT !.shares = 1] \in Plan
         /\ [p EXCEPT !.worth = 1] \in Plan /\ [p EXCEPT !.boosted = b] \in Plan
         /\ [p EXCEPT !.paused = b] \in Plan /\ [p EXCEPT !.indexed = b] \in Plan
BY DEF Plan

LEMMA CallTypes ==
  ASSUME NEW c \in Calls, plan \in Plan, order \in Order, GoesThrough(c)
  PROVE  After(c) \in Plan
<1>1. Value(plan) \in 0..1
  BY ValueType
<1>2. ASSUME NEW a \in Nat PROVE Withdrawn(plan, a) \in Plan
  <2>1. plan.idle \in Nat
    BY DEF Plan
  <2>2. CASE a <= plan.idle
    <3>1. plan.idle - a \in Nat
      BY <1>2, <2>1, <2>2
    <3>2. [plan EXCEPT !.idle = plan.idle - a] \in Plan
      BY <3>1 DEF Plan
    <3> QED BY <2>2, <3>2 DEF Withdrawn
  <2>3. CASE ~(a <= plan.idle)
    <3>1. [[plan EXCEPT !.idle = 0] EXCEPT !.shares = 0] \in Plan
      BY UpdateTypes
    <3> QED BY <2>3, <3>1 DEF Withdrawn
  <2> QED BY <2>2, <2>3
<1>3. Unboosted(plan) \in Plan
  <2>1. plan.idle + Value(plan) \in Nat
    BY <1>1 DEF Plan
  <2>2. [[[plan EXCEPT !.idle = plan.idle + Value(plan)]
            EXCEPT !.shares = 0] EXCEPT !.boosted = FALSE] \in Plan
    BY <2>1, UpdateTypes
  <2> QED BY <2>2 DEF Unboosted
<1>4. Closed(plan) \in Plan
  BY <1>3 DEF Closed, Plan
<1>5. plan.idle + Value(plan) \in Nat /\ order.part \in Nat
  BY <1>1 DEF Plan, Order
<1>6. [plan EXCEPT !.stock = 0] \in Plan /\ [plan EXCEPT !.indexed = FALSE] \in Plan
  BY DEF Plan
<1> QED BY <1>2, <1>3, <1>4, <1>5, <1>6 DEF After, Calls

LEMMA LegType ==
  ASSUME NEW C, NEW c \in C, NEW needed \in BOOLEAN
  PROVE  Leg(needed, c) \in Seq(C)
BY DEF Leg

LEMMA OrderTypes ==
  ASSUME NEW f \in Read, NEW m
  PROVE  OrderFor(f, m) \in Order
<1>1. \A a, b \in Seq(Calls) : a \o b \in Seq(Calls)
  BY ConcatProperties
<1>2. /\ f.boosted \in BOOLEAN /\ (f.idle + f.value > 0) \in BOOLEAN
      /\ (f.stock > 0) \in BOOLEAN /\ (~f.pending) \in BOOLEAN
      /\ (~(EmptyPlan(f) /\ f.pending)) \in BOOLEAN
  BY DEF Read
<1>3. RemoveOrder(f).calls \in Seq(Calls)
  <2>1. /\ Leg(f.boosted, "unboost") \in Seq(Calls)
        /\ Leg(f.idle + f.value > 0, "withdraw") \in Seq(Calls)
        /\ Leg(f.stock > 0, "claim") \in Seq(Calls)
        /\ Leg(~f.pending, "prune") \in Seq(Calls)
    BY <1>2, LegType DEF Calls
  <2> QED BY <1>1, <2>1 DEF RemoveOrder
<1>4. CloseOrder(f).calls \in Seq(Calls)
  BY <1>2, LegType DEF CloseOrder, Calls
<1> QED BY <1>2, <1>3, <1>4 DEF OrderFor, RemoveOrder, CloseOrder, Order

LEMMA PartTypes ==
  ASSUME NEW f \in Read
  PROVE  PartialWithdraw(f) \in Order
<1>1. <<"part">> \in Seq(Calls)
  BY DEF Calls
<1> QED BY <1>1 DEF PartialWithdraw, Order, Read

LEMMA FoundType ==
  ASSUME TypeOK, reading # "none", unread = {}
  PROVE  Found \in Read
<1>1. draft \in Draft /\ draft.plan \in Plan
  BY DEF TypeOK
<1>2. GoesThrough("close") \in BOOLEAN
  BY DEF GoesThrough
<1> QED BY <1>1, <1>2 DEF Found, Read, Draft, Plan

-----------------------------------------------------------------------------
(* Types.                                                                  *)

LEMMA InitTypes == Init => TypeOK
<1> SUFFICES ASSUME Init PROVE TypeOK
  OBVIOUS
<1>1. plan \in Plan
  <2>1. plan \in [idle : 0..1, shares : 0..1, worth : {1}, stock : 0..1,
                  boosted : BOOLEAN, paused : {FALSE}, indexed : {TRUE}]
    BY DEF Init
  <2>2. plan.idle \in Nat /\ plan.worth \in 0..1
    BY <2>1
  <2>3. plan.shares \in 0..1 /\ plan.stock \in Nat /\ plan.boosted \in BOOLEAN
    BY <2>1
  <2>4. plan.paused \in BOOLEAN /\ plan.indexed \in BOOLEAN
    BY <2>1
  <2>5. plan = [idle |-> plan.idle, shares |-> plan.shares,
                worth |-> plan.worth, stock |-> plan.stock,
                boosted |-> plan.boosted, paused |-> plan.paused,
                indexed |-> plan.indexed]
    BY <2>1
  <2> QED BY <2>2, <2>3, <2>4, <2>5 DEF Plan
<1>2. row \in [value : 0..1, empty : BOOLEAN]
  <2>1. Value(plan) \in 0..1
    BY <1>1, ValueType
  <2> QED BY <2>1 DEF Init, RowOf
<1>3. order \in Order
  BY DEF Init, NoOrder, Order
<1>4. /\ pending \in BOOLEAN /\ blocked = {} /\ live = "unknown"
      /\ hidden = FALSE /\ phase = "closed" /\ mode = "auto"
      /\ remaining = FALSE /\ fresh = NoRead /\ reading = "none"
      /\ unread = {} /\ at = 0
  BY DEF Init
<1>5. /\ status = "idle" /\ refused = FALSE /\ receipt = "none"
      /\ changes = 0 /\ faults = 0
      /\ raced = FALSE /\ funded = FALSE /\ onTrust = FALSE
  BY DEF Init
<1>6. /\ {refused, raced, funded, onTrust} \subseteq BOOLEAN
      /\ {changes, faults} \subseteq Nat
  <2>1. {refused, raced, funded, onTrust} \subseteq {FALSE}
    BY <1>5, Zenon
  <2>2. {changes, faults} \subseteq {0}
    BY <1>5, Zenon
  <2> QED BY <2>1, <2>2
<1>7. /\ live \in {"unknown", "live", "gone"} /\ hidden \in BOOLEAN
      /\ phase \in {"closed", "preview", "flow", "deferred", "removed"}
      /\ mode \in {"auto", "sequence"} /\ remaining \in BOOLEAN
      /\ blocked \subseteq Legs
  BY <1>4
<1>8. /\ fresh \in Read \cup {NoRead}
      /\ reading \in {"none", "preview", "retry", "stepwise", "part", "verify",
                      "finish"}
      /\ unread \subseteq {"plan", "pending"} /\ at \in Nat
  BY <1>4
<1>9. /\ status \in {"idle", "running", "failed", "lost", "done"}
      /\ status \notin {"running", "failed", "lost"}
      /\ receipt \in {"none", "parked", "unindexed"}
  BY <1>5
<1> QED BY <1>1, <1>2, <1>3, <1>4, <1>6, <1>7, <1>8, <1>9 DEF TypeOK

LEMMA RunTypes ==
  ASSUME TypeOK, NEW c \in Calls, Runs(c)
  PROVE  /\ plan' \in Plan /\ pending' \in BOOLEAN /\ blocked' \subseteq Legs
         /\ live' \in {"unknown", "live", "gone"}
BY CallTypes DEF TypeOK, Runs, LiveAfter

LEMMA CallType ==
  ASSUME TypeOK, status \in {"running", "failed", "lost"}
  PROVE  Call \in Calls
BY DEF TypeOK, Call, Order

LEMMA ReadingTypes ==
  ASSUME TypeOK, ReadPlan \/ ReadPending
  PROVE  TypeOK'
<1>1. Value(plan) \in 0..1 /\ plan \in Plan
  BY ValueType DEF TypeOK
<1>2. reading # "none" /\ draft \in Draft
  BY DEF TypeOK, ReadPlan, ReadPending
<1>3. CASE ReadPlan
  <2>1. draft'.plan \in Plan /\ draft' \in Draft
    <3>1. (IF plan.shares > 0 THEN row.value ELSE 0) \in 0..1
      BY DEF TypeOK
    <3> QED BY <1>1, <1>2, <1>3, <3>1 DEF ReadPlan, Draft
  <2>2. raced' \in BOOLEAN
    BY <1>3 DEF ReadPlan, TypeOK
  <2> QED
    BY <1>2, <1>3, <2>1, <2>2
    DEF ReadPlan, TypeOK, chain, page, sent, form
<1>4. CASE ReadPending
  <2>1. draft' \in Draft /\ draft'.plan = draft.plan
    BY <1>2, <1>4 DEF ReadPending, Draft, TypeOK
  <2> QED
    BY <1>2, <1>4, <2>1
    DEF ReadPending, TypeOK, chain, page, sent, form, ghosts
<1> QED BY <1>3, <1>4

LEMMA StartReadTypes ==
  ASSUME NEW why, StartRead(why)
  PROVE  draft' \in Draft /\ unread' = {"plan", "pending"} /\ reading' = why
         /\ raced' = FALSE
BY DEF StartRead, NoDraft, Draft

LEMMA SendTypes ==
  ASSUME NEW o \in Order, Send(o)
  PROVE  /\ order' \in Order /\ at' \in Nat
         /\ status' \in {"running", "done"}
         /\ status' = "running" => at' \in DOMAIN order'.calls
         /\ refused' = FALSE /\ receipt' = "none" /\ funded' = FALSE
<1>1. o.calls \in Seq(Calls)
  BY DEF Order
<1>2. o.calls # <<>> => 1 \in DOMAIN o.calls
  BY <1>1, EmptySeq
<1> QED BY <1>2 DEF Send

LEMMA AnsweredTypes ==
  ASSUME TypeOK, Answered
  PROVE  /\ Found \in Read /\ fresh' = Found /\ reading' = "none"
         /\ unread' = {}
BY FoundType DEF Answered

LEMMA OutcomeTypes ==
  ASSUME TypeOK,
         \/ Previewed \/ Resume \/ ResumePart \/ Finish
         \/ \E known \in BOOLEAN : Verify(known)
  PROVE  TypeOK'
<1>1. Answered
  BY DEF Previewed, Resume, ResumePart, Finish, Verify
<1>2. /\ Found \in Read /\ fresh' = Found /\ reading' = "none"
      /\ unread' = {}
  BY <1>1, AnsweredTypes
<1>3. \A m : OrderFor(Found, m) \in Order
  BY <1>2, OrderTypes
<1>4. ASSUME UNCHANGED chain, UNCHANGED row, hidden' \in BOOLEAN,
             phase' \in {"closed", "preview", "flow", "deferred", "removed"},
             mode' = mode, remaining' \in BOOLEAN, UNCHANGED changes,
             faults' \in Nat, raced' = raced, onTrust' \in BOOLEAN,
             \/ UNCHANGED <<sent, funded>>
             \/ \E o \in Order : Send(o)
             \/ SendNothing
             \/ status' = "idle" /\ order' = NoOrder /\ at' = 0
                /\ receipt' = "none" /\ refused' = FALSE /\ funded' = funded
      PROVE  TypeOK'
  <2>1. /\ order' \in Order /\ at' \in Nat
        /\ status' \in {"idle", "running", "failed", "lost", "done"}
        /\ status' \in {"running", "failed", "lost"} =>
             at' \in DOMAIN order'.calls
        /\ receipt' \in {"none", "parked", "unindexed"}
        /\ refused' \in BOOLEAN /\ funded' \in BOOLEAN
    <3>1. CASE UNCHANGED <<sent, funded>>
      BY <3>1 DEF TypeOK, sent
    <3>2. CASE \E o \in Order : Send(o)
      BY <3>2, SendTypes
    <3>3. CASE SendNothing
      BY <3>3 DEF SendNothing, TypeOK
    <3>4. CASE status' = "idle" /\ order' = NoOrder /\ at' = 0
               /\ receipt' = "none" /\ refused' = FALSE /\ funded' = funded
      <4>1. NoOrder \in Order
        BY DEF NoOrder, Order
      <4> QED BY <3>4, <4>1 DEF TypeOK
    <3> QED BY <1>4, <3>1, <3>2, <3>3, <3>4
  <2> QED BY <1>2, <1>4, <2>1 DEF TypeOK, chain
<1>5. CASE Previewed
  BY <1>4, <1>5 DEF Previewed, TypeOK, page, form, ghosts
<1>6. CASE Resume
  BY <1>3, <1>4, <1>6 DEF Resume, TypeOK, page, form
<1>7. CASE ResumePart
  <2>1. PartialWithdraw(Found) \in Order
    BY <1>2, PartTypes
  <2> QED BY <1>4, <1>7, <2>1 DEF ResumePart, TypeOK, page, form
<1>8. CASE Finish
  BY <1>3, <1>4, <1>8 DEF Finish, TypeOK, page
<1>9. ASSUME NEW known \in BOOLEAN, Verify(known) PROVE TypeOK'
  <2>1. UNCHANGED <<chain, row, mode, changes, raced, funded>>
    BY <1>9 DEF Verify
  <2>2. phase' \in {"preview", "removed", "deferred"}
    BY <1>9 DEF Verify
  <2>3. remaining' \in BOOLEAN
    BY <1>9 DEF Verify
  <2>4. hidden' \in BOOLEAN /\ onTrust' \in BOOLEAN
    BY <1>9 DEF Verify, TypeOK
  <2>5. faults' \in Nat
    BY <1>9 DEF Verify, TypeOK
  <2>6. status' = "idle" /\ order' = NoOrder /\ at' = 0
        /\ receipt' = "none" /\ refused' = FALSE
    BY <1>9 DEF Verify
  <2> QED BY <1>4, <2>1, <2>2, <2>3, <2>4, <2>5, <2>6
<1> QED BY <1>5, <1>6, <1>7, <1>8, <1>9

LEMMA SequenceTypes ==
  ASSUME TypeOK, \/ StepRuns \/ StepReverts \/ Rejected \/ AnswerLost \/ Done
                 \/ ReadFails
  PROVE  TypeOK'
<1>1. CASE StepRuns
  <2>1. Call \in Calls
    BY <1>1, CallType DEF StepRuns
  <2>2. /\ plan' \in Plan /\ pending' \in BOOLEAN /\ blocked' \subseteq Legs
        /\ live' \in {"unknown", "live", "gone"}
    BY <1>1, <2>1, RunTypes DEF StepRuns
  <2>3. receipt' \in {"none", "parked", "unindexed"}
    BY <1>1 DEF StepRuns, TypeOK
  <2>4. /\ at' \in Nat /\ status' \in {"running", "done"}
        /\ status' = "running" => at' \in DOMAIN order'.calls
    <3>1. order.calls \in Seq(Calls) /\ at \in DOMAIN order.calls
      BY <1>1 DEF TypeOK, Order, StepRuns
    <3>2. at # Len(order.calls) => at + 1 \in DOMAIN order.calls
      BY <3>1
    <3> QED BY <1>1, <3>1, <3>2 DEF StepRuns, TypeOK
  <2> QED
    BY <1>1, <2>2, <2>3, <2>4
    DEF StepRuns, TypeOK, page, read, form, ghosts
<1>2. CASE StepReverts
  <2>1. status = "running" /\ status' = "failed" /\ refused' = FALSE
    BY <1>2 DEF StepReverts
  <2>2. UNCHANGED <<chain, page, read, order, at, receipt, form, changes,
                    faults, ghosts>>
    BY <1>2 DEF StepReverts
  <2>3. status' \in {"idle", "running", "failed", "lost", "done"}
        /\ refused' \in BOOLEAN
    BY <2>1
  <2>4. at' \in DOMAIN order'.calls /\ at' \in Nat /\ order' \in Order
        /\ receipt' \in {"none", "parked", "unindexed"}
    BY <2>1, <2>2 DEF TypeOK
  <2> QED
    BY <2>2, <2>3, <2>4 DEF TypeOK, chain, page, read, form, ghosts
<1>3. CASE Rejected
  BY <1>3 DEF Rejected, TypeOK, chain, page, read, form, ghosts
<1>4. CASE AnswerLost
  <2>1. Call \in Calls
    BY <1>4, CallType DEF AnswerLost
  <2>2. /\ plan' \in Plan /\ pending' \in BOOLEAN /\ blocked' \subseteq Legs
        /\ live' \in {"unknown", "live", "gone"}
    BY <1>4, <2>1, RunTypes DEF AnswerLost, chain, TypeOK
  <2> QED BY <1>4, <2>2 DEF AnswerLost, TypeOK, page, read, form, ghosts
<1>5. CASE Done
  <2>1. /\ draft' \in Draft /\ unread' = {"plan", "pending"}
        /\ reading' = "verify" /\ raced' = FALSE
    BY <1>5, StartReadTypes DEF Done
  <2> QED BY <1>5, <2>1 DEF Done, TypeOK, chain, page, sent, form
<1>6. CASE ReadFails
  <2>1. NoOrder \in Order
    BY DEF NoOrder, Order
  <2>2. /\ phase' \in {"closed", "preview", "flow", "deferred", "removed"}
        /\ order' \in Order /\ at' \in Nat
        /\ status' \in {"idle", "running", "failed", "lost", "done"}
        /\ status' \in {"running", "failed", "lost"} =>
             at' \in DOMAIN order'.calls
        /\ receipt' \in {"none", "parked", "unindexed"}
        /\ refused' \in BOOLEAN
    <3>1. CASE reading = "verify"
      <4>1. phase' = "preview" /\ order' = NoOrder /\ at' = 0
        BY <1>6, <3>1 DEF ReadFails
      <4>2. status' = "idle" /\ receipt' = "none" /\ refused' = FALSE
        BY <1>6, <3>1 DEF ReadFails
      <4> QED BY <2>1, <4>1, <4>2
    <3>2. CASE reading # "verify"
      BY <1>6, <3>2 DEF ReadFails, sent, TypeOK
    <3> QED BY <3>1, <3>2
  <2>3. /\ fresh' = NoRead /\ reading' = "none" /\ unread' = {}
        /\ faults' \in Nat
        /\ UNCHANGED <<chain, page, mode, remaining, changes, ghosts>>
    BY <1>6 DEF ReadFails, TypeOK
  <2> QED BY <2>2, <2>3 DEF TypeOK, chain, page, ghosts
<1> QED BY <1>1, <1>2, <1>3, <1>4, <1>5, <1>6

LEMMA OwnerTypes ==
  ASSUME TypeOK,
         \/ Open \/ ReadAgain \/ Start \/ Defer \/ ChooseMode
         \/ Retry \/ ContinueStepwise \/ WithdrawAvailable \/ CloseFlow
         \/ FinishDelete \/ Leave
  PROVE  TypeOK'
<1> USE DEF TypeOK
<1>0. NoOrder \in Order
  BY DEF NoOrder, Order
<1>1. CASE Open
  <2>1. /\ draft' \in Draft /\ unread' = {"plan", "pending"}
        /\ reading' = "preview" /\ raced' = FALSE
    BY <1>1, StartReadTypes DEF Open
  <2> QED BY <1>0, <1>1, <2>1 DEF Open, chain, page
<1>2. ASSUME NEW why \in {"preview", "retry", "stepwise", "part", "finish"},
             StartRead(why), UNCHANGED <<chain, page, fresh, changes, faults,
                                         funded, onTrust>>,
             phase' = phase \/ phase' = "preview",
             mode' = mode \/ mode' = "sequence", remaining' = remaining,
             \/ UNCHANGED sent
             \/ order' = NoOrder /\ at' = 0 /\ status' = "idle"
                /\ refused' = FALSE /\ receipt' = "none"
      PROVE  TypeOK'
  <2>1. /\ draft' \in Draft /\ unread' = {"plan", "pending"}
        /\ reading' = why /\ raced' = FALSE
    BY <1>2, StartReadTypes
  <2>2. /\ phase' \in {"closed", "preview", "flow", "deferred", "removed"}
        /\ mode' \in {"auto", "sequence"}
    BY <1>2
  <2>3. /\ order' \in Order /\ at' \in Nat
        /\ status' \in {"idle", "running", "failed", "lost", "done"}
        /\ status' \in {"running", "failed", "lost"} =>
             at' \in DOMAIN order'.calls
        /\ receipt' \in {"none", "parked", "unindexed"}
        /\ refused' \in BOOLEAN
    <3>1. CASE UNCHANGED sent
      BY <3>1 DEF sent
    <3>2. CASE order' = NoOrder /\ at' = 0 /\ status' = "idle"
               /\ refused' = FALSE /\ receipt' = "none"
      BY <1>0, <3>2
    <3> QED BY <1>2, <3>1, <3>2
  <2> QED BY <1>2, <2>1, <2>2, <2>3 DEF chain, page
<1>3. CASE ReadAgain
  BY <1>2, <1>3 DEF ReadAgain, form
<1>4. CASE Start
  <2>1. fresh \in Read
    BY <1>4 DEF Start, Previewing, NoRead
  <2>2. OrderFor(fresh, mode) \in Order
    BY <2>1, OrderTypes
  <2>3. /\ order' \in Order /\ at' \in Nat
        /\ status' \in {"running", "done"}
        /\ status' = "running" => at' \in DOMAIN order'.calls
        /\ refused' = FALSE /\ receipt' = "none" /\ funded' = FALSE
    BY <1>4, <2>2, SendTypes DEF Start, Preview
  <2> QED BY <1>4, <2>3 DEF Start, Overtaken, chain, page
<1>5. CASE Defer
  BY <1>5 DEF Defer, Overtaken, chain, page, sent, ghosts
<1>6. CASE ChooseMode
  BY <1>6 DEF ChooseMode, chain, page, read, sent, ghosts
<1>7. CASE Retry
  BY <1>2, <1>7 DEF Retry, form
<1>8. CASE ContinueStepwise
  BY <1>2, <1>8 DEF ContinueStepwise, Stuck
<1>9. CASE WithdrawAvailable
  BY <1>2, <1>9 DEF WithdrawAvailable, Stuck, form
<1>10. CASE CloseFlow
  BY <1>2, <1>10 DEF CloseFlow, Stuck
<1>11. CASE FinishDelete
  BY <1>2, <1>11 DEF FinishDelete, form
<1>12. CASE Leave
  BY <1>12 DEF Leave, chain, page, sent
<1> QED BY <1>1, <1>3, <1>4, <1>5, <1>6, <1>7, <1>8, <1>9, <1>10, <1>11, <1>12

LEMMA OtherTypes ==
  ASSUME TypeOK, Other \/ Clears \/ Poll
  PROVE  TypeOK'
<1>1. plan \in Plan
  BY DEF TypeOK
<1>2. CASE Other
  <2>1. /\ plan' \in Plan /\ pending' \in BOOLEAN /\ blocked' \subseteq Legs
        /\ live' \in {"unknown", "live", "gone"} /\ funded' \in BOOLEAN
    <3>1. CASE Deposit
      <4>1. plan' \in Plan
        <5>1. [[[plan EXCEPT !.shares = 1] EXCEPT !.worth = 1]
                  EXCEPT !.indexed = TRUE] \in Plan
          BY <1>1, UpdateTypes
        <5>2. plan.idle + 1 \in Nat
          BY <1>1 DEF Plan
        <5>3. [[plan EXCEPT !.idle = plan.idle + 1]
                 EXCEPT !.indexed = TRUE] \in Plan
          BY <1>1, <5>2, UpdateTypes
        <5> QED BY <3>1, <5>1, <5>3 DEF Deposit
      <4> QED BY <3>1, <4>1 DEF Deposit, TypeOK
    <3>2. CASE BoostElsewhere
      <4>1. [[[[plan EXCEPT !.idle = 0] EXCEPT !.shares = 1]
                EXCEPT !.worth = 1] EXCEPT !.boosted = TRUE] \in Plan
        BY <1>1, UpdateTypes
      <4> QED BY <3>2, <4>1 DEF BoostElsewhere, TypeOK
    <3>3. CASE PageOpens
      BY <3>3 DEF PageOpens, TypeOK
    <3>4. CASE SharesTurn
      <4>1. plan' \in Plan
        BY <1>1, <3>4 DEF SharesTurn, Plan
      <4> QED BY <3>4, <4>1 DEF SharesTurn, TypeOK
    <3>5. ASSUME NEW d \in BOOLEAN, NEW o \in BOOLEAN, PageBuys(d, o)
          PROVE  /\ plan' \in Plan /\ pending' \in BOOLEAN
                 /\ blocked' \subseteq Legs /\ funded' \in BOOLEAN
                 /\ live' \in {"unknown", "live", "gone"}
      <4>1. Withdrawn(plan, 1) \in Plan
        <5>1. CASE 1 <= plan.idle
          <6>1. plan.idle - 1 \in Nat
            BY <1>1, <5>1 DEF Plan
          <6> QED BY <1>1, <5>1, <6>1, UpdateTypes DEF Withdrawn
        <5>2. CASE ~(1 <= plan.idle)
          <6>1. [[plan EXCEPT !.idle = 0] EXCEPT !.shares = 0] \in Plan
            BY <1>1, UpdateTypes
          <6> QED BY <5>2, <6>1 DEF Withdrawn
        <5> QED BY <5>1, <5>2
      <4>2. plan' \in Plan
        <5>1. [Withdrawn(plan, 1) EXCEPT !.stock = 1] \in Plan
          BY <4>1, UpdateTypes
        <5> QED BY <3>5, <4>1, <5>1 DEF PageBuys, Bought
      <4> QED BY <3>5, <4>2 DEF PageBuys, TypeOK
    <3>6. ASSUME NEW c \in Calls, CallElsewhere(c)
          PROVE  /\ plan' \in Plan /\ pending' \in BOOLEAN
                 /\ blocked' \subseteq Legs /\ funded' \in BOOLEAN
                 /\ live' \in {"unknown", "live", "gone"}
      BY <3>6, RunTypes DEF CallElsewhere, TypeOK
    <3>7. ASSUME NEW leg \in Legs \ blocked, LegBlocks(leg)
          PROVE  /\ plan' \in Plan /\ pending' \in BOOLEAN
                 /\ blocked' \subseteq Legs /\ funded' \in BOOLEAN
                 /\ live' \in {"unknown", "live", "gone"}
      BY <3>7 DEF LegBlocks, TypeOK
    <3> QED BY <1>2, <3>1, <3>2, <3>3, <3>4, <3>5, <3>6, <3>7 DEF Other
  <2>2. changes' \in Nat /\ raced' \in BOOLEAN
    BY <1>2 DEF Other, TypeOK
  <2>3. UNCHANGED <<page, read, sent, form, faults, onTrust>>
    BY <1>2 DEF Other
  <2> QED BY <2>1, <2>2, <2>3 DEF TypeOK, page, read, sent, form
<1>3. CASE Clears
  <2>1. pending' \in BOOLEAN /\ blocked' \subseteq Legs
    BY <1>3 DEF Clears, TypeOK
  <2>2. raced' \in BOOLEAN
    BY <1>3 DEF Clears
  <2>3. UNCHANGED <<plan, live, page, read, sent, form, changes, faults,
                    funded, onTrust>>
    BY <1>3 DEF Clears
  <2> QED BY <2>1, <2>2, <2>3 DEF TypeOK, page, read, sent, form
<1>4. CASE Poll
  <2>1. row' \in [value : 0..1, empty : BOOLEAN]
    BY <1>1, <1>4, ValueType DEF Poll, RowOf
  <2> QED
    BY <1>4, <2>1 DEF Poll, TypeOK, chain, read, sent, form, ghosts
<1> QED BY <1>2, <1>3, <1>4

LEMMA NextTypes == TypeOK /\ [Next]_vars => TypeOK'
<1> SUFFICES ASSUME TypeOK, [Next]_vars PROVE TypeOK'
  OBVIOUS
<1>1. CASE UNCHANGED vars
  BY <1>1 DEF vars, chain, page, read, sent, form, ghosts, TypeOK
<1>2. CASE Form
  BY <1>2, ReadingTypes, OutcomeTypes, SequenceTypes, OwnerTypes DEF Form
<1>3. CASE Press
  BY <1>3, OwnerTypes DEF Press
<1> QED
  BY <1>1, <1>2, <1>3, SequenceTypes, OwnerTypes, OtherTypes DEF Next

(* The types of the form: a read that is used is complete, and there is a  *)
(* call under way whenever the sequence runs or has failed.                *)
THEOREM RemoveTypeCorrect == Spec => []TypeOK
BY InitTypes, NextTypes, PTL DEF Spec

-----------------------------------------------------------------------------
(* The inductive invariant of the outcome.                                 *)

(* Calls are sent, and the plan read for them, only while a flow is open;  *)
(* a receipt is kept no longer.                                            *)
FlowInv ==
  /\ status = "running" => phase = "flow"
  /\ reading = "finish" => phase = "deferred"
  /\ reading \in {"retry", "stepwise", "part", "verify"} => phase = "flow"
  /\ phase # "flow" => receipt = "none"

(* Only a close parks a plan.                                              *)
KindInv ==
  order.kind # "close" =>
    order.calls \in Seq(Calls \ {"close"}) /\ receipt # "parked"

Settled == EmptyPlan(plan) /\ ~plan.indexed

(* After the receipt that took it out, only a deposit brings a plan back.  *)
GoneInv == receipt = "unindexed" /\ ~funded => Settled

OutcomeInv ==
  TypeOK /\ GoneIsUnindexed /\ FlowInv /\ KindInv /\ GoneInv /\ RemovedIsGone

LEMMA InitOutcome == Init => OutcomeInv
<1> SUFFICES ASSUME Init PROVE OutcomeInv
  OBVIOUS
<1>1. TypeOK
  BY InitTypes
<1>2. /\ live = "unknown" /\ status = "idle" /\ reading = "none"
      /\ receipt = "none" /\ phase = "closed" /\ order = NoOrder
  BY DEF Init
<1>3. order.calls \in Seq(Calls \ {"close"})
  BY <1>2 DEF NoOrder
<1> QED
  BY <1>1, <1>2, <1>3
  DEF OutcomeInv, GoneIsUnindexed, FlowInv, KindInv, GoneInv, RemovedIsGone

LEMMA ClosedIsEmpty ==
  ASSUME NEW p \in Plan
  PROVE  /\ EmptyPlan(Closed(p))
         /\ ~Parks(p) => ~Closed(p).indexed
         /\ Parks(p) => Closed(p).indexed = p.indexed
<1> DEFINE q == [Unboosted(p) EXCEPT !.idle = 0, !.stock = 0]
<1>1. /\ q.idle = 0 /\ q.stock = 0 /\ q.shares = 0 /\ q.indexed = p.indexed
      /\ DOMAIN q = DOMAIN p
  BY DEF Unboosted, Plan
<1>2. DOMAIN p = {"idle", "shares", "worth", "stock", "boosted", "paused",
                  "indexed"}
  BY DEF Plan
<1>3. Closed(p) = IF Parks(p) THEN [q EXCEPT !.paused = TRUE]
                  ELSE [q EXCEPT !.indexed = FALSE]
  BY DEF Closed
<1> HIDE DEF q
<1> QED BY <1>1, <1>2, <1>3 DEF EmptyPlan

(* What is taken out by a call is no longer iterated over.                 *)
LEMMA RunKeepsGone ==
  ASSUME TypeOK, GoneIsUnindexed, NEW c \in Calls, Runs(c)
  PROVE  GoneIsUnindexed'
<1>1. plan \in Plan
  BY DEF TypeOK
<1>2. plan' = After(c) /\ live' = LiveAfter(c)
  BY DEF Runs
<1>3. CASE c \in {"unboost", "withdraw", "part", "claim"}
  <2>1. live' = live
    BY <1>2, <1>3 DEF LiveAfter
  <2>2. plan'.indexed = plan.indexed
    BY <1>1, <1>2, <1>3 DEF After, Unboosted, Withdrawn, Plan
  <2> QED BY <2>1, <2>2 DEF GoneIsUnindexed
<1>4. CASE c = "prune"
  BY <1>1, <1>2, <1>4 DEF After, GoneIsUnindexed, Plan
<1>5. CASE c = "close"
  <2>1. CASE Parks(plan)
    <3>1. live' = live /\ plan.indexed
      BY <1>2, <1>5, <2>1 DEF LiveAfter, Parks
    <3> QED BY <3>1, <1>1 DEF GoneIsUnindexed, TypeOK
  <2>2. CASE ~Parks(plan)
    <3>1. plan'.indexed = FALSE
      BY <1>1, <1>2, <1>5, <2>2 DEF After, Closed, Unboosted, Plan
    <3> QED BY <3>1 DEF GoneIsUnindexed
  <2> QED BY <2>1, <2>2
<1> QED BY <1>3, <1>4, <1>5 DEF Calls

(* An empty plan that is out of the list has nothing any call could take.  *)
LEMMA RunKeepsSettled ==
  ASSUME TypeOK, Settled, NEW c \in Calls, Runs(c)
  PROVE  Settled'
<1>1. plan \in Plan /\ order \in Order
  BY DEF TypeOK
<1>2. /\ plan.idle = 0 /\ plan.stock = 0 /\ plan.shares = 0 /\ ~plan.indexed
      /\ Value(plan) = 0
  BY <1>1 DEF Settled, EmptyPlan, Value, Plan
<1>3. plan' = After(c) /\ Applies(c)
  BY DEF Runs, GoesThrough
<1>4. c \notin {"withdraw", "part", "claim"}
  BY <1>1, <1>2, <1>3 DEF Applies, Order
<1>5. CASE c = "unboost"
  <2>1. plan' = [plan EXCEPT !.idle = plan.idle + Value(plan), !.shares = 0,
                             !.boosted = FALSE]
    BY <1>3, <1>5 DEF After, Unboosted
  <2>2. /\ plan'.idle = plan.idle + Value(plan) /\ plan'.shares = 0
        /\ plan'.stock = plan.stock /\ plan'.indexed = plan.indexed
    BY <1>1, <2>1 DEF Plan
  <2> QED BY <1>2, <2>2 DEF Settled, EmptyPlan
<1>6. CASE c = "prune"
  BY <1>1, <1>2, <1>3, <1>6 DEF After, Plan, Settled, EmptyPlan
<1>7. CASE c = "close"
  <2>1. ~Parks(plan)
    BY <1>2 DEF Parks
  <2> QED BY <1>1, <1>3, <1>7, <2>1, ClosedIsEmpty DEF After, Settled
<1> QED BY <1>4, <1>5, <1>6, <1>7 DEF Calls

(* What the receipt of a call says of the plan is so.                      *)
LEMMA RunSettles ==
  ASSUME TypeOK, NEW c \in {"prune", "close"}, Runs(c), c = "close" => ~Parks(plan)
  PROVE  Settled'
<1>1. plan \in Plan
  BY DEF TypeOK
<1>2. plan' = After(c) /\ Applies(c)
  BY DEF Runs, GoesThrough
<1>3. CASE c = "prune"
  BY <1>1, <1>2, <1>3 DEF Applies, After, Plan, Settled, EmptyPlan
<1>4. CASE c = "close"
  BY <1>1, <1>2, <1>4, ClosedIsEmpty DEF After, Settled
<1> QED BY <1>3, <1>4

LEMMA OtherKeepsSettled ==
  ASSUME TypeOK, Settled, Other, ~(Deposit /\ funded' = (phase # "closed"))
  PROVE  Settled' /\ funded' = funded
<1>1. plan \in Plan /\ pending \in BOOLEAN
  BY DEF TypeOK
<1>2. plan.idle = 0 /\ plan.shares = 0 /\ plan.stock = 0 /\ ~plan.indexed
  BY DEF Settled, EmptyPlan
<1>3. ~BoostElsewhere /\ ~SharesTurn
  BY <1>1, <1>2 DEF BoostElsewhere, SharesTurn
<1>4. \A d, o \in BOOLEAN : ~PageBuys(d, o)
  BY <1>2 DEF PageBuys
<1>5. ASSUME PageOpens \/ \E leg \in Legs \ blocked : LegBlocks(leg)
      PROVE  Settled' /\ funded' = funded
  BY <1>5 DEF PageOpens, LegBlocks, Settled
<1>6. ASSUME NEW c \in Calls, CallElsewhere(c)
      PROVE  Settled' /\ funded' = funded
  BY <1>6, RunKeepsSettled DEF CallElsewhere
<1> QED BY <1>3, <1>4, <1>5, <1>6 DEF Other, Deposit

LEMMA OtherKeepsGone ==
  ASSUME TypeOK, GoneIsUnindexed, Other
  PROVE  GoneIsUnindexed'
<1>1. plan \in Plan
  BY DEF TypeOK
<1>2. CASE Deposit
  BY <1>2 DEF Deposit, GoneIsUnindexed
<1>3. ASSUME NEW c \in Calls, CallElsewhere(c) PROVE GoneIsUnindexed'
  BY <1>3, RunKeepsGone DEF CallElsewhere
<1>4. CASE PageOpens \/ \E leg \in Legs \ blocked : LegBlocks(leg)
  BY <1>4 DEF PageOpens, LegBlocks, GoneIsUnindexed
<1>5. CASE BoostElsewhere \/ SharesTurn
  BY <1>1, <1>5 DEF BoostElsewhere, SharesTurn, GoneIsUnindexed, Plan
<1>6. ASSUME NEW d \in BOOLEAN, NEW o \in BOOLEAN, PageBuys(d, o)
      PROVE  GoneIsUnindexed'
  <2>1. plan.indexed /\ live' = live
    BY <1>6 DEF PageBuys
  <2> QED BY <2>1 DEF GoneIsUnindexed
<1> QED BY <1>2, <1>3, <1>4, <1>5, <1>6 DEF Other

(* A step of the form that leaves the plan, and what is known of it, alone *)
(* or forgets the receipt.                                                 *)
LEMMA QuietOutcome ==
  ASSUME OutcomeInv, TypeOK', UNCHANGED <<plan, live>>,
         FlowInv', KindInv',
         receipt' # "unindexed" \/ (receipt' = receipt /\ funded' = funded),
         \/ phase' # "removed"
         \/ phase' = phase /\ funded' = funded /\ onTrust' = onTrust
  PROVE  OutcomeInv'
BY DEF OutcomeInv, GoneIsUnindexed, GoneInv, RemovedIsGone, Settled, EmptyPlan

LEMMA OrderKinds ==
  ASSUME NEW f \in Read, NEW m, NEW o,
         o = OrderFor(f, m) \/ o = PartialWithdraw(f)
  PROVE  o.kind # "close" => o.calls \in Seq(Calls \ {"close"})
<1> DEFINE C == Calls \ {"close"}
<1>1. CASE o = PartialWithdraw(f)
  BY <1>1 DEF PartialWithdraw, Calls
<1>2. CASE o = OrderFor(f, m)
  <2>1. /\ f.boosted \in BOOLEAN /\ (f.idle + f.value > 0) \in BOOLEAN
        /\ (f.stock > 0) \in BOOLEAN /\ (~f.pending) \in BOOLEAN
    BY DEF Read
  <2>2. \A b \in BOOLEAN, c \in C : Leg(b, c) \in Seq(C)
    <3> HIDE DEF C
    <3> QED BY LegType
  <2>3. \A s, t \in Seq(C) : s \o t \in Seq(C)
    BY ConcatProperties
  <2>4. RemoveOrder(f).calls \in Seq(C)
    <3>1. /\ Leg(f.boosted, "unboost") \in Seq(C)
          /\ Leg(f.idle + f.value > 0, "withdraw") \in Seq(C)
          /\ Leg(f.stock > 0, "claim") \in Seq(C)
          /\ Leg(~f.pending, "prune") \in Seq(C)
      BY <2>1, <2>2 DEF Calls
    <3> QED BY <2>3, <3>1 DEF RemoveOrder
  <2>5. CloseOrder(f).kind = "close"
    BY DEF CloseOrder
  <2> QED BY <1>2, <2>4, <2>5 DEF OrderFor
<1> QED BY <1>1, <1>2

LEMMA SendKinds ==
  ASSUME NEW f \in Read, NEW m,
         Send(OrderFor(f, m)) \/ Send(PartialWithdraw(f))
  PROVE  KindInv' /\ receipt' = "none"
BY OrderKinds DEF Send, KindInv

LEMMA NoOrderKind == order' = NoOrder /\ receipt' = "none" => KindInv'
BY DEF NoOrder, KindInv

LEMMA ReadingOutcome ==
  ASSUME OutcomeInv, TypeOK',
         ReadPlan \/ ReadPending \/ Previewed \/ Done \/ ReadAgain \/ ChooseMode
           \/ Retry \/ ContinueStepwise \/ WithdrawAvailable \/ FinishDelete
           \/ Rejected \/ StepReverts \/ Poll \/ Clears \/ Defer
  PROVE  OutcomeInv'
<1> DEFINE Kept == /\ UNCHANGED <<plan, live, order, receipt, funded, onTrust>>
                   /\ \/ phase' = phase
                      \/ Defer /\ phase = "preview" /\ phase' = "deferred"
                   /\ status' = status \/ status' = "failed"
           Reads == \/ reading' = reading \/ reading' \in {"none", "preview"}
                    \/ reading' = "finish" /\ phase' = "deferred"
                    \/ /\ reading' \in {"retry", "stepwise", "part", "verify"}
                       /\ phase' = "flow"
<1>1. Kept /\ Reads
  <2>1. CASE ReadPlan \/ ReadPending
    BY <2>1 DEF ReadPlan, ReadPending, chain, sent, form, ghosts
  <2>2. CASE Previewed
    BY <2>2 DEF Previewed, Answered, chain, sent, form, ghosts
  <2>3. CASE Done
    BY <2>3 DEF Done, StartRead, chain, sent, form
  <2>4. CASE ReadAgain \/ FinishDelete
    BY <2>4 DEF ReadAgain, FinishDelete, StartRead, chain, sent, form
  <2>5. CASE Retry \/ WithdrawAvailable
    BY <2>5 DEF Retry, WithdrawAvailable, Stuck, StartRead, chain, sent,
                 form
  <2>6. CASE ContinueStepwise
    BY <2>6 DEF ContinueStepwise, Stuck, StartRead, chain, sent
  <2>7. CASE ChooseMode
    BY <2>7 DEF ChooseMode, chain, sent, read, ghosts
  <2>8. CASE Rejected \/ StepReverts
    BY <2>8 DEF Rejected, StepReverts, chain, read, form, ghosts
  <2>9. CASE Poll
    BY <2>9 DEF Poll, chain, sent, form, read, ghosts
  <2>10. CASE Clears
    <3>1. UNCHANGED <<plan, live, page, read, sent, form, changes, faults,
                      funded, onTrust>>
      BY <2>10 DEF Clears
    <3> QED BY <3>1 DEF sent, form, read
  <2>11. CASE Defer
    BY <2>11 DEF Defer, Previewing, Overtaken, chain, sent, ghosts
  <2> QED BY <2>1, <2>2, <2>3, <2>4, <2>5, <2>6, <2>7, <2>8, <2>9, <2>10, <2>11
<1>3. Defer => reading' = "none"
  BY DEF Defer, Overtaken
<1>4. FlowInv /\ KindInv
  BY DEF OutcomeInv
<1>5. FlowInv'
  BY <1>1, <1>3, <1>4 DEF FlowInv
<1>6. KindInv'
  BY <1>1, <1>4 DEF KindInv
<1> QED BY <1>1, <1>5, <1>6, QuietOutcome

LEMMA FormOutcome ==
  ASSUME OutcomeInv, TypeOK',
         Open \/ Start \/ CloseFlow \/ Leave \/ ReadFails
           \/ Resume \/ ResumePart \/ Finish
  PROVE  OutcomeInv'
<1> USE DEF FlowInv
<1>1. FlowInv /\ KindInv /\ TypeOK
  BY DEF OutcomeInv
<1>2. UNCHANGED <<plan, live>>
  BY DEF Open, Start, CloseFlow, Leave, ReadFails, Resume, ResumePart, Finish,
         Stuck, chain
<1>3. CASE Open
  BY <1>2, <1>3, NoOrderKind, QuietOutcome DEF Open, StartRead
<1>4. CASE Start
  <2>1. fresh \in Read
    BY <1>1, <1>4 DEF Start, Previewing, TypeOK, NoRead
  <2>2. KindInv' /\ receipt' = "none"
    BY <1>4, <2>1, SendKinds DEF Start, Preview
  <2> QED BY <1>2, <1>4, <2>2, QuietOutcome DEF Start, Overtaken
<1>5. CASE CloseFlow
  BY <1>2, <1>5, NoOrderKind, QuietOutcome DEF CloseFlow, Stuck, StartRead
<1>6. CASE Leave
  <2>1. UNCHANGED sent /\ phase' = "closed" /\ reading' = "none"
        /\ phase # "flow"
    BY <1>6 DEF Leave
  <2>2. receipt' = "none" /\ status' # "running" /\ KindInv'
    BY <1>1, <2>1 DEF sent, KindInv
  <2> QED BY <1>2, <2>1, <2>2, QuietOutcome
<1>7. CASE ReadFails
  <2>1. reading' = "none" /\ UNCHANGED ghosts
    BY <1>7 DEF ReadFails
  <2>2. CASE reading = "verify"
    BY <1>2, <1>7, <2>1, <2>2, NoOrderKind, QuietOutcome DEF ReadFails
  <2>3. CASE reading # "verify"
    <3>1. UNCHANGED <<phase, sent>>
      BY <1>7, <2>3 DEF ReadFails
    <3> QED BY <1>1, <1>2, <2>1, <3>1, QuietOutcome DEF sent, KindInv, ghosts
  <2> QED BY <2>2, <2>3
<1>8. ASSUME Answered PROVE Found \in Read /\ reading' = "none"
  BY <1>1, <1>8, AnsweredTypes
<1>9. CASE Resume
  <2>1. phase = "flow" /\ phase' = phase /\ Answered
    BY <1>1, <1>9 DEF Resume, form
  <2>2. SendNothing \/ \E m : Send(OrderFor(Found, m))
    BY <1>9 DEF Resume
  <2>3. KindInv' /\ receipt' = "none"
    <3>1. CASE SendNothing
      BY <1>1, <3>1 DEF SendNothing, KindInv
    <3> QED BY <1>8, <2>1, <2>2, <3>1, SendKinds
  <2> QED BY <1>2, <1>8, <2>1, <2>3, QuietOutcome
<1>10. CASE ResumePart
  <2>1. phase = "flow" /\ phase' = phase /\ Answered
    BY <1>1, <1>10 DEF ResumePart, form
  <2>2. UNCHANGED <<sent, funded>> \/ Send(PartialWithdraw(Found))
    BY <1>10 DEF ResumePart
  <2>3. CASE UNCHANGED <<sent, funded>>
    BY <1>1, <1>2, <1>8, <2>1, <2>3, QuietOutcome DEF sent, KindInv
  <2>4. CASE Send(PartialWithdraw(Found))
    <3>1. KindInv' /\ receipt' = "none"
      BY <1>8, <2>1, <2>4, SendKinds
    <3> QED BY <1>2, <1>8, <2>1, <3>1, QuietOutcome
  <2> QED BY <2>2, <2>3, <2>4
<1>11. CASE Finish
  <2>1. phase = "deferred" /\ Answered /\ receipt = "none"
    BY <1>1, <1>11 DEF Finish
  <2>2. \/ UNCHANGED <<sent, funded>> /\ phase' \in {"preview", "deferred"}
        \/ Send(OrderFor(Found, mode)) /\ phase' = "flow"
    BY <1>11, <2>1 DEF Finish
  <2>3. CASE UNCHANGED <<sent, funded>> /\ phase' \in {"preview", "deferred"}
    BY <1>1, <1>2, <1>8, <2>1, <2>3, QuietOutcome DEF sent, KindInv
  <2>4. CASE Send(OrderFor(Found, mode)) /\ phase' = "flow"
    <3>1. KindInv' /\ receipt' = "none"
      BY <1>8, <2>1, <2>4, SendKinds
    <3> QED BY <1>2, <1>8, <2>1, <2>4, <3>1, QuietOutcome
  <2> QED BY <2>2, <2>3, <2>4
<1> QED BY <1>3, <1>4, <1>5, <1>6, <1>7, <1>9, <1>10, <1>11

(* The decision: what the receipt said is so, unless a deposit landed.     *)
LEMMA VerifyOutcome ==
  ASSUME OutcomeInv, TypeOK', NEW known \in BOOLEAN, Verify(known)
  PROVE  OutcomeInv'
<1>1. /\ UNCHANGED <<plan, live, funded>> /\ reading' = "none"
      /\ order' = NoOrder /\ receipt' = "none" /\ status' = "idle"
  BY DEF Verify, Answered, chain
<1>2. phase' \in {"preview", "removed", "deferred"}
  BY DEF Verify
<1>3. FlowInv' /\ KindInv'
  BY <1>1, <1>2, NoOrderKind DEF FlowInv
<1>4. RemovedIsGone'
  <2> SUFFICES ASSUME phase' = "removed", ~funded', ~onTrust'
               PROVE  Settled
    BY <1>1 DEF RemovedIsGone, Settled, EmptyPlan
  <2>1. Unindexed(known) /\ receipt # "none" /\ known
    BY DEF Verify
  <2>2. receipt = "unindexed"
    BY <2>1 DEF Unindexed, OutcomeInv, KindInv, TypeOK
  <2> QED BY <1>1, <2>2 DEF OutcomeInv, GoneInv
<1> QED
  BY <1>1, <1>3, <1>4 DEF OutcomeInv, GoneIsUnindexed, GoneInv

LEMMA CallOutcome ==
  ASSUME OutcomeInv, TypeOK', StepRuns \/ AnswerLost
  PROVE  OutcomeInv'
<1>1. TypeOK /\ GoneIsUnindexed /\ FlowInv /\ KindInv /\ GoneInv /\ RemovedIsGone
  BY DEF OutcomeInv
<1>2. /\ status = "running" /\ phase = "flow" /\ phase' = phase
      /\ UNCHANGED <<order, funded, onTrust, reading>>
      /\ Call \in Calls
  BY <1>1, CallType DEF StepRuns, AnswerLost, FlowInv, form, ghosts, read
<1>3. FlowInv'
  BY <1>1, <1>2 DEF FlowInv
<1>4. RemovedIsGone'
  BY <1>2 DEF RemovedIsGone
<1>5. CASE StepRuns
  <2>1. Runs(Call)
    BY <1>5 DEF StepRuns
  <2>2. GoneIsUnindexed'
    BY <1>1, <1>2, <2>1, RunKeepsGone
  <2>3. order.kind # "close" => Call # "close"
    <3>1. order.calls \in Seq(Calls) /\ at \in DOMAIN order.calls
      BY <1>1, <1>2 DEF TypeOK, Order
    <3> QED BY <1>1, <3>1 DEF KindInv, Call
  <2>4. /\ Call \notin {"close", "prune"} => receipt' = receipt
        /\ receipt' = "parked" => receipt = "parked" \/ Call = "close"
        /\ receipt' = "unindexed" /\ Call \in {"close", "prune"} =>
             (Call = "close" => ~Parks(plan))
    BY <1>5 DEF StepRuns
  <2>5. KindInv'
    BY <1>1, <1>2, <2>3, <2>4 DEF KindInv
  <2>6. GoneInv'
    <3>1. CASE Call \in {"close", "prune"}
      BY <1>1, <2>1, <2>4, <3>1, RunSettles DEF GoneInv
    <3>2. CASE Call \notin {"close", "prune"}
      BY <1>1, <1>2, <2>1, <2>4, <3>2, RunKeepsSettled DEF GoneInv
    <3> QED BY <3>1, <3>2
  <2> QED BY <1>3, <1>4, <2>2, <2>5, <2>6 DEF OutcomeInv
<1>6. CASE AnswerLost
  <2>1. Runs(Call) \/ UNCHANGED <<plan, live>>
    BY <1>6 DEF AnswerLost, chain
  <2>2. receipt' = receipt
    BY <1>6 DEF AnswerLost
  <2>3. GoneIsUnindexed'
    BY <1>1, <1>2, <2>1, RunKeepsGone DEF GoneIsUnindexed
  <2>4. Settled => Settled'
    BY <1>1, <1>2, <2>1, RunKeepsSettled DEF Settled, EmptyPlan
  <2>5. KindInv' /\ GoneInv'
    BY <1>1, <1>2, <2>2, <2>4 DEF KindInv, GoneInv
  <2> QED BY <1>3, <1>4, <2>3, <2>5 DEF OutcomeInv
<1> QED BY <1>5, <1>6

LEMMA OtherOutcome ==
  ASSUME OutcomeInv, TypeOK', Other
  PROVE  OutcomeInv'
<1>1. TypeOK /\ GoneIsUnindexed /\ FlowInv /\ KindInv /\ GoneInv /\ RemovedIsGone
  BY DEF OutcomeInv
<1>2. UNCHANGED <<phase, reading, order, receipt, status, onTrust>>
  BY DEF Other, sent, form, read
<1>3. GoneIsUnindexed'
  BY <1>1, OtherKeepsGone
<1>4. FlowInv' /\ KindInv'
  BY <1>1, <1>2 DEF FlowInv, KindInv
<1>5. GoneInv' /\ RemovedIsGone'
  <2>1. CASE Deposit /\ funded' = (phase # "closed")
    BY <1>1, <1>2, <2>1 DEF GoneInv, RemovedIsGone, FlowInv
  <2>2. CASE ~(Deposit /\ funded' = (phase # "closed"))
    <3>1. Settled => Settled' /\ funded' = funded
      BY <1>1, <2>2, OtherKeepsSettled
    <3>2. funded' = funded
      BY <2>2 DEF Other, Deposit, BoostElsewhere, PageOpens, SharesTurn,
                  PageBuys, CallElsewhere, LegBlocks
    <3> QED BY <1>1, <1>2, <3>1, <3>2 DEF GoneInv, RemovedIsGone, Settled
  <2> QED BY <2>1, <2>2
<1> QED BY <1>3, <1>4, <1>5 DEF OutcomeInv

LEMMA NextOutcome == OutcomeInv /\ [Next]_vars => OutcomeInv'
<1> SUFFICES ASSUME OutcomeInv, [Next]_vars PROVE OutcomeInv'
  OBVIOUS
<1>1. TypeOK'
  BY NextTypes DEF OutcomeInv
<1>2. CASE UNCHANGED vars
  BY <1>1, <1>2, QuietOutcome
  DEF vars, chain, page, read, sent, form, ghosts, OutcomeInv, FlowInv, KindInv
<1>3. CASE Form
  BY <1>1, <1>3, ReadingOutcome, FormOutcome, VerifyOutcome, CallOutcome
  DEF Form
<1>4. CASE Press
  BY <1>1, <1>4, ReadingOutcome, FormOutcome DEF Press
<1> QED
  BY <1>1, <1>2, <1>3, <1>4, ReadingOutcome, FormOutcome, CallOutcome,
     OtherOutcome
  DEF Next

(* The logs never call a plan gone that the vault still iterates over.     *)
THEOREM GoneIsGone == Spec => []GoneIsUnindexed
<1>1. OutcomeInv => GoneIsUnindexed
  BY DEF OutcomeInv
<1> QED BY <1>1, InitOutcome, NextOutcome, PTL DEF Spec

(* "Plan removed" is true whenever a receipt tells the outcome and no      *)
(* deposit has landed since the calls were built.                          *)
THEOREM RemovedPlansAreGone == Spec => []RemovedIsGone
<1>1. OutcomeInv => RemovedIsGone
  BY DEF OutcomeInv
<1> QED BY <1>1, InitOutcome, NextOutcome, PTL DEF Spec

-----------------------------------------------------------------------------
(* The inductive invariant of the calls.                                   *)

Has(s, c) == \E k \in 1..Len(s) : s[k] = c

Distinct(s) == \A i, j \in 1..Len(s) : i # j => s[i] # s[j]

(* No call twice; a prune comes last, a part or a close alone.             *)
Built(cs) ==
  /\ Distinct(cs)
  /\ \A i \in 1..Len(cs) :
       /\ cs[i] = "prune" => i = Len(cs)
       /\ cs[i] \in {"part", "close"} => Len(cs) = 1

ToSend(c) == \E k \in at..Len(order.calls) : order.calls[k] = c

Worth(p) == p.idle + Value(p)

(* The calls still to be sent are those the plan needs.                    *)
Fits ==
  /\ ToSend("withdraw") => Worth(plan) > 0
  /\ ToSend("claim") => plan.stock > 0
  /\ ToSend("part") => order.part > 0 /\ order.part <= Worth(plan)
  /\ ToSend("prune") => /\ ~pending
                        /\ Worth(plan) > 0 => ToSend("withdraw")
                        /\ plan.stock > 0 => ToSend("claim")
                        /\ plan.shares > 0 => ToSend("unboost")

(* A read is what the plan is.                                             *)
Matches(f) ==
  /\ f.idle = plan.idle /\ f.stock = plan.stock /\ f.shares = plan.shares
  /\ f.boosted = plan.boosted /\ f.value = Value(plan) /\ f.pending = pending

(* Nothing is read while a call is under way.                              *)
ReadingInv ==
  /\ reading \in {"retry", "stepwise", "part"} => status \in {"failed", "lost"}
  /\ reading = "verify" => status = "done"
  /\ reading = "preview" => phase = "preview"

DraftInv ==
  reading # "none" /\ ~raced =>
    /\ "plan" \notin unread => draft.plan = plan /\ draft.value = Value(plan)
    /\ "pending" \notin unread => draft.pending = pending

FreshInv ==
  phase = "preview" /\ reading = "none" /\ fresh.ok /\ ~raced => Matches(fresh)

(* Only a boosted plan has shares.                                         *)
Lent == plan.shares > 0 => plan.boosted

FitInv ==
  /\ Lent
  /\ Built(order.calls)
  /\ ReadingInv /\ DraftInv /\ FreshInv
  /\ status = "running" /\ ~raced => Fits

LEMMA WorthType ==
  ASSUME NEW p \in Plan
  PROVE  Worth(p) \in Nat /\ p.idle <= Worth(p)
<1>1. Value(p) \in 0..1 /\ p.idle \in Nat
  BY ValueType DEF Plan
<1> QED BY <1>1 DEF Worth

LEMMA AddLeg ==
  ASSUME NEW s \in Seq(Calls), NEW c \in Calls, NEW b \in BOOLEAN,
         Distinct(s), ~Has(s, c)
  PROVE  /\ s \o Leg(b, c) \in Seq(Calls)
         /\ Distinct(s \o Leg(b, c))
         /\ \A x : Has(s \o Leg(b, c), x) <=> Has(s, x) \/ (b /\ x = c)
         /\ b => (s \o Leg(b, c))[Len(s \o Leg(b, c))] = c
<1>1. CASE b
  <2> DEFINE t == s \o <<c>>
  <2>1. <<c>> \in Seq(Calls) /\ Len(<<c>>) = 1 /\ <<c>>[1] = c
    OBVIOUS
  <2>2. /\ t \in Seq(Calls) /\ Len(t) = Len(s) + 1
        /\ \A i \in 1..Len(s) : t[i] = s[i]
        /\ t[Len(s) + 1] = c
    <3>1. /\ t \in Seq(Calls) /\ Len(t) = Len(s) + Len(<<c>>)
          /\ \A i \in 1..(Len(s) + Len(<<c>>)) :
               t[i] = IF i <= Len(s) THEN s[i] ELSE <<c>>[i - Len(s)]
      BY <2>1, ConcatProperties
    <3>2. Len(s) \in Nat
      OBVIOUS
    <3> QED BY <2>1, <3>1, <3>2
  <2>3. t = s \o Leg(b, c)
    BY <1>1 DEF Leg
  <2>4. Distinct(t)
    <3> HIDE DEF t
    <3> SUFFICES ASSUME NEW i \in 1..Len(t), NEW j \in 1..Len(t), i # j
                 PROVE  t[i] # t[j]
      BY DEF Distinct
    <3>1. Len(s) \in Nat
      OBVIOUS
    <3>2. CASE i \in 1..Len(s) /\ j \in 1..Len(s)
      BY <2>2, <3>2 DEF Distinct
    <3>3. CASE i \notin 1..Len(s)
      <4>1. i = Len(s) + 1 /\ j \in 1..Len(s)
        BY <2>2, <3>1, <3>3
      <4> QED BY <2>2, <4>1 DEF Has
    <3>4. CASE j \notin 1..Len(s)
      <4>1. j = Len(s) + 1 /\ i \in 1..Len(s)
        BY <2>2, <3>1, <3>4
      <4> QED BY <2>2, <4>1 DEF Has
    <3> QED BY <3>2, <3>3, <3>4
  <2>5. \A x : Has(t, x) <=> Has(s, x) \/ x = c
    <3> HIDE DEF t
    <3> TAKE x
    <3>1. Len(s) \in Nat
      OBVIOUS
    <3>2. ASSUME NEW i \in 1..Len(t), t[i] = x PROVE Has(s, x) \/ x = c
      <4>1. i \in 1..Len(s) \/ i = Len(s) + 1
        BY <2>2, <3>1
      <4> QED BY <2>2, <3>2, <4>1 DEF Has
    <3>3. ASSUME NEW i \in 1..Len(s), s[i] = x PROVE Has(t, x)
      <4>1. i \in 1..Len(t)
        BY <2>2, <3>1
      <4> QED BY <2>2, <3>3, <4>1 DEF Has
    <3>4. x = c => Has(t, x)
      <4>1. Len(s) + 1 \in 1..Len(t)
        BY <2>2, <3>1
      <4> QED BY <2>2, <4>1 DEF Has
    <3> QED BY <3>2, <3>3, <3>4 DEF Has
  <2> HIDE DEF t
  <2>6. t[Len(t)] = c
    BY <2>2
  <2> QED BY <1>1, <2>2, <2>3, <2>4, <2>5, <2>6
<1>2. CASE ~b
  <2>1. s \o Leg(b, c) = s
    BY <1>2, ConcatEmptySeq DEF Leg
  <2> QED BY <1>2, <2>1
<1> QED BY <1>1, <1>2

LEMMA FirstLeg ==
  ASSUME NEW c \in Calls, NEW b \in BOOLEAN
  PROVE  /\ Leg(b, c) \in Seq(Calls) /\ Distinct(Leg(b, c))
         /\ \A x : Has(Leg(b, c), x) <=> b /\ x = c
         /\ Len(Leg(b, c)) <= 1
<1>1. CASE b
  <2>1. Leg(b, c) = <<c>>
    BY <1>1 DEF Leg
  <2>2. /\ <<c>> \in Seq(Calls) /\ Len(<<c>>) = 1 /\ <<c>>[1] = c
        /\ \A i \in 1..1 : i = 1
    OBVIOUS
  <2>3. Distinct(<<c>>) /\ \A x : Has(<<c>>, x) <=> x = c
    BY <2>2 DEF Distinct, Has
  <2>4. \A x : Has(Leg(b, c), x) <=> b /\ x = c
    BY <1>1, <2>1, <2>3, Zenon
  <2>5. /\ Leg(b, c) \in Seq(Calls) /\ Distinct(Leg(b, c))
        /\ Len(Leg(b, c)) <= 1
    BY <2>1, <2>2, <2>3
  <2> QED BY <2>4, <2>5
<1>2. CASE ~b
  <2>1. Leg(b, c) = <<>> /\ Len(<<>>) = 0 /\ 1..0 = {} /\ <<>> \in Seq(Calls)
    BY <1>2 DEF Leg
  <2>2. Distinct(<<>>) /\ \A x : ~Has(<<>>, x)
    BY <2>1 DEF Distinct, Has
  <2> QED BY <1>2, <2>1, <2>2
<1> QED BY <1>1, <1>2

(* A removal has one call per leg, in an order that ends with the prune.   *)
LEMMA RemovalBuilt ==
  ASSUME NEW f \in Read
  PROVE  LET cs == RemoveOrder(f).calls
         IN /\ Built(cs) /\ cs \in Seq(Calls)
            /\ Has(cs, "unboost") <=> f.boosted
            /\ Has(cs, "withdraw") <=> f.idle + f.value > 0
            /\ Has(cs, "claim") <=> f.stock > 0
            /\ Has(cs, "prune") <=> ~f.pending
            /\ ~Has(cs, "part") /\ ~Has(cs, "close")
<1> DEFINE b1 == f.boosted
           b2 == f.idle + f.value > 0
           b3 == f.stock > 0
           b4 == ~f.pending
           s1 == Leg(b1, "unboost")
           s2 == s1 \o Leg(b2, "withdraw")
           s3 == s2 \o Leg(b3, "claim")
           s4 == s3 \o Leg(b4, "prune")
<1>0. /\ b1 \in BOOLEAN /\ b2 \in BOOLEAN /\ b3 \in BOOLEAN /\ b4 \in BOOLEAN
      /\ {"unboost", "withdraw", "claim", "prune"} \subseteq Calls
  BY DEF Read, Calls
<1>1. RemoveOrder(f).calls = s4
  BY DEF RemoveOrder
<1> HIDE DEF b1, b2, b3, b4
<1>2. /\ s1 \in Seq(Calls) /\ Distinct(s1)
      /\ \A x : Has(s1, x) <=> b1 /\ x = "unboost"
  BY <1>0, FirstLeg
<1> HIDE DEF s1
<1>3. /\ s2 \in Seq(Calls) /\ Distinct(s2)
      /\ \A x : Has(s2, x) <=> Has(s1, x) \/ (b2 /\ x = "withdraw")
  <2>1. ~Has(s1, "withdraw")
    BY <1>2
  <2> QED BY <1>0, <1>2, <2>1, AddLeg
<1> HIDE DEF s2
<1>4. /\ s3 \in Seq(Calls) /\ Distinct(s3)
      /\ \A x : Has(s3, x) <=> Has(s2, x) \/ (b3 /\ x = "claim")
  <2>1. ~Has(s2, "claim")
    BY <1>2, <1>3
  <2> QED BY <1>0, <1>3, <2>1, AddLeg
<1> HIDE DEF s3
<1>5. /\ s4 \in Seq(Calls) /\ Distinct(s4)
      /\ \A x : Has(s4, x) <=> Has(s3, x) \/ (b4 /\ x = "prune")
      /\ b4 => s4[Len(s4)] = "prune"
  <2>1. ~Has(s3, "prune")
    BY <1>2, <1>3, <1>4
  <2> QED BY <1>0, <1>4, <2>1, AddLeg
<1> HIDE DEF s4
<1>6. /\ Has(s4, "unboost") <=> b1
      /\ Has(s4, "withdraw") <=> b2
      /\ Has(s4, "claim") <=> b3
      /\ Has(s4, "prune") <=> b4
      /\ ~Has(s4, "part") /\ ~Has(s4, "close")
  BY <1>2, <1>3, <1>4, <1>5
<1>7. Built(s4)
  <2>1. ASSUME NEW i \in 1..Len(s4), s4[i] = "prune" PROVE i = Len(s4)
    <3>1. b4
      BY <1>6, <2>1 DEF Has
    <3>2. Len(s4) \in 1..Len(s4)
      BY <1>5
    <3> QED BY <1>5, <2>1, <3>1, <3>2 DEF Distinct
  <2>2. ASSUME NEW i \in 1..Len(s4) PROVE s4[i] \notin {"part", "close"}
    BY <1>6 DEF Has
  <2> QED BY <1>5, <2>1, <2>2 DEF Built
<1> QED BY <1>1, <1>5, <1>6, <1>7 DEF b1, b2, b3, b4

LEMMA CloseBuilt ==
  ASSUME NEW f \in Read
  PROVE  LET cs == CloseOrder(f).calls
         IN Built(cs) /\ cs \in Seq(Calls)
            /\ \A x : Has(cs, x) => x = "close"
<1> DEFINE b == ~(EmptyPlan(f) /\ f.pending)
<1>1. b \in BOOLEAN /\ "close" \in Calls
  BY DEF Calls
<1>2. CloseOrder(f).calls = Leg(b, "close")
  BY DEF CloseOrder
<1> HIDE DEF b
<1>3. /\ Leg(b, "close") \in Seq(Calls) /\ Distinct(Leg(b, "close"))
      /\ \A x : Has(Leg(b, "close"), x) <=> b /\ x = "close"
      /\ Len(Leg(b, "close")) <= 1
  BY <1>1, FirstLeg
<1>4. ASSUME NEW i \in 1..Len(Leg(b, "close"))
      PROVE  i = Len(Leg(b, "close")) /\ Len(Leg(b, "close")) = 1
  <2> DEFINE n == Len(Leg(b, "close"))
  <2>1. n \in Nat /\ n <= 1 /\ i \in 1..n
    BY <1>3
  <2> HIDE DEF n
  <2>2. i = n /\ n = 1
    BY <2>1
  <2> QED BY <2>2 DEF n
<1> QED BY <1>2, <1>3, <1>4 DEF Built

LEMMA PartBuilt ==
  ASSUME NEW f \in Read
  PROVE  LET cs == PartialWithdraw(f).calls
         IN Built(cs) /\ cs \in Seq(Calls)
            /\ \A x : Has(cs, x) => x = "part"
<1>1. PartialWithdraw(f).calls = Leg(TRUE, "part") /\ "part" \in Calls
  BY DEF PartialWithdraw, Leg, Calls
<1>2. /\ Leg(TRUE, "part") \in Seq(Calls) /\ Distinct(Leg(TRUE, "part"))
      /\ \A x : Has(Leg(TRUE, "part"), x) <=> x = "part"
      /\ Len(Leg(TRUE, "part")) = 1
  <2>1. Len(<<"part">>) = 1
    OBVIOUS
  <2> QED BY <1>1, <2>1, FirstLeg DEF Leg
<1>3. \A i \in 1..1 : i = 1
  OBVIOUS
<1> QED BY <1>1, <1>2, <1>3 DEF Built

LEMMA FitsKept ==
  ASSUME UNCHANGED <<plan, pending, order, at>>
  PROVE  (Fits => Fits') /\ (Lent => Lent')
BY DEF Fits, Lent, ToSend, Worth, Value

(* What is built from a read that is what the plan is fits the plan.       *)
LEMMA SendFits ==
  ASSUME TypeOK, Lent, NEW f \in Read, NEW m, NEW o, Send(o), UNCHANGED chain,
         \/ o = OrderFor(f, m)
         \/ o = PartialWithdraw(f) /\ f.idle > 0
  PROVE  Built(order'.calls) /\ (Matches(f) => Fits')
<1>1. order' = o /\ at' = 1 /\ plan' = plan /\ pending' = pending
  BY DEF Send, chain
<1>2. plan \in Plan /\ Worth(plan) \in Nat /\ plan.idle <= Worth(plan)
  BY WorthType DEF TypeOK
<1>3. /\ ToSend("withdraw")' <=> Has(o.calls, "withdraw")
      /\ ToSend("claim")' <=> Has(o.calls, "claim")
      /\ ToSend("part")' <=> Has(o.calls, "part")
      /\ ToSend("prune")' <=> Has(o.calls, "prune")
      /\ ToSend("unboost")' <=> Has(o.calls, "unboost")
  BY <1>1 DEF ToSend, Has
<1>4. Worth(plan)' = Worth(plan)
  BY <1>1 DEF Worth, Value
<1>5. CASE o = RemoveOrder(f)
  <2>1. /\ Built(o.calls)
        /\ Has(o.calls, "unboost") <=> f.boosted
        /\ Has(o.calls, "withdraw") <=> f.idle + f.value > 0
        /\ Has(o.calls, "claim") <=> f.stock > 0
        /\ Has(o.calls, "prune") <=> ~f.pending
        /\ ~Has(o.calls, "part")
    BY <1>5, RemovalBuilt
  <2>2. ASSUME Matches(f) PROVE Fits'
    <3>1. f.idle + f.value = Worth(plan)
      BY <2>2 DEF Matches, Worth
    <3>2. (ToSend("withdraw")' => Worth(plan)' > 0)
          /\ (Worth(plan)' > 0 => ToSend("withdraw")')
      BY <1>3, <1>4, <2>1, <3>1
    <3>3. (ToSend("claim")' => plan'.stock > 0)
          /\ (plan'.stock > 0 => ToSend("claim")')
      BY <1>1, <1>3, <2>1, <2>2 DEF Matches
    <3>4. plan'.shares > 0 => ToSend("unboost")'
      BY <1>1, <1>3, <2>1, <2>2 DEF Matches, Lent
    <3>5. ToSend("prune")' => ~pending'
      BY <1>1, <1>3, <2>1, <2>2 DEF Matches
    <3> QED BY <1>3, <2>1, <3>2, <3>3, <3>4, <3>5 DEF Fits
  <2> QED BY <1>1, <2>1, <2>2
<1>6. CASE o = CloseOrder(f)
  <2>1. Built(o.calls) /\ \A x : Has(o.calls, x) => x = "close"
    BY <1>6, CloseBuilt
  <2> QED BY <1>1, <1>3, <2>1 DEF Fits
<1>7. CASE o = PartialWithdraw(f) /\ f.idle > 0
  <2>1. Built(o.calls) /\ \A x : Has(o.calls, x) => x = "part"
    BY <1>7, PartBuilt
  <2>2. Matches(f) => order'.part > 0 /\ order'.part <= Worth(plan)'
    BY <1>1, <1>2, <1>4, <1>7 DEF Matches, PartialWithdraw
  <2> QED BY <1>1, <1>3, <2>1, <2>2 DEF Fits
<1> QED BY <1>5, <1>6, <1>7 DEF OrderFor

LEMMA FoundMatches ==
  ASSUME TypeOK, DraftInv, Answered, ~raced
  PROVE  Matches(Found)
<1>1. reading # "none" /\ unread = {}
  BY DEF Answered, Previewed, Resume, ResumePart, Finish, Verify
<1>2. /\ draft.plan = plan /\ draft.value = Value(plan)
      /\ draft.pending = pending
  BY <1>1 DEF DraftInv
<1> QED BY <1>2 DEF Matches, Found

(* While a call is under way nothing is being read.                        *)
LEMMA RunningReadsNothing ==
  ASSUME TypeOK, FlowInv, ReadingInv
  PROVE  /\ status = "running" => phase = "flow" /\ reading = "none"
         /\ reading # "none" => phase # "closed" /\ status # "running"
BY DEF TypeOK, FlowInv, ReadingInv

LEMMA InitFit == Init => FitInv
<1> SUFFICES ASSUME Init PROVE FitInv
  OBVIOUS
<1>1. plan.shares > 0 => plan.boosted
  BY DEF Init
<1>2. /\ reading = "none" /\ status = "idle" /\ phase = "closed"
      /\ order = NoOrder
  BY DEF Init
<1>3. Built(order.calls)
  <2>1. order.calls = <<>> /\ Len(<<>>) = 0 /\ 1..0 = {}
    BY <1>2 DEF NoOrder
  <2> QED BY <2>1 DEF Built, Distinct
<1> QED
  BY <1>1, <1>2, <1>3
  DEF FitInv, Lent, ReadingInv, DraftInv, FreshInv

LEMMA NoOrderBuilt == Built(NoOrder.calls)
<1>1. NoOrder.calls = <<>> /\ Len(<<>>) = 0 /\ 1..0 = {}
  BY DEF NoOrder
<1> QED BY <1>1 DEF Built, Distinct

(* A new read: nothing is known yet.                                       *)
LEMMA StartReadFit ==
  ASSUME TypeOK, FlowInv, FitInv,
         Open \/ ReadAgain \/ Done \/ Retry \/ ContinueStepwise
           \/ WithdrawAvailable \/ CloseFlow \/ FinishDelete
  PROVE  FitInv'
<1>1. UNCHANGED chain /\ \E why : StartRead(why) /\ why # "none"
  BY DEF Open, ReadAgain, Done, Retry, ContinueStepwise, WithdrawAvailable,
         CloseFlow, FinishDelete, Stuck
<1>2. reading' # "none" /\ unread' = {"plan", "pending"}
  BY <1>1 DEF StartRead
<1>3. status' # "running"
  BY DEF Open, ReadAgain, Done, Retry, ContinueStepwise, WithdrawAvailable,
         CloseFlow, FinishDelete, Stuck, FlowInv, sent
<1>4. Built(order'.calls)
  BY NoOrderBuilt
  DEF Open, ReadAgain, Done, Retry, ContinueStepwise, WithdrawAvailable,
      CloseFlow, FinishDelete, Stuck, sent, FitInv
<1>5. ReadingInv'
  <2>1. CASE Open \/ ReadAgain \/ CloseFlow
    BY <2>1 DEF Open, ReadAgain, CloseFlow, Stuck, StartRead, ReadingInv,
                 form
  <2>2. CASE Done \/ FinishDelete
    BY <2>2 DEF Done, FinishDelete, StartRead, ReadingInv, sent
  <2>3. CASE Retry \/ ContinueStepwise \/ WithdrawAvailable
    BY <2>3
    DEF Retry, ContinueStepwise, WithdrawAvailable, Stuck, StartRead,
        ReadingInv, sent
  <2> QED BY <2>1, <2>2, <2>3
<1>6. Lent'
  BY <1>1 DEF FitInv, Lent, chain
<1> QED
  BY <1>2, <1>3, <1>4, <1>5, <1>6 DEF FitInv, DraftInv, FreshInv

LEMMA ReadFit ==
  ASSUME TypeOK, FlowInv, FitInv, ReadPlan \/ ReadPending
  PROVE  FitInv'
<1>1. /\ UNCHANGED <<plan, pending, order, at, status, phase, reading, fresh>>
      /\ raced' = raced \/ raced' = TRUE
      /\ reading # "none"
  <2>1. raced' = raced \/ raced' = TRUE
    BY DEF ReadPlan, ReadPending, TypeOK, ghosts
  <2>2. UNCHANGED <<plan, pending, order, at, status, phase, reading, fresh>>
    BY DEF ReadPlan, ReadPending, chain, sent, form
  <2>3. reading # "none"
    BY DEF ReadPlan, ReadPending, TypeOK
  <2> QED BY <2>1, <2>2, <2>3
<1>2. plan \in Plan /\ draft \in Draft
  BY <1>1 DEF TypeOK
<1>3. DraftInv'
  <2> SUFFICES ASSUME ~raced'
               PROVE  /\ "plan" \notin unread' =>
                           draft'.plan = plan /\ draft'.value = Value(plan)
                      /\ "pending" \notin unread' => draft'.pending = pending
    BY <1>1 DEF DraftInv, Value
  <2>1. CASE ReadPlan
    <3>1. draft'.plan = plan /\ draft'.pending = draft.pending
      BY <1>2, <2>1 DEF ReadPlan, Draft
    <3>2. draft'.value = IF plan.shares > 0 THEN row.value ELSE 0
      BY <1>2, <2>1 DEF ReadPlan, Draft
    <3>3. ~raced /\ (plan.shares > 0 => row.value = Value(plan))
      BY <2>1 DEF ReadPlan, TypeOK
    <3>4. ~(plan.shares > 0) => Value(plan) = 0
      BY <1>2 DEF Value, Plan
    <3>5. unread' = unread \ {"plan"}
      BY <2>1 DEF ReadPlan
    <3> QED BY <1>1, <3>1, <3>2, <3>3, <3>4, <3>5 DEF FitInv, DraftInv
  <2>2. CASE ReadPending
    <3>1. /\ draft'.pending = pending /\ draft'.plan = draft.plan
          /\ draft'.value = draft.value
      BY <1>2, <2>2 DEF ReadPending, Draft
    <3>2. unread' = unread \ {"pending"} /\ raced' = raced
      BY <2>2 DEF ReadPending, ghosts
    <3> QED BY <1>1, <3>1, <3>2 DEF FitInv, DraftInv
  <2> QED BY <2>1, <2>2
<1>4. Lent' /\ (Fits => Fits')
  BY <1>1, FitsKept DEF FitInv
<1>5. ReadingInv' /\ FreshInv' /\ Built(order'.calls)
  BY <1>1 DEF FitInv, ReadingInv, FreshInv
<1>6. status # "running"
  BY <1>1, RunningReadsNothing DEF FitInv
<1> QED BY <1>1, <1>3, <1>4, <1>5, <1>6 DEF FitInv

(* The end of a read: it is what the plan is, unless others changed it.    *)
LEMMA AnsweredFit ==
  ASSUME TypeOK, FlowInv, FitInv,
         \/ Previewed \/ Resume \/ ResumePart \/ Finish
         \/ \E known \in BOOLEAN : Verify(known)
  PROVE  FitInv'
<1>1. Answered /\ UNCHANGED <<chain, raced>> /\ status # "running"
  <2>1. Answered /\ UNCHANGED <<chain, raced>>
    BY DEF Previewed, Resume, ResumePart, Finish, Verify, ghosts
  <2> QED BY <2>1, RunningReadsNothing DEF FitInv, Answered
<1>2. Found \in Read /\ fresh' = Found /\ reading' = "none"
  BY <1>1, AnsweredTypes
<1>3. ~raced => Matches(Found)
  BY <1>1, FoundMatches DEF FitInv
<1>4. FreshInv'
  <2>1. UNCHANGED <<plan, pending, raced>>
    BY <1>1 DEF chain
  <2>2. Matches(Found) => Matches(fresh)'
    BY <1>2, <2>1 DEF Matches, Value
  <2> QED BY <1>3, <2>1, <2>2 DEF FreshInv
<1>5. ReadingInv' /\ DraftInv'
  BY <1>2 DEF ReadingInv, DraftInv
<1>6. Lent'
  BY <1>1 DEF FitInv, Lent, chain
<1>7. \/ UNCHANGED <<order, status>>
      \/ SendNothing
      \/ order' = NoOrder /\ status' = "idle"
      \/ \E m : Send(OrderFor(Found, m))
      \/ Found.idle > 0 /\ Send(PartialWithdraw(Found))
  BY DEF Previewed, Resume, ResumePart, Finish, Verify, sent
<1>8. Built(order'.calls) /\ (status' = "running" /\ ~raced' => Fits')
  <2>1. CASE UNCHANGED <<order, status>>
    BY <1>1, <2>1 DEF FitInv
  <2>2. CASE SendNothing
    BY <2>2 DEF SendNothing, FitInv
  <2>3. CASE order' = NoOrder /\ status' = "idle"
    BY <2>3, NoOrderBuilt
  <2>4. CASE \E m : Send(OrderFor(Found, m))
    BY <1>1, <1>2, <1>3, <2>4, SendFits DEF FitInv
  <2>5. CASE Found.idle > 0 /\ Send(PartialWithdraw(Found))
    BY <1>1, <1>2, <1>3, <2>5, SendFits DEF FitInv
  <2> QED BY <1>7, <2>1, <2>2, <2>3, <2>4, <2>5
<1> QED BY <1>4, <1>5, <1>6, <1>8 DEF FitInv

LEMMA StartFit ==
  ASSUME TypeOK, FlowInv, FitInv, Start
  PROVE  FitInv'
<1>1. /\ UNCHANGED chain /\ reading' = "none" /\ phase' = "flow"
      /\ Send(OrderFor(fresh, mode))
      /\ raced' = (raced \/ reading # "none")
  BY DEF Start, Overtaken, Preview
<1>2. fresh \in Read /\ fresh.ok /\ phase = "preview"
  BY DEF Start, Previewing, TypeOK, NoRead
<1>3. ~raced' => Matches(fresh)
  <2> SUFFICES ASSUME ~raced' PROVE Matches(fresh)
    OBVIOUS
  <2>1. ~raced /\ reading = "none"
    BY <1>1
  <2> QED BY <1>2, <2>1 DEF FitInv, FreshInv
<1>4. Built(order'.calls) /\ (Matches(fresh) => Fits')
  BY <1>1, <1>2, SendFits DEF FitInv
<1>5. Lent'
  BY <1>1 DEF FitInv, Lent, chain
<1>6. ReadingInv' /\ DraftInv' /\ FreshInv'
  BY <1>1 DEF ReadingInv, DraftInv, FreshInv
<1> QED BY <1>3, <1>4, <1>5, <1>6 DEF FitInv

LEMMA LeaveFit ==
  ASSUME TypeOK, FlowInv, FitInv, Leave \/ ReadFails \/ Defer
  PROVE  FitInv'
<1>1. /\ UNCHANGED chain /\ reading' = "none"
      /\ \/ phase' # "preview"
         \/ fresh' = NoRead
  BY DEF Leave, ReadFails, Defer, Overtaken
<1>2. \/ UNCHANGED sent /\ (phase # "flow" \/ reading # "none")
      \/ order' = NoOrder /\ status' = "idle"
  BY DEF Leave, ReadFails, Defer, Previewing
<1>3. status' # "running"
  BY <1>2, RunningReadsNothing DEF FitInv, sent
<1>4. Built(order'.calls)
  BY <1>2, NoOrderBuilt DEF FitInv, sent
<1>5. Lent'
  BY <1>1 DEF FitInv, Lent, chain
<1>6. ReadingInv' /\ DraftInv' /\ FreshInv'
  BY <1>1 DEF ReadingInv, DraftInv, FreshInv, NoRead
<1> QED BY <1>3, <1>4, <1>5, <1>6 DEF FitInv

LEMMA QuietFit ==
  ASSUME TypeOK, FlowInv, FitInv,
         ChooseMode \/ StepReverts \/ Rejected \/ Poll \/ UNCHANGED vars
  PROVE  FitInv'
<1>1. /\ UNCHANGED <<plan, pending, order, at, raced>>
      /\ UNCHANGED <<fresh, reading, unread, draft, phase>>
  BY DEF ChooseMode, StepReverts, Rejected, Poll, vars, chain, page, read,
         form, sent, ghosts
<1>2. status' = status \/ (status = "running" /\ status' = "failed")
  BY DEF ChooseMode, StepReverts, Rejected, Poll, vars, sent
<1>3. Lent' /\ (Fits => Fits')
  BY <1>1, FitsKept DEF FitInv
<1>4. reading # "none" => status' = status
  BY <1>2, RunningReadsNothing DEF FitInv
<1>5. ReadingInv'
  BY <1>1, <1>4 DEF FitInv, ReadingInv
<1>6. DraftInv' /\ FreshInv'
  <2>1. DraftInv'
    BY <1>1 DEF FitInv, DraftInv, Value
  <2>2. Matches(fresh) => Matches(fresh)'
    BY <1>1 DEF Matches, Value
  <2> QED BY <1>1, <2>1, <2>2 DEF FitInv, FreshInv
<1>7. status' = "running" /\ ~raced' => Fits'
  BY <1>1, <1>2, <1>3 DEF FitInv
<1> QED BY <1>1, <1>3, <1>5, <1>6, <1>7 DEF FitInv

LEMMA RunLent ==
  ASSUME TypeOK, Lent, NEW c \in Calls, Runs(c)
  PROVE  Lent'
<1>1. plan \in Plan /\ plan' = After(c)
  BY DEF TypeOK, Runs
<1>2. CASE c = "unboost"
  <2>1. plan' = [plan EXCEPT !.idle = plan.idle + Value(plan), !.shares = 0,
                             !.boosted = FALSE]
    BY <1>1, <1>2 DEF After, Unboosted
  <2>2. plan'.shares = 0
    BY <1>1, <2>1 DEF Plan
  <2> QED BY <2>2 DEF Lent
<1>3. CASE c \in {"withdraw", "part"}
  <2>1. \E a : plan' = Withdrawn(plan, a)
    BY <1>1, <1>3 DEF After
  <2> QED BY <1>1, <2>1 DEF Withdrawn, Lent, Plan
<1>4. CASE c \in {"claim", "prune"}
  BY <1>1, <1>4 DEF After, Lent, Plan
<1>5. CASE c = "close"
  BY <1>1, <1>5, ClosedIsEmpty DEF After, Lent, EmptyPlan
<1> QED BY <1>2, <1>3, <1>4, <1>5 DEF Calls

(* A call that ran was the first of those to be sent, and a leg's call if  *)
(* more are to be sent.                                                    *)
LEMMA CallAhead ==
  ASSUME TypeOK, Built(order.calls), StepRuns, status' = "running"
  PROVE  /\ Call \in {"unboost", "withdraw", "claim"}
         /\ \A x : ToSend(x)' <=> ToSend(x) /\ x # Call
         /\ ~ToSend("part") /\ ~ToSend("close")
<1>1. /\ Runs(Call) /\ at # Len(order.calls) /\ at' = at + 1 /\ order' = order
      /\ status = "running"
  BY DEF StepRuns
<1>2. order.calls \in Seq(Calls) /\ at \in 1..Len(order.calls) /\ at \in Nat
  BY <1>1 DEF TypeOK, Order
<1>3. Call \in Calls /\ Call = order.calls[at]
  BY <1>2 DEF Call
<1>4. Call \in {"unboost", "withdraw", "claim"}
  <2>1. Call # "prune"
    BY <1>1, <1>2, <1>3 DEF Built
  <2>2. Len(order.calls) # 1
    <3> DEFINE n == Len(order.calls)
    <3>1. at \in 1..n /\ at # n
      BY <1>1, <1>2
    <3> HIDE DEF n
    <3>2. n # 1
      BY <3>1
    <3> QED BY <3>2 DEF n
  <2>3. Call \notin {"part", "close"}
    BY <1>1, <1>2, <1>3, <2>2 DEF Built
  <2> QED BY <1>3, <2>1, <2>3 DEF Calls
<1>5. \A x : ToSend(x)' <=> ToSend(x) /\ x # Call
  <2> TAKE x
  <2>1. ToSend(x)' <=> \E k \in (at + 1)..Len(order.calls) : order.calls[k] = x
    BY <1>1 DEF ToSend
  <2>2. ASSUME NEW k \in (at + 1)..Len(order.calls), order.calls[k] = x
        PROVE  ToSend(x) /\ x # Call
    <3>1. k \in at..Len(order.calls) /\ k \in 1..Len(order.calls) /\ k # at
      BY <1>2
    <3> QED BY <1>2, <1>3, <2>2, <3>1 DEF ToSend, Built, Distinct
  <2>3. ASSUME NEW k \in at..Len(order.calls), order.calls[k] = x, x # Call
        PROVE  \E l \in (at + 1)..Len(order.calls) : order.calls[l] = x
    <3>1. k # at
      BY <1>3, <2>3
    <3>2. k \in (at + 1)..Len(order.calls)
      BY <1>2, <3>1
    <3> QED BY <2>3, <3>2
  <2> QED BY <2>1, <2>2, <2>3 DEF ToSend
<1>6. ASSUME NEW k \in at..Len(order.calls)
      PROVE  order.calls[k] \notin {"part", "close"}
  <2>1. ASSUME order.calls[k] \in {"part", "close"} PROVE FALSE
    <3>1. k \in 1..Len(order.calls) /\ Len(order.calls) = 1 /\ k = at
      BY <1>2, <2>1 DEF Built
    <3> QED BY <1>3, <1>4, <2>1, <3>1
  <2> QED BY <2>1
<1> QED BY <1>4, <1>5, <1>6 DEF ToSend

(* What the call of a leg leaves of the plan.                              *)
LEMMA LegEffect ==
  ASSUME plan \in Plan, NEW c \in {"unboost", "withdraw", "claim"},
         plan' = After(c)
  PROVE  /\ plan'.indexed = plan.indexed
         /\ c = "unboost" =>
              /\ Worth(plan)' = Worth(plan) /\ plan'.stock = plan.stock
              /\ plan'.shares = 0
         /\ c = "withdraw" =>
              /\ Worth(plan)' = 0 /\ plan'.stock = plan.stock
              /\ plan'.shares > 0 => plan.shares > 0
         /\ c = "claim" =>
              /\ Worth(plan)' = Worth(plan) /\ plan'.stock = 0
              /\ plan'.shares = plan.shares
<1>a. plan \in Plan /\ plan' = After(c)
  OBVIOUS
<1>b. Value(plan) \in 0..1 /\ plan.idle \in Nat
  BY ValueType DEF Plan
<1>c. Worth(plan)' = Worth(plan')
  BY DEF Worth, Value
<1>1. CASE c = "unboost"
  <2>1. plan' = [plan EXCEPT !.idle = plan.idle + Value(plan), !.shares = 0,
                             !.boosted = FALSE]
    BY <1>a, <1>1 DEF After, Unboosted
  <2>2. /\ plan'.idle = plan.idle + Value(plan) /\ plan'.shares = 0
        /\ plan'.worth = plan.worth /\ plan'.stock = plan.stock
        /\ plan'.indexed = plan.indexed
    BY <1>a, <2>1 DEF Plan
  <2>3. Value(plan') = 0
    BY <1>a, <2>2 DEF Value, Plan
  <2>4. Worth(plan') = Worth(plan)
    BY <1>b, <2>2, <2>3 DEF Worth
  <2> QED BY <1>1, <1>c, <2>2, <2>4
<1>2. CASE c = "withdraw"
  <2>1. plan' = Withdrawn(plan, plan.idle + Value(plan))
    BY <1>a, <1>2 DEF After
  <2>2. CASE Value(plan) = 0
    <3>1. plan' = [plan EXCEPT !.idle = 0]
      BY <1>b, <2>1, <2>2 DEF Withdrawn
    <3>2. /\ plan'.idle = 0 /\ plan'.shares = plan.shares
          /\ plan'.worth = plan.worth /\ plan'.stock = plan.stock
          /\ plan'.indexed = plan.indexed
      BY <1>a, <3>1 DEF Plan
    <3> QED BY <1>2, <1>c, <2>2, <3>2 DEF Worth, Value
  <2>3. CASE Value(plan) # 0
    <3>1. plan' = [plan EXCEPT !.idle = 0, !.shares = 0]
      BY <1>b, <2>1, <2>3 DEF Withdrawn
    <3>2. /\ plan'.idle = 0 /\ plan'.shares = 0
          /\ plan'.worth = plan.worth /\ plan'.stock = plan.stock
          /\ plan'.indexed = plan.indexed
      BY <1>a, <3>1 DEF Plan
    <3>3. Value(plan') = 0
      BY <1>a, <3>2 DEF Value, Plan
    <3> QED BY <1>2, <1>c, <3>2, <3>3 DEF Worth
  <2> QED BY <2>2, <2>3
<1>3. CASE c = "claim"
  <2>1. plan' = [plan EXCEPT !.stock = 0]
    BY <1>a, <1>3 DEF After
  <2>2. /\ plan'.idle = plan.idle /\ plan'.shares = plan.shares
        /\ plan'.worth = plan.worth /\ plan'.stock = 0
        /\ plan'.indexed = plan.indexed
    BY <1>a, <2>1 DEF Plan
  <2> QED BY <1>3, <1>c, <2>2 DEF Worth, Value
<1> QED BY <1>1, <1>2, <1>3

(* The rest of the calls still fits.                                       *)
LEMMA CallFits ==
  ASSUME TypeOK, Built(order.calls), Fits, StepRuns, status' = "running"
  PROVE  Fits'
<1>1. /\ plan \in Plan /\ plan' = After(Call) /\ UNCHANGED <<pending, order>>
  BY DEF StepRuns, TypeOK, Runs
<1>2. /\ Call \in {"unboost", "withdraw", "claim"}
      /\ \A x : ToSend(x)' <=> ToSend(x) /\ x # Call
      /\ ~ToSend("part")
  BY CallAhead
<1>3. /\ Call = "unboost" =>
           /\ Worth(plan)' = Worth(plan) /\ plan'.stock = plan.stock
           /\ plan'.shares = 0
      /\ Call = "withdraw" =>
           /\ Worth(plan)' = 0 /\ plan'.stock = plan.stock
           /\ plan'.shares > 0 => plan.shares > 0
      /\ Call = "claim" =>
           /\ Worth(plan)' = Worth(plan) /\ plan'.stock = 0
           /\ plan'.shares = plan.shares
  BY <1>1, <1>2, LegEffect
<1> QED BY <1>1, <1>2, <1>3 DEF Fits

LEMMA CallFit ==
  ASSUME TypeOK, FlowInv, FitInv, StepRuns \/ AnswerLost
  PROVE  FitInv'
<1>1. /\ status = "running" /\ UNCHANGED <<order, phase, reading, raced>>
  BY DEF StepRuns, AnswerLost, read, form, ghosts
<1>2. reading' = "none" /\ phase' = "flow"
  BY <1>1, RunningReadsNothing DEF FitInv
<1>3. Call \in Calls
  BY <1>1, CallType
<1>4. Lent'
  <2>1. Runs(Call) \/ UNCHANGED chain
    BY DEF StepRuns, AnswerLost
  <2>2. CASE Runs(Call)
    BY <1>3, <2>2, RunLent DEF FitInv
  <2>3. CASE UNCHANGED chain
    BY <2>3 DEF FitInv, Lent, chain
  <2> QED BY <2>1, <2>2, <2>3
<1>5. ReadingInv' /\ DraftInv' /\ FreshInv'
  BY <1>2 DEF ReadingInv, DraftInv, FreshInv
<1>6. status' = "running" /\ ~raced' => Fits'
  <2>1. CASE StepRuns
    BY <1>1, <2>1, CallFits DEF FitInv
  <2>2. CASE AnswerLost
    BY <2>2 DEF AnswerLost
  <2> QED BY <2>1, <2>2
<1> QED BY <1>1, <1>4, <1>5, <1>6 DEF FitInv

LEMMA OthersFit ==
  ASSUME TypeOK, FlowInv, FitInv, Other \/ Clears
  PROVE  FitInv'
<1>1. /\ UNCHANGED <<order, at, status, phase, reading, unread, draft, fresh>>
      /\ raced' = (phase # "closed")
  <2>1. CASE Other
    BY <2>1 DEF Other, sent, form, read
  <2>2. CASE Clears
    <3>1. /\ UNCHANGED <<read, sent, form>> /\ raced' = (phase # "closed")
      BY <2>2 DEF Clears
    <3> QED BY <3>1 DEF sent, form, read
  <2> QED BY <2>1, <2>2
<1>2. /\ status' = "running" \/ reading' # "none" \/ phase' = "preview" => raced'
  BY <1>1, RunningReadsNothing DEF FitInv
<1>3. ReadingInv' /\ DraftInv' /\ FreshInv'
  BY <1>1, <1>2 DEF FitInv, ReadingInv, DraftInv, FreshInv
<1>4. Lent'
  <2>1. plan \in Plan
    BY DEF TypeOK
  <2>2. CASE Clears \/ PageOpens \/ \E leg \in Legs \ blocked : LegBlocks(leg)
    <3>1. plan' = plan
      BY <2>2 DEF Clears, PageOpens, LegBlocks
    <3> QED BY <3>1 DEF FitInv, Lent
  <2>3. CASE Deposit \/ BoostElsewhere \/ SharesTurn
    BY <2>1, <2>3 DEF Deposit, BoostElsewhere, SharesTurn, FitInv, Lent, Plan
  <2>4. ASSUME NEW d \in BOOLEAN, NEW o \in BOOLEAN, PageBuys(d, o)
        PROVE  Lent'
    <3>1. /\ Withdrawn(plan, 1).shares \in {plan.shares, 0}
          /\ Withdrawn(plan, 1).boosted = plan.boosted
          /\ DOMAIN Withdrawn(plan, 1) = DOMAIN plan
      BY <2>1 DEF Withdrawn, Plan
    <3>2. plan'.shares \in {plan.shares, 0} /\ plan'.boosted = plan.boosted
      BY <2>4, <3>1 DEF PageBuys, Bought
    <3> QED BY <3>2 DEF FitInv, Lent
  <2>5. ASSUME NEW c \in Calls, CallElsewhere(c) PROVE Lent'
    BY <2>5, RunLent DEF CallElsewhere, FitInv
  <2> QED BY <2>2, <2>3, <2>4, <2>5 DEF Other
<1> QED BY <1>1, <1>2, <1>3, <1>4 DEF FitInv

LEMMA NextFit == OutcomeInv /\ FitInv /\ [Next]_vars => FitInv'
<1> SUFFICES ASSUME OutcomeInv, FitInv, [Next]_vars PROVE FitInv'
  OBVIOUS
<1>1. TypeOK /\ FlowInv
  BY DEF OutcomeInv
<1>2. CASE Form
  BY <1>1, <1>2, ReadFit, AnsweredFit, CallFit, QuietFit, StartReadFit, LeaveFit
  DEF Form
<1>3. CASE Press
  BY <1>1, <1>3, StartReadFit, StartFit DEF Press
<1> QED
  BY <1>1, <1>2, <1>3, StartReadFit, LeaveFit, QuietFit, CallFit, OthersFit
  DEF Next

LEMMA FitsApply == TypeOK /\ FitInv => LegsFit
<1> SUFFICES ASSUME TypeOK, FitInv, status = "running", ~raced
             PROVE  Applies(Call)
  BY DEF LegsFit
<1>1. Fits /\ Built(order.calls)
  BY DEF FitInv
<1>2. /\ order.calls \in Seq(Calls) /\ at \in 1..Len(order.calls) /\ at \in Nat
      /\ Call = order.calls[at] /\ Call \in Calls
  BY CallType DEF TypeOK, Order, Call
<1>3. plan \in Plan /\ Worth(plan) \in Nat /\ plan.idle <= Worth(plan)
      /\ plan.idle \in Nat /\ plan.stock \in Nat /\ plan.shares \in 0..1
  BY WorthType DEF TypeOK, Plan
<1>4. ToSend(Call)
  BY <1>2 DEF ToSend
<1>5. CASE Call = "prune"
  <2>1. at = Len(order.calls)
    BY <1>1, <1>2, <1>5 DEF Built
  <2>2. \A x : ToSend(x) => x = "prune"
    <3>1. \A k \in at..Len(order.calls) : k = at
      BY <1>2, <2>1
    <3> QED BY <1>2, <1>5, <3>1 DEF ToSend
  <2>3. ~pending /\ ~(Worth(plan) > 0) /\ ~(plan.stock > 0) /\ ~(plan.shares > 0)
    BY <1>1, <1>4, <1>5, <2>2 DEF Fits
  <2>4. EmptyPlan(plan)
    BY <1>3, <2>3 DEF EmptyPlan
  <2> QED BY <1>5, <2>3, <2>4 DEF Applies
<1>6. CASE Call = "withdraw"
  BY <1>1, <1>4, <1>6 DEF Applies, Fits, Worth
<1>7. CASE Call = "claim"
  BY <1>1, <1>4, <1>7 DEF Applies, Fits
<1>8. CASE Call = "part"
  BY <1>1, <1>4, <1>8 DEF Applies, Fits, Worth
<1>9. CASE Call \in {"unboost", "close"}
  BY <1>9 DEF Applies
<1> QED BY <1>2, <1>5, <1>6, <1>7, <1>8, <1>9 DEF Calls

(* Every call that is sent has a leg to empty or a plan to prune, unless   *)
(* somebody else changed the plan since it was read.                       *)
THEOREM CallsFitThePlan == Spec => []LegsFit
<1>1. Init => OutcomeInv /\ FitInv
  BY InitOutcome, InitFit
<1>2. OutcomeInv /\ FitInv /\ [Next]_vars => OutcomeInv' /\ FitInv'
  BY NextOutcome, NextFit
<1>3. OutcomeInv /\ FitInv => LegsFit
  BY FitsApply DEF OutcomeInv
<1> QED BY <1>1, <1>2, <1>3, PTL DEF Spec

-----------------------------------------------------------------------------
(* The plan's life: one plan's side of the vault, as PlanLife promises it  *)
(* for every plan.                                                         *)

Funds == plan.idle > 0 \/ plan.shares > 0

Life == INSTANCE PlanLife
  WITH listed <- plan.indexed, paused <- plan.paused, funds <- Funds,
       stock <- plan.stock > 0, open <- pending

(* A plan that holds anything is listed.                                   *)
HeldIsIndexed == Funds \/ plan.stock > 0 => plan.indexed

LEMMA ValueNeedsShares ==
  ASSUME NEW p \in Plan, Value(p) > 0
  PROVE  p.shares > 0
<1>1. p.shares \in 0..1 /\ p.worth \in 0..1
  BY DEF Plan
<1>2. ASSUME p.shares = 0 PROVE Value(p) = 0
  <2>1. Value(p) = 0 * p.worth
    BY <1>2 DEF Value
  <2> QED BY <1>1, <2>1
<1> QED BY <1>1, <1>2

LEMMA CallLives ==
  ASSUME TypeOK, NEW c \in Calls, Runs(c)
  PROVE  Life!Next
<1>1. plan \in Plan /\ plan' = After(c) /\ UNCHANGED pending /\ Applies(c)
  BY DEF Runs, GoesThrough, TypeOK
<1>2. /\ plan.idle \in Nat /\ plan.shares \in 0..1 /\ plan.stock \in Nat
      /\ Value(plan) \in 0..1 /\ plan.indexed \in BOOLEAN
  BY <1>1, ValueType DEF Plan
<1>3. ASSUME c \in {"unboost", "withdraw", "part", "claim"}
      PROVE  Life!Draw
  <2>1. CASE c = "unboost"
    <3>1. /\ plan'.idle = plan.idle + Value(plan) /\ plan'.shares = 0
          /\ plan'.stock = plan.stock /\ plan'.indexed = plan.indexed
          /\ plan'.paused = plan.paused
      BY <1>1, <2>1 DEF After, Unboosted, Plan
    <3>2. Value(plan) > 0 => plan.shares > 0
      BY <1>1, ValueNeedsShares
    <3>3. plan'.idle > 0 => plan.idle > 0 \/ plan.shares > 0
      BY <1>2, <3>1, <3>2
    <3> QED BY <1>1, <3>1, <3>3 DEF Life!Draw, Funds
  <2>2. ASSUME NEW a \in Nat, plan' = Withdrawn(plan, a)
        PROVE  Life!Draw
    <3>1. /\ plan'.stock = plan.stock /\ plan'.indexed = plan.indexed
          /\ plan'.paused = plan.paused
          /\ \/ plan'.idle = plan.idle - a /\ plan'.shares = plan.shares
             \/ plan'.idle = 0 /\ plan'.shares = 0
      BY <1>1, <2>2 DEF Withdrawn, Plan
    <3>2. plan'.idle > 0 \/ plan'.shares > 0 => plan.idle > 0 \/ plan.shares > 0
      BY <1>2, <3>1
    <3> QED BY <1>1, <3>1, <3>2 DEF Life!Draw, Funds
  <2>3. CASE c = "withdraw"
    <3>1. plan.idle + Value(plan) \in Nat
      BY <1>2
    <3> QED BY <1>1, <2>2, <2>3, <3>1 DEF After
  <2>4. CASE c = "part"
    <3>1. order.part \in Nat
      BY DEF TypeOK, Order
    <3> QED BY <1>1, <2>2, <2>4, <3>1 DEF After
  <2>5. CASE c = "claim"
    <3>1. /\ plan'.idle = plan.idle /\ plan'.shares = plan.shares
          /\ plan'.stock = 0 /\ plan'.indexed = plan.indexed
          /\ plan'.paused = plan.paused
      BY <1>1, <2>5 DEF After, Plan
    <3> QED BY <1>1, <3>1 DEF Life!Draw, Funds
  <2> QED BY <1>3, <2>1, <2>3, <2>4, <2>5
<1>4. CASE c = "prune"
  <2>1. EmptyPlan(plan) /\ ~pending
    BY <1>1, <1>4 DEF Applies
  <2>2. /\ plan'.idle = plan.idle /\ plan'.shares = plan.shares
        /\ plan'.stock = plan.stock /\ plan'.indexed = FALSE
        /\ plan'.paused = plan.paused
    BY <1>1, <1>4 DEF After, Plan
  <2>3. Life!Prune
    BY <1>1, <2>1, <2>2 DEF Life!Prune, Funds, EmptyPlan
  <2> QED BY <2>3 DEF Life!Next
<1>5. CASE c = "close"
  <2>1. plan' = Closed(plan)
    BY <1>1, <1>5 DEF After
  <2>2. EmptyPlan(plan')
    BY <1>1, <2>1, ClosedIsEmpty
  <2>3. /\ Parks(plan) => plan'.indexed /\ plan'.paused
        /\ ~Parks(plan) => ~plan'.indexed /\ plan'.paused = plan.paused
    BY <1>1, <2>1 DEF Closed, Unboosted, Parks, Plan
  <2>4. Life!Close
    BY <1>1, <2>2, <2>3 DEF Life!Close, Funds, EmptyPlan, Parks
  <2> QED BY <2>4 DEF Life!Next
<1> QED BY <1>3, <1>4, <1>5 DEF Calls, Life!Next

LEMMA OtherLives ==
  ASSUME TypeOK, Other
  PROVE  Life!Next
<1>1. /\ plan \in Plan /\ pending \in BOOLEAN
      /\ plan.idle \in Nat /\ plan.shares \in 0..1 /\ plan.stock \in Nat
      /\ Value(plan) \in 0..1
  BY ValueType DEF TypeOK, Plan
<1>2. CASE Deposit
  <2>1. /\ plan'.indexed = TRUE /\ plan'.paused = plan.paused
        /\ plan'.stock = plan.stock /\ UNCHANGED pending
        /\ \/ plan'.shares = 1
           \/ plan'.idle = plan.idle + 1
    BY <1>1, <1>2 DEF Deposit, Plan
  <2>2. plan'.idle > 0 \/ plan'.shares > 0
    BY <1>1, <2>1
  <2>3. Life!Fund
    BY <2>1, <2>2 DEF Life!Fund, Funds
  <2> QED BY <2>3 DEF Life!Next
<1>3. CASE BoostElsewhere
  <2>1. /\ plan'.indexed = plan.indexed /\ plan'.paused = plan.paused
        /\ plan'.stock = plan.stock /\ UNCHANGED pending /\ plan.idle > 0
    BY <1>1, <1>3 DEF BoostElsewhere, Plan
  <2>2. Life!Draw
    BY <2>1 DEF Life!Draw, Funds
  <2> QED BY <2>2 DEF Life!Next
<1>4. CASE PageOpens
  BY <1>4 DEF PageOpens, Life!Next, Life!Turn, Funds
<1>5. CASE SharesTurn
  <2>1. /\ plan'.indexed = plan.indexed /\ plan'.paused = plan.paused
        /\ plan'.stock = plan.stock /\ plan'.idle = plan.idle
        /\ plan'.shares = plan.shares
    BY <1>1, <1>5 DEF SharesTurn, Plan
  <2> QED BY <2>1 DEF Life!Next, Life!Turn, Funds
<1>6. ASSUME NEW d \in BOOLEAN, NEW o \in BOOLEAN, PageBuys(d, o)
      PROVE  Life!Next
  <2>1. /\ plan.indexed /\ ~plan.paused /\ plan.idle + Value(plan) > 0
        /\ plan' = Bought(plan, d)
    BY <1>6 DEF PageBuys
  <2>2. Funds
    BY <1>1, <2>1, ValueNeedsShares DEF Funds
  <2>3. /\ plan'.indexed = plan.indexed /\ plan'.paused = plan.paused
        /\ plan'.stock = plan.stock \/ plan'.stock = 1
    BY <1>1, <2>1 DEF Bought, Withdrawn, Plan
  <2>4. Life!Buy
    BY <2>1, <2>2, <2>3 DEF Life!Buy
  <2> QED BY <2>4 DEF Life!Next
<1>7. ASSUME NEW c \in Calls \ {"part"}, CallElsewhere(c)
      PROVE  Life!Next
  BY <1>7, CallLives DEF CallElsewhere
<1>8. ASSUME NEW leg, LegBlocks(leg)
      PROVE  Life!Next
  BY <1>8 DEF LegBlocks, Life!Next, Life!Turn, Funds
<1> QED BY <1>2, <1>3, <1>4, <1>5, <1>6, <1>7, <1>8 DEF Other

(* Every step of the page, of the wallet and of everybody else is a step   *)
(* of the plan's life, or none.                                            *)
LEMMA NextLives ==
  ASSUME TypeOK, [Next]_vars
  PROVE  [Life!Next]_(Life!life)
<1>1. CASE UNCHANGED chain
  BY <1>1 DEF chain, Life!life, Funds
<1>2. CASE StepRuns
  <2>1. Call \in Calls /\ Runs(Call)
    BY <1>2, CallType DEF StepRuns
  <2> QED BY <2>1, CallLives
<1>3. CASE AnswerLost
  <2>1. Call \in Calls /\ (Runs(Call) \/ UNCHANGED chain)
    BY <1>3, CallType DEF AnswerLost
  <2> QED BY <1>1, <2>1, CallLives
<1>4. CASE Other
  BY <1>4, OtherLives
<1>5. CASE Clears
  BY <1>5 DEF Clears, Life!Next, Life!Turn, Funds
<1>6. CASE ReadPlan \/ ReadPending \/ Previewed \/ Resume \/ ResumePart
           \/ Finish \/ (\E known \in BOOLEAN : Verify(known))
           \/ StepReverts \/ Done \/ Defer
  BY <1>1, <1>6
  DEF ReadPlan, ReadPending, Previewed, Resume, ResumePart, Finish, Verify,
      StepReverts, Done, Defer
<1>7. CASE ReadAgain \/ Start \/ Retry \/ FinishDelete \/ CloseFlow
           \/ ReadFails \/ Rejected \/ Open \/ ChooseMode \/ ContinueStepwise
           \/ WithdrawAvailable \/ Leave \/ Poll
  BY <1>1, <1>7
  DEF ReadAgain, Start, Retry, FinishDelete, CloseFlow, ReadFails, Rejected,
      Open, ChooseMode, ContinueStepwise, WithdrawAvailable, Stuck, Leave,
      Poll
<1>8. CASE UNCHANGED vars
  BY <1>1, <1>8 DEF vars
<1> QED BY <1>2, <1>3, <1>4, <1>5, <1>6, <1>7, <1>8 DEF Next, Form, Press

(* Whatever the form, its owner's other tabs, the keeper and the market do *)
(* to the plan, it lives as a vault promises: the removal is not the only  *)
(* thing that can happen to it, and nothing else ever fills it unlisted or *)
(* takes it off the list while it holds something or is half visited.      *)
THEOREM RemovalKeepsPlanLife == Spec => Life!Spec
<1>1. Init => Life!Init
  <2>1. Init => plan.indexed = TRUE
    BY DEF Init
  <2> QED BY <2>1 DEF Life!Init, Life!HeldIsListed
<1>2. TypeOK /\ [Next]_vars => [Life!Next]_(Life!life)
  BY NextLives
<1> QED BY <1>1, <1>2, RemoveTypeCorrect, PTL DEF Spec, Life!Spec

(* What every plan's life guarantees: it holds nothing while it is not     *)
(* listed.                                                                 *)
LEMMA HeldStaysListed ==
  ASSUME Life!HeldIsListed, [Life!Next]_(Life!life)
  PROVE  Life!HeldIsListed'
<1>1. CASE Life!Fund
  BY <1>1 DEF Life!Fund, Life!HeldIsListed
<1>2. CASE Life!Buy
  BY <1>2 DEF Life!Buy, Life!HeldIsListed
<1>3. CASE Life!Draw
  BY <1>3 DEF Life!Draw, Life!HeldIsListed
<1>4. CASE Life!Close
  BY <1>4 DEF Life!Close, Life!HeldIsListed
<1>5. CASE Life!Prune
  BY <1>5 DEF Life!Prune, Life!HeldIsListed
<1>6. CASE Life!Pause
  BY <1>6 DEF Life!Pause, Life!HeldIsListed
<1>7. CASE Life!Turn
  BY <1>7 DEF Life!Turn, Life!HeldIsListed
<1>8. CASE UNCHANGED Life!life
  BY <1>8 DEF Life!life, Life!HeldIsListed
<1> QED BY <1>1, <1>2, <1>3, <1>4, <1>5, <1>6, <1>7, <1>8 DEF Life!Next

(* A plan that holds anything is listed, so that a page charges it and its *)
(* row is shown: a removal, or anybody's prune, never leaves value behind  *)
(* in a plan the vault no longer iterates over.                            *)
THEOREM HeldPlansAreIndexed == Spec => []HeldIsIndexed
<1>1. Life!Spec => []Life!HeldIsListed
  BY HeldStaysListed, PTL DEF Life!Spec, Life!Init
<1>2. Life!HeldIsListed => HeldIsIndexed
  BY DEF Life!HeldIsListed, HeldIsIndexed
<1> QED BY <1>1, <1>2, RemovalKeepsPlanLife, PTL

-----------------------------------------------------------------------------
(* What a run achieves when nobody interferes.                             *)

(* Nothing is in the plan, and only an open page keeps it in the list.     *)
Emptied == EmptyPlan(plan) /\ (plan.indexed => pending)

(* The calls left reach everything the plan still holds.                   *)
Covers ==
  \/ ToSend("close")
  \/ /\ plan.shares > 0 => ToSend("unboost")
     /\ Worth(plan) > 0 => ToSend("withdraw")
     /\ plan.stock > 0 => ToSend("claim")
     /\ plan.indexed /\ ~pending => ToSend("prune")

(* A removal's run that nobody has interfered with since its calls' read,  *)
(* the partial withdrawal apart.                                           *)
Undisturbed ==
  phase = "flow" /\ reading = "none" /\ ~raced /\ order.part = 0

CoverInv ==
  Undisturbed => /\ status = "running" => Covers
                 /\ status = "done" => Emptied

LEMMA EmptyMeans ==
  ASSUME NEW p \in Plan
  PROVE  EmptyPlan(p) <=> Worth(p) = 0 /\ p.stock = 0 /\ p.shares = 0
<1>1. p.idle \in Nat /\ (p.shares = 0 => Value(p) = 0)
  BY DEF Plan, Value
<1>2. Value(p) \in 0..1
  BY ValueType
<1> QED BY <1>1, <1>2 DEF EmptyPlan, Worth

LEMMA InitCover == Init => CoverInv
BY DEF Init, CoverInv, Undisturbed

(* An order built from what the plan is leaves none of it out; where it    *)
(* has no calls, there was nothing to do.                                  *)
LEMMA OrderCovers ==
  ASSUME TypeOK, Lent, NEW f \in Read, Matches(f), NEW m, NEW cs,
         cs = OrderFor(f, m).calls
  PROVE  \/ Has(cs, "close")
         \/ /\ plan.shares > 0 => Has(cs, "unboost")
            /\ Worth(plan) > 0 => Has(cs, "withdraw")
            /\ plan.stock > 0 => Has(cs, "claim")
            /\ plan.indexed /\ ~pending => Has(cs, "prune")
<1>1. CASE OrderFor(f, m) = RemoveOrder(f)
  <2>1. /\ Has(cs, "unboost") <=> f.boosted
        /\ Has(cs, "withdraw") <=> f.idle + f.value > 0
        /\ Has(cs, "claim") <=> f.stock > 0
        /\ Has(cs, "prune") <=> ~f.pending
    BY <1>1, RemovalBuilt
  <2>2. f.idle + f.value = Worth(plan)
    BY DEF Matches, Worth
  <2> QED BY <2>1, <2>2 DEF Matches, Lent
<1>2. CASE OrderFor(f, m) = CloseOrder(f)
  <2> DEFINE b == ~(EmptyPlan(f) /\ f.pending)
  <2>1. cs = Leg(b, "close")
    BY <1>2 DEF CloseOrder
  <2>2. b \in BOOLEAN /\ "close" \in Calls
    BY DEF Calls
  <2>3. b => Has(cs, "close")
    <3> HIDE DEF b
    <3> QED BY <2>1, <2>2, FirstLeg
  <2>4. ASSUME ~b
        PROVE  plan.shares = 0 /\ plan.stock = 0 /\ Worth(plan) = 0 /\ pending
    <3>1. EmptyPlan(f) /\ f.pending
      BY <2>4
    <3>2. EmptyPlan(plan) /\ pending
      BY <3>1 DEF EmptyPlan, Matches
    <3> QED BY <3>2, EmptyMeans DEF TypeOK
  <2>5. ~(0 > 0)
    OBVIOUS
  <2> QED BY <2>3, <2>4, <2>5
<1> QED BY <1>1, <1>2 DEF OrderFor

LEMMA SendCovers ==
  ASSUME TypeOK, Lent, NEW f \in Read, Matches(f), NEW m,
         Send(OrderFor(f, m)), UNCHANGED chain
  PROVE  Covers'
<1> DEFINE cs == OrderFor(f, m).calls
<1>1. order'.calls = cs /\ at' = 1 /\ plan' = plan /\ pending' = pending
  BY DEF Send, chain
<1>2. \A x : ToSend(x)' <=> Has(cs, x)
  BY <1>1 DEF ToSend, Has
<1>3. Worth(plan)' = Worth(plan)
  BY <1>1 DEF Worth, Value
<1> HIDE DEF cs
<1>4. \/ Has(cs, "close")
      \/ /\ plan.shares > 0 => Has(cs, "unboost")
         /\ Worth(plan) > 0 => Has(cs, "withdraw")
         /\ plan.stock > 0 => Has(cs, "claim")
         /\ plan.indexed /\ ~pending => Has(cs, "prune")
  BY OrderCovers DEF cs
<1> QED BY <1>1, <1>2, <1>3, <1>4 DEF Covers

LEMMA NothingToSend ==
  ASSUME TypeOK, Lent, NEW f \in Read, Matches(f), NEW m,
         OrderFor(f, m).calls = <<>>
  PROVE  Emptied
<1>1. \A x : ~Has(<<>>, x)
  BY DEF Has
<1>2. /\ ~(plan.shares > 0) /\ ~(Worth(plan) > 0) /\ ~(plan.stock > 0)
      /\ plan.indexed => pending
  BY <1>1, OrderCovers DEF TypeOK
<1>3. plan \in Plan /\ Worth(plan) \in Nat
      /\ plan.shares \in Nat /\ plan.stock \in Nat
  BY WorthType DEF TypeOK, Plan
<1>4. EmptyPlan(plan)
  BY <1>2, <1>3, EmptyMeans
<1> QED BY <1>2, <1>4 DEF Emptied

(* A call that runs takes care of its leg: the rest covers what is left,   *)
(* and after the last one nothing is.                                      *)
LEMMA RunCovers ==
  ASSUME TypeOK, FlowInv, FitInv, CoverInv, Undisturbed, StepRuns
  PROVE  /\ status' = "running" => Covers'
         /\ status' = "done" => Emptied'
<1>1. /\ status = "running" /\ Runs(Call) /\ Call \in Calls
      /\ order.calls \in Seq(Calls) /\ at \in 1..Len(order.calls)
      /\ Built(order.calls) /\ Covers /\ Fits
  BY CallType DEF StepRuns, CoverInv, FitInv, TypeOK, Order, Undisturbed
<1>2. plan \in Plan /\ plan' = After(Call) /\ UNCHANGED pending
  BY <1>1 DEF TypeOK, Runs
<1>3. plan' \in Plan
  BY <1>1, <1>2, CallTypes DEF TypeOK, Runs
<1>4. /\ Worth(plan) \in Nat /\ plan.stock \in Nat /\ plan.shares \in Nat
      /\ Worth(plan') \in Nat /\ plan'.stock \in Nat /\ plan'.shares \in Nat
  BY <1>2, <1>3, WorthType DEF Plan
<1>w. Worth(plan)' = Worth(plan')
  BY DEF Worth, Value
<1>5. ASSUME status' = "running" PROVE Covers'
  <2>1. /\ Call \in {"unboost", "withdraw", "claim"}
        /\ \A x : ToSend(x)' <=> ToSend(x) /\ x # Call
        /\ ~ToSend("close")
    BY <1>1, <1>5, CallAhead
  <2>2. /\ plan'.indexed = plan.indexed
        /\ Call = "unboost" =>
             /\ Worth(plan)' = Worth(plan) /\ plan'.stock = plan.stock
             /\ plan'.shares = 0
        /\ Call = "withdraw" =>
             /\ Worth(plan)' = 0 /\ plan'.stock = plan.stock
             /\ plan'.shares > 0 => plan.shares > 0
        /\ Call = "claim" =>
             /\ Worth(plan)' = Worth(plan) /\ plan'.stock = 0
             /\ plan'.shares = plan.shares
    BY <1>2, <2>1, LegEffect
  <2>3. \A n \in Nat : n = 0 => ~(n > 0)
    OBVIOUS
  <2> QED BY <1>1, <1>2, <1>4, <1>w, <2>1, <2>2, <2>3 DEF Covers
<1>6. ASSUME status' = "done" PROVE Emptied'
  <2>1. at = Len(order.calls)
    BY <1>1, <1>6 DEF StepRuns
  <2>2. \A x : ToSend(x) <=> x = Call
    <3>1. \A k \in at..Len(order.calls) : k = at
      BY <1>1, <2>1
    <3>2. at \in at..Len(order.calls)
      BY <1>1, <2>1
    <3> QED BY <3>1, <3>2 DEF ToSend, Call
  <2>3. CASE Call = "close"
    <3>1. plan' = Closed(plan)
      BY <1>2, <2>3 DEF After
    <3>2. EmptyPlan(plan') /\ (plan'.indexed => pending)
      BY <1>2, <3>1, ClosedIsEmpty DEF Parks
    <3> QED BY <1>2, <3>2 DEF Emptied, EmptyPlan
  <2>4. CASE Call # "close"
    <3>1. /\ plan.shares > 0 => Call = "unboost"
          /\ Worth(plan) > 0 => Call = "withdraw"
          /\ plan.stock > 0 => Call = "claim"
          /\ plan.indexed /\ ~pending => Call = "prune"
      BY <1>1, <2>2, <2>4 DEF Covers
    <3>2. Call # "part"
      BY <1>1, <2>2 DEF Fits, Undisturbed
    <3>3. CASE Call = "prune"
      <4>1. Worth(plan) = 0 /\ plan.stock = 0 /\ plan.shares = 0
        BY <1>4, <3>1, <3>3
      <4>2. EmptyPlan(plan)
        BY <1>2, <4>1, EmptyMeans
      <4>3. plan' = [plan EXCEPT !.indexed = FALSE]
        BY <1>2, <3>3 DEF After
      <4> QED BY <1>2, <4>2, <4>3 DEF Emptied, EmptyPlan, Plan
    <3>4. CASE Call \in {"unboost", "withdraw", "claim"}
      <4>1. /\ plan'.indexed = plan.indexed
            /\ Call = "unboost" =>
                 /\ Worth(plan)' = Worth(plan) /\ plan'.stock = plan.stock
                 /\ plan'.shares = 0
            /\ Call = "withdraw" =>
                 /\ Worth(plan)' = 0 /\ plan'.stock = plan.stock
                 /\ plan'.shares > 0 => plan.shares > 0
            /\ Call = "claim" =>
                 /\ Worth(plan)' = Worth(plan) /\ plan'.stock = 0
                 /\ plan'.shares = plan.shares
        BY <1>2, <3>4, LegEffect
      <4>2. Worth(plan') = 0 /\ plan'.stock = 0 /\ plan'.shares = 0
        BY <1>4, <1>w, <3>1, <3>4, <4>1
      <4>3. EmptyPlan(plan')
        BY <1>3, <4>2, EmptyMeans
      <4>4. plan.indexed => pending
        BY <3>1, <3>4 DEF TypeOK
      <4> QED BY <1>2, <4>1, <4>3, <4>4 DEF Emptied, EmptyPlan
    <3> QED BY <1>1, <2>4, <3>2, <3>3, <3>4 DEF Calls
  <2> QED BY <2>3, <2>4
<1> QED BY <1>5, <1>6

LEMMA CallCover ==
  ASSUME TypeOK, FlowInv, FitInv, CoverInv, StepRuns \/ AnswerLost
  PROVE  CoverInv'
<1>1. UNCHANGED <<phase, reading, raced, order>>
  BY DEF StepRuns, AnswerLost, form, read, ghosts
<1>2. CASE StepRuns
  <2>1. Undisturbed' => Undisturbed
    BY <1>1 DEF Undisturbed
  <2> QED BY <1>2, <2>1, RunCovers DEF CoverInv
<1>3. CASE AnswerLost
  BY <1>3 DEF AnswerLost, CoverInv
<1> QED BY <1>2, <1>3

LEMMA StartCover ==
  ASSUME TypeOK, FlowInv, FitInv, Start
  PROVE  CoverInv'
<1>1. /\ UNCHANGED chain /\ Send(OrderFor(fresh, mode))
      /\ raced' = (raced \/ reading # "none")
      /\ OrderFor(fresh, mode).calls # <<>>
  BY DEF Start, Preview
<1>2. fresh \in Read /\ fresh.ok /\ phase = "preview"
  BY DEF Start, Previewing, TypeOK, NoRead
<1>3. ~raced' => Matches(fresh)
  <2> SUFFICES ASSUME ~raced' PROVE Matches(fresh)
    OBVIOUS
  <2>1. ~raced /\ reading = "none"
    BY <1>1
  <2> QED BY <1>2, <2>1 DEF FitInv, FreshInv
<1>4. Matches(fresh) => Covers'
  BY <1>1, <1>2, SendCovers DEF FitInv
<1>5. status' = "running"
  BY <1>1 DEF Send
<1> QED BY <1>3, <1>4, <1>5 DEF CoverInv, Undisturbed

(* The rest of an order is built anew, or found to be nothing.             *)
LEMMA AnsweredCover ==
  ASSUME TypeOK, FlowInv, FitInv,
         \/ Previewed \/ Resume \/ ResumePart \/ Finish
         \/ \E known \in BOOLEAN : Verify(known)
  PROVE  CoverInv'
<1>1. Answered /\ UNCHANGED <<chain, raced>> /\ reading # "none"
  BY DEF Previewed, Resume, ResumePart, Finish, Verify, ghosts, Answered
<1>2. Found \in Read
  BY <1>1, AnsweredTypes
<1>3. ~raced => Matches(Found)
  BY <1>1, FoundMatches DEF FitInv
<1>4. ASSUME NEW m, Send(OrderFor(Found, m)), OrderFor(Found, m).calls # <<>>
      PROVE  CoverInv'
  <2>1. status' = "running"
    BY <1>4 DEF Send
  <2>2. ~raced' => Covers'
    BY <1>1, <1>2, <1>3, <1>4, SendCovers DEF FitInv
  <2> QED BY <2>1, <2>2 DEF CoverInv, Undisturbed
<1>5. ASSUME NEW m, SendNothing, OrderFor(Found, m).calls = <<>>
      PROVE  CoverInv'
  <2>1. status' = "done"
    BY <1>5 DEF SendNothing
  <2>2. Emptied => Emptied'
    BY <1>1 DEF Emptied, EmptyPlan, chain
  <2>3. ~raced' => Emptied
    BY <1>1, <1>2, <1>3, <1>5, NothingToSend DEF FitInv
  <2> QED BY <2>1, <2>2, <2>3 DEF CoverInv, Undisturbed
<1>6. CASE Previewed
  BY <1>6 DEF Previewed, FitInv, ReadingInv, form, CoverInv, Undisturbed
<1>7. CASE Resume
  BY <1>4, <1>5, <1>7 DEF Resume
<1>8. CASE ResumePart
  <2>1. CASE Found.idle > 0
    <3>1. order'.part = Found.idle
      BY <1>8, <2>1 DEF ResumePart, Send, PartialWithdraw
    <3>2. order'.part # 0
      BY <1>2, <2>1, <3>1 DEF Read
    <3> QED BY <3>2 DEF CoverInv, Undisturbed
  <2>2. CASE ~(Found.idle > 0)
    <3>1. status' = status /\ status \in {"failed", "lost"}
      BY <1>8, <2>2 DEF ResumePart, sent, FitInv, ReadingInv
    <3> QED BY <3>1 DEF CoverInv
  <2> QED BY <2>1, <2>2
<1>9. CASE Finish
  <2>1. phase # "flow"
    BY <1>9 DEF Finish, FlowInv
  <2>2. \/ phase' # "flow"
        \/ /\ Send(OrderFor(Found, mode))
           /\ OrderFor(Found, mode).calls # <<>>
    BY <1>9, <2>1 DEF Finish
  <2> QED BY <1>4, <2>2 DEF CoverInv, Undisturbed
<1>10. ASSUME NEW known \in BOOLEAN, Verify(known) PROVE CoverInv'
  BY <1>10 DEF Verify, CoverInv
<1> QED BY <1>6, <1>7, <1>8, <1>9, <1>10

(* What begins, ends or leaves a read, and what others do, proves nothing: *)
(* the run is over, disturbed, or waits for the read.                      *)
LEMMA OutsideCover ==
  ASSUME TypeOK, FlowInv, FitInv,
         \/ Open \/ ReadAgain \/ Done \/ Retry \/ ContinueStepwise
         \/ WithdrawAvailable \/ CloseFlow \/ FinishDelete
         \/ ReadPlan \/ ReadPending \/ Leave \/ ReadFails \/ Defer
         \/ Other \/ Clears
  PROVE  CoverInv'
<1>1. CASE \/ Open \/ ReadAgain \/ Done \/ Retry \/ ContinueStepwise
           \/ WithdrawAvailable \/ CloseFlow \/ FinishDelete
  <2>1. \E why : StartRead(why) /\ why # "none"
    BY <1>1 DEF Open, ReadAgain, Done, Retry, ContinueStepwise,
                WithdrawAvailable, CloseFlow, FinishDelete, Stuck
  <2>2. reading' # "none"
    BY <2>1 DEF StartRead
  <2> QED BY <2>2 DEF CoverInv, Undisturbed
<1>2. CASE ReadPlan \/ ReadPending
  <2>1. reading' # "none"
    BY <1>2 DEF ReadPlan, ReadPending, TypeOK
  <2> QED BY <2>1 DEF CoverInv, Undisturbed
<1>3. CASE Leave \/ Defer
  <2>1. phase' # "flow"
    BY <1>3 DEF Leave, Defer
  <2> QED BY <2>1 DEF CoverInv, Undisturbed
<1>4. CASE ReadFails
  <2>1. CASE reading = "verify"
    BY <1>4, <2>1 DEF ReadFails, CoverInv
  <2>2. CASE reading \in {"retry", "stepwise", "part"}
    BY <1>4, <2>2 DEF ReadFails, sent, FitInv, ReadingInv, CoverInv
  <2>3. CASE reading \in {"preview", "finish"}
    BY <1>4, <2>3
    DEF ReadFails, FitInv, ReadingInv, FlowInv, CoverInv, Undisturbed
  <2> QED BY <1>4, <2>1, <2>2, <2>3 DEF ReadFails, TypeOK
<1>5. CASE Other \/ Clears
  <2>1. phase' = phase /\ raced' = (phase # "closed")
    BY <1>5 DEF Other, Clears, form
  <2> QED BY <2>1 DEF CoverInv, Undisturbed
<1> QED BY <1>1, <1>2, <1>3, <1>4, <1>5

LEMMA QuietCover ==
  ASSUME TypeOK, FlowInv, FitInv, CoverInv,
         ChooseMode \/ StepReverts \/ Rejected \/ Poll \/ UNCHANGED vars
  PROVE  CoverInv'
<1>1. /\ UNCHANGED <<plan, pending, order, at, raced, reading, phase>>
  BY DEF ChooseMode, StepReverts, Rejected, Poll, vars, chain, page, read,
         form, sent, ghosts
<1>2. status' = status \/ status' = "failed"
  BY DEF ChooseMode, StepReverts, Rejected, Poll, vars, sent
<1>3. (Covers => Covers') /\ (Emptied => Emptied')
  BY <1>1 DEF Covers, Emptied, EmptyPlan, ToSend, Worth, Value
<1>4. Undisturbed' => Undisturbed
  BY <1>1 DEF Undisturbed
<1> QED BY <1>2, <1>3, <1>4 DEF CoverInv

LEMMA NextCover ==
  OutcomeInv /\ FitInv /\ CoverInv /\ [Next]_vars => CoverInv'
<1> SUFFICES ASSUME OutcomeInv, FitInv, CoverInv, [Next]_vars PROVE CoverInv'
  OBVIOUS
<1>1. TypeOK /\ FlowInv
  BY DEF OutcomeInv
<1>2. CASE Form
  BY <1>1, <1>2, AnsweredCover, CallCover, QuietCover, OutsideCover DEF Form
<1>3. CASE Press
  BY <1>1, <1>3, OutsideCover, StartCover DEF Press
<1> QED
  BY <1>1, <1>2, <1>3, OutsideCover, QuietCover, CallCover DEF Next

(* The safety half of RemovalEnds.  When the last call of a removal has    *)
(* run and nobody else has touched the plan since its calls' read, nothing *)
(* is left in it, whichever way the calls were built and however often the *)
(* rest was tried again; only an open page still keeps it in the list.     *)
RunsLeaveNothing == Undisturbed /\ status = "done" => Emptied

(* A run of any kind, removal or partial, stops at a call only if a leg is *)
(* blocked, or somebody else changed the plan since its calls' read.       *)
StopsHaveCauses ==
  status = "running" /\ ~raced /\ blocked = {} => GoesThrough(Call)

LEMMA CoverAlways == Spec => [](OutcomeInv /\ FitInv /\ CoverInv)
<1>1. Init => OutcomeInv /\ FitInv /\ CoverInv
  BY InitOutcome, InitFit, InitCover
<1>2. OutcomeInv /\ FitInv /\ CoverInv /\ [Next]_vars
        => OutcomeInv' /\ FitInv' /\ CoverInv'
  BY NextOutcome, NextFit, NextCover
<1> QED BY <1>1, <1>2, PTL DEF Spec

(* The calls of buildRemoveOrder and buildCloseOrder leave out nothing.    *)
THEOREM FinishedRunsLeaveNothing == Spec => []RunsLeaveNothing
<1>1. CoverInv => RunsLeaveNothing
  BY DEF CoverInv, RunsLeaveNothing
<1> QED BY <1>1, CoverAlways, PTL

(* No dead end in the middle: the calls of an order never stand in each    *)
(* other's way.                                                            *)
THEOREM OnlyOthersStopARun == Spec => []StopsHaveCauses
<1>1. LegsFit => StopsHaveCauses
  BY DEF LegsFit, StopsHaveCauses, GoesThrough
<1> QED BY <1>1, CallsFitThePlan, PTL
=============================================================================
