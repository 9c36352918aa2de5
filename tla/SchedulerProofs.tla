--------------------------- MODULE SchedulerProofs --------------------------
(***************************************************************************)
(* The scheduler's safety over the keeper it calls, for every job list,    *)
(* page limit and bound: its types, that it runs the jobs it names, that   *)
(* what it simulates does not revert, that every step of it is a step of   *)
(* EpochKeeper, whose invariants therefore hold below it, and that it has  *)
(* one transaction in flight, which is the one it waits for.               *)
(***************************************************************************)
EXTENDS Scheduler, SequenceTheorems, TLAPS

LEMMA ConstantTypes ==
  /\ Refusing \subseteq Targets /\ Planned \subseteq Targets
  /\ PageSize \in Nat \ {0} /\ MaxPlans \in Nat /\ MaxEpoch \in Nat
  /\ Jobs0 \in Seq(Targets) /\ PageLimit \in Nat
  /\ MaxPagesPerJob \in Nat \ {0} /\ MaxChanges \in Nat /\ MaxFaults \in Nat
BY SchedulerAssumption

-----------------------------------------------------------------------------
(* Types, in two parts: the chain, and the bot.                            *)

ChainOK ==
  /\ jobs \in Seq(Keeper!Job) /\ jobIndex \in [Targets -> Nat]
  /\ epoch \in Nat /\ left \in [Targets -> Nat]
  /\ refuses \in [Targets -> BOOLEAN]

BotOK ==
  /\ pc \in {"sleep", "read", "nudge", "nudged", "reread", "jobs",
             "simulate", "send", "receipt"}
  /\ unread \subseteq {"jobs", "due", "block"}
  /\ seen \in Seq(Keeper!Job) /\ due \subseteq Nat \ {0} /\ block \in 0..epoch
  /\ job \in Nat /\ page \in 0..MaxPagesPerJob
  /\ result \in {"none", "more", "over"}
  /\ uncovered \subseteq Planned /\ stopping \in BOOLEAN

RestOK ==
  /\ passed \in BOOLEAN /\ pool \in Seq(Pending)
  /\ changes \in 0..MaxChanges /\ faults \in 0..MaxFaults
  /\ moved \in BOOLEAN /\ raced \in BOOLEAN

LEMMA TypeParts == TypeOK <=> ChainOK /\ BotOK /\ RestOK
<1>1. {stopping, moved, raced} \subseteq BOOLEAN
        <=> stopping \in BOOLEAN /\ moved \in BOOLEAN /\ raced \in BOOLEAN
  OBVIOUS
<1> QED BY <1>1, Zenon DEF TypeOK, ChainOK, BotOK, RestOK

LEMMA NextParts ==
  ASSUME ChainOK', BotOK', RestOK'
  PROVE  TypeOK'
<1>1. {stopping', moved', raced'} \subseteq BOOLEAN
  BY DEF BotOK, RestOK
<1> QED BY <1>1 DEF TypeOK, ChainOK, BotOK, RestOK

(* A job is being run only if the list that was read has it, and the list  *)
(* is read before any job is run.                                          *)
Scope ==
  /\ unread # {} => pc \in {"read", "reread"}
  /\ "jobs" \in unread => pc = "read"
  /\ pc \in {"simulate", "send", "receipt"} => job \in DOMAIN seen

LEMMA JobTypes ==
  ASSUME ChainOK, NEW i \in DOMAIN jobs
  PROVE  /\ jobs[i] \in Keeper!Job /\ jobs[i].target \in Targets
         /\ jobs[i].active \in BOOLEAN /\ i \in 1..Len(jobs)
<1>1. jobs[i] \in Keeper!Job /\ i \in 1..Len(jobs)
  BY DEF ChainOK
<1> QED BY <1>1 DEF Keeper!Job

(* What a call of the keeper does to its state.                            *)
LEMMA KeeperTypes ==
  ASSUME ChainOK,
         \/ \E t \in Targets : Keeper!AddJob(t)
         \/ \E i \in DOMAIN jobs : Keeper!RemoveJob(i)
         \/ \E i \in DOMAIN jobs : Keeper!SetJobActive(i, ~jobs[i].active)
         \/ \E i \in DOMAIN jobs, n \in Nat : Keeper!Run(i, n)
         \/ \E t \in Refusing : Keeper!Refuses(t)
  PROVE  ChainOK' /\ epoch' = epoch
<1> USE DEF ChainOK, Keeper!keeper, Keeper!vaults
<1>1. ASSUME NEW t \in Targets, Keeper!AddJob(t) PROVE ChainOK' /\ epoch' = epoch
  <2>1. [target |-> t, active |-> TRUE] \in Keeper!Job
    BY DEF Keeper!Job
  <2> QED BY <1>1, <2>1 DEF Keeper!AddJob
<1>2. ASSUME NEW i \in DOMAIN jobs, Keeper!RemoveJob(i)
      PROVE  ChainOK' /\ epoch' = epoch
  <2>1. jobs' \in Seq(Keeper!Job)
    <3>0. i \in 1..Len(jobs)
      BY JobTypes
    <3>1. Len(jobs) \in 1..Len(jobs) /\ Len(jobs) - 1 \in Nat
      BY <3>0
    <3>2. \A k \in 1..(Len(jobs) - 1) :
            (IF k = i THEN jobs[Len(jobs)] ELSE jobs[k]) \in Keeper!Job
      BY <3>1
    <3> QED BY <1>2, <3>1, <3>2 DEF Keeper!RemoveJob
  <2>2. jobIndex' \in [Targets -> Nat]
    <3>1. i \in Nat
      BY JobTypes
    <3> QED BY <1>2, <3>1 DEF Keeper!RemoveJob
  <2> QED BY <1>2, <2>1, <2>2 DEF Keeper!RemoveJob
<1>3. ASSUME NEW i \in DOMAIN jobs, Keeper!SetJobActive(i, ~jobs[i].active)
      PROVE  ChainOK' /\ epoch' = epoch
  <2>1. [jobs[i] EXCEPT !.active = ~jobs[i].active] \in Keeper!Job
    BY JobTypes DEF Keeper!Job
  <2>2. jobs' \in Seq(Keeper!Job)
    BY <1>3, <2>1 DEF Keeper!SetJobActive
  <2> QED BY <1>3, <2>2 DEF Keeper!SetJobActive
<1>4. ASSUME NEW i \in DOMAIN jobs, NEW n \in Nat, Keeper!Run(i, n)
      PROVE  ChainOK' /\ epoch' = epoch
  <2> DEFINE m == IF n = 0 \/ n > PageSize THEN PageSize ELSE n
             ts == {jobs[i].target}
  <2>1. m \in Nat
    BY ConstantTypes
  <2>2. Keeper!Pages(ts, m) /\ UNCHANGED <<jobs, jobIndex, epoch, refuses>>
    BY <1>4 DEF Keeper!Run
  <2> HIDE DEF m, ts
  <2>3. left' \in [Targets -> Nat]
    BY <2>1, <2>2 DEF Keeper!Pages
  <2> QED BY <2>2, <2>3
<1>5. ASSUME NEW t \in Refusing, Keeper!Refuses(t)
      PROVE  ChainOK' /\ epoch' = epoch
  BY <1>5, ConstantTypes DEF Keeper!Refuses
<1> QED BY <1>1, <1>2, <1>3, <1>4, <1>5

LEMMA InitTypes == Init => TypeOK
<1> SUFFICES ASSUME Init PROVE TypeOK
  OBVIOUS
<1>1. ChainOK
  <2>1. jobs \in Seq(Keeper!Job)
    <3>1. Jobs0 \in [1..Len(Jobs0) -> Targets] /\ Len(Jobs0) \in Nat
          /\ DOMAIN Jobs0 = 1..Len(Jobs0)
      BY ConstantTypes, LenProperties
    <3>2. \A i \in 1..Len(Jobs0) :
            [target |-> Jobs0[i], active |-> TRUE] \in Keeper!Job
      BY <3>1 DEF Keeper!Job
    <3>3. jobs = [i \in 1..Len(Jobs0) |->
                    [target |-> Jobs0[i], active |-> TRUE]]
      BY <3>1 DEF Init
    <3> QED BY <3>1, <3>2, <3>3, IsASeq
  <2>2. jobIndex \in [Targets -> Nat]
    <3>1. Len(Jobs0) \in Nat
      BY ConstantTypes
    <3> QED BY <3>1 DEF Init
  <2> QED BY <2>1, <2>2 DEF Init, ChainOK
<1>2. BotOK
  <2>1. <<>> \in Seq(Keeper!Job)
    OBVIOUS
  <2>2. /\ pc = "sleep" /\ unread = {} /\ seen = <<>> /\ due = {}
        /\ block = 0 /\ job = 0 /\ page = 0 /\ epoch = 0
    BY DEF Init
  <2>3. result = "none" /\ uncovered = {} /\ stopping = FALSE
    BY DEF Init
  <2>4. 0 \in 0..MaxPagesPerJob
    BY ConstantTypes
  <2>5. /\ pc \in {"sleep", "read", "nudge", "nudged", "reread", "jobs",
                   "simulate", "send", "receipt"}
        /\ unread \subseteq {"jobs", "due", "block"}
        /\ result \in {"none", "more", "over"}
    BY <2>2, <2>3
  <2>6. due \subseteq Nat \ {0} /\ block \in 0..epoch /\ job \in Nat
        /\ page \in 0..MaxPagesPerJob
    BY <2>2, <2>4
  <2>7. uncovered \subseteq Planned /\ stopping \in BOOLEAN
    BY <2>3
  <2> QED BY <2>1, <2>2, <2>5, <2>6, <2>7 DEF BotOK
<1>3. RestOK
  <2>1. <<>> \in Seq(Pending)
    OBVIOUS
  <2>2. pool = <<>> /\ changes = 0 /\ faults = 0
    BY DEF Init
  <2>3. passed = FALSE /\ moved = FALSE /\ raced = FALSE
    BY DEF Init
  <2>4. 0 \in 0..MaxChanges /\ 0 \in 0..MaxFaults
    BY ConstantTypes
  <2> QED BY <2>1, <2>2, <2>3, <2>4 DEF RestOK
<1> QED BY <1>1, <1>2, <1>3, TypeParts

LEMMA SentType ==
  ASSUME RestOK, NEW i \in Nat, NEW t \in Targets \cup {"none"}
  PROVE  Sent(i, t) \in Seq(Pending)
<1>1. [index |-> i, target |-> t, moved |-> moved, raced |-> raced] \in Pending
  BY DEF RestOK, Pending
<1> QED BY <1>1 DEF Sent, RestOK

LEMMA MarkedType ==
  ASSUME NEW txs \in Seq(Pending), NEW b \in BOOLEAN
  PROVE  /\ Marked(txs, b) \in Seq(Pending) /\ DOMAIN Marked(txs, b) = DOMAIN txs
         /\ Len(Marked(txs, b)) = Len(txs)
         /\ \A k \in DOMAIN txs :
              /\ Marked(txs, b)[k].index = txs[k].index
              /\ Marked(txs, b)[k].target = txs[k].target
              /\ Marked(txs, b)[k].raced
              /\ Marked(txs, b)[k].moved = (txs[k].moved \/ b)
<1>1. DOMAIN txs = 1..Len(txs) /\ Len(txs) \in Nat
  BY LenProperties
<1>2. ASSUME NEW k \in DOMAIN txs
      PROVE  LET tx == [txs[k] EXCEPT !.raced = TRUE, !.moved = @ \/ b]
             IN /\ tx \in Pending /\ tx.index = txs[k].index
                /\ tx.target = txs[k].target /\ tx.raced
                /\ tx.moved = (txs[k].moved \/ b)
  <2>1. txs[k] \in Pending
    BY <1>1
  <2>2. (txs[k].moved \/ b) \in BOOLEAN
    OBVIOUS
  <2> DEFINE m == txs[k].moved \/ b
             tx == [txs[k] EXCEPT !.raced = TRUE, !.moved = m]
  <2> HIDE DEF m
  <2>3. /\ tx \in Pending /\ tx.index = txs[k].index
        /\ tx.target = txs[k].target /\ tx.raced = TRUE /\ tx.moved = m
    BY <2>1, <2>2 DEF Pending, m
  <2> QED BY <2>3 DEF m
<1> DEFINE g(k) == [txs[k] EXCEPT !.raced = TRUE, !.moved = @ \/ b]
           f == [k \in 1..Len(txs) |-> g(k)]
<1>3. f = Marked(txs, b)
  BY <1>1 DEF Marked
<1>4. \A k \in 1..Len(txs) :
        /\ g(k) \in Pending /\ g(k).index = txs[k].index
        /\ g(k).target = txs[k].target /\ g(k).raced
        /\ g(k).moved = (txs[k].moved \/ b)
  BY <1>1, <1>2
<1> HIDE DEF g
<1>5. f \in Seq(Pending) /\ Len(f) = Len(txs) /\ DOMAIN f = DOMAIN txs
  <2>1. f \in [1..Len(txs) -> Pending]
    BY <1>4
  <2> QED BY <1>1, <2>1
<1>6. \A k \in DOMAIN txs : f[k] = g(k)
  BY <1>1
<1> HIDE DEF f
<1> QED BY <1>1, <1>3, <1>4, <1>5, <1>6

LEMMA ResetTypes ==
  ASSUME Reset, pc' = "sleep", uncovered' \subseteq Planned,
         stopping' \in BOOLEAN, epoch' \in Nat
  PROVE  BotOK'
<1>1. <<>> \in Seq(Keeper!Job) /\ 0 \in 0..MaxPagesPerJob
  BY ConstantTypes
<1> QED BY <1>1 DEF Reset, BotOK

LEMMA ReadTypes ==
  ASSUME TypeOK, Wake \/ ReadJobs \/ ReadDue \/ ReadBlock \/ Decide \/ Reread
  PROVE  TypeOK'
<1>1. ChainOK /\ BotOK /\ RestOK
  BY TypeParts
<1>2. ChainOK'
  BY <1>1 DEF ChainOK, Wake, ReadJobs, ReadDue, ReadBlock, Decide, Reread,
              chain, list, vaults
<1>3. RestOK'
  <2>1. CASE Wake
    BY <1>1, <2>1 DEF RestOK, Wake, chain, bounds
  <2>2. CASE ~Wake
    <3>1. UNCHANGED <<passed, pool, changes, faults, moved, raced>>
      BY <2>2 DEF ReadJobs, ReadDue, ReadBlock, Decide, Reread, chain, bounds,
                  ghosts
    <3> QED BY <1>1, <3>1 DEF RestOK
  <2> QED BY <2>1, <2>2
<1>4. BotOK'
  <2>0. epoch' = epoch /\ epoch \in Nat
    BY <1>1 DEF ChainOK, Wake, ReadJobs, ReadDue, ReadBlock, Decide, Reread,
                chain, vaults
  <2>1. CASE Wake
    BY <1>1, <2>0, <2>1 DEF BotOK, Wake
  <2>2. CASE ReadJobs
    BY <1>1, <2>0, <2>2 DEF BotOK, ChainOK, ReadJobs
  <2>3. CASE ReadDue
    <3>1. Keeper!DueJobs \subseteq Nat \ {0}
      BY DEF Keeper!DueJobs
    <3> QED BY <1>1, <2>0, <2>3, <3>1 DEF BotOK, ReadDue
  <2>4. CASE ReadBlock
    BY <1>1, <2>0, <2>4 DEF BotOK, ReadBlock
  <2>5. CASE Decide \/ Reread
    BY <1>1, <2>0, <2>5 DEF BotOK, Decide, Reread, tick
  <2> QED BY <2>1, <2>2, <2>3, <2>4, <2>5
<1> QED BY <1>2, <1>3, <1>4, NextParts

LEMMA JobsTypes ==
  ASSUME TypeOK, Scope,
         SendNudge \/ Nudged \/ NextJob \/ Simulate \/ Send \/ Receipt
           \/ CheckUncovered \/ EndTick
  PROVE  TypeOK'
<1>1. ChainOK /\ BotOK /\ RestOK
  BY TypeParts
<1>2. /\ UNCHANGED <<jobs, jobIndex, epoch, left, refuses, passed, changes,
                     faults, moved>>
      /\ raced' = raced \/ raced' = FALSE
  BY DEF SendNudge, Nudged, NextJob, Simulate, Send, Receipt, CheckUncovered,
         EndTick, chain, list, vaults, bounds, ghosts
<1>3. ChainOK'
  BY <1>1, <1>2 DEF ChainOK
<1>4. pool' \in Seq(Pending)
  <2>1. CASE SendNudge
    BY <1>1, <2>1, SentType DEF SendNudge, Nudge
  <2>2. CASE Send
    <3>1. CASE SimulatedRun(job)
      <4>1. JobAt(job).target \in Targets \cup {"none"}
        <5>1. job \in DOMAIN seen
          BY <2>2 DEF Send, Scope
        <5>2. seen[job] \in Keeper!Job
          BY <1>1, <5>1 DEF BotOK
        <5> QED BY <5>2 DEF JobAt, Keeper!Job
      <4> QED BY <1>1, <2>2, <3>1, <4>1, SentType DEF Send, BotOK
    <3>2. CASE ~SimulatedRun(job)
      BY <1>1, <2>2, <3>2 DEF Send, RestOK
    <3> QED BY <3>1, <3>2
  <2>3. CASE ~SendNudge /\ ~Send
    BY <1>1, <2>3 DEF RestOK, Nudged, NextJob, Simulate, Receipt,
                      CheckUncovered, EndTick, chain
  <2> QED BY <2>1, <2>2, <2>3
<1>5. RestOK'
  BY <1>1, <1>2, <1>4 DEF RestOK
<1>6. BotOK'
  <2>0. epoch' = epoch /\ epoch \in Nat
    BY <1>1, <1>2 DEF ChainOK
  <2>1. CASE SendNudge
    BY <1>1, <2>0, <2>1 DEF BotOK, SendNudge, tick
  <2>2. CASE Nudged
    BY <1>1, <2>0, <2>2 DEF BotOK, Nudged
  <2>3. CASE NextJob
    <3>2. 1 \in 0..MaxPagesPerJob
      BY ConstantTypes
    <3>3. job' \in Nat
      <4>1. FirstDue \in DOMAIN seen => FirstDue \in Nat
        BY <1>1 DEF BotOK
      <4> QED BY <1>1, <2>3, <4>1 DEF BotOK, NextJob
    <3>4. due' \subseteq Nat \ {0} /\ page' \in 0..MaxPagesPerJob
      BY <1>1, <2>3, <3>2 DEF BotOK, NextJob
    <3>5. pc' \in {"jobs", "simulate"}
      BY <2>3 DEF NextJob
    <3>6. UNCHANGED <<unread, seen, block, result, uncovered, stopping>>
      BY <2>3 DEF NextJob
    <3> QED BY <1>1, <2>0, <3>3, <3>4, <3>5, <3>6 DEF BotOK
  <2>4. CASE Simulate
    BY <1>1, <2>0, <2>4 DEF BotOK, Simulate, tick
  <2>5. CASE Send
    <3>1. CASE SimulatedRun(job)
      BY <1>1, <2>0, <2>5, <3>1 DEF BotOK, Send, tick
    <3>2. CASE ~SimulatedRun(job)
      BY <1>1, <2>0, <2>5, <3>2, ResetTypes DEF BotOK, Send
    <3> QED BY <3>1, <3>2
  <2>6. CASE Receipt
    <3>1. page' \in 0..MaxPagesPerJob
      BY <1>1, <2>6, ConstantTypes DEF BotOK, Receipt
    <3> QED BY <1>1, <2>0, <2>6, <3>1 DEF BotOK, Receipt
  <2>7. CASE CheckUncovered
    <3>1. uncovered' \subseteq Planned
      BY <2>7 DEF CheckUncovered, UncoveredPlans
    <3> QED BY <1>1, <2>0, <2>7, <3>1, ResetTypes DEF BotOK, CheckUncovered
  <2>8. CASE EndTick
    BY <1>1, <2>0, <2>8, ResetTypes DEF BotOK, EndTick
  <2> QED BY <2>1, <2>2, <2>3, <2>4, <2>5, <2>6, <2>7, <2>8
<1> QED BY <1>3, <1>5, <1>6, NextParts

LEMMA FaultTypes ==
  ASSUME TypeOK, Stop \/ TickFails \/ StepFails \/ Crash
  PROVE  TypeOK'
<1>1. ChainOK /\ BotOK /\ RestOK
  BY TypeParts
<1>2. UNCHANGED <<chain, changes, moved, raced>>
  BY DEF Stop, TickFails, StepFails, Crash, bounds, ghosts
<1>3. faults' \in 0..MaxFaults
  BY <1>1, ConstantTypes
  DEF Stop, TickFails, StepFails, Crash, Fault, bounds, RestOK
<1>4. ChainOK' /\ RestOK'
  BY <1>1, <1>2, <1>3 DEF ChainOK, RestOK, chain, list, vaults
<1>5. epoch' = epoch /\ epoch \in Nat
  BY <1>1, <1>2 DEF ChainOK, chain, vaults
<1>6. BotOK'
  <2>1. CASE Stop
    BY <1>1, <1>5, <2>1 DEF BotOK, Stop, tick
  <2>2. CASE StepFails
    BY <1>1, <1>5, <2>2 DEF BotOK, StepFails
  <2>3. CASE TickFails
    BY <1>1, <1>5, <2>3, ResetTypes DEF BotOK, TickFails
  <2>4. CASE Crash
    BY <1>1, <1>5, <2>4, ResetTypes DEF BotOK, Crash
  <2> QED BY <2>1, <2>2, <2>3, <2>4
<1> QED BY <1>4, <1>6, NextParts

LEMMA MineTypes ==
  ASSUME TypeOK, Mine
  PROVE  TypeOK'
<1>1. ChainOK /\ BotOK /\ RestOK
  BY TypeParts
<1> DEFINE tx == Head(pool)
           ran == tx.index # Nudge /\ Runs(tx.index)
<1>2. pool \in Seq(Pending) /\ pool # <<>> /\ Tail(pool) \in Seq(Pending)
  BY <1>1 DEF Mine, RestOK
<1>3. ChainOK' /\ epoch' = epoch
  <2>1. CASE ran
    <3>1. Keeper!Run(tx.index, PageLimit) /\ tx.index \in DOMAIN jobs
      BY <2>1 DEF Mine, Runs
    <3> QED BY <1>1, <3>1, KeeperTypes, ConstantTypes
  <2>2. CASE ~ran
    BY <1>1, <2>2 DEF Mine, ChainOK, list, vaults
  <2> QED BY <2>1, <2>2
<1>4. pool' \in Seq(Pending)
  <2>1. pool' = IF ran THEN Marked(Tail(pool), FALSE) ELSE Tail(pool)
    BY DEF Mine
  <2> QED BY <1>2, <2>1, MarkedType
<1>5. result' \in {"none", "more", "over"}
  BY <1>1 DEF Mine, BotOK
<1>6. raced' \in BOOLEAN
  BY DEF Mine
<1>7. UNCHANGED <<passed, bounds, pc, unread, seen, due, block, job, page,
                  uncovered, stopping, moved>>
  BY DEF Mine
<1>8. BotOK' /\ RestOK'
  BY <1>1, <1>3, <1>4, <1>5, <1>6, <1>7 DEF BotOK, RestOK, bounds
<1> QED BY <1>3, <1>8, NextParts

LEMMA ChainTypes ==
  ASSUME TypeOK, PassBoundary \/ Other \/ \E plans \in Plans : EpochStarts(plans)
  PROVE  TypeOK'
<1>1. ChainOK /\ BotOK /\ RestOK
  BY TypeParts
<1>2. CASE PassBoundary
  BY <1>1, <1>2, NextParts
  DEF PassBoundary, ChainOK, BotOK, RestOK, list, vaults, bounds, bot, tick,
      ghosts
<1>3. ASSUME NEW plans \in Plans, EpochStarts(plans) PROVE TypeOK'
  <2>1. /\ epoch' = epoch + 1 /\ left' = plans
        /\ UNCHANGED <<jobs, jobIndex, refuses>>
    BY <1>3 DEF EpochStarts, Keeper!EpochStarts, Keeper!keeper
  <2>2. plans \in [Targets -> Nat]
    BY ConstantTypes DEF Plans
  <2>3. ChainOK'
    BY <1>1, <2>1, <2>2 DEF ChainOK
  <2>4. pool' \in Seq(Pending) /\ raced' = TRUE /\ moved' \in BOOLEAN
        /\ passed' = FALSE
    BY <1>1, <1>3, MarkedType DEF EpochStarts, RestOK, Touch
  <2>5. UNCHANGED <<bounds, bot>>
    BY <1>3 DEF EpochStarts
  <2>6. RestOK'
    BY <1>1, <2>4, <2>5 DEF RestOK, bounds
  <2>7. block' \in 0..epoch'
    BY <1>1, <2>1, <2>5 DEF BotOK, ChainOK, bot, tick
  <2>8. BotOK'
    BY <1>1, <2>5, <2>7 DEF BotOK, bot, tick
  <2> QED BY <2>3, <2>6, <2>8, NextParts
<1>4. CASE Other
  <2>1. ChainOK' /\ epoch' = epoch /\ moved' \in BOOLEAN
    <3>1. Others
      BY <1>4 DEF Other
    <3>2. moved' \in BOOLEAN
      BY <1>1, <3>1 DEF Others, RestOK
    <3>3. \/ \E t \in Targets : Keeper!AddJob(t)
          \/ \E i \in DOMAIN jobs : Keeper!RemoveJob(i)
          \/ \E i \in DOMAIN jobs : Keeper!SetJobActive(i, ~jobs[i].active)
          \/ \E i \in DOMAIN jobs, n \in Nat : Keeper!Run(i, n)
          \/ \E t \in Refusing : Keeper!Refuses(t)
      BY <3>1 DEF Others
    <3> QED BY <1>1, <3>2, <3>3, KeeperTypes
  <2>2. pool' \in Seq(Pending) /\ raced' = TRUE
    <3>1. (Len(jobs') < Len(jobs)) \in BOOLEAN
      OBVIOUS
    <3>2. Marked(pool, Len(jobs') < Len(jobs)) \in Seq(Pending)
      BY <1>1, <3>1, MarkedType DEF RestOK
    <3> QED BY <1>4, <3>2 DEF Other
  <2>3. changes' \in 0..MaxChanges
    BY <1>1, <1>4, ConstantTypes DEF Other, RestOK
  <2>4. UNCHANGED <<passed, faults, bot>>
    BY <1>4 DEF Other
  <2>5. RestOK'
    BY <1>1, <2>1, <2>2, <2>3, <2>4 DEF RestOK
  <2>6. BotOK'
    BY <1>1, <2>1, <2>4 DEF BotOK, bot, tick
  <2> QED BY <2>1, <2>5, <2>6, NextParts
<1> QED BY <1>2, <1>3, <1>4

LEMMA NextTypes == TypeOK /\ Scope /\ [Next]_vars => TypeOK'
<1> SUFFICES ASSUME TypeOK, Scope, [Next]_vars PROVE TypeOK'
  OBVIOUS
<1>1. CASE UNCHANGED vars
  BY <1>1, TypeParts, NextParts
  DEF vars, chain, list, vaults, bounds, bot, tick, ghosts, ChainOK, BotOK,
      RestOK
<1>2. CASE BotStep
  BY <1>2, ReadTypes, JobsTypes DEF BotStep
<1> QED
  BY <1>1, <1>2, FaultTypes, MineTypes, ChainTypes DEF Next

-----------------------------------------------------------------------------
(* What the pool's transactions will find.                                 *)

(* A list that was read names, at each index, the target the keeper has    *)
(* there, until a job is removed.                                          *)
SeenAgrees ==
  "jobs" \notin unread /\ ~moved =>
    \A i \in DOMAIN seen : i \in DOMAIN jobs /\ jobs[i].target = seen[i].target

(* So does a transaction, and one that nothing overtook goes through.      *)
Good(js, waiting, refusing, tx) ==
  tx.index # Nudge =>
    /\ ~tx.moved => tx.index \in DOMAIN js /\ js[tx.index].target = tx.target
    /\ ~tx.raced => /\ tx.index \in DOMAIN js
                    /\ waiting[js[tx.index].target] > 0
                    /\ ~refusing[js[tx.index].target]

PoolAgrees ==
  \A k \in DOMAIN pool : Good(jobs, left, refuses, pool[k])

SchedulerInv == TypeOK /\ Scope /\ SeenAgrees /\ PoolAgrees

LEMMA InitInv == Init => SchedulerInv
<1> SUFFICES ASSUME Init PROVE SchedulerInv
  OBVIOUS
<1>1. TypeOK
  BY InitTypes
<1>2. pc = "sleep" /\ unread = {} /\ seen = <<>> /\ pool = <<>>
  BY DEF Init
<1>3. DOMAIN <<>> = {}
  OBVIOUS
<1> QED BY <1>1, <1>2, <1>3 DEF SchedulerInv, Scope, SeenAgrees, PoolAgrees

LEMMA NextScope ==
  ASSUME TypeOK, Scope, [Next]_vars
  PROVE  Scope'
<1> USE DEF Scope
<1>1. CASE UNCHANGED vars
  BY <1>1 DEF vars, bot, tick
<1>2. CASE Wake \/ ReadJobs \/ ReadDue \/ ReadBlock \/ Decide \/ Reread
  BY <1>2 DEF Wake, ReadJobs, ReadDue, ReadBlock, Decide, Reread, tick
<1>3. CASE SendNudge \/ Nudged \/ Simulate
  BY <1>3 DEF SendNudge, Nudged, Simulate, tick
<1>4. CASE NextJob
  BY <1>4 DEF NextJob
<1>5. CASE Receipt
  BY <1>5 DEF Receipt
<1>6. CASE Send
  BY <1>6 DEF Send, Reset, tick
<1>7. CASE CheckUncovered \/ EndTick \/ TickFails \/ Crash
  BY <1>7 DEF CheckUncovered, EndTick, TickFails, Crash, Reset
<1>8. CASE Stop \/ StepFails
  BY <1>8 DEF Stop, StepFails, tick
<1>9. CASE Mine
  BY <1>9 DEF Mine
<1>10. CASE PassBoundary \/ Other \/ \E plans \in Plans : EpochStarts(plans)
  BY <1>10 DEF PassBoundary, Other, EpochStarts, bot, tick
<1> QED
  BY <1>1, <1>2, <1>3, <1>4, <1>5, <1>6, <1>7, <1>8, <1>9, <1>10
  DEF Next, BotStep

LEMMA RemovalShortens ==
  ASSUME TypeOK, NEW i \in DOMAIN jobs, Keeper!RemoveJob(i)
  PROVE  Len(jobs') < Len(jobs)
<1>1. Len(jobs) \in Nat /\ i \in 1..Len(jobs)
  BY DEF TypeOK
<1>2. Len(jobs) - 1 \in Nat
  BY <1>1
<1>3. jobs' = [k \in 1..(Len(jobs) - 1) |->
                 IF k = i THEN jobs[Len(jobs)] ELSE jobs[k]]
  BY DEF Keeper!RemoveJob
<1>4. Len(jobs') = Len(jobs) - 1
  BY <1>2, <1>3
<1> QED BY <1>1, <1>4

(* The calls of others leave every job where it is, except for a removal,  *)
(* which shortens the list.                                                *)
LEMMA JobsKept ==
  ASSUME TypeOK, Others
  PROVE  \/ Len(jobs') < Len(jobs) /\ moved' = TRUE
         \/ /\ \A i \in DOMAIN jobs :
                 i \in DOMAIN jobs' /\ jobs'[i].target = jobs[i].target
            /\ moved' = moved /\ ~(Len(jobs') < Len(jobs))
<1> USE DEF Keeper!keeper
<1> DEFINE Kept == /\ \A i \in DOMAIN jobs :
                        /\ i \in DOMAIN jobs'
                        /\ jobs'[i].target = jobs[i].target
                   /\ ~(Len(jobs') < Len(jobs))
<1>0. jobs \in Seq(Keeper!Job) /\ Len(jobs) \in Nat
  BY DEF TypeOK
<1>1. ASSUME NEW t \in Targets, Keeper!AddJob(t) PROVE Kept
  BY <1>0, <1>1 DEF Keeper!AddJob
<1>2. ASSUME NEW i \in DOMAIN jobs, Keeper!SetJobActive(i, ~jobs[i].active)
      PROVE  Kept
  <2>1. jobs' = [jobs EXCEPT ![i].active = ~jobs[i].active]
    BY <1>2 DEF Keeper!SetJobActive
  <2>2. DOMAIN jobs' = DOMAIN jobs /\ Len(jobs') = Len(jobs)
    BY <1>0, <2>1
  <2>3. ASSUME NEW k \in DOMAIN jobs PROVE jobs'[k].target = jobs[k].target
    <3>1. jobs[k] \in Keeper!Job
      BY <1>0
    <3>2. jobs'[k] = IF k = i THEN [jobs[k] EXCEPT !.active = ~jobs[i].active]
                     ELSE jobs[k]
      BY <1>0, <2>1
    <3> QED BY <3>1, <3>2 DEF Keeper!Job
  <2> QED BY <1>0, <2>2, <2>3
<1>3. ASSUME \/ \E i \in DOMAIN jobs : Keeper!Run(i, 0)
             \/ \E t \in Refusing : Keeper!Refuses(t)
      PROVE  Kept
  <2>1. jobs' = jobs
    BY <1>3 DEF Keeper!Run, Keeper!Refuses
  <2> QED BY <1>0, <2>1
<1> QED BY <1>1, <1>2, <1>3, RemovalShortens DEF Others

LEMMA NextSeen ==
  ASSUME SchedulerInv, [Next]_vars
  PROVE  SeenAgrees'
<1>1. TypeOK /\ Scope /\ SeenAgrees
  BY DEF SchedulerInv
<1>2. CASE /\ UNCHANGED <<jobs, seen, moved>>
           /\ unread' = unread \/ "jobs" \notin unread
           /\ "jobs" \notin unread' => "jobs" \notin unread
  BY <1>1, <1>2 DEF SeenAgrees
<1>3. CASE seen' = <<>>
  BY <1>3 DEF SeenAgrees
<1>4. CASE UNCHANGED vars \/ Stop \/ PassBoundary
  BY <1>2, <1>4 DEF vars, Stop, PassBoundary, chain, list, bot, tick, ghosts
<1>5. CASE Wake
  BY <1>5 DEF Wake, SeenAgrees
<1>6. CASE ReadJobs
  BY <1>6 DEF ReadJobs, SeenAgrees, chain, list
<1>7. CASE ReadDue \/ ReadBlock \/ Decide \/ Reread
  <2>1. UNCHANGED <<jobs, seen, moved>>
    BY <1>7 DEF ReadDue, ReadBlock, Decide, Reread, chain, list, tick, ghosts
  <2>2. "jobs" \in unread <=> "jobs" \in unread'
    BY <1>7 DEF ReadDue, ReadBlock, Decide, Reread, tick
  <2> QED BY <1>1, <2>1, <2>2 DEF SeenAgrees
<1>8. CASE SendNudge \/ Simulate \/ NextJob \/ Receipt
  <2>1. UNCHANGED <<jobs, seen, moved, unread>>
    BY <1>8
    DEF SendNudge, Simulate, NextJob, Receipt, chain, list, tick, ghosts
  <2> QED BY <1>2, <2>1
<1>9. CASE Nudged
  <2>1. "jobs" \notin unread
    BY <1>1, <1>9 DEF Nudged, Scope
  <2> QED BY <1>2, <1>9, <2>1 DEF Nudged, chain, list, ghosts
<1>10. CASE Send
  BY <1>2, <1>3, <1>10 DEF Send, Reset, list, tick, ghosts
<1>11. CASE CheckUncovered \/ EndTick \/ TickFails \/ Crash
  BY <1>3, <1>11 DEF CheckUncovered, EndTick, TickFails, Crash, Reset
<1>12. CASE StepFails
  BY <1>2, <1>12 DEF StepFails, chain, list, ghosts
<1>13. CASE Mine
  <2>1. jobs' = jobs
    BY <1>13 DEF Mine, list, Keeper!Run, Keeper!keeper
  <2> QED BY <1>2, <1>13, <2>1 DEF Mine
<1>14. ASSUME NEW plans \in Plans, EpochStarts(plans) PROVE SeenAgrees'
  <2>1. jobs' = jobs
    BY <1>14 DEF EpochStarts, Keeper!EpochStarts, Keeper!keeper
  <2>2. UNCHANGED <<seen, unread>> /\ (~moved' => ~moved)
    BY <1>14 DEF EpochStarts, Touch, bot, tick
  <2> QED BY <1>1, <2>1, <2>2 DEF SeenAgrees
<1>15. CASE Other
  <2>1. Others /\ UNCHANGED <<seen, unread>>
    BY <1>15 DEF Other, bot, tick
  <2>2. CASE moved' = TRUE
    BY <2>2 DEF SeenAgrees
  <2>3. CASE moved' # TRUE
    BY <1>1, <2>1, <2>3, JobsKept DEF SeenAgrees
  <2> QED BY <2>2, <2>3
<1> QED
  BY <1>4, <1>5, <1>6, <1>7, <1>8, <1>9, <1>10, <1>11, <1>12, <1>13, <1>14,
     <1>15
  DEF Next, BotStep

LEMMA NextPool ==
  ASSUME SchedulerInv, [Next]_vars
  PROVE  PoolAgrees'
<1>1. TypeOK /\ Scope /\ SeenAgrees /\ PoolAgrees
  BY DEF SchedulerInv
<1>2. pool \in Seq(Pending) /\ DOMAIN pool = 1..Len(pool) /\ Len(pool) \in Nat
  BY <1>1 DEF TypeOK
<1>3. CASE UNCHANGED <<jobs, left, refuses, pool>>
  BY <1>1, <1>3 DEF PoolAgrees
<1>4. CASE \/ UNCHANGED vars
           \/ Wake \/ ReadJobs \/ ReadDue \/ ReadBlock \/ Decide \/ Reread
           \/ Nudged \/ NextJob \/ Simulate \/ Receipt
           \/ CheckUncovered \/ EndTick
  <2>1. UNCHANGED chain
    BY <1>4
    DEF vars, Wake, ReadJobs, ReadDue, ReadBlock, Decide, Reread, Nudged,
        NextJob, Simulate, Receipt, CheckUncovered, EndTick
  <2> QED BY <1>3, <2>1 DEF chain, list, vaults
<1>5. CASE Stop \/ TickFails \/ StepFails \/ Crash \/ PassBoundary
  <2>1. UNCHANGED <<list, vaults, pool>>
    BY <1>5 DEF Stop, TickFails, StepFails, Crash, PassBoundary, chain
  <2> QED BY <1>3, <2>1 DEF list, vaults
<1>6. ASSUME NEW i \in Nat, NEW t \in Targets \cup {"none"}, pool' = Sent(i, t),
             UNCHANGED <<jobs, left, refuses>>,
             i # Nudge => Runs(i) /\ (~moved => i \in DOMAIN jobs
                                                /\ jobs[i].target = t)
      PROVE  PoolAgrees'
  <2> DEFINE new == [index |-> i, target |-> t, moved |-> moved, raced |-> raced]
  <2>1. new \in Pending
    BY <1>1, <1>6 DEF TypeOK, Pending
  <2>2. pool' = Append(pool, new)
    BY <1>6 DEF Sent
  <2> HIDE DEF new
  <2>3. DOMAIN pool' = 1..(Len(pool) + 1) /\ pool'[Len(pool) + 1] = new
        /\ \A k \in DOMAIN pool : pool'[k] = pool[k]
    BY <1>2, <2>1, <2>2
  <2>4. \A k \in DOMAIN pool' : k \in DOMAIN pool \/ k = Len(pool) + 1
    BY <1>2, <2>3
  <2>5. Good(jobs, left, refuses, new)
    <3>1. /\ new.index = i /\ new.target = t /\ new.moved = moved
      BY DEF new
    <3> QED BY <1>6, <3>1 DEF Good, Runs
  <2> QED BY <1>1, <1>6, <2>3, <2>4, <2>5 DEF PoolAgrees
<1>7. CASE SendNudge
  <2>1. pool' = Sent(Nudge, "none") /\ UNCHANGED <<list, vaults>>
    BY <1>7 DEF SendNudge
  <2> QED BY <1>6, <2>1 DEF Nudge, list, vaults
<1>8. CASE Send
  <2>1. UNCHANGED <<jobs, left, refuses>>
    BY <1>8 DEF Send, list, vaults
  <2>2. job \in DOMAIN seen /\ "jobs" \notin unread /\ job \in Nat
        /\ JobAt(job) = seen[job]
    BY <1>1, <1>8 DEF Send, Scope, TypeOK, JobAt
  <2>3. seen[job].target \in Targets
    <3>1. seen[job] \in Keeper!Job
      BY <1>1, <2>2 DEF TypeOK
    <3> QED BY <3>1 DEF Keeper!Job
  <2>4. CASE SimulatedRun(job)
    <3>1. pool' = Sent(job, seen[job].target) /\ Runs(job)
      BY <1>8, <2>2, <2>4 DEF Send, SimulatedRun
    <3>2. ~moved => job \in DOMAIN jobs /\ jobs[job].target = seen[job].target
      BY <1>1, <2>2 DEF SeenAgrees
    <3> QED BY <1>6, <2>1, <2>2, <2>3, <3>1, <3>2
  <2>5. CASE ~SimulatedRun(job)
    BY <1>3, <1>8, <2>1, <2>5 DEF Send
  <2> QED BY <2>4, <2>5
(* The chain has moved on, or only a transaction was taken from the pool.  *)
<1>9. ASSUME NEW b \in BOOLEAN, NEW txs \in Seq(Pending), pool' = Marked(txs, b),
             \A k \in DOMAIN txs : \E l \in DOMAIN pool : txs[k] = pool[l],
             b \/ \A i \in DOMAIN jobs :
                    i \in DOMAIN jobs' /\ jobs'[i].target = jobs[i].target
      PROVE  PoolAgrees'
  <2>1. DOMAIN pool' = DOMAIN txs
        /\ \A k \in DOMAIN txs :
             /\ pool'[k].index = txs[k].index /\ pool'[k].target = txs[k].target
             /\ pool'[k].raced /\ pool'[k].moved = (txs[k].moved \/ b)
    BY <1>9, MarkedType
  <2>2. ASSUME NEW k \in DOMAIN pool', pool'[k].index # Nudge, ~pool'[k].moved
        PROVE  pool'[k].index \in DOMAIN jobs'
               /\ jobs'[pool'[k].index].target = pool'[k].target
    <3>1. PICK l \in DOMAIN pool : txs[k] = pool[l]
      BY <1>9, <2>1
    <3>2. ~b /\ ~pool[l].moved /\ pool[l].index # Nudge
      BY <2>1, <2>2, <3>1
    <3>3. pool[l].index \in DOMAIN jobs /\ jobs[pool[l].index].target = pool[l].target
      BY <1>1, <3>2 DEF PoolAgrees, Good
    <3> QED BY <1>9, <2>1, <3>1, <3>2, <3>3
  <2> QED BY <2>1, <2>2 DEF PoolAgrees, Good
<1>10. ASSUME NEW plans \in Plans, EpochStarts(plans) PROVE PoolAgrees'
  <2>1. jobs' = jobs /\ pool' = Marked(pool, FALSE)
    BY <1>10 DEF EpochStarts, Keeper!EpochStarts, Keeper!keeper
  <2> QED BY <1>2, <1>9, <2>1
<1>11. CASE Other
  <2>1. Others /\ pool' = Marked(pool, Len(jobs') < Len(jobs))
    BY <1>11 DEF Other
  <2>2. (Len(jobs') < Len(jobs)) \in BOOLEAN
    OBVIOUS
  <2> QED BY <1>1, <1>2, <1>9, <2>1, <2>2, JobsKept
<1>12. CASE Mine
  <2> DEFINE tx == Head(pool)
             ran == tx.index # Nudge /\ Runs(tx.index)
  <2>1. /\ pool # <<>>
        /\ IF ran THEN Keeper!Run(tx.index, PageLimit)
           ELSE UNCHANGED <<list, vaults>>
        /\ pool' = IF ran THEN Marked(Tail(pool), FALSE) ELSE Tail(pool)
    BY <1>12 DEF Mine
  <2>2. /\ Tail(pool) \in Seq(Pending)
        /\ DOMAIN Tail(pool) = 1..(Len(pool) - 1)
        /\ \A k \in DOMAIN Tail(pool) : Tail(pool)[k] = pool[k + 1]
                                        /\ k + 1 \in DOMAIN pool
    BY <1>2, <2>1
  <2>3. CASE ran
    <3>1. jobs' = jobs
      BY <2>1, <2>3 DEF Keeper!Run, Keeper!keeper
    <3> HIDE DEF ran, tx
    <3> QED BY <1>9, <2>1, <2>2, <2>3, <3>1
  <2>4. CASE ~ran
    <3>1. UNCHANGED <<jobs, left, refuses>> /\ pool' = Tail(pool)
      BY <2>1, <2>4 DEF list, vaults
    <3> QED BY <1>1, <2>2, <3>1 DEF PoolAgrees
  <2> QED BY <2>3, <2>4
<1> QED
  BY <1>4, <1>5, <1>7, <1>8, <1>10, <1>11, <1>12 DEF Next, BotStep

LEMMA NextInv == SchedulerInv /\ [Next]_vars => SchedulerInv'
<1> SUFFICES ASSUME SchedulerInv, [Next]_vars PROVE SchedulerInv'
  OBVIOUS
<1>1. TypeOK' /\ Scope'
  BY NextTypes, NextScope DEF SchedulerInv
<1> QED BY <1>1, NextSeen, NextPool DEF SchedulerInv

(* The types of the scheduler, the keeper's state and the pool.            *)
THEOREM SchedulerTypeCorrect == Spec => []TypeOK
<1>1. SchedulerInv => TypeOK
  BY DEF SchedulerInv
<1> QED BY <1>1, InitInv, NextInv, PTL DEF Spec

(* A page that the bot has mined is of the job it names, unless a job was  *)
(* removed after the tick read the list.                                   *)
THEOREM RunsNamedJobs == Spec => RunsTheJobItNames
<1>1. ASSUME SchedulerInv, [Next]_vars
      PROVE  [\A t \in Targets :
                Mine /\ left'[t] < left[t] =>
                  Head(pool).target = t \/ Head(pool).moved]_vars
  <2> SUFFICES ASSUME NEW t \in Targets, Mine, left'[t] < left[t],
                      ~Head(pool).moved
               PROVE  Head(pool).target = t
    OBVIOUS
  <2> DEFINE tx == Head(pool)
  <2>1. TypeOK /\ PoolAgrees
    BY <1>1 DEF SchedulerInv
  <2>2. pool # <<>> /\ tx = pool[1] /\ 1 \in DOMAIN pool
    BY <2>1 DEF Mine, TypeOK
  <2>3. left[t] \in Nat
    BY <2>1 DEF TypeOK
  <2>4. tx.index # Nudge /\ Runs(tx.index) /\ Keeper!Run(tx.index, PageLimit)
    <3>1. left' # left
      BY <2>3
    <3> QED BY <3>1 DEF Mine, vaults
  <2>5. jobs[tx.index].target = tx.target
    BY <2>1, <2>2, <2>4 DEF PoolAgrees, Good
  <2>6. t = jobs[tx.index].target
    <3>1. t \notin {jobs[tx.index].target} => left'[t] = left[t]
      BY <2>4 DEF Keeper!Run, Keeper!Pages
    <3> QED BY <2>3, <3>1
  <2> QED BY <2>5, <2>6
<1> QED BY <1>1, InitInv, NextInv, PTL DEF Spec, RunsTheJobItNames

(* A transaction reverts only when the chain changed after its simulation. *)
THEOREM RevertsAreRaced == Spec => RevertsOnlyWhenRaced
<1>1. ASSUME SchedulerInv, [Next]_vars
      PROVE  [Mine /\ Head(pool).index # Nudge /\ left' = left =>
                Head(pool).raced]_vars
  <2> SUFFICES ASSUME Mine, Head(pool).index # Nudge, left' = left,
                      ~Head(pool).raced
               PROVE  FALSE
    OBVIOUS
  <2> DEFINE tx == Head(pool)
             t == jobs[tx.index].target
             n == IF PageLimit = 0 \/ PageLimit > PageSize THEN PageSize
                  ELSE PageLimit
  <2>1. TypeOK /\ PoolAgrees
    BY <1>1 DEF SchedulerInv
  <2>2. pool # <<>> /\ tx = pool[1] /\ 1 \in DOMAIN pool
    BY <2>1 DEF Mine, TypeOK
  <2>3. Runs(tx.index)
    BY <2>1, <2>2 DEF PoolAgrees, Good, Runs
  <2>4. Keeper!Pages({t}, n)
    BY <2>3 DEF Mine, Keeper!Run
  <2>5. t \in Targets /\ left[t] > 0 /\ left[t] \in Nat
    <3>1. tx.index \in DOMAIN jobs /\ left[t] > 0
      BY <2>3 DEF Runs
    <3>2. jobs[tx.index] \in Keeper!Job
      BY <2>1, <3>1 DEF TypeOK
    <3> QED BY <2>1, <3>1, <3>2 DEF Keeper!Job, TypeOK
  <2>6. n \in Nat \ {0}
    BY ConstantTypes
  <2> HIDE DEF n, t
  <2>7. left'[t] = IF left[t] > n THEN left[t] - n ELSE 0
    BY <2>4, <2>5 DEF Keeper!Pages
  <2> QED BY <2>5, <2>6, <2>7
<1> QED BY <1>1, InitInv, NextInv, PTL DEF Spec, RevertsOnlyWhenRaced

-----------------------------------------------------------------------------
(* The keeper below the bot is the keeper of EpochKeeper.                  *)

Proved == INSTANCE EpochKeeperProofs
            WITH BatchSizes <- {}, Batch0 <- 1,
                 maxJobsPerUpkeep <- 1, upkeep <- {}

(* What EpochKeeper assumes of its constants.                              *)
LEMMA KeeperConstants ==
  /\ Proved!IsFiniteSet(Targets) /\ Refusing \subseteq Targets
  /\ {} \subseteq Nat
  /\ {1, PageSize} \subseteq Nat \ {0}
  /\ {MaxPlans, MaxEpoch} \subseteq Nat
<1>1. IsFiniteSet(Targets) <=> Proved!IsFiniteSet(Targets)
  BY DEF IsFiniteSet, Proved!IsFiniteSet
<1> QED BY <1>1, SchedulerAssumption

LEMMA SameStates ==
  /\ Proved!TypeOK <=> Keeper!TypeOK
  /\ Proved!JobIndexConsistent <=> Keeper!JobIndexConsistent
BY DEF Proved!TypeOK, Keeper!TypeOK, Proved!Job, Keeper!Job,
       Proved!JobIndexConsistent, Keeper!JobIndexConsistent

LEMMA SameCalls ==
  /\ \A t \in Targets : Keeper!AddJob(t) <=> Proved!AddJob(t)
  /\ \A i \in 1..Len(jobs) : Keeper!RemoveJob(i) <=> Proved!RemoveJob(i)
  /\ \A i \in 1..Len(jobs), b \in BOOLEAN :
       Keeper!SetJobActive(i, b) <=> Proved!SetJobActive(i, b)
  /\ \A i \in 1..Len(jobs), n \in Nat : Keeper!Run(i, n) <=> Proved!Run(i, n)
  /\ \A plans : Keeper!EpochStarts(plans) <=> Proved!EpochStarts(plans)
  /\ \A t \in Targets : Keeper!Refuses(t) <=> Proved!Refuses(t)
<1> USE DEF Keeper!vaults, Proved!vaults, Keeper!keeper, Proved!keeper
<1>1. \A t \in Targets : Keeper!AddJob(t) <=> Proved!AddJob(t)
  BY DEF Keeper!AddJob, Proved!AddJob
<1>2. \A i \in 1..Len(jobs) : Keeper!RemoveJob(i) <=> Proved!RemoveJob(i)
  BY DEF Keeper!RemoveJob, Proved!RemoveJob
<1>3. \A i \in 1..Len(jobs), b \in BOOLEAN :
        Keeper!SetJobActive(i, b) <=> Proved!SetJobActive(i, b)
  BY DEF Keeper!SetJobActive, Proved!SetJobActive
<1>4. \A i \in 1..Len(jobs), n \in Nat : Keeper!Run(i, n) <=> Proved!Run(i, n)
  BY DEF Keeper!Run, Proved!Run, Keeper!Pages, Proved!Pages
<1>5. \A plans : Keeper!EpochStarts(plans) <=> Proved!EpochStarts(plans)
  BY DEF Keeper!EpochStarts, Proved!EpochStarts
<1>6. \A t \in Targets : Keeper!Refuses(t) <=> Proved!Refuses(t)
  BY DEF Keeper!Refuses, Proved!Refuses
<1> QED BY <1>1, <1>2, <1>3, <1>4, <1>5, <1>6

(* A page limit above the vault's page is the vault's page.                *)
LEMMA LimitsAgree ==
  ASSUME NEW i \in 1..Len(jobs), NEW n \in Nat, Keeper!Run(i, n)
  PROVE  \E limit \in 0..(PageSize + 1) : Keeper!Run(i, limit)
<1>1. PageSize \in Nat
  BY ConstantTypes
<1>2. CASE n <= PageSize
  BY <1>1, <1>2
<1>3. CASE n > PageSize
  <2>1. Keeper!Run(i, 0)
    BY <1>1, <1>3 DEF Keeper!Run
  <2> QED BY <1>1, <2>1
<1> QED BY <1>1, <1>2, <1>3

LEMMA NothingElse ==
  ASSUME UNCHANGED <<list, vaults>>
  PROVE  UNCHANGED Keeper!vars
BY DEF list, vaults, Keeper!vars, Keeper!keeper, Keeper!vaults

LEMMA StepDrives ==
  ASSUME TypeOK, [Next]_vars
  PROVE  Keeper!Next \/ UNCHANGED Keeper!vars
<1>1. DOMAIN jobs = 1..Len(jobs)
  BY DEF TypeOK
<1>2. CASE BotStep
  BY <1>2, NothingElse
  DEF BotStep, Wake, ReadJobs, ReadDue, ReadBlock, Decide, SendNudge, Nudged,
      Reread, NextJob, Simulate, Send, Receipt, CheckUncovered, EndTick, chain
<1>3. CASE Stop \/ TickFails \/ StepFails \/ Crash \/ PassBoundary
  BY <1>3, NothingElse
  DEF Stop, TickFails, StepFails, Crash, PassBoundary, chain
<1>4. ASSUME NEW plans \in Plans, EpochStarts(plans) PROVE Keeper!Next
  BY <1>4 DEF EpochStarts, Plans, Keeper!Next
<1>5. CASE Mine
  <2> DEFINE i == Head(pool).index
  <2>1. CASE i # Nudge /\ Runs(i)
    <3>1. i \in 1..Len(jobs) /\ Keeper!Run(i, PageLimit)
      BY <1>1, <1>5, <2>1 DEF Mine, Runs
    <3> QED BY <3>1, LimitsAgree, ConstantTypes DEF Keeper!Next
  <2>2. CASE ~(i # Nudge /\ Runs(i))
    BY <1>5, <2>2, NothingElse DEF Mine
  <2> QED BY <2>1, <2>2
<1>6. CASE Other
  <2>1. Others
    BY <1>6 DEF Other
  <2>2. ASSUME NEW i \in DOMAIN jobs, Keeper!SetJobActive(i, ~jobs[i].active)
        PROVE  Keeper!Next
    <3>1. (~jobs[i].active) \in BOOLEAN
      OBVIOUS
    <3>2. i \in 1..Len(jobs)
      BY <1>1
    <3> QED BY <2>2, <3>1, <3>2 DEF Keeper!Next
  <2>3. ASSUME NEW i \in DOMAIN jobs, Keeper!Run(i, 0) PROVE Keeper!Next
    <3>1. 0 \in 0..(PageSize + 1) /\ i \in 1..Len(jobs)
      BY <1>1, ConstantTypes
    <3> QED BY <2>3, <3>1 DEF Keeper!Next
  <2>4. ASSUME NEW i \in DOMAIN jobs, Keeper!RemoveJob(i) PROVE Keeper!Next
    BY <1>1, <2>4 DEF Keeper!Next
  <2>5. ASSUME \/ \E t \in Targets : Keeper!AddJob(t)
               \/ \E t \in Refusing : Keeper!Refuses(t)
        PROVE  Keeper!Next
    BY <2>5 DEF Keeper!Next
  <2> QED BY <2>1, <2>2, <2>3, <2>4, <2>5 DEF Others
<1>7. CASE UNCHANGED vars
  BY <1>7, NothingElse DEF vars, chain
<1> QED BY <1>2, <1>3, <1>4, <1>5, <1>6, <1>7 DEF Next

(* Whatever the bot, the other operators, the owner and the vaults do, the *)
(* keeper's state changes by EpochKeeper's own calls only: what the bot    *)
(* reads, simulates and sends goes through run(), under any page limit.    *)
THEOREM DrivesTheKeeper == Spec => [][Keeper!Next]_(Keeper!vars)
<1>1. TypeOK /\ [Next]_vars => [Keeper!Next]_(Keeper!vars)
  BY StepDrives
<1> QED BY <1>1, SchedulerTypeCorrect, PTL DEF Spec

(* What the two instances call a step is the same.                         *)
LEMMA SameSteps ==
  ASSUME Keeper!Next \/ UNCHANGED Keeper!vars
  PROVE  Proved!Next \/ UNCHANGED Proved!vars
<1>1. UNCHANGED Keeper!vars <=> UNCHANGED Proved!vars
  BY DEF Keeper!vars, Proved!vars, Keeper!vaults, Proved!vaults,
         Keeper!keeper, Proved!keeper
<1>2. Keeper!CheckUpkeep => UNCHANGED Keeper!vars
  BY DEF Keeper!CheckUpkeep, Keeper!vars
<1>3. ~Keeper!PerformUpkeep
  BY DEF Keeper!PerformUpkeep
<1>4. Keeper!RunDue => Proved!RunDue
  BY DEF Keeper!RunDue, Proved!RunDue, Keeper!RunEach, Proved!RunEach,
         Keeper!Pages, Proved!Pages, Keeper!DueJobs, Proved!DueJobs,
         Keeper!IsDue, Proved!IsDue, Keeper!keeper, Proved!keeper
<1>5. ASSUME \/ \E t \in Targets : Keeper!AddJob(t)
             \/ \E i \in 1..Len(jobs) : Keeper!RemoveJob(i)
             \/ \E i \in 1..Len(jobs), b \in BOOLEAN : Keeper!SetJobActive(i, b)
      PROVE  Proved!Next
  BY <1>5, SameCalls DEF Proved!Next
<1>6. ASSUME NEW i \in 1..Len(jobs), NEW n \in 0..(PageSize + 1),
             Keeper!Run(i, n)
      PROVE  Proved!Next
  <2>1. n \in Nat
    BY ConstantTypes
  <2>2. Proved!Run(i, n)
    BY <1>6, <2>1, SameCalls
  <2> QED BY <2>2 DEF Proved!Next
<1>7. ASSUME \/ \E plans \in [Targets -> 0..MaxPlans] : Keeper!EpochStarts(plans)
             \/ \E t \in Refusing : Keeper!Refuses(t)
      PROVE  Proved!Next
  BY <1>7, SameCalls, ConstantTypes DEF Proved!Next
<1> QED BY <1>1, <1>2, <1>3, <1>4, <1>5, <1>6, <1>7 DEF Keeper!Next, Proved!Next

KeeperSound == Keeper!TypeOK /\ Keeper!JobIndexConsistent

LEMMA InitKeeper == Init => KeeperSound
<1> SUFFICES ASSUME Init PROVE KeeperSound
  OBVIOUS
<1>1. /\ DOMAIN Jobs0 = 1..Len(Jobs0) /\ Len(Jobs0) \in Nat
      /\ \A i \in 1..Len(Jobs0) : Jobs0[i] \in Targets
  BY ConstantTypes
<1>2. jobs = [i \in 1..Len(Jobs0) |-> [target |-> Jobs0[i], active |-> TRUE]]
  BY <1>1 DEF Init
<1>3. jobs \in Seq(Keeper!Job) /\ Len(jobs) = Len(Jobs0)
  BY <1>1, <1>2 DEF Keeper!Job
<1>4. \A i \in 1..Len(jobs) : jobs[i].target = Jobs0[i]
  BY <1>2, <1>3
<1>5. Keeper!TypeOK
  <2>1. /\ 1 \in Nat \ {0} /\ {} \subseteq Nat
        /\ 0 \in 0..MaxEpoch /\ 0 \in 0..MaxPlans
    BY ConstantTypes
  <2>2. jobIndex \in [Targets -> Nat]
    BY <1>1 DEF Init
  <2>3. /\ epoch \in 0..MaxEpoch /\ left \in [Targets -> 0..MaxPlans]
        /\ refuses \in [Targets -> BOOLEAN]
    BY <2>1 DEF Init
  <2> QED BY <1>3, <2>1, <2>2, <2>3 DEF Keeper!TypeOK
<1>6. \A i \in 1..Len(jobs) : jobIndex[jobs[i].target] = i
  BY <1>1, <1>3, <1>4 DEF Init
<1>7. ASSUME NEW t \in Targets, jobIndex[t] # 0
      PROVE  jobIndex[t] <= Len(jobs) /\ jobs[jobIndex[t]].target = t
  BY <1>1, <1>3, <1>4, <1>7 DEF Init
<1> QED BY <1>5, <1>6, <1>7 DEF KeeperSound, Keeper!JobIndexConsistent

LEMMA NextKeeper == TypeOK /\ KeeperSound /\ [Next]_vars => KeeperSound'
<1> SUFFICES ASSUME TypeOK, KeeperSound, [Next]_vars PROVE KeeperSound'
  OBVIOUS
<1>1. Proved!TypeOK /\ Proved!JobIndexConsistent
  BY SameStates DEF KeeperSound
<1>2. [Proved!Next]_(Proved!vars)
  BY StepDrives, SameSteps
<1>3. Proved!TypeOK' /\ Proved!JobIndexConsistent'
  BY <1>1, <1>2, KeeperConstants, Proved!NextTypes, Proved!NextKeepsIndex
<1>4. /\ Proved!TypeOK' <=> Keeper!TypeOK'
      /\ Proved!JobIndexConsistent' <=> Keeper!JobIndexConsistent'
  BY SameStates, PTL
<1> QED BY <1>3, <1>4 DEF KeeperSound

(* Under everything the bot and the others do to it, from any list the     *)
(* deployment left, the keeper's list and its index per target describe    *)
(* each other: an index the bot reads stands for one pair, and no pair is  *)
(* run under two (addJob, removeJob).                                      *)
THEOREM JobListStaysConsistent == Spec => []Keeper!JobIndexConsistent
<1>1. KeeperSound => Keeper!JobIndexConsistent
  BY DEF KeeperSound
<1> QED BY <1>1, InitKeeper, NextKeeper, SchedulerTypeCorrect, PTL DEF Spec

-----------------------------------------------------------------------------
(* What the bot has in flight.                                             *)

(* The tick waits for the receipt of its latest transaction.               *)
Awaiting == pc \in {"receipt", "nudged"} /\ result = "none"

(* The bot never has more in flight than the transaction it waits for and  *)
(* one for every failure, timeout or crash so far: it sends nothing while  *)
(* an answer is due, and without failures a tick starts and ends with      *)
(* nothing of its own pending (runJob() and nudge() await every receipt).  *)
OneInFlight == Len(pool) <= faults + (IF Awaiting THEN 1 ELSE 0)

(* The bot never waits for a receipt that cannot come: while it waits, its *)
(* transaction is pending, and a receipt it holds is of the last one it    *)
(* sent, with everything sent before mined too.                            *)
AnswerDue ==
  /\ Awaiting => pool # <<>>
  /\ result # "none" => pc \in {"receipt", "nudged"} /\ pool = <<>>

FlightInv == OneInFlight /\ AnswerDue

LEMMA NextFlight == SchedulerInv /\ FlightInv /\ [Next]_vars => FlightInv'
<1> SUFFICES ASSUME SchedulerInv, FlightInv, [Next]_vars
             PROVE  FlightInv'
  OBVIOUS
<1>1. /\ TypeOK /\ Scope /\ RestOK
      /\ pool \in Seq(Pending) /\ Len(pool) \in Nat
  BY TypeParts DEF TypeOK, SchedulerInv
<1>2. faults \in Nat /\ result \in {"none", "more", "over"}
  BY <1>1, ConstantTypes DEF TypeOK
<1>3. pool # <<>> <=> Len(pool) > 0
  BY <1>1
<1> USE DEF FlightInv, OneInFlight, AnswerDue, Awaiting
(* The bot moves on, and only when it has its answer.                      *)
<1>4. CASE \/ UNCHANGED vars
           \/ Wake \/ ReadJobs \/ ReadDue \/ ReadBlock \/ Decide \/ Reread
           \/ Nudged \/ NextJob \/ Simulate \/ Receipt
           \/ CheckUncovered \/ EndTick \/ Stop \/ PassBoundary
  <2>1. UNCHANGED <<pool, faults>>
    BY <1>4
    DEF vars, Wake, ReadJobs, ReadDue, ReadBlock, Decide, Reread, Nudged,
        NextJob, Simulate, Receipt, CheckUncovered, EndTick, Stop,
        PassBoundary, chain, bounds
  <2>2. \/ UNCHANGED <<pc, result>>
        \/ result' = "none" /\ pc' \notin {"receipt", "nudged"} /\ ~Awaiting
    BY <1>2, <1>4
    DEF vars, bot, tick, Wake, ReadJobs, ReadDue, ReadBlock, Decide, Reread,
        Nudged, NextJob, Simulate, Receipt, CheckUncovered, EndTick, Stop,
        PassBoundary, Reset
  <2> QED BY <1>1, <1>2, <2>1, <2>2
(* It sends: nothing was awaited, and the new transaction is.              *)
<1>5. ASSUME NEW i \in Nat, NEW t \in Targets \cup {"none"}, pool' = Sent(i, t),
             UNCHANGED <<faults, result>>, pc \in {"send", "nudge"},
             pc' \in {"receipt", "nudged"}
      PROVE  FlightInv'
  <2>1. Len(pool') = Len(pool) + 1 /\ pool' # <<>>
    <3>1. [index |-> i, target |-> t, moved |-> moved, raced |-> raced]
            \in Pending
      BY <1>1, <1>5 DEF Pending, RestOK
    <3> QED BY <1>1, <1>5, <3>1 DEF Sent
  <2> QED BY <1>1, <1>2, <1>5, <2>1
<1>6. CASE SendNudge
  BY <1>5, <1>6 DEF SendNudge, Nudge, bounds, tick
<1>7. CASE Send
  <2>1. CASE SimulatedRun(job)
    <3>1. JobAt(job).target \in Targets
      <4>1. seen[job] \in Keeper!Job
        BY <1>1, <1>7 DEF Send, Scope, TypeOK
      <4> QED BY <4>1 DEF JobAt, Keeper!Job
    <3> QED BY <1>1, <1>5, <1>7, <2>1, <3>1 DEF Send, bounds, tick, TypeOK
  <2>2. CASE ~SimulatedRun(job)
    BY <1>1, <1>2, <1>7, <2>2 DEF Send, bounds, Reset
  <2> QED BY <2>1, <2>2
(* A failure leaves what was awaited behind, and is counted.               *)
<1>8. CASE TickFails \/ StepFails \/ Crash
  <2>1. /\ UNCHANGED pool /\ faults' = faults + 1 /\ result' = "none"
        /\ pc' \notin {"receipt", "nudged"}
    BY <1>8 DEF TickFails, StepFails, Crash, Fault, Reset, chain
  <2> QED BY <1>1, <1>2, <2>1
(* Others touch what is pending, but take nothing out.                     *)
<1>9. CASE Other \/ \E plans \in Plans : EpochStarts(plans)
  <2>1. PICK b \in BOOLEAN : pool' = Marked(pool, b)
    <3>1. (Len(jobs') < Len(jobs)) \in BOOLEAN /\ FALSE \in BOOLEAN
      OBVIOUS
    <3> QED BY <1>9, <3>1 DEF Other, EpochStarts
  <2>2. Len(pool') = Len(pool) /\ pool' \in Seq(Pending)
    BY <1>1, <2>1, MarkedType
  <2>3. UNCHANGED <<pc, result, faults>>
    BY <1>9 DEF Other, EpochStarts, bot, tick, bounds
  <2> QED BY <1>1, <1>3, <2>2, <2>3
(* A block takes the oldest, and answers only for the last.                *)
<1>10. CASE Mine
  <2>1. pool # <<>> /\ UNCHANGED <<pc, faults>>
    BY <1>10 DEF Mine, bounds
  <2>2. Tail(pool) \in Seq(Pending) /\ Len(Tail(pool)) = Len(pool) - 1
    BY <1>1, <2>1
  <2>3. pool' \in Seq(Pending) /\ Len(pool') = Len(pool) - 1
    <3>1. pool' \in {Tail(pool), Marked(Tail(pool), FALSE)}
      BY <1>10 DEF Mine
    <3>2. FALSE \in BOOLEAN
      OBVIOUS
    <3>3. Marked(Tail(pool), FALSE) \in Seq(Pending)
          /\ Len(Marked(Tail(pool), FALSE)) = Len(Tail(pool))
      BY <2>2, <3>2, MarkedType
    <3> QED BY <2>2, <3>1, <3>3
  <2>4. /\ Awaiting /\ Len(pool) = 1 => result' # "none"
        /\ ~Awaiting \/ Len(pool) # 1 => result' = result
    BY <1>2, <1>10, <2>1 DEF Mine
  <2>5. Len(pool') > 0 => pool' # <<>>
    <3>1. Len(<<>>) = 0
      OBVIOUS
    <3> QED BY <3>1
  <2>6. Len(pool') = 0 => pool' = <<>>
    BY <2>3
  <2>7. CASE Awaiting /\ Len(pool) = 1
    BY <1>1, <1>2, <2>1, <2>3, <2>4, <2>6, <2>7
  <2>8. CASE ~Awaiting
    BY <1>1, <1>2, <1>3, <2>1, <2>3, <2>4, <2>5, <2>6,
       <2>8
  <2>9. CASE Awaiting /\ Len(pool) # 1
    <3>1. Len(pool') > 0 /\ Len(pool') <= faults /\ Len(pool') \in Nat
      BY <1>1, <1>2, <1>3, <2>1, <2>3, <2>9
    <3>2. result' = "none" /\ result = "none"
      BY <2>4, <2>9
    <3> QED BY <1>2, <2>1, <2>5, <3>1, <3>2
  <2> QED BY <1>1, <1>3, <2>1, <2>7, <2>8, <2>9
<1> QED
  BY <1>4, <1>6, <1>7, <1>8, <1>9, <1>10 DEF Next, BotStep

LEMMA FlightInvariant == Spec => []FlightInv
<1>1. Init => FlightInv
  BY DEF Init, FlightInv, OneInFlight, AnswerDue, Awaiting
<1> QED BY <1>1, InitInv, NextInv, NextFlight, PTL DEF Spec

(* However calls fail, time out or crash, what the bot has in flight is    *)
(* bounded by the failures: a loop that sent on without its receipts would *)
(* fill the account's queue with runs that revert.                         *)
THEOREM FlightIsBounded == Spec => []OneInFlight
<1>1. FlightInv => OneInFlight
  BY DEF FlightInv
<1> QED BY <1>1, FlightInvariant, PTL

(* The bot never waits for an answer nobody owes it, so waiting cannot be  *)
(* what stops it: the receipt comes with the next blocks or times out.     *)
THEOREM AnswersAreDue == Spec => []AnswerDue
<1>1. FlightInv => AnswerDue
  BY DEF FlightInv
<1> QED BY <1>1, FlightInvariant, PTL
=============================================================================
