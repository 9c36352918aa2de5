----------------------------- MODULE Scheduler -----------------------------
(***************************************************************************)
(* apps/scheduler/src/scheduler.ts: the bot that polls the EpochKeeper and *)
(* runs the jobs that are due, page by page.                               *)
(*                                                                         *)
(* The bot's methods are cut at every await (pc): between two of its steps *)
(* other operators run jobs, the owner edits the job list, vaults start or *)
(* stop refusing pages, and epochs begin.  The job list, the due indices   *)
(* and the latest block are read in parallel, and used for as long as the  *)
(* tick takes.  The keeper is EpochKeeper itself (Keeper).                 *)
(*                                                                         *)
(* An eth_call sees the state of the last block, so a boundary that has    *)
(* passed (passed) stays invisible until something is mined.  Calls may    *)
(* fail, receipts may time out with the transaction still pending, the     *)
(* process may crash and be started again, and it may be told to stop.     *)
(*                                                                         *)
(* All vaults have one cadence here, and every pair is approved in the     *)
(* registry of a vault that has a job.  Not modelled: the lengths of       *)
(* sleeps, logs and labels, dry runs, --once, and the clock, which is      *)
(* assumed right.                                                          *)
(*                                                                         *)
(* An operator whose comment starts with "Faulty:" belongs to no action.   *)
(***************************************************************************)
EXTENDS Integers, Sequences, FiniteSets

CONSTANTS Targets, Refusing, PageSize, MaxPlans, MaxEpoch,
          Jobs0,           \* targets the deployment added jobs for
          Planned,         \* targets that have plans
          PageLimit,       \* plans asked for in one run (0: the vault's page)
          MaxPagesPerJob,
          MaxChanges,      \* bound: calls of others, changes of the vaults
          MaxFaults        \* bound: failed calls, timeouts, crashes

ASSUME SchedulerAssumption ==
  /\ IsFiniteSet(Targets)
  /\ Refusing \subseteq Targets /\ Planned \subseteq Targets
  /\ PageSize \in Nat \ {0}
  /\ {MaxPlans, MaxEpoch} \subseteq Nat
  /\ Jobs0 \in Seq(Targets)
  /\ \A i, k \in DOMAIN Jobs0 : Jobs0[i] = Jobs0[k] => i = k
  /\ PageLimit \in Nat
  /\ MaxPagesPerJob \in Nat \ {0}
  /\ {MaxChanges, MaxFaults} \subseteq Nat

VARIABLES jobs, jobIndex, epoch, left, refuses,
          passed,       \* a boundary has passed since the last block
          pool,         \* the bot's pending transactions, in nonce order
          changes, faults,
          pc,           \* where the bot awaits
          unread,       \* reads of this tick that are under way
          seen, due,    \* jobs and due indices as they were read
          block,        \* epoch of the block that was read
          job, page,    \* index and page of the job being run
          result,       \* receipt of the transaction that is awaited
          uncovered,    \* pairs reported as never bought
          stopping,
          moved,        \* a job was removed since this tick's reads
          raced         \* the chain changed since the last simulation

Keeper == INSTANCE EpochKeeper
            WITH BatchSizes <- {}, Batch0 <- 1,
                 maxJobsPerUpkeep <- 1, upkeep <- {}

list  == <<jobs, jobIndex>>
vaults == <<epoch, left, refuses>>
chain == <<list, vaults, passed, pool>>
bounds == <<changes, faults>>
tick  == <<unread, seen, due, block, job, page, result>>
ghosts == <<moved, raced>>
bot   == <<pc, tick, uncovered, stopping>>
vars  == <<chain, bounds, bot, ghosts>>

Nudge == 0    \* index of the self-transfer in the pool

Reset ==
  /\ unread' = {} /\ seen' = <<>> /\ due' = {} /\ block' = 0
  /\ job' = 0 /\ page' = 0 /\ result' = "none"

Init ==
  /\ jobs = [i \in DOMAIN Jobs0 |-> [target |-> Jobs0[i], active |-> TRUE]]
  /\ jobIndex \in [Targets -> 0..Len(Jobs0)]
  /\ \A i \in DOMAIN Jobs0 : jobIndex[Jobs0[i]] = i
  /\ \A t \in Targets : jobIndex[t] # 0 => Jobs0[jobIndex[t]] = t
  /\ epoch = 0 /\ left = [t \in Targets |-> 0]
  /\ refuses = [t \in Targets |-> FALSE]
  /\ passed = FALSE /\ pool = <<>> /\ changes = 0 /\ faults = 0
  /\ pc = "sleep" /\ uncovered = {} /\ stopping = FALSE
  /\ unread = {} /\ seen = <<>> /\ due = {} /\ block = 0
  /\ job = 0 /\ page = 0 /\ result = "none"
  /\ moved = FALSE /\ raced = FALSE

-----------------------------------------------------------------------------
(* tick(): three reads in parallel, and the decision to nudge.             *)

Wake ==
  /\ pc = "sleep" /\ ~stopping
  /\ pc' = "read" /\ unread' = {"jobs", "due", "block"}
  /\ moved' = FALSE
  /\ UNCHANGED <<chain, bounds, seen, due, block, job, page, result,
                 uncovered, stopping, raced>>

ReadJobs ==
  /\ "jobs" \in unread
  /\ unread' = unread \ {"jobs"} /\ seen' = jobs
  /\ UNCHANGED <<chain, bounds, pc, due, block, job, page, result, uncovered,
                 stopping, ghosts>>

ReadDue ==
  /\ "due" \in unread
  /\ unread' = unread \ {"due"} /\ due' = Keeper!DueJobs
  /\ UNCHANGED <<chain, bounds, pc, seen, block, job, page, result, uncovered,
                 stopping, ghosts>>

ReadBlock ==
  /\ "block" \in unread
  /\ unread' = unread \ {"block"} /\ block' = epoch
  /\ UNCHANGED <<chain, bounds, pc, seen, due, job, page, result, uncovered,
                 stopping, ghosts>>

ActiveIn(js, t) == \E i \in DOMAIN js : js[i].target = t /\ js[i].active

(* The clock is in a later epoch than the block, for an active job.        *)
BoundaryPassedSinceBlock ==
  /\ \E i \in DOMAIN seen : seen[i].active
  /\ epoch + (IF passed THEN 1 ELSE 0) > block

(* Faulty: the nudge is left to other users of the chain.                  *)
NudgeNever == FALSE

NudgeDue == due = {} /\ BoundaryPassedSinceBlock

Decide ==
  /\ pc = "read" /\ unread = {}
  /\ pc' = IF NudgeDue THEN "nudge" ELSE "jobs"
  /\ UNCHANGED <<chain, bounds, tick, uncovered, stopping, ghosts>>

Sent(index, target) ==
  Append(pool, [index |-> index, target |-> target,
                moved |-> moved, raced |-> raced])

SendNudge ==
  /\ pc = "nudge"
  /\ pool' = Sent(Nudge, "none")
  /\ pc' = "nudged"
  /\ UNCHANGED <<list, vaults, passed, bounds, tick, uncovered, stopping,
                 ghosts>>

(* Mined: the due jobs and the block are read again, the job list is not.  *)
Nudged ==
  /\ pc = "nudged" /\ result # "none"
  /\ pc' = "reread" /\ unread' = {"due", "block"} /\ result' = "none"
  /\ UNCHANGED <<chain, bounds, seen, due, block, job, page, uncovered,
                 stopping, ghosts>>

Reread ==
  /\ pc = "reread" /\ unread = {}
  /\ pc' = "jobs"
  /\ UNCHANGED <<chain, bounds, tick, uncovered, stopping, ghosts>>

-----------------------------------------------------------------------------
(* runJob() for one due index after the other.                             *)

(* Faulty: counts the active jobs only.                                    *)
JobAmongActive(i) ==
  LET active == SelectSeq(seen, LAMBDA j : j.active)
  IN IF i \in DOMAIN active THEN active[i] ELSE seen[i]

JobAt(i) == seen[i]

FirstDue == CHOOSE i \in due : \A k \in due : i <= k

(* A due index beyond the list that was read is passed over.               *)
NextJob ==
  /\ pc = "jobs" /\ due # {} /\ ~stopping
  /\ due' = due \ {FirstDue}
  /\ IF FirstDue \in DOMAIN seen
     THEN pc' = "simulate" /\ job' = FirstDue /\ page' = 1
     ELSE UNCHANGED <<pc, job, page>>
  /\ UNCHANGED <<chain, bounds, unread, seen, block, result, uncovered,
                 stopping, ghosts>>

(* run(i) would go through in the last block's state.                      *)
Runs(i) ==
  /\ i \in DOMAIN jobs
  /\ left[jobs[i].target] > 0 /\ ~refuses[jobs[i].target]

(* Faulty: trusts isEpochDue, and a fixed gas limit.                       *)
RunsIfDue(i) == i \in DOMAIN jobs /\ left[jobs[i].target] > 0

(* What an eth_call or a gas estimate of run(i) says.                      *)
SimulatedRun(i) == Runs(i)

(* Faulty: a revert ends the tick.                                         *)
SimulateOrThrow ==
  /\ pc = "simulate"
  /\ IF SimulatedRun(job) THEN pc' = "send" /\ raced' = FALSE /\ UNCHANGED tick
     ELSE Reset /\ pc' = "sleep" /\ UNCHANGED raced
  /\ UNCHANGED <<chain, bounds, uncovered, stopping, moved>>

(* A simulation that fails costs nothing: the next job is tried.           *)
Simulate ==
  /\ pc = "simulate"
  /\ IF SimulatedRun(job) THEN pc' = "send" /\ raced' = FALSE
     ELSE pc' = "jobs" /\ UNCHANGED raced
  /\ UNCHANGED <<chain, bounds, tick, uncovered, stopping, moved>>

(* writeContract estimates gas first: what reverts by now aborts the tick. *)
Send ==
  /\ pc = "send"
  /\ IF SimulatedRun(job)
     THEN /\ pool' = Sent(job, JobAt(job).target)
          /\ pc' = "receipt" /\ UNCHANGED tick
     ELSE Reset /\ pc' = "sleep" /\ UNCHANGED pool
  /\ UNCHANGED <<list, vaults, passed, bounds, uncovered, stopping, ghosts>>

Receipt ==
  /\ pc = "receipt" /\ result # "none"
  /\ result' = "none"
  /\ IF result = "more" /\ page < MaxPagesPerJob
     THEN pc' = "simulate" /\ page' = page + 1
     ELSE pc' = "jobs" /\ UNCHANGED page
  /\ UNCHANGED <<chain, bounds, unread, seen, due, block, job, uncovered,
                 stopping, ghosts>>

-----------------------------------------------------------------------------
(* The end of a tick.                                                      *)

(* Faulty: a job that is switched off still counts as cover.               *)
ListedIn(js, t) == \E i \in DOMAIN js : js[i].target = t

(* checkUncovered() judges by the list read at the start of the tick.      *)
CoveredIn(js, t) == ActiveIn(js, t)

(* Faulty: what was reported once is never cleared.                        *)
UncoveredSoFar == uncovered \cup {t \in Planned : ~CoveredIn(seen, t)}

UncoveredPlans == {t \in Planned : ~CoveredIn(seen, t)}

CheckUncovered ==
  /\ pc = "jobs" /\ ~stopping /\ due = {}
  /\ uncovered' = IF seen = <<>> THEN {} ELSE UncoveredPlans
  /\ Reset /\ pc' = "sleep"
  /\ UNCHANGED <<chain, bounds, stopping, ghosts>>

(* The check is not due yet, or failed.                                    *)
EndTick ==
  /\ pc = "jobs" /\ (stopping \/ due = {})
  /\ Reset /\ pc' = "sleep"
  /\ UNCHANGED <<chain, bounds, uncovered, stopping, ghosts>>

Stop ==
  /\ ~stopping /\ stopping' = TRUE
  /\ UNCHANGED <<chain, bounds, pc, tick, uncovered, ghosts>>

-----------------------------------------------------------------------------
(* Failures, each of which MaxFaults counts.                               *)

Fault == faults < MaxFaults /\ faults' = faults + 1

(* A read fails (runJob() reads a label first), a transaction is refused,  *)
(* a receipt times out with the transaction mined or not: run() logs it.   *)
TickFails ==
  /\ \/ pc \in {"read", "reread", "send", "receipt"}
     \/ pc = "simulate" /\ page = 1
  /\ Fault
  /\ Reset /\ pc' = "sleep"
  /\ UNCHANGED <<chain, changes, uncovered, stopping, ghosts>>

(* The node fails a simulation, or a nudge fails or times out: both are    *)
(* caught, and the tick goes on.                                           *)
StepFails ==
  /\ pc \in {"simulate", "nudge", "nudged"}
  /\ Fault
  /\ pc' = "jobs" /\ result' = "none"
  /\ UNCHANGED <<chain, changes, unread, seen, due, block, job, page,
                 uncovered, stopping, ghosts>>

Crash ==
  /\ Fault
  /\ Reset /\ pc' = "sleep" /\ uncovered' = {} /\ stopping' = FALSE
  /\ UNCHANGED <<chain, changes, ghosts>>

-----------------------------------------------------------------------------
(* The chain and its other users.                                          *)

Touch(removed) ==
  /\ raced' = TRUE /\ moved' = (moved \/ removed)

Marked(txs, removed) ==
  [k \in DOMAIN txs |-> [txs[k] EXCEPT !.raced = TRUE,
                                       !.moved = @ \/ removed]]

PassBoundary ==
  /\ ~passed /\ epoch < MaxEpoch
  /\ passed' = TRUE
  /\ UNCHANGED <<list, vaults, pool, bounds, bot, ghosts>>

(* The first block after a boundary.                                       *)
EpochStarts(plans) ==
  /\ passed /\ passed' = FALSE
  /\ Keeper!EpochStarts(plans)
  /\ pool' = Marked(pool, FALSE) /\ Touch(FALSE)
  /\ UNCHANGED <<bounds, bot>>

(* The bot's next transaction is mined: it runs its job, or reverts.       *)
Mine ==
  LET tx == Head(pool)
      awaited == pc \in {"receipt", "nudged"} /\ Len(pool) = 1
      ran == tx.index # Nudge /\ Runs(tx.index)
  IN /\ pool # <<>> /\ ~passed
     /\ IF ran THEN Keeper!Run(tx.index, PageLimit)
        ELSE UNCHANGED <<list, vaults>>
     /\ pool' = IF ran THEN Marked(Tail(pool), FALSE) ELSE Tail(pool)
     /\ result' = IF ~awaited THEN result
                  ELSE IF ~ran THEN "over"
                  ELSE IF left'[jobs[tx.index].target] = 0 THEN "over"
                  ELSE "more"
     /\ raced' = (raced \/ ran)
     /\ UNCHANGED <<passed, bounds, pc, unread, seen, due, block, job, page,
                    uncovered, stopping, moved>>

(* The owner, another operator, or a vault: in a block of the epoch.       *)
Others ==
  \/ \E t \in Targets : Keeper!AddJob(t) /\ UNCHANGED moved
  \/ \E i \in DOMAIN jobs : Keeper!RemoveJob(i) /\ moved' = TRUE
  \/ \E i \in DOMAIN jobs : /\ Keeper!SetJobActive(i, ~jobs[i].active)
                            /\ UNCHANGED moved
  \/ \E i \in DOMAIN jobs : Keeper!Run(i, 0) /\ UNCHANGED moved
  \/ \E t \in Refusing : Keeper!Refuses(t) /\ UNCHANGED moved

Other ==
  /\ ~passed /\ changes < MaxChanges /\ changes' = changes + 1
  /\ Others
  /\ raced' = TRUE
  /\ pool' = Marked(pool, Len(jobs') < Len(jobs))
  /\ UNCHANGED <<passed, faults, bot>>

-----------------------------------------------------------------------------
BotStep ==
  \/ Wake \/ ReadJobs \/ ReadDue \/ ReadBlock \/ Decide
  \/ SendNudge \/ Nudged \/ Reread
  \/ NextJob \/ Simulate \/ Send \/ Receipt
  \/ CheckUncovered \/ EndTick

Plans == [Targets -> 0..MaxPlans]

Next ==
  \/ BotStep
  \/ Stop
  \/ TickFails \/ StepFails \/ Crash
  \/ PassBoundary
  \/ \E plans \in Plans : EpochStarts(plans)
  \/ Mine
  \/ Other

Spec == Init /\ [][Next]_vars

(* A running bot goes on, the check for uncovered plans comes round, and a *)
(* pending transaction is mined, in a new epoch if one has begun.  Nobody  *)
(* else is obliged to do anything: the chain may be idle.                  *)
Fairness ==
  /\ WF_vars(BotStep) /\ SF_vars(CheckUncovered)
  /\ WF_vars(Mine)
  /\ WF_vars(pool # <<>> /\ \E plans \in Plans : EpochStarts(plans))

LiveSpec == Spec /\ Fairness

-----------------------------------------------------------------------------
Pending == [index : Nat, target : Targets \cup {"none"},
            moved : BOOLEAN, raced : BOOLEAN]

TypeOK ==
  /\ jobs \in Seq(Keeper!Job) /\ jobIndex \in [Targets -> Nat]
  /\ epoch \in Nat /\ left \in [Targets -> Nat]
  /\ refuses \in [Targets -> BOOLEAN]
  /\ passed \in BOOLEAN /\ pool \in Seq(Pending)
  /\ changes \in 0..MaxChanges /\ faults \in 0..MaxFaults
  /\ pc \in {"sleep", "read", "nudge", "nudged", "reread", "jobs",
             "simulate", "send", "receipt"}
  /\ unread \subseteq {"jobs", "due", "block"}
  /\ seen \in Seq(Keeper!Job) /\ due \subseteq Nat \ {0} /\ block \in 0..epoch
  /\ job \in Nat /\ page \in 0..MaxPagesPerJob
  /\ result \in {"none", "more", "over"}
  /\ uncovered \subseteq Planned
  /\ {stopping, moved, raced} \subseteq BOOLEAN

(* A page the bot has mined is one of the job it names in its log, unless  *)
(* a job was removed after the tick read the list: removeJob moves the     *)
(* last job to another index, and the tick does not look again.            *)
RunsTheJobItNames ==
  [][\A t \in Targets :
       Mine /\ left'[t] < left[t] =>
         Head(pool).target = t \/ Head(pool).moved]_vars

(* Gas is only spent on a run that reverts when the chain changed after    *)
(* its simulation: another keeper, the owner, a vault, a new epoch, or a   *)
(* transaction of the bot itself that had timed out.                       *)
RevertsOnlyWhenRaced ==
  [][Mine /\ Head(pool).index # Nudge /\ left' = left => Head(pool).raced]_vars

(* The bot serves every job that can be served, whichever others fail,     *)
(* whatever it read, and however it crashed.                               *)
ReadyJobsServed ==
  \A t \in Targets : Keeper!Ready(t) ~> ~Keeper!Ready(t) \/ stopping

(* On a chain that mines only on demand a boundary is noticed, as long as  *)
(* no vault goes on refusing its pages.                                    *)
SomeActive == \E t \in Targets : ActiveIn(jobs, t)

IdleChainNudged == passed ~> ~passed \/ stopping \/ ~SomeActive

BoundariesNoticed ==
  <>[](\A t \in Targets : ~refuses[t]) => IdleChainNudged

(* Once the job list stays as it is, plans that nothing will ever buy come *)
(* to be reported and stay so, and a pair whose job came back is cleared   *)
(* for good, although a check judges by a list read before it ran jobs.    *)
UncoveredReported ==
  \A t \in Planned :
    /\ <>[](jobs # <<>> /\ ~ActiveIn(jobs, t)) =>
         <>[](t \in uncovered \/ stopping)
    /\ <>[]ActiveIn(jobs, t) => <>[](t \notin uncovered \/ stopping)
=============================================================================
