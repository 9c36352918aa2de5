---------------------------- MODULE EpochKeeper ----------------------------
(***************************************************************************)
(* keeper/EpochKeeper.sol: a list of (vault, stock) jobs, and the calls by *)
(* which its operators advance the epochs of those that are due.           *)
(*                                                                         *)
(* A vault is seen through isEpochDue and advanceEpoch only: left[t] plans *)
(* of target t still wait in the current epoch, the epoch is due while     *)
(* there are any, a page takes up to PageSize of them, and the vault may   *)
(* refuse a page (it reverts: no route, no liquidity, price guard).        *)
(* Automation (Chainlink, Gelato) reads checkUpkeep off chain and submits  *)
(* what it returned some time later, so performData can be out of date.    *)
(* Keeper tips, which pass through to the caller, are not modelled.        *)
(*                                                                         *)
(* An operator whose comment starts with "Faulty:" belongs to no action.   *)
(***************************************************************************)
EXTENDS Integers, Sequences, FiniteSets

CONSTANTS Targets,     \* (vault, stock) pairs
          Refusing,    \* targets whose vault may come to refuse pages
          BatchSizes,  \* inputs of setMaxJobsPerUpkeep
          Batch0,      \* maxJobsPerUpkeep at deployment
          PageSize,    \* plans in one page
          MaxPlans,    \* bound: plans of one target
          MaxEpoch     \* bound: epochs

ASSUME KeeperAssumption ==
  /\ IsFiniteSet(Targets) /\ Refusing \subseteq Targets
  /\ BatchSizes \subseteq Nat
  /\ {Batch0, PageSize} \subseteq Nat \ {0}
  /\ {MaxPlans, MaxEpoch} \subseteq Nat

VARIABLES jobs, jobIndex, maxJobsPerUpkeep,
          upkeep,          \* performData on its way to the chain
          epoch, left, refuses

keeper == <<jobs, jobIndex, maxJobsPerUpkeep>>
vaults == <<epoch, left, refuses>>
vars   == <<keeper, upkeep, vaults>>

Job == [target : Targets, active : BOOLEAN]

Init ==
  /\ jobs = <<>>
  /\ jobIndex = [t \in Targets |-> 0]
  /\ maxJobsPerUpkeep = Batch0
  /\ upkeep = {}
  /\ epoch = 0
  /\ left = [t \in Targets |-> 0]
  /\ refuses = [t \in Targets |-> FALSE]

-----------------------------------------------------------------------------
(* Owner calls.                                                            *)

AddJob(t) ==
  /\ jobIndex[t] = 0
  /\ jobs' = Append(jobs, [target |-> t, active |-> TRUE])
  /\ jobIndex' = [jobIndex EXCEPT ![t] = Len(jobs) + 1]
  /\ UNCHANGED <<maxJobsPerUpkeep, upkeep, vaults>>

(* Faulty: the job that fills the gap keeps its old position.              *)
RemoveJobOnly(i) ==
  /\ jobs' = [k \in 1..(Len(jobs) - 1) |-> IF k = i THEN jobs[Len(jobs)]
                                                     ELSE jobs[k]]
  /\ jobIndex' = [jobIndex EXCEPT ![jobs[i].target] = 0]
  /\ UNCHANGED <<maxJobsPerUpkeep, upkeep, vaults>>

RemoveJob(i) ==
  LET last == jobs[Len(jobs)]
  IN /\ jobs' = [k \in 1..(Len(jobs) - 1) |-> IF k = i THEN last ELSE jobs[k]]
     /\ jobIndex' = [jobIndex EXCEPT ![last.target] = i,
                                     ![jobs[i].target] = 0]
     /\ UNCHANGED <<maxJobsPerUpkeep, upkeep, vaults>>

SetJobActive(i, b) ==
  /\ jobs' = [jobs EXCEPT ![i].active = b]
  /\ UNCHANGED <<jobIndex, maxJobsPerUpkeep, upkeep, vaults>>

SetMaxJobsPerUpkeep(n) ==
  /\ maxJobsPerUpkeep' = IF n = 0 THEN 1 ELSE n
  /\ UNCHANGED <<jobs, jobIndex, upkeep, vaults>>

-----------------------------------------------------------------------------
(* Operator calls.                                                         *)

(* Faulty: forgets that a job can be switched off.                         *)
VaultIsDue(j) == left[j.target] > 0

IsDue(j) == j.active /\ left[j.target] > 0

DueJobs == {i \in 1..Len(jobs) : IsDue(jobs[i])}

(* Faulty: one job too few.                                                *)
BatchBelow(n) == {i \in DueJobs : Cardinality({k \in DueJobs : k <= i}) < n}

(* The first n due jobs, in the order of the list.                         *)
Batch(n) == {i \in DueJobs : Cardinality({k \in DueJobs : k < i}) < n}

(* Faulty: takes a full page even when fewer plans wait.                   *)
FullPages(ts, n) ==
  left' = [t \in Targets |-> IF t \in ts THEN left[t] - n ELSE left[t]]

(* A page of at most n plans for every target of ts.                       *)
Pages(ts, n) ==
  left' = [t \in Targets |->
             IF t \notin ts THEN left[t]
             ELSE IF left[t] > n THEN left[t] - n ELSE 0]

(* Faulty: a refusal by one vault reverts the whole call.                  *)
RunAllOrNone(due) ==
  /\ \A i \in due : ~refuses[jobs[i].target]
  /\ Pages({jobs[i].target : i \in due}, PageSize)

(* Each due job by itself: a vault that refuses is passed over.            *)
RunEach(due) ==
  Pages({jobs[i].target : i \in {k \in due : ~refuses[jobs[k].target]}},
        PageSize)

CheckUpkeep ==
  /\ DueJobs # {}
  /\ upkeep' = Batch(maxJobsPerUpkeep)
  /\ UNCHANGED <<keeper, vaults>>

PerformUpkeep ==
  /\ upkeep # {}
  /\ upkeep' = {}
  /\ RunEach(upkeep \cap DueJobs)
  /\ UNCHANGED <<keeper, epoch, refuses>>

RunDue ==
  /\ RunEach(DueJobs)
  /\ UNCHANGED <<keeper, upkeep, epoch, refuses>>

(* run() names a job by its index and does not look at active; the vault   *)
(* itself refuses an epoch that is not due.                                *)
Run(i, limit) ==
  LET t == jobs[i].target
  IN /\ left[t] > 0 /\ ~refuses[t]
     /\ Pages({t}, IF limit = 0 \/ limit > PageSize THEN PageSize ELSE limit)
     /\ UNCHANGED <<keeper, upkeep, epoch, refuses>>

-----------------------------------------------------------------------------
(* The vaults.                                                             *)

EpochStarts(plans) ==
  /\ epoch < MaxEpoch
  /\ epoch' = epoch + 1
  /\ left' = plans
  /\ UNCHANGED <<keeper, upkeep, refuses>>

Refuses(t) ==
  /\ refuses' = [refuses EXCEPT ![t] = ~@]
  /\ UNCHANGED <<keeper, upkeep, epoch, left>>

Next ==
  \/ \E t \in Targets : AddJob(t)
  \/ \E i \in 1..Len(jobs) : RemoveJob(i)
  \/ \E i \in 1..Len(jobs), b \in BOOLEAN : SetJobActive(i, b)
  \/ \E n \in BatchSizes : SetMaxJobsPerUpkeep(n)
  \/ CheckUpkeep
  \/ PerformUpkeep
  \/ RunDue
  \/ \E i \in 1..Len(jobs), limit \in 0..(PageSize + 1) : Run(i, limit)
  \/ \E plans \in [Targets -> 0..MaxPlans] : EpochStarts(plans)
  \/ \E t \in Refusing : Refuses(t)

Spec == Init /\ [][Next]_vars

-----------------------------------------------------------------------------
TypeOK ==
  /\ jobs \in Seq(Job)
  /\ jobIndex \in [Targets -> Nat]
  /\ maxJobsPerUpkeep \in Nat \ {0}
  /\ upkeep \subseteq Nat
  /\ epoch \in 0..MaxEpoch
  /\ left \in [Targets -> 0..MaxPlans]
  /\ refuses \in [Targets -> BOOLEAN]

(* The list and the index kept per target describe each other, so no pair  *)
(* is listed twice (addJob, and the swap-and-pop of removeJob).            *)
JobIndexConsistent ==
  /\ \A i \in 1..Len(jobs) : jobIndex[jobs[i].target] = i
  /\ \A t \in Targets : jobIndex[t] # 0 =>
       jobIndex[t] <= Len(jobs) /\ jobs[jobIndex[t]].target = t

Active(t) == \E i \in 1..Len(jobs) : jobs[i].target = t /\ jobs[i].active

(* However old the performData, a job that is switched off or removed is   *)
(* never advanced except by an explicit run() (performUpkeep looks every   *)
(* index up again).                                                        *)
OnlyActiveJobsAdvance ==
  [][~(\E i \in 1..Len(jobs), limit \in 0..(PageSize + 1) : Run(i, limit))
       /\ epoch' = epoch =>
       \A t \in Targets : left'[t] # left[t] => Active(t)]_vars

Ready(t) == Active(t) /\ left[t] > 0 /\ ~refuses[t]

ReadyJobsServed == \A t \in Targets : Ready(t) ~> ~Ready(t)

(* An operator that keeps calling runDue serves every ready job, whichever *)
(* other jobs fail (the try/catch of _run).                                *)
RunDueServesAll == WF_vars(RunDue) => ReadyJobsServed

(* The Automation network keeps checking and performing, and from some     *)
(* time on the owner lets the list alone and no vault changes its mind.    *)
Automation == /\ WF_vars(CheckUpkeep) /\ WF_vars(PerformUpkeep)
              /\ <>[][UNCHANGED <<keeper, refuses>>]_vars

(* Automation serves every ready job as long as fewer jobs can fail than a *)
(* batch holds, although checkUpkeep always offers the first due jobs, the *)
(* failing ones among them.                                                *)
AutomationServesAll == Automation => ReadyJobsServed

AutomationSpec == Spec /\ Automation
=============================================================================
