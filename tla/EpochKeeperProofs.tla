------------------------ MODULE EpochKeeperProofs --------------------------
(***************************************************************************)
(* The safety of the keeper, for every set of targets and every bound: its *)
(* types, the consistency of the job list, that only active jobs are       *)
(* advanced, and the steps by which all of them are served: a batch is     *)
(* bounded, failing jobs do not fill it, and a refusal costs nobody else.  *)
(***************************************************************************)
EXTENDS EpochKeeper, FiniteSetTheorems, WellFoundedInduction, TLAPS

LEMMA ConstantTypes ==
  /\ Refusing \subseteq Targets
  /\ \A n \in BatchSizes : n \in Nat
  /\ Batch0 \in Nat \ {0} /\ PageSize \in Nat \ {0}
  /\ MaxPlans \in Nat /\ MaxEpoch \in Nat
BY KeeperAssumption

-----------------------------------------------------------------------------
(* Types.                                                                  *)

LEMMA JobTypes ==
  ASSUME TypeOK, NEW i \in 1..Len(jobs)
  PROVE  /\ jobs[i] \in Job /\ jobs[i].target \in Targets
         /\ jobs[i].active \in BOOLEAN
<1>1. jobs[i] \in Job
  BY DEF TypeOK
<1> QED BY <1>1 DEF Job

LEMMA PagesType ==
  ASSUME TypeOK, NEW ts, NEW n \in Nat, Pages(ts, n)
  PROVE  left' \in [Targets -> 0..MaxPlans]
BY ConstantTypes DEF TypeOK, Pages

LEMMA OwnerCallTypes ==
  ASSUME TypeOK,
         \/ \E t \in Targets : AddJob(t)
         \/ \E i \in 1..Len(jobs) : RemoveJob(i)
         \/ \E i \in 1..Len(jobs), b \in BOOLEAN : SetJobActive(i, b)
         \/ \E n \in BatchSizes : SetMaxJobsPerUpkeep(n)
  PROVE  TypeOK'
<1> USE DEF TypeOK
<1>1. ASSUME NEW t \in Targets, AddJob(t) PROVE TypeOK'
  <2>1. [target |-> t, active |-> TRUE] \in Job
    BY DEF Job
  <2> QED BY <1>1, <2>1 DEF AddJob, vaults
<1>2. ASSUME NEW i \in 1..Len(jobs), RemoveJob(i) PROVE TypeOK'
  <2>1. jobs' \in Seq(Job)
    <3>1. Len(jobs) \in 1..Len(jobs) /\ Len(jobs) - 1 \in Nat
      OBVIOUS
    <3>2. \A k \in 1..(Len(jobs) - 1) :
            (IF k = i THEN jobs[Len(jobs)] ELSE jobs[k]) \in Job
      BY <3>1
    <3> QED BY <1>2, <3>1, <3>2 DEF RemoveJob
  <2>2. jobIndex' \in [Targets -> Nat]
    <3>1. i \in Nat
      OBVIOUS
    <3> QED BY <1>2, <3>1 DEF RemoveJob
  <2> QED BY <1>2, <2>1, <2>2 DEF RemoveJob, vaults
<1>3. ASSUME NEW i \in 1..Len(jobs), NEW b \in BOOLEAN, SetJobActive(i, b)
      PROVE  TypeOK'
  <2>1. [jobs[i] EXCEPT !.active = b] \in Job
    BY JobTypes DEF Job
  <2>2. jobs' \in Seq(Job)
    BY <1>3, <2>1 DEF SetJobActive
  <2> QED BY <1>3, <2>2 DEF SetJobActive, vaults
<1>4. ASSUME NEW n \in BatchSizes, SetMaxJobsPerUpkeep(n) PROVE TypeOK'
  BY <1>4, ConstantTypes DEF SetMaxJobsPerUpkeep, vaults
<1> QED BY <1>1, <1>2, <1>3, <1>4

LEMMA OperatorCallTypes ==
  ASSUME TypeOK,
         \/ CheckUpkeep
         \/ PerformUpkeep
         \/ RunDue
         \/ \E i \in 1..Len(jobs), limit \in 0..(PageSize + 1) : Run(i, limit)
  PROVE  TypeOK'
<1>1. CASE CheckUpkeep
  <2>1. Batch(maxJobsPerUpkeep) \subseteq Nat
    BY DEF Batch, DueJobs, TypeOK
  <2> QED BY <1>1, <2>1 DEF CheckUpkeep, TypeOK, keeper, vaults
<1>2. ASSUME NEW ts, Pages(ts, PageSize), UNCHANGED <<keeper, epoch, refuses>>,
             upkeep' = upkeep \/ upkeep' = {}
      PROVE  TypeOK'
  BY <1>2, PagesType, ConstantTypes DEF TypeOK, keeper
<1>3. CASE PerformUpkeep
  BY <1>2, <1>3 DEF PerformUpkeep, RunEach
<1>4. CASE RunDue
  BY <1>2, <1>4 DEF RunDue, RunEach
<1>5. ASSUME NEW i \in 1..Len(jobs), NEW limit \in 0..(PageSize + 1),
             Run(i, limit)
      PROVE  TypeOK'
  <2> DEFINE n == IF limit = 0 \/ limit > PageSize THEN PageSize ELSE limit
             ts == {jobs[i].target}
  <2>1. n \in Nat
    BY ConstantTypes
  <2>2. Pages(ts, n) /\ UNCHANGED <<keeper, upkeep, epoch, refuses>>
    BY <1>5 DEF Run
  <2> HIDE DEF n, ts
  <2>3. left' \in [Targets -> 0..MaxPlans]
    BY <2>1, <2>2, PagesType
  <2> QED BY <2>2, <2>3 DEF TypeOK, keeper
<1> QED BY <1>1, <1>3, <1>4, <1>5

LEMMA NextTypes == TypeOK /\ [Next]_vars => TypeOK'
<1> SUFFICES ASSUME TypeOK, [Next]_vars PROVE TypeOK'
  OBVIOUS
<1>1. ASSUME NEW plans \in [Targets -> 0..MaxPlans], EpochStarts(plans)
      PROVE  TypeOK'
  BY <1>1, ConstantTypes DEF EpochStarts, TypeOK, keeper
<1>2. ASSUME NEW t \in Refusing, Refuses(t) PROVE TypeOK'
  BY <1>2 DEF Refuses, TypeOK, keeper
<1>3. CASE UNCHANGED vars
  BY <1>3 DEF vars, keeper, vaults, TypeOK
<1> QED BY <1>1, <1>2, <1>3, OwnerCallTypes, OperatorCallTypes DEF Next

(* Every reachable state of the keeper has the declared types: no page     *)
(* takes more plans than wait, no batch size is zero.                      *)
THEOREM KeeperTypeCorrect == Spec => []TypeOK
<1>1. Init => TypeOK
  BY ConstantTypes DEF Init, TypeOK
<1> QED BY <1>1, NextTypes, PTL DEF Spec

-----------------------------------------------------------------------------
(* The job list.                                                           *)

LEMMA AddJobKeepsIndex ==
  ASSUME TypeOK, JobIndexConsistent, NEW t \in Targets, AddJob(t)
  PROVE  JobIndexConsistent'
<1>1. /\ jobs' = Append(jobs, [target |-> t, active |-> TRUE])
      /\ jobIndex' = [jobIndex EXCEPT ![t] = Len(jobs) + 1]
      /\ jobIndex[t] = 0
  BY DEF AddJob
<1>2. jobs \in Seq(Job) /\ Len(jobs) \in Nat /\ jobIndex \in [Targets -> Nat]
  BY DEF TypeOK
<1>3. /\ Len(jobs') = Len(jobs) + 1
      /\ \A i \in 1..Len(jobs) : jobs'[i] = jobs[i]
      /\ jobs'[Len(jobs) + 1].target = t
  BY <1>1, <1>2
<1>4. \A i \in 1..Len(jobs) : jobs[i].target \in Targets
  BY JobTypes
<1>5. ASSUME NEW i \in 1..Len(jobs') PROVE jobIndex'[jobs'[i].target] = i
  <2>1. CASE i = Len(jobs) + 1
    BY <1>1, <1>2, <1>3, <2>1
  <2>2. CASE i \in 1..Len(jobs)
    <3>1. jobs[i].target # t
      BY <1>1, <1>2, <2>2 DEF JobIndexConsistent
    <3> QED BY <1>1, <1>2, <1>3, <1>4, <2>2, <3>1 DEF JobIndexConsistent
  <2> QED BY <1>2, <1>3, <2>1, <2>2
<1>6. ASSUME NEW u \in Targets, jobIndex'[u] # 0
      PROVE  jobIndex'[u] <= Len(jobs') /\ jobs'[jobIndex'[u]].target = u
  <2>1. CASE u = t
    BY <1>1, <1>2, <1>3, <2>1
  <2>2. CASE u # t
    <3>1. jobIndex'[u] = jobIndex[u] /\ jobIndex[u] \in Nat
      BY <1>1, <1>2, <2>2
    <3>2. jobIndex[u] <= Len(jobs) /\ jobs[jobIndex[u]].target = u
      BY <1>6, <3>1 DEF JobIndexConsistent
    <3>3. jobIndex[u] \in 1..Len(jobs)
      BY <1>2, <1>6, <3>1, <3>2
    <3> QED BY <1>2, <1>3, <3>1, <3>2, <3>3
  <2> QED BY <2>1, <2>2
<1> QED BY <1>5, <1>6 DEF JobIndexConsistent

(* Swap-and-pop: the last job takes the place of the one that leaves.      *)
LEMMA RemoveJobKeepsIndex ==
  ASSUME TypeOK, JobIndexConsistent, NEW i \in 1..Len(jobs), RemoveJob(i)
  PROVE  JobIndexConsistent'
<1> DEFINE n == Len(jobs)
           gone == jobs[i].target
           last == jobs[n].target
<1>1. /\ jobs' = [k \in 1..(n - 1) |-> IF k = i THEN jobs[n] ELSE jobs[k]]
      /\ jobIndex' = [jobIndex EXCEPT ![last] = i, ![gone] = 0]
  BY DEF RemoveJob
<1>2. /\ jobs \in Seq(Job) /\ n \in Nat /\ n \in 1..n /\ i \in 1..n
      /\ jobIndex \in [Targets -> Nat]
  BY DEF TypeOK
<1>3. \A k \in 1..n : jobs[k].target \in Targets
  BY JobTypes
<1>4. \A k \in 1..n : jobIndex[jobs[k].target] = k
  BY DEF JobIndexConsistent
<1>5. Len(jobs') = n - 1 /\ \A k \in 1..(n - 1) :
        jobs'[k] = IF k = i THEN jobs[n] ELSE jobs[k]
  BY <1>1, <1>2
<1> HIDE DEF n
<1>6. gone \in Targets /\ last \in Targets /\ jobIndex[gone] = i
      /\ jobIndex[last] = n
  BY <1>2, <1>3, <1>4
<1> HIDE DEF gone, last
<1>7. \A u \in Targets : jobIndex'[u] = IF u = gone THEN 0
                                        ELSE IF u = last THEN i
                                        ELSE jobIndex[u]
  BY <1>1, <1>2, <1>6
<1>8. ASSUME NEW k \in 1..Len(jobs') PROVE jobIndex'[jobs'[k].target] = k
  <2>1. k \in 1..(n - 1) /\ k \in 1..n /\ k # n
    BY <1>2, <1>5
  <2>2. CASE k = i
    <3>1. jobs'[k].target = last
      BY <1>5, <2>1, <2>2 DEF last
    <3>2. last # gone
      BY <1>6, <2>1, <2>2
    <3> QED BY <1>6, <1>7, <2>2, <3>1, <3>2
  <2>3. CASE k # i
    <3>1. jobs'[k].target = jobs[k].target /\ jobIndex[jobs[k].target] = k
      BY <1>4, <1>5, <2>1, <2>3
    <3>2. jobs[k].target # gone /\ jobs[k].target # last
      BY <1>6, <2>1, <2>3, <3>1
    <3> QED BY <1>3, <1>7, <2>1, <3>1, <3>2
  <2> QED BY <2>2, <2>3
<1>9. ASSUME NEW u \in Targets, jobIndex'[u] # 0
      PROVE  jobIndex'[u] <= Len(jobs') /\ jobs'[jobIndex'[u]].target = u
  <2>1. u # gone
    BY <1>7, <1>9
  <2>2. CASE u = last
    <3>1. jobIndex'[u] = i
      BY <1>7, <2>1, <2>2
    <3>2. i # n
      BY <2>1, <2>2 DEF gone, last
    <3>3. i \in 1..(n - 1)
      BY <1>2, <3>2
    <3> QED BY <1>5, <2>2, <3>1, <3>3 DEF last
  <2>3. CASE u # last
    <3>1. jobIndex'[u] = jobIndex[u] /\ jobIndex[u] \in Nat
      BY <1>2, <1>7, <2>1, <2>3
    <3>2. jobIndex[u] <= n /\ jobs[jobIndex[u]].target = u
      BY <1>9, <3>1 DEF JobIndexConsistent, n
    <3>3. jobIndex[u] # n /\ jobIndex[u] # i
      BY <2>1, <2>3, <3>2 DEF gone, last
    <3>4. jobIndex[u] \in 1..(n - 1)
      BY <1>2, <1>9, <3>1, <3>2, <3>3
    <3> QED BY <1>5, <3>1, <3>2, <3>3, <3>4
  <2> QED BY <2>2, <2>3
<1> QED BY <1>8, <1>9 DEF JobIndexConsistent

LEMMA SetJobActiveKeepsIndex ==
  ASSUME TypeOK, JobIndexConsistent, NEW i \in 1..Len(jobs),
         NEW b \in BOOLEAN, SetJobActive(i, b)
  PROVE  JobIndexConsistent'
<1>1. /\ Len(jobs') = Len(jobs) /\ jobIndex' = jobIndex
      /\ \A k \in 1..Len(jobs) : jobs'[k].target = jobs[k].target
  BY DEF SetJobActive, TypeOK, Job
<1>2. \A t \in Targets : jobIndex[t] # 0 /\ jobIndex[t] <= Len(jobs)
        => jobIndex[t] \in 1..Len(jobs)
  BY DEF TypeOK
<1> QED BY <1>1, <1>2 DEF JobIndexConsistent

LEMMA NextKeepsIndex ==
  TypeOK /\ JobIndexConsistent /\ [Next]_vars => JobIndexConsistent'
<1> SUFFICES ASSUME TypeOK, JobIndexConsistent, [Next]_vars
             PROVE  JobIndexConsistent'
  OBVIOUS
<1>1. UNCHANGED <<jobs, jobIndex>> => JobIndexConsistent'
  BY DEF JobIndexConsistent
<1>2. CASE \/ \E n \in BatchSizes : SetMaxJobsPerUpkeep(n)
           \/ CheckUpkeep \/ PerformUpkeep \/ RunDue
           \/ \E i \in 1..Len(jobs), limit \in 0..(PageSize + 1) : Run(i, limit)
           \/ \E plans \in [Targets -> 0..MaxPlans] : EpochStarts(plans)
           \/ \E t \in Refusing : Refuses(t)
           \/ UNCHANGED vars
  BY <1>1, <1>2 DEF SetMaxJobsPerUpkeep, CheckUpkeep, PerformUpkeep, RunDue,
                    Run, EpochStarts, Refuses, vars, keeper
<1> QED BY <1>2, AddJobKeepsIndex, RemoveJobKeepsIndex, SetJobActiveKeepsIndex
        DEF Next

(* The job list and the index per target always describe each other, so no *)
(* (vault, stock) pair is listed twice and none is lost when another one   *)
(* is removed.                                                             *)
THEOREM JobListIsConsistent == Spec => []JobIndexConsistent
<1>1. Init => JobIndexConsistent
  BY DEF Init, JobIndexConsistent
<1> QED BY <1>1, NextKeepsIndex, KeeperTypeCorrect, PTL DEF Spec

-----------------------------------------------------------------------------
(* Stale performData.                                                      *)

LEMMA OnlyDueAdvance ==
  ASSUME TypeOK, NEW due, due \subseteq DueJobs, RunEach(due),
         NEW t \in Targets, left'[t] # left[t]
  PROVE  Active(t)
<1> DEFINE ts == {jobs[i].target : i \in {k \in due : ~refuses[jobs[k].target]}}
<1>1. left' = [u \in Targets |->
                 IF u \notin ts THEN left[u]
                 ELSE IF left[u] > PageSize THEN left[u] - PageSize ELSE 0]
  BY DEF RunEach, Pages
<1>2. t \in ts
  <2> HIDE DEF ts
  <2> QED BY <1>1
<1>3. PICK i \in due : jobs[i].target = t
  BY <1>2
<1> QED BY <1>3 DEF DueJobs, IsDue, Active

(* performData of any age, naming jobs by positions that may since have    *)
(* been refilled or switched off, advances active jobs only; so does       *)
(* runDue.                                                                 *)
THEOREM OnlyActiveJobsEverAdvance == Spec => OnlyActiveJobsAdvance
<1>1. ASSUME TypeOK, [Next]_vars,
             ~(\E i \in 1..Len(jobs), limit \in 0..(PageSize + 1) : Run(i, limit)),
             epoch' = epoch, NEW t \in Targets, left'[t] # left[t]
      PROVE  Active(t)
  <2>1. ~(\E plans \in [Targets -> 0..MaxPlans] : EpochStarts(plans))
    BY <1>1, ConstantTypes DEF EpochStarts, TypeOK
  <2>2. \/ left' = left \/ PerformUpkeep \/ RunDue
    BY <1>1, <2>1 DEF Next, AddJob, RemoveJob, SetJobActive, Refuses,
                      SetMaxJobsPerUpkeep, CheckUpkeep, vars, vaults
  <2>3. CASE PerformUpkeep
    <3>1. RunEach(upkeep \cap DueJobs)
      BY <2>3 DEF PerformUpkeep
    <3> QED BY <1>1, <3>1, OnlyDueAdvance
  <2>4. CASE RunDue
    BY <1>1, <2>4, OnlyDueAdvance DEF RunDue
  <2> QED BY <1>1, <2>2, <2>3, <2>4
<1>2. TypeOK /\ [Next]_vars =>
        [~(\E i \in 1..Len(jobs), limit \in 0..(PageSize + 1) : Run(i, limit))
           /\ epoch' = epoch =>
           \A t \in Targets : left'[t] # left[t] => Active(t)]_vars
  BY <1>1
<1> QED BY <1>2, KeeperTypeCorrect, PTL DEF Spec, OnlyActiveJobsAdvance

-----------------------------------------------------------------------------
(* What checkUpkeep asks for, and what the calls achieve.                  *)

LEMMA LeastOf ==
  ASSUME NEW S \in SUBSET Nat, S # {}
  PROVE  \E m \in S : \A k \in S : m <= k
<1> DEFINE below == OpToRel(<, Nat)
<1>1. \A k, m \in Nat : k < m => <<k, m>> \in below
  BY DEF OpToRel
<1>2. IsWellFoundedOn(below, Nat)
  BY NatLessThanWellFounded
<1> HIDE DEF below
<1>3. PICK m \in S : \A k \in S : ~ (<<k, m>> \in below)
  BY <1>2, WFMin
<1>4. ASSUME NEW k \in S PROVE m <= k
  <2>1. k \in Nat /\ m \in Nat
    OBVIOUS
  <2>2. ~(k < m)
    BY <1>1, <1>3, <2>1
  <2> QED BY <2>1, <2>2
<1> QED BY <1>4

LEMMA DueJobsFinite ==
  ASSUME TypeOK
  PROVE  /\ DueJobs \subseteq 1..Len(jobs) /\ IsFiniteSet(DueJobs)
         /\ DueJobs \subseteq Nat
<1>1. Len(jobs) \in Nat /\ DueJobs \subseteq 1..Len(jobs)
  BY DEF TypeOK, DueJobs
<1>2. IsFiniteSet(1..Len(jobs))
  BY <1>1, FS_Interval
<1>3. IsFiniteSet(DueJobs)
  BY <1>1, <1>2, FS_Subset
<1>4. DueJobs \subseteq Nat
  BY <1>1
<1> QED BY <1>1, <1>3, <1>4

(* Due jobs of a lower index.                                              *)
Before(i) == {k \in DueJobs : k < i}

LEMMA BeforeCounts ==
  ASSUME TypeOK, NEW i \in DueJobs
  PROVE  /\ IsFiniteSet(Before(i)) /\ Cardinality(Before(i)) \in Nat
         /\ \A k \in DueJobs : k < i => Cardinality(Before(k)) < Cardinality(Before(i))
<1>1. \A k \in DueJobs : IsFiniteSet(Before(k)) /\ Cardinality(Before(k)) \in Nat
  BY DueJobsFinite, FS_Subset, FS_CardinalityType DEF Before
<1>2. ASSUME NEW k \in DueJobs, k < i
      PROVE  Cardinality(Before(k)) < Cardinality(Before(i))
  <2>1. Before(k) \in SUBSET Before(i) /\ k \in Before(i) /\ k \notin Before(k)
    BY <1>2, DueJobsFinite DEF Before
  <2>2. /\ Cardinality(Before(k)) <= Cardinality(Before(i))
        /\ Cardinality(Before(k)) # Cardinality(Before(i))
    BY <1>1, <2>1, FS_Subset
  <2> QED BY <1>1, <2>2
<1> QED BY <1>1, <1>2

LEMMA BatchSize ==
  ASSUME TypeOK, NEW n \in Nat
  PROVE  IsFiniteSet(Batch(n)) /\ Cardinality(Batch(n)) <= n
<1> DEFINE rank == [i \in Batch(n) |-> Cardinality(Before(i)) + 1]
<1>1. Batch(n) \in SUBSET DueJobs
  BY DEF Batch
<1>2. \A i \in Batch(n) : Cardinality(Before(i)) < n
  BY DEF Batch, Before
<1>3. rank \in [Batch(n) -> 1..n]
  BY <1>1, <1>2, BeforeCounts
<1>4. \A i, k \in Batch(n) : i # k => rank[i] # rank[k]
  <2>1. ASSUME NEW i \in Batch(n), NEW k \in Batch(n), i # k
        PROVE  rank[i] # rank[k]
    <3>1. i < k \/ k < i
      BY <1>1, <2>1, DueJobsFinite
    <3> QED BY <1>1, <3>1, BeforeCounts
  <2> QED BY <2>1
<1>5. IsFiniteSet(Batch(n)) /\ IsFiniteSet(1..n) /\ Cardinality(1..n) = n
  BY <1>1, DueJobsFinite, FS_Subset, FS_Interval
<1>6. Cardinality(Batch(n)) \in Nat
  BY <1>5, FS_CardinalityType
<1> HIDE DEF rank
<1>7. ~(n < Cardinality(Batch(n)))
  BY <1>3, <1>4, <1>5, FS_PigeonHole
<1> QED BY <1>5, <1>6, <1>7

(* A call that checkUpkeep asks for holds no more jobs than the owner set. *)
BatchBounded == [][CheckUpkeep => Cardinality(upkeep') <= maxJobsPerUpkeep]_vars

(* checkUpkeep always offers the lowest due indices, the failing ones      *)
(* among them, and never asks for more jobs than the owner allows.         *)
THEOREM BatchesAreBounded == Spec => BatchBounded
<1>1. TypeOK /\ [Next]_vars =>
        [CheckUpkeep => Cardinality(upkeep') <= maxJobsPerUpkeep]_vars
  BY BatchSize DEF TypeOK, CheckUpkeep
<1> QED BY <1>1, KeeperTypeCorrect, PTL DEF Spec, BatchBounded

(* Due jobs whose vault would refuse.                                      *)
Failing == {i \in DueJobs : refuses[jobs[i].target]}

(* As long as fewer due jobs fail than the batch holds, it holds one that  *)
(* does not fail, if there is any.                                         *)
BatchReachesReady ==
  Cardinality(Failing) < maxJobsPerUpkeep /\ (\E t \in Targets : Ready(t)) =>
    \E i \in Batch(maxJobsPerUpkeep) : Ready(jobs[i].target)

(* Failing jobs at the head of the list do not starve the others, although *)
(* checkUpkeep offers them first on every call, until they fill a batch.   *)
THEOREM FailuresLeaveRoom == Spec => []BatchReachesReady
<1>1. TypeOK => BatchReachesReady
  <2> DEFINE n == maxJobsPerUpkeep
             S == DueJobs \ Failing
  <2> SUFFICES ASSUME TypeOK, Cardinality(Failing) < n,
                      NEW t \in Targets, Ready(t)
               PROVE  \E i \in Batch(n) : Ready(jobs[i].target)
    BY DEF BatchReachesReady
  <2>1. S \in SUBSET Nat
    BY DueJobsFinite
  <2>2. S # {}
    BY DEF Ready, Active, DueJobs, IsDue, Failing
  <2>3. PICK m \in S : \A k \in S : m <= k
    BY <2>1, <2>2, LeastOf
  <2>4. Before(m) \in SUBSET Failing
    BY <2>1, <2>3, DueJobsFinite DEF Before
  <2>5. /\ IsFiniteSet(Failing)
        /\ Cardinality(Failing) \in Nat /\ Cardinality(Before(m)) \in Nat
    BY DueJobsFinite, BeforeCounts, FS_Subset, FS_CardinalityType DEF Failing
  <2>6. Cardinality(Before(m)) < n
    BY <2>4, <2>5, FS_Subset DEF TypeOK
  <2>7. m \in Batch(n)
    BY <2>6 DEF Batch, Before
  <2>8. Ready(jobs[m].target)
    BY <2>3 DEF Ready, Active, DueJobs, IsDue, Failing
  <2> QED BY <2>7, <2>8
<1> QED BY <1>1, KeeperTypeCorrect, PTL DEF Spec

LEMMA ServedAdvance ==
  ASSUME TypeOK, NEW due, due \subseteq DueJobs, RunEach(due),
         NEW i \in due, ~refuses[jobs[i].target]
  PROVE  left'[jobs[i].target] < left[jobs[i].target]
<1> DEFINE ts == {jobs[k].target : k \in {k \in due : ~refuses[jobs[k].target]}}
           t  == jobs[i].target
<1>1. left' = [u \in Targets |->
                 IF u \notin ts THEN left[u]
                 ELSE IF left[u] > PageSize THEN left[u] - PageSize ELSE 0]
  BY DEF RunEach, Pages
<1>2. t \in ts /\ t \in Targets /\ left[t] > 0 /\ left[t] \in Nat
  BY JobTypes, ConstantTypes DEF DueJobs, IsDue, TypeOK
<1> HIDE DEF ts
<1>3. left'[t] = IF left[t] > PageSize THEN left[t] - PageSize ELSE 0
  BY <1>1, <1>2
<1> QED BY <1>2, <1>3, ConstantTypes

(* Whichever vaults refuse their pages, and however old performData is,    *)
(* runDue and performUpkeep buy a page for every other job they look at    *)
(* that is due.                                                            *)
OthersAdvance ==
  [][\A i \in 1..Len(jobs) :
       /\ IsDue(jobs[i]) /\ ~refuses[jobs[i].target]
       /\ RunDue \/ (PerformUpkeep /\ i \in upkeep)
       => left'[jobs[i].target] < left[jobs[i].target]]_vars

(* A vault that reverts costs its own page only (the try/catch of _run).   *)
THEOREM RefusalsCostNobodyElse == Spec => OthersAdvance
<1>1. ASSUME TypeOK, NEW i \in 1..Len(jobs),
             IsDue(jobs[i]), ~refuses[jobs[i].target],
             RunDue \/ (PerformUpkeep /\ i \in upkeep)
      PROVE  left'[jobs[i].target] < left[jobs[i].target]
  <2>1. i \in DueJobs
    BY <1>1 DEF DueJobs
  <2>2. CASE RunDue
    BY <1>1, <2>1, <2>2, ServedAdvance DEF RunDue
  <2>3. CASE PerformUpkeep /\ i \in upkeep
    <3>1. RunEach(upkeep \cap DueJobs) /\ i \in upkeep \cap DueJobs
      BY <2>1, <2>3 DEF PerformUpkeep
    <3> QED BY <1>1, <3>1, ServedAdvance
  <2> QED BY <1>1, <2>2, <2>3
<1>2. TypeOK /\ [Next]_vars =>
        [\A i \in 1..Len(jobs) :
           /\ IsDue(jobs[i]) /\ ~refuses[jobs[i].target]
           /\ RunDue \/ (PerformUpkeep /\ i \in upkeep)
           => left'[jobs[i].target] < left[jobs[i].target]]_vars
  BY <1>1
<1> QED BY <1>2, KeeperTypeCorrect, PTL DEF Spec, OthersAdvance
=============================================================================
